------------------------------ MODULE VectorTime ------------------------------
(***************************************************************************)
(* The clocks of lab4 (bayou/storage.py).  A LogicalTime is the time ts at *)
(* which the server name stamped a write; a VectorTime holds one time for  *)
(* every server.  Servers are numbered in the order of their names.        *)
(***************************************************************************)
EXTENDS Naturals

CONSTANT NumServers

ASSUME NumServersAssumption == NumServers \in Nat \ {0}

Servers     == 1 .. NumServers
LogicalTime == [ts : Nat, name : Servers]
Vectors     == [Servers -> Nat]

\* LogicalTime.__lt__
Less(a, b) == a.ts < b.ts \/ (a.ts = b.ts /\ a.name < b.name)

\* VectorTime.new
NewVtime == [s \in Servers |-> 0]

\* v.is_ltime_earlier(l): what happened at l is covered by v.
IsLtimeEarlier(v, l) == l.ts <= v[l.name]

\* v.is_vtime_earlier(u): u is covered by v.
IsVtimeEarlier(v, u) == \A s \in Servers : IsLtimeEarlier(v, [ts |-> u[s], name |-> s])

\* advance, and what it asserts.
CanAdvance(v, l) == v[l.name] <= l.ts
Advance(v, l)    == [v EXCEPT ![l.name] = l.ts]
=============================================================================
