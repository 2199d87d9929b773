------------------------------ MODULE KVRegister ------------------------------
(***************************************************************************)
(* What the key-value store promises its clients: every operation that     *)
(* succeeds takes effect atomically at one instant between its call and    *)
(* its return, and an operation that is answered with an error has no      *)
(* effect.  The step function is the sequential model the repository's     *)
(* linearizability checker uses (lab3/lcheck/main.go, crModel).            *)
(***************************************************************************)
CONSTANTS Clients,   \* client threads, each with one outstanding call at most
          Keys,
          Values,
          Unset      \* the "value" of a key that was never SET

VARIABLES store,     \* the one copy of the data
          op,        \* op[c]: the pending request of client c, or NoReq
          ans,       \* ans[c]: the outcome of op[c], Pending until it is decided
          res        \* res[c]: what the last completed call of c returned

vars == <<store, op, ans, res>>

Requests == [op : {"SET"}, key : Keys, val : Values]
              \cup [op : {"GET"}, key : Keys, val : {Unset}]
NoReq    == [op |-> "none"]

OK(v)    == [status |-> "OK", val |-> v]
Err      == [status |-> "Err", val |-> Unset]
Pending  == [status |-> "Pending", val |-> Unset]
Answers  == [status : {"OK", "Err"}, val : Values \cup {Unset}]

Init ==
  /\ store = [k \in Keys |-> Unset]
  /\ op    = [c \in Clients |-> NoReq]
  /\ ans   = [c \in Clients |-> Pending]
  /\ res   = [c \in Clients |-> Pending]

Call(c, r) ==
  /\ op[c] = NoReq
  /\ op' = [op EXCEPT ![c] = r]
  /\ UNCHANGED <<store, ans, res>>

\* A Put always succeeds and overwrites.
LinearizeSet(c) ==
  /\ op[c].op = "SET"
  /\ ans[c] = Pending
  /\ store' = [store EXCEPT ![op[c].key] = op[c].val]
  /\ ans' = [ans EXCEPT ![c] = OK(Unset)]
  /\ UNCHANGED <<op, res>>

\* A Get that succeeds returns the current value.
LinearizeGet(c) ==
  /\ op[c].op = "GET"
  /\ ans[c] = Pending
  /\ store[op[c].key] # Unset
  /\ ans' = [ans EXCEPT ![c] = OK(store[op[c].key])]
  /\ UNCHANGED <<store, op, res>>

\* An operation may fail, and then it leaves the store alone.
Fail(c) ==
  /\ op[c] # NoReq
  /\ ans[c] = Pending
  /\ ans' = [ans EXCEPT ![c] = Err]
  /\ UNCHANGED <<store, op, res>>

Return(c) ==
  /\ op[c] # NoReq
  /\ ans[c] # Pending
  /\ res' = [res EXCEPT ![c] = ans[c]]
  /\ op'  = [op EXCEPT ![c] = NoReq]
  /\ ans' = [ans EXCEPT ![c] = Pending]
  /\ UNCHANGED store

Next ==
  \E c \in Clients :
    \/ \E r \in Requests : Call(c, r)
    \/ LinearizeSet(c)
    \/ LinearizeGet(c)
    \/ Fail(c)
    \/ Return(c)

Spec == Init /\ [][Next]_vars

TypeOK ==
  /\ store \in [Keys -> Values \cup {Unset}]
  /\ op  \in [Clients -> Requests \cup {NoReq}]
  /\ ans \in [Clients -> Answers \cup {Pending}]
  /\ res \in [Clients -> Answers \cup {Pending}]
=============================================================================
