--------------------------- MODULE BayouStorage_proofs ---------------------------
(***************************************************************************)
(* The clocks of lab4 behave as the logs that rely on them need, and so    *)
(* do the operators that Bayou's storages are built from.                  *)
(***************************************************************************)
EXTENDS Bayou, FiniteSetTheorems, TLAPS

(***************************************************************************)
(* LogicalTime.__lt__ is a strict total order: every server sorts the same *)
(* writes in the same way (SortedList by ltime), whatever order they reach *)
(* it in, and no two different times are taken for equal.                  *)
(***************************************************************************)
THEOREM TotalOrder ==
  /\ \A a \in LogicalTime : ~Less(a, a)
  /\ \A a, b, c \in LogicalTime : Less(a, b) /\ Less(b, c) => Less(a, c)
  /\ \A a, b \in LogicalTime : Less(a, b) \/ Less(b, a) \/ a = b
<1>1. ASSUME NEW a \in LogicalTime PROVE a.ts \in Nat /\ a.name \in Nat
  BY NumServersAssumption DEF LogicalTime, Servers
<1>2. ASSUME NEW a \in LogicalTime PROVE ~Less(a, a)
  BY <1>1 DEF Less
<1>3. ASSUME NEW a \in LogicalTime, NEW b \in LogicalTime, NEW c \in LogicalTime,
             Less(a, b), Less(b, c)
      PROVE  Less(a, c)
  <2>1. /\ a.ts \in Nat /\ b.ts \in Nat /\ c.ts \in Nat
        /\ a.name \in Nat /\ b.name \in Nat /\ c.name \in Nat
    BY <1>1
  <2> QED
    BY <1>3, <2>1 DEF Less
<1>4. ASSUME NEW a \in LogicalTime, NEW b \in LogicalTime,
             ~Less(a, b), ~Less(b, a)
      PROVE  a = b
  <2>1. a.ts = b.ts /\ a.name = b.name
    BY <1>1, <1>4 DEF Less
  <2> QED
    BY <2>1 DEF LogicalTime
<1> QED
  BY <1>2, <1>3, <1>4

\* What is_vtime_earlier means for two vectors over the same servers.
LEMMA EarlierIsPointwise ==
  ASSUME NEW u \in Vectors, NEW v \in Vectors
  PROVE  IsVtimeEarlier(v, u) <=> \A s \in Servers : u[s] <= v[s]
BY DEF IsVtimeEarlier, IsLtimeEarlier

(***************************************************************************)
(* is_vtime_earlier is a partial order with the new vector as its least    *)
(* element: two servers of which each covers the other have equal vectors, *)
(* which is what chk_invariants (F = C) and the assertion of anti_entropy  *)
(* build on.                                                               *)
(***************************************************************************)
THEOREM PartialOrder ==
  /\ \A v \in Vectors : IsVtimeEarlier(v, v) /\ IsVtimeEarlier(v, NewVtime)
  /\ \A u, v, w \in Vectors :
       IsVtimeEarlier(w, v) /\ IsVtimeEarlier(v, u) => IsVtimeEarlier(w, u)
  /\ \A u, v \in Vectors : IsVtimeEarlier(v, u) /\ IsVtimeEarlier(u, v) => u = v
<1>1. NewVtime \in Vectors
  BY DEF NewVtime, Vectors
<1>2. ASSUME NEW v \in Vectors, NEW s \in Servers PROVE v[s] \in Nat
  BY DEF Vectors
<1>3. ASSUME NEW v \in Vectors
      PROVE  IsVtimeEarlier(v, v) /\ IsVtimeEarlier(v, NewVtime)
  <2>1. \A s \in Servers : v[s] <= v[s] /\ NewVtime[s] <= v[s]
    BY <1>2 DEF NewVtime
  <2> QED
    BY <1>1, <2>1, EarlierIsPointwise
<1>4. ASSUME NEW u \in Vectors, NEW v \in Vectors, NEW w \in Vectors,
             IsVtimeEarlier(w, v), IsVtimeEarlier(v, u)
      PROVE  IsVtimeEarlier(w, u)
  <2>1. \A s \in Servers : u[s] <= v[s] /\ v[s] <= w[s]
    BY <1>4, EarlierIsPointwise
  <2>2. \A s \in Servers : u[s] <= w[s]
    BY <1>2, <2>1
  <2> QED
    BY <2>2, EarlierIsPointwise
<1>5. ASSUME NEW u \in Vectors, NEW v \in Vectors,
             IsVtimeEarlier(v, u), IsVtimeEarlier(u, v)
      PROVE  u = v
  <2>1. \A s \in Servers : u[s] <= v[s] /\ v[s] <= u[s]
    BY <1>5, EarlierIsPointwise
  <2>2. \A s \in Servers : u[s] = v[s]
    BY <1>2, <2>1
  <2> QED
    BY <2>2 DEF Vectors
<1> QED
  BY <1>3, <1>4, <1>5

(***************************************************************************)
(* advance, where its assertion holds, takes no clock backwards, covers    *)
(* the write it was called for, and covers no write of another server that *)
(* was not covered before.                                                 *)
(***************************************************************************)
THEOREM AdvanceMonotone ==
  ASSUME NEW v \in Vectors, NEW l \in LogicalTime, CanAdvance(v, l)
  PROVE  /\ Advance(v, l) \in Vectors
         /\ IsVtimeEarlier(Advance(v, l), v)
         /\ IsLtimeEarlier(Advance(v, l), l)
         /\ \A m \in LogicalTime : 
              m.name # l.name => (IsLtimeEarlier(Advance(v, l), m) <=> IsLtimeEarlier(v, m))
<1> DEFINE w == Advance(v, l)
<1>1. l.ts \in Nat /\ l.name \in Servers
  BY DEF LogicalTime
<1>2. w \in Vectors /\ w[l.name] = l.ts
  BY <1>1 DEF Advance, Vectors
<1>3. \A s \in Servers : s # l.name => w[s] = v[s]
  BY DEF Advance, Vectors
<1>4. v[l.name] <= l.ts
  BY DEF CanAdvance
<1>5. \A s \in Servers : v[s] \in Nat
  BY DEF Vectors
<1> HIDE DEF w
<1>6. \A s \in Servers : v[s] <= w[s]
  BY <1>1, <1>2, <1>3, <1>4, <1>5
<1>7. IsVtimeEarlier(w, v)
  BY <1>2, <1>6, EarlierIsPointwise
<1>8. IsLtimeEarlier(w, l)
  BY <1>1, <1>2 DEF IsLtimeEarlier
<1>9. ASSUME NEW m \in LogicalTime, m.name # l.name
      PROVE  IsLtimeEarlier(w, m) <=> IsLtimeEarlier(v, m)
  BY <1>3, <1>9 DEF IsLtimeEarlier, LogicalTime
<1> QED
  BY <1>2, <1>7, <1>8, <1>9 DEF w

-----------------------------------------------------------------------------
(***************************************************************************)
(* Numbers and sequences.                                                  *)
(***************************************************************************)

\* A set of natural numbers has a least element.
LEMMA LeastNat ==
  ASSUME NEW T, T \subseteq Nat, T # {}
  PROVE  \E m \in T : \A k \in T : m <= k
<1> DEFINE R == OpToRel(<, Nat)
<1>1. IsWellFoundedOn(R, Nat)
  BY NatLessThanWellFounded
<1>2. R = {ss \in Nat \X Nat : ss[1] < ss[2]}
  BY DEF OpToRel
<1> HIDE DEF R
<1>3. PICK x \in T : \A y \in T : <<y, x>> \notin R
  BY <1>1, WFMin, Zenon
<1>4. ASSUME NEW y \in T, y < x PROVE FALSE
  <2>1. <<y, x>> \in Nat \X Nat /\ <<y, x>>[1] < <<y, x>>[2]
    BY <1>4
  <2> QED BY <2>1, <1>2, <1>3
<1> QED BY <1>4

\* A bounded set of natural numbers has a greatest one.
LEMMA MaxExists ==
  ASSUME NEW T, T \subseteq Nat, T # {}, NEW b \in Nat, \A x \in T : x <= b
  PROVE  Max(T) \in T /\ \A y \in T : y <= Max(T)
<1> DEFINE B == {c \in Nat : \A x \in T : x <= c}
<1>1. PICK m \in B : \A k \in B : m <= k
  BY LeastNat
<1>2. m \in T
  <2> SUFFICES ASSUME m \notin T PROVE FALSE
    OBVIOUS
  <2>1. \A x \in T : x <= m - 1
    OBVIOUS
  <2>2. m - 1 \in Nat
    <3>1. PICK x \in T : x <= m - 1
      BY <2>1
    <3> QED BY <3>1
  <2> QED BY <2>1, <2>2, <1>1
<1>3. \E x \in T : \A y \in T : x >= y
  BY <1>2
<1> QED BY <1>3 DEF Max

\* The elements of a sequence, and of a concatenation.
LEMMA SeqElements ==
  ASSUME NEW S, NEW q \in Seq(S)
  PROVE  /\ ToSet(q) = {q[i] : i \in 1 .. Len(q)} /\ ToSet(q) \subseteq S
         /\ Len(q) \in Nat /\ DOMAIN q = 1 .. Len(q)
BY DEF ToSet

LEMMA ConcatElements ==
  ASSUME NEW S, NEW q \in Seq(S), NEW r \in Seq(S)
  PROVE  /\ q \o r \in Seq(S) /\ Len(q \o r) = Len(q) + Len(r)
         /\ \A i \in 1 .. Len(q) : (q \o r)[i] = q[i]
         /\ \A i \in 1 .. Len(r) : (q \o r)[Len(q) + i] = r[i]
         /\ ToSet(q \o r) = ToSet(q) \cup ToSet(r)
<1>1. /\ q \o r \in Seq(S) /\ Len(q \o r) = Len(q) + Len(r)
      /\ \A i \in 1 .. Len(q) : (q \o r)[i] = q[i]
      /\ \A i \in 1 .. Len(r) : (q \o r)[Len(q) + i] = r[i]
  OBVIOUS
<1> DEFINE t == q \o r
<1>2. /\ ToSet(t) = {t[i] : i \in 1 .. Len(t)} /\ ToSet(q) = {q[i] : i \in 1 .. Len(q)}
      /\ ToSet(r) = {r[i] : i \in 1 .. Len(r)} /\ Len(q) \in Nat /\ Len(r) \in Nat
  BY <1>1, SeqElements
<1>3. Len(t) = Len(q) + Len(r)
  BY <1>1
<1> HIDE DEF t
<1>4. ASSUME NEW i \in 1 .. Len(t) PROVE t[i] \in ToSet(q) \cup ToSet(r)
  <2>1. CASE i <= Len(q)
    <3>1. i \in 1 .. Len(q)
      BY <1>2, <1>3, <2>1
    <3>2. t[i] = q[i]
      BY <3>1, <1>1 DEF t
    <3> QED BY <3>1, <3>2, <1>2
  <2>2. CASE i > Len(q)
    <3>1. i - Len(q) \in 1 .. Len(r) /\ i = Len(q) + (i - Len(q))
      BY <1>2, <1>3, <2>2
    <3>2. t[i] = r[i - Len(q)]
      BY <3>1, <1>1 DEF t
    <3> QED BY <3>1, <3>2, <1>2
  <2> QED BY <1>2, <1>3, <2>1, <2>2
<1>5. ASSUME NEW i \in 1 .. Len(q) PROVE q[i] \in ToSet(t)
  <2>1. i \in 1 .. Len(t) /\ t[i] = q[i]
    BY <1>1, <1>2, <1>3 DEF t
  <2> QED BY <2>1, <1>2
<1>6. ASSUME NEW i \in 1 .. Len(r) PROVE r[i] \in ToSet(t)
  <2>1. Len(q) + i \in 1 .. Len(t)
    BY <1>2, <1>3
  <2>2. t[Len(q) + i] = r[i]
    BY <1>1 DEF t
  <2> QED BY <2>1, <2>2, <1>2
<1>7. ToSet(t) = ToSet(q) \cup ToSet(r)
  BY <1>2, <1>4, <1>5, <1>6
<1> QED BY <1>1, <1>7 DEF t

\* A concatenation is injective if its parts are, and have nothing in common.
LEMMA ConcatInjective ==
  ASSUME NEW S, NEW q \in Seq(S), NEW r \in Seq(S), IsInjective(q), IsInjective(r),
         ToSet(q) \cap ToSet(r) = {}
  PROVE  IsInjective(q \o r)
<1> SUFFICES ASSUME NEW a \in 1 .. Len(q \o r), NEW b \in 1 .. Len(q \o r),
                    (q \o r)[a] = (q \o r)[b]
             PROVE  a = b
  BY ConcatElements, SeqElements DEF IsInjective
<1>1. Len(q \o r) = Len(q) + Len(r) /\ Len(q) \in Nat /\ Len(r) \in Nat
  BY ConcatElements, SeqElements
<1>2. \A i \in 1 .. Len(q) : (q \o r)[i] = q[i] /\ q[i] \in ToSet(q)
  BY ConcatElements, SeqElements
<1>3. ASSUME NEW i \in 1 .. Len(q \o r), i > Len(q)
      PROVE  /\ i - Len(q) \in 1 .. Len(r)
             /\ (q \o r)[i] = r[i - Len(q)] /\ r[i - Len(q)] \in ToSet(r)
  <2>1. i - Len(q) \in 1 .. Len(r) /\ Len(q) + (i - Len(q)) = i
    BY <1>1, <1>3
  <2>2. (q \o r)[Len(q) + (i - Len(q))] = r[i - Len(q)]
    BY <2>1, ConcatElements
  <2>3. r[i - Len(q)] \in ToSet(r)
    BY <2>1, SeqElements
  <2> QED BY <2>1, <2>2, <2>3
<1>4. CASE a <= Len(q) /\ b <= Len(q)
  <2>1. a \in DOMAIN q /\ b \in DOMAIN q
    BY <1>4, SeqElements
  <2> QED BY <2>1, <1>2, SeqElements DEF IsInjective
<1>5. CASE a > Len(q) /\ b > Len(q)
  <2>1. a - Len(q) \in DOMAIN r /\ b - Len(q) \in DOMAIN r /\ r[a - Len(q)] = r[b - Len(q)]
    BY <1>3, <1>5, SeqElements
  <2>2. a - Len(q) = b - Len(q)
    BY <2>1 DEF IsInjective
  <2> QED BY <2>2, <1>1
<1>6. CASE a <= Len(q) /\ b > Len(q)
  BY <1>1, <1>2, <1>3, <1>6
<1>7. CASE a > Len(q) /\ b <= Len(q)
  BY <1>1, <1>2, <1>3, <1>7
<1> QED BY <1>1, <1>4, <1>5, <1>6, <1>7

\* What IsPrefix means, entry by entry.
LEMMA PrefixEntries ==
  ASSUME NEW S, NEW q \in Seq(S), NEW r \in Seq(S)
  PROVE  IsPrefix(q, r) <=> Len(q) <= Len(r) /\ \A i \in 1 .. Len(q) : q[i] = r[i]
<1>1. ASSUME Len(q) <= Len(r)
      PROVE  /\ SubSeq(q, 1, Len(q)) = q
             /\ SubSeq(r, 1, Len(q)) \in Seq(S) /\ Len(SubSeq(r, 1, Len(q))) = Len(q)
             /\ \A i \in 1 .. Len(q) : SubSeq(r, 1, Len(q))[i] = r[i]
  BY <1>1
<1>2. ASSUME Len(q) <= Len(r), \A i \in 1 .. Len(q) : q[i] = r[i]
      PROVE  q = SubSeq(r, 1, Len(q))
  <2> DEFINE p == SubSeq(r, 1, Len(q))
  <2>1. p \in Seq(S) /\ Len(p) = Len(q) /\ \A i \in 1 .. Len(q) : p[i] = q[i]
    BY <1>1, <1>2
  <2> HIDE DEF p
  <2>2. p = q
    BY <2>1
  <2> QED BY <2>2 DEF p
<1> QED BY <1>1, <1>2 DEF IsPrefix

-----------------------------------------------------------------------------
(***************************************************************************)
(* InOrder and Uncovered list their elements by rank.                      *)
(***************************************************************************)

\* The writes that are stamped by time n (the first at time 1).
Stamps(n) == {w \in LogicalTime : 0 < w.ts /\ w.ts <= n}

LEMMA StampsFinite ==
  ASSUME NEW n \in Nat, NEW W, W \subseteq Stamps(n)
  PROVE  IsFiniteSet(W)
<1> DEFINE T == (0 .. n) \X Servers
           g == [w \in W |-> <<w.ts, w.name>>]
<1>1. IsFiniteSet(0 .. n) /\ IsFiniteSet(Servers)
  BY FS_Interval, NumServersAssumption DEF Servers
<1>2. IsFiniteSet(T)
  BY <1>1, FS_Product
<1>3. \A w \in W : w \in LogicalTime /\ <<w.ts, w.name>> \in T
  BY DEF Stamps, LogicalTime
<1>4. \A w, x \in LogicalTime : w.ts = x.ts /\ w.name = x.name => w = x
  BY DEF LogicalTime
<1>5. g \in [W -> T] /\ \A w, x \in W : g[w] = g[x] => w = x
  BY <1>3, <1>4
<1> HIDE DEF g, T
<1>6. g \in Injection(W, T)
  BY <1>5 DEF Injection, IsInjective
<1> QED BY <1>2, <1>6, FS_Injection

\* A set whose ranks are smaller than its size, and all different, has every rank.
LEMMA RanksTaken ==
  ASSUME NEW W, IsFiniteSet(W), NEW rank \in [W -> Nat],
         \A w \in W : rank[w] < Cardinality(W),
         \A w, x \in W : rank[w] = rank[x] => w = x
  PROVE  \A j \in 1 .. Cardinality(W) : \E w \in W : rank[w] = j - 1
<1> DEFINE n == Cardinality(W)
           g == [w \in W |-> rank[w] + 1]
<1>1. n \in Nat
  BY FS_CardinalityType
<1>2. g \in [W -> 1 .. n] /\ \A w, x \in W : g[w] = g[x] => w = x
  BY <1>1
<1>3. IsFiniteSet(1 .. n) /\ Cardinality(1 .. n) = n
  BY <1>1, FS_Interval
<1> HIDE DEF g
<1>4. g \in Injection(W, 1 .. n)
  BY <1>2 DEF Injection, IsInjective
<1>5. g \in Surjection(W, 1 .. n)
  BY <1>3, <1>4, FS_Injection
<1>6. \A j \in 1 .. n : \E w \in W : g[w] = j
  BY <1>5 DEF Surjection
<1> QED BY <1>1, <1>6 DEF g

\* The number of those before it is a rank of this kind.
LEMMA RankBound ==
  ASSUME NEW W, IsFiniteSet(W), NEW V, V \subseteq W, NEW w \in W, w \notin V
  PROVE  Cardinality(V) \in Nat /\ Cardinality(V) < Cardinality(W)
<1>1. /\ IsFiniteSet(V) /\ Cardinality(V) <= Cardinality(W)
      /\ Cardinality(W) = Cardinality(V) => W = V
  BY FS_Subset
<1>2. Cardinality(V) \in Nat /\ Cardinality(W) \in Nat
  BY <1>1, FS_CardinalityType
<1> QED BY <1>1, <1>2

\* InOrder(W) lists the writes of W, each once.
LEMMA InOrderLists ==
  ASSUME NEW W, IsFiniteSet(W), W \subseteq LogicalTime
  PROVE  InOrder(W) \in Seq(W) /\ ToSet(InOrder(W)) = W /\ IsInjective(InOrder(W))
<1> DEFINE Before(w) == {x \in W : Less(x, w)}
           rank == [w \in W |-> Cardinality(Before(w))]
           n == Cardinality(W)
           q == InOrder(W)
<1>1. \A w \in W : w \notin Before(w)
  BY TotalOrder
<1>2. \A w \in W : Cardinality(Before(w)) \in Nat /\ Cardinality(Before(w)) < n
  BY <1>1, RankBound
<1>3. ASSUME NEW a \in W, NEW b \in W, Less(a, b) 
      PROVE  Cardinality(Before(a)) < Cardinality(Before(b))
  <2>1. Before(a) \subseteq Before(b) /\ a \in Before(b) /\ a \notin Before(a)
    BY <1>1, <1>3, TotalOrder
  <2>2. IsFiniteSet(Before(b))
    BY FS_Subset
  <2> HIDE DEF Before
  <2> QED BY <2>1, <2>2, RankBound
<1>4. ASSUME NEW a \in W, NEW b \in W, Cardinality(Before(a)) = Cardinality(Before(b))
      PROVE  a = b
  <2>1. Less(a, b) \/ Less(b, a) \/ a = b
    BY TotalOrder
  <2> HIDE DEF Before
  <2> QED BY <1>2, <1>3, <1>4, <2>1
<1>5. rank \in [W -> Nat] /\ \A w \in W : rank[w] = Cardinality(Before(w))
  BY <1>2
<1>6. n \in Nat
  BY FS_CardinalityType
<1>7. q = [j \in 1 .. n |-> CHOOSE w \in W : Cardinality(Before(w)) = j - 1]
  BY DEF InOrder
<1> HIDE DEF Before, rank, n, q
<1>8. \A j \in 1 .. n : \E w \in W : Cardinality(Before(w)) = j - 1
  BY <1>2, <1>4, <1>5, RanksTaken DEF n
<1>9. \A j \in 1 .. n : q[j] \in W /\ Cardinality(Before(q[j])) = j - 1
  BY <1>7, <1>8
<1>10. q \in Seq(W) /\ Len(q) = n /\ DOMAIN q = 1 .. n
  BY <1>6, <1>7, <1>9
<1>11. IsInjective(q)
  <2> SUFFICES ASSUME NEW i \in 1 .. n, NEW j \in 1 .. n, q[i] = q[j] PROVE i = j
    BY <1>10 DEF IsInjective
  <2>1. i - 1 = j - 1
    BY <1>9
  <2> QED BY <2>1, <1>6
<1>12. ASSUME NEW w \in W PROVE w \in ToSet(q)
  <2> DEFINE j == Cardinality(Before(w)) + 1
  <2>1. j \in 1 .. n /\ Cardinality(Before(w)) = j - 1
    BY <1>2, <1>6
  <2> HIDE DEF j
  <2>2. q[j] = w
    BY <2>1, <1>4, <1>9
  <2> QED BY <2>1, <2>2, <1>10 DEF ToSet
<1>13. ToSet(q) \subseteq W
  BY <1>9, <1>10 DEF ToSet
<1> QED BY <1>10, <1>11, <1>12, <1>13 DEF q

\* The rank of a position in a set of positions.
Place(W, i) == Cardinality({h \in W : h < i})

\* Each rank belongs to one position.
LEMMA PositionRanks ==
  ASSUME NEW W, IsFiniteSet(W), W \subseteq Nat
  PROVE  /\ Cardinality(W) \in Nat
         /\ \A i \in W : Place(W, i) \in Nat /\ Place(W, i) + 1 \in 1 .. Cardinality(W)
         /\ \A a, b \in W : Place(W, a) = Place(W, b) => a = b
         /\ \A j \in 1 .. Cardinality(W) : \E i \in W : Place(W, i) = j - 1
<1> DEFINE Before(i) == {h \in W : h < i}
           rank == [i \in W |-> Place(W, i)]
           n == Cardinality(W)
<1>1. \A i \in W : i \in Nat /\ i \notin Before(i)
  OBVIOUS
<1>2. \A i : Place(W, i) = Cardinality(Before(i)) /\ Before(i) \subseteq W
  BY DEF Place
<1>3. ASSUME NEW i \in W PROVE Place(W, i) \in Nat /\ Place(W, i) < n
  <2> HIDE DEF Before
  <2> QED BY <1>1, <1>2, RankBound
<1>4. ASSUME NEW a \in W, NEW b \in W, a < b PROVE Place(W, a) < Place(W, b)
  <2>1. a \in Before(b) /\ a \notin Before(a)
    BY <1>1, <1>4
  <2>2. Before(a) \subseteq Before(b)
    <3> SUFFICES ASSUME NEW h \in Before(a) PROVE h \in W /\ h < b
      OBVIOUS
    <3>1. h \in Nat /\ a \in Nat /\ b \in Nat /\ h < a
      OBVIOUS
    <3> QED BY <3>1, <1>4
  <2> HIDE DEF Before
  <2>3. IsFiniteSet(Before(b))
    BY <1>2, FS_Subset
  <2>4. Cardinality(Before(a)) < Cardinality(Before(b))
    BY <2>1, <2>2, <2>3, RankBound
  <2> QED BY <2>4, <1>2
<1> HIDE DEF Before
<1>5. ASSUME NEW a \in W, NEW b \in W, Place(W, a) = Place(W, b) PROVE a = b
  <2>1. a \in Nat /\ b \in Nat
    OBVIOUS
  <2>2. ~(a < b)
    BY <1>3, <1>4, <1>5
  <2>3. ~(b < a)
    BY <1>3, <1>4, <1>5
  <2> QED BY <2>1, <2>2, <2>3
<1>6. n \in Nat
  BY FS_CardinalityType
<1>7. rank \in [W -> Nat] /\ \A i \in W : rank[i] = Place(W, i)
  BY <1>3
<1> HIDE DEF rank
<1>8. \A j \in 1 .. n : \E i \in W : rank[i] = j - 1
  <2>1. \A w \in W : rank[w] < n
    BY <1>3, <1>7
  <2>2. \A w, x \in W : rank[w] = rank[x] => w = x
    BY <1>5, <1>7
  <2> HIDE DEF n
  <2> QED BY <1>7, <2>1, <2>2, RanksTaken DEF n
<1>9. \A i \in W : Place(W, i) + 1 \in 1 .. n
  BY <1>3, <1>6
<1> QED BY <1>3, <1>5, <1>6, <1>7, <1>8, <1>9

\* The positions of a log that v does not cover.
News(v, log) == {i \in DOMAIN log : IsNew(v, log[i])}

\* Uncovered(v, log) lists the entries of log that are new to v, in order.
LEMMA UncoveredRanks ==
  ASSUME NEW S, NEW log \in Seq(S), NEW v
  PROVE  /\ Uncovered(v, log) \in Seq(S)
         /\ Len(Uncovered(v, log)) = Cardinality(News(v, log))
         /\ IsFiniteSet(News(v, log)) /\ News(v, log) \subseteq 1 .. Len(log)
         /\ \A j \in 1 .. Len(Uncovered(v, log)) : \E i \in News(v, log) :
              Place(News(v, log), i) = j - 1 /\ Uncovered(v, log)[j] = log[i]
         /\ \A i \in News(v, log) :
              \E j \in 1 .. Len(Uncovered(v, log)) : Uncovered(v, log)[j] = log[i]
<1> DEFINE W == News(v, log)
           n == Cardinality(W)
           q == Uncovered(v, log)
           nth(j) == CHOOSE i \in W : Place(W, i) = j - 1
<1>1. Len(log) \in Nat /\ W \subseteq 1 .. Len(log) /\ \A i \in W : log[i] \in S
  BY SeqElements DEF News
<1>2. IsFiniteSet(W) /\ W \subseteq Nat
  <2>1. IsFiniteSet(1 .. Len(log))
    BY <1>1, FS_Interval
  <2>2. 1 .. Len(log) \subseteq Nat
    BY <1>1
  <2> HIDE DEF W
  <2> QED BY <2>1, <2>2, <1>1, FS_Subset
<1>3. q = [j \in 1 .. n |-> log[nth(j)]]
  BY DEF Uncovered, News, Place
<1> HIDE DEF W, q
<1>4. /\ n \in Nat
      /\ \A i \in W : Place(W, i) \in Nat /\ Place(W, i) + 1 \in 1 .. n
      /\ \A a, b \in W : Place(W, a) = Place(W, b) => a = b
      /\ \A j \in 1 .. n : \E i \in W : Place(W, i) = j - 1
  BY <1>2, PositionRanks
<1>5. \A j \in 1 .. n : nth(j) \in W /\ Place(W, nth(j)) = j - 1
  BY <1>4
<1> HIDE DEF n, nth
<1>6. \A j \in 1 .. n : q[j] = log[nth(j)] /\ log[nth(j)] \in S
  BY <1>1, <1>3, <1>5
<1>7. q \in Seq(S) /\ Len(q) = n
  BY <1>3, <1>4, <1>6
<1>8. ASSUME NEW i \in W PROVE \E j \in 1 .. n : q[j] = log[i]
  <2> DEFINE j == Place(W, i) + 1
  <2>1. j \in 1 .. n /\ Place(W, i) = j - 1
    BY <1>4
  <2> HIDE DEF j
  <2>2. nth(j) = i
    BY <2>1, <1>4, <1>5
  <2> QED BY <2>1, <2>2, <1>6
<1>9. \A j \in 1 .. n : \E i \in W : Place(W, i) = j - 1 /\ q[j] = log[i]
  BY <1>5, <1>6
<1> QED BY <1>1, <1>2, <1>7, <1>8, <1>9 DEF q, W, n

\* What it lists.
LEMMA UncoveredLists ==
  ASSUME NEW S, NEW log \in Seq(S), NEW v
  PROVE  /\ Uncovered(v, log) \in Seq(S)
         /\ ToSet(Uncovered(v, log)) = {w \in ToSet(log) : IsNew(v, w)}
         /\ IsInjective(log) => IsInjective(Uncovered(v, log))
<1> DEFINE W == News(v, log)
           q == Uncovered(v, log)
<1>1. /\ q \in Seq(S) /\ IsFiniteSet(W) /\ W \subseteq 1 .. Len(log)
      /\ \A j \in 1 .. Len(q) : \E i \in W : Place(W, i) = j - 1 /\ q[j] = log[i]
      /\ \A i \in W : \E j \in 1 .. Len(q) : q[j] = log[i]
  BY UncoveredRanks
<1>2. \A i \in 1 .. Len(log) : i \in W <=> IsNew(v, log[i])
  BY SeqElements DEF News
<1>3. /\ ToSet(log) = {log[i] : i \in 1 .. Len(log)} /\ DOMAIN log = 1 .. Len(log)
      /\ Len(log) \in Nat
  BY SeqElements
<1> HIDE DEF W, q
<1>4. ToSet(q) = {q[i] : i \in 1 .. Len(q)} /\ DOMAIN q = 1 .. Len(q) /\ Len(q) \in Nat
  BY <1>1, SeqElements
<1>5. ASSUME NEW w \in ToSet(q) PROVE w \in ToSet(log) /\ IsNew(v, w)
  BY <1>1, <1>2, <1>3, <1>4
<1>6. ASSUME NEW w \in ToSet(log), IsNew(v, w) PROVE w \in ToSet(q)
  BY <1>1, <1>2, <1>3, <1>4, <1>6
<1>7. ASSUME IsInjective(log), NEW a \in 1 .. Len(q), NEW b \in 1 .. Len(q), q[a] = q[b]
      PROVE  a = b
  <2>1. PICK i \in W : Place(W, i) = a - 1 /\ q[a] = log[i]
    BY <1>1
  <2>2. PICK j \in W : Place(W, j) = b - 1 /\ q[b] = log[j]
    BY <1>1
  <2>3. i = j
    BY <2>1, <2>2, <1>1, <1>3, <1>7 DEF IsInjective
  <2>4. a - 1 = b - 1
    BY <2>1, <2>2, <2>3
  <2> QED BY <2>4, <1>4
<1>8. IsInjective(log) => IsInjective(q)
  BY <1>4, <1>7 DEF IsInjective
<1> QED BY <1>1, <1>5, <1>6, <1>8 DEF q

\* A log of which v covers the first n entries, and no more.
LEMMA UncoveredSuffix ==
  ASSUME NEW S, NEW log \in Seq(S), NEW v, NEW n \in 0 .. Len(log),
         \A i \in 1 .. Len(log) : IsNew(v, log[i]) <=> i > n
  PROVE  /\ Uncovered(v, log) \in Seq(S) /\ Len(Uncovered(v, log)) = Len(log) - n
         /\ \A j \in 1 .. Len(log) - n : Uncovered(v, log)[j] = log[n + j]
<1> DEFINE W == News(v, log)
           q == Uncovered(v, log)
<1>1. /\ q \in Seq(S) /\ Len(q) = Cardinality(W)
      /\ \A j \in 1 .. Len(q) : \E i \in W : Place(W, i) = j - 1 /\ q[j] = log[i]
  BY UncoveredRanks
<1>2. W = (n + 1) .. Len(log) /\ Len(log) \in Nat
  BY SeqElements DEF News
<1> HIDE DEF W, q
<1>3. Cardinality(W) = Len(log) - n
  <2>1. n + 1 \in Int /\ Len(log) \in Int
    BY <1>2
  <2>2. Cardinality((n + 1) .. Len(log)) = IF n + 1 > Len(log) THEN 0 ELSE Len(log) - (n + 1) + 1
    BY <2>1, FS_Interval
  <2> QED BY <2>2, <1>2
<1>4. ASSUME NEW i \in W PROVE Place(W, i) = i - 1 - n
  <2>1. {h \in W : h < i} = (n + 1) .. (i - 1)
    BY <1>2
  <2>2. n + 1 \in Int /\ i - 1 \in Int /\ i \in Int /\ n \in Int /\ i > n
    BY <1>2
  <2>3. Cardinality((n + 1) .. (i - 1)) = IF n + 1 > i - 1 THEN 0 ELSE (i - 1) - (n + 1) + 1
    BY <2>2, FS_Interval
  <2>4. Cardinality((n + 1) .. (i - 1)) = i - 1 - n
    BY <2>2, <2>3
  <2> QED BY <2>1, <2>4 DEF Place
<1>5. ASSUME NEW j \in 1 .. Len(log) - n PROVE q[j] = log[n + j]
  <2>1. j \in 1 .. Len(q)
    BY <1>1, <1>3
  <2>2. PICK i \in W : Place(W, i) = j - 1 /\ q[j] = log[i]
    BY <2>1, <1>1
  <2>3. i - 1 - n = j - 1
    BY <2>2, <1>4
  <2>4. i = n + j
    BY <2>3, <1>2
  <2> QED BY <2>2, <2>4
<1> QED BY <1>1, <1>3, <1>5 DEF q

-----------------------------------------------------------------------------
(***************************************************************************)
(* Vectors and storages.                                                   *)
(***************************************************************************)

\* u is what vector v becomes when the writes of W are applied, and no more.
IsCover(u, v, W) ==
  /\ u \in Vectors /\ \A s \in Servers : v[s] <= u[s]
  /\ \A w \in W : w.ts <= u[w.name]
  /\ \A s \in Servers : u[s] = v[s] \/ \E w \in W : w.name = s /\ w.ts = u[s]

LEMMA CoverFacts ==
  ASSUME NEW v \in Vectors, NEW n \in Nat, NEW W, W \subseteq Stamps(n)
  PROVE  IsCover(Cover(v, W), v, W)
<1> DEFINE u == Cover(v, W)
           T(s) == {v[s]} \cup {w.ts : w \in {x \in W : x.name = s}}
<1>1. \A w \in W : w.ts \in Nat /\ w.ts <= n /\ w.name \in Servers
  BY DEF Stamps, LogicalTime
<1>2. ASSUME NEW s \in Servers PROVE u[s] \in T(s) /\ \A y \in T(s) : y <= u[s]
  <2>1. v[s] \in Nat
    BY DEF Vectors
  <2>2. T(s) \subseteq Nat /\ T(s) # {}
    BY <1>1, <2>1
  <2>3. \A x \in T(s) : x <= v[s] + n
    BY <1>1, <2>1
  <2>4. v[s] + n \in Nat
    BY <2>1
  <2>5. u[s] = Max(T(s))
    BY DEF Cover
  <2> HIDE DEF T, u
  <2> QED BY <2>2, <2>3, <2>4, <2>5, MaxExists
<1>3. u = [s \in Servers |-> u[s]]
  BY DEF Cover
<1> HIDE DEF u
<1>4. \A s \in Servers : v[s] <= u[s] /\ (u[s] = v[s] \/ \E w \in W : w.name = s /\ w.ts = u[s])
  BY <1>2
<1>5. ASSUME NEW s \in Servers PROVE u[s] \in Nat
  <2>1. v[s] \in Nat
    BY DEF Vectors
  <2> QED BY <2>1, <1>1, <1>4
<1>6. u \in Vectors
  BY <1>3, <1>5 DEF Vectors
<1>7. ASSUME NEW w \in W PROVE w.ts <= u[w.name]
  <2>1. w.name \in Servers /\ w.ts \in T(w.name)
    BY <1>1
  <2> HIDE DEF T
  <2> QED BY <2>1, <1>2
<1> QED BY <1>4, <1>6, <1>7 DEF IsCover, u

\* Covering W and then Y is covering both.
LEMMA CoverTwice ==
  ASSUME NEW v, NEW u, NEW t, NEW W, NEW Y, W \subseteq LogicalTime, Y \subseteq LogicalTime,
         v \in Vectors, IsCover(u, v, W), IsCover(t, u, Y)
  PROVE  IsCover(t, v, W \cup Y)
<1>1. \A s \in Servers : v[s] \in Nat /\ u[s] \in Nat /\ t[s] \in Nat
  BY DEF IsCover, Vectors
<1>2. \A w \in W \cup Y : w.name \in Servers /\ w.ts \in Nat
  BY DEF LogicalTime
<1> QED BY <1>1, <1>2 DEF IsCover

\* What holds of every Storage: no write twice, C and F cover the logs, no more.
StorageInv(st) ==
  /\ st \in Storages
  /\ IsInjective(st.clog) /\ ToSet(st.clog) \cap st.tlog = {}
  /\ IsCover(st.c, NewVtime, ToSet(st.clog))
  /\ IsCover(st.f, st.c, st.tlog)

LEMMA EmptyGood == StorageInv(EmptyStorage)
<1>1. NewVtime \in Vectors /\ \A s \in Servers : NewVtime[s] = 0
  BY DEF NewVtime, Vectors
<1>2. ToSet(<<>>) = {} /\ IsInjective(<<>>) /\ <<>> \in Seq(LogicalTime)
  BY DEF ToSet, IsInjective
<1>3. IsCover(NewVtime, NewVtime, {})
  BY <1>1 DEF IsCover
<1> QED BY <1>1, <1>2, <1>3 DEF EmptyStorage, Storages, StorageInv

\* F covers all that a storage holds.
LEMMA CoveredByF ==
  ASSUME NEW st, StorageInv(st)
  PROVE  /\ \A w \in ToSet(st.clog) \cup st.tlog : w \in LogicalTime /\ w.ts <= st.f[w.name]
         /\ \A w \in ToSet(st.clog) : w.ts <= st.c[w.name]
         /\ \A s \in Servers : st.c[s] \in Nat /\ st.f[s] \in Nat /\ st.c[s] <= st.f[s]
<1>1. ToSet(st.clog) \subseteq LogicalTime /\ st.tlog \subseteq LogicalTime
  BY SeqElements DEF StorageInv, Storages
<1>2. \A w \in ToSet(st.clog) \cup st.tlog : w.name \in Servers /\ w.ts \in Nat
  BY <1>1 DEF LogicalTime
<1>3. \A s \in Servers : st.c[s] \in Nat /\ st.f[s] \in Nat /\ st.c[s] <= st.f[s]
  BY DEF StorageInv, IsCover, Vectors
<1>4. /\ \A w \in ToSet(st.clog) : w.ts <= st.c[w.name]
      /\ \A w \in st.tlog : w.ts <= st.f[w.name]
  BY DEF StorageInv, IsCover
<1> QED BY <1>1, <1>2, <1>3, <1>4

(***************************************************************************)
(* Storage.apply keeps StorageInv whatever it is given, as long as no      *)
(* write is committed twice in one call; and what it adds.                 *)
(***************************************************************************)
Fresh(v, W) == {w \in W : IsNew(v, w)}

Adds(r, st, commits, tentatives) ==
  LET cs == Fresh(st.c, ToSet(commits))
      ts == Fresh(st.f, tentatives)
  IN /\ r.clog = st.clog \o Uncovered(st.c, commits)
     /\ ToSet(r.clog) = ToSet(st.clog) \cup cs /\ r.tlog = (st.tlog \cup ts) \ cs
     /\ IsCover(r.c, st.c, cs) /\ IsCover(r.f, st.f, cs \cup ts)

LEMMA ApplyKeeps ==
  ASSUME NEW st, StorageInv(st), NEW n \in Nat, NEW commits \in Seq(LogicalTime),
         IsInjective(commits), ToSet(commits) \subseteq Stamps(n),
         NEW tentatives, tentatives \subseteq Stamps(n)
  PROVE  /\ StorageInv(Apply(st, commits, tentatives))
         /\ Adds(Apply(st, commits, tentatives), st, commits, tentatives)
<1> DEFINE log == st.clog
           u == Uncovered(st.c, commits)
           cs == Fresh(st.c, ToSet(commits))
           ts == Fresh(st.f, tentatives)
           r == Apply(st, commits, tentatives)
<1>0. cs = Fresh(st.c, ToSet(commits)) /\ ts = Fresh(st.f, tentatives)
  OBVIOUS
<1>1. /\ r.c = Cover(st.c, cs) /\ r.f = Cover(st.f, cs \cup ts)
      /\ r.clog = log \o u /\ r.tlog = (st.tlog \cup ts) \ cs
      /\ r = [c |-> r.c, f |-> r.f, clog |-> r.clog, tlog |-> r.tlog]
  BY DEF Apply, Fresh
<1> HIDE DEF cs, ts, r
<1>2. cs \subseteq Stamps(n) /\ ts \subseteq Stamps(n) /\ cs \cup ts \subseteq Stamps(n)
  BY <1>0 DEF Fresh
<1>3. /\ st \in Storages /\ IsInjective(log) /\ ToSet(log) \cap st.tlog = {}
      /\ IsCover(st.c, NewVtime, ToSet(log)) /\ IsCover(st.f, st.c, st.tlog)
  BY DEF StorageInv
<1>4. /\ st.c \in Vectors /\ st.f \in Vectors /\ log \in Seq(LogicalTime)
      /\ st.tlog \subseteq LogicalTime
  BY <1>3 DEF Storages
<1>5. IsCover(r.c, st.c, cs) /\ IsCover(r.f, st.f, cs \cup ts)
  BY <1>1, <1>2, <1>4, CoverFacts
<1>6. u \in Seq(LogicalTime) /\ ToSet(u) = cs /\ IsInjective(u)
  BY <1>0, UncoveredLists DEF Fresh
<1>7. ToSet(log) \subseteq LogicalTime /\ cs \subseteq LogicalTime /\ ts \subseteq LogicalTime
  BY <1>2, <1>4, SeqElements DEF Stamps
<1> HIDE DEF log, u
<1>8. /\ r.clog \in Seq(LogicalTime) /\ ToSet(r.clog) = ToSet(log) \cup cs
  BY <1>1, <1>4, <1>6, ConcatElements
<1>9. \A w \in ToSet(log) : w.name \in Servers /\ w.ts \in Nat /\ w.ts <= st.c[w.name]
  BY <1>3, <1>7 DEF IsCover, LogicalTime
<1>10. \A s \in Servers : /\ st.c[s] \in Nat /\ st.f[s] \in Nat /\ st.c[s] <= st.f[s]
                          /\ r.c[s] \in Nat /\ r.f[s] \in Nat
  BY <1>3, <1>5 DEF IsCover, Vectors
<1>11. \A w \in cs : ~(w.ts <= st.c[w.name])
  BY <1>0 DEF Fresh, IsNew, IsLtimeEarlier
<1>12. \A w \in ts : ~(w.ts <= st.f[w.name])
  BY <1>0 DEF Fresh, IsNew, IsLtimeEarlier
<1>13. ToSet(log) \cap cs = {}
  BY <1>9, <1>11
<1>14. ToSet(log) \cap ts = {}
  BY <1>9, <1>10, <1>12
<1>15. IsInjective(r.clog)
  BY <1>1, <1>3, <1>4, <1>6, <1>13, ConcatInjective
<1>16. ToSet(r.clog) \cap r.tlog = {}
  BY <1>1, <1>3, <1>8, <1>14
<1>17. IsCover(r.c, NewVtime, ToSet(r.clog))
  <2>1. NewVtime \in Vectors
    BY DEF NewVtime, Vectors
  <2> QED BY <2>1, <1>3, <1>5, <1>7, <1>8, CoverTwice
<1>18. IsCover(r.f, r.c, r.tlog)
  <2>1. \A w \in cs : w.name \in Servers /\ w.ts \in Nat /\ w.ts <= r.c[w.name]
    BY <1>5, <1>7 DEF IsCover, LogicalTime
  <2>2. ASSUME NEW s \in Servers PROVE r.c[s] <= r.f[s]
    <3>1. r.c[s] = st.c[s] \/ \E w \in cs : w.name = s /\ w.ts = r.c[s]
      BY <1>5 DEF IsCover
    <3>2. \A w \in cs : w.ts <= r.f[w.name]
      BY <1>5 DEF IsCover
    <3>3. st.f[s] <= r.f[s]
      BY <1>5 DEF IsCover
    <3> QED BY <3>1, <3>2, <3>3, <1>10
  <2>3. ASSUME NEW w \in r.tlog PROVE w.ts <= r.f[w.name]
    <3>1. CASE w \in ts
      BY <3>1, <1>5 DEF IsCover
    <3>2. CASE w \in st.tlog
      <4>1. w.name \in Servers /\ w.ts \in Nat
        BY <3>2, <1>4 DEF LogicalTime
      <4>2. w.ts <= st.f[w.name] /\ st.f[w.name] <= r.f[w.name]
        BY <3>2, <4>1, <1>3, <1>5 DEF IsCover
      <4> QED BY <4>1, <4>2, <1>10
    <3> QED BY <3>1, <3>2, <1>1
  <2>4. ASSUME NEW s \in Servers, NEW w \in cs \cup ts \cup st.tlog, w.name = s, w.ts = r.f[s]
        PROVE  r.f[s] = r.c[s] \/ \E x \in r.tlog : x.name = s /\ x.ts = r.f[s]
    <3>1. CASE w \in cs
      BY <3>1, <2>1, <2>2, <2>4, <1>10
    <3>2. CASE w \notin cs
      <4>1. w \in r.tlog
        BY <3>2, <1>1
      <4> QED BY <4>1, <2>4
    <3> QED BY <3>1, <3>2
  <2>5. ASSUME NEW s \in Servers
        PROVE  r.f[s] = r.c[s] \/ \E x \in r.tlog : x.name = s /\ x.ts = r.f[s]
    <3>1. r.f[s] = st.f[s] \/ \E w \in cs \cup ts : w.name = s /\ w.ts = r.f[s]
      BY <1>5 DEF IsCover
    <3>2. st.f[s] = st.c[s] \/ \E w \in st.tlog : w.name = s /\ w.ts = st.f[s]
      BY <1>3 DEF IsCover
    <3>3. CASE r.f[s] = st.f[s] /\ st.f[s] = st.c[s]
      <4>1. st.c[s] <= r.c[s]
        BY <1>5 DEF IsCover
      <4> QED BY <3>3, <4>1, <2>2, <1>10
    <3> QED BY <3>1, <3>2, <3>3, <2>4
  <2> QED BY <2>2, <2>3, <2>5, <1>5 DEF IsCover
<1>19. r \in Storages
  <2>1. r.c \in Vectors /\ r.f \in Vectors
    BY <1>5 DEF IsCover
  <2>2. r.tlog \in SUBSET LogicalTime
    BY <1>1, <1>4, <1>7
  <2> QED BY <2>1, <2>2, <1>1, <1>8 DEF Storages
<1>20. StorageInv(r)
  BY <1>15, <1>16, <1>17, <1>18, <1>19 DEF StorageInv
<1> QED BY <1>0, <1>1, <1>5, <1>8, <1>20 DEF log, u, r, Adds
=============================================================================
