----------------------------- MODULE WindowProofs -----------------------------
(***************************************************************************)
(* Theorems about Window, for any users, limits, targets and days: its     *)
(* state is well typed, the day's list is as full as it may be and fair to *)
(* the targets, and what is carried over keeps its place.                  *)
(***************************************************************************)
EXTENDS Window, WellFoundedInduction, FiniteSetTheorems, SequenceTheorems, TLAPS

-----------------------------------------------------------------------------
(* Induction over a set of numbers, and what is defined step by step.      *)

LEMMA SmallestNumber ==
  ASSUME NEW T \in SUBSET Nat, T # {}
  PROVE  \E m \in T : \A k \in T : m <= k
<1> DEFINE R == {ss \in Nat \X Nat : ss[1] < ss[2]}
<1>1. IsWellFoundedOn(R, Nat)
  BY NatLessThanWellFounded DEF OpToRel
<1>2. PICK m \in T : \A k \in T : ~ (<<k, m>> \in R)
  <2> HIDE DEF R
  <2> QED BY <1>1, WFMin
<1>3. ASSUME NEW k \in T PROVE m <= k
  <2>1. m \in Nat /\ k \in Nat /\ ~(<<k, m>>[1] < <<k, m>>[2])
    BY <1>2
  <2>2. QED
    BY <2>1
<1>4. QED
  BY <1>3

LEMMA StepByStep ==
  ASSUME NEW N \in Nat, NEW T, 0 \in T, \A k \in 1..N : k - 1 \in T => k \in T
  PROVE  0..N \subseteq T
<1> DEFINE U == (0..N) \ T
<1>1. CASE U # {}
  <2>1. PICK m \in U : \A k \in U : m <= k
    <3>1. U \in SUBSET Nat
      OBVIOUS
    <3> HIDE DEF U
    <3>2. QED
      BY <1>1, <3>1, SmallestNumber
  <2>2. m # 0 /\ m \in 1..N /\ m - 1 \in 0..N /\ m - 1 \notin U
    BY <2>1
  <2>3. QED
    BY <2>1, <2>2
<1>2. QED
  BY <1>1

IsIterate(f, X, b, N, G) == f \in [0..N -> X] /\ f[0] = b /\ \A k \in 1..N : f[k] = G[<<f[k - 1], k>>]

LEMMA Iterates ==
  ASSUME NEW X, NEW b, b \in X, NEW N, N \in Nat, NEW G, G \in [X \X (1..N) -> X]
  PROVE  \E f : IsIterate(f, X, b, N, G)
<1> DEFINE P(n) == \E f \in [0..n -> X] : f[0] = b /\ \A k \in 1..n : f[k] = G[<<f[k - 1], k>>]
           T == {n \in 0..N : P(n)}
<1>1. 0 \in T
  <2> DEFINE f == [k \in 0..0 |-> b]
  <2>1. f \in [0..0 -> X] /\ f[0] = b /\ \A k \in 1..0 : f[k] = G[<<f[k - 1], k>>]
    OBVIOUS
  <2> HIDE DEF f
  <2>2. P(0)
    BY <2>1
  <2>3. QED
    BY <2>2
<1>2. ASSUME NEW n \in 1..N, n - 1 \in T PROVE n \in T
  <2>1. PICK f \in [0..(n - 1) -> X] : f[0] = b /\ \A k \in 1..(n - 1) : f[k] = G[<<f[k - 1], k>>]
    BY <1>2
  <2> DEFINE g == [k \in 0..n |-> IF k = n THEN G[<<f[n - 1], n>>] ELSE f[k]]
  <2>2. f[n - 1] \in X
    BY <2>1
  <2>3. <<f[n - 1], n>> \in X \X (1..N)
    BY <2>2
  <2>4. G[<<f[n - 1], n>>] \in X
    BY <2>3
  <2>5. g \in [0..n -> X]
    BY <2>1, <2>4
  <2>6. g[0] = b
    BY <2>1
  <2>7. ASSUME NEW k \in 1..n PROVE g[k] = G[<<g[k - 1], k>>]
    <3>1. g[k - 1] = f[k - 1]
      OBVIOUS
    <3>2. CASE k = n
      <4>1. g[k] = G[<<f[n - 1], n>>]
        BY <3>2
      <4> HIDE DEF g
      <4>2. QED
        BY <3>1, <3>2, <4>1
    <3>3. CASE k # n
      <4>1. k \in 1..(n - 1) /\ g[k] = f[k]
        BY <3>3
      <4>2. f[k] = G[<<f[k - 1], k>>]
        BY <2>1, <4>1
      <4> HIDE DEF g
      <4>3. QED
        BY <3>1, <4>1, <4>2
    <3>4. QED
      BY <3>2, <3>3
  <2>8. P(n)
    <3> HIDE DEF g
    <3> QED BY <2>5, <2>6, <2>7
  <2>9. QED
    BY <2>8
<1>3. 0..N \subseteq T
  <2> HIDE DEF T
  <2>1. QED
    BY <1>1, <1>2, StepByStep
<1>4. N \in T
  <2> HIDE DEF T
  <2>1. QED
    BY <1>3
<1>5. PICK f \in [0..N -> X] : f[0] = b /\ \A k \in 1..N : f[k] = G[<<f[k - 1], k>>]
  BY <1>4
<1>6. QED
  BY <1>5 DEF IsIterate

-----------------------------------------------------------------------------
(* Sets and their sizes.                                                   *)

LEMMA Smaller ==
  ASSUME NEW S, IsFiniteSet(S), NEW T \in SUBSET S
  PROVE  /\ IsFiniteSet(T) /\ Cardinality(T) \in Nat /\ Cardinality(S) \in Nat
         /\ Cardinality(T) <= Cardinality(S)
         /\ \A x \in S \ T : Cardinality(T) < Cardinality(S)
<1>1. IsFiniteSet(T) /\ Cardinality(T) <= Cardinality(S) /\ (Cardinality(S) = Cardinality(T) => S = T)
  BY FS_Subset
<1>2. Cardinality(T) \in Nat /\ Cardinality(S) \in Nat
  BY <1>1, FS_CardinalityType
<1>3. QED
  BY <1>1, <1>2

(* Each element of S has a place of its own, after what comes before it;   *)
(* InTurn is the sequence of the elements at their places.                 *)
StrictOn(before, S) ==
  /\ \A i \in S : <<i, i>> \notin before
  /\ \A i, j \in S : i # j => <<i, j>> \in before \/ <<j, i>> \in before
  /\ \A i, j, k \in S : <<i, j>> \in before /\ <<j, k>> \in before => <<i, k>> \in before

Places(before, S) == [i \in S |-> 1 + Cardinality({j \in S : <<j, i>> \in before})]

LEMMA PlacesAreInOrder ==
  ASSUME NEW S, IsFiniteSet(S), NEW before, StrictOn(before, S), NEW place, place = Places(before, S)
  PROVE  /\ place \in [S -> 1..Cardinality(S)]
         /\ \A i, j \in S : place[i] = place[j] => i = j
         /\ \A i, j \in S : <<i, j>> \in before => place[i] < place[j]
<1> DEFINE Below(i) == {j \in S : <<j, i>> \in before}
           c == Cardinality(S)
<1>1. c \in Nat
  BY FS_CardinalityType
<1>2. ASSUME NEW i \in S
      PROVE  IsFiniteSet(Below(i)) /\ Cardinality(Below(i)) \in Nat /\ Cardinality(Below(i)) < c
  <2>1. Below(i) \in SUBSET S /\ i \in S \ Below(i)
    BY DEF StrictOn
  <2> HIDE DEF Below
  <2>2. QED
    BY <2>1, Smaller
<1>3. ASSUME NEW i \in S, NEW j \in S, <<i, j>> \in before PROVE Cardinality(Below(i)) < Cardinality(Below(j))
  <2>1. Below(i) \in SUBSET Below(j) /\ i \in Below(j) \ Below(i)
    BY <1>3 DEF StrictOn
  <2>2. IsFiniteSet(Below(j))
    BY <1>2
  <2> HIDE DEF Below
  <2>3. QED
    BY <2>1, <2>2, Smaller
<1>4. \A i \in S : place[i] = 1 + Cardinality(Below(i))
  BY DEF Places
<1>5. place \in [S -> 1..c]
  <2>1. \A i \in S : 1 + Cardinality(Below(i)) \in 1..c
    <3> HIDE DEF Below, c
    <3> QED BY <1>1, <1>2
  <2>2. place = [i \in S |-> 1 + Cardinality(Below(i))]
    BY DEF Places
  <2> HIDE DEF Below, c
  <2>3. QED
    BY <2>1, <2>2
<1>6. \A i, j \in S : <<i, j>> \in before => place[i] < place[j]
  <2> HIDE DEF Below, c
  <2>1. QED
    BY <1>2, <1>3, <1>4
<1>7. \A i, j \in S : place[i] = place[j] => i = j
  <2> SUFFICES ASSUME NEW i \in S, NEW j \in S, i # j PROVE place[i] # place[j]
    OBVIOUS
  <2>1. <<i, j>> \in before \/ <<j, i>> \in before
    BY DEF StrictOn
  <2>2. place[i] \in Nat /\ place[j] \in Nat
    BY <1>5
  <2>3. QED
    BY <1>6, <2>1, <2>2
<1>8. QED
  BY <1>5, <1>6, <1>7

LEMMA InTurnIsAll ==
  ASSUME NEW S, IsFiniteSet(S), NEW place \in [S -> 1..Cardinality(S)], \A i, j \in S : place[i] = place[j] => i = j
  PROVE  /\ InTurn(S, place) \in Seq(S)
         /\ ToSet(InTurn(S, place)) = S
         /\ \A k \in 1..Len(InTurn(S, place)) : place[InTurn(S, place)[k]] = k
<1> DEFINE c == Cardinality(S)
           q == [k \in 1..c |-> CHOOSE i \in S : place[i] = k]
<1>1. c \in Nat
  BY FS_CardinalityType
<1>2. IsFiniteSet(1..c) /\ Cardinality(1..c) = c
  <2>1. 1 \in Int /\ c \in Int /\ c >= 0
    BY <1>1
  <2>2. IsFiniteSet(1..c) /\ Cardinality(1..c) = IF 1 > c THEN 0 ELSE c - 1 + 1
    BY <2>1, FS_Interval
  <2>3. QED
    BY <2>1, <2>2
<1>3. \A k \in 1..c : \E i \in S : place[i] = k
  <2>1. place \in Injection(S, 1..c)
    BY DEF Injection, IsInjective
  <2>2. place \in Surjection(S, 1..c)
    BY <1>2, <2>1, FS_Injection DEF c
  <2>3. QED
    BY <2>2 DEF Surjection
<1>4. \A k \in 1..c : q[k] \in S /\ place[q[k]] = k
  BY <1>3
<1>5. q \in [1..c -> S] /\ DOMAIN q = 1..c
  BY <1>4
<1>6. q \in Seq(S) /\ Len(q) = c
  <2> HIDE DEF q, c
  <2>1. QED
    BY <1>1, <1>5, SeqDef
<1>7. InTurn(S, place) = q
  <2>1. InTurn(S, place) = q \o <<>>
    BY DEF InTurn
  <2> HIDE DEF q
  <2>2. QED
    BY <2>1, <1>6, ConcatEmptySeq
<1>8. ToSet(q) = S
  <2> HIDE DEF q
  <2>1. ASSUME NEW i \in S PROVE i = q[place[i]] /\ place[i] \in 1..c
    BY <1>4
  <2>2. QED
    BY <1>4, <1>5, <2>1 DEF ToSet
<1>9. QED
  <2> HIDE DEF q
  <2>1. QED
    BY <1>4, <1>6, <1>7, <1>8

(* The oldest first: all of them, a number only after smaller ones.        *)
LEMMA OldestFirstIsAll ==
  ASSUME NEW S \in SUBSET Nat, IsFiniteSet(S)
  PROVE  /\ OldestFirst(S) \in Seq(S) /\ ToSet(OldestFirst(S)) = S
         /\ \A m, k \in 1..Len(OldestFirst(S)) : m < k => OldestFirst(S)[m] < OldestFirst(S)[k]
<1> DEFINE before == {e \in S \X S : e[1] < e[2]}
           place == [i \in S |-> 1 + Cardinality({j \in S : j < i})]
           q == OldestFirst(S)
<1>1. \A i, j \in S : <<j, i>> \in before <=> j < i
  OBVIOUS
<1>2. StrictOn(before, S)
  <2> HIDE DEF before
  <2>1. QED
    BY <1>1 DEF StrictOn
<1>3. place = Places(before, S)
  <2> SUFFICES ASSUME NEW i \in S PROVE {j \in S : j < i} = {j \in S : <<j, i>> \in before}
    BY DEF Places
  <2>1. QED
    BY <1>1
<1>4. /\ place \in [S -> 1..Cardinality(S)]
      /\ \A i, j \in S : place[i] = place[j] => i = j
      /\ \A i, j \in S : <<i, j>> \in before => place[i] < place[j]
  <2> HIDE DEF place, before
  <2>1. QED
    BY <1>2, <1>3, PlacesAreInOrder
<1>5. q = InTurn(S, place)
  BY DEF OldestFirst
<1>6. q \in Seq(S) /\ ToSet(q) = S /\ \A k \in 1..Len(q) : place[q[k]] = k
  <2> HIDE DEF place, q
  <2>1. QED
    BY <1>4, <1>5, InTurnIsAll
<1>7. ASSUME NEW m \in 1..Len(q), NEW k \in 1..Len(q), m < k PROVE q[m] < q[k]
  <2> HIDE DEF place, q, before
  <2>1. q[m] \in S /\ q[k] \in S /\ place[q[m]] = m /\ place[q[k]] = k
    BY <1>6, ElementOfSeq
  <2>2. ~(q[k] < q[m])
    <3>1. SUFFICES ASSUME q[k] < q[m] PROVE FALSE
      OBVIOUS
    <3>2. <<q[k], q[m]>> \in before
      BY <2>1, <3>1, <1>1
    <3>3. place[q[k]] < place[q[m]]
      BY <2>1, <3>2, <1>4
    <3>4. k < m /\ m < k
      BY <2>1, <3>3, <1>7
    <3>5. m \in Int /\ k \in Int
      OBVIOUS
    <3>6. QED
      BY <3>4, <3>5
  <2>3. q[m] # q[k]
    <3>1. m \in Int /\ k \in Int
      OBVIOUS
    <3>2. QED
      BY <2>1, <1>7, <3>1
  <2>4. q[m] \in Int /\ q[k] \in Int
    <3>1. S \subseteq Int
      OBVIOUS
    <3>2. QED
      BY <2>1, <3>1
  <2>5. QED
    BY <2>2, <2>3, <2>4
<1>8. QED
  BY <1>6, <1>7

(* The richest first: all of them.                                         *)
LEMMA RichestFirstIsAll ==
  ASSUME NEW S \in SUBSET Nat, IsFiniteSet(S), NEW p, \A i \in S : p[i].words \in Nat
  PROVE  RichestFirst(p, S) \in Seq(S) /\ ToSet(RichestFirst(p, S)) = S
<1> DEFINE before == {e \in S \X S : Richer(p, e[1], e[2])}
           place == [i \in S |-> 1 + Cardinality({j \in S : Richer(p, j, i)})]
           q == RichestFirst(p, S)
<1>1. \A i, j \in S : <<j, i>> \in before <=> Richer(p, j, i)
  OBVIOUS
<1>2. StrictOn(before, S)
  <2> HIDE DEF before
  <2>1. \A i \in S : ~Richer(p, i, i)
    BY DEF Richer
  <2>2. \A i, j \in S : i # j => Richer(p, i, j) \/ Richer(p, j, i)
    BY DEF Richer
  <2>3. \A i, j, k \in S : Richer(p, i, j) /\ Richer(p, j, k) => Richer(p, i, k)
    BY DEF Richer
  <2>4. QED
    BY <1>1, <2>1, <2>2, <2>3 DEF StrictOn
<1>3. place = Places(before, S)
  <2> SUFFICES ASSUME NEW i \in S PROVE {j \in S : Richer(p, j, i)} = {j \in S : <<j, i>> \in before}
    BY DEF Places
  <2>1. QED
    BY <1>1
<1>4. place \in [S -> 1..Cardinality(S)] /\ \A i, j \in S : place[i] = place[j] => i = j
  <2> HIDE DEF place, before
  <2>1. QED
    BY <1>2, <1>3, PlacesAreInOrder
<1>5. q = InTurn(S, place)
  BY DEF RichestFirst
<1>6. QED
  <2> HIDE DEF place, q
  <2>1. q \in Seq(S) /\ ToSet(q) = S
    BY <1>4, <1>5, InTurnIsAll
  <2>2. QED
    BY <2>1 DEF q

-----------------------------------------------------------------------------
(* One after another: what a list that is being filled may be.             *)

Statements(p) ==
  /\ DOMAIN p \subseteq Nat /\ IsFiniteSet(DOMAIN p)
  /\ \A i \in DOMAIN p : p[i].target \in Targets /\ p[i].words \in Nat
OnList(p, S, t) == {i \in S : p[i].target = t}
GoodLists(p, r) ==
  {l \in Seq(DOMAIN p) : /\ Len(l) <= Room(r) /\ Len(l) = Cardinality(ToSet(l))
                         /\ \A t \in Targets : Taken(p, l, t) <= PerTarget}
Firsts(order, k) == {order[j] : j \in 1..k}
(* There is no room for i, or its target has had its n.                    *)
Refused(p, r, n, i, l) == Len(l) >= Room(r) \/ Taken(p, l, p[i].target) >= n

LEMMA RoomIsANumber == ASSUME NEW r \in Nat PROVE Room(r) \in Nat /\ PerTarget \in Nat
BY ReviewAssumption DEF Room

LEMMA ListFacts ==
  ASSUME NEW p, Statements(p), NEW l \in Seq(DOMAIN p)
  PROVE  /\ Len(l) \in Nat
         /\ ToSet(l) \in SUBSET DOMAIN p /\ IsFiniteSet(ToSet(l)) /\ Cardinality(ToSet(l)) \in Nat
         /\ \A t : Taken(p, l, t) \in Nat /\ Taken(p, l, t) = Cardinality(OnList(p, ToSet(l), t))
         /\ \A t : IsFiniteSet(OnList(p, ToSet(l), t))
<1>1. Len(l) \in Nat /\ \A k \in DOMAIN l : l[k] \in DOMAIN p
  BY LenProperties
<1>2. ToSet(l) \in SUBSET DOMAIN p
  BY <1>1 DEF ToSet
<1>3. IsFiniteSet(ToSet(l)) /\ Cardinality(ToSet(l)) \in Nat
  <2>1. IsFiniteSet(DOMAIN p)
    BY DEF Statements
  <2>2. QED
    BY <1>2, <2>1, Smaller
<1>4. ASSUME NEW t
      PROVE  /\ Taken(p, l, t) \in Nat /\ Taken(p, l, t) = Cardinality(OnList(p, ToSet(l), t))
             /\ IsFiniteSet(OnList(p, ToSet(l), t))
  <2>1. OnList(p, ToSet(l), t) \in SUBSET ToSet(l)
    BY DEF OnList
  <2>2. Cardinality(OnList(p, ToSet(l), t)) \in Nat /\ IsFiniteSet(OnList(p, ToSet(l), t))
    BY <1>3, <2>1, Smaller
  <2>3. Taken(p, l, t) = Cardinality(OnList(p, ToSet(l), t))
    BY DEF Taken, OnList
  <2>4. QED
    BY <2>2, <2>3
<1>5. QED
  BY <1>1, <1>2, <1>3, <1>4

(* What is on a list within another list counts there too.                 *)
LEMMA LongerList ==
  ASSUME NEW p, Statements(p), NEW r \in Nat, NEW l \in GoodLists(p, r), NEW m \in GoodLists(p, r), ToSet(l) \subseteq ToSet(m)
  PROVE  /\ Len(l) <= Len(m) /\ (Len(l) = Len(m) => ToSet(l) = ToSet(m))
         /\ \A t : Taken(p, l, t) <= Taken(p, m, t)
<1>1. /\ l \in Seq(DOMAIN p) /\ m \in Seq(DOMAIN p)
      /\ Len(l) = Cardinality(ToSet(l)) /\ Len(m) = Cardinality(ToSet(m))
  BY DEF GoodLists
<1>2. IsFiniteSet(ToSet(m)) /\ \A t : IsFiniteSet(OnList(p, ToSet(m), t))
  BY <1>1, ListFacts
<1>3. Cardinality(ToSet(l)) <= Cardinality(ToSet(m)) /\ (Cardinality(ToSet(m)) = Cardinality(ToSet(l)) => ToSet(m) = ToSet(l))
  BY <1>2, FS_Subset
<1>4. ASSUME NEW t PROVE Taken(p, l, t) <= Taken(p, m, t)
  <2>1. OnList(p, ToSet(l), t) \in SUBSET OnList(p, ToSet(m), t)
    BY DEF OnList
  <2>2. Cardinality(OnList(p, ToSet(l), t)) <= Cardinality(OnList(p, ToSet(m), t))
    BY <1>2, <2>1, Smaller
  <2>3. QED
    BY <1>1, <2>2, ListFacts
<1>5. QED
  BY <1>1, <1>3, <1>4

LEMMA AppendedList ==
  ASSUME NEW S, NEW l \in Seq(S), NEW i \in S
  PROVE  Append(l, i) \in Seq(S) /\ Len(Append(l, i)) = Len(l) + 1 /\ ToSet(Append(l, i)) = ToSet(l) \cup {i}
<1>1. Len(l) \in Nat /\ DOMAIN l = 1..Len(l)
  BY LenProperties
<1>2. /\ Append(l, i) \in Seq(S) /\ Len(Append(l, i)) = Len(l) + 1
      /\ \A k \in 1..Len(l) : Append(l, i)[k] = l[k]
      /\ Append(l, i)[Len(l) + 1] = i
  BY AppendProperties
<1>3. DOMAIN Append(l, i) = 1..(Len(l) + 1)
  BY <1>2, LenProperties
<1>4. 1..(Len(l) + 1) = (1..Len(l)) \cup {Len(l) + 1}
  BY <1>1
<1>5. ToSet(Append(l, i)) = ToSet(l) \cup {i}
  BY <1>1, <1>2, <1>3, <1>4 DEF ToSet
<1>6. QED
  BY <1>2, <1>5

LEMMA TakeUpToDoes ==
  ASSUME NEW p, Statements(p), NEW r \in Nat, NEW n \in 0..PerTarget,
         NEW l \in GoodLists(p, r), NEW i \in DOMAIN p, NEW m, m = TakeUpTo(p, r, n, l, i)
  PROVE  /\ m \in GoodLists(p, r) /\ ToSet(l) \subseteq ToSet(m) /\ ToSet(m) \subseteq ToSet(l) \cup {i}
         /\ \A t \in Targets : Taken(p, m, t) <= n \/ OnList(p, ToSet(m), t) = OnList(p, ToSet(l), t)
         /\ i \in ToSet(m) \/ (m = l /\ Refused(p, r, n, i, l))
<1>1. /\ l \in Seq(DOMAIN p) /\ Len(l) <= Room(r) /\ Len(l) = Cardinality(ToSet(l))
      /\ \A t \in Targets : Taken(p, l, t) <= PerTarget
  BY DEF GoodLists
<1>2. /\ Len(l) \in Nat /\ IsFiniteSet(ToSet(l))
      /\ \A t : Taken(p, l, t) \in Nat /\ Taken(p, l, t) = Cardinality(OnList(p, ToSet(l), t)) /\ IsFiniteSet(OnList(p, ToSet(l), t))
  BY <1>1, ListFacts
<1>3. Room(r) \in Nat /\ PerTarget \in Nat
  BY RoomIsANumber
<1>4. CASE Len(l) < Room(r) /\ i \notin ToSet(l) /\ Taken(p, l, p[i].target) < n
  <2>1. m = Append(l, i)
    BY <1>4 DEF TakeUpTo
  <2>2. m \in Seq(DOMAIN p) /\ Len(m) = Len(l) + 1 /\ ToSet(m) = ToSet(l) \cup {i}
    BY <1>1, <2>1, AppendedList
  <2>3. Cardinality(ToSet(m)) = Cardinality(ToSet(l)) + 1
    BY <1>2, <1>4, <2>2, FS_AddElement
  <2>4. ASSUME NEW t \in Targets
        PROVE  Taken(p, m, t) <= PerTarget /\ (Taken(p, m, t) <= n \/ OnList(p, ToSet(m), t) = OnList(p, ToSet(l), t))
    <3>1. Taken(p, m, t) = Cardinality(OnList(p, ToSet(m), t))
      BY <2>2, ListFacts
    <3>2. CASE p[i].target = t
      <4>1. OnList(p, ToSet(m), t) = OnList(p, ToSet(l), t) \cup {i} /\ i \notin OnList(p, ToSet(l), t)
        BY <1>4, <2>2, <3>2 DEF OnList
      <4>2. IsFiniteSet(OnList(p, ToSet(l), t))
        BY <1>2
      <4>3. Cardinality(OnList(p, ToSet(m), t)) = Cardinality(OnList(p, ToSet(l), t)) + 1
        BY <4>1, <4>2, FS_AddElement
      <4>4. Taken(p, m, t) = Taken(p, l, t) + 1 /\ Taken(p, l, t) \in Nat /\ Taken(p, l, t) < n
        BY <1>2, <1>4, <3>1, <3>2, <4>3
      <4>5. QED
        BY <1>3, <4>4
    <3>3. CASE p[i].target # t
      <4>1. OnList(p, ToSet(m), t) = OnList(p, ToSet(l), t)
        BY <2>2, <3>3 DEF OnList
      <4>2. QED
        BY <1>1, <1>2, <3>1, <4>1
    <3>4. QED
      BY <3>2, <3>3
  <2>5. m \in GoodLists(p, r)
    <3>1. Len(m) <= Room(r) /\ Len(m) = Cardinality(ToSet(m))
      BY <1>1, <1>2, <1>3, <1>4, <2>2, <2>3
    <3>2. QED
      BY <2>2, <2>4, <3>1 DEF GoodLists
  <2>6. QED
    BY <2>2, <2>4, <2>5
<1>5. CASE ~(Len(l) < Room(r) /\ i \notin ToSet(l) /\ Taken(p, l, p[i].target) < n)
  <2>1. m = l
    BY <1>5 DEF TakeUpTo
  <2>2. i \in ToSet(l) \/ Refused(p, r, n, i, l)
    <3>1. Taken(p, l, p[i].target) \in Nat
      BY <1>2
    <3>2. QED
      BY <1>2, <1>3, <1>5, <3>1 DEF Refused
  <2>3. QED
    BY <2>1, <2>2
<1>6. QED
  BY <1>4, <1>5

(* The list after each of those that are taken in turn.                    *)
LEMMA TakeAllRuns ==
  ASSUME NEW p, Statements(p), NEW r \in Nat, NEW n \in 0..PerTarget,
         NEW l \in GoodLists(p, r), NEW order \in Seq(DOMAIN p)
  PROVE  \E c : /\ c[0] = l /\ \A k \in 1..Len(order) : c[k] = TakeUpTo(p, r, n, c[k - 1], order[k])
                /\ TakeAll(p, r, n, l, order) = c[Len(order)]
<1> DEFINE N == Len(order)
           X == GoodLists(p, r)
           G == [e \in X \X (1..N) |-> TakeUpTo(p, r, n, e[1], order[e[2]])]
           Step(f) == [k \in 0..N |-> IF k = 0 THEN l ELSE TakeUpTo(p, r, n, f[k - 1], order[k])]
           c == CHOOSE f : f = Step(f)
<1>1. N \in Nat /\ \A k \in 1..N : order[k] \in DOMAIN p
  BY LenProperties
<1>2. \A x \in X, k \in 1..N : TakeUpTo(p, r, n, x, order[k]) \in X
  BY <1>1, TakeUpToDoes
<1>3. G \in [X \X (1..N) -> X]
  BY <1>2
<1>4. PICK f : f \in [0..N -> X] /\ f[0] = l /\ \A k \in 1..N : f[k] = G[<<f[k - 1], k>>]
  <2>1. l \in X /\ N \in Nat
    BY <1>1
  <2> HIDE DEF G, X, N
  <2>2. \E f : IsIterate(f, X, l, N, G)
    BY <1>3, <2>1, Iterates
  <2>3. QED
    BY <2>2 DEF IsIterate
<1>5. f = Step(f)
  <2>1. ASSUME NEW k \in 1..N PROVE f[k] = TakeUpTo(p, r, n, f[k - 1], order[k])
    <3>1. k - 1 \in 0..N
      OBVIOUS
    <3>2. f[k - 1] \in X
      <4> HIDE DEF X, N, G
      <4>1. QED
        BY <1>4, <3>1
    <3>3. G[<<f[k - 1], k>>] = TakeUpTo(p, r, n, f[k - 1], order[k])
      <4> HIDE DEF X, N
      <4>1. QED
        BY <3>2
    <3>4. QED
      <4> HIDE DEF X, N, G
      <4>1. QED
        BY <1>4, <3>3
  <2>2. \A k \in 0..N : f[k] = IF k = 0 THEN l ELSE TakeUpTo(p, r, n, f[k - 1], order[k])
    <3> HIDE DEF X, N, G
    <3>1. QED
      BY <1>1, <1>4, <2>1
  <2> HIDE DEF X, N, G
  <2>3. QED
    BY <1>4, <2>2
<1>6. c = Step(c)
  <2> HIDE DEF Step
  <2>1. QED
    BY <1>5
<1>7. c[0] = l /\ \A k \in 1..N : c[k] = TakeUpTo(p, r, n, c[k - 1], order[k])
  <2> HIDE DEF c, N
  <2>1. QED
    BY <1>1, <1>6
<1>8. TakeAll(p, r, n, l, order) = c[N]
  BY DEF TakeAll
<1>9. QED
  <2> HIDE DEF c
  <2>1. QED
    BY <1>7, <1>8

(* The k-th of those in turn was refused by a list on the way to m that    *)
(* held, besides those of l, only what comes before it.                    *)
RefusedInTurn(p, r, n, l, order, m, k) ==
  \E x \in GoodLists(p, r) :
    Refused(p, r, n, order[k], x) /\ ToSet(x) \subseteq ToSet(m) /\ ToSet(x) \subseteq ToSet(l) \cup Firsts(order, k - 1)

(* Taking all in turn fills a good list: with some of them, at most n of a *)
(* target, and each that is not taken was refused by a list that held only *)
(* what came before it.                                                    *)
LEMMA TakeAllDoes ==
  ASSUME NEW p, Statements(p), NEW r \in Nat, NEW n \in 0..PerTarget,
         NEW l \in GoodLists(p, r), NEW order \in Seq(DOMAIN p), NEW m, m = TakeAll(p, r, n, l, order)
  PROVE  /\ m \in GoodLists(p, r) /\ ToSet(l) \subseteq ToSet(m) /\ ToSet(m) \subseteq ToSet(l) \cup ToSet(order)
         /\ \A t \in Targets : Taken(p, m, t) <= n \/ OnList(p, ToSet(m), t) = OnList(p, ToSet(l), t)
         /\ \A k \in 1..Len(order) : order[k] \in ToSet(m) \/ RefusedInTurn(p, r, n, l, order, m, k)
<1> DEFINE N == Len(order)
           Upto(k) == {order[j] : j \in 1..k}
<1>1. N \in Nat /\ DOMAIN order = 1..N /\ \A k \in 1..N : order[k] \in DOMAIN p
  BY LenProperties
<1>2. PICK c : /\ c[0] = l /\ \A k \in 1..N : c[k] = TakeUpTo(p, r, n, c[k - 1], order[k])
               /\ m = c[N]
  BY TakeAllRuns
<1>3. ASSUME NEW k \in 1..N, c[k - 1] \in GoodLists(p, r)
      PROVE  /\ c[k] \in GoodLists(p, r) /\ ToSet(c[k - 1]) \subseteq ToSet(c[k]) /\ ToSet(c[k]) \subseteq ToSet(c[k - 1]) \cup {order[k]}
             /\ \A t \in Targets : Taken(p, c[k], t) <= n \/ OnList(p, ToSet(c[k]), t) = OnList(p, ToSet(c[k - 1]), t)
             /\ order[k] \in ToSet(c[k]) \/ (c[k] = c[k - 1] /\ Refused(p, r, n, order[k], c[k - 1]))
  <2>1. order[k] \in DOMAIN p /\ c[k] = TakeUpTo(p, r, n, c[k - 1], order[k])
    BY <1>1, <1>2
  <2> HIDE DEF N
  <2>2. QED
    BY <1>3, <2>1, TakeUpToDoes
<1> HIDE DEF N
<1>4. \A k \in 0..N :
        /\ c[k] \in GoodLists(p, r) /\ ToSet(l) \subseteq ToSet(c[k]) /\ ToSet(c[k]) \subseteq ToSet(l) \cup Upto(k)
        /\ \A t \in Targets : Taken(p, c[k], t) <= n \/ OnList(p, ToSet(c[k]), t) = OnList(p, ToSet(l), t)
  <2> DEFINE P(k) ==
               /\ c[k] \in GoodLists(p, r) /\ ToSet(l) \subseteq ToSet(c[k]) /\ ToSet(c[k]) \subseteq ToSet(l) \cup Upto(k)
               /\ \A t \in Targets : Taken(p, c[k], t) <= n \/ OnList(p, ToSet(c[k]), t) = OnList(p, ToSet(l), t)
             T == {k \in 0..N : P(k)}
  <2>1. 0 \in T
    BY <1>1, <1>2
  <2>2. ASSUME NEW k \in 1..N, k - 1 \in T PROVE k \in T
    <3>1. P(k - 1)
      BY <2>2
    <3>2. Upto(k) = Upto(k - 1) \cup {order[k]}
      <4>1. k \in Int /\ k >= 1
        OBVIOUS
      <4>2. 1..k = (1..(k - 1)) \cup {k}
        BY <4>1
      <4>3. QED
        BY <4>2
    <3> HIDE DEF Upto
    <3>3. c[k] \in GoodLists(p, r) /\ ToSet(l) \subseteq ToSet(c[k]) /\ ToSet(c[k]) \subseteq ToSet(l) \cup Upto(k)
      BY <1>3, <3>1, <3>2
    <3>4. \A t \in Targets : Taken(p, c[k], t) <= n \/ OnList(p, ToSet(c[k]), t) = OnList(p, ToSet(l), t)
      <4> SUFFICES ASSUME NEW t \in Targets
                   PROVE  Taken(p, c[k], t) <= n \/ OnList(p, ToSet(c[k]), t) = OnList(p, ToSet(l), t)
        OBVIOUS
      <4>1. CASE Taken(p, c[k], t) <= n
        BY <4>1
      <4>2. CASE OnList(p, ToSet(c[k]), t) = OnList(p, ToSet(c[k - 1]), t)
        <5>1. Taken(p, c[k], t) = Taken(p, c[k - 1], t)
          <6>1. c[k] \in Seq(DOMAIN p) /\ c[k - 1] \in Seq(DOMAIN p)
            BY <3>1, <3>3 DEF GoodLists
          <6>2. QED
            BY <4>2, <6>1, ListFacts
        <5>2. QED
          BY <3>1, <4>2, <5>1
      <4>3. QED
        BY <1>3, <3>1, <4>1, <4>2
    <3>5. QED
      BY <3>3, <3>4
  <2> HIDE DEF T
  <2>3. 0..N \subseteq T
    BY <1>1, <2>1, <2>2, StepByStep
  <2>4. QED
    BY <2>3 DEF T
<1>5. ASSUME NEW j \in 0..N PROVE ToSet(c[j]) \subseteq ToSet(c[N])
  <2> DEFINE T == {k \in 0..N : k < j \/ ToSet(c[j]) \subseteq ToSet(c[k])}
  <2>1. 0 \in T
    BY <1>1
  <2>2. ASSUME NEW k \in 1..N, k - 1 \in T PROVE k \in T
    <3>1. k - 1 \in 0..N /\ (k - 1 < j \/ ToSet(c[j]) \subseteq ToSet(c[k - 1]))
      BY <2>2
    <3>2. ToSet(c[k - 1]) \subseteq ToSet(c[k])
      BY <1>3, <1>4, <3>1
    <3>3. CASE ToSet(c[j]) \subseteq ToSet(c[k - 1])
      BY <3>2, <3>3
    <3>4. CASE k < j
      BY <3>4
    <3>5. CASE k = j
      BY <3>5
    <3>6. QED
      BY <3>1, <3>3, <3>4, <3>5
  <2>3. 0..N \subseteq T
    <3> HIDE DEF T
    <3>1. QED
      BY <1>1, <2>1, <2>2, StepByStep
  <2>4. N \in T
    <3> HIDE DEF T
    <3>1. QED
      BY <1>1, <2>3
  <2>5. QED
    BY <1>1, <2>4
<1>6. ToSet(order) = Upto(N)
  BY <1>1 DEF ToSet
<1>7. ASSUME NEW k \in 1..N, order[k] \notin ToSet(m)
      PROVE  \E x \in GoodLists(p, r) : /\ Refused(p, r, n, order[k], x) /\ ToSet(x) \subseteq ToSet(m)
                                        /\ ToSet(x) \subseteq ToSet(l) \cup Upto(k - 1)
  <2>1. k \in 0..N /\ k - 1 \in 0..N
    BY <1>1
  <2> HIDE DEF Upto
  <2>2. c[k - 1] \in GoodLists(p, r) /\ ToSet(c[k - 1]) \subseteq ToSet(l) \cup Upto(k - 1)
    BY <1>4, <2>1
  <2>3. ToSet(c[k]) \subseteq ToSet(m) /\ ToSet(c[k - 1]) \subseteq ToSet(m)
    BY <1>2, <1>5, <2>1
  <2>4. Refused(p, r, n, order[k], c[k - 1])
    BY <1>3, <1>7, <2>2, <2>3
  <2>5. QED
    BY <2>2, <2>3, <2>4
<1>8. N \in 0..N
  BY <1>1
<1>9. /\ m \in GoodLists(p, r) /\ ToSet(l) \subseteq ToSet(m) /\ ToSet(m) \subseteq ToSet(l) \cup ToSet(order)
      /\ \A t \in Targets : Taken(p, m, t) <= n \/ OnList(p, ToSet(m), t) = OnList(p, ToSet(l), t)
  <2> HIDE DEF Upto
  <2>1. QED
    BY <1>2, <1>4, <1>6, <1>8
<1>10. QED
  BY <1>7, <1>9 DEF N, Firsts, RefusedInTurn

-----------------------------------------------------------------------------
(* Round after round.                                                      *)

LEMMA RoundsRun ==
  ASSUME NEW p, Statements(p), NEW r \in Nat, NEW l \in GoodLists(p, r), NEW fresh \in Seq(DOMAIN p)
  PROVE  \E c : /\ c[0] = l /\ \A n \in 1..PerTarget : c[n] = TakeAll(p, r, n, c[n - 1], fresh)
                /\ Rounds(p, r, l, fresh) = c[PerTarget]
<1> DEFINE X == GoodLists(p, r)
           G == [e \in X \X (1..PerTarget) |-> TakeAll(p, r, e[2], e[1], fresh)]
           Step(f) == [n \in 0..PerTarget |-> IF n = 0 THEN l ELSE TakeAll(p, r, n, f[n - 1], fresh)]
           c == CHOOSE f : f = Step(f)
<1>1. PerTarget \in Nat
  BY RoomIsANumber
<1>2. \A x \in X, n \in 1..PerTarget : TakeAll(p, r, n, x, fresh) \in X
  <2>1. \A n \in 1..PerTarget : n \in 0..PerTarget
    BY <1>1
  <2>2. QED
    BY <2>1, TakeAllDoes
<1>3. G \in [X \X (1..PerTarget) -> X]
  BY <1>2
<1>4. PICK f : f \in [0..PerTarget -> X] /\ f[0] = l /\ \A n \in 1..PerTarget : f[n] = G[<<f[n - 1], n>>]
  <2>1. l \in X
    OBVIOUS
  <2> HIDE DEF G, X
  <2>2. \E f : IsIterate(f, X, l, PerTarget, G)
    BY <1>1, <1>3, <2>1, Iterates
  <2>3. QED
    BY <2>2 DEF IsIterate
<1>5. f = Step(f)
  <2>1. ASSUME NEW n \in 1..PerTarget PROVE f[n] = TakeAll(p, r, n, f[n - 1], fresh)
    <3>1. n - 1 \in 0..PerTarget
      BY <1>1
    <3>2. f[n - 1] \in X
      <4> HIDE DEF X, G
      <4>1. QED
        BY <1>4, <3>1
    <3>3. G[<<f[n - 1], n>>] = TakeAll(p, r, n, f[n - 1], fresh)
      <4> HIDE DEF X
      <4>1. QED
        BY <3>2
    <3>4. QED
      <4> HIDE DEF X, G
      <4>1. QED
        BY <1>4, <3>3
  <2>2. \A n \in 0..PerTarget : f[n] = IF n = 0 THEN l ELSE TakeAll(p, r, n, f[n - 1], fresh)
    <3> HIDE DEF X, G
    <3>1. QED
      BY <1>1, <1>4, <2>1
  <2> HIDE DEF X, G
  <2>3. QED
    BY <1>4, <2>2
<1>6. c = Step(c)
  <2> HIDE DEF Step
  <2>1. QED
    BY <1>5
<1>7. c[0] = l /\ \A n \in 1..PerTarget : c[n] = TakeAll(p, r, n, c[n - 1], fresh)
  <2> HIDE DEF c
  <2>1. QED
    BY <1>1, <1>6
<1>8. Rounds(p, r, l, fresh) = c[PerTarget]
  BY DEF Rounds
<1>9. QED
  <2> HIDE DEF c
  <2>1. QED
    BY <1>7, <1>8

(* What is not on the list when all rounds are over has been refused in    *)
(* the last one, and in the first one too, after which no target had two   *)
(* of those that are taken.                                                *)
LEMMA RoundsDo ==
  ASSUME NEW p, Statements(p), NEW r \in Nat, NEW l \in GoodLists(p, r), NEW fresh \in Seq(DOMAIN p),
         NEW m, m = Rounds(p, r, l, fresh)
  PROVE  /\ m \in GoodLists(p, r) /\ ToSet(l) \subseteq ToSet(m) /\ ToSet(m) \subseteq ToSet(l) \cup ToSet(fresh)
         /\ \A i \in ToSet(fresh) \ ToSet(m) : Refused(p, r, PerTarget, i, m)
         /\ PerTarget = 0 => m = l
         /\ PerTarget > 0 =>
              \E x \in GoodLists(p, r) :
                /\ ToSet(x) \subseteq ToSet(m)
                /\ \A t \in Targets : Taken(p, x, t) <= 1 \/ OnList(p, ToSet(x), t) = OnList(p, ToSet(l), t)
                /\ \A i \in ToSet(fresh) \ ToSet(m) : Refused(p, r, 1, i, x)
<1>1. PerTarget \in Nat /\ Room(r) \in Nat
  BY RoomIsANumber
<1>2. PICK c : /\ c[0] = l /\ \A n \in 1..PerTarget : c[n] = TakeAll(p, r, n, c[n - 1], fresh)
               /\ m = c[PerTarget]
  BY RoundsRun
<1>3. DOMAIN fresh = 1..Len(fresh)
  BY LenProperties
<1>4. ASSUME NEW n \in 1..PerTarget, c[n - 1] \in GoodLists(p, r)
      PROVE  /\ c[n] \in GoodLists(p, r) /\ ToSet(c[n - 1]) \subseteq ToSet(c[n]) /\ ToSet(c[n]) \subseteq ToSet(c[n - 1]) \cup ToSet(fresh)
             /\ \A t \in Targets : Taken(p, c[n], t) <= n \/ OnList(p, ToSet(c[n]), t) = OnList(p, ToSet(c[n - 1]), t)
             /\ \A i \in ToSet(fresh) \ ToSet(c[n]) : Refused(p, r, n, i, c[n])
  <2>1. n \in 0..PerTarget /\ c[n] = TakeAll(p, r, n, c[n - 1], fresh)
    BY <1>1, <1>2
  <2>2. /\ c[n] \in GoodLists(p, r) /\ ToSet(c[n - 1]) \subseteq ToSet(c[n]) /\ ToSet(c[n]) \subseteq ToSet(c[n - 1]) \cup ToSet(fresh)
        /\ \A t \in Targets : Taken(p, c[n], t) <= n \/ OnList(p, ToSet(c[n]), t) = OnList(p, ToSet(c[n - 1]), t)
    BY <1>4, <2>1, TakeAllDoes
  <2>3. ASSUME NEW i \in ToSet(fresh) \ ToSet(c[n]) PROVE Refused(p, r, n, i, c[n])
    <3>1. PICK k \in 1..Len(fresh) : i = fresh[k]
      BY <1>3 DEF ToSet
    <3>2. PICK x \in GoodLists(p, r) : Refused(p, r, n, i, x) /\ ToSet(x) \subseteq ToSet(c[n])
      BY <1>4, <2>1, <2>3, <3>1, TakeAllDoes DEF RefusedInTurn
    <3>3. Len(x) <= Len(c[n]) /\ Taken(p, x, p[i].target) <= Taken(p, c[n], p[i].target)
      BY <2>2, <3>2, LongerList
    <3>4. x \in Seq(DOMAIN p) /\ c[n] \in Seq(DOMAIN p)
      BY <2>2 DEF GoodLists
    <3>5. /\ Len(x) \in Nat /\ Len(c[n]) \in Nat
          /\ Taken(p, x, p[i].target) \in Nat /\ Taken(p, c[n], p[i].target) \in Nat
      BY <3>4, ListFacts
    <3>6. QED
      BY <1>1, <3>2, <3>3, <3>5 DEF Refused
  <2>4. QED
    BY <2>2, <2>3
<1>5. \A n \in 0..PerTarget : c[n] \in GoodLists(p, r) /\ ToSet(l) \subseteq ToSet(c[n]) /\ ToSet(c[n]) \subseteq ToSet(l) \cup ToSet(fresh)
  <2> DEFINE T == {n \in 0..PerTarget : c[n] \in GoodLists(p, r) /\ ToSet(l) \subseteq ToSet(c[n])
                                        /\ ToSet(c[n]) \subseteq ToSet(l) \cup ToSet(fresh)}
  <2>1. 0 \in T
    BY <1>1, <1>2
  <2>2. ASSUME NEW n \in 1..PerTarget, n - 1 \in T PROVE n \in T
    <3>1. /\ c[n - 1] \in GoodLists(p, r) /\ ToSet(l) \subseteq ToSet(c[n - 1])
          /\ ToSet(c[n - 1]) \subseteq ToSet(l) \cup ToSet(fresh)
      BY <2>2
    <3>2. c[n] \in GoodLists(p, r) /\ ToSet(l) \subseteq ToSet(c[n]) /\ ToSet(c[n]) \subseteq ToSet(l) \cup ToSet(fresh)
      BY <1>4, <3>1
    <3>3. n \in 0..PerTarget
      BY <1>1
    <3>4. QED
      BY <3>2, <3>3
  <2> HIDE DEF T
  <2>3. 0..PerTarget \subseteq T
    BY <1>1, <2>1, <2>2, StepByStep
  <2>4. QED
    BY <2>3 DEF T
<1>6. PerTarget \in 0..PerTarget
  BY <1>1
<1>7. m \in GoodLists(p, r) /\ ToSet(l) \subseteq ToSet(m) /\ ToSet(m) \subseteq ToSet(l) \cup ToSet(fresh)
  BY <1>2, <1>5, <1>6
<1>8. PerTarget = 0 => m = l
  BY <1>2
<1>9. \A i \in ToSet(fresh) \ ToSet(m) : Refused(p, r, PerTarget, i, m)
  <2>1. CASE PerTarget = 0
    <3>1. \A i \in ToSet(fresh) : Taken(p, m, p[i].target) \in Nat
      <4>1. m \in Seq(DOMAIN p)
        BY <1>7 DEF GoodLists
      <4>2. QED
        BY <4>1, ListFacts
    <3>2. QED
      BY <2>1, <3>1 DEF Refused
  <2>2. CASE PerTarget # 0
    <3>1. PerTarget \in 1..PerTarget /\ PerTarget - 1 \in 0..PerTarget
      BY <1>1, <2>2
    <3>2. QED
      BY <1>2, <1>4, <1>5, <3>1
  <2>3. QED
    BY <2>1, <2>2
<1>10. ASSUME PerTarget > 0
       PROVE  \E x \in GoodLists(p, r) :
                /\ ToSet(x) \subseteq ToSet(m)
                /\ \A t \in Targets : Taken(p, x, t) <= 1 \/ OnList(p, ToSet(x), t) = OnList(p, ToSet(l), t)
                /\ \A i \in ToSet(fresh) \ ToSet(m) : Refused(p, r, 1, i, x)
  <2>1. 1 \in 1..PerTarget /\ 1 \in 0..PerTarget /\ 1 - 1 = 0 /\ 0 \in 0..PerTarget
    BY <1>1, <1>10
  <2>2. c[0] \in GoodLists(p, r)
    BY <1>2
  <2>3. /\ c[1] \in GoodLists(p, r)
        /\ \A t \in Targets : Taken(p, c[1], t) <= 1 \/ OnList(p, ToSet(c[1]), t) = OnList(p, ToSet(l), t)
        /\ \A i \in ToSet(fresh) \ ToSet(c[1]) : Refused(p, r, 1, i, c[1])
    BY <1>2, <1>4, <2>1, <2>2
  <2> DEFINE T == {n \in 0..PerTarget : n < 1 \/ ToSet(c[1]) \subseteq ToSet(c[n])}
  <2>4. 0 \in T
    BY <2>1
  <2>5. ASSUME NEW n \in 1..PerTarget, n - 1 \in T PROVE n \in T
    <3>1. n - 1 \in 0..PerTarget /\ (n - 1 < 1 \/ ToSet(c[1]) \subseteq ToSet(c[n - 1]))
      BY <2>5
    <3>2. CASE n = 1
      BY <3>2, <2>1
    <3>3. CASE n # 1
      <4>1. ToSet(c[1]) \subseteq ToSet(c[n - 1])
        BY <3>1, <3>3
      <4>2. ToSet(c[n - 1]) \subseteq ToSet(c[n])
        BY <1>4, <1>5, <3>1
      <4>3. QED
        BY <4>1, <4>2
    <3>4. QED
      BY <3>2, <3>3
  <2>6. PerTarget \in T
    <3> HIDE DEF T
    <3>1. 0..PerTarget \subseteq T
      BY <1>1, <2>4, <2>5, StepByStep
    <3>2. QED
      BY <1>6, <3>1
  <2>7. ToSet(c[1]) \subseteq ToSet(m)
    BY <1>2, <1>10, <2>6
  <2>8. QED
    BY <2>3, <2>7
<1>11. QED
  BY <1>7, <1>8, <1>9, <1>10

-----------------------------------------------------------------------------
(* The list of a day: what is not on it was refused by it; a statement of  *)
(* today's whose target has none leaves no other target two of today's;    *)
(* and one that is carried over was refused by a list of older ones.       *)

LEMMA ViewDoes ==
  ASSUME NEW p, Statements(p), NEW t, NEW r \in Nat, NEW l, l = View(p, t, r)
  PROVE  /\ l \in GoodLists(p, r)
         /\ \A i \in DOMAIN p \ ToSet(l) : Refused(p, r, PerTarget, i, l)
         /\ \A i \in DOMAIN p \ (CarriedOf(p, t) \cup ToSet(l)) :
              Taken(p, l, p[i].target) = 0 =>
                \A u \in Targets : Cardinality(OnList(p, ToSet(l) \ CarriedOf(p, t), u)) <= 1
         /\ \A i \in CarriedOf(p, t) \ ToSet(l) :
              \E x \in GoodLists(p, r) : Refused(p, r, PerTarget, i, x) /\ ToSet(x) \subseteq {j \in CarriedOf(p, t) : j < i}
<1> DEFINE C == CarriedOf(p, t)
           F == DOMAIN p \ C
           q == OldestFirst(C)
           f == RichestFirst(p, F)
           a == TakeAll(p, r, PerTarget, <<>>, q)
<1>1. PerTarget \in Nat /\ Room(r) \in Nat /\ PerTarget \in 0..PerTarget
  BY RoomIsANumber
<1>2. DOMAIN p \subseteq Nat /\ IsFiniteSet(DOMAIN p) /\ \A i \in DOMAIN p : p[i].target \in Targets /\ p[i].words \in Nat
  BY DEF Statements
<1>3. /\ C \in SUBSET DOMAIN p /\ F \in SUBSET DOMAIN p
      /\ C \in SUBSET Nat /\ F \in SUBSET Nat /\ IsFiniteSet(C) /\ IsFiniteSet(F)
  <2>1. C \in SUBSET DOMAIN p
    BY DEF CarriedOf
  <2> HIDE DEF C
  <2>2. F \in SUBSET DOMAIN p
    OBVIOUS
  <2> HIDE DEF F
  <2>3. IsFiniteSet(C) /\ IsFiniteSet(F)
    BY <1>2, <2>1, <2>2, Smaller
  <2>4. QED
    BY <1>2, <2>1, <2>2, <2>3
<1>4. l = Rounds(p, r, a, f)
  BY DEF View
<1>5. DOMAIN p = C \cup F
  BY <1>3
<1> HIDE DEF C, F, q, f, a
<1>6. /\ q \in Seq(DOMAIN p) /\ ToSet(q) = C /\ DOMAIN q = 1..Len(q)
      /\ \A m, k \in 1..Len(q) : m < k => q[m] < q[k]
  <2>1. q \in Seq(C) /\ ToSet(q) = C /\ \A m, k \in 1..Len(q) : m < k => q[m] < q[k]
    BY <1>3, OldestFirstIsAll DEF q
  <2>2. q \in Seq(DOMAIN p)
    BY <1>3, <2>1, SeqMonotonic
  <2>3. QED
    BY <2>1, <2>2, LenProperties
<1>7. f \in Seq(DOMAIN p) /\ ToSet(f) = F
  <2>1. \A i \in F : p[i].words \in Nat
    BY <1>2, <1>3
  <2>2. f \in Seq(F) /\ ToSet(f) = F
    BY <1>3, <2>1, RichestFirstIsAll DEF f
  <2>3. QED
    BY <1>3, <2>2, SeqMonotonic
<1>8. <<>> \in GoodLists(p, r) /\ ToSet(<<>>) = {}
  <2>1. <<>> \in Seq(DOMAIN p) /\ Len(<<>>) = 0
    BY EmptySeq
  <2>2. ToSet(<<>>) = {}
    BY DEF ToSet
  <2>3. \A u \in Targets : Taken(p, <<>>, u) = 0
    <3>1. \A u : OnList(p, {}, u) = {}
      BY DEF OnList
    <3>2. \A u \in Targets : Taken(p, <<>>, u) = Cardinality(OnList(p, ToSet(<<>>), u))
      BY <2>1, ListFacts
    <3>3. QED
      BY <2>2, <3>1, <3>2, FS_EmptySet
  <2>4. Len(<<>>) <= Room(r) /\ Len(<<>>) = Cardinality(ToSet(<<>>))
    BY <1>1, <2>1, <2>2, FS_EmptySet
  <2>5. \A u \in Targets : Taken(p, <<>>, u) <= PerTarget
    BY <1>1, <2>3
  <2>6. QED
    BY <2>1, <2>2, <2>4, <2>5 DEF GoodLists
<1>9. /\ a \in GoodLists(p, r) /\ ToSet(a) \subseteq C
      /\ \A k \in 1..Len(q) :
           \/ q[k] \in ToSet(a)
           \/ \E x \in GoodLists(p, r) : /\ Refused(p, r, PerTarget, q[k], x) /\ ToSet(x) \subseteq ToSet(a)
                                         /\ ToSet(x) \subseteq {q[j] : j \in 1..(k - 1)}
  <2>1. a = TakeAll(p, r, PerTarget, <<>>, q)
    BY DEF a
  <2>2. a \in GoodLists(p, r) /\ ToSet(a) \subseteq ToSet(<<>>) \cup ToSet(q)
    BY <1>1, <1>6, <1>8, <2>1, TakeAllDoes
  <2>3. \A k \in 1..Len(q) : q[k] \in ToSet(a) \/ RefusedInTurn(p, r, PerTarget, <<>>, q, a, k)
    BY <1>1, <1>6, <1>8, <2>1, TakeAllDoes
  <2>4. QED
    BY <1>6, <1>8, <2>2, <2>3 DEF Firsts, RefusedInTurn
<1>10. /\ l \in GoodLists(p, r) /\ ToSet(a) \subseteq ToSet(l)
       /\ \A i \in F \ ToSet(l) : Refused(p, r, PerTarget, i, l)
       /\ PerTarget = 0 => l = a
       /\ PerTarget > 0 =>
            \E x \in GoodLists(p, r) :
              /\ ToSet(x) \subseteq ToSet(l)
              /\ \A u \in Targets : Taken(p, x, u) <= 1 \/ OnList(p, ToSet(x), u) = OnList(p, ToSet(a), u)
              /\ \A i \in F \ ToSet(l) : Refused(p, r, 1, i, x)
  BY <1>4, <1>7, <1>9, RoundsDo
<1>11. /\ l \in Seq(DOMAIN p) /\ Len(l) <= Room(r) /\ Len(l) \in Nat /\ ToSet(l) \in SUBSET DOMAIN p
       /\ \A u \in Targets : Taken(p, l, u) <= PerTarget
       /\ \A u : /\ Taken(p, l, u) \in Nat /\ Taken(p, l, u) = Cardinality(OnList(p, ToSet(l), u))
                 /\ IsFiniteSet(OnList(p, ToSet(l), u))
  <2>1. l \in Seq(DOMAIN p) /\ Len(l) <= Room(r) /\ \A u \in Targets : Taken(p, l, u) <= PerTarget
    BY <1>10 DEF GoodLists
  <2>2. QED
    BY <2>1, ListFacts
<1>12. ASSUME NEW i \in C \ ToSet(l)
       PROVE  \E x \in GoodLists(p, r) : /\ Refused(p, r, PerTarget, i, x) /\ ToSet(x) \subseteq ToSet(l)
                                         /\ ToSet(x) \subseteq {j \in C : j < i}
  <2>1. PICK k \in 1..Len(q) : i = q[k]
    BY <1>6, <1>12 DEF ToSet
  <2>2. q[k] \notin ToSet(a)
    BY <1>10, <1>12, <2>1
  <2>3. PICK x \in GoodLists(p, r) : /\ Refused(p, r, PerTarget, i, x) /\ ToSet(x) \subseteq ToSet(a)
                                     /\ ToSet(x) \subseteq {q[j] : j \in 1..(k - 1)}
    BY <1>9, <2>1, <2>2
  <2>4. ASSUME NEW j \in 1..(k - 1) PROVE q[j] < i
    <3>1. j \in 1..Len(q) /\ j < k
      OBVIOUS
    <3>2. QED
      BY <1>6, <2>1, <3>1
  <2>5. ToSet(x) \subseteq {j \in C : j < i}
    BY <1>9, <2>3, <2>4
  <2>6. QED
    BY <1>10, <2>3, <2>5
<1>13. ASSUME NEW i \in DOMAIN p \ ToSet(l) PROVE Refused(p, r, PerTarget, i, l)
  <2>1. CASE i \in F
    BY <1>10, <1>13, <2>1
  <2>2. CASE i \in C
    <3>1. PICK x \in GoodLists(p, r) : Refused(p, r, PerTarget, i, x) /\ ToSet(x) \subseteq ToSet(l)
      BY <1>12, <1>13, <2>2
    <3>2. Len(x) <= Len(l) /\ Taken(p, x, p[i].target) <= Taken(p, l, p[i].target)
      BY <1>10, <3>1, LongerList
    <3>3. x \in Seq(DOMAIN p)
      BY DEF GoodLists
    <3>4. Len(x) \in Nat /\ Taken(p, x, p[i].target) \in Nat
      BY <3>3, ListFacts
    <3>5. QED
      BY <1>1, <1>11, <3>1, <3>2, <3>4 DEF Refused
  <2>3. QED
    BY <1>5, <2>1, <2>2
<1>14. ASSUME NEW i \in F \ ToSet(l), Taken(p, l, p[i].target) = 0, NEW u \in Targets
       PROVE  Cardinality(OnList(p, ToSet(l) \ C, u)) <= 1
  <2>1. OnList(p, ToSet(l) \ C, u) \in SUBSET OnList(p, ToSet(l), u)
    BY DEF OnList
  <2>2. CASE PerTarget = 0
    <3>1. Cardinality(OnList(p, ToSet(l), u)) = 0
      BY <1>11, <2>2
    <3>2. /\ Cardinality(OnList(p, ToSet(l) \ C, u)) <= Cardinality(OnList(p, ToSet(l), u))
          /\ Cardinality(OnList(p, ToSet(l) \ C, u)) \in Nat
      BY <1>11, <2>1, Smaller
    <3>3. QED
      BY <3>1, <3>2
  <2>3. CASE PerTarget > 0
    <3>1. PICK x \in GoodLists(p, r) :
              /\ ToSet(x) \subseteq ToSet(l)
              /\ \A v \in Targets : Taken(p, x, v) <= 1 \/ OnList(p, ToSet(x), v) = OnList(p, ToSet(a), v)
              /\ Refused(p, r, 1, i, x)
      BY <1>10, <1>14, <2>3
    <3>2. x \in Seq(DOMAIN p)
      BY DEF GoodLists
    <3>3. /\ Len(x) \in Nat
          /\ \A v : /\ Taken(p, x, v) \in Nat /\ Taken(p, x, v) = Cardinality(OnList(p, ToSet(x), v))
                    /\ IsFiniteSet(OnList(p, ToSet(x), v))
      BY <3>2, ListFacts
    <3>4. /\ Len(x) <= Len(l) /\ (Len(x) = Len(l) => ToSet(x) = ToSet(l))
          /\ Taken(p, x, p[i].target) <= Taken(p, l, p[i].target)
      BY <1>10, <3>1, LongerList
    <3>5. Taken(p, x, p[i].target) = 0
      BY <1>14, <3>3, <3>4
    <3>6. Len(x) >= Room(r)
      BY <3>1, <3>5 DEF Refused
    <3>7. ToSet(x) = ToSet(l)
      BY <1>1, <1>11, <3>3, <3>4, <3>6
    <3>8. CASE Taken(p, x, u) <= 1
      <4>1. Cardinality(OnList(p, ToSet(l), u)) <= 1
        BY <3>3, <3>7, <3>8
      <4>2. /\ Cardinality(OnList(p, ToSet(l) \ C, u)) <= Cardinality(OnList(p, ToSet(l), u))
            /\ Cardinality(OnList(p, ToSet(l) \ C, u)) \in Nat /\ Cardinality(OnList(p, ToSet(l), u)) \in Nat
        BY <1>11, <2>1, Smaller
      <4>3. QED
        BY <4>1, <4>2
    <3>9. CASE OnList(p, ToSet(x), u) = OnList(p, ToSet(a), u)
      <4>1. OnList(p, ToSet(l) \ C, u) = {}
        BY <1>9, <3>7, <3>9 DEF OnList
      <4>2. QED
        BY <4>1, FS_EmptySet
    <3>10. QED
      BY <3>1, <3>8, <3>9
  <2>4. QED
    BY <1>1, <2>2, <2>3
<1>15. QED
  <2>1. \A i \in C \ ToSet(l) :
          \E x \in GoodLists(p, r) : Refused(p, r, PerTarget, i, x) /\ ToSet(x) \subseteq {j \in C : j < i}
    BY <1>12
  <2>2. \A i \in DOMAIN p \ (C \cup ToSet(l)) :
          Taken(p, l, p[i].target) = 0 => \A u \in Targets : Cardinality(OnList(p, ToSet(l) \ C, u)) <= 1
    BY <1>5, <1>14
  <2>3. QED
    BY <1>10, <1>13, <2>1, <2>2 DEF C

-----------------------------------------------------------------------------
(* The review's inductive invariant: its types, the list as it is computed,*)
(* what was decided and what waits counted among what was written, and the *)
(* numbers in the order of the days; and so for the pool in its file, of   *)
(* which a launch knows nothing as decided.                                *)

PoolIs(d, td, p, w, res, dec) ==
  /\ d \in 1..LastDay /\ td \in 1..d /\ w \in 0..Most
  /\ DOMAIN p \subseteq 1..w
  /\ \A i \in DOMAIN p : p[i] \in [target : Targets, words : Words, born : 1..d]
  /\ res \in Nat /\ dec \subseteq 1..w
  /\ res + Cardinality(DOMAIN p) <= w
  /\ \A i, j \in DOMAIN p : i < j => p[i].born <= p[j].born
PoolInv == PoolIs(day, today, pool, written, resolved, deciding)
SavedInv == PoolIs(day, today, saved, written, 0, {})
ReviewIndInv == PoolInv /\ SavedInv /\ list = View(pool, today, resolved)

LEMMA PoolFacts ==
  ASSUME NEW d, NEW td, NEW p, NEW w, NEW res, NEW dec, PoolIs(d, td, p, w, res, dec)
  PROVE  /\ Statements(p) /\ res \in 0..Most /\ Cardinality(DOMAIN p) \in Nat
         /\ d \in Nat /\ td \in Nat /\ w \in Nat /\ DOMAIN p \subseteq Nat
         /\ \A i \in DOMAIN p : p[i].target \in Targets /\ p[i].words \in Words /\ p[i].born \in Nat /\ p[i].born <= d
<1>1. w \in Nat /\ Most \in Nat /\ w <= Most /\ d \in Nat /\ td \in Nat
  BY ReviewAssumption DEF PoolIs
<1>2. IsFiniteSet(1..w)
  <2>1. 1 \in Int /\ w \in Int
    BY <1>1
  <2>2. QED
    BY <2>1, FS_Interval
<1>3. DOMAIN p \in SUBSET (1..w)
  BY DEF PoolIs
<1>4. IsFiniteSet(DOMAIN p) /\ Cardinality(DOMAIN p) \in Nat
  BY <1>2, <1>3, Smaller
<1>5. \A i \in DOMAIN p : p[i].target \in Targets /\ p[i].words \in Words /\ p[i].born \in 1..d
  BY DEF PoolIs
<1>6. Statements(p)
  <2>1. DOMAIN p \subseteq Nat
    BY <1>3
  <2>2. QED
    BY <1>4, <1>5, <2>1, ReviewAssumption DEF Statements
<1>7. res \in 0..Most
  <2>1. res \in Nat /\ res + Cardinality(DOMAIN p) <= w
    BY DEF PoolIs
  <2>2. QED
    BY <1>1, <1>4, <2>1
<1>8. QED
  BY <1>1, <1>3, <1>4, <1>5, <1>6, <1>7

LEMMA ReviewIsTyped == ASSUME ReviewIndInv PROVE ReviewTypeOK
<1>1. PoolInv /\ list = View(pool, today, resolved)
  BY DEF ReviewIndInv
<1>2. Statements(pool) /\ resolved \in 0..Most
  BY <1>1, PoolFacts DEF PoolInv
<1>3. resolved \in Nat
  BY <1>1 DEF PoolInv, PoolIs
<1>4. list \in Seq(DOMAIN pool)
  BY <1>1, <1>2, <1>3, ViewDoes DEF GoodLists
<1>5. ToSet(list) \subseteq DOMAIN pool
  BY <1>2, <1>4, ListFacts
<1>6. /\ day \in 1..LastDay /\ today \in 1..day /\ written \in 0..Most
      /\ DOMAIN pool \subseteq 1..written /\ deciding \subseteq 1..written
      /\ \A i \in DOMAIN pool : pool[i] \in [target : Targets, words : Words, born : 1..day]
      /\ DOMAIN saved \subseteq 1..written
      /\ \A i \in DOMAIN saved : saved[i] \in [target : Targets, words : Words, born : 1..day]
  BY <1>1 DEF ReviewIndInv, PoolInv, SavedInv, PoolIs
<1>7. today \in 1..LastDay /\ today <= day
  <2>1. LastDay \in Int /\ day \in Int
    BY <1>6, ReviewAssumption
  <2>2. QED
    BY <1>6, <2>1
<1>8. QED
  BY <1>2, <1>5, <1>6, <1>7 DEF ReviewTypeOK

LEMMA ListIsFullThen == ASSUME ReviewIndInv PROVE ListIsFull
<1>1. PoolInv /\ list = View(pool, today, resolved)
  BY DEF ReviewIndInv
<1>2. Statements(pool) /\ resolved \in Nat
  BY <1>1, PoolFacts DEF PoolInv, PoolIs
<1>3. /\ list \in GoodLists(pool, resolved)
      /\ \A i \in DOMAIN pool \ ToSet(list) : Refused(pool, resolved, PerTarget, i, list)
      /\ \A i \in DOMAIN pool \ (CarriedOf(pool, today) \cup ToSet(list)) :
           Taken(pool, list, pool[i].target) = 0 =>
             \A u \in Targets : Cardinality(OnList(pool, ToSet(list) \ CarriedOf(pool, today), u)) <= 1
  BY <1>1, <1>2, ViewDoes
<1>4. /\ list \in Seq(DOMAIN pool) /\ Len(list) <= Room(resolved)
      /\ \A t \in Targets : Taken(pool, list, t) <= PerTarget
  BY <1>3 DEF GoodLists
<1>5. Len(list) \in Nat /\ Room(resolved) \in Nat /\ PerTarget \in Nat /\ \A t : Taken(pool, list, t) \in Nat
  BY <1>2, <1>4, ListFacts, RoomIsANumber
<1>6. \A i \in DOMAIN pool : pool[i].target \in Targets
  BY <1>2 DEF Statements
<1>7. ASSUME NEW i \in DOMAIN pool \ Listed
      PROVE  Len(list) = Room(resolved) \/ Taken(pool, list, pool[i].target) = PerTarget
  <2>1. Refused(pool, resolved, PerTarget, i, list)
    BY <1>3 DEF Listed
  <2>2. QED
    BY <1>4, <1>5, <1>6, <2>1 DEF Refused
<1> DEFINE fresh == Listed \ Carried
           Of(t) == {i \in fresh : pool[i].target = t}
           taken == [t \in Targets |-> Taken(pool, list, t)]
<1>8. ASSUME NEW i \in DOMAIN pool \ (Carried \cup fresh), Taken(pool, list, pool[i].target) = 0, NEW t \in Targets
      PROVE  Cardinality(Of(t)) <= 1
  <2>1. Of(t) = OnList(pool, ToSet(list) \ CarriedOf(pool, today), t)
    BY DEF OnList, Listed, Carried
  <2>2. i \in DOMAIN pool \ (CarriedOf(pool, today) \cup ToSet(list))
    BY DEF Listed, Carried
  <2> HIDE DEF Of
  <2>3. QED
    BY <1>3, <1>8, <2>1, <2>2
<1>9. /\ \A t \in Targets : taken[t] <= PerTarget
      /\ \A i \in DOMAIN pool \ Listed : Len(list) = Room(resolved) \/ taken[pool[i].target] = PerTarget
      /\ \A i \in DOMAIN pool \ (Carried \cup fresh) :
           taken[pool[i].target] = 0 => \A t \in Targets : Cardinality(Of(t)) <= 1
  <2> HIDE DEF fresh, Of
  <2>1. \A t \in Targets : taken[t] = Taken(pool, list, t)
    OBVIOUS
  <2> HIDE DEF taken
  <2>2. QED
    BY <1>4, <1>6, <1>7, <1>8, <2>1
<1>10. QED
  BY <1>4, <1>9 DEF ListIsFull

-----------------------------------------------------------------------------
(* Every step of the review keeps it.                                      *)

LEMMA NoPool ==
  ASSUME NEW d \in 1..LastDay, NEW td \in 1..d, NEW w \in 0..Most PROVE PoolIs(d, td, <<>>, w, 0, {})
<1>1. DOMAIN <<>> = {} /\ Cardinality({}) = 0
  BY FS_EmptySet
<1>2. w \in Nat
  BY ReviewAssumption
<1>3. QED
  BY <1>1, <1>2 DEF PoolIs

LEMMA ReviewInvInit == ASSUME ReviewInit PROVE ReviewIndInv
<1>1. /\ day = 1 /\ today = 1 /\ pool = <<>> /\ written = 0 /\ saved = <<>>
      /\ resolved = 0 /\ deciding = {} /\ list = <<>>
  BY DEF ReviewInit
<1>2. DOMAIN pool = {} /\ Cardinality(DOMAIN pool) = 0
  BY <1>1, FS_EmptySet
<1>3. PoolInv /\ SavedInv
  BY <1>1, <1>2, NoPool, ReviewAssumption DEF PoolInv, SavedInv
<1>4. View(pool, today, resolved) = <<>>
  <2> DEFINE v == View(pool, today, resolved)
  <2>1. Statements(pool) /\ resolved \in Nat
    BY <1>1, <1>3, PoolFacts DEF PoolInv
  <2>2. v \in GoodLists(pool, resolved)
    BY <2>1, ViewDoes
  <2> HIDE DEF v
  <2>3. v \in Seq(DOMAIN pool) /\ Len(v) = Cardinality(ToSet(v))
    BY <2>2 DEF GoodLists
  <2>4. ToSet(v) = {}
    BY <1>2, <2>1, <2>3, ListFacts
  <2>5. Len(v) = 0
    BY <2>3, <2>4, FS_EmptySet
  <2>6. v = <<>>
    BY <2>3, <2>5, EmptySeq
  <2>7. QED
    BY <2>6 DEF v
<1>5. QED
  BY <1>1, <1>3, <1>4 DEF ReviewIndInv

(* A pool is one later on, when nothing is known as decided.               *)
LEMMA PoolLater ==
  ASSUME NEW d, NEW td, NEW p, NEW w, NEW res, NEW dec, PoolIs(d, td, p, w, res, dec),
         NEW d2 \in 1..LastDay, d <= d2, NEW td2 \in 1..d2, NEW w2 \in 0..Most, w <= w2
  PROVE  PoolIs(d2, td2, p, w2, 0, {})
<1>1. /\ d \in Nat /\ w \in Nat /\ Cardinality(DOMAIN p) \in Nat /\ res \in 0..Most
  BY PoolFacts
<1>2. LastDay \in Nat /\ Most \in Nat /\ d2 \in Nat /\ w2 \in Nat
  BY ReviewAssumption
<1>3. 1..d \subseteq 1..d2 /\ 1..w \subseteq 1..w2
  BY <1>1, <1>2
<1>4. /\ DOMAIN p \subseteq 1..w /\ res + Cardinality(DOMAIN p) <= w
      /\ \A i \in DOMAIN p : p[i] \in [target : Targets, words : Words, born : 1..d]
      /\ \A i, j \in DOMAIN p : i < j => p[i].born <= p[j].born
  BY DEF PoolIs
<1>5. 0 + Cardinality(DOMAIN p) <= w2
  BY <1>1, <1>2, <1>4
<1>6. \A i \in DOMAIN p : p[i] \in [target : Targets, words : Words, born : 1..d2]
  BY <1>3, <1>4
<1>7. DOMAIN p \subseteq 1..w2
  BY <1>3, <1>4
<1>8. QED
  BY <1>4, <1>5, <1>6, <1>7 DEF PoolIs

(* What is dropped from a pool leaves a pool.                              *)
LEMMA PoolWithout ==
  ASSUME NEW d, NEW td, NEW p, NEW w, NEW res, NEW dec, PoolIs(d, td, p, w, res, dec),
         NEW S \in SUBSET DOMAIN p, NEW q, q = [i \in S |-> p[i]],
         NEW td2 \in 1..d, NEW res2 \in Nat, NEW dec2, dec2 \subseteq dec,
         \/ res2 <= res
         \/ res2 = res + 1 /\ S # DOMAIN p
  PROVE  PoolIs(d, td2, q, w, res2, dec2)
<1>1. /\ IsFiniteSet(DOMAIN p) /\ Cardinality(DOMAIN p) \in Nat /\ w \in Nat /\ d \in Nat
  BY PoolFacts DEF Statements
<1>2. /\ Cardinality(S) \in Nat /\ Cardinality(S) <= Cardinality(DOMAIN p)
      /\ \A x \in DOMAIN p \ S : Cardinality(S) < Cardinality(DOMAIN p)
  BY <1>1, Smaller
<1>3. DOMAIN q = S /\ \A i \in S : q[i] = p[i]
  OBVIOUS
<1>4. res2 + Cardinality(S) <= w
  <2>1. res \in Nat /\ res + Cardinality(DOMAIN p) <= w
    BY DEF PoolIs
  <2>2. CASE res2 <= res
    BY <1>1, <1>2, <2>1, <2>2
  <2>3. CASE res2 = res + 1 /\ S # DOMAIN p
    <3>1. Cardinality(S) < Cardinality(DOMAIN p)
      BY <1>2, <2>3
    <3>2. QED
      BY <1>1, <1>2, <2>1, <2>3, <3>1
  <2>4. QED
    BY <2>2, <2>3
<1>5. /\ d \in 1..LastDay /\ w \in 0..Most /\ DOMAIN p \subseteq 1..w /\ dec \subseteq 1..w
      /\ \A i \in DOMAIN p : p[i] \in [target : Targets, words : Words, born : 1..d]
      /\ \A i, j \in DOMAIN p : i < j => p[i].born <= p[j].born
  BY DEF PoolIs
<1>6. QED
  BY <1>3, <1>4, <1>5 DEF PoolIs

LEMMA AddKeeps == ASSUME PoolInv, NEW t \in Targets, NEW w \in Words, Add(t, w) PROVE PoolInv'
<1>1. PoolIs(day, today, pool, written, resolved, deciding)
  BY DEF PoolInv
<1>2. /\ Statements(pool) /\ written \in Nat /\ day \in Nat /\ DOMAIN pool \subseteq Nat
      /\ \A i \in DOMAIN pool : /\ pool[i].target \in Targets /\ pool[i].words \in Words
                                /\ pool[i].born \in Nat /\ pool[i].born <= day
  BY <1>1, PoolFacts
<1>3. /\ day \in 1..LastDay /\ today \in 1..day /\ written \in 0..Most
      /\ DOMAIN pool \subseteq 1..written /\ deciding \subseteq 1..written
      /\ resolved \in Nat /\ resolved + Cardinality(DOMAIN pool) <= written
      /\ \A i \in DOMAIN pool : pool[i] \in [target : Targets, words : Words, born : 1..day]
      /\ \A i, j \in DOMAIN pool : i < j => pool[i].born <= pool[j].born
  BY <1>1 DEF PoolIs
<1>4. UNCHANGED <<day, today, resolved, deciding>>
  BY DEF Add
<1>5. CASE Write(t, w)
  <2>1. /\ written < Most /\ written' = written + 1
        /\ pool' = [i \in DOMAIN pool \cup {written'} |->
                      IF i = written' THEN [target |-> t, words |-> w, born |-> day] ELSE pool[i]]
    BY <1>5 DEF Write
  <2> DEFINE new == [target |-> t, words |-> w, born |-> day]
  <2>2. /\ DOMAIN pool' = DOMAIN pool \cup {written + 1} /\ written + 1 \notin DOMAIN pool
        /\ pool'[written + 1] = new /\ \A i \in DOMAIN pool : pool'[i] = pool[i]
    <3>1. written + 1 \notin DOMAIN pool
      BY <1>2, <1>3
    <3>2. QED
      BY <2>1, <3>1
  <2>3. new \in [target : Targets, words : Words, born : 1..day] /\ new.born = day
    BY <1>3
  <2> HIDE DEF new
  <2>4. Cardinality(DOMAIN pool') = Cardinality(DOMAIN pool) + 1 /\ Cardinality(DOMAIN pool) \in Nat
    <3>1. IsFiniteSet(DOMAIN pool)
      BY <1>2 DEF Statements
    <3>2. QED
      BY <2>2, <3>1, FS_AddElement, FS_CardinalityType
  <2>5. resolved + Cardinality(DOMAIN pool') <= written'
    BY <1>2, <1>3, <2>1, <2>4
  <2>6. written' \in 0..Most /\ DOMAIN pool' \subseteq 1..written' /\ deciding \subseteq 1..written'
    <3>1. Most \in Nat /\ 1..written \subseteq 1..(written + 1)
      BY <1>2, ReviewAssumption
    <3>2. QED
      BY <1>2, <1>3, <2>1, <2>2, <3>1
  <2>7. \A i \in DOMAIN pool' : pool'[i] \in [target : Targets, words : Words, born : 1..day]
    BY <1>3, <2>2, <2>3
  <2>8. ASSUME NEW i \in DOMAIN pool', NEW j \in DOMAIN pool', i < j PROVE pool'[i].born <= pool'[j].born
    <3>1. i \in DOMAIN pool
      <4>1. i = written + 1 => j \in DOMAIN pool /\ j <= written
        BY <1>2, <1>3, <2>2, <2>8
      <4>2. i = written + 1 => FALSE
        BY <1>2, <1>3, <2>8, <4>1
      <4>3. QED
        BY <2>2, <4>2
    <3>2. CASE j \in DOMAIN pool
      BY <1>3, <2>2, <2>8, <3>1, <3>2
    <3>3. CASE j = written + 1
      BY <1>2, <2>2, <2>3, <3>1, <3>3
    <3>4. QED
      BY <2>2, <3>2, <3>3
  <2>9. QED
    BY <1>3, <1>4, <2>5, <2>6, <2>7, <2>8 DEF PoolInv, PoolIs
<1>6. ASSUME NEW i \in DOMAIN pool, Merge(i, w) PROVE PoolInv'
  <2>1. written' = written /\ pool' = [pool EXCEPT ![i].words = IF w > @ THEN w ELSE @]
    BY <1>6 DEF Merge
  <2>2. DOMAIN pool' = DOMAIN pool
    BY <2>1
  <2>3. ASSUME NEW j \in DOMAIN pool
        PROVE  pool'[j] \in [target : Targets, words : Words, born : 1..day] /\ pool'[j].born = pool[j].born
    <3>1. CASE j = i
      <4>1. pool'[j] = [pool[j] EXCEPT !.words = IF w > @ THEN w ELSE @]
        BY <2>1, <3>1
      <4>2. QED
        BY <1>3, <4>1
    <3>2. CASE j # i
      BY <1>3, <2>1, <3>2
    <3>3. QED
      BY <3>1, <3>2
  <2>4. \A j, k \in DOMAIN pool' : j < k => pool'[j].born <= pool'[k].born
    BY <1>3, <2>2, <2>3
  <2>5. QED
    BY <1>3, <1>4, <2>1, <2>2, <2>3, <2>4 DEF PoolInv, PoolIs
<1>7. QED
  BY <1>5, <1>6 DEF Add

LEMMA ResolveKeeps ==
  ASSUME PoolInv, NEW i, Resolve(i), UNCHANGED <<day, today, written>>, deciding' \subseteq deciding
  PROVE  PoolInv'
<1>1. PoolIs(day, today, pool, written, resolved, deciding)
  BY DEF PoolInv
<1>2. today \in 1..day /\ resolved \in Nat
  BY <1>1 DEF PoolIs
<1>3. CASE i \in DOMAIN pool
  <2>1. pool' = [j \in DOMAIN pool \ {i} |-> pool[j]] /\ resolved' = resolved + 1
    BY <1>3 DEF Resolve
  <2>2. DOMAIN pool \ {i} \in SUBSET DOMAIN pool /\ DOMAIN pool \ {i} # DOMAIN pool /\ resolved' \in Nat
    BY <1>2, <1>3, <2>1
  <2>3. PoolIs(day, today, pool', written, resolved', deciding')
    BY <1>1, <1>2, <2>1, <2>2, PoolWithout
  <2>4. QED
    BY <2>3 DEF PoolInv
<1>4. CASE i \notin DOMAIN pool
  <2>1. UNCHANGED <<pool, resolved>>
    BY <1>4 DEF Resolve
  <2>2. QED
    BY <1>1, <2>1 DEF PoolInv, PoolIs
<1>5. QED
  BY <1>3, <1>4

LEMMA TickKeeps ==
  ASSUME PoolInv, ToSet(list) \subseteq DOMAIN pool, Tick
  PROVE  PoolInv'
<1>1. PoolIs(day, today, pool, written, resolved, deciding)
  BY DEF PoolInv
<1>2. resolved \in Nat /\ day \in 1..day
  BY <1>1 DEF PoolIs
<1> DEFINE kept == IF day = today THEN DOMAIN pool ELSE Listed
<1>3. PICK n \in 0..written :
        /\ pool' = [i \in {i \in kept : i > n} |-> pool[i]]
        /\ today' = day /\ resolved' = (IF day = today THEN resolved ELSE 0)
        /\ UNCHANGED <<day, written, deciding>>
  BY DEF Tick, StillAlive
<1>4. {i \in kept : i > n} \in SUBSET DOMAIN pool
  BY DEF Listed
<1> HIDE DEF kept
<1>5. resolved' \in Nat /\ resolved' <= resolved
  BY <1>2, <1>3
<1>6. PoolIs(day, day, pool', written, resolved', deciding)
  BY <1>1, <1>2, <1>3, <1>4, <1>5, PoolWithout
<1>7. QED
  BY <1>3, <1>6 DEF PoolInv

LEMMA RelaunchKeeps == ASSUME PoolInv, SavedInv, Relaunch PROVE PoolInv'
<1>1. today' = day /\ resolved' = 0 /\ deciding' = {} /\ UNCHANGED <<day, written>>
  BY DEF Relaunch
<1>2. day \in 1..LastDay /\ day \in 1..day /\ written \in 0..Most
  BY DEF PoolInv, PoolIs
<1>3. CASE StillAlive(saved, DOMAIN saved)
  <2>1. PICK n \in 0..written : pool' = [i \in {i \in DOMAIN saved : i > n} |-> saved[i]]
    BY <1>3 DEF StillAlive
  <2>2. {i \in DOMAIN saved : i > n} \in SUBSET DOMAIN saved
    OBVIOUS
  <2>3. PoolIs(day, day, pool', written, 0, {})
    BY <1>2, <2>1, <2>2, PoolWithout DEF SavedInv
  <2>4. QED
    BY <1>1, <2>3 DEF PoolInv
<1>4. CASE pool' = <<>>
  <2>1. PoolIs(day, day, pool', written, 0, {})
    BY <1>2, <1>4, NoPool
  <2>2. QED
    BY <1>1, <2>1 DEF PoolInv
<1>5. QED
  BY <1>3, <1>4 DEF Relaunch

(* The file has the pool of a moment ago, or of an earlier one, or none.   *)
LEMMA SavedKeeps == ASSUME PoolInv, SavedInv, PoolInv', ReviewNext PROVE SavedInv'
<1>1. /\ day' \in 1..LastDay /\ today' \in 1..day' /\ written' \in 0..Most
      /\ day \in 1..LastDay /\ written \in 0..Most
  BY DEF PoolInv, PoolIs
<1>2. day <= day' /\ written <= written' /\ saved' \in {saved, pool, <<>>}
  <2>1. day \in Nat /\ written \in Nat
    BY <1>1, ReviewAssumption
  <2>2. ASSUME NEW t \in Targets, NEW w \in Words, Add(t, w) PROVE written <= written' /\ UNCHANGED <<day, saved>>
    BY <2>1, <2>2 DEF Add, Write, Merge
  <2>3. ASSUME NEW i, Reject(i) \/ Approve(i) PROVE UNCHANGED <<day, written, saved>>
    BY <2>3 DEF Reject, Approve
  <2>4. ASSUME NEW i, NEW taken, Approved(i, taken) PROVE UNCHANGED <<day, written, saved>>
    BY <2>4 DEF Approved
  <2>5. ASSUME Tick \/ PoolSaved \/ Relaunch PROVE UNCHANGED <<day, written>> /\ saved' \in {saved, pool, <<>>}
    BY <2>5 DEF Tick, PoolSaved, Relaunch
  <2>6. ASSUME Midnight PROVE day <= day' /\ UNCHANGED <<written, saved>>
    BY <2>1, <2>6 DEF Midnight
  <2>7. QED
    BY <2>1, <2>2, <2>3, <2>4, <2>5, <2>6 DEF ReviewNext
<1>3. CASE saved' = saved
  BY <1>1, <1>2, <1>3, PoolLater DEF SavedInv
<1>4. CASE saved' = pool
  BY <1>1, <1>2, <1>4, PoolLater DEF PoolInv, SavedInv
<1>5. CASE saved' = <<>>
  BY <1>1, <1>5, NoPool DEF SavedInv
<1>6. QED
  BY <1>2, <1>3, <1>4, <1>5

LEMMA ReviewInvStep == ASSUME ReviewIndInv, [ReviewNext]_review PROVE ReviewIndInv'
<1>1. PoolInv /\ SavedInv /\ list = View(pool, today, resolved)
  BY DEF ReviewIndInv
<1>2. ToSet(list) \subseteq DOMAIN pool
  BY ReviewIsTyped DEF ReviewTypeOK
<1>3. CASE UNCHANGED review
  BY <1>1, <1>3 DEF ReviewIndInv, PoolInv, SavedInv, PoolIs, review
<1>4. CASE ReviewNext
  <2>1. list' = View(pool', today', resolved')
    BY <1>4 DEF ReviewNext
  <2>2. ASSUME NEW t \in Targets, NEW w \in Words, Add(t, w) PROVE PoolInv'
    BY <1>1, <2>2, AddKeeps
  <2>3. ASSUME NEW i, Reject(i) PROVE PoolInv'
    BY <1>1, <2>3, ResolveKeeps DEF Reject
  <2>4. ASSUME NEW i \in Listed \ deciding, Approve(i) PROVE PoolInv'
    <3>1. deciding' = deciding \cup {i} /\ UNCHANGED <<day, today, pool, written, resolved>>
      BY <2>4 DEF Approve
    <3>2. i \in DOMAIN pool
      BY <1>2 DEF Listed
    <3>3. QED
      BY <1>1, <3>1, <3>2 DEF PoolInv, PoolIs
  <2>5. ASSUME NEW i \in deciding, NEW taken \in BOOLEAN, Approved(i, taken) PROVE PoolInv'
    <3>1. deciding' = deciding \ {i} /\ UNCHANGED <<day, today, written>>
          /\ (Resolve(i) \/ UNCHANGED <<pool, resolved>>)
      BY <2>5 DEF Approved
    <3>2. CASE Resolve(i)
      BY <1>1, <3>1, <3>2, ResolveKeeps
    <3>3. CASE UNCHANGED <<pool, resolved>>
      BY <1>1, <3>1, <3>3 DEF PoolInv, PoolIs
    <3>4. QED
      BY <3>1, <3>2, <3>3
  <2>6. ASSUME Tick PROVE PoolInv'
    BY <1>1, <1>2, <2>6, TickKeeps
  <2>7. ASSUME Midnight PROVE PoolInv'
    <3>1. day < LastDay /\ day' = day + 1 /\ UNCHANGED <<today, pool, written, resolved, deciding>>
      BY <2>7 DEF Midnight
    <3>2. /\ day \in 1..LastDay /\ LastDay \in Nat /\ today \in 1..day
      BY <1>1, ReviewAssumption DEF PoolInv, PoolIs
    <3>3. day' \in 1..LastDay /\ today \in 1..day' /\ 1..day \subseteq 1..day'
      BY <3>1, <3>2
    <3>4. \A i \in DOMAIN pool : pool[i] \in [target : Targets, words : Words, born : 1..day']
      BY <1>1, <3>3 DEF PoolInv, PoolIs
    <3>5. QED
      BY <1>1, <3>1, <3>3, <3>4 DEF PoolInv, PoolIs
  <2>8. ASSUME Relaunch PROVE PoolInv'
    BY <1>1, <2>8, RelaunchKeeps
  <2>9. PoolInv'
    <3>1. PoolSaved => PoolInv'
      BY <1>1 DEF PoolSaved, PoolInv, PoolIs
    <3>2. QED
      BY <1>4, <2>2, <2>3, <2>4, <2>5, <2>6, <2>7, <2>8, <3>1 DEF ReviewNext
  <2>10. SavedInv'
    BY <1>1, <1>4, <2>9, SavedKeeps
  <2>11. QED
    BY <2>1, <2>9, <2>10 DEF ReviewIndInv
<1>5. QED
  BY <1>3, <1>4

-----------------------------------------------------------------------------
(* Setting up: the settings that are queued are settings.                  *)

LEMMA SetupInvInit == ASSUME SetupInit PROVE TypeOK
<1>1. saves \in Seq([by : {"window", "stamp", "test", "reset"}, is : Settings]) /\ Len(saves) = 0
  BY EmptySeq DEF SetupInit
<1>2. Fresh \in Settings
  BY DEF Fresh, Settings
<1>3. MaxSaves \in Nat /\ MaxTroubles \in Nat
  BY SetupAssumption
<1>4. /\ state \in {"missing", "partial", "downloading", "verifying", "ready", "error"}
      /\ busy \in {"no", "look", "load"} /\ {whole, removing, disturbed} \subseteq BOOLEAN
  BY DEF SetupInit, FileInit
<1>5. /\ session \in Users \cup {None} /\ settings \in Settings /\ shown \in {0, 1, 5, 6, 7, None}
      /\ permission \in {"unknown", "granted", "denied", "needsRestart"} /\ {granted, asking, testing} \subseteq BOOLEAN
      /\ extension \in {"off", "needsLogin", "ready"} /\ troubles \in 0..MaxTroubles
  <2>1. session = None /\ settings = Fresh /\ shown = None /\ permission = "unknown" /\ extension \in {"off", "ready"}
    BY DEF SetupInit
  <2>2. granted \in BOOLEAN /\ asking = TRUE /\ testing = FALSE /\ troubles = 0
    BY DEF SetupInit
  <2>3. troubles \in 0..MaxTroubles
    BY <1>3, <2>2
  <2>4. {granted, asking, testing} \subseteq BOOLEAN
    BY <2>2
  <2>5. QED
    BY <1>2, <2>1, <2>3, <2>4
<1>6. Len(saves) <= MaxSaves
  BY <1>1, <1>3
<1>7. QED
  BY <1>1, <1>4, <1>5, <1>6 DEF TypeOK

Saves == [by : {"window", "stamp", "test", "reset"}, is : Settings]

LEMMA UpdateKeeps ==
  ASSUME TypeOK, NEW by \in {"window", "stamp", "test", "reset"}, NEW next \in Settings, Update(by, next)
  PROVE  saves' \in Seq(Saves) /\ Len(saves') <= MaxSaves
<1>1. saves \in Seq(Saves) /\ Len(saves) < MaxSaves /\ saves' = Append(saves, [by |-> by, is |-> next])
  BY DEF TypeOK, Update, Saves
<1>2. [by |-> by, is |-> next] \in Saves
  BY DEF Saves
<1>3. saves' \in Seq(Saves) /\ Len(saves') = Len(saves) + 1 /\ Len(saves) \in Nat
  BY <1>1, <1>2, AppendProperties, LenProperties
<1>4. QED
  BY <1>1, <1>3, SetupAssumption

FileTyped ==
  /\ state \in {"missing", "partial", "downloading", "verifying", "ready", "error"}
  /\ busy \in {"no", "look", "load"} /\ {whole, removing, disturbed} \subseteq BOOLEAN

LEMMA FileStaysTyped ==
  ASSUME FileTyped, FileNext \/ UNCHANGED fileVars
  PROVE  FileTyped'
<1> USE DEF FileTyped
<1>1. CASE Looks
  BY <1>1 DEF Looks, Tells, GoesOn, IsOver
<1>2. CASE LookRefused
  BY <1>2 DEF LookRefused, IsOver
<1>3. CASE Begins
  BY <1>3 DEF Begins
<1>4. CASE Loads
  BY <1>4 DEF Loads, Tells, GoesOn, IsOver
<1>5. CASE LoadStops
  BY <1>5 DEF LoadStops, Tells, IsOver
<1>6. CASE RemovalBegins
  BY <1>6 DEF RemovalBegins
<1>7. CASE FileGoes \/ RemovalIsOver \/ RemovalRefused
  BY <1>7 DEF FileGoes, RemovalIsOver, RemovalRefused
<1>8. CASE Launches
  BY <1>8 DEF Launches
<1>9. CASE UNCHANGED fileVars
  BY <1>9 DEF fileVars
<1>10. QED
  BY <1>1, <1>2, <1>3, <1>4, <1>5, <1>6, <1>7, <1>8, <1>9 DEF FileNext

MainTyped ==
  /\ session \in Users \cup {None} /\ settings \in Settings
  /\ saves \in Seq(Saves) /\ Len(saves) <= MaxSaves
  /\ permission \in {"unknown", "granted", "denied", "needsRestart"} /\ granted \in BOOLEAN
  /\ extension \in {"off", "needsLogin", "ready"}
WindowTyped == shown \in {0, 1, 5, 6, 7, None} /\ asking \in BOOLEAN /\ testing \in BOOLEAN

LEMMA TypedInParts == TypeOK <=> FileTyped /\ MainTyped /\ WindowTyped /\ troubles \in 0..MaxTroubles
BY DEF TypeOK, FileTyped, MainTyped, WindowTyped, Saves

LEMMA SaveEndsKeeps == ASSUME TypeOK, NEW taken \in BOOLEAN, SaveEnds(taken), troubles' \in 0..MaxTroubles PROVE TypeOK'
<1> DEFINE by == Head(saves).by
<1>1. /\ saves # <<>> /\ saves' = Tail(saves)
      /\ settings' = (IF taken THEN Head(saves).is ELSE settings)
      /\ asking' = (asking \/ by \in {"window"} \/ (by = "reset" /\ taken)) /\ testing' = (testing /\ by # "test")
      /\ RemovalBegins \/ UNCHANGED fileVars
      /\ UNCHANGED <<session, permission, granted, extension, shown>>
  BY DEF SaveEnds, SaveIsOver
<1>2. FileTyped /\ MainTyped /\ WindowTyped
  BY TypedInParts
<1>3. Head(saves) \in Saves /\ saves' \in Seq(Saves) /\ Len(saves') = Len(saves) - 1 /\ Len(saves) \in Nat
  BY <1>1, <1>2, HeadTailProperties, LenProperties DEF MainTyped
<1>4. saves' \in Seq(Saves) /\ Len(saves') <= MaxSaves /\ settings' \in Settings
  BY <1>1, <1>2, <1>3, SetupAssumption DEF MainTyped, Saves
<1> HIDE DEF by
<1>5. asking' \in BOOLEAN /\ testing' \in BOOLEAN
  BY <1>1, <1>2 DEF WindowTyped
<1>6. FileTyped'
  BY <1>1, <1>2, FileStaysTyped DEF FileNext
<1>7. MainTyped' /\ WindowTyped'
  BY <1>1, <1>2, <1>4, <1>5 DEF MainTyped, WindowTyped
<1>8. QED
  BY <1>6, <1>7 DEF TypeOK, FileTyped, MainTyped, WindowTyped, Saves

LEMMA SetupInvStep == ASSUME TypeOK, [SetupNext]_all PROVE TypeOK'
<1>1. FileTyped /\ MainTyped /\ WindowTyped /\ troubles \in 0..MaxTroubles
  BY TypedInParts
<1>2. settings \in Settings /\ Fresh \in Settings /\ settings.seen \in {0, 1, 5, 6, 7}
  BY <1>1 DEF MainTyped, Settings, Fresh
<1>3. ASSUME FileNext \/ UNCHANGED fileVars, UNCHANGED <<main, window>>, troubles' \in 0..MaxTroubles PROVE TypeOK'
  <2>1. FileTyped'
    BY <1>1, <1>3, FileStaysTyped
  <2>2. MainTyped' /\ WindowTyped'
    BY <1>1, <1>3 DEF MainTyped, WindowTyped, main, window
  <2>3. QED
    BY <1>3, <2>1, <2>2 DEF TypeOK, FileTyped, MainTyped, WindowTyped, Saves
<1>4. ASSUME NEW by \in {"window", "stamp", "test", "reset"}, NEW next \in Settings, Update(by, next),
             UNCHANGED <<fileVars, session, settings, permission, granted, extension, window>>, troubles' \in 0..MaxTroubles
      PROVE  TypeOK'
  <2>1. saves' \in Seq(Saves) /\ Len(saves') <= MaxSaves
    BY <1>4, UpdateKeeps
  <2>2. FileTyped'
    BY <1>1, <1>4, FileStaysTyped
  <2>3. MainTyped' /\ WindowTyped'
    BY <1>1, <1>4, <2>1 DEF MainTyped, WindowTyped, window
  <2>4. QED
    BY <1>4, <2>2, <2>3 DEF TypeOK, FileTyped, MainTyped, WindowTyped, Saves
<1>5. ASSUME UNCHANGED fileVars, UNCHANGED <<settings, saves>>,
             session' \in Users \cup {None}, permission' \in {"unknown", "granted", "denied", "needsRestart"},
             granted' \in BOOLEAN, extension' \in {"off", "needsLogin", "ready"},
             shown' \in {0, 1, 5, 6, 7, None}, asking' \in BOOLEAN, testing' \in BOOLEAN, troubles' \in 0..MaxTroubles
      PROVE  TypeOK'
  <2>1. FileTyped'
    BY <1>1, <1>5, FileStaysTyped
  <2>2. MainTyped' /\ WindowTyped'
    BY <1>1, <1>5 DEF MainTyped, WindowTyped
  <2>3. QED
    BY <1>5, <2>1, <2>2 DEF TypeOK, FileTyped, MainTyped, WindowTyped, Saves
<1>6. ASSUME NEW ext \in {"off", "needsLogin", "ready"}, Launch(ext), troubles' \in 0..MaxTroubles PROVE TypeOK'
  <2>1. FileTyped'
    BY <1>1, <1>6, FileStaysTyped DEF Launch, FileNext
  <2>2. saves' = <<>> /\ saves' \in Seq(Saves) /\ Len(saves') <= MaxSaves
    BY <1>6, EmptySeq, SetupAssumption DEF Launch
  <2>3. MainTyped' /\ WindowTyped'
    BY <1>1, <1>6, <2>2 DEF MainTyped, WindowTyped, Launch
  <2>4. QED
    BY <1>6, <2>1, <2>3 DEF TypeOK, FileTyped, MainTyped, WindowTyped, Saves
<1>7. ASSUME Delete, troubles' \in 0..MaxTroubles PROVE TypeOK'
  <2>1. FileTyped'
    BY <1>1, <1>7, FileStaysTyped DEF Delete
  <2>2. saves' \in Seq(Saves) /\ Len(saves') <= MaxSaves
    BY <1>2, <1>7, UpdateKeeps DEF Delete
  <2>3. MainTyped' /\ WindowTyped'
    BY <1>1, <1>7, <2>2 DEF MainTyped, WindowTyped, Delete, window
  <2>4. QED
    BY <1>7, <2>1, <2>3 DEF TypeOK, FileTyped, MainTyped, WindowTyped, Saves
<1>8. ASSUME ReadRefused \/ TestFails, troubles' \in 0..MaxTroubles PROVE TypeOK'
  BY <1>1, <1>5, <1>8 DEF ReadRefused, TestFails, MainTyped, WindowTyped, main
<1>9. ASSUME NEW restart \in BOOLEAN, Recheck(restart), troubles' \in 0..MaxTroubles PROVE TypeOK'
  BY <1>1, <1>5, <1>9 DEF Recheck, MainTyped, WindowTyped, window
<1>10. CASE GoesWrong
  <2>1. troubles' \in 0..MaxTroubles
    BY <1>1, <1>10, SetupAssumption DEF GoesWrong
  <2>2. extension \in {"off", "needsLogin", "ready"}
    BY <1>1 DEF MainTyped
  <2>3. CASE SaveEnds(FALSE)
    BY <2>1, <2>3, SaveEndsKeeps
  <2>4. CASE ReadRefused \/ TestFails
    BY <1>8, <2>1, <2>4
  <2>5. CASE Recheck(TRUE)
    BY <1>9, <2>1, <2>5
  <2>6. CASE Launch(extension)
    BY <1>6, <2>1, <2>2, <2>6
  <2>7. CASE Delete
    BY <1>7, <2>1, <2>7
  <2>8. CASE (LookRefused \/ LoadStops \/ RemovalRefused) /\ UNCHANGED <<main, window>>
    BY <1>3, <2>1, <2>8 DEF FileNext
  <2>9. CASE session # None /\ session' = None /\ UNCHANGED <<fileVars, settings, saves, permission, granted, extension, window>>
    BY <1>1, <1>5, <2>1, <2>9 DEF MainTyped, WindowTyped, window
  <2>10. CASE granted /\ granted' = FALSE /\ UNCHANGED <<fileVars, session, settings, saves, permission, extension, window>>
    BY <1>1, <1>5, <2>1, <2>10 DEF MainTyped, WindowTyped, window
  <2>11. CASE extension # "off" /\ extension' = "off" /\ UNCHANGED <<fileVars, session, settings, saves, permission, granted, window>>
    BY <1>1, <1>5, <2>1, <2>11 DEF MainTyped, WindowTyped, window
  <2>12. QED
    BY <1>10, <2>3, <2>4, <2>5, <2>6, <2>7, <2>8, <2>9, <2>10, <2>11 DEF GoesWrong
<1>11. CASE Helps
  <2>1. troubles' \in 0..MaxTroubles
    BY <1>1, <1>11 DEF Helps
  <2>2. CASE SaveEnds(TRUE)
    BY <2>1, <2>2, SaveEndsKeeps
  <2>3. CASE Stamp
    <3>1. [settings EXCEPT !.owner = session] \in Settings
      BY <1>1, <1>2 DEF MainTyped, Settings
    <3>2. QED
      BY <1>4, <2>1, <2>3, <3>1 DEF Stamp
  <2>4. CASE Read
    BY <1>1, <1>2, <1>5, <2>1, <2>4 DEF Read, MainTyped, WindowTyped, main
  <2>5. CASE AskAgain
    BY <1>1, <1>5, <2>1, <2>5 DEF AskAgain, MainTyped, WindowTyped, main
  <2>6. CASE Continue
    <3>1. \A n \in {1, 5, 6, 7} : [settings EXCEPT !.seen = n] \in Settings
      BY <1>2 DEF Settings
    <3>2. PICK n \in {1, 5, 6, 7} : Save([settings EXCEPT !.seen = n])
      BY <2>6 DEF Continue
    <3>3. QED
      BY <1>4, <2>1, <3>1, <3>2 DEF Save
  <2>7. CASE \E u \in Users : SignIn(u)
    BY <1>1, <1>5, <2>1, <2>7 DEF SignIn, MainTyped, WindowTyped, window
  <2>8. CASE Download
    BY <1>3, <2>1, <2>8 DEF Download, FileNext
  <2>9. CASE SelfTest
    BY <1>1, <1>5, <2>1, <2>9 DEF SelfTest, MainTyped, WindowTyped, main
  <2>10. CASE TestPasses
    <3>1. [settings EXCEPT !.tested = TRUE] \in Settings
      BY <1>2 DEF Settings
    <3>2. QED
      BY <1>4, <2>1, <2>10, <3>1 DEF TestPasses
  <2>11. CASE Grant
    BY <1>1, <1>5, <2>1, <2>11 DEF Grant, MainTyped, WindowTyped, window
  <2>12. CASE Recheck(FALSE)
    BY <1>9, <2>1, <2>12
  <2>13. CASE Extension
    BY <1>1, <1>5, <2>1, <2>13 DEF Extension, MainTyped, WindowTyped, window
  <2>14. CASE Restarts \/ LogOut
    BY <1>1, <1>6, <2>1, <2>14 DEF Restarts, LogOut, MainTyped
  <2>15. CASE Runs
    BY <1>3, <2>1, <2>15 DEF Runs, FileNext
  <2>16. CASE Removes
    BY <1>3, <2>1, <2>16 DEF Removes, FileNext
  <2>17. QED
    BY <1>11, <2>2, <2>3, <2>4, <2>5, <2>6, <2>7, <2>8, <2>9, <2>10, <2>11, <2>12, <2>13, <2>14, <2>15, <2>16 DEF Helps
<1>12. CASE UNCHANGED all
  BY <1>3, <1>12, <1>1 DEF all
<1>13. QED
  BY <1>10, <1>11, <1>12 DEF SetupNext

-----------------------------------------------------------------------------
(* However the window was set up and whatever is written, merged, decided, *)
(* dropped and launched again, its state is well typed, and the day's list *)
(* (view of core/digest.ts) is never over its limits, leaves nothing out   *)
(* that has room, and gives no target a second place of today's while      *)
(* another has none.                                                       *)
WindowIndInv == TypeOK /\ ReviewIndInv

LEMMA WindowInvStep == ASSUME WindowIndInv, [WindowNext]_windowVars PROVE WindowIndInv'
<1>1. CASE SetupNext /\ UNCHANGED review
  BY <1>1, SetupInvStep, ReviewInvStep DEF WindowIndInv
<1>2. CASE ReviewNext /\ UNCHANGED all
  BY <1>2, SetupInvStep, ReviewInvStep DEF WindowIndInv
<1>3. CASE UNCHANGED windowVars
  <2>1. UNCHANGED review /\ UNCHANGED all
    BY <1>3 DEF windowVars
  <2>2. QED
    BY <2>1, SetupInvStep, ReviewInvStep DEF WindowIndInv
<1>4. QED
  BY <1>1, <1>2, <1>3 DEF WindowNext

LEMMA WindowInvariance == WindowSpec => []WindowIndInv
<1>1. WindowInit => WindowIndInv
  BY SetupInvInit, ReviewInvInit DEF WindowInit, WindowIndInv
<1>2. WindowIndInv /\ [WindowNext]_windowVars => WindowIndInv'
  BY WindowInvStep
<1>3. QED
  BY <1>1, <1>2, PTL DEF WindowSpec

(* The window's state is well typed, and the review shows as much as it    *)
(* may, fairly: WindowInv of the run Window, for any users, targets and    *)
(* limits (view of core/digest.ts).                                        *)
THEOREM DayIsFull == WindowSpec => []WindowInv
<1>1. WindowIndInv => WindowInv
  BY ReviewIsTyped, ListIsFullThen DEF WindowIndInv, WindowInv
<1>2. QED
  BY <1>1, WindowInvariance, PTL

-----------------------------------------------------------------------------
(* What is carried over keeps its place.                                   *)

LEMMA RoomShrinks ==
  ASSUME NEW r \in Nat, NEW s \in Nat
  PROVE  /\ s <= r => Room(r) <= Room(s)
         /\ s = r + 1 => Room(r) - 1 <= Room(s)
BY ReviewAssumption DEF Room

(* A refusal takes a list that is not smaller: what has a place among so   *)
(* few, and so few of its target, was not refused.                         *)
LEMMA NotRefused ==
  ASSUME NEW p, Statements(p), NEW r \in Nat, NEW q, Statements(q), NEW s \in Nat,
         NEW l \in GoodLists(p, r), NEW x \in GoodLists(q, s), NEW i \in DOMAIN q,
         ToSet(x) \subseteq ToSet(l) \ {i}, i \in ToSet(l),
         \A j \in ToSet(x) \cup {i} : j \in DOMAIN p /\ q[j].target = p[j].target,
         \/ s <= r
         \/ s = r + 1 /\ \E y \in ToSet(l) : y \notin ToSet(x) /\ y # i
  PROVE  ~Refused(q, s, PerTarget, i, x)
<1>1. /\ l \in Seq(DOMAIN p) /\ Len(l) <= Room(r) /\ Len(l) = Cardinality(ToSet(l))
      /\ \A t \in Targets : Taken(p, l, t) <= PerTarget
      /\ x \in Seq(DOMAIN q) /\ Len(x) = Cardinality(ToSet(x))
  BY DEF GoodLists
<1>2. IsFiniteSet(ToSet(l)) /\ Len(l) \in Nat /\ \A t : Taken(p, l, t) = Cardinality(OnList(p, ToSet(l), t)) /\ IsFiniteSet(OnList(p, ToSet(l), t))
  BY <1>1, ListFacts
<1>3. Len(x) \in Nat /\ \A t : Taken(q, x, t) \in Nat /\ Taken(q, x, t) = Cardinality(OnList(q, ToSet(x), t))
  BY <1>1, ListFacts
<1>4. PerTarget \in Nat /\ Room(r) \in Nat /\ Room(s) \in Nat
  BY RoomIsANumber
<1>5. Len(x) < Room(s)
  <2>1. IsFiniteSet(ToSet(l) \ {i}) /\ Cardinality(ToSet(l) \ {i}) = Len(l) - 1
    BY <1>1, <1>2, FS_RemoveElement
  <2>2. CASE s <= r
    <3>1. Cardinality(ToSet(x)) <= Cardinality(ToSet(l) \ {i})
      BY <2>1, Smaller
    <3>2. Room(r) <= Room(s)
      BY <2>2, RoomShrinks
    <3>3. QED
      BY <1>1, <1>2, <1>3, <1>4, <2>1, <3>1, <3>2
  <2>3. CASE s = r + 1 /\ \E y \in ToSet(l) : y \notin ToSet(x) /\ y # i
    <3>1. PICK y \in ToSet(l) : y \notin ToSet(x) /\ y # i
      BY <2>3
    <3>2. y \in (ToSet(l) \ {i}) \ ToSet(x)
      BY <3>1
    <3>3. Cardinality(ToSet(x)) < Cardinality(ToSet(l) \ {i})
      BY <2>1, <3>2, Smaller
    <3>4. Room(r) - 1 <= Room(s)
      BY <2>3, RoomShrinks
    <3>5. QED
      BY <1>1, <1>2, <1>3, <1>4, <2>1, <3>3, <3>4
  <2>4. QED
    BY <2>2, <2>3
<1>6. Taken(q, x, q[i].target) < PerTarget
  <2> DEFINE t == p[i].target
  <2>1. q[i].target = t /\ t \in Targets
    BY DEF Statements
  <2>2. OnList(q, ToSet(x), t) \in SUBSET OnList(p, ToSet(l), t)
    BY DEF OnList
  <2>3. i \in OnList(p, ToSet(l), t) \ OnList(q, ToSet(x), t)
    BY DEF OnList
  <2> HIDE DEF t
  <2>4. /\ Cardinality(OnList(q, ToSet(x), t)) < Cardinality(OnList(p, ToSet(l), t))
        /\ Cardinality(OnList(q, ToSet(x), t)) \in Nat /\ Cardinality(OnList(p, ToSet(l), t)) \in Nat
    BY <1>2, <2>2, <2>3, Smaller
  <2>5. Taken(q, x, t) < Taken(p, l, t) /\ Taken(q, x, t) \in Nat /\ Taken(p, l, t) \in Nat
    BY <1>2, <1>3, <2>4
  <2>6. QED
    BY <1>1, <1>4, <2>1, <2>5
<1>7. QED
  BY <1>3, <1>4, <1>5, <1>6 DEF Refused

(* What a step of the review does to the pool while the day stays.         *)
SameDay ==
  /\ \A j \in DOMAIN pool' : pool'[j].born < today =>
       j \in DOMAIN pool /\ pool'[j].born = pool[j].born /\ pool'[j].target = pool[j].target
  /\ \A j \in DOMAIN pool \ DOMAIN pool' : Expires(j) \/ resolved' = resolved + 1
  /\ \A j \in DOMAIN pool \cap DOMAIN pool' : pool'[j].born = pool[j].born
  /\ \/ resolved' <= resolved
     \/ resolved' = resolved + 1 /\ DOMAIN pool \ DOMAIN pool' # {}

LEMMA ResolveOnSameDay == ASSUME PoolInv, NEW i, Resolve(i) PROVE SameDay
<1>1. resolved \in Nat
  BY DEF PoolInv, PoolIs
<1>2. CASE i \in DOMAIN pool
  <2>1. pool' = [j \in DOMAIN pool \ {i} |-> pool[j]] /\ resolved' = resolved + 1
    BY <1>2 DEF Resolve
  <2>2. i \in DOMAIN pool \ DOMAIN pool'
    BY <1>2, <2>1
  <2>3. QED
    BY <2>1, <2>2 DEF SameDay
<1>3. CASE i \notin DOMAIN pool
  BY <1>1, <1>3 DEF Resolve, SameDay
<1>4. QED
  BY <1>2, <1>3

LEMMA StepOnSameDay == ASSUME PoolInv, ReviewNext, Orderly, today' = today PROVE SameDay
<1>1. /\ resolved \in Nat /\ today \in 1..day /\ day \in Nat
      /\ \A i \in DOMAIN pool : pool[i] \in [target : Targets, words : Words, born : 1..day]
  BY PoolFacts DEF PoolInv, PoolIs
<1>2. ASSUME NEW t \in Targets, NEW w \in Words, Add(t, w) PROVE SameDay
  <2>1. resolved' = resolved
    BY <1>2 DEF Add
  <2>2. CASE Write(t, w)
    <3>1. pool' = [i \in DOMAIN pool \cup {written'} |->
                     IF i = written' THEN [target |-> t, words |-> w, born |-> day] ELSE pool[i]]
          /\ written' = written + 1
      BY <2>2 DEF Write
    <3>2. DOMAIN pool \subseteq 1..written /\ written \in Nat
      BY PoolFacts DEF PoolInv, PoolIs
    <3>3. DOMAIN pool' = DOMAIN pool \cup {written'} /\ written' \notin DOMAIN pool
      BY <3>1, <3>2
    <3>4. pool'[written'].born = day /\ \A i \in DOMAIN pool : pool'[i] = pool[i]
      BY <3>1, <3>3
    <3>5. ~(day < today)
      BY <1>1
    <3>6. QED
      BY <1>1, <2>1, <3>3, <3>4, <3>5 DEF SameDay
  <2>3. ASSUME NEW i \in DOMAIN pool, Merge(i, w) PROVE SameDay
    <3>1. pool' = [pool EXCEPT ![i].words = IF w > @ THEN w ELSE @]
      BY <2>3 DEF Merge
    <3>2. DOMAIN pool' = DOMAIN pool
      BY <3>1
    <3>3. ASSUME NEW j \in DOMAIN pool PROVE pool'[j].born = pool[j].born /\ pool'[j].target = pool[j].target
      <4>1. CASE j = i
        <5>1. pool'[j] = [pool[j] EXCEPT !.words = IF w > @ THEN w ELSE @]
          BY <3>1, <4>1
        <5>2. QED
          BY <1>1, <5>1
      <4>2. CASE j # i
        BY <3>1, <4>2
      <4>3. QED
        BY <4>1, <4>2
    <3>4. QED
      BY <1>1, <2>1, <3>2, <3>3 DEF SameDay
  <2>4. QED
    BY <1>2, <2>2, <2>3 DEF Add
<1>3. ASSUME UNCHANGED pool, resolved' <= resolved PROVE SameDay
  BY <1>3 DEF SameDay
<1>4. ASSUME StillAlive(pool, DOMAIN pool), resolved' <= resolved PROVE SameDay
  <2>1. PICK n \in 0..written :
          /\ \A i \in DOMAIN pool : i <= n => Expires(i)
          /\ pool' = [i \in {i \in DOMAIN pool : i > n} |-> pool[i]]
    BY <1>4 DEF StillAlive, Expires
  <2>2. ASSUME NEW j \in DOMAIN pool \ DOMAIN pool' PROVE Expires(j)
    <3>1. j \in Nat /\ n \in Int
      BY PoolFacts DEF PoolInv
    <3>2. ~(j > n)
      BY <2>1, <2>2
    <3>3. QED
      BY <2>1, <3>1, <3>2
  <2>3. DOMAIN pool' \subseteq DOMAIN pool /\ \A j \in DOMAIN pool' : pool'[j] = pool[j]
    BY <2>1
  <2>4. QED
    BY <1>4, <2>2, <2>3 DEF SameDay
<1>5. ASSUME NEW i, Reject(i) PROVE SameDay
  BY <1>5, ResolveOnSameDay DEF Reject
<1>6. ASSUME NEW i, NEW taken, Approved(i, taken) PROVE SameDay
  <2>1. Resolve(i) \/ UNCHANGED <<pool, resolved>>
    BY <1>6 DEF Approved
  <2>2. QED
    BY <1>1, <1>3, <2>1, ResolveOnSameDay
<1>7. ASSUME Midnight \/ \E i \in Listed : Approve(i) PROVE SameDay
  BY <1>1, <1>3, <1>7 DEF Midnight, Approve
<1>8. ASSUME Tick PROVE SameDay
  <2>1. StillAlive(pool, DOMAIN pool) /\ resolved' = resolved
    BY <1>8 DEF Tick
  <2>2. QED
    BY <1>1, <1>4, <2>1
<1>9. ASSUME Relaunch, ~Tick PROVE SameDay
  <2>1. StillAlive(pool, DOMAIN pool)
    BY <1>9 DEF Orderly
  <2>2. resolved' <= resolved
    BY <1>1, <1>9 DEF Relaunch
  <2>3. QED
    BY <1>4, <2>1, <2>2
<1>10. ASSUME PoolSaved PROVE SameDay
  BY <1>1, <1>3, <1>10 DEF PoolSaved
<1>11. QED
  BY <1>2, <1>5, <1>6, <1>7, <1>8, <1>9, <1>10 DEF ReviewNext

LEMMA StaysOnSameDay ==
  ASSUME ReviewIndInv, ReviewIndInv', ReviewNext, Orderly, today' = today, NEW i \in Listed, i \in Earlier
  PROVE  Stays(i)
<1>1. PoolInv /\ list = View(pool, today, resolved) /\ PoolInv' /\ list' = View(pool', today', resolved')
  BY DEF ReviewIndInv
<1>2. SameDay
  BY <1>1, StepOnSameDay
<1>3. Statements(pool) /\ resolved \in Nat /\ today \in Nat
  BY <1>1, PoolFacts DEF PoolInv, PoolIs
<1>4. /\ Statements(pool') /\ resolved' \in Nat
      /\ \A j \in DOMAIN pool' : j \in Nat /\ pool'[j].born \in Nat
      /\ \A j, k \in DOMAIN pool' : j < k => pool'[j].born <= pool'[k].born
  <2>1. PoolIs(day', today', pool', written', resolved', deciding')
    BY <1>1 DEF PoolInv
  <2>2. /\ Statements(pool') /\ \A j \in DOMAIN pool' : j \in Nat /\ pool'[j].born \in Nat
    BY <2>1, PoolFacts
  <2>3. QED
    BY <2>1, <2>2 DEF PoolIs
<1>5. list \in GoodLists(pool, resolved)
  BY <1>1, <1>3, ViewDoes
<1>6. /\ Earlier \subseteq ToSet(list)
      /\ resolved' > resolved => DOMAIN pool \ DOMAIN pool' \subseteq ToSet(list)
  BY DEF Orderly, Listed
<1>7. i \in DOMAIN pool /\ pool[i].born < today
  BY DEF Earlier
<1>8. CASE i \notin DOMAIN pool'
  BY <1>2, <1>7, <1>8 DEF SameDay, Stays
<1>9. CASE i \in DOMAIN pool'
  <2>1. SUFFICES ASSUME i \notin ToSet(list') PROVE FALSE
    BY DEF Stays, Listed
  <2>2. pool'[i].born = pool[i].born
    BY <1>2, <1>7, <1>9 DEF SameDay
  <2>3. i \in CarriedOf(pool', today') \ ToSet(list')
    BY <1>3, <1>4, <1>7, <1>9, <2>1, <2>2 DEF CarriedOf
  <2>4. PICK x \in GoodLists(pool', resolved') :
          Refused(pool', resolved', PerTarget, i, x) /\ ToSet(x) \subseteq {j \in CarriedOf(pool', today') : j < i}
    BY <1>1, <1>4, <2>3, ViewDoes
  <2>5. ASSUME NEW j \in ToSet(x)
        PROVE  j \in DOMAIN pool' /\ j # i /\ j \in Earlier /\ pool'[j].target = pool[j].target
    <3>1. j \in DOMAIN pool' /\ j < i
      BY <2>4 DEF CarriedOf
    <3>2. pool'[j].born <= pool'[i].born
      BY <1>4, <1>9, <3>1
    <3>3. pool'[j].born < today
      BY <1>3, <1>4, <1>7, <1>9, <2>2, <3>1, <3>2
    <3>4. j \in DOMAIN pool /\ pool'[j].born = pool[j].born /\ pool'[j].target = pool[j].target
      BY <1>2, <3>1, <3>3 DEF SameDay
    <3>5. QED
      BY <1>4, <1>9, <3>1, <3>3, <3>4 DEF Earlier
  <2>6. ToSet(x) \subseteq ToSet(list) \ {i} /\ i \in ToSet(list)
    BY <1>6, <2>5 DEF Listed
  <2>7. pool'[i].target = pool[i].target
    BY <1>2, <1>7, <1>9, <2>2 DEF SameDay
  <2>8. \A j \in ToSet(x) \cup {i} : j \in DOMAIN pool /\ pool'[j].target = pool[j].target
    BY <1>7, <2>5, <2>7 DEF Earlier
  <2>9. \/ resolved' <= resolved
        \/ resolved' = resolved + 1 /\ \E y \in ToSet(list) : y \notin ToSet(x) /\ y # i
    <3>1. CASE resolved' = resolved + 1 /\ DOMAIN pool \ DOMAIN pool' # {}
      <4>1. PICK y \in DOMAIN pool : y \notin DOMAIN pool'
        BY <3>1
      <4>2. resolved' > resolved
        BY <1>3, <3>1
      <4>3. y \in ToSet(list)
        BY <1>6, <4>1, <4>2
      <4>4. QED
        BY <1>9, <2>5, <3>1, <4>1, <4>3
    <3>2. QED
      BY <1>2, <3>1 DEF SameDay
  <2>10. ~Refused(pool', resolved', PerTarget, i, x)
    BY <1>3, <1>4, <1>5, <1>9, <2>6, <2>8, <2>9, NotRefused
  <2>11. QED
    BY <2>4, <2>10
<1>10. QED
  BY <1>8, <1>9

LEMMA StaysOnANewDay ==
  ASSUME ReviewIndInv, ReviewIndInv', ReviewNext, Orderly, today' # today, NEW i \in Listed
  PROVE  Stays(i)
<1>1. PoolInv /\ list = View(pool, today, resolved) /\ PoolInv' /\ list' = View(pool', today', resolved')
  BY DEF ReviewIndInv
<1>2. Tick /\ day # today
  <2>1. Relaunch => Tick
    BY DEF Orderly, Relaunch
  <2>2. \A t \in Targets, w \in Words : ~Add(t, w)
    BY DEF Add
  <2>3. \A j : ~Reject(j) /\ ~Approve(j)
    BY DEF Reject, Approve
  <2>4. \A j, taken : ~Approved(j, taken)
    BY DEF Approved
  <2>5. ~Midnight
    BY DEF Midnight
  <2>6. Tick
    <3>1. ~PoolSaved
      BY DEF PoolSaved
    <3>2. QED
      BY <2>1, <2>2, <2>3, <2>4, <2>5, <3>1 DEF ReviewNext
  <2>7. QED
    BY <2>6 DEF Tick
<1>3. PICK n \in 0..written :
        /\ \A j \in Listed : j <= n => Expires(j)
        /\ pool' = [j \in {j \in Listed : j > n} |-> pool[j]]
        /\ resolved' = 0
  BY <1>2 DEF Tick, StillAlive, Expires
<1>4. Statements(pool) /\ resolved \in Nat
  BY <1>1, PoolFacts DEF PoolInv, PoolIs
<1>5. Statements(pool') /\ resolved' \in Nat
  <2>1. PoolIs(day', today', pool', written', resolved', deciding')
    BY <1>1 DEF PoolInv
  <2>2. QED
    BY <1>3, <2>1, PoolFacts
<1>6. list \in GoodLists(pool, resolved) /\ list' \in GoodLists(pool', resolved')
  BY <1>1, <1>4, <1>5, ViewDoes
<1>7. ToSet(list) \subseteq DOMAIN pool /\ ToSet(list') \subseteq DOMAIN pool'
  <2>1. list \in Seq(DOMAIN pool) /\ list' \in Seq(DOMAIN pool')
    BY <1>6 DEF GoodLists
  <2>2. QED
    BY <1>4, <1>5, <2>1, ListFacts
<1>8. CASE i \notin DOMAIN pool'
  <2>1. i \in Nat /\ n \in Int
    BY <1>4, <1>7 DEF Statements, Listed
  <2>2. ~(i > n)
    BY <1>3, <1>8
  <2>3. Expires(i)
    BY <1>3, <2>1, <2>2
  <2>4. QED
    BY <1>8, <2>3 DEF Stays
<1>9. CASE i \in DOMAIN pool'
  <2>1. SUFFICES ASSUME i \notin ToSet(list') PROVE FALSE
    BY DEF Stays, Listed
  <2>2. Refused(pool', resolved', PerTarget, i, list')
    BY <1>1, <1>5, <1>9, <2>1, ViewDoes
  <2>3. DOMAIN pool' \subseteq ToSet(list) /\ \A j \in DOMAIN pool' : pool'[j] = pool[j]
    BY <1>3 DEF Listed
  <2>4. ToSet(list') \subseteq ToSet(list) \ {i} /\ i \in ToSet(list)
    BY <1>7, <1>9, <2>1, <2>3
  <2>5. \A j \in ToSet(list') \cup {i} : j \in DOMAIN pool /\ pool'[j].target = pool[j].target
    BY <1>7, <1>9, <2>3
  <2>6. resolved' <= resolved
    BY <1>3, <1>4
  <2>7. ~Refused(pool', resolved', PerTarget, i, list')
    BY <1>4, <1>5, <1>6, <1>9, <2>4, <2>5, <2>6, NotRefused
  <2>8. QED
    BY <2>2, <2>7
<1>10. QED
  BY <1>8, <1>9

(* Once all that is carried over is listed it stays there until it is      *)
(* decided or too old, and what is listed when a day ends is listed the    *)
(* next day (view and tick of core/digest.ts): CarriedStays of the run     *)
(* Window, for any users, targets, limits and days.                        *)
THEOREM CarriedOverStays == WindowSpec => CarriedStays
<1> DEFINE Step == Orderly => \A i \in Listed : i \in Earlier \/ today' # today => Stays(i)
<1>1. ASSUME WindowIndInv, WindowIndInv', [WindowNext]_windowVars PROVE [Step]_review
  <2>1. ReviewIndInv /\ ReviewIndInv'
    BY <1>1 DEF WindowIndInv
  <2>2. CASE ReviewNext
    <3>1. SUFFICES ASSUME Orderly, NEW i \in Listed, i \in Earlier \/ today' # today PROVE Stays(i)
      OBVIOUS
    <3>2. QED
      BY <2>1, <2>2, <3>1, StaysOnSameDay, StaysOnANewDay
  <2>3. CASE UNCHANGED review
    BY <2>3
  <2>4. QED
    BY <1>1, <2>2, <2>3 DEF WindowNext, windowVars
<1>2. WindowSpec => [][Step]_review
  BY <1>1, WindowInvariance, PTL DEF WindowSpec
<1>3. QED
  BY <1>2 DEF CarriedStays
===============================================================================
