--------------------------- MODULE PipelineProofs ---------------------------
(***************************************************************************)
(* Theorems about Pipeline, for all limits of age, idleness, absence and   *)
(* length, any queue and any clock.                                        *)
(***************************************************************************)
EXTENDS Pipeline, SequenceTheorems, FiniteSetTheorems, TLAPS

-----------------------------------------------------------------------------
(* The inductive invariant.                                                *)

(* A scenario x that ended at t or before.                                 *)
Sound(x, t) == x.from <= x.to /\ x.to <= t /\ \A r \in x.reads : r.at \in x.from..x.to
(* The scenario run under extraction and those of q, in the order they came*)
Line(run, q, t) ==
  /\ q \in Seq(Scenarios) /\ run \in Scenarios \cup {None}
  /\ \A i \in 1..Len(q) : Sound(q[i], t)
  /\ \A i, j \in 1..Len(q) : i < j => q[i].to <= q[j].from
  /\ run # None => Sound(run, t) /\ \A i \in 1..Len(q) : run.to <= q[i].from
(* ... are over at b, at the latest.                                       *)
EndBy(run, q, b) == (run # None => run.to <= b) /\ \A i \in 1..Len(q) : q[i].to <= b

(* The open scenario began after all others, and no moment to which its end*)
(* could be dated back is before it began.                                 *)
OpenIsLast ==
  openedAt # None =>
    /\ EndBy(running, queue, openedAt) /\ openedAt <= lastActivityAt
    /\ awaySince # None => openedAt <= awaySince
    /\ Locked => openedAt <= lockedSince
ClockIsAhead ==
  /\ lastActivityAt <= now /\ (openedAt # None => openedAt <= now)
  /\ (awaySince # None => awaySince <= now) /\ (Locked => lockedSince <= now)
(* A read is before any moment to which the end could be dated back: none  *)
(* is kept under a lock or in an absence, and each is a sign of the user.  *)
ReadsAreOpen ==
  \A r \in reads :
    /\ r.at <= now /\ r.asked <= lastActivityAt
    /\ Locked => r.at <= lockedSince
    /\ r.asked = r.at => openedAt # None /\ openedAt <= r.at /\ (awaySince # None => r.at <= awaySince)
TextIsYoung == ~due => \A r \in Waiting : now - r.at <= MaxAge

IInv ==
  /\ TypeOK /\ Line(running, queue, now) /\ OpenIsLast /\ ClockIsAhead /\ ReadsAreOpen
  /\ QueueIsServed /\ TextIsYoung

-----------------------------------------------------------------------------
(* r is q without its first d.                                             *)
Rest(r, q, d) == Len(r) + d = Len(q) /\ \A i \in 1..Len(r) : r[i] = q[i + d]

(* What is left of a queue keeps its order.                                *)
LEMMA RestKeeps ==
  ASSUME NEW run, NEW q, NEW t \in Int, Line(run, q, t), NEW r \in Seq(Scenarios), NEW d \in Nat, Rest(r, q, d)
  PROVE  /\ Line(run, r, t) /\ \A b \in Int : EndBy(run, q, b) => EndBy(run, r, b)
         /\ \A i \in 1..Len(r) : \E j \in 1..Len(q) : r[i] = q[j]
         /\ Len(r) <= Len(q)
<1>1. Len(r) \in Nat /\ Len(q) \in Nat /\ q \in Seq(Scenarios)
  BY DEF Line
<1>2. \A i \in 1..Len(r) : i + d \in 1..Len(q) /\ r[i] = q[i + d]
  BY <1>1 DEF Rest
<1>3. \A i \in 1..Len(r) : Sound(r[i], t)
  BY <1>2 DEF Line
<1>4. ASSUME NEW i \in 1..Len(r), NEW j \in 1..Len(r), i < j PROVE r[i].to <= r[j].from
  <2>1. i + d \in 1..Len(q) /\ j + d \in 1..Len(q) /\ i + d < j + d /\ r[i] = q[i + d] /\ r[j] = q[j + d]
    BY <1>1, <1>2, <1>4
  <2>2. \A k, l \in 1..Len(q) : k < l => q[k].to <= q[l].from
    BY DEF Line
  <2>3. QED
    BY <2>1, <2>2
<1>5. run # None => Sound(run, t) /\ \A i \in 1..Len(r) : run.to <= r[i].from
  BY <1>2 DEF Line
<1>6. Line(run, r, t)
  BY <1>3, <1>4, <1>5 DEF Line
<1>7. \A b \in Int : EndBy(run, q, b) => EndBy(run, r, b)
  BY <1>2 DEF EndBy
<1>8. QED
  BY <1>1, <1>2, <1>6, <1>7 DEF Rest

(* Tail, and what tick leaves of a queue.                                  *)
LEMMA TailIsRest ==
  ASSUME NEW q \in Seq(Scenarios), q # <<>>
  PROVE  /\ Tail(q) \in Seq(Scenarios) /\ Rest(Tail(q), q, 1)
         /\ 1 \in 1..Len(q) /\ Head(q) = q[1] /\ q[1] \in Scenarios
<1>1. Len(q) \in Nat /\ Len(q) # 0
  BY EmptySeq
<1>2. Tail(q) \in Seq(Scenarios) /\ Len(Tail(q)) = Len(q) - 1 /\ \A i \in 1..Len(Tail(q)) : Tail(q)[i] = q[i + 1]
  BY HeadTailProperties
<1>3. 1 \in 1..Len(q)
  BY <1>1
<1>4. q[1] \in Scenarios
  BY <1>3, ElementOfSeq
<1>5. QED
  BY <1>1, <1>2, <1>3, <1>4 DEF Rest
LEMMA FreshIsRest ==
  ASSUME NEW q \in Seq(Scenarios), NEW o \in Int
  PROVE  /\ Fresh(q, o) \in Seq(Scenarios)
         /\ \E d \in 0..Len(q) : d = Cardinality(Stale(q, o)) /\ Rest(Fresh(q, o), q, d)
<1> DEFINE n == Len(q)
           d == Cardinality(Stale(q, o))
<1>1. n \in Nat /\ DOMAIN q = 1..n
  OBVIOUS
<1>2. IsFiniteSet(1..n) /\ Cardinality(1..n) = n
  <2>1. 1 \in Int /\ n \in Int
    BY <1>1
  <2>2. IsFiniteSet(1..n) /\ Cardinality(1..n) = IF 1 > n THEN 0 ELSE n - 1 + 1
    BY <2>1, FS_Interval
  <2>3. QED
    BY <1>1, <2>2
<1>3. Stale(q, o) \in SUBSET (1..n)
  BY <1>1 DEF Stale
<1>4. d \in Nat /\ d <= n
  <2>1. IsFiniteSet(Stale(q, o)) /\ Cardinality(Stale(q, o)) <= Cardinality(1..n)
    BY <1>2, <1>3, FS_Subset
  <2>2. QED
    BY <1>2, <2>1, FS_CardinalityType
<1> HIDE DEF d
<1>5. \A i \in (d + 1)..n : q[i] \in Scenarios
  BY <1>1, <1>4, ElementOfSeq
<1>6. d + 1 \in Int /\ n \in Int
  BY <1>1, <1>4
<1>7. /\ SubSeq(q, d + 1, n) \in Seq(Scenarios)
      /\ Len(SubSeq(q, d + 1, n)) = IF d + 1 <= n THEN n - (d + 1) + 1 ELSE 0
      /\ \A i \in 1..(n - (d + 1) + 1) : SubSeq(q, d + 1, n)[i] = q[d + 1 + i - 1]
  BY <1>5, <1>6, SubSeqProperties
<1>8. Fresh(q, o) = SubSeq(q, d + 1, n)
  BY DEF Fresh, d, n
<1> HIDE DEF n
<1>9. Len(Fresh(q, o)) = n - d /\ \A i \in 1..(n - d) : Fresh(q, o)[i] = q[i + d]
  <2>1. (d + 1 <= n => n - (d + 1) + 1 = n - d) /\ (~(d + 1 <= n) => n - d = 0)
    BY <1>1, <1>4
  <2>2. \A i \in 1..(n - d) : d + 1 + i - 1 = i + d
    BY <1>1, <1>4
  <2>3. n - (d + 1) + 1 = n - d
    BY <1>1, <1>4
  <2>4. QED
    BY <1>7, <1>8, <2>1, <2>2, <2>3
<1>10. Rest(Fresh(q, o), q, d)
  BY <1>1, <1>4, <1>9 DEF Rest, n
<1>11. QED
  BY <1>1, <1>4, <1>7, <1>8, <1>10 DEF d, n

(* tick lets go of the scenarios that are too old and of no others: the    *)
(* queue being in order, they are the first.                               *)
LEMMA FreshIsTheFilter ==
  ASSUME NEW run, NEW q, NEW t \in Int, Line(run, q, t), NEW o \in Int
  PROVE  \A i \in 1..Len(q) : q[i].from >= o <=> i > Cardinality(Stale(q, o))
<1> DEFINE n == Len(q)
           S == Stale(q, o)
<1>1. n \in Nat /\ DOMAIN q = 1..n /\ \A i \in 1..n : q[i] \in Scenarios
  BY ElementOfSeq DEF Line
<1>2. \A i \in 1..n : q[i].from \in Int /\ q[i].to \in Int /\ q[i].from <= q[i].to
  BY <1>1 DEF Line, Sound, Scenarios, Times
<1>3. \A i, j \in 1..n : i < j => q[i].to <= q[j].from
  BY DEF Line
<1>4. \A i \in 1..n : i \in S <=> q[i].from < o
  BY <1>1 DEF Stale
<1>5. \A i, j \in 1..n : i < j /\ j \in S => i \in S
  BY <1>2, <1>3, <1>4
<1>6. S \in SUBSET (1..n)
  BY <1>1 DEF Stale
<1> HIDE DEF n, S
<1>7. ASSUME NEW k \in Nat PROVE IsFiniteSet(1..k) /\ Cardinality(1..k) = k
  <2>1. 1 \in Int /\ k \in Int
    OBVIOUS
  <2>2. IsFiniteSet(1..k) /\ Cardinality(1..k) = IF 1 > k THEN 0 ELSE k - 1 + 1
    BY <2>1, FS_Interval
  <2>3. QED
    BY <2>2
<1>8. IsFiniteSet(S)
  BY <1>1, <1>6, <1>7, FS_Subset
<1>9. Cardinality(S) \in Nat
  BY <1>8, FS_CardinalityType
<1>10. ASSUME NEW i \in 1..n, i \in S PROVE i <= Cardinality(S)
  <2>1. 1..i \in SUBSET S
    BY <1>1, <1>5, <1>10
  <2>2. Cardinality(1..i) <= Cardinality(S)
    BY <1>8, <2>1, FS_Subset
  <2>3. QED
    BY <1>7, <2>2
<1>11. ASSUME NEW i \in 1..n, i \notin S PROVE i > Cardinality(S)
  <2>1. S \in SUBSET (1..(i - 1))
    <3>1. ASSUME NEW j \in S PROVE j \in 1..(i - 1)
      BY <1>1, <1>5, <1>6, <1>11, <3>1
    <3>2. QED
      BY <3>1
  <2>2. i - 1 \in Nat
    OBVIOUS
  <2>3. Cardinality(S) <= Cardinality(1..(i - 1))
    BY <1>7, <2>1, <2>2, FS_Subset
  <2>4. Cardinality(S) <= i - 1
    BY <1>7, <2>2, <2>3
  <2>5. QED
    BY <1>9, <2>4
<1>12. QED
  BY <1>1, <1>2, <1>4, <1>9, <1>10, <1>11 DEF n, S
(* ... and none that is left was opened before oldest.                     *)
LEMMA FreshIsYoung ==
  ASSUME NEW run, NEW q, NEW t \in Int, Line(run, q, t), NEW o \in Int
  PROVE  \A i \in 1..Len(Fresh(q, o)) : Fresh(q, o)[i].from >= o
<1>1. q \in Seq(Scenarios) /\ Len(q) \in Nat
  BY DEF Line
<1>2. PICK d \in 0..Len(q) : d = Cardinality(Stale(q, o)) /\ Rest(Fresh(q, o), q, d)
  BY <1>1, FreshIsRest
<1>3. Len(Fresh(q, o)) \in Nat
  BY <1>1, FreshIsRest
<1>4. \A i \in 1..Len(Fresh(q, o)) : i + d \in 1..Len(q) /\ i + d > d /\ Fresh(q, o)[i] = q[i + d]
  BY <1>1, <1>2, <1>3 DEF Rest
<1>5. \A i \in 1..Len(q) : i > d => q[i].from >= o
  BY <1>2, FreshIsTheFilter
<1>6. QED
  BY <1>4, <1>5

-----------------------------------------------------------------------------
(* pump takes the head, if it takes any.                                   *)
LEMMA PumpKeeps ==
  ASSUME NEW run, NEW q, NEW t \in Int, Line(run, q, t), NEW held \in BOOLEAN
  PROVE  LET p == Pumped(q, run, held)
         IN  /\ Line(p.running, p.queue, t) /\ Len(p.queue) <= Len(q)
             /\ \A b \in Int : EndBy(run, q, b) => EndBy(p.running, p.queue, b)
             /\ p.queue # <<>> => held \/ p.running # None
             /\ \A i \in 1..Len(p.queue) : \E j \in 1..Len(q) : p.queue[i] = q[j]
             /\ p.running = run \/ (p.running # None /\ run = None /\ ~held /\ q # <<>> /\ p.running = q[1])
<1> DEFINE p == Pumped(q, run, held)
<1>1. q \in Seq(Scenarios) /\ Len(q) \in Nat
  BY DEF Line
<1>2. CASE held \/ run # None \/ q = <<>>
  <2>1. p.queue = q /\ p.running = run
    BY <1>2 DEF Pumped
  <2> HIDE DEF p
  <2>2. QED
    BY <1>1, <1>2, <2>1 DEF p
<1>3. CASE ~(held \/ run # None \/ q = <<>>)
  <2>1. p.queue = Tail(q) /\ p.running = Head(q)
    BY <1>3 DEF Pumped
  <2>2. /\ Tail(q) \in Seq(Scenarios) /\ Rest(Tail(q), q, 1)
        /\ 1 \in 1..Len(q) /\ Head(q) = q[1] /\ q[1] \in Scenarios
    BY <1>1, <1>3, TailIsRest
  <2>3. /\ Line(run, Tail(q), t) /\ (\A b \in Int : EndBy(run, q, b) => EndBy(run, Tail(q), b))
        /\ \A i \in 1..Len(Tail(q)) : \E j \in 1..Len(q) : Tail(q)[i] = q[j]
        /\ Len(Tail(q)) <= Len(q)
    BY <2>2, RestKeeps
  <2>4. q[1] # None
    BY <2>2, ScenarioAssumption
  <2>5. \A i \in 1..Len(Tail(q)) : i + 1 \in 1..Len(q) /\ 1 < i + 1 /\ Tail(q)[i] = q[i + 1]
    BY <1>1, <2>2 DEF Rest
  <2>6. \A i, j \in 1..Len(q) : i < j => q[i].to <= q[j].from
    BY DEF Line
  <2>7. Sound(q[1], t) /\ \A i \in 1..Len(Tail(q)) : q[1].to <= Tail(q)[i].from
    BY <2>2, <2>5, <2>6 DEF Line
  <2>8. Line(q[1], Tail(q), t)
    BY <2>2, <2>3, <2>7 DEF Line
  <2>9. \A b \in Int : EndBy(run, q, b) => EndBy(q[1], Tail(q), b)
    BY <2>2, <2>3 DEF EndBy
  <2> HIDE DEF p
  <2>10. QED
    BY <1>3, <2>1, <2>2, <2>3, <2>4, <2>8, <2>9 DEF p
<1>4. QED
  BY <1>2, <1>3

(* A scenario x that began when all others were over goes to the end; of a *)
(* full queue the oldest goes.                                             *)
LEMMA OneMoreKeeps ==
  ASSUME NEW t \in Int, Line(running, queue, t), Len(queue) <= QueueMax, NEW b \in Int, EndBy(running, queue, b),
         NEW x \in Scenarios, Sound(x, t), x.from = b
  PROVE  LET q == WithScenario(x)
         IN  /\ Line(running, q, t) /\ Len(q) <= QueueMax /\ EndBy(running, q, x.to)
             /\ \A i \in 1..Len(q) : q[i] = x \/ \E j \in 1..Len(queue) : q[i] = queue[j]
             /\ queue = <<>> => Len(q) = 1 /\ q[1] = x
<1> DEFINE w == IF Len(queue) >= QueueMax THEN Tail(queue) ELSE queue
           q == Append(w, x)
<1>1. QueueMax \in Nat \ {0} /\ queue \in Seq(Scenarios) /\ Len(queue) \in Nat
  BY LimitsAssumption DEF Line
<1>2. /\ w \in Seq(Scenarios) /\ Line(running, w, t) /\ EndBy(running, w, b) /\ Len(w) < QueueMax
      /\ \A i \in 1..Len(w) : \E j \in 1..Len(queue) : w[i] = queue[j]
      /\ queue = <<>> => w = <<>>
  <2>1. CASE Len(queue) >= QueueMax
    <3>1. queue # <<>>
      BY <1>1, <2>1
    <3> DEFINE z == Tail(queue)
    <3>2. z \in Seq(Scenarios) /\ Rest(z, queue, 1) /\ 1 \in Nat
      BY <1>1, <3>1, TailIsRest
    <3> HIDE DEF q, w, z
    <3>3. /\ Line(running, z, t) /\ \A c \in Int : EndBy(running, queue, c) => EndBy(running, z, c)
          /\ \A i \in 1..Len(z) : \E j \in 1..Len(queue) : z[i] = queue[j]
      BY <3>2, RestKeeps
    <3>4. Len(z) < QueueMax
      BY <1>1, <3>2 DEF Rest
    <3>5. QED
      BY <2>1, <3>1, <3>2, <3>3, <3>4 DEF w, z
  <2>2. CASE ~(Len(queue) >= QueueMax)
    BY <1>1, <2>2
  <2>3. QED
    BY <2>1, <2>2
<1> HIDE DEF w
<1>3. /\ q \in Seq(Scenarios) /\ Len(q) = Len(w) + 1 /\ q[Len(w) + 1] = x
      /\ \A i \in 1..Len(w) : q[i] = w[i]
  BY <1>2, AppendProperties
<1>4. WithScenario(x) = q
  BY DEF WithScenario, w
<1> HIDE DEF q
<1>5. Len(w) \in Nat /\ x.from <= x.to /\ x.from \in Int /\ x.to \in Int
  BY <1>2 DEF Sound, Scenarios, Times
<1>6. \A i \in 1..Len(q) : (i \in 1..Len(w) /\ q[i] = w[i]) \/ (i = Len(w) + 1 /\ q[i] = x)
  BY <1>3, <1>5
<1>7. \A i \in 1..Len(w) : w[i].to <= b /\ w[i] \in Scenarios /\ w[i].to \in Int
  <2>1. \A i \in 1..Len(w) : w[i] \in Scenarios
    BY <1>2, ElementOfSeq
  <2>2. \A i \in 1..Len(w) : w[i].to <= b
    BY <1>2 DEF EndBy
  <2>3. \A y \in Scenarios : y.to \in Int
    BY DEF Scenarios, Times
  <2>4. QED
    BY <2>1, <2>2, <2>3
<1>8. Line(running, q, t)
  <2>1. \A i \in 1..Len(q) : Sound(q[i], t)
    BY <1>2, <1>6 DEF Line
  <2>2. ASSUME NEW i \in 1..Len(q), NEW j \in 1..Len(q), i < j PROVE q[i].to <= q[j].from
    <3>1. i \in 1..Len(w) /\ q[i] = w[i]
      BY <1>3, <1>5, <1>6, <2>2
    <3>2. CASE j \in 1..Len(w) /\ q[j] = w[j]
      <4>1. \A k, l \in 1..Len(w) : k < l => w[k].to <= w[l].from
        BY <1>2 DEF Line
      <4>2. QED
        BY <2>2, <3>1, <3>2, <4>1
    <3>3. CASE q[j] = x
      BY <1>7, <3>1, <3>3
    <3>4. QED
      BY <1>6, <3>2, <3>3
  <2>3. ASSUME running # None PROVE Sound(running, t) /\ \A i \in 1..Len(q) : running.to <= q[i].from
    BY <1>2, <1>6, <2>3 DEF Line, EndBy
  <2>4. running \in Scenarios \cup {None}
    BY DEF Line
  <2>5. QED
    BY <1>3, <2>1, <2>2, <2>3, <2>4 DEF Line
<1>9. EndBy(running, q, x.to)
  <2>1. running # None => running.to <= x.to
    <3>1. running # None => running.to \in Int
      BY DEF Line, Scenarios, Times
    <3>2. QED
      BY <1>5, <3>1 DEF EndBy
  <2>2. \A i \in 1..Len(q) : q[i].to <= x.to
    BY <1>5, <1>6, <1>7
  <2>3. QED
    BY <2>1, <2>2 DEF EndBy
<1>10. queue = <<>> => Len(q) = 1 /\ q[1] = x
  BY <1>2, <1>3
<1>11. Len(q) <= QueueMax
  BY <1>1, <1>2, <1>3, <1>5
<1>12. \A i \in 1..Len(q) : q[i] = x \/ \E j \in 1..Len(queue) : q[i] = queue[j]
  BY <1>2, <1>6
<1>13. QED
  BY <1>4, <1>8, <1>9, <1>10, <1>11, <1>12

(* Time goes by.                                                           *)
LEMMA LineLater ==
  ASSUME NEW run, NEW q, NEW t \in Int, NEW u \in Int, t <= u, Line(run, q, t)
  PROVE  Line(run, q, u) /\ EndBy(run, q, u)
<1>1. q \in Seq(Scenarios) /\ run \in Scenarios \cup {None} /\ \A x \in Scenarios : x.to \in Int
  BY DEF Line, Scenarios, Times
<1>2. \A x \in Scenarios : Sound(x, t) => Sound(x, u) /\ x.to <= u
  BY <1>1 DEF Sound
<1>3. \A i \in 1..Len(q) : q[i] \in Scenarios
  BY <1>1, ElementOfSeq
<1>4. (\A i \in 1..Len(q) : Sound(q[i], t)) /\ (run # None => Sound(run, t))
  BY DEF Line
<1>5. (\A i \in 1..Len(q) : Sound(q[i], u) /\ q[i].to <= u) /\ (run # None => Sound(run, u) /\ run.to <= u)
  BY <1>1, <1>2, <1>3, <1>4
<1>6. QED
  BY <1>5 DEF Line, EndBy

(* What the types say of the clock.                                        *)
LEMMA ClockTypes ==
  ASSUME TypeOK
  PROVE  /\ now \in Int /\ lastActivityAt \in Int /\ MaxAge \in Nat
         /\ (openedAt # None => openedAt \in Int) /\ (awaySince # None => awaySince \in Int)
         /\ (Locked => lockedSince \in Int)
         /\ \A r \in reads : r.at \in Int /\ r.asked \in Int /\ r \in Reads
BY LimitsAssumption DEF TypeOK, Times, Locked, Reads

-----------------------------------------------------------------------------
(* closeSpan: the scenario that is over takes its place in the line, with  *)
(* reads of buf only.                                                      *)
LEMMA HandOverKeeps ==
  ASSUME IInv, openedAt # None, NEW at \in Times, openedAt <= at, at <= now, NEW buf \in SUBSET reads,
         NEW oldest \in Int, HandOver(at, buf, oldest)
  PROVE  /\ Line(running', queue', now) /\ Len(queue') <= QueueMax
         /\ queue' # <<>> => paused \/ running' # None
         /\ reads' = buf \ ReadsOf(at, buf)
         /\ \A i \in 1..Len(queue') :
              /\ queue'[i].from >= oldest
              /\ queue'[i].reads \subseteq buf \/ \E j \in 1..Len(queue) : queue'[i] = queue[j]
         /\ running' = running \/ running'.reads \subseteq buf
<1> DEFINE x == [from |-> openedAt, to |-> at, reads |-> ReadsOf(at, buf)]
           w == WithScenario(x)
           p == Pumped(w, running, paused)
<1>1. /\ Line(running, queue, now) /\ EndBy(running, queue, openedAt) /\ Len(queue) <= QueueMax
      /\ now \in Int /\ paused \in BOOLEAN /\ openedAt \in Int /\ reads \subseteq Reads
      /\ (queue # <<>> => paused \/ running # None)
  BY ClockTypes DEF IInv, OpenIsLast, QueueIsServed, TypeOK
<1>2. x \in Scenarios /\ x.from = openedAt /\ x.to = at /\ x.reads = ReadsOf(at, buf)
  <2>1. openedAt \in Times /\ ReadsOf(at, buf) \in SUBSET Reads
    BY <1>1 DEF IInv, TypeOK, ReadsOf
  <2>2. QED
    BY <2>1 DEF Scenarios
<1>3. x.reads \subseteq buf /\ Sound(x, now)
  BY <1>2 DEF ReadsOf, Sound
<1>4. reads' = buf \ ReadsOf(at, buf)
  BY DEF HandOver
<1>5. PICK q \in {queue, w} :
        LET next == IF q = queue THEN [queue |-> q, running |-> running] ELSE Pumped(q, running, paused)
        IN  running' = next.running /\ queue' = Fresh(next.queue, oldest)
  BY DEF HandOver
<1> HIDE DEF x
<1>6. /\ Line(running, w, now) /\ Len(w) <= QueueMax
      /\ \A i \in 1..Len(w) : w[i] = x \/ \E j \in 1..Len(queue) : w[i] = queue[j]
      /\ queue = <<>> => Len(w) = 1 /\ w[1] = x
  BY <1>1, <1>2, <1>3, OneMoreKeeps
<1> HIDE DEF w
<1>7. /\ Line(p.running, p.queue, now) /\ Len(p.queue) <= Len(w)
      /\ \A b \in Int : EndBy(running, w, b) => EndBy(p.running, p.queue, b)
      /\ p.queue # <<>> => paused \/ p.running # None
      /\ \A i \in 1..Len(p.queue) : \E j \in 1..Len(w) : p.queue[i] = w[j]
      /\ p.running = running \/ (p.running # None /\ running = None /\ ~paused /\ w # <<>> /\ p.running = w[1])
  BY <1>1, <1>6, PumpKeeps
<1> HIDE DEF p
<1>8. PICK n : /\ Line(running', n, now) /\ queue' = Fresh(n, oldest) /\ Len(n) <= QueueMax
               /\ (n # <<>> => paused \/ running' # None)
               /\ \A i \in 1..Len(n) : n[i].reads \subseteq buf \/ \E j \in 1..Len(queue) : n[i] = queue[j]
               /\ running' = running \/ running'.reads \subseteq buf
  <2>1. CASE q = queue
    <3>1. running' = running /\ queue' = Fresh(queue, oldest)
      BY <1>5, <2>1
    <3>2. QED
      BY <1>1, <3>1
  <2>2. CASE q # queue
    <3>1. running' = p.running /\ queue' = Fresh(p.queue, oldest)
      BY <1>5, <2>2 DEF p
    <3>2. \A i \in 1..Len(w) : w[i].reads \subseteq buf \/ \E j \in 1..Len(queue) : w[i] = queue[j]
      BY <1>3, <1>6
    <3>3. \A i \in 1..Len(p.queue) :
            p.queue[i].reads \subseteq buf \/ \E j \in 1..Len(queue) : p.queue[i] = queue[j]
      BY <1>7, <3>2
    <3>4. Len(p.queue) \in Nat /\ Len(w) \in Nat /\ QueueMax \in Nat
      BY <1>6, <1>7, LimitsAssumption DEF Line
    <3>5. Len(p.queue) <= QueueMax
      BY <1>6, <1>7, <3>4
    <3>6. p.running = running \/ p.running.reads \subseteq buf
      <4>1. running = None /\ ~paused => w[1] = x
        BY <1>1, <1>6
      <4>2. QED
        BY <1>3, <1>7, <4>1
    <3>7. QED
      BY <1>7, <3>1, <3>3, <3>5, <3>6
  <2>3. QED
    BY <2>1, <2>2
<1>9. PICK d \in Nat : Rest(Fresh(n, oldest), n, d) /\ Fresh(n, oldest) \in Seq(Scenarios)
  <2>1. n \in Seq(Scenarios) /\ Len(n) \in Nat
    BY <1>8 DEF Line
  <2>2. QED
    BY <2>1, FreshIsRest
<1> DEFINE f == Fresh(n, oldest)
<1>10. \A i \in 1..Len(f) : f[i].from >= oldest
  BY <1>1, <1>8, FreshIsYoung
<1> HIDE DEF f
<1>11. /\ Line(running', f, now) /\ Len(f) <= Len(n)
       /\ \A i \in 1..Len(f) : \E j \in 1..Len(n) : f[i] = n[j]
  BY <1>1, <1>8, <1>9, RestKeeps DEF f
<1>12. Len(f) \in Nat /\ Len(n) \in Nat /\ QueueMax \in Nat
  BY <1>8, <1>11, LimitsAssumption DEF Line
<1>13. Len(f) <= QueueMax
  BY <1>8, <1>11, <1>12
<1>14. f # <<>> => n # <<>>
  BY <1>11, <1>12 DEF Line
<1>15. \A i \in 1..Len(f) : f[i].reads \subseteq buf \/ \E j \in 1..Len(queue) : f[i] = queue[j]
  BY <1>8, <1>11
<1>16. queue' = f
  BY <1>8 DEF f
<1>17. QED
  BY <1>4, <1>8, <1>10, <1>11, <1>13, <1>14, <1>15, <1>16

(* ... after which nothing is open, and no read of the time before is left.*)
LEMMA CloseKeeps ==
  ASSUME IInv, openedAt # None, NEW at \in Times, openedAt <= at, at <= now, NEW buf \in SUBSET reads,
         NEW oldest \in Int, CloseSpan(at, buf, oldest), \A r \in reads : r.asked = r.at => r.at <= at,
         UNCHANGED <<rules, lastActivityAt, lockedSince, paused, now>>, on' \in BOOLEAN, due' \in BOOLEAN
  PROVE  /\ TypeOK' /\ Line(running', queue', now') /\ OpenIsLast' /\ ClockIsAhead' /\ ReadsAreOpen'
         /\ QueueIsServed'
<1>1. HandOver(at, buf, oldest) /\ openedAt' = None /\ awaySince' = None
  BY DEF CloseSpan
<1>2. /\ Line(running', queue', now) /\ Len(queue') <= QueueMax
      /\ queue' # <<>> => paused \/ running' # None
      /\ reads' = buf \ ReadsOf(at, buf)
  BY <1>1, HandOverKeeps
<1>3. TypeOK
  BY DEF IInv
<1>4. TypeOK'
  BY <1>1, <1>2, <1>3 DEF TypeOK, Line
<1>5. OpenIsLast' /\ ClockIsAhead' /\ QueueIsServed'
  BY <1>1, <1>2 DEF IInv, OpenIsLast, ClockIsAhead, QueueIsServed, Locked
<1>6. ASSUME NEW r \in reads' PROVE r \in reads /\ r.asked # r.at
  <2>1. r \in reads /\ r \in buf /\ r \notin ReadsOf(at, buf)
    BY <1>2
  <2>2. r.at \notin openedAt..at
    BY <2>1 DEF ReadsOf
  <2>3. r.at \in Int /\ openedAt \in Int /\ at \in Int
    BY <1>3, <2>1, ClockTypes DEF Times
  <2>4. r.asked = r.at => openedAt <= r.at /\ r.at <= at
    BY <2>1 DEF IInv, ReadsAreOpen
  <2>5. QED
    BY <2>1, <2>2, <2>3, <2>4
<1>7. ReadsAreOpen'
  BY <1>6 DEF IInv, ReadsAreOpen, Locked
<1>8. QED
  BY <1>2, <1>4, <1>5, <1>7

(* An end that is dated back is no earlier than the beginning, and later   *)
(* than every read but those that were no sign of the user.                *)
LEMMA EndsInTime ==
  ASSUME IInv, EndsAt # None
  PROVE  /\ openedAt # None /\ EndsAt \in Times /\ openedAt <= EndsAt /\ EndsAt <= now
         /\ \A r \in reads : r.asked = r.at => r.at <= EndsAt
<1>1. openedAt # None /\ TypeOK
  BY DEF EndsAt, IInv
<1>2. now \in Times /\ lastActivityAt \in Times /\ (awaySince # None => awaySince \in Times)
      /\ (Locked => lockedSince \in Times) /\ openedAt \in Int
  BY <1>1, ClockTypes DEF TypeOK, Locked
<1>3. \/ Locked /\ EndsAt = lockedSince
      \/ EndsAt = now
      \/ awaySince # None /\ EndsAt = awaySince
      \/ EndsAt = lastActivityAt
  BY <1>1 DEF EndsAt
<1>4. CASE Locked /\ EndsAt = lockedSince
  BY <1>1, <1>2, <1>4 DEF IInv, OpenIsLast, ClockIsAhead, ReadsAreOpen
<1>5. CASE EndsAt = now
  <2>1. openedAt <= now /\ \A r \in reads : r.at <= now
    BY <1>1 DEF IInv, ClockIsAhead, ReadsAreOpen
  <2>2. now <= now
    BY <1>2 DEF Times
  <2>3. QED
    BY <1>1, <1>2, <1>5, <2>1, <2>2
<1>6. CASE awaySince # None /\ EndsAt = awaySince
  BY <1>1, <1>2, <1>6 DEF IInv, OpenIsLast, ClockIsAhead, ReadsAreOpen
<1>7. CASE EndsAt = lastActivityAt
  <2>1. openedAt <= lastActivityAt /\ lastActivityAt <= now
    BY <1>1 DEF IInv, OpenIsLast, ClockIsAhead
  <2>2. \A r \in reads : r.asked = r.at => r.at <= lastActivityAt
    BY DEF IInv, ReadsAreOpen
  <2>3. QED
    BY <1>1, <1>2, <1>7, <2>1, <2>2
<1>8. QED
  BY <1>3, <1>4, <1>5, <1>6, <1>7

-----------------------------------------------------------------------------
(* The pipeline starts that way.                                           *)
LEMMA InvInit == Init => IInv
<1> SUFFICES ASSUME Init PROVE IInv
  OBVIOUS
<1>1. 0 \in Times /\ 0 \in Nat
  BY LimitsAssumption DEF Times
<1>2. TypeOK
  <2>1. queue \in Seq(Scenarios) /\ Len(queue) = 0
    BY DEF Init
  <2>2. QueueMax \in Nat
    BY LimitsAssumption
  <2>3. Len(queue) <= QueueMax
    BY <2>1, <2>2
  <2>4. on \in BOOLEAN /\ rules \in BOOLEAN /\ paused \in BOOLEAN /\ due \in BOOLEAN
    BY DEF Init
  <2>5. now \in Times /\ lastActivityAt \in Times /\ openedAt = None /\ awaySince = None /\ lockedSince = None
        /\ reads = {} /\ running = None
    BY <1>1 DEF Init
  <2>6. QED
    BY <2>1, <2>3, <2>4, <2>5 DEF TypeOK
<1>3. Line(running, queue, now)
  BY <1>2 DEF Init, TypeOK, Line
<1>4. OpenIsLast /\ ClockIsAhead /\ ReadsAreOpen /\ QueueIsServed /\ TextIsYoung
  BY DEF Init, OpenIsLast, ClockIsAhead, ReadsAreOpen, QueueIsServed, TextIsYoung, Waiting, Locked
<1>5. QED
  BY <1>2, <1>3, <1>4 DEF IInv

(* A window was let through or excluded.                                   *)
LEMMA GateKeeps == ASSUME IInv, NEW v \in {"allowed", "excluded", "unknown"}, Gate(v) PROVE IInv'
<1>1. /\ lastActivityAt' = now /\ awaySince' \in {None, now, awaySince}
      /\ UNCHANGED <<on, rules, openedAt, lockedSince, reads, work, paused, time>>
  BY DEF Gate
<1>2. TypeOK
  BY DEF IInv
<1>3. TypeOK'
  BY <1>1, <1>2 DEF TypeOK, work, time
<1>4. now <= now
  BY <1>2, ClockTypes
<1>5. OpenIsLast' /\ ClockIsAhead'
  BY <1>1, <1>4 DEF IInv, OpenIsLast, ClockIsAhead, work, time, Locked
<1>6. ASSUME NEW r \in reads
      PROVE  /\ r.at <= now /\ r.asked <= now /\ (Locked => r.at <= lockedSince)
             /\ (r.asked = r.at => openedAt # None /\ openedAt <= r.at /\ (awaySince' # None => r.at <= awaySince'))
  <2>1. r.asked \in Int /\ lastActivityAt \in Int /\ now \in Int /\ r.at \in Int
    BY <1>2, ClockTypes
  <2>2. r.asked <= lastActivityAt /\ lastActivityAt <= now
    BY DEF IInv, ReadsAreOpen, ClockIsAhead
  <2>3. r.at <= now /\ (Locked => r.at <= lockedSince)
        /\ (r.asked = r.at => openedAt # None /\ openedAt <= r.at /\ (awaySince # None => r.at <= awaySince))
    BY DEF IInv, ReadsAreOpen
  <2>4. QED
    BY <1>1, <2>1, <2>2, <2>3
<1>7. ReadsAreOpen'
  BY <1>1, <1>6 DEF ReadsAreOpen, work, time, Locked
<1>8. Line(running, queue, now)' /\ QueueIsServed' /\ TextIsYoung'
  BY <1>1 DEF IInv, QueueIsServed, TextIsYoung, Waiting, work, time
<1>9. QED
  BY <1>3, <1>5, <1>7, <1>8 DEF IInv

(* A read is kept.                                                         *)
LEMMA IngestKeeps == ASSUME IInv, NEW at \in now..now + 1, Ingest(at) PROVE IInv'
<1> DEFINE r0 == [asked |-> now, at |-> at]
<1>1. /\ at <= MaxTime /\ ~Locked /\ reads' = reads \cup {r0} /\ awaySince' = None
      /\ openedAt' = (IF openedAt = None THEN at ELSE openedAt)
      /\ now' = at /\ due' = (due \/ at # now)
      /\ lastActivityAt' = (IF openedAt = None THEN at ELSE now)
      /\ UNCHANGED <<on, rules, lockedSince, work, paused>>
  BY DEF Ingest, MayIngest, Remembered, Watching
<1>2. /\ TypeOK /\ now \in Int /\ at \in Int /\ now <= at /\ at \in Times
      /\ lastActivityAt <= now /\ lastActivityAt \in Int
  BY <1>1, LimitsAssumption, ClockTypes DEF IInv, TypeOK, Times, ClockIsAhead
<1>3. r0 \in Reads /\ r0.asked = now /\ r0.at = at
  BY <1>2 DEF Reads, TypeOK
<1> HIDE DEF r0
<1>4. TypeOK'
  <2>1. (due \/ at # now) \in BOOLEAN
    OBVIOUS
  <2>2. due' \in BOOLEAN
    BY <1>1, <2>1
  <2>3. reads' \subseteq Reads
    BY <1>1, <1>2, <1>3 DEF TypeOK
  <2>4. /\ openedAt' \in Times \cup {None} /\ awaySince' \in Times \cup {None}
        /\ lastActivityAt' \in Times /\ now' \in Times
    BY <1>1, <1>2 DEF TypeOK
  <2>5. QED
    BY <1>1, <1>2, <2>2, <2>3, <2>4 DEF TypeOK, work
<1>5. Line(running, queue, at) /\ EndBy(running, queue, at)
  BY <1>2, LineLater DEF IInv
<1>6. Line(running, queue, now)'
  BY <1>1, <1>5 DEF work
<1>7. at <= at /\ now <= now
  BY <1>2
<1>8. OpenIsLast'
  BY <1>1, <1>2, <1>5, <1>7, NoneAssumption DEF IInv, OpenIsLast, ClockIsAhead, Locked, work
<1>9. ClockIsAhead'
  <2>1. openedAt # None => openedAt <= now /\ openedAt \in Int
    BY <1>2, ClockTypes DEF IInv, ClockIsAhead
  <2>2. QED
    BY <1>1, <1>2, <1>7, <2>1 DEF ClockIsAhead, Locked
<1>10. ASSUME NEW r \in reads'
       PROVE  /\ r.at <= at /\ r.asked <= lastActivityAt'
              /\ (r.asked = r.at => openedAt' # None /\ openedAt' <= r.at)
  <2>1. CASE r \in reads
    <3>1. r.asked \in Int /\ r.at \in Int
      BY <1>2, <2>1, ClockTypes
    <3>2. r.at <= now /\ r.asked <= lastActivityAt /\ (r.asked = r.at => openedAt # None /\ openedAt <= r.at)
      BY <2>1 DEF IInv, ReadsAreOpen
    <3>3. QED
      BY <1>1, <1>2, <3>1, <3>2
  <2>2. CASE r = r0
    <3>1. openedAt # None => openedAt <= now /\ openedAt \in Int
      BY <1>2, ClockTypes DEF IInv, ClockIsAhead
    <3>2. openedAt' # None
      BY <1>1, <1>2, NoneAssumption
    <3>3. QED
      BY <1>1, <1>2, <1>3, <2>2, <3>1, <3>2
  <2>3. QED
    BY <1>1, <2>1, <2>2
<1>11. ReadsAreOpen'
  BY <1>1, <1>10 DEF ReadsAreOpen, Locked
<1>12. QueueIsServed'
  BY <1>1 DEF IInv, QueueIsServed, work
<1>13. TextIsYoung'
  <2> SUFFICES ASSUME ~due' PROVE \A r \in Waiting' : now' - r.at <= MaxAge
    BY DEF TextIsYoung
  <2>1. ~due /\ at = now
    BY <1>1
  <2>2. Waiting' = Waiting \cup {r0}
    BY <1>1 DEF Waiting, work
  <2>3. now - now <= MaxAge
    BY <1>2, LimitsAssumption
  <2>4. QED
    BY <1>1, <1>3, <2>1, <2>2, <2>3 DEF IInv, TextIsYoung
<1>14. QED
  BY <1>4, <1>6, <1>8, <1>9, <1>11, <1>12, <1>13 DEF IInv

(* Reads and scenarios only go: what is left is as young as before.        *)
LEMMA FewerAreYoung ==
  ASSUME IInv, now' = now, due' \/ ~due, reads' \subseteq reads,
         \A i \in 1..Len(queue') : queue'[i].reads \subseteq reads \/ \E j \in 1..Len(queue) : queue'[i] = queue[j]
  PROVE  TextIsYoung'
<1>1. Waiting' \subseteq Waiting
  BY DEF Waiting
<1>2. QED
  BY <1>1 DEF IInv, TextIsYoung

(* The tick.                                                               *)
LEMMA TickKeeps == ASSUME IInv, Tick PROVE IInv'
<1>1. /\ due' = FALSE /\ now' = now
      /\ UNCHANGED <<on, rules, lastActivityAt, lockedSince, paused, now>>
  BY DEF Tick
<1>2. TypeOK /\ now \in Int /\ MaxAge \in Int /\ now - MaxAge \in Int /\ Young(reads) \in SUBSET reads
  BY ClockTypes DEF IInv, Young
<1>3. ASSUME \A i \in 1..Len(queue') : queue'[i].from >= now - MaxAge,
             Line(running', queue', now'), reads' \subseteq Young(reads)
      PROVE  TextIsYoung'
  <2>1. ASSUME NEW i \in 1..Len(queue'), NEW r \in queue'[i].reads PROVE now - r.at <= MaxAge
    <3>1. queue'[i] \in Scenarios
      BY <1>3, ElementOfSeq DEF Line
    <3>2. r.at \in queue'[i].from..queue'[i].to
      BY <1>3 DEF Line, Sound
    <3>3. queue'[i].from \in Int /\ queue'[i].to \in Int
      BY <3>1 DEF Scenarios, Times
    <3>4. QED
      BY <1>2, <1>3, <3>2, <3>3
  <2>2. \A r \in reads' : now - r.at <= MaxAge
    BY <1>3 DEF Young
  <2>3. QED
    BY <1>1, <2>1, <2>2 DEF TextIsYoung, Waiting
<1>4. CASE EndsAt = None
  <2> DEFINE f == Fresh(queue, now - MaxAge)
  <2>1. /\ reads' = Young(reads) /\ queue' = f /\ UNCHANGED <<openedAt, awaySince, running>>
    BY <1>4 DEF Tick
  <2>2. Line(running, queue, now) /\ queue \in Seq(Scenarios) /\ Len(queue) \in Nat
    BY DEF IInv, Line
  <2>3. PICK d \in Nat : Rest(f, queue, d) /\ f \in Seq(Scenarios)
    <3> DEFINE o == now - MaxAge
    <3>1. o \in Int /\ f = Fresh(queue, o)
      BY <1>2
    <3> HIDE DEF o, f
    <3>2. /\ Fresh(queue, o) \in Seq(Scenarios)
          /\ \E e \in 0..Len(queue) : e = Cardinality(Stale(queue, o)) /\ Rest(Fresh(queue, o), queue, e)
      BY <2>2, <3>1, FreshIsRest
    <3>3. \E e \in 0..Len(queue) : Rest(f, queue, e)
      BY <3>1, <3>2
    <3>4. 0..Len(queue) \subseteq Nat
      BY <2>2
    <3>5. QED
      BY <3>1, <3>2, <3>3, <3>4
  <2>4. \A i \in 1..Len(f) : f[i].from >= now - MaxAge
    BY <1>2, <2>2, FreshIsYoung
  <2> HIDE DEF f
  <2>5. /\ Line(running, f, now) /\ \A b \in Int : EndBy(running, queue, b) => EndBy(running, f, b)
        /\ Len(f) <= Len(queue)
    BY <1>2, <2>2, <2>3, RestKeeps
  <2>6. f # <<>> => queue # <<>>
    BY <2>2, <2>3, <2>5
  <2>7. Len(f) <= QueueMax
    <3>1. Len(f) \in Nat /\ QueueMax \in Nat /\ Len(queue) <= QueueMax
      BY <2>3, <1>2, LimitsAssumption DEF TypeOK
    <3>2. QED
      BY <2>2, <2>5, <3>1
  <2>8. TypeOK'
    BY <1>1, <1>2, <2>1, <2>3, <2>7 DEF TypeOK
  <2>9. openedAt # None => openedAt \in Int
    BY <1>2, ClockTypes
  <2>10. OpenIsLast' /\ ClockIsAhead' /\ ReadsAreOpen' /\ QueueIsServed'
    BY <1>1, <1>2, <2>1, <2>5, <2>6, <2>9 DEF IInv, OpenIsLast, ClockIsAhead, ReadsAreOpen, QueueIsServed, Locked
  <2>11. TextIsYoung'
    BY <1>1, <1>3, <2>1, <2>4, <2>5
  <2>12. QED
    BY <1>1, <2>1, <2>5, <2>8, <2>10, <2>11 DEF IInv
<1>5. CASE EndsAt # None
  <2>1. CloseSpan(EndsAt, Young(reads), now - MaxAge)
    BY <1>5 DEF Tick
  <2>2. /\ openedAt # None /\ EndsAt \in Times /\ openedAt <= EndsAt /\ EndsAt <= now
        /\ \A r \in reads : r.asked = r.at => r.at <= EndsAt
    BY <1>5, EndsInTime
  <2>3. on' \in BOOLEAN /\ due' \in BOOLEAN
    BY <1>1, <1>2 DEF TypeOK
  <2>4. /\ TypeOK' /\ Line(running', queue', now') /\ OpenIsLast' /\ ClockIsAhead' /\ ReadsAreOpen' /\ QueueIsServed'
    BY <1>1, <1>2, <2>1, <2>2, <2>3, CloseKeeps
  <2>5. HandOver(EndsAt, Young(reads), now - MaxAge)
    BY <2>1 DEF CloseSpan
  <2>6. /\ reads' = Young(reads) \ ReadsOf(EndsAt, Young(reads))
        /\ \A i \in 1..Len(queue') : queue'[i].from >= now - MaxAge
    BY <1>2, <2>2, <2>5, HandOverKeeps
  <2>7. TextIsYoung'
    BY <1>3, <2>4, <2>6
  <2>8. QED
    BY <2>4, <2>7 DEF IInv
<1>6. QED
  BY <1>4, <1>5

(* pump, when an extraction has ended or the model was resumed.            *)
LEMMA PumpedKeeps ==
  ASSUME IInv, NEW run \in {None, running}, NEW held \in BOOLEAN, running' = Pumped(queue, run, held).running,
         queue' = Pumped(queue, run, held).queue, paused' = held,
         UNCHANGED <<on, rules, span, reads, time>>
  PROVE  IInv'
<1> DEFINE p == Pumped(queue, run, held)
<1>1. TypeOK /\ now \in Int /\ Line(running, queue, now)
  BY ClockTypes DEF IInv
<1>2. Line(run, queue, now) /\ \A b \in Int : EndBy(running, queue, b) => EndBy(run, queue, b)
  BY <1>1 DEF Line, EndBy
<1>3. /\ Line(p.running, p.queue, now) /\ Len(p.queue) <= Len(queue)
      /\ \A b \in Int : EndBy(run, queue, b) => EndBy(p.running, p.queue, b)
      /\ p.queue # <<>> => held \/ p.running # None
      /\ \A i \in 1..Len(p.queue) : \E j \in 1..Len(queue) : p.queue[i] = queue[j]
      /\ p.running = run \/ (p.running # None /\ run = None /\ ~held /\ queue # <<>> /\ p.running = queue[1])
  BY <1>1, <1>2, PumpKeeps
<1>4. running' = p.running /\ queue' = p.queue
  OBVIOUS
<1> HIDE DEF p
<1>5. Len(queue') <= QueueMax
  <2>1. Len(queue') \in Nat /\ Len(queue) \in Nat /\ QueueMax \in Nat /\ Len(queue) <= QueueMax
    BY <1>1, <1>3, <1>4, LimitsAssumption DEF Line, TypeOK
  <2>2. QED
    BY <1>3, <1>4, <2>1
<1>6. TypeOK'
  BY <1>1, <1>3, <1>4, <1>5 DEF TypeOK, Line, span, time
<1>7. openedAt # None => openedAt \in Int
  BY <1>1, ClockTypes
<1>8. OpenIsLast' /\ ClockIsAhead' /\ ReadsAreOpen' /\ QueueIsServed'
  BY <1>2, <1>3, <1>4, <1>7 DEF IInv, OpenIsLast, ClockIsAhead, ReadsAreOpen, QueueIsServed, Locked, span, time
<1>9. TextIsYoung'
  BY <1>3, <1>4, FewerAreYoung DEF time
<1>10. Line(running', queue', now')
  BY <1>3, <1>4 DEF time
<1>11. QED
  BY <1>6, <1>8, <1>9, <1>10 DEF IInv
LEMMA ExtractedKeeps == ASSUME IInv, Extracted PROVE IInv'
<1>1. paused \in BOOLEAN
  BY DEF IInv, TypeOK
<1>2. QED
  BY <1>1, PumpedKeeps DEF Extracted
LEMMA ResumedKeeps == ASSUME IInv, ModelResumed PROVE IInv'
BY PumpedKeeps DEF ModelResumed

(* Capture is switched off: the open scenario ends now.                    *)
LEMMA CaptureOffKeeps == ASSUME IInv, CaptureOff PROVE IInv'
<1>1. /\ on' = FALSE /\ UNCHANGED <<rules, lastActivityAt, lockedSince, paused, now, due>>
  BY DEF CaptureOff, time
<1>2. TypeOK /\ now \in Times /\ now \in Int /\ 0 \in Int /\ due' \in BOOLEAN /\ reads \in SUBSET reads
  BY <1>1, ClockTypes DEF IInv, TypeOK
<1>3. CASE openedAt = None
  <2>1. UNCHANGED <<openedAt, awaySince, reads, work>>
    BY <1>3 DEF CaptureOff
  <2>2. TypeOK'
    BY <1>1, <1>2, <2>1 DEF TypeOK, work
  <2>3. QED
    BY <1>1, <2>1, <2>2 DEF IInv, OpenIsLast, ClockIsAhead, ReadsAreOpen, QueueIsServed, TextIsYoung, Waiting,
                            Locked, work
<1>4. CASE openedAt # None
  <2>1. CloseSpan(now, reads, 0)
    BY <1>4 DEF CaptureOff
  <2>2. openedAt <= now /\ now <= now /\ \A r \in reads : r.asked = r.at => r.at <= now
    BY <1>2, <1>4 DEF IInv, ClockIsAhead, ReadsAreOpen
  <2>3. /\ TypeOK' /\ Line(running', queue', now') /\ OpenIsLast' /\ ClockIsAhead' /\ ReadsAreOpen' /\ QueueIsServed'
    BY <1>1, <1>2, <1>4, <2>1, <2>2, CloseKeeps
  <2>4. /\ reads' = reads \ ReadsOf(now, reads)
        /\ \A i \in 1..Len(queue') :
             queue'[i].reads \subseteq reads \/ \E j \in 1..Len(queue) : queue'[i] = queue[j]
    BY <1>2, <1>4, <2>1, <2>2, HandOverKeeps DEF CloseSpan
  <2>5. TextIsYoung'
    BY <1>1, <2>4, FewerAreYoung
  <2>6. QED
    BY <2>3, <2>5 DEF IInv
<1>5. QED
  BY <1>3, <1>4

(* The screen is locked: whatever came before was before.                  *)
LEMMA LockKeeps == ASSUME IInv, LockScreen PROVE IInv'
<1>1. /\ ~Locked /\ lockedSince' = now
      /\ UNCHANGED <<on, rules, openedAt, lastActivityAt, awaySince, reads, work, paused, time>>
  BY DEF LockScreen
<1>2. TypeOK /\ now <= now /\ now # None
  BY ClockTypes, NoneAssumption DEF IInv
<1>3. TypeOK'
  BY <1>1, <1>2 DEF TypeOK, work, time
<1>4. QED
  BY <1>1, <1>2, <1>3 DEF IInv, OpenIsLast, ClockIsAhead, ReadsAreOpen, QueueIsServed, TextIsYoung, Waiting,
                          Locked, work, time
(* ... or anything else happens that touches no text.                      *)
LEMMA SignalsKeep ==
  ASSUME IInv, CaptureOn \/ UnlockScreen \/ ModelPaused \/ Configure
  PROVE  IInv'
<1>1. TypeOK
  BY DEF IInv
<1>2. /\ UNCHANGED <<openedAt, lastActivityAt, awaySince, reads, queue, running, now, due>>
      /\ lockedSince' \in {lockedSince, None} /\ (paused => paused')
  BY DEF CaptureOn, UnlockScreen, ModelPaused, Configure, span, work, time
<1>3. on' \in BOOLEAN
  BY <1>1 DEF TypeOK, CaptureOn, UnlockScreen, ModelPaused, Configure
<1>4. rules' \in BOOLEAN
  BY <1>1 DEF TypeOK, CaptureOn, UnlockScreen, ModelPaused, Configure
<1>5. paused' \in BOOLEAN
  BY <1>1 DEF TypeOK, CaptureOn, UnlockScreen, ModelPaused, Configure
<1>6. TypeOK'
  BY <1>1, <1>2, <1>3, <1>4, <1>5 DEF TypeOK
<1>7. QED
  BY <1>2, <1>6 DEF IInv, OpenIsLast, ClockIsAhead, ReadsAreOpen, QueueIsServed, TextIsYoung, Waiting, Locked

(* Time goes by, and a tick is due.                                        *)
LEMMA ElapseKeeps == ASSUME IInv, Elapse PROVE IInv'
<1>1. now < MaxTime /\ now' = now + 1 /\ due' = TRUE /\ UNCHANGED <<on, rules, span, reads, work, paused>>
  BY DEF Elapse
<1>2. TypeOK /\ now \in Int /\ now + 1 \in Int /\ now <= now + 1 /\ now' \in Times
  BY <1>1, ClockTypes, LimitsAssumption DEF IInv, TypeOK, Times
<1>3. TypeOK'
  BY <1>1, <1>2 DEF TypeOK, span, work
<1>4. Line(running, queue, now + 1)
  BY <1>2, LineLater DEF IInv
<1>5. Line(running', queue', now')
  BY <1>1, <1>4 DEF work
<1>6. ClockIsAhead'
  BY <1>1, <1>2, ClockTypes DEF IInv, ClockIsAhead, span, Locked
<1>7. ASSUME NEW r \in reads PROVE r.at <= now'
  BY <1>1, <1>2, ClockTypes DEF IInv, ReadsAreOpen
<1>8. OpenIsLast' /\ ReadsAreOpen' /\ QueueIsServed' /\ TextIsYoung'
  BY <1>1, <1>7 DEF IInv, OpenIsLast, ReadsAreOpen, QueueIsServed, TextIsYoung, span, work, Locked
<1>9. QED
  BY <1>3, <1>5, <1>6, <1>8 DEF IInv

(* Every step keeps the invariant.                                         *)
LEMMA InvStep == IInv /\ [Next]_vars => IInv'
<1> SUFFICES ASSUME IInv, [Next]_vars PROVE IInv'
  OBVIOUS
<1>1. CASE \E verdict \in {"allowed", "excluded", "unknown"} : Gate(verdict)
  BY <1>1, GateKeeps
<1>2. CASE \E at \in now..now + 1 : Ingest(at)
  BY <1>2, IngestKeeps
<1>3. CASE Tick \/ Extracted \/ Elapse
  BY <1>3, TickKeeps, ExtractedKeeps, ElapseKeeps
<1>4. CASE Signals
  BY <1>4, SignalsKeep, CaptureOffKeeps, LockKeeps, ResumedKeeps DEF Signals
<1>5. CASE UNCHANGED vars
  <2>1. TypeOK'
    BY <1>5 DEF IInv, TypeOK, vars, span, work, time
  <2>2. QED
    BY <1>5, <2>1 DEF vars, span, work, time, IInv, OpenIsLast, ClockIsAhead, ReadsAreOpen, QueueIsServed,
                      TextIsYoung, Waiting, Locked
<1>6. QED
  BY <1>1, <1>2, <1>3, <1>4, <1>5 DEF Next
LEMMA Invariance == Spec => []IInv
BY InvInit, InvStep, PTL DEF Spec

-----------------------------------------------------------------------------
(* The state of the pipeline keeps its types; the queue never outgrows     *)
(* EXTRACTION_QUEUE_MAX.                                                   *)
THEOREM TypesHold == Spec => []TypeOK
<1>1. IInv => TypeOK
  BY DEF IInv
<1>2. QED
  BY <1>1, Invariance, PTL

(* A scenario that waits finds the model busy or paused: pump is called    *)
(* wherever a scenario is queued, an extraction ends or the model resumes. *)
THEOREM QueueStaysServed == Spec => []QueueIsServed
<1>1. IInv => QueueIsServed
  BY DEF IInv
<1>2. QED
  BY <1>1, Invariance, PTL

(* What the line says of a sequence that begins with the one under         *)
(* extraction.                                                             *)
LEMMA LineOfAll ==
  ASSUME NEW t, NEW q, NEW run, Line(run, q, t),
         NEW m, m = (IF run = None THEN <<>> ELSE <<run>>) \o q
  PROVE  /\ \A i \in 1..Len(m) : Sound(m[i], t) /\ (\A b : EndBy(run, q, b) => m[i].to <= b)
         /\ \A i \in 1..Len(m) : \A j \in i + 1..Len(m) : m[i].to <= m[j].from
<1>1. q \in Seq(Scenarios) /\ Len(q) \in Nat /\ run \in Scenarios \cup {None}
  BY DEF Line
<1>2. \A i, j \in 1..Len(q) : i < j => q[i].to <= q[j].from
  BY DEF Line
<1>3. (\A i \in 1..Len(q) : Sound(q[i], t)) /\ \A b : EndBy(run, q, b) => \A i \in 1..Len(q) : q[i].to <= b
  BY DEF Line, EndBy
<1>4. CASE run = None
  <2>1. Len(m) = Len(q) /\ \A i \in 1..Len(m) : m[i] = q[i]
    BY <1>1, <1>4
  <2>2. \A i \in 1..Len(m) : \A j \in i + 1..Len(m) : i \in 1..Len(q) /\ j \in 1..Len(q) /\ i < j
    BY <1>1, <2>1
  <2>3. \A i \in 1..Len(m) : \A j \in i + 1..Len(m) : m[i].to <= m[j].from
    BY <1>2, <2>1, <2>2
  <2>4. QED
    BY <1>3, <2>1, <2>3
<1>5. CASE run # None
  <2>1. Len(m) = Len(q) + 1 /\ m[1] = run /\ \A i \in 2..Len(m) : m[i] = q[i - 1] /\ i - 1 \in 1..Len(q)
    BY <1>1, <1>5
  <2>2. \A i \in 1..Len(m) : i = 1 \/ (i \in 2..Len(m) /\ i # 1)
    BY <1>1, <2>1
  <2>3. Sound(run, t) /\ (\A i \in 1..Len(q) : run.to <= q[i].from) /\ \A b : EndBy(run, q, b) => run.to <= b
    BY <1>5 DEF Line, EndBy
  <2>4. \A i \in 1..Len(m) : Sound(m[i], t) /\ \A b : EndBy(run, q, b) => m[i].to <= b
    BY <1>3, <2>1, <2>2, <2>3
  <2>5. ASSUME NEW i \in 1..Len(m), NEW j \in i + 1..Len(m) PROVE m[i].to <= m[j].from
    <3>1. j \in 2..Len(m) /\ m[j] = q[j - 1] /\ j - 1 \in 1..Len(q)
      BY <1>1, <2>1
    <3>2. CASE i = 1
      BY <2>1, <2>3, <3>1, <3>2
    <3>3. CASE i # 1
      <4>1. i \in 2..Len(m) /\ i - 1 < j - 1
        BY <1>1, <2>1, <3>3
      <4>2. m[i] = q[i - 1] /\ i - 1 \in 1..Len(q)
        BY <2>1, <4>1
      <4>3. QED
        BY <1>2, <3>1, <4>1, <4>2
    <3>4. QED
      BY <3>2, <3>3
  <2>6. QED
    BY <2>4, <2>5
<1>6. QED
  BY <1>4, <1>5

(* However an end is dated back, a scenario ends after it began and holds  *)
(* reads of its own time; scenarios come one after the other, the open one *)
(* last; and every read of the buffer that was a sign of the user belongs  *)
(* to the open one.                                                        *)
THEOREM SpansStayInOrder == Spec => []SpansInOrder
<1>1. ASSUME IInv PROVE SpansInOrder
  <2> DEFINE m == (IF running = None THEN <<>> ELSE <<running>>) \o queue
  <2>1. Line(running, queue, now) /\ now \in Int /\ TypeOK
    BY <1>1, ClockTypes DEF IInv
  <2>2. InMemory = m
    BY DEF InMemory
  <2> HIDE DEF m
  <2>3. m = (IF running = None THEN <<>> ELSE <<running>>) \o queue
    BY DEF m
  <2>4. /\ \A i \in 1..Len(m) : Sound(m[i], now) /\ (\A b : EndBy(running, queue, b) => m[i].to <= b)
        /\ \A i \in 1..Len(m) : \A j \in i + 1..Len(m) : m[i].to <= m[j].from
    BY <2>1, <2>3, LineOfAll
  <2>5. ASSUME NEW i \in 1..Len(m)
        PROVE  /\ m[i].from <= m[i].to /\ m[i].to <= now
               /\ \A r \in m[i].reads : r.at \in m[i].from..m[i].to
               /\ openedAt # None => m[i].to <= openedAt
    BY <1>1, <2>4 DEF IInv, OpenIsLast, Sound
  <2>6. openedAt # None => openedAt <= now
    BY <1>1 DEF IInv, ClockIsAhead
  <2>7. \A r \in reads : r.asked = r.at => openedAt # None /\ openedAt <= r.at
    BY <1>1 DEF IInv, ReadsAreOpen
  <2>8. QED
    BY <2>2, <2>4, <2>5, <2>6, <2>7 DEF SpansInOrder
<1>2. QED
  BY <1>1, Invariance, PTL

(* What begins to be extracted while no tick is due comes from the queue   *)
(* or, at a tick or a switching off, from the buffer.                      *)
LEMMA PumpedIsYoung ==
  ASSUME IInv, NEW run \in {None, running}, NEW held \in BOOLEAN, running' = Pumped(queue, run, held).running,
         running' # None, running' # running, ~due
  PROVE  \A r \in running'.reads : now - r.at <= MaxAge
<1>1. queue \in Seq(Scenarios) /\ queue # <<>> /\ running' = Head(queue)
  BY DEF IInv, TypeOK, Pumped
<1>2. 1 \in 1..Len(queue) /\ running' = queue[1]
  BY <1>1, TailIsRest
<1>3. running'.reads \subseteq Waiting
  BY <1>2 DEF Waiting
<1>4. QED
  BY <1>3 DEF IInv, TextIsYoung

(* Text leaves in time: after a tick nothing in the buffer or the queue is *)
(* older than BUFFER_MAX_AGE_MS, and nothing older goes to the model.      *)
THEOREM TextLeavesInTime == Spec => TextExpires
<1> DEFINE Fine == running' # None /\ running' # running /\ ~due'
                     => \A r \in running'.reads : now - r.at <= MaxAge
           Kept == ~due => \A r \in Waiting : now - r.at <= MaxAge
<1>1. IInv => Kept
  BY DEF IInv, TextIsYoung
<1>2. ASSUME IInv, [Next]_vars, running' # None, running' # running, ~due'
      PROVE  \A r \in running'.reads : now - r.at <= MaxAge
  <2>1. TypeOK /\ now \in Int /\ now \in Times /\ MaxAge \in Nat /\ 0 \in Int /\ paused \in BOOLEAN
    BY <1>2, ClockTypes DEF IInv, TypeOK
  <2>2. Tick \/ Extracted \/ CaptureOff \/ ModelResumed
    <3>1. CASE \E verdict \in {"allowed", "excluded", "unknown"} : Gate(verdict)
      BY <1>2, <3>1 DEF Gate, work
    <3>2. CASE \E at \in now..now + 1 : Ingest(at)
      BY <1>2, <3>2 DEF Ingest, Remembered, work
    <3>3. CASE Elapse \/ CaptureOn \/ LockScreen \/ UnlockScreen \/ ModelPaused \/ Configure \/ UNCHANGED vars
      BY <1>2, <3>3 DEF Elapse, CaptureOn, LockScreen, UnlockScreen, ModelPaused, Configure, vars, work
    <3>4. QED
      BY <1>2, <3>1, <3>2, <3>3 DEF Next, Signals
  <2>3. CASE Tick
    <3>1. CASE EndsAt = None
      BY <1>2, <2>3, <3>1 DEF Tick
    <3>2. CASE EndsAt # None
      <4>1. HandOver(EndsAt, Young(reads), now - MaxAge)
        BY <2>3, <3>2 DEF Tick, CloseSpan
      <4>2. openedAt # None /\ EndsAt \in Times /\ openedAt <= EndsAt /\ EndsAt <= now
        BY <1>2, <3>2, EndsInTime
      <4>3. Young(reads) \in SUBSET reads /\ now - MaxAge \in Int
        BY <2>1 DEF Young
      <4>4. running' = running \/ running'.reads \subseteq Young(reads)
        BY <1>2, <4>1, <4>2, <4>3, HandOverKeeps
      <4>5. QED
        BY <1>2, <4>4 DEF Young
    <3>3. QED
      BY <3>1, <3>2
  <2>4. CASE Extracted
    <3>1. ~due /\ None \in {None, running} /\ running' = Pumped(queue, None, paused).running
      BY <1>2, <2>4 DEF Extracted, time
    <3>2. QED
      BY <1>2, <2>1, <3>1, PumpedIsYoung
  <2>5. CASE ModelResumed
    <3>1. ~due /\ running \in {None, running} /\ FALSE \in BOOLEAN /\ running' = Pumped(queue, running, FALSE).running
      BY <1>2, <2>5 DEF ModelResumed, time
    <3>2. QED
      BY <1>2, <3>1, PumpedIsYoung
  <2>6. CASE CaptureOff
    <3>1. ~due
      BY <1>2, <2>6 DEF CaptureOff, time
    <3>2. openedAt # None /\ HandOver(now, reads, 0)
      BY <1>2, <2>6 DEF CaptureOff, CloseSpan, work
    <3>3. openedAt <= now /\ now <= now /\ reads \in SUBSET reads
      BY <1>2, <2>1, <3>2 DEF IInv, ClockIsAhead
    <3>4. running' = running \/ running'.reads \subseteq reads
      BY <1>2, <2>1, <3>2, <3>3, HandOverKeeps
    <3>5. running'.reads \subseteq Waiting
      BY <1>2, <3>4 DEF Waiting
    <3>6. QED
      BY <1>2, <3>1, <3>5 DEF IInv, TextIsYoung
  <2>7. QED
    BY <2>2, <2>3, <2>4, <2>5, <2>6
<1>3. IInv /\ [Next]_vars => [Fine]_vars
  BY <1>2
<1>4. Spec => []Kept /\ [][Fine]_vars
  BY <1>1, <1>3, Invariance, PTL DEF Spec
<1>5. QED
  BY <1>4 DEF TextExpires
=============================================================================
