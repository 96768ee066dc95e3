----------------------------- MODULE CaptureProofs -----------------------------
(***************************************************************************)
(* Theorems about capture.  The loop (CaptureLoop), for every set of       *)
(* windows, every choice of those allowed and every limit.  The gate that  *)
(* starts and stops it (CaptureGate), for any accounts, any number of      *)
(* writes on their way and of refusals, and any number of turns of the     *)
(* user.                                                                   *)
(***************************************************************************)
EXTENDS CaptureLoop, CaptureGate, SequenceTheorems, FiniteSetTheorems, TLAPS

-----------------------------------------------------------------------------
(* The loop.  The inductive invariant.                                     *)

(* A cycle that still waits for an answer belongs to the run going on; the *)
(* window it reads is one the core allowed, the picture it holds was taken *)
(* in this run.                                                            *)
CycleIsOfThisRun ==
  /\ pc \in Waiting => active /\ mine = generation
  /\ pc \in {"read", "after"} => front \in Allowed
  /\ pc = "after" => got.generation = generation
(* A round is owed only by a cycle of a loop that runs.                    *)
OwedByCycle == dirty => active /\ pc # "none"
(* The streak counts cycles since the run last read something, and its     *)
(* clock is never behind that moment nor ahead of the present.             *)
StreakIsCounted == streak <= barren /\ (noticeUp => active)
ClockIsSound == lastRead <= lastProductiveAt /\ lastProductiveAt <= now /\ lastCycleAt <= now
(* Each failure remembered is one of this run's, and they are in order.    *)
FailuresAreCounted == Len(failures) <= faultsSeen
FailuresInOrder ==
  \A i \in DOMAIN failures : failures[i] <= now /\ \A j \in DOMAIN failures : i <= j => failures[i] <= failures[j]

LoopIndInv ==
  /\ LoopTypeOK /\ CycleIsOfThisRun /\ OwedByCycle /\ StreakIsCounted /\ ClockIsSound
  /\ FailuresAreCounted /\ FailuresInOrder

-----------------------------------------------------------------------------
(* Induction, in the form the provers can use: a set of naturals that is   *)
(* not empty has a least element.                                          *)
LEMMA LeastNumber ==
  ASSUME NEW T \in SUBSET Nat, T # {}
  PROVE  \E m \in T : \A k \in T : m <= k
<1> DEFINE U == {0..m : m \in T}
           R == StrictSubsetOrdering(Nat)
<1>1. U \subseteq FiniteSubsetsOf(Nat) /\ U # {}
  <2>1. \A m \in T : IsFiniteSet(0..m) /\ 0..m \in SUBSET Nat
    <3> SUFFICES ASSUME NEW m \in T PROVE IsFiniteSet(0..m) /\ 0..m \in SUBSET Nat
      OBVIOUS
    <3>1. 0 \in Int /\ m \in Int
      OBVIOUS
    <3>2. IsFiniteSet(0..m)
      BY <3>1, FS_Interval
    <3>3. QED
      BY <3>2
  <2>2. QED
    BY <2>1 DEF FiniteSubsetsOf
<1>2. PICK x \in U : \A y \in U : ~(<<y, x>> \in R)
  <2>1. IsWellFoundedOn(R, FiniteSubsetsOf(Nat))
    BY FS_StrictSubsetOrderingWellFounded
  <2> HIDE DEF U, R
  <2>2. QED
    BY <1>1, <2>1, WFMin
<1>3. PICK m \in T : x = 0..m
  BY <1>2
<1>4. ASSUME NEW k \in T, k < m PROVE FALSE
  <2>1. 0..k \in U /\ 0..k \subseteq 0..m /\ 0..k # 0..m /\ 0..k \in SUBSET Nat /\ 0..m \in SUBSET Nat
    BY <1>4
  <2>2. <<0..k, x>> \in R
    BY <1>3, <2>1 DEF StrictSubsetOrdering
  <2>3. QED
    BY <1>2, <2>1, <2>2
<1>5. \A k \in T : m <= k
  BY <1>4
<1>6. QED
  BY <1>5

(* The failures remembered, as a function of their places.                 *)
LEMMA FailureTypes ==
  ASSUME LoopTypeOK
  PROVE  /\ Len(failures) \in Nat /\ DOMAIN failures = 1..Len(failures)
         /\ failures \in Seq(0..MaxTime) /\ failures \in [1..Len(failures) -> 0..MaxTime]
         /\ now \in Nat /\ FailureWindow \in Nat /\ MaxTime \in Nat
BY LenProperties, LimitsAssumption DEF LoopTypeOK

(* The failures kept: a sequence of times, no longer than before.          *)
LEMMA RecentTypes ==
  ASSUME LoopTypeOK
  PROVE  /\ Cardinality(Lapsed) \in 0..Len(failures)
         /\ Recent \in Seq(0..MaxTime) /\ Len(Recent) = Len(failures) - Cardinality(Lapsed)
         /\ \A i \in 1..Len(Recent) : Recent[i] = failures[Cardinality(Lapsed) + i]
<1> DEFINE n == Len(failures)
           c == Cardinality(Lapsed)
<1>1. n \in Nat /\ failures \in [1..n -> 0..MaxTime]
  BY FailureTypes
<1>2. IsFiniteSet(1..n) /\ Cardinality(1..n) = n
  <2>1. 1 \in Int /\ n \in Int
    BY <1>1
  <2>2. QED
    BY <1>1, <2>1, FS_Interval
<1>3. Lapsed \in SUBSET (1..n)
  BY FailureTypes DEF Lapsed
<1>4. c \in 0..n
  <2>1. IsFiniteSet(Lapsed) /\ c <= n
    BY <1>2, <1>3, FS_Subset
  <2>2. c \in Nat
    BY <2>1, FS_CardinalityType
  <2>3. QED
    BY <1>1, <2>1, <2>2
<1> HIDE DEF n, c
<1>5. \A i \in (c + 1)..n : failures[i] \in 0..MaxTime
  BY <1>1, <1>4
<1>6. c + 1 \in Int /\ n \in Int
  BY <1>1, <1>4
<1>7. /\ SubSeq(failures, c + 1, n) \in Seq(0..MaxTime)
      /\ Len(SubSeq(failures, c + 1, n)) = IF c + 1 <= n THEN n - (c + 1) + 1 ELSE 0
      /\ \A i \in 1..(n - (c + 1) + 1) : SubSeq(failures, c + 1, n)[i] = failures[c + 1 + i - 1]
  BY <1>5, <1>6, SubSeqProperties
<1>8. Recent = SubSeq(failures, c + 1, n)
  BY DEF Recent, c, n
<1>9. Len(Recent) = n - c /\ \A i \in 1..(n - c) : Recent[i] = failures[c + i]
  BY <1>1, <1>4, <1>7, <1>8
<1>10. QED
  BY <1>4, <1>7, <1>8, <1>9 DEF c, n

(* What is forgotten is what has lapsed and nothing else: with the times   *)
(* in order the lapsed ones come first.                                    *)
LEMMA LapsedComeFirst ==
  ASSUME LoopTypeOK, FailuresInOrder
  PROVE  Lapsed = 1..Cardinality(Lapsed)
<1> DEFINE n == Len(failures)
           Kept == (1..n) \ Lapsed
<1>1. n \in Nat /\ failures \in [1..n -> 0..MaxTime] /\ now \in Nat /\ FailureWindow \in Nat /\ MaxTime \in Nat
  BY FailureTypes
<1>2. Lapsed = {i \in 1..n : now - failures[i] >= FailureWindow}
  BY FailureTypes DEF Lapsed
<1>3. \A i, j \in 1..n : i <= j => failures[i] <= failures[j]
  BY FailureTypes DEF FailuresInOrder
<1> HIDE DEF n
<1>4. \E m \in 0..n : Lapsed = 1..m
  <2>1. CASE Kept = {}
    <3>1. Lapsed = 1..n
      BY <1>2, <2>1
    <3>2. QED
      BY <1>1, <3>1
  <2>2. CASE Kept # {}
    <3>1. PICK m \in Kept : \A k \in Kept : m <= k
      <4>1. Kept \in SUBSET Nat
        BY <1>1
      <4> HIDE DEF Kept
      <4>2. QED
        BY <2>2, <4>1, LeastNumber
    <3>2. \A i \in 1..n : i >= m => i \notin Lapsed
      BY <1>1, <1>2, <1>3, <3>1
    <3>3. Lapsed = 1..(m - 1)
      BY <1>1, <1>2, <3>1, <3>2
    <3>4. QED
      BY <1>1, <3>1, <3>3
  <2>3. QED
    BY <2>1, <2>2
<1>5. PICK m \in 0..n : Lapsed = 1..m
  BY <1>4
<1>6. Cardinality(1..m) = m
  <2>1. 1 \in Int /\ m \in Int /\ m >= 0
    BY <1>1
  <2>2. Cardinality(1..m) = IF 1 > m THEN 0 ELSE m - 1 + 1
    BY <2>1, FS_Interval
  <2>3. QED
    BY <2>1, <2>2
<1>7. QED
  BY <1>5, <1>6

(* Hence Recent is the filter of the code, in the order of the code. *)
LEMMA RecentAreNotLapsed ==
  ASSUME LoopTypeOK, FailuresInOrder
  PROVE  /\ \A i \in 1..Len(Recent) : now - Recent[i] < FailureWindow
         /\ \A i \in DOMAIN failures : now - failures[i] < FailureWindow => i > Cardinality(Lapsed)
<1> DEFINE n == Len(failures)
           c == Cardinality(Lapsed)
<1>1. n \in Nat /\ failures \in [1..n -> 0..MaxTime] /\ now \in Nat /\ FailureWindow \in Nat /\ MaxTime \in Nat
  BY FailureTypes
<1>2. Lapsed = {i \in 1..n : now - failures[i] >= FailureWindow} /\ DOMAIN failures = 1..n
  BY FailureTypes DEF Lapsed
<1>3. Lapsed = 1..c /\ c \in 0..n
  BY LapsedComeFirst, RecentTypes
<1>4. Len(Recent) = n - c /\ \A i \in 1..Len(Recent) : Recent[i] = failures[c + i]
  BY RecentTypes
<1> HIDE DEF n, c
<1>5. \A i \in 1..n : i <= c <=> now - failures[i] >= FailureWindow
  <2>1. \A i \in 1..n : i \in Lapsed <=> now - failures[i] >= FailureWindow
    BY <1>2
  <2>2. \A i \in 1..n : i \in Lapsed <=> i <= c
    BY <1>1, <1>3
  <2>3. QED
    BY <2>1, <2>2
<1>6. ASSUME NEW i \in 1..Len(Recent) PROVE now - Recent[i] < FailureWindow
  <2>1. c + i \in 1..n /\ ~(c + i <= c) /\ Recent[i] = failures[c + i]
    BY <1>1, <1>3, <1>4
  <2>2. ~(now - failures[c + i] >= FailureWindow)
    BY <1>5, <2>1
  <2>3. failures[c + i] \in Int
    BY <1>1, <2>1
  <2>4. QED
    BY <1>1, <2>1, <2>2, <2>3
<1>7. ASSUME NEW i \in DOMAIN failures, now - failures[i] < FailureWindow PROVE i > c
  BY <1>1, <1>2, <1>3, <1>5, <1>7
<1>8. QED
  BY <1>6, <1>7 DEF c

-----------------------------------------------------------------------------
(* Nothing has run yet.                                                    *)
LEMMA LoopInvInit == LoopInit => LoopIndInv
<1> SUFFICES ASSUME LoopInit PROVE LoopIndInv
  OBVIOUS
<1> USE LimitsAssumption
<1>1. failures \in Seq(0..MaxTime) /\ Len(failures) = 0 /\ DOMAIN failures = {}
  BY EmptySeq DEF LoopInit
<1>2. got \in Pictures /\ ingested \in Pictures
  BY DEF LoopInit, NoPicture, Pictures
<1>3. LoopTypeOK
  <2>1. 0 \in 0..MaxTime /\ 0 \in 0..MaxGeneration /\ 0 \in 0..BarrenLimit /\ 0 \in 0..FailureLimit
    OBVIOUS
  <2>2. active \in BOOLEAN /\ dirty \in BOOLEAN /\ noticeUp \in BOOLEAN /\ problem \in BOOLEAN /\ away \in BOOLEAN
    BY DEF LoopInit
  <2>3. Len(failures) < FailureLimit
    BY <1>1
  <2>4. QED
    BY <1>1, <1>2, <2>1, <2>2, <2>3 DEF LoopInit, LoopTypeOK
<1>4. CycleIsOfThisRun /\ OwedByCycle /\ StreakIsCounted /\ ClockIsSound
  BY DEF LoopInit, CycleIsOfThisRun, OwedByCycle, StreakIsCounted, ClockIsSound, Waiting
<1>5. FailuresAreCounted /\ FailuresInOrder
  BY <1>1 DEF LoopInit, FailuresAreCounted, FailuresInOrder
<1>6. QED
  BY <1>3, <1>4, <1>5 DEF LoopIndInv

(* The three parts of the invariant that actions touch together.           *)
CycleTypes ==
  /\ dirty \in BOOLEAN /\ pc \in Waiting \cup {"none", "away", "abandoned"} /\ mine \in 0..MaxGeneration
  /\ front \in Windows \cup {NoWindow} /\ got \in Pictures
RestTypes ==
  /\ active \in BOOLEAN /\ generation \in 0..MaxGeneration /\ ingested \in Pictures
  /\ streak \in 0..BarrenLimit /\ noticeUp \in BOOLEAN
  /\ lastProductiveAt \in 0..MaxTime /\ lastCycleAt \in 0..MaxTime
  /\ problem \in BOOLEAN /\ screen \in Windows \cup {NoWindow} /\ away \in BOOLEAN
  /\ now \in 0..MaxTime /\ lastRead \in 0..MaxTime /\ barren \in 0..BarrenLimit
CycleInv == CycleTypes /\ CycleIsOfThisRun /\ OwedByCycle
FailureInv ==
  /\ failures \in Seq(0..MaxTime) /\ Len(failures) < FailureLimit /\ faultsSeen \in 0..FailureLimit
  /\ FailuresAreCounted /\ FailuresInOrder
RestInv == RestTypes /\ StreakIsCounted /\ ClockIsSound

(* Together they are the invariant. *)
LEMMA InvParts == CycleInv' /\ FailureInv' /\ RestInv' => LoopIndInv'
BY DEF LoopIndInv, LoopTypeOK, CycleInv, CycleTypes, FailureInv, RestInv, RestTypes

(* A cycle begins in the run that goes on.                                 *)
LEMMA BeginKeeps ==
  ASSUME LoopIndInv, NEW gen \in 0..MaxGeneration, Begin(gen), active' = TRUE, generation' = gen
  PROVE  CycleInv' /\ pc' # "none"
<1>1. NoPicture \in Pictures
  BY LimitsAssumption DEF NoPicture, Pictures
<1>2. QED
  BY <1>1 DEF LoopIndInv, LoopTypeOK, CycleInv, CycleTypes, CycleIsOfThisRun, OwedByCycle, Begin, Waiting

(* Another round for the cycle in progress, or a cycle.                    *)
LEMMA TriggerKeeps ==
  ASSUME LoopIndInv, NEW gen \in 0..MaxGeneration, Trigger(gen), active' = TRUE, generation' = gen,
         pc \in Waiting => gen = generation
  PROVE  CycleInv'
<1>1. CASE pc = "none"
  BY <1>1, BeginKeeps DEF Trigger
<1>2. CASE pc # "none"
  BY <1>2 DEF Trigger, cycle, LoopIndInv, LoopTypeOK, CycleInv, CycleTypes, CycleIsOfThisRun, OwedByCycle, Waiting
<1>3. QED
  BY <1>1, <1>2

(* The end of a cycle, when the loop goes on as it is.                     *)
LEMMA EndedKeeps == ASSUME LoopIndInv, Ended, UNCHANGED run PROVE CycleInv'
<1>1. CASE dirty /\ active
  BY <1>1, BeginKeeps DEF Ended, run, LoopIndInv, LoopTypeOK
<1>2. CASE ~(dirty /\ active)
  <2>1. NoPicture \in Pictures
    BY LimitsAssumption DEF NoPicture, Pictures
  <2>2. QED
    BY <1>2, <2>1 DEF Ended, run, LoopIndInv, LoopTypeOK, CycleInv, CycleTypes, CycleIsOfThisRun, OwedByCycle, Waiting
<1>3. QED
  BY <1>1, <1>2

(* The failures when none is added.                                        *)
LEMMA FailuresKept ==
  ASSUME LoopIndInv, UNCHANGED <<failures, faultsSeen>>, now' = now
  PROVE  FailureInv'
BY DEF LoopIndInv, LoopTypeOK, FailureInv, FailuresAreCounted, FailuresInOrder
(* A run begins with none.                                                 *)
LEMMA FailuresForgotten ==
  ASSUME failures' = <<>>, faultsSeen' \in 0..FailureLimit
  PROVE  FailureInv'
<1>1. <<>> \in Seq(0..MaxTime) /\ Len(<<>>) = 0
  BY EmptySeq
<1>2. DOMAIN failures' = {}
  OBVIOUS
<1>3. QED
  BY <1>1, <1>2, LimitsAssumption DEF FailureInv, FailuresAreCounted, FailuresInOrder

-----------------------------------------------------------------------------
(* Each action keeps the invariant.                                        *)
LEMMA RunKeeps == ASSUME LoopIndInv, Start \/ StartRefused \/ Stop \/ RetryReader \/ Triggered PROVE LoopIndInv'
<1> USE LimitsAssumption
<1>1. CASE Start
  <2>1. CycleInv'
    <3>1. generation + 1 \in 0..MaxGeneration /\ (pc \in Waiting => generation + 1 = generation)
      BY <1>1 DEF Start, LoopIndInv, LoopTypeOK, CycleIsOfThisRun
    <3>2. QED
      BY <1>1, <3>1, TriggerKeeps DEF Start
  <2>2. FailureInv'
    BY <1>1, FailuresForgotten DEF Start
  <2>3. RestInv'
    BY <1>1 DEF Start, LoopIndInv, LoopTypeOK, RestInv, RestTypes, StreakIsCounted, ClockIsSound, world
  <2>4. QED
    BY <2>1, <2>2, <2>3, InvParts
<1>2. CASE StartRefused
  <2>1. CycleInv' /\ RestInv'
    BY <1>2 DEF StartRefused, LoopIndInv, LoopTypeOK, CycleInv, CycleTypes, CycleIsOfThisRun, OwedByCycle,
      RestInv, RestTypes, StreakIsCounted, ClockIsSound, run, cycle, clock, world, counts
  <2>2. QED
    BY <1>2, <2>1, FailuresKept, InvParts DEF StartRefused, world, counts
<1>3. CASE Stop
  <2>1. CycleInv'
    BY <1>3 DEF Stop, Stopping, LoopIndInv, LoopTypeOK, CycleInv, CycleTypes, CycleIsOfThisRun, OwedByCycle, Waiting
  <2>2. RestInv'
    <3>1. active' \in BOOLEAN /\ noticeUp' \in BOOLEAN
      BY <1>3 DEF Stop, Stopping
    <3>2. QED
      BY <1>3, <3>1 DEF Stop, Stopping, LoopIndInv, LoopTypeOK, RestInv, RestTypes, StreakIsCounted, ClockIsSound,
        clock, world, counts
  <2>3. QED
    BY <1>3, <2>1, <2>2, FailuresKept, InvParts DEF Stop, world, counts
<1>4. CASE RetryReader
  <2>1. CycleInv' /\ RestInv'
    BY <1>4 DEF RetryReader, LoopIndInv, LoopTypeOK, CycleInv, CycleTypes, CycleIsOfThisRun, OwedByCycle,
      RestInv, RestTypes, StreakIsCounted, ClockIsSound, run, cycle, clock, world, counts
  <2>2. QED
    BY <1>4, <2>1, FailuresKept, InvParts DEF RetryReader, world, counts
<1>5. CASE Triggered
  <2>1. CycleInv'
    BY <1>5, TriggerKeeps DEF Triggered, run, LoopIndInv, LoopTypeOK
  <2>2. RestInv'
    BY <1>5 DEF Triggered, LoopIndInv, LoopTypeOK, RestInv, RestTypes, StreakIsCounted, ClockIsSound, run, clock, world, counts
  <2>3. QED
    BY <1>5, <2>1, <2>2, FailuresKept, InvParts DEF Triggered, world, counts
<1>6. QED
  BY <1>1, <1>2, <1>3, <1>4, <1>5

(* One failure more, and those that have lapsed forgotten; at the limit    *)
(* the loop is stopped and none is left.                                   *)
LEMMA FaultKeeps == ASSUME LoopIndInv, pc \in Waiting, Fault PROVE LoopIndInv'
<1> USE LimitsAssumption
<1> DEFINE reported == Len(Recent) + 1 >= FailureLimit
<1>1. /\ Recent \in Seq(0..MaxTime) /\ Len(Recent) \in Nat /\ Len(Recent) <= Len(failures)
      /\ Len(failures) \in Nat /\ failures \in [1..Len(failures) -> 0..MaxTime] /\ DOMAIN failures = 1..Len(failures)
  BY RecentTypes, FailureTypes DEF LoopIndInv
<1>2. faultsSeen' \in 0..FailureLimit /\ (faultsSeen' = FailureLimit \/ faultsSeen' = faultsSeen + 1)
  BY DEF Fault, UpTo, LoopIndInv, LoopTypeOK
<1>3. CASE reported
  <2>1. CycleInv'
    <3>1. NoPicture \in Pictures
      BY DEF NoPicture, Pictures
    <3>2. QED
      BY <1>3, <3>1 DEF Fault, Stopping, LoopIndInv, LoopTypeOK, CycleInv, CycleTypes, CycleIsOfThisRun, OwedByCycle, Waiting
  <2>2. FailureInv'
    BY <1>2, <1>3, FailuresForgotten DEF Fault
  <2>3. RestInv'
    <3>1. active' \in BOOLEAN /\ noticeUp' \in BOOLEAN /\ problem' \in BOOLEAN
      BY <1>3 DEF Fault, Stopping
    <3>2. QED
      BY <1>3, <3>1 DEF Fault, Stopping, LoopIndInv, LoopTypeOK, RestInv, RestTypes, StreakIsCounted, ClockIsSound, world
  <2>4. QED
    BY <2>1, <2>2, <2>3, InvParts
<1>4. CASE ~reported
  <2>1. CycleInv'
    BY <1>4, EndedKeeps DEF Fault
  <2>2. FailureInv'
    <3> DEFINE k == Len(Recent)
    <3>1. now \in 0..MaxTime /\ now' = now /\ failures' = Append(Recent, now)
      BY <1>4 DEF Fault, world, LoopIndInv, LoopTypeOK
    <3>2. /\ failures' \in Seq(0..MaxTime) /\ Len(failures') = k + 1
          /\ \A i \in 1..k : failures'[i] = Recent[i]
          /\ failures'[k + 1] = now
      BY <1>1, <3>1, AppendProperties
    <3>3. DOMAIN failures' = 1..(k + 1)
      BY <3>2, LenProperties
    <3>4. Len(failures') < FailureLimit /\ Len(failures') <= faultsSeen'
      BY <1>1, <1>2, <1>4, <3>2 DEF LoopIndInv, LoopTypeOK, FailuresAreCounted
    <3>5. \A i, j \in 1..k : i <= j => Recent[i] <= Recent[j] /\ Recent[i] <= now
      <4> DEFINE c == Cardinality(Lapsed)
      <4>1. c \in 0..Len(failures) /\ k = Len(failures) - c /\ \A i \in 1..k : Recent[i] = failures[c + i]
        BY RecentTypes DEF LoopIndInv
      <4> HIDE DEF c, k
      <4>2. SUFFICES ASSUME NEW i \in 1..k, NEW j \in 1..k, i <= j
                     PROVE  failures[c + i] <= failures[c + j] /\ failures[c + i] <= now
        BY <4>1
      <4>3. c + i \in 1..Len(failures) /\ c + j \in 1..Len(failures) /\ c + i <= c + j
        BY <1>1, <4>1, <4>2
      <4>4. QED
        BY <1>1, <4>3 DEF LoopIndInv, FailuresInOrder
    <3>6. FailuresInOrder'
      <4>0. k \in Nat
        BY <1>1
      <4> HIDE DEF k
      <4>1. SUFFICES ASSUME NEW i \in 1..(k + 1), NEW j \in 1..(k + 1), i <= j
                     PROVE  failures'[i] <= now /\ failures'[i] <= failures'[j]
        BY <3>1, <3>3, <4>0 DEF FailuresInOrder
      <4>2. CASE i = k + 1
        BY <3>1, <3>2, <4>0, <4>1, <4>2
      <4>3. CASE i \in 1..k /\ j = k + 1
        BY <3>1, <3>2, <3>5, <4>3
      <4>4. CASE i \in 1..k /\ j \in 1..k
        BY <3>2, <3>5, <4>1, <4>4
      <4>5. QED
        BY <4>0, <4>1, <4>2, <4>3, <4>4
    <3>7. QED
      BY <1>2, <3>2, <3>4, <3>6 DEF FailureInv, FailuresAreCounted
  <2>3. RestInv'
    BY <1>4 DEF Fault, LoopIndInv, LoopTypeOK, RestInv, RestTypes, StreakIsCounted, ClockIsSound, run, world
  <2>4. QED
    BY <2>1, <2>2, <2>3, InvParts
<1>5. QED
  BY <1>3, <1>4

(* A barren cycle of the run that goes on.                                 *)
LEMMA BarrenKeeps == ASSUME LoopIndInv, pc \in Waiting, Barren, ingested' \in Pictures PROVE LoopIndInv'
<1>1. CycleInv'
  BY EndedKeeps DEF Barren
<1>2. FailureInv'
  BY FailuresKept DEF Barren, world
<1>3. streak' \in 0..BarrenLimit /\ barren' \in 0..BarrenLimit /\ streak' <= barren'
  BY LimitsAssumption DEF Barren, UpTo, LoopIndInv, LoopTypeOK, StreakIsCounted
<1>4. noticeUp' \in BOOLEAN /\ active'
  BY DEF Barren, run, LoopIndInv, LoopTypeOK, CycleIsOfThisRun
<1>5. RestInv'
  BY <1>3, <1>4 DEF Barren, LoopIndInv, LoopTypeOK, RestInv, RestTypes, StreakIsCounted, ClockIsSound, run, world
<1>6. QED
  BY <1>1, <1>2, <1>5, InvParts

(* A cycle that read something.                                            *)
LEMMA ProductiveKeeps == ASSUME LoopIndInv, Productive, ingested' \in Pictures PROVE LoopIndInv'
<1>1. CycleInv'
  BY EndedKeeps DEF Productive
<1>2. FailureInv'
  BY FailuresKept DEF Productive, world
<1>3. RestInv'
  <2>1. noticeUp' = FALSE /\ streak' = 0 /\ barren' = 0 /\ 0 \in 0..BarrenLimit
    BY LimitsAssumption DEF Productive
  <2>2. noticeUp' \in BOOLEAN
    BY <2>1
  <2>3. QED
    BY <2>1, <2>2 DEF Productive, LoopIndInv, LoopTypeOK, RestInv, RestTypes, StreakIsCounted, ClockIsSound, run, world
<1>4. QED
  BY <1>1, <1>2, <1>3, InvParts

(* What a cycle can meet.                                                  *)
LEMMA CycleKeeps == ASSUME LoopIndInv, Cycle PROVE LoopIndInv'
<1> USE LimitsAssumption
<1>1. CASE FrontAnswers
  <2>1. CASE Barren /\ UNCHANGED ingested
    BY <1>1, <2>1, BarrenKeeps DEF FrontAnswers, Waiting, LoopIndInv, LoopTypeOK
  <2>2. CASE /\ screen \in Allowed /\ front' = screen /\ pc' = "read"
             /\ UNCHANGED <<run, dirty, mine, got, failures, streak, noticeUp, clock, problem, world, counts, ingested>>
    <3>1. CycleInv'
      BY <1>1, <2>2 DEF FrontAnswers, LoopIndInv, LoopTypeOK, CycleInv, CycleTypes, CycleIsOfThisRun, OwedByCycle, run, world, Waiting
    <3>2. RestInv'
      BY <2>2 DEF LoopIndInv, LoopTypeOK, RestInv, RestTypes, StreakIsCounted, ClockIsSound, run, clock, world, counts
    <3>3. QED
      BY <2>2, <3>1, <3>2, FailuresKept, InvParts DEF world, counts
  <2>3. QED
    BY <1>1, <2>1, <2>2 DEF FrontAnswers
<1>2. CASE ReadAnswers
  <2>1. CASE Barren /\ UNCHANGED ingested
    BY <1>2, <2>1, BarrenKeeps DEF ReadAnswers, Waiting, LoopIndInv, LoopTypeOK
  <2>2. CASE /\ screen # NoWindow /\ pc' = "after"
             /\ got' = [window |-> screen, generation |-> generation]
             /\ UNCHANGED <<run, dirty, mine, front, failures, streak, noticeUp, clock, problem, world, counts, ingested>>
    <3>1. got' \in Pictures /\ got'.generation = generation
      BY <2>2 DEF LoopIndInv, LoopTypeOK, Pictures
    <3>2. CycleInv'
      BY <1>2, <2>2, <3>1 DEF ReadAnswers, LoopIndInv, LoopTypeOK, CycleInv, CycleTypes, CycleIsOfThisRun, OwedByCycle, run, Waiting
    <3>3. RestInv'
      BY <2>2 DEF LoopIndInv, LoopTypeOK, RestInv, RestTypes, StreakIsCounted, ClockIsSound, run, clock, world, counts
    <3>4. QED
      BY <2>2, <3>2, <3>3, FailuresKept, InvParts DEF world, counts
  <2>3. QED
    BY <1>2, <2>1, <2>2 DEF ReadAnswers
<1>3. CASE AfterAnswers
  <2>1. ingested' \in Pictures
    BY <1>3 DEF AfterAnswers, LoopIndInv, LoopTypeOK
  <2>2. QED
    BY <1>3, <2>1, BarrenKeeps, ProductiveKeeps DEF AfterAnswers, Waiting
<1>4. CASE CallFails
  BY <1>4, FaultKeeps DEF CallFails
<1>5. CASE AwayEnds
  <2>1. /\ lastProductiveAt' \in 0..MaxTime
        /\ lastProductiveAt <= lastProductiveAt' /\ lastProductiveAt' <= now
    BY <1>5 DEF AwayEnds, UpTo, LoopIndInv, LoopTypeOK, ClockIsSound
  <2>2. RestInv'
    BY <1>5, <2>1 DEF AwayEnds, LoopIndInv, LoopTypeOK, RestInv, RestTypes, StreakIsCounted, ClockIsSound, run, world, counts
  <2>3. QED
    BY <1>5, <2>2, EndedKeeps, FailuresKept, InvParts DEF AwayEnds, world, counts
<1>6. CASE AbandonedEnds
  <2>1. RestInv'
    BY <1>6 DEF AbandonedEnds, LoopIndInv, LoopTypeOK, RestInv, RestTypes, StreakIsCounted, ClockIsSound, run, world, counts
  <2>2. QED
    BY <1>6, <2>1, EndedKeeps, FailuresKept, InvParts DEF AbandonedEnds, world, counts
<1>7. QED
  BY <1>1, <1>2, <1>3, <1>4, <1>5, <1>6 DEF Cycle

(* The world: the clock only goes forward.                                 *)
LEMMA TurnsKeeps == ASSUME LoopIndInv, Turns PROVE LoopIndInv'
<1>1. CycleInv'
  BY DEF Turns, LoopIndInv, LoopTypeOK, CycleInv, CycleTypes, CycleIsOfThisRun, OwedByCycle, run, cycle
<1>2. now' \in 0..MaxTime /\ now <= now' /\ screen' \in Windows \cup {NoWindow} /\ away' \in BOOLEAN
  <2>1. away' \in BOOLEAN
    BY DEF Turns, LoopIndInv, LoopTypeOK
  <2>2. QED
    BY <2>1, LimitsAssumption DEF Turns, LoopIndInv, LoopTypeOK
<1>3. RestInv'
  BY <1>2 DEF Turns, LoopIndInv, LoopTypeOK, RestInv, RestTypes, StreakIsCounted, ClockIsSound, run, clock, counts
<1>4. FailuresInOrder'
  <2>1. failures' = failures
    BY DEF Turns
  <2>2. failures \in [1..Len(failures) -> 0..MaxTime] /\ DOMAIN failures = 1..Len(failures) /\ now \in Nat
    BY FailureTypes DEF LoopIndInv
  <2>3. \A i \in 1..Len(failures) : failures[i] <= now'
    BY <1>2, <2>2 DEF LoopIndInv, FailuresInOrder
  <2>4. QED
    BY <2>1, <2>2, <2>3 DEF LoopIndInv, FailuresInOrder
<1>5. FailureInv'
  BY <1>4 DEF Turns, LoopIndInv, LoopTypeOK, FailureInv, FailuresAreCounted, counts
<1>6. QED
  BY <1>1, <1>3, <1>5, InvParts

(* Every step keeps the invariant. *)
LEMMA LoopInvStep == LoopIndInv /\ [LoopNext]_loopVars => LoopIndInv'
<1> SUFFICES ASSUME LoopIndInv, [LoopNext]_loopVars PROVE LoopIndInv'
  OBVIOUS
<1>1. CASE UNCHANGED loopVars
  BY <1>1 DEF loopVars, run, cycle, clock, world, counts, LoopIndInv, LoopTypeOK, CycleIsOfThisRun, OwedByCycle,
    StreakIsCounted, ClockIsSound, FailuresAreCounted, FailuresInOrder
<1>2. CASE LoopNext
  BY <1>2, RunKeeps, CycleKeeps, TurnsKeeps DEF LoopNext
<1>3. QED
  BY <1>1, <1>2

(* Hence it always holds. *)
LEMMA LoopInvariance == LoopSpec => []LoopIndInv
BY LoopInvInit, LoopInvStep, PTL DEF LoopSpec

-----------------------------------------------------------------------------
(* Every variable has its type, and the loop never remembers as many       *)
(* failures as the limit, nor counts a streak beyond its own.              *)
THEOREM TypeCorrect == LoopSpec => []LoopTypeOK
<1>1. LoopIndInv => LoopTypeOK
  BY DEF LoopIndInv
<1>2. QED
  BY <1>1, LoopInvariance, PTL

(* IngestsAllowedOnly, of the run capture_loop: what reaches the pipeline  *)
(* is the picture of an allowed window, taken in the run that goes on.     *)
THEOREM OnlyAllowedIsIngested == LoopSpec => IngestsAllowedOnly
<1> DEFINE Allows == ingested' # ingested =>
             active /\ ingested'.window \in Allowed /\ ingested'.generation = generation
<1>1. LoopIndInv /\ [LoopNext]_loopVars => Allows
  <2> SUFFICES ASSUME LoopIndInv, [LoopNext]_loopVars, ingested' # ingested
               PROVE  active /\ ingested'.window \in Allowed /\ ingested'.generation = generation
    OBVIOUS
  <2>1. AfterAnswers /\ ingested' = got /\ SameWindow
    BY DEF LoopNext, loopVars, Start, StartRefused, Stop, RetryReader, Triggered, Cycle, FrontAnswers, ReadAnswers, AfterAnswers,
      CallFails, Fault, AwayEnds, AbandonedEnds, Turns
  <2>2. QED
    BY <2>1 DEF AfterAnswers, SameWindow, LoopIndInv, CycleIsOfThisRun, Waiting
<1>2. QED
  BY <1>1, LoopInvariance, PTL DEF LoopSpec, IngestsAllowedOnly

(* NoticeIsEarned, of the run capture_loop: a notice that nothing is read  *)
(* speaks of a loop that runs, and of BarrenLimit barren cycles, BarrenAfter*)
(* long, since this run last read anything; an empty chair buys the clock  *)
(* no future.                                                              *)
THEOREM NoticesAreEarned == LoopSpec => NoticeIsEarned
<1> DEFINE Earned == noticeUp' /\ ~noticeUp => barren' = BarrenLimit /\ now - lastRead >= BarrenAfter
<1>1. LoopIndInv => (noticeUp => active) /\ lastRead <= lastProductiveAt /\ lastProductiveAt <= now /\ lastCycleAt <= now
  BY DEF LoopIndInv, StreakIsCounted, ClockIsSound
<1>2. LoopIndInv' => (noticeUp' => active')
  BY DEF LoopIndInv, StreakIsCounted
<1>3. LoopIndInv /\ [LoopNext]_loopVars => Earned
  <2> SUFFICES ASSUME LoopIndInv, [LoopNext]_loopVars, noticeUp', ~noticeUp
               PROVE  barren' = BarrenLimit /\ now - lastRead >= BarrenAfter
    OBVIOUS
  <2>1. Barren
    BY DEF LoopNext, loopVars, Start, StartRefused, Stop, Stopping, RetryReader, Triggered, Cycle, FrontAnswers, ReadAnswers,
      AfterAnswers, CallFails, Fault, Productive, AwayEnds, AbandonedEnds, Turns
  <2>2. BarrenLongEnough
    BY <2>1 DEF Barren
  <2>3. QED
    BY <2>1, <2>2, LimitsAssumption DEF Barren, BarrenLongEnough, UpTo, LoopIndInv, LoopTypeOK, StreakIsCounted, ClockIsSound
<1>4. QED
  BY <1>1, <1>2, <1>3, LoopInvStep, LoopInvariance, PTL DEF LoopSpec, NoticeIsEarned

(* BlamedForThisRun, of the run capture_loop: the reader is reported only  *)
(* at the failure of a call, the FailureLimit-th of the run that goes on.  *)
THEOREM BlameIsForThisRun == LoopSpec => BlamedForThisRun
<1> DEFINE Blames == problem' /\ ~problem /\ active => faultsSeen' = FailureLimit /\ pc \in Waiting
<1>1. LoopIndInv /\ [LoopNext]_loopVars => Blames
  <2> SUFFICES ASSUME LoopIndInv, [LoopNext]_loopVars, problem', ~problem, active
               PROVE  faultsSeen' = FailureLimit /\ pc \in Waiting
    OBVIOUS
  <2>1. CallFails
    BY DEF LoopNext, loopVars, Start, StartRefused, Stop, Stopping, RetryReader, Triggered, Cycle, FrontAnswers, ReadAnswers,
      AfterAnswers, Barren, Productive, AwayEnds, AbandonedEnds, Turns
  <2>2. Len(Recent) + 1 >= FailureLimit
    BY <2>1 DEF CallFails, Fault
  <2>3. Len(Recent) \in Nat /\ Len(Recent) <= faultsSeen
    BY RecentTypes, FailureTypes DEF LoopIndInv, LoopTypeOK, FailuresAreCounted
  <2>4. QED
    BY <2>1, <2>2, <2>3, LimitsAssumption DEF CallFails, Fault, UpTo, LoopIndInv, LoopTypeOK
<1>2. QED
  BY <1>1, LoopInvariance, PTL DEF LoopSpec, BlamedForThisRun

(* The safety part of OwedRoundsBegin, of the run capture_loop: a round is *)
(* owed only while a cycle of a loop that runs goes on, so none is left    *)
(* over for a later run.                                                   *)
THEOREM OwedOnlyDuringACycle == LoopSpec => [][dirty' => active' /\ pc' # "none"]_loopVars
<1>1. LoopIndInv' => (dirty' => active' /\ pc' # "none")
  BY DEF LoopIndInv, OwedByCycle
<1>2. QED
  BY <1>1, LoopInvStep, LoopInvariance, PTL DEF LoopSpec

-----------------------------------------------------------------------------
(* The gate.  The inductive invariant: what is true while nothing has      *)
(* crossed.                                                                *)

(* A write on its way was computed from the settings that are in memory    *)
(* still, and says no more than its user may say of them.                  *)
Fits(s, c) ==
  /\ s.kind = "day" => s.next = c
  /\ s.kind = "choices" => s.of \in {None, c.owner} /\ s.next = [c EXCEPT !.by = s.of]
  /\ s.kind = "switch" => s.next.owner = c.owner /\ s.next.by = c.by /\ (s.next.on => s.of = c.owner)
  /\ s.kind = "owner" => c.owner # s.of /\ s.next.owner = s.of /\ ~s.next.on /\ s.next.by = None
  /\ s.kind = "reset" => s.of = None /\ s.next = defaultSettings
(* Only the removal of the settings is ever queued behind another write.   *)
WritesFit ==
  \A i \in 1..Len(saves) : Fits(saves[i], cur) /\ (i > 1 => saves[i].kind = "reset")
(* Settings that switch capture on are its user's word, and its choices.   *)
WordIsTheOwners == (cur.on => word = cur.owner) /\ cur.by \in {None, cur.owner}
(* A launch has not read the pool yet.                                     *)
AheadOfPool == phase = "starting" /\ poolOwner = None
(* What follows a sign-in follows the account's that is signed in.         *)
OneSignIn ==
  user # None => /\ \A v \in Users : signing[v] # "no" => v = user
                 /\ signing[user] = "pool" \/ poolOwner = user \/ AheadOfPool
Clean == (running => Wanted) /\ WritesFit /\ WordIsTheOwners /\ OneSignIn
IInv == TypeOK /\ (~crossed => Clean)

-----------------------------------------------------------------------------
(* Parts of the types.                                                     *)
DecisionTypes == running \in BOOLEAN /\ readerDown \in BOOLEAN /\ asking \in BOOLEAN
SettingsTypes == cur \in Settings /\ saves \in Seq(Saves) /\ Len(saves) <= MaxSaves + 1
PeopleTypes == user \in Account /\ poolOwner \in Account /\ word \in Account
FlagTypes == ready \in BOOLEAN /\ storage \in BOOLEAN /\ paused \in BOOLEAN /\ ticking \in BOOLEAN /\ crossed \in BOOLEAN
PlaceTypes ==
  /\ perm \in Answers /\ phase \in {"starting", "up", "stopped"} /\ deletion \in {"none", "quiet", "files"}
  /\ signing \in [Users -> {"no", "pool", "owner", "rest"}]
BoundTypes == faults \in 0..MaxFaults /\ turns \in 0..MaxTurns

(* The type invariant is its parts.                                        *)
LEMMA TypeParts ==
  /\ TypeOK <=> DecisionTypes /\ SettingsTypes /\ PeopleTypes /\ FlagTypes /\ PlaceTypes /\ BoundTypes
  /\ TypeOK' <=> DecisionTypes' /\ SettingsTypes' /\ PeopleTypes' /\ FlagTypes' /\ PlaceTypes' /\ BoundTypes'
BY DEF TypeOK, DecisionTypes, SettingsTypes, PeopleTypes, FlagTypes, PlaceTypes, BoundTypes

(* evaluate leaves the loop running only where the gate allows it.         *)
LEMMA Decided ==
  ASSUME NEW down \in BOOLEAN, NEW ask \in BOOLEAN, EvaluateWith(down, ask)
  PROVE  DecisionTypes' /\ (running' => Wanted')
<1>1. CASE running' = (CouldRun' /\ ~down) /\ readerDown' = down /\ asking' = ask
  <2>1. running' \in BOOLEAN /\ readerDown' \in BOOLEAN /\ asking' \in BOOLEAN
    BY <1>1
  <2>2. running' => CouldRun' /\ ~readerDown'
    BY <1>1
  <2>3. QED
    BY <2>1, <2>2 DEF DecisionTypes, Wanted
<1>2. CASE running' = FALSE /\ readerDown' = TRUE /\ asking' = TRUE
  BY <1>2 DEF DecisionTypes
<1>3. QED
  BY <1>1, <1>2 DEF EvaluateWith

(* The process is where it was, or past its start.                         *)
SamePlace == UNCHANGED phase \/ phase # "starting"

(* Nothing that is to be remembered changes.                               *)
LEMMA Remembered ==
  ASSUME UNCHANGED <<user, poolOwner, cur, saves, signing, word>>, SamePlace,
         WritesFit, WordIsTheOwners, OneSignIn
  PROVE  WritesFit' /\ WordIsTheOwners' /\ OneSignIn'
BY DEF WritesFit, Fits, WordIsTheOwners, OneSignIn, SamePlace, AheadOfPool

(* A step that changes only what the gate looks at, and the decision.      *)
LEMMA Carried ==
  ASSUME IInv, UNCHANGED <<user, poolOwner, cur, saves, signing, word, crossed>>, SamePlace,
         DecisionTypes', ready' \in BOOLEAN, storage' \in BOOLEAN, paused' \in BOOLEAN, ticking' \in BOOLEAN,
         PlaceTypes', BoundTypes', running' /\ ~crossed => Wanted'
  PROVE  IInv'
<1>1. /\ DecisionTypes /\ SettingsTypes /\ PeopleTypes /\ FlagTypes /\ PlaceTypes /\ BoundTypes
      /\ ~crossed => Clean
  BY TypeParts DEF IInv
<1>2. SettingsTypes' /\ PeopleTypes'
  BY <1>1 DEF SettingsTypes, PeopleTypes
<1>3. crossed' \in BOOLEAN
  BY <1>1 DEF FlagTypes
<1>4. FlagTypes'
  BY <1>3 DEF FlagTypes
<1>5. ~crossed' => Clean'
  BY <1>1, Remembered DEF Clean
<1>6. QED
  BY <1>2, <1>4, <1>5, TypeParts DEF IInv

(* A write is queued: nothing has crossed if it is the only one, and what  *)
(* it was computed from is the account's own.                              *)
LEMMA Queued ==
  ASSUME IInv, NEW kind \in Kinds, NEW next \in Settings, Update(kind, next),
         ~crossed /\ (kind = "owner" \/ ~OwnerPending) => Fits([kind |-> kind, next |-> next, of |-> user], cur)
  PROVE  /\ SettingsTypes' /\ crossed' \in BOOLEAN /\ UNCHANGED cur
         /\ ~crossed' => ~crossed /\ WritesFit'
<1> DEFINE w == [kind |-> kind, next |-> next, of |-> user]
<1>1. cur \in Settings /\ saves \in Seq(Saves) /\ user \in Account /\ MaxSaves \in Nat
  BY BoundsAssumption DEF IInv, TypeOK
<1>2. w \in Saves
  BY <1>1 DEF Saves
<1> HIDE DEF w
<1>3. /\ Len(saves) < MaxSaves /\ saves' = Append(saves, w) /\ UNCHANGED cur
      /\ crossed' = (crossed \/ saves # <<>> \/ (kind # "owner" /\ OwnerPending))
  BY DEF Update, w
<1>4. saves' \in Seq(Saves) /\ Len(saves') = Len(saves) + 1 /\ Len(saves) \in Nat
  BY <1>1, <1>2, <1>3
<1>5. SettingsTypes'
  BY <1>1, <1>3, <1>4 DEF SettingsTypes
<1>6. ASSUME ~crossed' PROVE ~crossed /\ WritesFit'
  <2>1. ~crossed /\ saves = <<>> /\ (kind = "owner" \/ ~OwnerPending)
    BY <1>3, <1>6
  <2>2. saves' = <<w>>
    BY <1>3, <2>1
  <2>3. Len(saves') = 1 /\ saves'[1] = w
    BY <2>2
  <2>4. Fits(w, cur')
    BY <1>3, <2>1 DEF w
  <2>5. WritesFit'
    BY <2>3, <2>4 DEF WritesFit
  <2>6. QED
    BY <2>1, <2>5
<1>7. crossed' \in BOOLEAN
  BY <1>3
<1>8. QED
  BY <1>3, <1>5, <1>6, <1>7

(* A step that queues a write and leaves the rest as it was, the pause and *)
(* the decision excepted.                                                  *)
LEMMA QueuedKeeps ==
  ASSUME IInv, NEW kind \in Kinds, NEW next \in Settings, Update(kind, next),
         ~crossed /\ (kind = "owner" \/ ~OwnerPending) => Fits([kind |-> kind, next |-> next, of |-> user], cur),
         UNCHANGED <<user, poolOwner, signing, word, ready, storage, ticking, perm, phase, deletion>>,
         UNCHANGED <<running, readerDown>>, asking' \in BOOLEAN, paused' \in BOOLEAN,
         paused' => paused, BoundTypes'
  PROVE  IInv'
<1>1. /\ DecisionTypes /\ SettingsTypes /\ PeopleTypes /\ FlagTypes /\ PlaceTypes /\ BoundTypes
      /\ ~crossed => Clean
  BY TypeParts DEF IInv
<1>2. /\ SettingsTypes' /\ crossed' \in BOOLEAN /\ UNCHANGED cur
      /\ ~crossed' => ~crossed /\ WritesFit'
  BY Queued
<1>3. DecisionTypes' /\ PeopleTypes' /\ PlaceTypes'
  BY <1>1 DEF DecisionTypes, PeopleTypes, PlaceTypes
<1>4. FlagTypes'
  BY <1>1, <1>2 DEF FlagTypes
<1>5. ASSUME ~crossed' PROVE Clean'
  <2>1. Clean /\ WritesFit'
    BY <1>1, <1>2, <1>5
  <2>2. WordIsTheOwners' /\ OneSignIn'
    BY <1>2, <2>1 DEF Clean, WordIsTheOwners, OneSignIn, AheadOfPool
  <2>3. running' => Wanted'
    BY <1>2, <2>1 DEF Clean, Wanted, CouldRun, NothingMissing, OwnerPending
  <2>4. QED
    BY <2>1, <2>2, <2>3 DEF Clean
<1>6. QED
  BY <1>2, <1>3, <1>4, <1>5, TypeParts DEF IInv

(* The owner's stamp fits: it never switches capture on, and the choices   *)
(* of another account are not taken over.                                  *)
LEMMA StampFits ==
  ASSUME IInv, OwnerPending
  PROVE  /\ Stamped \in Settings
         /\ ~crossed => Fits([kind |-> "owner", next |-> Stamped, of |-> user], cur)
<1>1. cur \in Settings /\ user \in Account /\ user # None /\ cur.owner # user
  BY DEF IInv, TypeOK, OwnerPending
<1>2. CASE cur.owner = None
  <2>1. Stamped = [cur EXCEPT !.owner = user, !.on = FALSE]
    BY <1>2 DEF Stamped
  <2>2. /\ Stamped \in Settings /\ Stamped.owner = user /\ ~Stamped.on /\ Stamped.by = cur.by
    BY <1>1, <2>1 DEF Settings
  <2>3. ~crossed => cur.by = None
    BY <1>2 DEF IInv, Clean, WordIsTheOwners
  <2>4. QED
    BY <1>1, <2>2, <2>3 DEF Fits
<1>3. CASE cur.owner # None
  <2>1. Stamped = [on |-> FALSE, owner |-> user, by |-> None]
    BY <1>3 DEF Stamped
  <2>2. Stamped \in Settings /\ Stamped.owner = user /\ ~Stamped.on /\ Stamped.by = None
    BY <1>1, <2>1 DEF Settings, Account
  <2>3. QED
    BY <1>1, <2>2 DEF Fits
<1>4. QED
  BY <1>2, <1>3

-----------------------------------------------------------------------------
(* A launch over the files an earlier one left.                            *)
LEMMA InvInit == Init => IInv
<1> SUFFICES ASSUME Init PROVE IInv
  OBVIOUS
<1>1. DecisionTypes
  BY DEF Init, DecisionTypes
<1>2. SettingsTypes /\ PeopleTypes
  <2>1. cur \in Settings /\ user \in Account /\ poolOwner \in Account
    BY DEF Init, Settings, Account
  <2>2. word \in Account
    BY <2>1 DEF Init, Settings, Account
  <2>3. saves \in Seq(Saves) /\ Len(saves) <= MaxSaves + 1
    BY BoundsAssumption DEF Init
  <2>4. QED
    BY <2>1, <2>2, <2>3 DEF SettingsTypes, PeopleTypes
<1>3. FlagTypes
  BY DEF Init, FlagTypes
<1>4. PlaceTypes
  BY DEF Init, PlaceTypes, Launching
<1>5. BoundTypes
  BY BoundsAssumption DEF Init, BoundTypes
<1>6. Clean
  <2>1. ~running /\ WritesFit
    BY DEF Init, WritesFit
  <2>2. WordIsTheOwners
    BY DEF Init, WordIsTheOwners
  <2>3. OneSignIn
    BY DEF Init, OneSignIn, Launching, AheadOfPool
  <2>4. QED
    BY <2>1, <2>2, <2>3 DEF Clean
<1>7. QED
  BY <1>1, <1>2, <1>3, <1>4, <1>5, <1>6, TypeParts DEF IInv

(* What the user's calls leave of the bounds.                              *)
LEMMA TurnTypes == ASSUME IInv, Turn PROVE BoundTypes'
BY BoundsAssumption DEF IInv, TypeOK, Turn, BoundTypes

(* The switch.                                                             *)
LEMMA SetCaptureKeeps == ASSUME IInv, NEW on \in BOOLEAN, SetCapture(on) PROVE IInv'
<1> DEFINE next == [cur EXCEPT !.on = on]
<1>1. cur \in Settings /\ asking \in BOOLEAN
  BY DEF IInv, TypeOK
<1>2. next \in Settings /\ next.owner = cur.owner /\ next.by = cur.by /\ next.on = on
  BY <1>1 DEF Settings
<1>3. /\ Update("switch", next) /\ paused' = FALSE /\ (on => user # None /\ ~OwnerPending)
      /\ UNCHANGED <<user, poolOwner, signing, word, ready, storage, ticking, perm, phase, deletion>>
      /\ UNCHANGED <<running, readerDown, asking>>
  BY DEF SetCapture, NothingMissing, decision, life
<1> HIDE DEF next
<1>4. Fits([kind |-> "switch", next |-> next, of |-> user], cur)
  BY <1>2, <1>3 DEF Fits, OwnerPending
<1>5. BoundTypes'
  BY TurnTypes DEF SetCapture
<1>6. "switch" \in Kinds /\ asking' \in BOOLEAN /\ paused' \in BOOLEAN /\ (paused' => paused)
  BY <1>1, <1>3 DEF Kinds
<1>7. QED
  BY <1>2, <1>3, <1>4, <1>5, <1>6, QueuedKeeps

(* The user's choices, and the day the review prompt writes.               *)
LEMMA UpdateSettingsKeeps == ASSUME IInv, UpdateSettings PROVE IInv'
<1>1. cur \in Settings /\ asking \in BOOLEAN /\ paused \in BOOLEAN /\ user \in Account
  BY DEF IInv, TypeOK
<1>2. /\ UNCHANGED <<running, readerDown, asking, paused>>
      /\ UNCHANGED <<user, poolOwner, signing, word, ready, storage, ticking, perm, phase, deletion>>
  BY DEF UpdateSettings, decision, inputs, life
<1>3. BoundTypes'
  BY TurnTypes DEF UpdateSettings
<1>4. CASE Update("choices", [cur EXCEPT !.by = user])
  <2>1. [cur EXCEPT !.by = user] \in Settings /\ "choices" \in Kinds
    BY <1>1 DEF Settings, Kinds
  <2>2. ~OwnerPending => Fits([kind |-> "choices", next |-> [cur EXCEPT !.by = user], of |-> user], cur)
    BY <1>2 DEF Fits, OwnerPending
  <2>3. QED
    BY <1>1, <1>2, <1>3, <1>4, <2>1, <2>2, QueuedKeeps
<1>5. CASE Update("day", cur)
  <2>1. "day" \in Kinds /\ Fits([kind |-> "day", next |-> cur, of |-> user], cur)
    BY DEF Kinds, Fits
  <2>2. QED
    BY <1>1, <1>2, <1>3, <1>5, <2>1, QueuedKeeps
<1>6. QED
  BY <1>4, <1>5 DEF UpdateSettings

-----------------------------------------------------------------------------
(* A write that lands, or that the disk refuses, and what follows in the   *)
(* same turn.                                                              *)
LEMMA SettleKeeps == ASSUME IInv, NEW lands \in BOOLEAN, Settle(lands), BoundTypes' PROVE IInv'
<1> DEFINE w == Head(saves)
<1>0. /\ DecisionTypes /\ SettingsTypes /\ PeopleTypes /\ FlagTypes /\ PlaceTypes /\ BoundTypes
      /\ ~crossed => Clean
  BY TypeParts DEF IInv
<1>1. saves # <<>> /\ saves \in Seq(Saves) /\ Len(saves) <= MaxSaves + 1
  BY <1>0 DEF Settle, SettingsTypes
<1>2. /\ w \in Saves /\ saves' \in Seq(Saves) /\ Len(saves) \in Nat \ {0} /\ Len(saves') = Len(saves) - 1
      /\ w = saves[1] /\ \A i \in 1..Len(saves') : saves'[i] = saves[i + 1]
  BY <1>1 DEF Settle
<1>3. /\ cur' = (IF lands THEN w.next ELSE cur)
      /\ crossed' = (crossed \/ w.of # user \/ (~lands /\ w.kind = "switch"))
      /\ storage' = (IF w.kind = "owner" THEN ~lands ELSE storage)
      /\ word' = (CASE w.kind = "switch" -> IF w.next.on THEN w.of ELSE None
                    [] w.kind = "reset" /\ lands -> None
                    [] OTHER -> word)
      /\ deletion' = (IF w.kind = "reset" /\ ~lands THEN "none" ELSE deletion)
      /\ UNCHANGED <<user, poolOwner, ready, perm, paused, phase, ticking, signing>>
      /\ EvaluateIf(w.kind \in {"switch", "choices"} \/ storage # storage')
  BY DEF Settle, inputs
<1>4. w.kind \in Kinds /\ w.next \in Settings /\ w.of \in Account
  BY <1>2 DEF Saves
<1> HIDE DEF w
<1>5. SettingsTypes'
  <2>1. cur' \in Settings
    BY <1>0, <1>3, <1>4 DEF SettingsTypes
  <2>2. Len(saves') <= MaxSaves + 1
    BY <1>1, <1>2, BoundsAssumption
  <2>3. QED
    BY <1>2, <2>1, <2>2 DEF SettingsTypes
<1>6. PeopleTypes'
  <2>1. word' \in Account
    BY <1>0, <1>3, <1>4 DEF PeopleTypes, Account
  <2>2. QED
    BY <1>0, <1>3, <2>1 DEF PeopleTypes
<1>7. FlagTypes'
  <2>1. storage' \in BOOLEAN /\ crossed' \in BOOLEAN
    BY <1>0, <1>3 DEF FlagTypes
  <2>2. QED
    BY <1>0, <1>3, <2>1 DEF FlagTypes
<1>8. PlaceTypes'
  BY <1>0, <1>3 DEF PlaceTypes
<1>9. \/ DecisionTypes' /\ (running' => Wanted')
      \/ UNCHANGED <<running, readerDown, asking, storage>> /\ w.kind \notin {"switch", "choices"}
  <2>1. CASE w.kind \in {"switch", "choices"} \/ storage # storage'
    <3>1. EvaluateWith(readerDown, asking)
      BY <1>3, <2>1 DEF EvaluateIf, Evaluate
    <3>2. QED
      BY <1>0, <3>1, Decided DEF DecisionTypes
  <2>2. CASE ~(w.kind \in {"switch", "choices"} \/ storage # storage')
    BY <1>3, <2>2 DEF EvaluateIf, decision
  <2>3. QED
    BY <2>1, <2>2
<1>10. DecisionTypes'
  BY <1>0, <1>9 DEF DecisionTypes
<1>11. ASSUME ~crossed' PROVE Clean'
  <2>1. ~crossed /\ w.of = user /\ (lands \/ w.kind # "switch") /\ Clean
    BY <1>0, <1>3, <1>11
  <2>2. Fits(w, cur) /\ \A i \in 1..Len(saves') : saves'[i].kind = "reset" /\ Fits(saves'[i], cur)
    <3>1. Fits(saves[1], cur)
      BY <1>2, <2>1 DEF Clean, WritesFit
    <3>2. \A i \in 1..Len(saves') : i + 1 \in 1..Len(saves) /\ i + 1 > 1
      BY <1>2
    <3>3. QED
      BY <1>2, <2>1, <3>1, <3>2 DEF Clean, WritesFit
  <2>3. WritesFit'
    BY <2>2 DEF WritesFit, Fits
  <2>4. WordIsTheOwners'
    <3>1. CASE w.kind = "day" \/ (~lands /\ w.kind # "switch")
      BY <1>3, <2>1, <2>2, <3>1 DEF Fits, Clean, WordIsTheOwners
    <3>2. CASE w.kind = "choices" /\ lands
      <4>1. cur' = [cur EXCEPT !.by = w.of] /\ word' = word /\ w.of \in {None, cur.owner}
        BY <1>3, <2>2, <3>2 DEF Fits
      <4>2. cur'.on = cur.on /\ cur'.owner = cur.owner /\ cur'.by = w.of
        BY <1>0, <4>1 DEF SettingsTypes, Settings
      <4>3. QED
        BY <2>1, <4>1, <4>2 DEF Clean, WordIsTheOwners
    <3>3. CASE w.kind = "switch" /\ lands
      <4>1. cur' = w.next /\ word' = IF w.next.on THEN w.of ELSE None
        BY <1>3, <3>3
      <4>2. QED
        BY <2>1, <2>2, <3>3, <4>1 DEF Fits, Clean, WordIsTheOwners
    <3>4. CASE w.kind = "owner" /\ lands
      BY <1>3, <2>2, <3>4 DEF Fits, WordIsTheOwners
    <3>5. CASE w.kind = "reset" /\ lands
      <4>1. cur' = defaultSettings
        BY <1>3, <2>2, <3>5 DEF Fits
      <4>2. QED
        BY <4>1 DEF defaultSettings, WordIsTheOwners
    <3>6. QED
      BY <1>4, <2>1, <3>1, <3>2, <3>3, <3>4, <3>5 DEF Kinds
  <2>5. OneSignIn'
    BY <1>3, <2>1 DEF Clean, OneSignIn, AheadOfPool
  <2>6. running' => Wanted'
    <3>1. SUFFICES ASSUME running', UNCHANGED <<running, readerDown, asking, storage>>,
                          w.kind \notin {"switch", "choices"}
                   PROVE  Wanted'
      BY <1>9
    <3>2. Wanted /\ user # None /\ cur.owner = user
      BY <2>1, <3>1 DEF Clean, Wanted, CouldRun, NothingMissing, OwnerPending
    <3>3. w.kind = "day"
      BY <1>4, <2>1, <2>2, <3>1, <3>2 DEF Fits, Kinds
    <3>4. cur' = cur
      BY <1>3, <2>2, <3>3 DEF Fits
    <3>5. QED
      BY <1>3, <3>1, <3>2, <3>4 DEF Wanted, CouldRun, NothingMissing, OwnerPending
  <2>7. QED
    BY <2>3, <2>4, <2>5, <2>6 DEF Clean
<1>12. QED
  BY <1>5, <1>6, <1>7, <1>8, <1>10, <1>11, TypeParts DEF IInv

(* The two outcomes of a write.                                            *)
LEMMA WriteKeeps == ASSUME IInv, Land \/ Refused PROVE IInv'
<1>1. faults \in 0..MaxFaults /\ turns \in 0..MaxTurns
  BY DEF IInv, TypeOK
<1>2. CASE Land
  <2>1. Settle(TRUE) /\ BoundTypes'
    BY <1>1, <1>2 DEF Land, Settle, BoundTypes
  <2>2. QED
    BY <2>1, SettleKeeps
<1>3. CASE Refused
  <2>1. Settle(FALSE) /\ BoundTypes'
    BY <1>1, <1>3, BoundsAssumption DEF Refused, Settle, BoundTypes
  <2>2. QED
    BY <2>1, SettleKeeps
<1>4. QED
  BY <1>2, <1>3

-----------------------------------------------------------------------------
(* What is decided about at once: the pause, the reader, the permission,   *)
(* what else is missing; quit and the deletion's quiet parts.              *)
LEMMA GateMovesKeep ==
  ASSUME IInv, \/ Pause \/ PauseEnds \/ Retry \/ ReadyChanges \/ ReaderFails \/ PermissionAnswers
               \/ DeleteBegins \/ DeleteEnds \/ DeleteRefused \/ Quit
  PROVE  IInv'
<1>0. /\ DecisionTypes /\ FlagTypes /\ PlaceTypes /\ BoundTypes /\ (~crossed => Clean)
  BY TypeParts DEF IInv
<1>1. /\ UNCHANGED <<user, poolOwner, cur, saves, signing, word, crossed>> /\ BoundTypes'
      /\ ready' \in BOOLEAN /\ storage' \in BOOLEAN /\ paused' \in BOOLEAN /\ ticking' \in BOOLEAN
      /\ PlaceTypes'
  <2>1. CASE Pause
    <3>1. BoundTypes'
      BY <2>1, TurnTypes DEF Pause
    <3>2. QED
      BY <1>0, <2>1, <3>1 DEF Pause, SetPaused, settings, life, FlagTypes, PlaceTypes
  <2>2. CASE PauseEnds
    BY <1>0, <2>2 DEF PauseEnds, SetPaused, settings, life, bounds, FlagTypes, PlaceTypes, BoundTypes
  <2>3. CASE Retry \/ ReaderFails
    BY <1>0, <2>3 DEF Retry, ReaderFails, settings, inputs, life, bounds, FlagTypes, PlaceTypes, BoundTypes
  <2>4. CASE ReadyChanges
    BY <1>0, <2>4 DEF ReadyChanges, settings, life, bounds, FlagTypes, PlaceTypes, BoundTypes
  <2>5. CASE PermissionAnswers
    BY <1>0, <2>5 DEF PermissionAnswers, Answer, Answers, settings, life, bounds, FlagTypes, PlaceTypes, BoundTypes
  <2>7. CASE DeleteBegins
    <3>1. BoundTypes'
      BY <2>7, TurnTypes DEF DeleteBegins
    <3>2. QED
      BY <1>0, <2>7, <3>1 DEF DeleteBegins, settings, inputs, FlagTypes, PlaceTypes
  <2>8. CASE DeleteEnds
    BY <1>0, <2>8 DEF DeleteEnds, settings, inputs, bounds, FlagTypes, PlaceTypes, BoundTypes
  <2>9. CASE DeleteRefused
    BY <1>0, <2>9, BoundsAssumption DEF DeleteRefused, settings, inputs, FlagTypes, PlaceTypes, BoundTypes
  <2>10. CASE Quit
    BY <1>0, <2>10 DEF Quit, settings, inputs, bounds, FlagTypes, PlaceTypes, BoundTypes
  <2>11. QED
    BY <2>1, <2>2, <2>3, <2>4, <2>5, <2>7, <2>8, <2>9, <2>10
<1>2. DecisionTypes' /\ (running' /\ ~crossed => Wanted')
  <2>1. CASE \E down, ask \in BOOLEAN : EvaluateWith(down, ask)
    BY <2>1, Decided
  <2>2. CASE running' = FALSE /\ UNCHANGED <<readerDown, asking>>
    BY <1>0, <2>2 DEF DecisionTypes
  <2>3. CASE asking' \in BOOLEAN /\ UNCHANGED <<running, readerDown, cur, user, ready, perm, storage, phase, paused>>
    <3>1. DecisionTypes'
      BY <1>0, <2>3 DEF DecisionTypes
    <3>2. running' /\ ~crossed => Wanted'
      BY <1>0, <2>3 DEF Clean, Wanted, CouldRun, NothingMissing, OwnerPending
    <3>3. QED
      BY <3>1, <3>2
  <2>4. CASE Pause \/ PauseEnds \/ Retry \/ ReadyChanges \/ ReaderFails \/ DeleteEnds
    <3>1. \E down, ask \in BOOLEAN : EvaluateWith(down, ask)
      BY <1>0, <2>4 DEF DecisionTypes, Pause, PauseEnds, SetPaused, Retry, ReadyChanges, ReaderFails,
        DeleteEnds, Evaluate
    <3>2. QED
      BY <2>1, <3>1
  <2>5. CASE DeleteBegins \/ Quit
    BY <2>2, <2>5 DEF DeleteBegins, Quit
  <2>6. CASE DeleteRefused
    BY <1>0, <2>3, <2>6 DEF DeleteRefused, decision, settings, inputs, DecisionTypes
  <2>7. CASE PermissionAnswers
    <3>1. CASE phase = "stopped"
      BY <2>3, <2>7, <3>1 DEF PermissionAnswers, settings, life
    <3>2. CASE phase # "stopped"
      <4>1. EvaluateWith(readerDown, FALSE) /\ readerDown \in BOOLEAN
        BY <1>0, <2>7, <3>2 DEF PermissionAnswers, DecisionTypes
      <4>2. QED
        BY <2>1, <4>1
    <3>3. QED
      BY <3>1, <3>2
  <2>8. QED
    BY <2>4, <2>5, <2>6, <2>7
<1>3. SamePlace
  BY DEF Pause, PauseEnds, SetPaused, Retry, ReadyChanges, ReaderFails, PermissionAnswers, DeleteBegins, DeleteEnds,
    DeleteRefused, Quit, life, SamePlace
<1>4. QED
  BY <1>1, <1>2, <1>3, Carried

(* Start-up ends: the pool is the account's from here on.                  *)
LEMMA StartedKeeps == ASSUME IInv, Started PROVE IInv'
<1>0. /\ DecisionTypes /\ SettingsTypes /\ PeopleTypes /\ FlagTypes /\ PlaceTypes /\ BoundTypes
      /\ ~crossed => Clean
  BY TypeParts DEF IInv
<1>1. /\ phase' = "up" /\ ticking' = TRUE /\ poolOwner' \in (IF user # None THEN {user} ELSE Account)
      /\ UNCHANGED <<user, cur, saves, ready, perm, paused, storage, deletion, signing, word, crossed, faults, turns>>
      /\ EvaluateWith(readerDown, asking)
  BY DEF Started, settings, inputs, bounds, Evaluate
<1>2. DecisionTypes' /\ (running' => Wanted')
  BY <1>0, <1>1, Decided DEF DecisionTypes
<1>3. SettingsTypes' /\ FlagTypes' /\ PlaceTypes' /\ BoundTypes'
  BY <1>0, <1>1 DEF SettingsTypes, FlagTypes, PlaceTypes, BoundTypes
<1>4. PeopleTypes'
  BY <1>0, <1>1 DEF PeopleTypes
<1>5. ASSUME ~crossed' PROVE Clean'
  <2>1. Clean
    BY <1>0, <1>1, <1>5
  <2>2. WritesFit' /\ WordIsTheOwners'
    BY <1>1, <2>1 DEF Clean, WritesFit, WordIsTheOwners
  <2>3. user # None => poolOwner' = user
    BY <1>1
  <2>4. OneSignIn'
    BY <1>1, <2>1, <2>3 DEF Clean, OneSignIn
  <2>5. QED
    BY <1>2, <2>2, <2>4 DEF Clean
<1>6. QED
  BY <1>2, <1>3, <1>4, <1>5, TypeParts DEF IInv

-----------------------------------------------------------------------------
(* A sign-in lands: a loop that ran for another account has been stopped,  *)
(* or two sign-ins were under way.                                         *)
LEMMA SignInKeeps == ASSUME IInv, NEW u \in Users, SignIn(u) PROVE IInv'
<1>0. /\ DecisionTypes /\ SettingsTypes /\ PeopleTypes /\ FlagTypes /\ PlaceTypes /\ BoundTypes
      /\ ~crossed => Clean
  BY TypeParts DEF IInv
<1>1. /\ u # user /\ user' = u /\ signing' = [signing EXCEPT ![u] = "pool"]
      /\ crossed' = (crossed \/ \E v \in Users : signing[v] # "no")
      /\ UNCHANGED <<cur, saves, ready, perm, paused, storage, poolOwner, phase, deletion, ticking, word>>
      /\ IF poolOwner \notin {None, u} THEN running' = FALSE /\ UNCHANGED <<readerDown, asking>>
                                       ELSE EvaluateIf(user = None)
  BY DEF SignIn, settings, inputs, life
<1>2. SettingsTypes' /\ BoundTypes' /\ phase = "up"
  BY <1>0, <1>1, TurnTypes DEF SettingsTypes, SignIn, Turn
<1>3. PeopleTypes'
  BY <1>0, <1>1 DEF PeopleTypes, Account
<1>4. FlagTypes'
  <2>1. crossed' \in BOOLEAN
    BY <1>0, <1>1 DEF FlagTypes
  <2>2. QED
    BY <1>0, <1>1, <2>1 DEF FlagTypes
<1>5. PlaceTypes'
  BY <1>0, <1>1 DEF PlaceTypes
<1>6. \/ DecisionTypes' /\ (running' => Wanted')
      \/ UNCHANGED <<running, readerDown, asking>> /\ user # None /\ poolOwner \in {None, u}
  <2>1. CASE poolOwner \notin {None, u}
    BY <1>0, <1>1, <2>1 DEF DecisionTypes
  <2>2. CASE poolOwner \in {None, u} /\ user = None
    <3>1. EvaluateWith(readerDown, asking)
      BY <1>1, <2>2 DEF EvaluateIf, Evaluate
    <3>2. QED
      BY <1>0, <3>1, Decided DEF DecisionTypes
  <2>3. CASE poolOwner \in {None, u} /\ user # None
    BY <1>1, <2>3 DEF EvaluateIf, decision
  <2>4. QED
    BY <2>1, <2>2, <2>3
<1>7. DecisionTypes'
  BY <1>0, <1>6 DEF DecisionTypes
<1>8. ASSUME ~crossed' PROVE Clean'
  <2>1. ~crossed /\ Clean /\ \A v \in Users : signing[v] = "no"
    BY <1>0, <1>1, <1>8
  <2>2. OneSignIn'
    BY <1>0, <1>1, <2>1 DEF OneSignIn, PlaceTypes
  <2>3. WritesFit' /\ WordIsTheOwners'
    BY <1>1, <2>1 DEF Clean, WritesFit, WordIsTheOwners
  <2>4. user # None => poolOwner = user
    BY <1>0, <1>2, <2>1 DEF Clean, OneSignIn, AheadOfPool, PeopleTypes, Account
  <2>5. running' => Wanted'
    BY <1>1, <1>6, <2>4
  <2>6. QED
    BY <2>2, <2>3, <2>5 DEF Clean
<1>9. QED
  BY <1>2, <1>3, <1>4, <1>5, <1>7, <1>8, TypeParts DEF IInv

(* What follows a sign-in: first the pool, ...                             *)
LEMMA SignInPoolKeeps == ASSUME IInv, NEW u \in Users, SignInPool(u) PROVE IInv'
<1>0. /\ DecisionTypes /\ SettingsTypes /\ PeopleTypes /\ FlagTypes /\ PlaceTypes /\ BoundTypes
      /\ ~crossed => Clean
  BY TypeParts DEF IInv
<1>1. /\ signing[u] = "pool" /\ signing' = [signing EXCEPT ![u] = "owner"] /\ poolOwner' = u
      /\ UNCHANGED <<user, cur, saves, ready, perm, paused, storage, running, readerDown, asking,
                     phase, deletion, ticking, word, crossed, faults, turns>>
  BY DEF SignInPool, settings, inputs, decision, life, bounds
<1>2. SettingsTypes' /\ DecisionTypes' /\ FlagTypes' /\ BoundTypes'
  BY <1>0, <1>1 DEF SettingsTypes, DecisionTypes, FlagTypes, BoundTypes
<1>3. PeopleTypes' /\ PlaceTypes'
  BY <1>0, <1>1 DEF PeopleTypes, PlaceTypes, Account
<1>4. ASSUME ~crossed' PROVE Clean'
  <2>1. Clean
    BY <1>0, <1>1, <1>4
  <2>2. WritesFit' /\ WordIsTheOwners' /\ (running' => Wanted')
    BY <1>1, <2>1 DEF Clean, WritesFit, WordIsTheOwners, Wanted, CouldRun, NothingMissing, OwnerPending
  <2>3. OneSignIn'
    BY <1>0, <1>1, <2>1 DEF Clean, OneSignIn, AheadOfPool, PlaceTypes
  <2>4. QED
    BY <2>2, <2>3 DEF Clean
<1>5. QED
  BY <1>2, <1>3, <1>4, TypeParts DEF IInv

(* ... then the settings ...                                               *)
LEMMA SignInOwnsKeeps == ASSUME IInv, NEW u \in Users, SignInOwns(u) PROVE IInv'
<1>0. /\ DecisionTypes /\ SettingsTypes /\ PeopleTypes /\ FlagTypes /\ PlaceTypes /\ BoundTypes
      /\ ~crossed => Clean
  BY TypeParts DEF IInv
<1>1. /\ signing[u] = "owner" /\ signing' = [signing EXCEPT ![u] = "rest"]
      /\ UNCHANGED <<user, poolOwner, ready, perm, paused, phase, deletion, ticking, word, faults, turns>>
  BY DEF SignInOwns, inputs, life, bounds
<1>2. PeopleTypes' /\ PlaceTypes' /\ BoundTypes'
  BY <1>0, <1>1 DEF PeopleTypes, PlaceTypes, BoundTypes
<1>3. ~crossed => OneSignIn'
  BY <1>0, <1>1 DEF Clean, OneSignIn, AheadOfPool, PlaceTypes
<1>4. CASE ~OwnerPending /\ storage' = FALSE /\ UNCHANGED <<cur, saves, crossed>> /\ EvaluateIf(storage)
  <2>1. SettingsTypes'
    BY <1>0, <1>4 DEF SettingsTypes
  <2>2. FlagTypes'
    <3>1. storage' \in BOOLEAN
      BY <1>4
    <3>2. QED
      BY <1>0, <1>1, <1>4, <3>1 DEF FlagTypes
  <2>3. DecisionTypes' /\ (running' /\ ~crossed => Wanted')
    <3>1. CASE storage
      <4>1. EvaluateWith(readerDown, asking)
        BY <1>4, <3>1 DEF EvaluateIf, Evaluate
      <4>2. QED
        BY <1>0, <4>1, Decided DEF DecisionTypes
    <3>2. CASE ~storage
      <4>1. UNCHANGED <<running, readerDown, asking>>
        BY <1>4, <3>2 DEF EvaluateIf, decision
      <4>2. QED
        BY <1>0, <1>1, <1>4, <4>1 DEF DecisionTypes, Clean, Wanted, CouldRun, NothingMissing, OwnerPending
    <3>3. QED
      BY <3>1, <3>2
  <2>4. ~crossed => WritesFit' /\ WordIsTheOwners'
    BY <1>0, <1>1, <1>4 DEF Clean, WritesFit, WordIsTheOwners
  <2>5. ~crossed' => Clean'
    BY <1>3, <1>4, <2>3, <2>4 DEF Clean
  <2>6. QED
    BY <1>2, <2>1, <2>2, <2>3, <2>5, TypeParts DEF IInv
<1>5. CASE OwnerPending /\ Update("owner", Stamped) /\ UNCHANGED <<storage, running, readerDown, asking>>
  <2>1. /\ SettingsTypes' /\ crossed' \in BOOLEAN /\ UNCHANGED cur
        /\ ~crossed' => ~crossed /\ WritesFit'
    BY <1>5, StampFits, Queued DEF Kinds
  <2>2. FlagTypes' /\ DecisionTypes'
    BY <1>0, <1>1, <1>5, <2>1 DEF FlagTypes, DecisionTypes
  <2>3. ASSUME ~crossed' PROVE Clean'
    <3>1. Clean /\ WritesFit' /\ OneSignIn'
      BY <1>0, <1>3, <2>1, <2>3
    <3>2. WordIsTheOwners'
      BY <1>1, <2>1, <3>1 DEF Clean, WordIsTheOwners
    <3>3. running' => Wanted'
      BY <1>1, <1>5, <2>1, <3>1 DEF Clean, Wanted, CouldRun, NothingMissing, OwnerPending
    <3>4. QED
      BY <3>1, <3>2, <3>3 DEF Clean
  <2>4. QED
    BY <1>2, <2>1, <2>2, <2>3, TypeParts DEF IInv
<1>6. QED
  BY <1>4, <1>5 DEF SignInOwns, EnsureOwner, settings, decision

(* ... and the rest.                                                       *)
LEMMA SignInEndsKeeps == ASSUME IInv, NEW u \in Users, SignInEnds(u) PROVE IInv'
<1>0. /\ DecisionTypes /\ SettingsTypes /\ PeopleTypes /\ FlagTypes /\ PlaceTypes /\ BoundTypes
      /\ ~crossed => Clean
  BY TypeParts DEF IInv
<1>1. /\ signing[u] = "rest" /\ signing' = [signing EXCEPT ![u] = "no"] /\ EvaluateWith(readerDown, asking)
      /\ UNCHANGED <<user, poolOwner, cur, saves, ready, perm, paused, storage, phase, deletion, ticking, word,
                     crossed, faults, turns>>
  BY DEF SignInEnds, settings, inputs, life, bounds, Evaluate
<1>2. DecisionTypes' /\ (running' => Wanted')
  BY <1>0, <1>1, Decided DEF DecisionTypes
<1>3. SettingsTypes' /\ PeopleTypes' /\ FlagTypes' /\ BoundTypes' /\ PlaceTypes'
  BY <1>0, <1>1 DEF SettingsTypes, PeopleTypes, FlagTypes, BoundTypes, PlaceTypes
<1>4. ASSUME ~crossed' PROVE Clean'
  <2>1. Clean
    BY <1>0, <1>1, <1>4
  <2>2. WritesFit' /\ WordIsTheOwners'
    BY <1>1, <2>1 DEF Clean, WritesFit, WordIsTheOwners
  <2>3. OneSignIn'
    BY <1>0, <1>1, <2>1 DEF Clean, OneSignIn, AheadOfPool, PlaceTypes
  <2>4. QED
    BY <1>2, <2>2, <2>3 DEF Clean
<1>5. QED
  BY <1>2, <1>3, <1>4, TypeParts DEF IInv

(* The session goes, with sign-out or with the deletion of all data.       *)
LEMMA SessionGoesKeeps == ASSUME IInv, SignOut \/ DeleteSignsOut PROVE IInv'
<1>0. /\ DecisionTypes /\ SettingsTypes /\ PeopleTypes /\ FlagTypes /\ PlaceTypes /\ BoundTypes
      /\ ~crossed => Clean
  BY TypeParts DEF IInv
<1>1. /\ user' = None /\ UNCHANGED <<cur, storage, perm, phase, ticking, signing, word, crossed>>
      /\ EvaluateWith(readerDown, asking)
  BY DEF SignOut, DeleteSignsOut, settings, inputs, life, Evaluate
<1>2. DecisionTypes' /\ (running' => Wanted')
  BY <1>0, <1>1, Decided DEF DecisionTypes
<1>3. OneSignIn'
  BY <1>1 DEF OneSignIn
<1>4. CASE SignOut
  <2>1. UNCHANGED <<poolOwner, saves, ready, paused, deletion>> /\ BoundTypes'
    BY <1>4, TurnTypes DEF SignOut, settings, inputs, life
  <2>2. SettingsTypes' /\ PeopleTypes' /\ FlagTypes' /\ PlaceTypes'
    BY <1>0, <1>1, <2>1 DEF SettingsTypes, PeopleTypes, FlagTypes, PlaceTypes, Account
  <2>3. ~crossed' => WritesFit' /\ WordIsTheOwners'
    BY <1>0, <1>1, <2>1 DEF Clean, WritesFit, WordIsTheOwners
  <2>4. QED
    BY <1>2, <1>3, <2>1, <2>2, <2>3, TypeParts DEF IInv, Clean
<1>5. CASE DeleteSignsOut
  <2> DEFINE w == [kind |-> "reset", next |-> defaultSettings, of |-> None]
  <2>1. /\ deletion' = "files" /\ Len(saves) <= MaxSaves /\ paused' = FALSE /\ poolOwner' = None
        /\ ready' = FALSE /\ saves' = Append(saves, w) /\ UNCHANGED <<faults, turns>>
    BY <1>5 DEF DeleteSignsOut, bounds
  <2>2. w \in Saves /\ w.kind = "reset" /\ \A c : Fits(w, c)
    BY DEF Saves, Kinds, defaultSettings, Settings, Account, Fits
  <2> HIDE DEF w
  <2>3. /\ saves' \in Seq(Saves) /\ Len(saves') = Len(saves) + 1 /\ Len(saves) \in Nat
        /\ saves'[Len(saves) + 1] = w /\ \A i \in 1..Len(saves) : saves'[i] = saves[i]
    BY <1>0, <2>1, <2>2 DEF SettingsTypes
  <2>4. SettingsTypes'
    BY <1>0, <1>1, <2>1, <2>3, BoundsAssumption DEF SettingsTypes
  <2>5. PeopleTypes' /\ PlaceTypes' /\ BoundTypes'
    BY <1>0, <1>1, <2>1 DEF PeopleTypes, PlaceTypes, BoundTypes, Account
  <2>6. FlagTypes'
    <3>1. paused' \in BOOLEAN /\ ready' \in BOOLEAN
      BY <2>1
    <3>2. QED
      BY <1>0, <1>1, <3>1 DEF FlagTypes
  <2>7. ASSUME ~crossed' PROVE WritesFit' /\ WordIsTheOwners'
    <3>1. Clean
      BY <1>0, <1>1, <2>7
    <3>2. WordIsTheOwners'
      BY <1>1, <3>1 DEF Clean, WordIsTheOwners
    <3>3. ASSUME NEW i \in 1..Len(saves') PROVE Fits(saves'[i], cur') /\ (i > 1 => saves'[i].kind = "reset")
      <4>1. CASE i = Len(saves) + 1
        BY <2>2, <2>3, <4>1
      <4>2. CASE i \in 1..Len(saves)
        BY <1>1, <2>3, <3>1, <4>2 DEF Clean, WritesFit
      <4>3. QED
        BY <2>3, <4>1, <4>2
    <3>4. QED
      BY <3>2, <3>3 DEF WritesFit
  <2>8. QED
    BY <1>2, <1>3, <2>4, <2>5, <2>6, <2>7, TypeParts DEF IInv, Clean
<1>6. QED
  BY <1>4, <1>5

(* The tick.                                                               *)
LEMMA TickKeeps == ASSUME IInv, Tick PROVE IInv'
<1>0. /\ DecisionTypes /\ SettingsTypes /\ PeopleTypes /\ FlagTypes /\ PlaceTypes /\ BoundTypes
      /\ ~crossed => Clean
  BY TypeParts DEF IInv
<1>1. UNCHANGED <<user, poolOwner, ready, perm, paused, phase, deletion, ticking, signing, word, faults, turns>>
  BY DEF Tick, inputs, life, bounds
<1>2. PlaceTypes' /\ BoundTypes' /\ ready' \in BOOLEAN /\ paused' \in BOOLEAN /\ ticking' \in BOOLEAN
  BY <1>0, <1>1 DEF PlaceTypes, BoundTypes, FlagTypes
<1>3. CASE OwnerPending /\ Update("owner", Stamped) /\ asking' = TRUE /\ UNCHANGED <<storage, running, readerDown>>
  <2>1. /\ "owner" \in Kinds /\ asking' \in BOOLEAN /\ (paused' => paused) /\ Stamped \in Settings
        /\ ~crossed => Fits([kind |-> "owner", next |-> Stamped, of |-> user], cur)
    BY <1>1, <1>3, StampFits DEF Kinds
  <2>2. QED
    BY <1>1, <1>2, <1>3, <2>1, QueuedKeeps
<1>4. CASE storage' = FALSE /\ UNCHANGED <<cur, saves, crossed>> /\ EvaluateWith(readerDown, TRUE)
  <2>1. DecisionTypes' /\ (running' => Wanted')
    BY <1>0, <1>4, Decided DEF DecisionTypes
  <2>2. storage' \in BOOLEAN
    BY <1>4
  <2>3. QED
    BY <1>1, <1>2, <1>4, <2>1, <2>2, Carried DEF SamePlace
<1>5. CASE asking' = TRUE /\ UNCHANGED <<cur, saves, crossed, storage, running, readerDown>>
  <2>1. DecisionTypes' /\ storage' \in BOOLEAN
    BY <1>0, <1>5 DEF DecisionTypes, FlagTypes
  <2>2. running' /\ ~crossed => Wanted'
    BY <1>0, <1>1, <1>5 DEF Clean, Wanted, CouldRun, NothingMissing, OwnerPending
  <2>3. QED
    BY <1>1, <1>2, <1>5, <2>1, <2>2, Carried DEF SamePlace
<1>6. QED
  BY <1>3, <1>4, <1>5 DEF Tick, settings

(* The process ends and another is launched.                               *)
LEMMA RelaunchKeeps == ASSUME IInv, Relaunch PROVE IInv'
<1>0. /\ DecisionTypes /\ SettingsTypes /\ PeopleTypes /\ FlagTypes /\ PlaceTypes /\ BoundTypes
      /\ ~crossed => Clean
  BY TypeParts DEF IInv
<1>1. /\ UNCHANGED <<user, faults>> /\ saves' = <<>> /\ crossed' = (crossed \/ saves # <<>>)
      /\ poolOwner' = None /\ phase' = "starting" /\ signing' = Launching(user)
      /\ running' = FALSE /\ turns < MaxTurns /\ turns' = turns + 1
      /\ UNCHANGED <<cur, word>> \/ (cur' = defaultSettings /\ word' = None)
  BY DEF Relaunch
<1> defaultSettings \in Settings /\ ~defaultSettings.on /\ defaultSettings.by = None /\ None \in Account
  BY DEF defaultSettings, Settings, Account
<1>2. DecisionTypes'
  BY DEF Relaunch, DecisionTypes
<1>3. SettingsTypes' /\ PeopleTypes'
  BY <1>0, <1>1, BoundsAssumption DEF SettingsTypes, PeopleTypes
<1>4. FlagTypes'
  <2>1. crossed' \in BOOLEAN
    BY <1>0, <1>1 DEF FlagTypes
  <2>2. ready' \in BOOLEAN /\ storage' \in BOOLEAN /\ paused' \in BOOLEAN /\ ticking' \in BOOLEAN
    BY DEF Relaunch
  <2>3. QED
    BY <2>1, <2>2 DEF FlagTypes
<1>5. PlaceTypes' /\ BoundTypes'
  <2>1. PlaceTypes'
    BY <1>1 DEF Relaunch, PlaceTypes, Launching
  <2>2. BoundTypes'
    BY <1>0, <1>1, BoundsAssumption DEF BoundTypes
  <2>3. QED
    BY <2>1, <2>2
<1>6. ASSUME ~crossed' PROVE Clean'
  <2>1. Clean
    BY <1>0, <1>1, <1>6
  <2>2. WritesFit' /\ WordIsTheOwners' /\ ~running'
    BY <1>1, <2>1 DEF Clean, WritesFit, WordIsTheOwners
  <2>3. OneSignIn'
    BY <1>1 DEF OneSignIn, Launching, AheadOfPool
  <2>4. QED
    BY <2>2, <2>3 DEF Clean
<1>7. QED
  BY <1>2, <1>3, <1>4, <1>5, <1>6, TypeParts DEF IInv

-----------------------------------------------------------------------------
(* Every step keeps the invariant.                                         *)
LEMMA InvStep == IInv /\ [Next]_vars => IInv'
<1> SUFFICES ASSUME IInv, [Next]_vars PROVE IInv'
  OBVIOUS
<1>1. CASE UNCHANGED vars
  <2>1. UNCHANGED <<user, poolOwner, cur, saves, ready, readerDown, storage, perm, asking, paused, running, ticking,
                    phase, deletion, signing, word, crossed, faults, turns>>
    BY <1>1 DEF vars, settings, inputs, decision, life, bounds
  <2>2. DecisionTypes' /\ PlaceTypes' /\ BoundTypes' /\ ready' \in BOOLEAN /\ storage' \in BOOLEAN
        /\ paused' \in BOOLEAN /\ ticking' \in BOOLEAN
    BY <2>1, TypeParts DEF IInv, DecisionTypes, PlaceTypes, BoundTypes, FlagTypes
  <2>3. running' /\ ~crossed => Wanted'
    BY <2>1 DEF IInv, Clean, Wanted, CouldRun, NothingMissing, OwnerPending
  <2>4. QED
    BY <2>1, <2>2, <2>3, Carried DEF SamePlace
<1>2. CASE Land \/ Refused
  BY <1>2, WriteKeeps
<1>3. ASSUME NEW on \in BOOLEAN, SetCapture(on) PROVE IInv'
  BY <1>3, SetCaptureKeeps
<1>4. CASE UpdateSettings
  BY <1>4, UpdateSettingsKeeps
<1>5. CASE \/ Pause \/ PauseEnds \/ Retry \/ ReadyChanges \/ ReaderFails \/ PermissionAnswers
           \/ DeleteBegins \/ DeleteEnds \/ DeleteRefused \/ Quit
  BY <1>5, GateMovesKeep
<1>6. ASSUME NEW u \in Users, SignIn(u) \/ SignInPool(u) \/ SignInOwns(u) \/ SignInEnds(u) PROVE IInv'
  BY <1>6, SignInKeeps, SignInPoolKeeps, SignInOwnsKeeps, SignInEndsKeeps
<1>7. CASE SignOut \/ DeleteSignsOut
  BY <1>7, SessionGoesKeeps
<1>8. CASE Tick \/ Relaunch \/ Started
  BY <1>8, TickKeeps, RelaunchKeeps, StartedKeeps
<1>9. QED
  BY <1>1, <1>2, <1>3, <1>4, <1>5, <1>6, <1>7, <1>8 DEF Next

(* What is true while nothing has crossed, in every state.                 *)
THEOREM Invariance == Spec => []IInv
BY InvInit, InvStep, PTL DEF Spec

(* The loop never runs on after what allowed it has gone (Engine.evaluate),*)
(* for any number of accounts, updates, refusals and launches.             *)
THEOREM LoopRunsAsWanted == Spec => []GateInv
<1>1. IInv => GateInv
  BY DEF IInv, Clean, GateInv, RunsAsWanted
<1>2. QED
  BY <1>1, Invariance, PTL

(* The screen is read for the account that switched capture on itself,     *)
(* under its own choices and into its own pool (Engine.setCapture,         *)
(* ensureSettingsOwner, the flows of sign-in and deletion).                *)
THEOREM ScreenIsReadByConsent == Spec => []ReadsByConsent
<1>1. IInv => ReadsByConsent
  <2>1. SUFFICES ASSUME IInv, running, ~crossed
                 PROVE  /\ word = user /\ cur.owner = user /\ cur.by \in {None, user}
                        /\ (\A u \in Users : signing[u] # "pool") => poolOwner = user \/ AheadOfPool
    BY DEF ReadsByConsent, AheadOfPool
  <2>2. Clean /\ user # None /\ cur.on /\ cur.owner = user
    BY <2>1 DEF IInv, Clean, Wanted, CouldRun, NothingMissing, OwnerPending
  <2>3. word = user /\ cur.by \in {None, user}
    BY <2>2 DEF Clean, WordIsTheOwners
  <2>4. user \in Users
    BY <2>1, <2>2 DEF IInv, TypeOK, Account
  <2>5. (\A u \in Users : signing[u] # "pool") => poolOwner = user \/ AheadOfPool
    BY <2>2, <2>4 DEF Clean, OneSignIn
  <2>6. QED
    BY <2>2, <2>3, <2>5
<1>2. QED
  BY <1>1, Invariance, PTL
================================================================================
