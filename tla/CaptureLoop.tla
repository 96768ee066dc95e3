---------------------------- MODULE CaptureLoop -----------------------------
(***************************************************************************)
(* The capture loop of app/src/main/capture/loop.ts: when a screen is read,*)
(* what may be kept of it, when the reader is blamed, and when the app     *)
(* admits that it reads nothing.                                           *)
(*                                                                         *)
(* One cycle runs at a time.  It asks for the front window, has it read,   *)
(* asks for the front window again, and between any two of these the user  *)
(* may change window, leave, come back, or have the loop stopped and       *)
(* started.  The engine stops the loop in the same turn in which the loop  *)
(* reports a reader problem (engine.ts evaluate).                          *)
(***************************************************************************)
EXTENDS Integers, Sequences, FiniteSets

CONSTANTS
  NoWindow, Windows,
  Allowed,                       \* the windows pipeline.mayCapture allows
  FailureLimit, FailureWindow,   \* READER_FAILURE_LIMIT, READER_FAILURE_WINDOW_MS
  BarrenLimit, BarrenAfter,      \* BARREN_CYCLE_LIMIT, BARREN_AFTER_MS
  MaxTime, MaxGeneration         \* bounds: the clock; starts and stops

ASSUME WindowsAssumption == Allowed \subseteq Windows /\ NoWindow \notin Windows
ASSUME LimitsAssumption ==
  /\ FailureLimit \in Nat \ {0} /\ BarrenLimit \in Nat \ {0}
  /\ FailureWindow \in Nat /\ BarrenAfter \in Nat /\ MaxTime \in Nat /\ MaxGeneration \in Nat

VARIABLES
  active, generation, dirty,
  pc,                        \* the await the cycle is at; "none": not reading
  mine, front, got,          \* the cycle's generation, approved window, picture
  failures,                  \* when the reader failed in this run
  streak, noticeUp,          \* barren cycles in a row; whether that was said
  lastProductiveAt, lastCycleAt,
  problem,                   \* the reader problem: it blocks until the user retries
  screen, away, now,         \* the window in front, an empty chair, the clock
  lastRead,                  \* history: when the run last read something, or began
  barren, faultsSeen,        \* history: barren cycles since then; faults of the run
  ingested                   \* history: the latest picture handed to the pipeline

run     == <<active, generation>>
cycle   == <<pc, mine, front, got>>
clock   == <<lastProductiveAt, lastCycleAt>>
world   == <<screen, away, now>>
counts  == <<lastRead, barren, faultsSeen>>
loopVars == <<run, dirty, cycle, failures, streak, noticeUp, clock, problem, world, counts, ingested>>

Waiting == {"front", "read", "after"}
NoPicture == [window |-> NoWindow, generation |-> 0]
Pictures == [window : Windows \cup {NoWindow}, generation : 0..MaxGeneration]

LoopTypeOK ==
  /\ active \in BOOLEAN /\ generation \in 0..MaxGeneration /\ dirty \in BOOLEAN
  /\ pc \in Waiting \cup {"none", "away", "abandoned"} /\ mine \in 0..MaxGeneration
  /\ front \in Windows \cup {NoWindow} /\ got \in Pictures /\ ingested \in Pictures
  /\ failures \in Seq(0..MaxTime) /\ Len(failures) < FailureLimit
  /\ streak \in 0..BarrenLimit /\ noticeUp \in BOOLEAN
  /\ lastProductiveAt \in 0..MaxTime /\ lastCycleAt \in 0..MaxTime
  /\ problem \in BOOLEAN /\ screen \in Windows \cup {NoWindow} /\ away \in BOOLEAN
  /\ now \in 0..MaxTime /\ lastRead \in 0..MaxTime
  /\ barren \in 0..BarrenLimit /\ faultsSeen \in 0..FailureLimit

LoopInit ==
  /\ active = FALSE /\ generation = 0 /\ dirty = FALSE
  /\ pc = "none" /\ mine = 0 /\ front = NoWindow /\ got = NoPicture
  /\ failures = <<>> /\ streak = 0 /\ noticeUp = FALSE
  /\ lastProductiveAt = 0 /\ lastCycleAt = 0 /\ problem = FALSE
  /\ screen \in Windows \cup {NoWindow} /\ away = FALSE /\ now = 0
  /\ lastRead = 0 /\ barren = 0 /\ faultsSeen = 0 /\ ingested = NoPicture

Beyond(n, limit) == n  \* a slip: nothing stops at its limit
UpTo(n, limit) == IF n < limit THEN n ELSE limit

-----------------------------------------------------------------------------
(* trigger, in generation gen: another round once the cycle in progress is *)
(* over, or a cycle of its own.  A cycle that finds nobody at the machine  *)
(* looks at nothing.                                                       *)
Begin(gen) ==
  /\ pc' = IF away THEN "away" ELSE "front"
  /\ mine' = gen /\ dirty' = FALSE /\ front' = NoWindow /\ got' = NoPicture
Trigger(gen) == IF pc = "none" THEN Begin(gen) ELSE dirty' = TRUE /\ UNCHANGED cycle
(* A poll, or a focus change that has settled. *)
Triggered ==
  /\ active /\ Trigger(generation)
  /\ UNCHANGED <<run, failures, streak, noticeUp, clock, problem, world, counts, ingested>>

(* The cycle is over: another one at once if it was asked for meanwhile. *)
EndedAlone == pc' = "none" /\ front' = NoWindow /\ got' = NoPicture /\ UNCHANGED <<dirty, mine>>  \* a slip: no second round
Ended == IF dirty /\ active THEN Begin(generation)
         ELSE pc' = "none" /\ front' = NoWindow /\ got' = NoPicture /\ UNCHANGED <<dirty, mine>>

(* start: the subscription first; without it nothing but the problem.  A   *)
(* fresh run judges the reader, and its own reading, on what it does now.  *)
StartRefused ==
  /\ ~active /\ ~problem /\ problem' = TRUE
  /\ UNCHANGED <<run, dirty, cycle, failures, streak, noticeUp, clock, world, counts, ingested>>
StartGrudging ==  \* a slip: an earlier run's failures still count
  /\ ~active /\ ~problem /\ generation < MaxGeneration
  /\ active' = TRUE /\ generation' = generation + 1 /\ streak' = 0
  /\ lastProductiveAt' = now /\ lastCycleAt' = now /\ Trigger(generation + 1)
  /\ lastRead' = now /\ barren' = 0 /\ faultsSeen' = 0
  /\ UNCHANGED <<failures, noticeUp, problem, world, ingested>>
Start ==
  /\ ~active /\ ~problem /\ generation < MaxGeneration
  /\ active' = TRUE /\ generation' = generation + 1
  /\ failures' = <<>> /\ streak' = 0
  /\ lastProductiveAt' = now /\ lastCycleAt' = now
  /\ Trigger(generation + 1)
  /\ lastRead' = now /\ barren' = 0 /\ faultsSeen' = 0
  /\ UNCHANGED <<noticeUp, problem, world, ingested>>

(* stop: the calls in flight are given up, the notice is retracted. *)
StoppingLoudly == active' = FALSE /\ generation' = generation + 1 /\ UNCHANGED <<streak, noticeUp>>  \* a slip
Stopping ==
  /\ active' = FALSE /\ generation' = generation + 1
  /\ streak' = 0 /\ noticeUp' = FALSE
StopOwing ==  \* a slip: the round that was asked for is not forgotten
  /\ active /\ generation < MaxGeneration /\ Stopping
  /\ pc' = IF pc \in Waiting THEN "abandoned" ELSE pc
  /\ UNCHANGED <<dirty, mine, front, got, failures, clock, problem, world, counts, ingested>>
Stop ==
  /\ active /\ generation < MaxGeneration /\ Stopping
  /\ dirty' = FALSE /\ pc' = IF pc \in Waiting THEN "abandoned" ELSE pc
  /\ UNCHANGED <<mine, front, got, failures, clock, problem, world, counts, ingested>>
(* The user asks to try the reader again. *)
RetryReader ==
  /\ problem /\ problem' = FALSE
  /\ UNCHANGED <<run, dirty, cycle, failures, streak, noticeUp, clock, world, counts, ingested>>

-----------------------------------------------------------------------------
(* noteOutcome, by what the outcome says about reading.                    *)

(* The reader failed or timed out.  Failures that have lapsed are forgotten*)
(* (the oldest, the times being in the order of the clock).  At the limit  *)
(* it is reported, and the engine stops the loop.                          *)
Lapsed == {i \in DOMAIN failures : now - failures[i] >= FailureWindow}
Recent == SubSeq(failures, Cardinality(Lapsed) + 1, Len(failures))
Fault ==
  /\ faultsSeen' = UpTo(faultsSeen + 1, FailureLimit) /\ lastCycleAt' = now
  /\ IF Len(Recent) + 1 >= FailureLimit
     THEN /\ generation < MaxGeneration /\ problem' = TRUE /\ failures' = <<>> /\ Stopping
          /\ dirty' = FALSE /\ pc' = "none" /\ front' = NoWindow /\ got' = NoPicture /\ UNCHANGED mine
     ELSE /\ failures' = Append(Recent, now) /\ Ended
          /\ UNCHANGED <<run, problem, streak, noticeUp>>
  /\ UNCHANGED <<lastProductiveAt, world, lastRead, barren, ingested>>

(* Nothing came of it, by no fault of the reader.  Said once per streak,   *)
(* when it is long enough both in cycles and in time.                      *)
BarrenEitherWay == streak' = BarrenLimit \/ now - lastProductiveAt >= BarrenAfter  \* a slip
BarrenLongEnough == streak' = BarrenLimit /\ now - lastProductiveAt >= BarrenAfter
Barren ==
  /\ streak' = UpTo(streak + 1, BarrenLimit) /\ barren' = UpTo(barren + 1, BarrenLimit)
  /\ noticeUp' = (noticeUp \/ BarrenLongEnough)
  /\ lastCycleAt' = now /\ Ended
  /\ UNCHANGED <<run, failures, problem, lastProductiveAt, world, lastRead, faultsSeen>>

(* Something was read: kept, or the screen had not moved. *)
ProductiveUntimed ==  \* a slip: the streak is over, its clock is not set anew
  /\ streak' = 0 /\ noticeUp' = FALSE /\ lastCycleAt' = now
  /\ barren' = 0 /\ lastRead' = now /\ Ended
  /\ UNCHANGED <<run, failures, problem, lastProductiveAt, world, faultsSeen>>
Productive ==
  /\ streak' = 0 /\ noticeUp' = FALSE /\ lastProductiveAt' = now /\ lastCycleAt' = now
  /\ barren' = 0 /\ lastRead' = now /\ Ended
  /\ UNCHANGED <<run, failures, problem, world, faultsSeen>>

(* Nobody was there: the span since the previous cycle goes off the clock. *)
AwayEnds ==
  /\ pc = "away" /\ lastCycleAt' = now
  /\ lastProductiveAt' = UpTo(lastProductiveAt + (now - lastCycleAt), now)
  /\ Ended
  /\ UNCHANGED <<run, failures, streak, noticeUp, problem, world, counts, ingested>>
(* A cycle given up by stop() resumes, maybe in a run begun since. *)
AbandonedEnds ==
  /\ pc = "abandoned" /\ lastCycleAt' = now /\ Ended
  /\ UNCHANGED <<run, failures, streak, noticeUp, lastProductiveAt, problem, world, counts, ingested>>

-----------------------------------------------------------------------------
(* The calls of a cycle come back.  With the generation moved on, none of  *)
(* this happens: the cycle is abandoned.                                   *)
FrontAnswers ==
  /\ pc = "front"
  /\ \/ screen \notin Allowed /\ Barren /\ UNCHANGED ingested
     \/ /\ screen \in Allowed /\ front' = screen /\ pc' = "read"
        /\ UNCHANGED <<run, dirty, mine, got, failures, streak, noticeUp, clock, problem,
                       world, counts, ingested>>
(* A picture of what is in front now, which may be another window than the *)
(* one approved; or an answer that says nothing could be read.             *)
ReadAnswers ==
  /\ pc = "read"
  /\ \/ Barren /\ UNCHANGED ingested
     \/ /\ screen # NoWindow /\ pc' = "after"
        /\ got' = [window |-> screen, generation |-> generation]
        /\ UNCHANGED <<run, dirty, mine, front, failures, streak, noticeUp, clock, problem,
                       world, counts, ingested>>
(* The window must be the approved one, before and after. *)
WindowUnchanged == screen = front  \* a slip: whose picture it is goes unread
SameWindow == screen = front /\ got.window = front
AfterAnswers ==
  /\ pc = "after"
  /\ \/ ~SameWindow /\ Barren /\ UNCHANGED ingested
     \/ SameWindow /\ ingested' = got /\ (Productive \/ Barren)
CallFails == pc \in Waiting /\ Fault

(* The world: another window, the chair left or taken, the clock. *)
Turns ==
  /\ \/ \E w \in Windows \cup {NoWindow} : w # screen /\ screen' = w /\ UNCHANGED <<away, now>>
     \/ away' = ~away /\ UNCHANGED <<screen, now>>
     \/ now < MaxTime /\ now' = now + 1 /\ UNCHANGED <<screen, away>>
  /\ UNCHANGED <<run, dirty, cycle, failures, streak, noticeUp, clock, problem, counts, ingested>>

-----------------------------------------------------------------------------
Cycle == FrontAnswers \/ ReadAnswers \/ AfterAnswers \/ CallFails \/ AwayEnds \/ AbandonedEnds
LoopNext == Start \/ StartRefused \/ Stop \/ RetryReader \/ Triggered \/ Cycle \/ Turns
LoopSpec == LoopInit /\ [][LoopNext]_loopVars

(* A call of the reader answers, fails, or is given up at its deadline. *)
FairLoop == LoopSpec /\ WF_loopVars(Cycle)

-----------------------------------------------------------------------------
(* What reaches the pipeline is the picture of a window the core allows,   *)
(* taken in the run that is still going on: never one of an earlier run,   *)
(* and never one taken while another window was briefly in front.          *)
IngestsAllowedOnly ==
  [][ingested' # ingested =>
       active /\ ingested'.window \in Allowed /\ ingested'.generation = generation]_loopVars

(* A notice that nothing is read speaks of a loop that runs, and is raised *)
(* only for BarrenLimit barren cycles of this run since it last read       *)
(* anything, BarrenAfter ago or longer; time taken off the clock for an    *)
(* empty chair only makes it later, and never buys the clock a future.     *)
NoticeIsEarned ==
  /\ [][noticeUp' => active']_loopVars
  /\ [][noticeUp' /\ ~noticeUp => barren' = BarrenLimit /\ now - lastRead >= BarrenAfter]_loopVars
  /\ [][lastRead <= lastProductiveAt /\ lastProductiveAt <= now /\ lastCycleAt <= now]_loopVars

(* The reader is blamed for FailureLimit failures of the run it is in, not *)
(* for an earlier run's, and not for a call the loop gave up.              *)
BlamedForThisRun ==
  [][problem' /\ ~problem /\ active => faultsSeen' = FailureLimit /\ pc \in Waiting]_loopVars

(* Liveness: a round asked for during a cycle is owed only while that cycle*)
(* goes on - none is left over for a later run - and a reader that never   *)
(* answers does not hold it: it begins, or the loop stops.                 *)
OwedRoundsBegin ==
  /\ [][dirty' => active' /\ pc' # "none"]_loopVars
  /\ dirty ~> ~dirty
=============================================================================
