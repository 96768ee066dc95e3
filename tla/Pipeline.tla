------------------------------- MODULE Pipeline -------------------------------
(***************************************************************************)
(* The road of a read through app/src/core: the gate, the buffer of screen *)
(* text (buffer.ts), the segmenter that cuts the stream of reads into      *)
(* scenarios (scenarios/segmenter.ts), and the queue of scenarios that     *)
(* wait for the model (index.ts).                                          *)
(*                                                                         *)
(* Everything here runs to its end in one turn, extraction excepted.  What *)
(* is hard is the clock: an end of a scenario is backdated to the last     *)
(* sign of the user, text must leave in time, and one call may read the    *)
(* clock twice.  The time unit is the engine's tick (PIPELINE_TICK_MS).    *)
(*                                                                         *)
(* Bounds: MaxTime, the clock's last value; MaxReads, reads in the buffer. *)
(***************************************************************************)
EXTENDS Integers, Sequences, FiniteSets

CONSTANTS
  None,
  MaxAge,     \* BUFFER_MAX_AGE_MS
  IdleAfter, AwayAfter, MaxSpan,  \* SCENARIO_IDLE_MS, SCENARIO_AWAY_MS, SCENARIO_MAX_MS
  QueueMax,   \* EXTRACTION_QUEUE_MAX
  MaxTime, MaxReads

ASSUME LimitsAssumption ==
  /\ {AwayAfter, IdleAfter, MaxSpan, MaxAge, QueueMax} \subseteq Nat \ {0}
  /\ {MaxTime, MaxReads} \subseteq Nat
ASSUME NoneAssumption == None \notin Int

VARIABLES
  on, rules,                 \* captureOn; whether configure took the rules
  openedAt, lastActivityAt, awaySince,  \* the segmenter
  lockedSince,               \* since when the screen is locked (index.ts locked: not None)
  reads,                     \* the buffer
  queue, running, paused,    \* the scenarios waiting; the one being extracted
  now, due                   \* the clock; whether the engine's tick is due

span   == <<openedAt, lastActivityAt, awaySince, lockedSince>>
work   == <<queue, running>>
time   == <<now, due>>
vars == <<on, rules, span, reads, work, paused, time>>

Times == 0..MaxTime
(* A read: when its gate was passed, and when it was kept. *)
Reads == [asked : Times, at : Times]
Scenarios == [from : Times, to : Times, reads : SUBSET Reads]
ASSUME ScenarioAssumption == None \notin Scenarios
Locked == lockedSince # None

TypeOK ==
  /\ on \in BOOLEAN /\ rules \in BOOLEAN /\ paused \in BOOLEAN /\ due \in BOOLEAN
  /\ now \in Times /\ lastActivityAt \in Times
  /\ openedAt \in Times \cup {None} /\ awaySince \in Times \cup {None}
  /\ lockedSince \in Times \cup {None}
  /\ reads \subseteq Reads
  /\ queue \in Seq(Scenarios) /\ Len(queue) <= QueueMax /\ running \in Scenarios \cup {None}

Init ==
  /\ on = FALSE /\ rules \in BOOLEAN
  /\ openedAt = None /\ lastActivityAt = 0 /\ awaySince = None /\ lockedSince = None
  /\ reads = {}
  /\ queue = <<>> /\ running = None /\ paused = FALSE
  /\ now = 0 /\ due = FALSE

-----------------------------------------------------------------------------
(* gate: without capture, under a lock or without rules nothing is even    *)
(* noticed.  A window excluded by the user's rules begins an absence, and  *)
(* one that is allowed ends it.                                            *)
Watching == on /\ ~Locked /\ rules
(* mayCapture; and an ingest that keeps nothing: excluded by what was read *)
(* of it, not scrubbed, too short, or what the buffer kept last.           *)
Gate(verdict) ==
  /\ Watching
  /\ lastActivityAt' = now
  /\ awaySince' = (CASE verdict = "allowed" -> None
                     [] verdict = "excluded" -> IF awaySince = None THEN now ELSE awaySince
                     [] verdict = "unknown" -> awaySince)
  /\ UNCHANGED <<on, rules, openedAt, lockedSince, reads, work, paused, time>>

(* ingest of a read that is kept.  The clock is read at the gate, and again*)
(* for the buffer once the text has been scrubbed: at.  Whether the text is*)
(* another than the buffer kept last is a choice.                          *)
Remembered(at) ==
  /\ reads' = reads \cup {[asked |-> now, at |-> at]} /\ awaySince' = None
  /\ openedAt' = IF openedAt = None THEN at ELSE openedAt
  /\ now' = at /\ due' = (due \/ at # now)
  /\ UNCHANGED <<on, rules, lockedSince, work, paused>>
MayIngest(at) == Watching /\ at <= MaxTime /\ Cardinality(reads) < MaxReads
IngestUnnoticed(at) ==  \* a slip: a read that is kept is no sign of the user
  /\ MayIngest(at) /\ Remembered(at)
  /\ lastActivityAt' = IF openedAt = None THEN at ELSE lastActivityAt
Ingest(at) ==
  /\ MayIngest(at) /\ Remembered(at)
  /\ lastActivityAt' = IF openedAt = None THEN at ELSE now

-----------------------------------------------------------------------------
(* pump: the scenario at the head of the queue goes to the model, one at a *)
(* time and none while the model is paused.                                *)
Pumped(q, run, held) ==
  IF held \/ run # None \/ q = <<>> THEN [queue |-> q, running |-> run]
                                    ELSE [queue |-> Tail(q), running |-> Head(q)]

(* closeSpan: the open scenario ended at `at`, and takes its reads out of  *)
(* buf.  It is dropped if compact finds it thin (the reads it finds to say *)
(* nothing new are left in it here), and a full queue drops its oldest.    *)
(* What is left waiting and was opened before oldest is dropped too.       *)
Stale(q, oldest) == {i \in DOMAIN q : q[i].from < oldest}  \* the first ones: q is in order
Fresh(q, oldest) == SubSeq(q, Cardinality(Stale(q, oldest)) + 1, Len(q))
ReadsOf(at, buf) == {r \in buf : r.at \in openedAt..at}
WithOneMore(s) == Append(IF Len(queue) > QueueMax THEN Tail(queue) ELSE queue, s)  \* a slip
WithScenario(s) == Append(IF Len(queue) >= QueueMax THEN Tail(queue) ELSE queue, s)
HandOver(at, buf, oldest) ==
  /\ reads' = buf \ ReadsOf(at, buf)
  /\ \E q \in {queue, WithScenario([from |-> openedAt, to |-> at, reads |-> ReadsOf(at, buf)])} :
       /\ ReadsOf(at, buf) = {} => q = queue
       /\ LET next == IF q = queue THEN [queue |-> q, running |-> running]
                                   ELSE Pumped(q, running, paused)
          IN  /\ running' = next.running
              /\ queue' = Fresh(next.queue, oldest)
CloseOnce(at, buf, oldest) ==  \* a slip: the scenario stays open
  HandOver(at, buf, oldest) /\ UNCHANGED <<openedAt, awaySince>>
CloseSpan(at, buf, oldest) ==
  HandOver(at, buf, oldest) /\ openedAt' = None /\ awaySince' = None

(* segmenter.tick: where the open scenario ends now, if it does.           *)
EndsAt ==
  IF openedAt = None THEN None
  ELSE IF Locked /\ now - lockedSince > IdleAfter THEN lockedSince
  ELSE IF now - openedAt >= MaxSpan THEN now
  ELSE IF awaySince # None /\ now - awaySince >= AwayAfter THEN awaySince
  ELSE IF ~Locked /\ now - lastActivityAt >= IdleAfter THEN lastActivityAt
  ELSE None

(* The engine's tick: the buffer lets old reads go, then the scenario that *)
(* is over closes, then the queue lets old scenarios go.                   *)
AllOf(buf) == buf  \* a slip: the buffer is not looked through
Young(buf) == {r \in buf : now - r.at <= MaxAge}
Tick ==
  /\ due /\ due' = FALSE
  /\ IF EndsAt = None
     THEN /\ reads' = Young(reads)
          /\ queue' = Fresh(queue, now - MaxAge)
          /\ UNCHANGED <<openedAt, awaySince, running>>
     ELSE CloseSpan(EndsAt, Young(reads), now - MaxAge)
  /\ UNCHANGED <<on, rules, lastActivityAt, lockedSince, paused, now>>

(* Extraction ends, whatever came of it: the text goes, the next begins.   *)
Extracted ==
  /\ running # None
  /\ LET next == Pumped(queue, None, paused)
     IN  running' = next.running /\ queue' = next.queue
  /\ UNCHANGED <<on, rules, span, reads, paused, time>>

-----------------------------------------------------------------------------
(* The engine's signals.  A lock, or the machine going to sleep, is dated  *)
(* once; a second one while it lasts changes nothing.                      *)
CaptureOn == ~on /\ on' = TRUE /\ UNCHANGED <<rules, span, reads, work, paused, time>>
CaptureOff ==
  /\ on /\ on' = FALSE
  /\ IF openedAt = None THEN UNCHANGED <<openedAt, awaySince, reads, work>>
                        ELSE CloseSpan(now, reads, 0)
  /\ UNCHANGED <<rules, lastActivityAt, lockedSince, paused, time>>
LockScreen ==
  /\ ~Locked /\ lockedSince' = now
  /\ UNCHANGED <<on, rules, openedAt, lastActivityAt, awaySince, reads, work, paused, time>>
UnlockScreen ==
  /\ Locked /\ lockedSince' = None
  /\ UNCHANGED <<on, rules, openedAt, lastActivityAt, awaySince, reads, work, paused, time>>
ModelPaused ==
  ~paused /\ paused' = TRUE /\ UNCHANGED <<on, rules, span, reads, work, time>>
ModelResumedOnly ==  \* a slip: what waited is not taken up
  paused /\ paused' = FALSE /\ UNCHANGED <<on, rules, span, reads, work, time>>
ModelResumed ==
  /\ paused /\ paused' = FALSE
  /\ LET next == Pumped(queue, running, FALSE)
     IN  running' = next.running /\ queue' = next.queue
  /\ UNCHANGED <<on, rules, span, reads, time>>
(* configure takes the rules, or refuses them and leaves none. *)
Configure ==
  rules' = ~rules /\ UNCHANGED <<on, span, reads, work, paused, time>>

(* Time goes by.  The tick comes when it is due, unless the machine sleeps.*)
Elapse ==
  /\ now < MaxTime /\ (due => Locked)
  /\ now' = now + 1 /\ due' = TRUE
  /\ UNCHANGED <<on, rules, span, reads, work, paused>>

Signals ==
  CaptureOn \/ CaptureOff \/ LockScreen \/ UnlockScreen \/ ModelPaused \/ ModelResumed \/ Configure
Next ==
  \/ \E verdict \in {"allowed", "excluded", "unknown"} : Gate(verdict)
  \/ \E at \in now..now + 1 : Ingest(at)
  \/ Tick \/ Extracted \/ Signals \/ Elapse

Spec == Init /\ [][Next]_vars

-----------------------------------------------------------------------------
(* The scenarios in memory, from the first that opened: the one under      *)
(* extraction, then those that wait.                                       *)
InMemory == (IF running = None THEN <<>> ELSE <<running>>) \o queue

(* However its end was dated back (to the last activity, to the moment the *)
(* user went away, to a lock), a scenario ends after it began and holds    *)
(* reads of that time only; no two share a moment but their border; they   *)
(* wait in the order they came; the open one began after them all; and     *)
(* every read in the buffer is the open one's, to be extracted or let go   *)
(* with it - but for one whose text took so long to scrub that it is later *)
(* than its own sign of activity.                                          *)
SpansInOrder ==
  /\ \A i \in 1..Len(InMemory) :
       /\ InMemory[i].from <= InMemory[i].to /\ InMemory[i].to <= now
       /\ \A r \in InMemory[i].reads : r.at \in InMemory[i].from..InMemory[i].to
       /\ \A j \in i + 1..Len(InMemory) : InMemory[i].to <= InMemory[j].from
       /\ openedAt # None => InMemory[i].to <= openedAt
  /\ openedAt # None => openedAt <= now
  /\ \A r \in reads : r.asked = r.at => openedAt # None /\ openedAt <= r.at

(* No scenario waits while the model is free to take it.                   *)
QueueIsServed == queue # <<>> => paused \/ running # None

(* After a tick, no text older than the limit is in the buffer or waiting; *)
(* and what a tick hands to extraction is never older than that, even when *)
(* the machine slept in the middle of the scenario and no tick came.       *)
Waiting == reads \cup UNION {queue[i].reads : i \in 1..Len(queue)}
TextExpires ==
  /\ [](~due => \A r \in Waiting : now - r.at <= MaxAge)
  /\ [][running' # None /\ running' # running /\ ~due'
          => \A r \in running'.reads : now - r.at <= MaxAge]_vars
=============================================================================
