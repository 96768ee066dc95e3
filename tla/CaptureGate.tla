----------------------------- MODULE CaptureGate -----------------------------
(***************************************************************************)
(* When the screen may be read at all: the gate of app/src/main/engine.ts  *)
(* (evaluate and its conditions), the settings it looks at                 *)
(* (app/src/main/settings.ts) and the flows that change either: sign-in,   *)
(* sign-out, the switch, the pause, the permission, the tick, the deletion *)
(* of all data, quit and start-up.                                         *)
(*                                                                         *)
(* evaluate runs in one turn, so an action that ends in it decides at once.*)
(* Settings do not change in one turn: an update is computed from memory,  *)
(* written behind the updates before it, and takes memory when its write   *)
(* has landed.                                                             *)
(*                                                                         *)
(* What the gate asks of other parts (skill list, model, self-test, system *)
(* extension, pool and outbox on disk, a model that broke, settings to be  *)
(* looked at) is one condition, ready: each of them calls evaluate when it *)
(* changes.  Bounds: MaxSaves writes on their way; MaxFaults refused disk  *)
(* operations; MaxTurns calls of the user and launches.                    *)
(***************************************************************************)
EXTENDS Naturals, Sequences

CONSTANTS
  None, Users,
  MaxSaves, MaxFaults, MaxTurns

ASSUME NoneAssumption == None \notin Users
ASSUME BoundsAssumption == MaxSaves \in Nat /\ MaxFaults \in Nat /\ MaxTurns \in Nat

VARIABLES
  user, poolOwner,     \* session.userId(); whose the pool is
  cur, saves,          \* the settings in memory; the writes on their way to their file
  ready, readerDown,   \* nothing else is missing; the reader problem
  storage,             \* storageProblems has "settings"
  perm, asking,        \* the permission; a question about it is out
  paused,              \* resumeAt: "Pause for 1 hour"
  running, ticking,    \* the loop; the timers
  phase, deletion,     \* of the process; of deleteAllData
  signing,             \* per account: how far what follows its sign-in is
  word,                \* history: who last switched capture on, if it was not switched off since
  crossed,             \* history: see Update, Settle and SignIn
  faults, turns        \* the bounds' counters

settings == <<cur, saves>>
inputs   == <<ready, perm, paused>>
decision == <<running, readerDown, asking>>
life     == <<phase, deletion, ticking>>
bounds   == <<faults, turns>>
vars == <<user, poolOwner, settings, inputs, storage, decision, life, signing, word, crossed, bounds>>

Account == Users \cup {None}
(* captureOn, ownerUserId, and whose the exclusions and sites are (None:   *)
(* the defaults, or from a time when settings had no owner).               *)
Settings == [on : BOOLEAN, owner : Account, by : Account]
defaultSettings == [on |-> FALSE, owner |-> None, by |-> None]
Kinds == {"switch", "choices", "day", "owner", "reset"}
(* A write on its way: what is written, and whose session asked for it.    *)
Saves == [kind : Kinds, next : Settings, of : Account]
Answers == {"unknown", "granted", "denied"}

TypeOK ==
  /\ user \in Account /\ poolOwner \in Account /\ word \in Account
  /\ cur \in Settings /\ saves \in Seq(Saves) /\ Len(saves) <= MaxSaves + 1
  /\ ready \in BOOLEAN /\ readerDown \in BOOLEAN /\ storage \in BOOLEAN /\ asking \in BOOLEAN
  /\ paused \in BOOLEAN /\ running \in BOOLEAN /\ ticking \in BOOLEAN /\ crossed \in BOOLEAN
  /\ perm \in Answers /\ phase \in {"starting", "up", "stopped"}
  /\ deletion \in {"none", "quiet", "files"}
  /\ signing \in [Users -> {"no", "pool", "owner", "rest"}]
  /\ faults \in 0..MaxFaults /\ turns \in 0..MaxTurns

Launching(u) == [v \in Users |-> IF v = u THEN "owner" ELSE "no"]
(* A process that has just been launched, over any settings file this or   *)
(* an earlier version left: start-up has asked for the permission once, and*)
(* has not restored the pool.                                              *)
Init ==
  /\ user \in Account /\ poolOwner = None
  /\ cur \in [on : BOOLEAN, owner : {None, user}, by : {None, user}]
  /\ cur.owner = None => ~cur.on /\ cur.by = None
  /\ saves = <<>> /\ ready \in BOOLEAN /\ perm \in Answers
  /\ readerDown = FALSE /\ storage = FALSE /\ asking = FALSE /\ paused = FALSE
  /\ running = FALSE /\ ticking = FALSE /\ crossed = FALSE
  /\ phase = "starting" /\ deletion = "none" /\ signing = Launching(user)
  /\ word = (IF cur.on THEN cur.owner ELSE None)
  /\ faults = 0 /\ turns = 0

-----------------------------------------------------------------------------
(* settingsOwnerPending; blockers() is empty, the reader's problem apart;  *)
(* wouldRun.                                                               *)
OwnerPending == user # None /\ cur.owner # user
NothingMissing == user # None /\ ready /\ perm # "denied" /\ ~storage
CouldRun ==
  /\ NothingMissing /\ cur.on /\ ~OwnerPending /\ perm = "granted"
  /\ phase # "stopped" /\ ~paused
Wanted == CouldRun /\ ~readerDown

(* evaluate, once the rest of the new state is known; down and ask are the *)
(* reader problem and the question about the permission as the caller      *)
(* leaves them.  A loop that cannot subscribe to the reader does not start:*)
(* it raises the problem, and a problem asks about the permission.         *)
EvaluateWith(down, ask) ==
  \/ running' = (CouldRun' /\ ~down) /\ readerDown' = down /\ asking' = ask
  \/ /\ CouldRun' /\ ~down /\ ~running
     /\ running' = FALSE /\ readerDown' = TRUE /\ asking' = TRUE
Evaluate == EvaluateWith(readerDown, asking)
EvaluateIf(due) == IF due THEN Evaluate ELSE UNCHANGED decision

-----------------------------------------------------------------------------
(* settings.update: the next settings are this turn's with the patch, so   *)
(* an update that is computed while another is on its way undoes it.       *)
Update(kind, next) ==
  /\ Len(saves) < MaxSaves
  /\ saves' = Append(saves, [kind |-> kind, next |-> next, of |-> user])
  /\ crossed' = (crossed \/ saves # <<>> \/ (kind # "owner" /\ OwnerPending))
  /\ UNCHANGED cur

(* ensureSettingsOwner: settings without an owner are adopted, another's   *)
(* are replaced by the defaults, and in neither case is capture on.        *)
StampedWithChoices == [cur EXCEPT !.owner = user, !.on = FALSE]  \* a slip: another's choices stay
Stamped ==
  IF cur.owner = None THEN [cur EXCEPT !.owner = user, !.on = FALSE]
                      ELSE [on |-> FALSE, owner |-> user, by |-> None]
StampOnItsWay == \E i \in 1..Len(saves) : saves[i].kind = "owner" /\ saves[i].next = Stamped
EnsureOwner ==
  \/ /\ ~OwnerPending /\ storage' = FALSE /\ UNCHANGED <<settings, crossed>> /\ EvaluateIf(storage)
  \/ OwnerPending /\ Update("owner", Stamped) /\ UNCHANGED <<storage, decision>>

(* The write at the head of the queue lands, or the disk refuses it, and   *)
(* the caller goes on in the same turn: the switch and the choices evaluate*)
(* either way, the day of the review prompt never, the owner's stamp when  *)
(* it raises or clears the storage problem.  Only the stamp and the        *)
(* deletion say that the disk refused; setCapture answers ok.              *)
Settle(lands) ==
  LET s == Head(saves)
  IN  /\ saves # <<>> /\ saves' = Tail(saves)
      /\ cur' = (IF lands THEN s.next ELSE cur)
      /\ crossed' = (crossed \/ s.of # user \/ (~lands /\ s.kind = "switch"))
      /\ storage' = (IF s.kind = "owner" THEN ~lands ELSE storage)
      /\ word' = (CASE s.kind = "switch" -> IF s.next.on THEN s.of ELSE None
                    [] s.kind = "reset" /\ lands -> None
                    [] OTHER -> word)
      /\ deletion' = (IF s.kind = "reset" /\ ~lands THEN "none" ELSE deletion)
      /\ UNCHANGED <<user, poolOwner, inputs, phase, ticking, signing, turns>>
      /\ EvaluateIf(s.kind \in {"switch", "choices"} \/ storage # storage')
Land    == Settle(TRUE) /\ UNCHANGED faults
Refused == Settle(FALSE) /\ faults < MaxFaults /\ faults' = faults + 1

-----------------------------------------------------------------------------
(* What the user does: each is one of MaxTurns.                            *)
Turn == phase = "up" /\ turns < MaxTurns /\ turns' = turns + 1 /\ UNCHANGED faults

(* setCapture.  Switching on is refused while anything is missing; the     *)
(* pause ends at once, the switch when its write has landed.               *)
SetCapture(on) ==
  /\ Turn /\ (on => NothingMissing /\ ~readerDown /\ ~OwnerPending /\ perm # "unknown")
  /\ paused' = FALSE /\ Update("switch", [cur EXCEPT !.on = on])
  /\ UNCHANGED <<user, poolOwner, decision, ready, storage, perm, life, signing, word>>
(* updateSettings, of the exclusions and sites, with or without somebody   *)
(* signed in; and the day the review prompt writes for who is.             *)
UpdateSettings ==
  /\ Turn
  /\ \/ Update("choices", [cur EXCEPT !.by = user])
     \/ user # None /\ Update("day", cur)
  /\ UNCHANGED <<user, poolOwner, decision, inputs, storage, life, signing, word>>
SetPaused(to) ==
  /\ paused' = to
  /\ UNCHANGED <<user, poolOwner, settings, ready, storage, perm, life, signing, word, crossed>>
  /\ Evaluate
Pause     == Turn /\ cur.on /\ SetPaused(TRUE)
PauseEnds == phase = "up" /\ paused /\ SetPaused(FALSE) /\ UNCHANGED bounds
(* retry of the reader, and what the other parts report: each evaluates.   *)
Retry ==
  /\ phase = "up" /\ readerDown
  /\ UNCHANGED <<user, poolOwner, settings, inputs, storage, life, signing, word, crossed, bounds>>
  /\ EvaluateWith(FALSE, asking)
ReadyChanges ==
  /\ phase # "stopped" /\ ready' = ~ready
  /\ UNCHANGED <<user, poolOwner, settings, storage, perm, paused, life, signing, word, crossed, bounds>>
  /\ Evaluate
ReaderFails ==
  /\ running
  /\ UNCHANGED <<user, poolOwner, settings, inputs, storage, life, signing, word, crossed, bounds>>
  /\ EvaluateWith(TRUE, TRUE)

(* A sign-in lands.  A session where there was none is announced, and the  *)
(* gate evaluates; one that takes another's place is not.  A pool of       *)
(* another account is dropped and given up, and the loop stopped for it.   *)
SignIn(u) ==
  /\ Turn /\ u # user /\ signing[u] = "no"
  /\ user' = u /\ signing' = [signing EXCEPT ![u] = "pool"]
  /\ crossed' = (crossed \/ \E v \in Users : signing[v] # "no")
  /\ UNCHANGED <<settings, inputs, storage, poolOwner, life, word>>
  /\ IF poolOwner \notin {None, u} THEN running' = FALSE /\ UNCHANGED <<readerDown, asking>>
                                   ELSE EvaluateIf(user = None)
SignInPool(u) ==
  /\ signing[u] = "pool" /\ signing' = [signing EXCEPT ![u] = "owner"] /\ poolOwner' = u
  /\ UNCHANGED <<user, settings, inputs, storage, decision, life, word, crossed, bounds>>
(* ... the settings become this account's (start-up does this too), ...    *)
SignInOwns(u) ==
  /\ signing[u] = "owner" /\ signing' = [signing EXCEPT ![u] = "rest"]
  /\ UNCHANGED <<user, poolOwner, inputs, life, word, bounds>>
  /\ EnsureOwner
(* ... and when that is done and the skill list asked for, evaluate.       *)
SignInEnds(u) ==
  /\ signing[u] = "rest" /\ signing' = [signing EXCEPT ![u] = "no"]
  /\ ~\E i \in 1..Len(saves) : saves[i].kind = "owner"
  /\ UNCHANGED <<user, poolOwner, settings, inputs, storage, life, word, crossed, bounds>>
  /\ Evaluate
SignOutUnseen ==  \* a slip: the session goes and the gate does not hear of it
  /\ Turn /\ user # None /\ user' = None
  /\ UNCHANGED <<poolOwner, settings, inputs, storage, decision, life, signing, word, crossed>>
SignOut ==
  /\ Turn /\ user # None /\ user' = None
  /\ UNCHANGED <<poolOwner, settings, inputs, storage, life, signing, word, crossed>>
  /\ Evaluate

-----------------------------------------------------------------------------
(* What happens by itself.  The tick asks about the permission, one        *)
(* question at a time, and tries the owner's stamp again.  (A stamp that is*)
(* on its way is not queued a second time: it would write the same.)       *)
TickOwnsIfTold == storage /\ ~StampOnItsWay  \* a slip: the tick looks at the disk's refusals only
TickOwns == (storage \/ OwnerPending) /\ ~StampOnItsWay
Tick ==
  /\ ticking
  /\ UNCHANGED <<user, poolOwner, inputs, life, signing, word, bounds>>
  /\ IF TickOwns /\ OwnerPending /\ Len(saves) < MaxSaves
     THEN Update("owner", Stamped) /\ asking' = TRUE /\ UNCHANGED <<storage, running, readerDown>>
     ELSE IF TickOwns /\ ~OwnerPending
     THEN storage' = FALSE /\ UNCHANGED <<settings, crossed>> /\ EvaluateWith(readerDown, TRUE)
     ELSE asking' = TRUE /\ UNCHANGED <<settings, crossed, storage, running, readerDown>>
(* refreshPermission: no answer leaves the last one standing.              *)
AnyAnswer == {perm, "granted", "denied", "other"}  \* a slip: an answer is taken as it comes
Answer == {perm, "granted", "denied"}
PermissionNews ==  \* a slip: an answer like the last one decides nothing
  /\ asking /\ perm' \in Answer
  /\ UNCHANGED <<user, poolOwner, settings, ready, storage, paused, life, signing, word, crossed, bounds>>
  /\ IF phase = "stopped" \/ perm' = perm
     THEN perm' = perm /\ asking' = FALSE /\ UNCHANGED <<running, readerDown>>
     ELSE EvaluateWith(readerDown, FALSE)
PermissionAnswers ==
  /\ asking /\ perm' \in Answer
  /\ UNCHANGED <<user, poolOwner, settings, ready, storage, paused, life, signing, word, crossed, bounds>>
  /\ IF phase = "stopped" THEN perm' = perm /\ asking' = FALSE /\ UNCHANGED <<running, readerDown>>
                          ELSE EvaluateWith(readerDown, FALSE)
(* Start-up ends: behind the stamp the pool is read, and the turn in which *)
(* it has been sets the timers going.  Another account's pool is not       *)
(* restored; with nobody signed in the pool is whoever's it was.  (A file  *)
(* whose removal the disk refuses ends the process instead: Relaunch.)     *)
(* While the pool is read, what followed the stamp (SignInEnds: the skill  *)
(* list has come) may have started the loop.                               *)
Started ==
  /\ phase = "starting" /\ saves = <<>> /\ \A u \in Users : signing[u] \notin {"pool", "owner"}
  /\ phase' = "up" /\ ticking' = TRUE
  /\ poolOwner' \in (IF user # None THEN {user} ELSE Account)
  /\ UNCHANGED <<user, settings, inputs, storage, deletion, signing, word, crossed, bounds>>
  /\ Evaluate

(* deleteAllData: timers and loop stop; then the pause, the pool and the   *)
(* session go and the removal of the settings is queued; when every file   *)
(* is gone the timers start again.  A removal the disk refuses ends it.    *)
DeleteBegins ==
  /\ Turn /\ deletion = "none" /\ deletion' = "quiet" /\ ticking' = FALSE /\ running' = FALSE
  /\ UNCHANGED <<user, poolOwner, settings, inputs, storage, readerDown, asking, phase, signing,
                 word, crossed>>
DeleteSignsOut ==
  /\ deletion = "quiet" /\ deletion' = "files" /\ Len(saves) <= MaxSaves
  /\ paused' = FALSE /\ poolOwner' = None /\ user' = None /\ ready' = FALSE
  /\ saves' = Append(saves, [kind |-> "reset", next |-> defaultSettings, of |-> None])
  /\ UNCHANGED <<cur, storage, perm, phase, ticking, signing, word, crossed, bounds>>
  /\ Evaluate
DeleteEnds ==
  /\ deletion = "files" /\ ~\E i \in 1..Len(saves) : saves[i].kind = "reset"
  /\ deletion' = "none" /\ ticking' = (phase # "stopped") /\ storage' = FALSE
  /\ UNCHANGED <<user, poolOwner, settings, inputs, phase, signing, word, crossed, bounds>>
  /\ EvaluateWith(FALSE, asking)
DeleteRefused ==
  /\ deletion = "files" /\ ~\E i \in 1..Len(saves) : saves[i].kind = "reset"
  /\ deletion' = "none" /\ faults < MaxFaults /\ faults' = faults + 1
  /\ UNCHANGED <<user, poolOwner, settings, inputs, storage, decision, phase, ticking, signing, word,
                 crossed, turns>>

Quit ==
  /\ phase = "up" /\ phase' = "stopped" /\ ticking' = FALSE /\ running' = FALSE
  /\ UNCHANGED <<user, poolOwner, settings, inputs, storage, readerDown, asking, deletion, signing,
                 word, crossed, bounds>>
(* The process ends, after quit or by a crash, and another is launched: a  *)
(* settings file it cannot read is replaced by the defaults, which are to  *)
(* be looked at first.                                                     *)
Relaunch ==
  /\ turns < MaxTurns /\ turns' = turns + 1 /\ UNCHANGED <<user, faults>>
  /\ saves' = <<>> /\ crossed' = (crossed \/ saves # <<>>)
  /\ poolOwner' = None /\ perm' \in Answers
  /\ \/ UNCHANGED <<cur, word>> /\ ready' \in BOOLEAN
     \/ cur' = defaultSettings /\ word' = None /\ ready' = FALSE
  /\ readerDown' = FALSE /\ storage' = FALSE /\ asking' = FALSE /\ paused' = FALSE
  /\ running' = FALSE /\ ticking' = FALSE
  /\ phase' = "starting" /\ deletion' = "none" /\ signing' = Launching(user)

Next ==
  \/ Land \/ Refused
  \/ \E on \in BOOLEAN : SetCapture(on)
  \/ UpdateSettings \/ Pause \/ PauseEnds \/ Retry \/ ReadyChanges \/ ReaderFails
  \/ \E u \in Users : SignIn(u) \/ SignInPool(u) \/ SignInOwns(u) \/ SignInEnds(u)
  \/ SignOut \/ Tick \/ PermissionAnswers \/ Started
  \/ DeleteBegins \/ DeleteSignsOut \/ DeleteEnds \/ DeleteRefused \/ Quit \/ Relaunch

Spec == Init /\ [][Next]_vars

(* Writes and answers come back, timers fire while they are set, and a     *)
(* sign-in goes on to its end.                                             *)
Fairness ==
  /\ WF_vars(Land \/ Refused) /\ WF_vars(PermissionAnswers) /\ WF_vars(Tick)
  /\ \A u \in Users : WF_vars(SignInPool(u) \/ SignInOwns(u) \/ SignInEnds(u))
FairSpec == Spec /\ Fairness

-----------------------------------------------------------------------------
(* The screen is read for the account that switched capture on itself and  *)
(* under no other account's exclusions, into a pool of its own, whatever   *)
(* sign-ins, resets, stamps, crashes and deletions came in between - as    *)
(* long as no write of the settings crossed another one or an account      *)
(* change, and no two sign-ins were under way at once.  At a launch the    *)
(* loop may be ahead of the pool: then the pool is nobody's yet.           *)
ReadsByConsent ==
  running /\ ~crossed =>
    /\ word = user /\ cur.owner = user /\ cur.by \in {None, user}
    /\ (\A u \in Users : signing[u] # "pool")
         => poolOwner = user \/ (phase = "starting" /\ poolOwner = None)

(* The loop never runs on after what allowed it has gone: every change of  *)
(* the switch, the owner, the pause, the permission, the reader or what    *)
(* else is missing is followed by a decision in the same turn.             *)
RunsAsWanted == running /\ ~crossed => Wanted
GateInv == TypeOK /\ RunsAsWanted

(* A gate that missed something - an update that crossed another, a prompt *)
(* day that landed, a stamp nobody evaluated - is put right while the      *)
(* timers run, each tick asking about the permission and each answer       *)
(* deciding; and settings that are another account's, or nobody's, become  *)
(* the signed-in account's, whatever the disk refused before.              *)
CaptureFollows ==
  /\ (ticking /\ running # Wanted) ~> (running = Wanted \/ ~ticking)
  /\ (ticking /\ OwnerPending) ~> (~OwnerPending \/ ~ticking)

(* What the code says and does not keep.  "You switch it on and off        *)
(* yourself. It never runs unless you started it."                         *)
(* (app/src/renderer/copy.ts:10): switched off, and the exclusions changed *)
(* before that write has landed, capture is on again.                      *)
OnlyIfStarted == running => word = user
(* "Exclusions, excluded sites, the review time and the capture switch     *)
(* belong to one account." (engine.ts:423): what an account changes before *)
(* the settings are stamped with it goes into the settings of the one      *)
(* before, which reads by them when it signs in again.                     *)
ChoicesAreOnesOwn == running => cur.by \in {None, user}
=============================================================================
