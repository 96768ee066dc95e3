-------------------------- MODULE SessionStoreProofs --------------------------
(***************************************************************************)
(* Theorems about SessionStore, for every set of accounts, any number of   *)
(* calls in flight and every bound.                                        *)
(***************************************************************************)
EXTENDS SessionStore, SequenceTheorems, TLAPS

(* Appending a task and dropping the first one keep the queue's type. *)
LEMMA QueueTypes ==
  ASSUME queue \in Seq(Tasks)
  PROVE  /\ \A t \in Tasks : Append(queue, t) \in Seq(Tasks)
         /\ queue # <<>> => /\ Tail(queue) \in Seq(Tasks) /\ Head(queue) \in Tasks
                            /\ \A t \in Tasks : Append(Tail(queue), t) \in Seq(Tasks)
OBVIOUS

LEMMA TaskTypes ==
  ASSUME NEW by \in Calls \cup {Refresher}
  PROVE  /\ RemoveTask(by) \in Tasks
         /\ \A s \in Sessions : SaveTask(by, s) \in Tasks
BY DEF RemoveTask, SaveTask, Tasks, TasksOf

(* Queueing a removal or a session for a call or for the refresh. *)
LEMMA QueueRemove ==
  ASSUME queue \in Seq(Tasks), NEW c \in Calls, Queue(RemoveTask(c))
  PROVE  queue' \in Seq(Tasks)
BY QueueTypes, TaskTypes DEF Queue
LEMMA QueueSave ==
  ASSUME queue \in Seq(Tasks), NEW by \in Calls \cup {Refresher}, NEW s \in Sessions,
         Queue(SaveTask(by, s))
  PROVE  queue' \in Seq(Tasks)
BY QueueTypes, TaskTypes DEF Queue

(* A task that ends leaves a session or nothing on disk. *)
LEMMA DiskStepTypes ==
  ASSUME TypeOK, NEW by, NEW worked \in BOOLEAN, DiskStep(by, worked)
  PROVE  /\ file' \in Sessions \cup {None}
         /\ Tail(queue) \in Seq(Tasks)
         /\ \A t \in Tasks : Append(Tail(queue), t) \in Seq(Tasks)
<1>1. queue \in Seq(Tasks) /\ queue # <<>>
  BY DEF TypeOK, DiskStep
<1>2. After(Head(queue)) \in Sessions \cup {None}
  BY <1>1, QueueTypes DEF After, Tasks, TasksOf
<1>3. QED
  BY <1>1, <1>2, QueueTypes DEF TypeOK, DiskStep, FileAfter

-----------------------------------------------------------------------------
LEMMA TypeInit == Init => TypeOK
<1> USE BoundsAssumption
<1> SUFFICES ASSUME Init PROVE TypeOK
  OBVIOUS
<1>1. file \in Sessions \cup {None} /\ issued \in 1..MaxToken
  BY DEF Init, Sessions
<1>2. refresh \in Refreshes
  BY DEF Init, Launch, NoRefresh, Refreshes
<1>3. pc \in [Calls -> Pcs]
  BY DEF Init, Launch, Pcs
<1>4. queue \in Seq(Tasks)
  BY DEF Init, Launch
<1>5. since \in [Calls -> 0..MaxGeneration] /\ with \in [Calls -> Sessions \cup {None}]
      /\ calm \in [Calls -> BOOLEAN]
  BY DEF Init, Launch
<1>6. generation \in 0..MaxGeneration
  BY DEF Init, Launch
<1>7. QED
  BY <1>1, <1>2, <1>3, <1>4, <1>5, <1>6 DEF Init, Launch, TypeOK
-----------------------------------------------------------------------------
(* What every action is made of keeps the types it touches.                *)
LEMMA StartTypes ==
  ASSUME TypeOK, NEW c \in Calls, NEW label \in Pcs, NEW gen \in 0..MaxGeneration,
         Start(c, label, gen)
  PROVE  /\ pc' \in [Calls -> Pcs] /\ since' \in [Calls -> 0..MaxGeneration]
         /\ with' \in [Calls -> Sessions \cup {None}] /\ calm' \in [Calls -> BOOLEAN]
<1>1. Calm \in BOOLEAN
  BY DEF Calm, SigningIn
<1>2. QED
  BY <1>1 DEF TypeOK, Start, Goto

LEMMA JoinTypes ==
  ASSUME TypeOK, NEW s \in Sessions \cup {None}, JoinRefresh(s)
  PROVE  refresh' \in Refreshes
<1>1. SigningIn \in BOOLEAN
  BY DEF SigningIn
<1>2. QED
  BY <1>1 DEF TypeOK, JoinRefresh, Refreshes

(* The token the server issues makes a session of any account's, new or renewed. *)
LEMMA IssuedSessions ==
  ASSUME TypeOK, issued < MaxToken
  PROVE  /\ issued + 1 \in 1..MaxToken
         /\ \A u \in Users : [user |-> u, token |-> issued + 1, account |-> TRUE] \in Sessions
         /\ \A s \in Sessions : [s EXCEPT !.token = issued + 1] \in Sessions
<1>1. issued + 1 \in 1..MaxToken
  BY BoundsAssumption DEF TypeOK
<1>2. QED
  BY <1>1 DEF Sessions

LEMMA FilledType ==
  ASSUME TypeOK, SessionsHeld, NEW c \in Calls, pc[c] \in {"fill.asking", "fill.saving"}
  PROVE  Filled(c) \in Sessions
<1>1. with[c] \in Sessions
  BY DEF TypeOK, SessionsHeld
<1>2. QED
  BY <1>1 DEF Filled, Sessions

LEMMA TypeStep == TypeOK /\ SessionsHeld /\ [Next]_vars => TypeOK'
<1> SUFFICES ASSUME TypeOK, SessionsHeld, [Next]_vars PROVE TypeOK'
  OBVIOUS
<1> USE BoundsAssumption, CallsAssumption
<1>1. CASE UNCHANGED vars
  BY <1>1 DEF vars, callVars, TypeOK
<1>2. ASSUME NEW c \in Calls, Resume(c) PROVE TypeOK'
  <2>1. refresh' \in Refreshes
    <3>1. NoRefresh \in Refreshes
      BY DEF NoRefresh, Refreshes
    <3>2. QED
      BY <1>2, <3>1 DEF TypeOK, Resume
  <2>2. CASE SignsOutOver(c, refresh.answer)
    BY <1>2, <2>1, <2>2, QueueRemove DEF TypeOK, Resume, SetNull, Held, Goto, Pcs
  <2>3. CASE ~SignsOutOver(c, refresh.answer)
    <3>1. refresh.session \in Sessions \cup {None}
      BY DEF TypeOK, Refreshes
    <3>2. with' \in [Calls -> Sessions \cup {None}] /\ since' \in [Calls -> 0..MaxGeneration]
      <4>1. /\ with' \in {with, [with EXCEPT ![c] = refresh.session]}
            /\ since' \in {since, [since EXCEPT ![c] = generation]}
        BY <1>2, <2>3 DEF Resume
      <4>2. QED
        BY <3>1, <4>1 DEF TypeOK
    <3>3. pc' \in [Calls -> Pcs]
      BY <1>2, <2>3 DEF TypeOK, Resume, Goto, Pcs
    <3>4. QED
      BY <1>2, <2>1, <2>3, <3>2, <3>3 DEF TypeOK, Resume
  <2>4. QED
    BY <2>2, <2>3
<1>3. ASSUME NEW c \in Calls, Asks(c) PROVE TypeOK'
  <2>1. CASE Restore(c)
    BY <2>1, StartTypes, QueueRemove DEF TypeOK, Restore, Pcs
  <2>2. CASE SignOut(c)
    <3>1. generation + 1 \in 0..MaxGeneration
      BY <2>2 DEF TypeOK, SignOut
    <3>2. QED
      BY <2>2, <3>1, StartTypes, QueueRemove DEF TypeOK, SignOut, SetNull, Pcs
  <2>3. CASE SignIn(c)
    <3>1. generation + 1 \in 0..MaxGeneration
      BY <2>3 DEF TypeOK, SignIn
    <3>2. QED
      BY <2>3, <3>1, StartTypes, QueueRemove DEF TypeOK, SignIn, Pcs, SignInPcs
  <2>4. CASE RefreshIfDue(c)
    BY <2>4, StartTypes, JoinTypes DEF TypeOK, RefreshIfDue, Pcs, WaitPcs
  <2>5. CASE CallStarts(c)
    BY <2>5, StartTypes DEF TypeOK, CallStarts, Pcs, CallPcs
  <2>6. QED
    BY <1>3, <2>1, <2>2, <2>3, <2>4, <2>5 DEF Asks
<1>4. ASSUME NEW c \in Calls, Answers(c) PROVE TypeOK'
  <2>1. ASSUME NEW u \in Users, SignInAnswered(c, u) PROVE TypeOK'
    <3>1. [user |-> u, token |-> issued + 1, account |-> TRUE] \in Sessions
      BY <2>1, IssuedSessions DEF SignInAnswered
    <3>2. QED
      BY <2>1, <3>1, QueueSave
         DEF TypeOK, SignInAnswered, Goto, Pcs, SignInPcs
  <2>2. CASE SignInRefused(c)
    BY <2>2 DEF TypeOK, SignInRefused, Goto, Held, Pcs
  <2>3. CASE FillAnswered(c)
    <3>1. Filled(c) \in Sessions
      BY <2>3, FilledType DEF FillAnswered
    <3>2. QED
      BY <2>3, <3>1, QueueSave DEF TypeOK, FillAnswered, Goto, Held, Pcs
  <2>4. CASE FillRefused(c)
    BY <2>4 DEF TypeOK, FillRefused, Goto, Held, Pcs
  <2>5. CASE CallEnds(c)
    BY <2>5 DEF TypeOK, CallEnds, Goto, Held, Pcs
  <2>6. CASE CallRefused(c)
    BY <2>6, JoinTypes DEF TypeOK, CallRefused, Goto, Held, Pcs, WaitPcs
  <2>7. CASE RetryRefused(c)
    BY <2>7, QueueRemove DEF TypeOK, RetryRefused, SetNull, Goto, Held, Pcs
  <2>8. CASE ProfileAnswered(c)
    <3>1. with[c] \in Sessions
      BY <2>8 DEF ProfileAnswered, TypeOK, SessionsHeld
    <3>2. QED
      BY <2>8, <3>1, QueueSave DEF TypeOK, ProfileAnswered, Goto, Held, Pcs, SignInPcs
  <2>9. QED
    BY <1>4, <2>1, <2>2, <2>3, <2>4, <2>5, <2>6, <2>7, <2>8 DEF Answers
<1>5. ASSUME NEW c \in Calls, Reads(c) PROVE TypeOK'
  <2>1. CASE ReadFile(c)
    <3>1. \A read \in {file, None} : [with EXCEPT ![c] = read] \in [Calls -> Sessions \cup {None}]
      BY DEF TypeOK
    <3>2. with' \in [Calls -> Sessions \cup {None}]
      BY <2>1, <3>1 DEF ReadFile
    <3>3. QED
      BY <2>1, <3>2 DEF TypeOK, ReadFile, Goto, Pcs
  <2>2. CASE Purge(c)
    BY <2>2 DEF TypeOK, Purge, Goto, Held, Pcs
  <2>3. ASSUME NEW expiring \in BOOLEAN, Restored(c, expiring) PROVE TypeOK'
    BY <2>3, JoinTypes DEF TypeOK, Restored, Goto, Held, Pcs, WaitPcs
  <2>4. QED
    BY <1>5, <2>1, <2>2, <2>3 DEF Reads
<1>6. CASE SignInWithoutCipher
  BY <1>6 DEF TypeOK, SignInWithoutCipher, callVars
<1>7. CASE RefreshAnswers
  <2>1. CASE RefreshAnswered
    <3>1. refresh.session \in Sessions /\ issued + 1 \in 1..MaxToken
      BY <2>1, IssuedSessions DEF TypeOK, SessionsHeld, RefreshAnswered, Refreshes
    <3>2. [refresh.session EXCEPT !.token = issued + 1] \in Sessions
      BY <2>1, <3>1, IssuedSessions DEF RefreshAnswered
    <3>3. queue' \in Seq(Tasks)
      BY <2>1, <3>2, QueueSave DEF TypeOK, RefreshAnswered, Settle
    <3>4. refresh' \in Refreshes
      BY <2>1, <3>2 DEF TypeOK, RefreshAnswered, Settle, Refreshes
    <3>5. QED
      BY <2>1, <3>1, <3>3, <3>4 DEF TypeOK, RefreshAnswered, callVars
  <2>2. ASSUME NEW answer \in Firm \cup {"failed"}, RefreshRefused(answer) PROVE TypeOK'
    BY <2>2 DEF TypeOK, RefreshRefused, Settle, Refreshes, Firm, callVars
  <2>3. QED
    BY <1>7, <2>1, <2>2 DEF RefreshAnswers
<1>8. ASSUME NEW worked \in BOOLEAN, DiskEnds(worked) PROVE TypeOK'
  <2>1. CASE RefreshSaved(worked)
    <3>1. refresh' \in Refreshes
      BY <2>1 DEF TypeOK, RefreshSaved, Settle, Refreshes
    <3>2. stored' \in Sessions \cup {None}
      BY <2>1 DEF TypeOK, RefreshSaved, Refreshes
    <3>3. QED
      BY <2>1, <3>1, <3>2, DiskStepTypes DEF TypeOK, RefreshSaved, callVars
  <2>2. ASSUME NEW c \in Calls, Removed(c, worked) PROVE TypeOK'
    BY <2>2, DiskStepTypes DEF TypeOK, Removed, Goto, Held, Pcs
  <2>3. ASSUME NEW c \in Calls, SignOutCleaned(c, worked) PROVE TypeOK'
    BY <2>3, DiskStepTypes, TaskTypes DEF TypeOK, SignOutCleaned, Goto, Held, Pcs
  <2>4. ASSUME NEW c \in Calls, SignInCleaned(c, worked) PROVE TypeOK'
    BY <2>4, DiskStepTypes DEF TypeOK, SignInCleaned, Goto, Held, Pcs, SignInPcs
  <2>5. ASSUME NEW c \in Calls, SignInSaved(c, worked) PROVE TypeOK'
    BY <2>5, DiskStepTypes DEF TypeOK, SignInSaved, Goto, Held, Pcs
  <2>6. ASSUME NEW c \in Calls, RestoreCleaned(c, worked) PROVE TypeOK'
    BY <2>6, DiskStepTypes DEF TypeOK, RestoreCleaned, Goto, Held, Pcs
  <2>7. ASSUME NEW c \in Calls, FillSaved(c, worked) PROVE TypeOK'
    <3>1. Filled(c) \in Sessions
      BY <2>7, FilledType DEF FillSaved
    <3>2. QED
      BY <2>7, <3>1, DiskStepTypes DEF TypeOK, FillSaved, Goto, Held, Pcs
  <2>8. QED
    BY <1>8, <2>1, <2>2, <2>3, <2>4, <2>5, <2>6, <2>7 DEF DiskEnds
<1>9. CASE Crash
  <2>1. NoRefresh \in Refreshes
    BY DEF NoRefresh, Refreshes
  <2>2. pc' \in [Calls -> Pcs]
    BY <1>9 DEF Crash, Pcs
  <2>3. queue' \in Seq(Tasks)
    BY <1>9 DEF Crash
  <2>4. /\ since' \in [Calls -> 0..MaxGeneration] /\ calm' \in [Calls -> BOOLEAN]
        /\ with' \in [Calls -> Sessions \cup {None}] /\ generation' \in 0..MaxGeneration
    BY <1>9 DEF Crash
  <2>5. QED
    BY <1>9, <2>1, <2>2, <2>3, <2>4 DEF TypeOK, Crash
<1>10. QED
  BY <1>1, <1>2, <1>3, <1>4, <1>5, <1>6, <1>7, <1>8, <1>9 DEF Next

-----------------------------------------------------------------------------
(* A call, a refresh and a sign-in being saved always have a session.     *)
LEMMA SessionsHeldStep ==
  ASSUME TypeOK, SessionsHeld, [Next]_vars
  PROVE  SessionsHeld'
<1> USE DEF SessionsHeld, TypeOK, Goto, Held, Start, Settling, Settle,
            JoinRefresh, Refreshing, Retries, Fills, SetNull, SessionPcs,
            CallPcs
<1>1. CASE UNCHANGED vars
  BY <1>1 DEF vars, callVars
<1>2. ASSUME NEW c \in Calls, Resume(c) PROVE SessionsHeld'
  <2>1. refresh.session # None
    BY <1>2 DEF Resume
  <2>2. refresh' = refresh \/ refresh'.pc = "none"
    BY <1>2 DEF Resume, NoRefresh
  <2>3. CASE SignsOutOver(c, refresh.answer)
    BY <1>2, <2>1, <2>2, <2>3 DEF Resume
  <2>4. CASE ~SignsOutOver(c, refresh.answer)
    BY <1>2, <2>1, <2>2, <2>4 DEF Resume
  <2>5. QED
    BY <2>3, <2>4
<1>3. ASSUME ~Settling, NEW c \in Calls, Asks(c) PROVE SessionsHeld'
  <2>1. CASE Restore(c)
    BY <1>3, <2>1 DEF Restore
  <2>2. CASE SignOut(c)
    BY <1>3, <2>2 DEF SignOut
  <2>3. CASE SignIn(c)
    BY <1>3, <2>3 DEF SignIn
  <2>4. CASE RefreshIfDue(c)
    BY <1>3, <2>4 DEF RefreshIfDue
  <2>5. CASE CallStarts(c)
    BY <1>3, <2>5 DEF CallStarts
  <2>6. QED
    BY <1>3, <2>1, <2>2, <2>3, <2>4, <2>5 DEF Asks
<1>4. ASSUME ~Settling, NEW c \in Calls, Answers(c) PROVE SessionsHeld'
  <2>1. ASSUME NEW u \in Users, SignInAnswered(c, u) PROVE SessionsHeld'
    <3>1. [user |-> u, token |-> issued + 1, account |-> TRUE] # None
      BY <2>1, IssuedSessions, NoneAssumption DEF SignInAnswered
    <3>2. QED
      BY <2>1, <3>1 DEF SignInAnswered
  <2>2. CASE SignInRefused(c)
    BY <1>4, <2>2 DEF SignInRefused
  <2>3. CASE FillAnswered(c)
    BY <1>4, <2>3 DEF FillAnswered
  <2>4. CASE FillRefused(c)
    BY <1>4, <2>4 DEF FillRefused
  <2>5. CASE CallEnds(c)
    BY <1>4, <2>5 DEF CallEnds
  <2>6. CASE CallRefused(c)
    BY <1>4, <2>6 DEF CallRefused
  <2>7. CASE RetryRefused(c)
    BY <1>4, <2>7 DEF RetryRefused
  <2>8. CASE ProfileAnswered(c)
    BY <2>8 DEF ProfileAnswered
  <2>9. QED
    BY <1>4, <2>1, <2>2, <2>3, <2>4, <2>5, <2>6, <2>7, <2>8 DEF Answers
<1>5. ASSUME ~Settling, NEW c \in Calls, Reads(c) PROVE SessionsHeld'
  <2>1. CASE ReadFile(c)
    BY <2>1 DEF ReadFile
  <2>2. CASE Purge(c)
    BY <2>2 DEF Purge
  <2>3. ASSUME NEW expiring \in BOOLEAN, Restored(c, expiring) PROVE SessionsHeld'
    BY <1>5, <2>3 DEF Restored
  <2>4. QED
    BY <1>5, <2>1, <2>2, <2>3 DEF Reads
<1>6. CASE SignInWithoutCipher
  BY <1>6 DEF SignInWithoutCipher, callVars
<1>7. CASE RefreshAnswers
  <2>1. CASE RefreshAnswered
    <3>1. [refresh.session EXCEPT !.token = issued + 1] # None
      <4>1. refresh.session \in Sessions
        BY <2>1 DEF RefreshAnswered, Refreshes
      <4>2. [refresh.session EXCEPT !.token = issued + 1] \in Sessions
        BY <2>1, <4>1, IssuedSessions DEF RefreshAnswered
      <4>3. QED
        BY <4>2, NoneAssumption
    <3>2. refresh'.session # None
      BY <2>1, <3>1 DEF RefreshAnswered, Refreshes
    <3>3. QED
      BY <2>1, <3>2 DEF RefreshAnswered, callVars
  <2>2. ASSUME NEW answer, RefreshRefused(answer) PROVE SessionsHeld'
    BY <2>2 DEF RefreshRefused, callVars
  <2>3. QED
    BY <1>7, <2>1, <2>2 DEF RefreshAnswers
<1>8. ASSUME ~Settling, NEW worked \in BOOLEAN, DiskEnds(worked) PROVE SessionsHeld'
  <2>1. CASE RefreshSaved(worked)
    BY <2>1 DEF RefreshSaved, callVars
  <2>2. ASSUME NEW c \in Calls, Removed(c, worked) PROVE SessionsHeld'
    BY <2>2 DEF Removed
  <2>3. ASSUME NEW c \in Calls, SignOutCleaned(c, worked) PROVE SessionsHeld'
    BY <2>3 DEF SignOutCleaned
  <2>4. ASSUME NEW c \in Calls, SignInCleaned(c, worked) PROVE SessionsHeld'
    BY <2>4 DEF SignInCleaned
  <2>5. ASSUME NEW c \in Calls, SignInSaved(c, worked) PROVE SessionsHeld'
    BY <2>5 DEF SignInSaved
  <2>6. ASSUME NEW c \in Calls, RestoreCleaned(c, worked) PROVE SessionsHeld'
    BY <2>6 DEF RestoreCleaned
  <2>7. ASSUME NEW c \in Calls, FillSaved(c, worked) PROVE SessionsHeld'
    BY <2>7 DEF FillSaved
  <2>8. QED
    BY <1>8, <2>1, <2>2, <2>3, <2>4, <2>5, <2>6, <2>7 DEF DiskEnds
<1>9. CASE Crash
  BY <1>9 DEF Crash, NoRefresh
<1>10. QED
  BY <1>1, <1>2, <1>3, <1>4, <1>5, <1>6, <1>7, <1>8, <1>9 DEF Next

(* Nothing runs beside a restore: every operation waits for its end.      *)
LEMMA AloneStep ==
  ASSUME RestoreFirst, TypeOK, RestoreIsAlone, [Next]_vars
  PROVE  RestoreIsAlone'
<1> USE DEF RestoreIsAlone, Idle, TypeOK, Open, Goto, Held, Start, Settling,
            Settle, JoinRefresh, RestorePcs, EarlyRestorePcs, WaitPcs,
            NoRefresh
<1>1. CASE UNCHANGED vars
  BY <1>1 DEF vars, callVars
<1>2. ASSUME NEW c \in Calls, Resume(c) PROVE RestoreIsAlone'
  BY <1>2 DEF Resume
<1>3. ASSUME ~Settling, NEW c \in Calls, Asks(c) PROVE RestoreIsAlone'
  <2>1. CASE Restore(c)
    BY <1>3, <2>1 DEF Restore
  <2>2. CASE SignOut(c)
    BY <1>3, <2>2 DEF SignOut
  <2>3. CASE SignIn(c)
    BY <1>3, <2>3 DEF SignIn
  <2>4. CASE RefreshIfDue(c)
    BY <1>3, <2>4 DEF RefreshIfDue
  <2>5. CASE CallStarts(c)
    BY <1>3, <2>5 DEF CallStarts
  <2>6. QED
    BY <1>3, <2>1, <2>2, <2>3, <2>4, <2>5 DEF Asks
<1>4. ASSUME ~Settling, NEW c \in Calls, Answers(c) PROVE RestoreIsAlone'
  <2>1. ASSUME NEW u \in Users, SignInAnswered(c, u) PROVE RestoreIsAlone'
    BY <2>1 DEF SignInAnswered
  <2>2. CASE SignInRefused(c)
    BY <1>4, <2>2 DEF SignInRefused
  <2>3. CASE FillAnswered(c)
    BY <1>4, <2>3 DEF FillAnswered
  <2>4. CASE FillRefused(c)
    BY <1>4, <2>4 DEF FillRefused
  <2>5. CASE CallEnds(c)
    BY <1>4, <2>5 DEF CallEnds
  <2>6. CASE CallRefused(c)
    BY <1>4, <2>6 DEF CallRefused
  <2>7. CASE RetryRefused(c)
    BY <1>4, <2>7 DEF RetryRefused
  <2>8. CASE ProfileAnswered(c)
    BY <2>8 DEF ProfileAnswered
  <2>9. QED
    BY <1>4, <2>1, <2>2, <2>3, <2>4, <2>5, <2>6, <2>7, <2>8 DEF Answers
<1>5. ASSUME ~Settling, NEW c \in Calls, Reads(c) PROVE RestoreIsAlone'
  <2>1. CASE ReadFile(c)
    BY <2>1 DEF ReadFile
  <2>2. CASE Purge(c)
    BY <2>2 DEF Purge
  <2>3. ASSUME NEW expiring \in BOOLEAN, Restored(c, expiring) PROVE RestoreIsAlone'
    <3>1. pc[c] = "restore.read" /\ launched = "restoring" /\ \A d \in Calls \ {c} : Idle(d)
      BY <2>3 DEF Restored
    <3>2. pc' = [pc EXCEPT ![c] = pc'[c]] /\ pc'[c] \notin EarlyRestorePcs
      BY <2>3 DEF Restored
    <3>3. pc'[c] \in RestorePcs => launched' = "restoring"
      BY <2>3, <3>1 DEF Restored
    <3>4. launched' \in {"restoring", "yes"}
      BY <2>3, <3>1 DEF Restored
    <3>5. QED
      BY <3>1, <3>2, <3>3, <3>4
  <2>4. QED
    BY <1>5, <2>1, <2>2, <2>3 DEF Reads
<1>6. CASE SignInWithoutCipher
  BY <1>6 DEF SignInWithoutCipher, callVars
<1>7. CASE RefreshAnswers
  <2>1. CASE RefreshAnswered
    BY <2>1 DEF RefreshAnswered, callVars
  <2>2. ASSUME NEW answer, RefreshRefused(answer) PROVE RestoreIsAlone'
    BY <2>2 DEF RefreshRefused, callVars
  <2>3. QED
    BY <1>7, <2>1, <2>2 DEF RefreshAnswers
<1>8. ASSUME ~Settling, NEW worked \in BOOLEAN, DiskEnds(worked) PROVE RestoreIsAlone'
  <2>1. CASE RefreshSaved(worked)
    BY <2>1 DEF RefreshSaved, callVars
  <2>2. ASSUME NEW c \in Calls, Removed(c, worked) PROVE RestoreIsAlone'
    BY <2>2 DEF Removed
  <2>3. ASSUME NEW c \in Calls, SignOutCleaned(c, worked) PROVE RestoreIsAlone'
    BY <2>3 DEF SignOutCleaned
  <2>4. ASSUME NEW c \in Calls, SignInCleaned(c, worked) PROVE RestoreIsAlone'
    BY <2>4 DEF SignInCleaned
  <2>5. ASSUME NEW c \in Calls, SignInSaved(c, worked) PROVE RestoreIsAlone'
    BY <2>5 DEF SignInSaved
  <2>6. ASSUME NEW c \in Calls, RestoreCleaned(c, worked) PROVE RestoreIsAlone'
    <3>1. pc[c] = "restore.clean" /\ launched = "restoring" /\ refresh.pc = "none"
          /\ \A d \in Calls \ {c} : Idle(d)
      BY <2>6 DEF RestoreCleaned
    <3>2. pc' = [pc EXCEPT ![c] = pc'[c]] /\ pc'[c] \in {"idle", "restore.reading"}
      BY <2>6 DEF RestoreCleaned
    <3>3. refresh' = refresh /\ launched' = (IF pc'[c] = "idle" THEN "yes" ELSE "restoring")
      BY <2>6, <3>1 DEF RestoreCleaned
    <3>4. QED
      BY <3>1, <3>2, <3>3
  <2>7. ASSUME NEW c \in Calls, FillSaved(c, worked) PROVE RestoreIsAlone'
    BY <2>7 DEF FillSaved
  <2>8. QED
    BY <1>8, <2>1, <2>2, <2>3, <2>4, <2>5, <2>6, <2>7 DEF DiskEnds
<1>9. CASE Crash
  BY <1>9 DEF Crash, NoRefresh
<1>10. QED
  BY <1>1, <1>2, <1>3, <1>4, <1>5, <1>6, <1>7, <1>8, <1>9 DEF Next

(* A captured generation is one that has been.                             *)
LEMMA GenerationsStep ==
  ASSUME TypeOK, GenerationsPassed, [Next]_vars
  PROVE  GenerationsPassed'
<1>0. /\ since \in [Calls -> Nat] /\ generation \in Nat /\ refresh.gen \in Nat
      /\ refresh \in Refreshes
  BY BoundsAssumption DEF TypeOK, Refreshes
<1> USE <1>0 DEF GenerationsPassed, Goto, Held, Start, Settle, JoinRefresh,
                 Fills, NoRefresh
<1>1. CASE UNCHANGED vars
  BY <1>1 DEF vars, callVars
<1>2. ASSUME NEW c \in Calls, Resume(c) PROVE GenerationsPassed'
  <2>1. refresh'.gen \in {0, refresh.gen}
    BY <1>2 DEF Resume
  <2>2. since' = since \/ since' = [since EXCEPT ![c] = generation]
    BY <1>2 DEF Resume
  <2>3. generation' = generation
    BY <1>2 DEF Resume
  <2>4. QED
    BY <2>1, <2>2, <2>3
<1>3. ASSUME ~Settling, NEW c \in Calls, Asks(c) PROVE GenerationsPassed'
  <2>1. CASE Restore(c)
    BY <1>3, <2>1 DEF Restore
  <2>2. CASE SignOut(c)
    BY <1>3, <2>2 DEF SignOut
  <2>3. CASE SignIn(c)
    BY <1>3, <2>3 DEF SignIn
  <2>4. CASE RefreshIfDue(c)
    BY <1>3, <2>4 DEF RefreshIfDue
  <2>5. CASE CallStarts(c)
    BY <1>3, <2>5 DEF CallStarts
  <2>6. QED
    BY <1>3, <2>1, <2>2, <2>3, <2>4, <2>5 DEF Asks
<1>4. ASSUME ~Settling, NEW c \in Calls, Answers(c) PROVE GenerationsPassed'
  <2>1. ASSUME NEW u \in Users, SignInAnswered(c, u) PROVE GenerationsPassed'
    BY <2>1 DEF SignInAnswered
  <2>2. CASE SignInRefused(c)
    BY <1>4, <2>2 DEF SignInRefused
  <2>3. CASE FillAnswered(c)
    BY <1>4, <2>3 DEF FillAnswered
  <2>4. CASE FillRefused(c)
    BY <1>4, <2>4 DEF FillRefused
  <2>5. CASE CallEnds(c)
    BY <1>4, <2>5 DEF CallEnds
  <2>6. CASE CallRefused(c)
    BY <1>4, <2>6 DEF CallRefused
  <2>7. CASE RetryRefused(c)
    BY <1>4, <2>7 DEF RetryRefused
  <2>8. CASE ProfileAnswered(c)
    BY <2>8 DEF ProfileAnswered
  <2>9. QED
    BY <1>4, <2>1, <2>2, <2>3, <2>4, <2>5, <2>6, <2>7, <2>8 DEF Answers
<1>5. ASSUME ~Settling, NEW c \in Calls, Reads(c) PROVE GenerationsPassed'
  <2>1. CASE ReadFile(c)
    BY <2>1 DEF ReadFile
  <2>2. CASE Purge(c)
    BY <2>2 DEF Purge
  <2>3. ASSUME NEW expiring \in BOOLEAN, Restored(c, expiring) PROVE GenerationsPassed'
    BY <1>5, <2>3 DEF Restored
  <2>4. QED
    BY <1>5, <2>1, <2>2, <2>3 DEF Reads
<1>6. CASE SignInWithoutCipher
  BY <1>6 DEF SignInWithoutCipher, callVars
<1>7. CASE RefreshAnswers
  <2>1. CASE RefreshAnswered
    <3>1. refresh'.gen = refresh.gen
      BY <2>1 DEF RefreshAnswered, Refreshes
    <3>2. QED
      BY <2>1, <3>1 DEF RefreshAnswered, callVars
  <2>2. ASSUME NEW answer, RefreshRefused(answer) PROVE GenerationsPassed'
    BY <2>2 DEF RefreshRefused, callVars
  <2>3. QED
    BY <1>7, <2>1, <2>2 DEF RefreshAnswers
<1>8. ASSUME ~Settling, NEW worked \in BOOLEAN, DiskEnds(worked) PROVE GenerationsPassed'
  <2>1. CASE RefreshSaved(worked)
    BY <2>1 DEF RefreshSaved, callVars
  <2>2. ASSUME NEW c \in Calls, Removed(c, worked) PROVE GenerationsPassed'
    BY <2>2 DEF Removed
  <2>3. ASSUME NEW c \in Calls, SignOutCleaned(c, worked) PROVE GenerationsPassed'
    BY <2>3 DEF SignOutCleaned
  <2>4. ASSUME NEW c \in Calls, SignInCleaned(c, worked) PROVE GenerationsPassed'
    BY <2>4 DEF SignInCleaned
  <2>5. ASSUME NEW c \in Calls, SignInSaved(c, worked) PROVE GenerationsPassed'
    BY <2>5 DEF SignInSaved
  <2>6. ASSUME NEW c \in Calls, RestoreCleaned(c, worked) PROVE GenerationsPassed'
    BY <2>6 DEF RestoreCleaned
  <2>7. ASSUME NEW c \in Calls, FillSaved(c, worked) PROVE GenerationsPassed'
    BY <2>7 DEF FillSaved
  <2>8. QED
    BY <1>8, <2>1, <2>2, <2>3, <2>4, <2>5, <2>6, <2>7 DEF DiskEnds
<1>9. CASE Crash
  BY <1>9 DEF Crash, NoRefresh
<1>10. QED
  BY <1>1, <1>2, <1>3, <1>4, <1>5, <1>6, <1>7, <1>8, <1>9 DEF Next

(* Once the generation moves, no call and no refresh has captured it. *)
LEMMA GenerationMoves ==
  ASSUME TypeOK, GenerationsPassed, generation' = generation + 1
  PROVE  (\A d \in Calls : since[d] # generation') /\ refresh.gen # generation'
<1>1. /\ since \in [Calls -> Nat] /\ generation \in Nat /\ refresh.gen \in Nat
  BY BoundsAssumption DEF TypeOK, Refreshes
<1>2. QED
  BY <1>1 DEF GenerationsPassed

(* What restore read becomes the session while nothing else runs. *)
LEMMA RestoredAlone ==
  ASSUME TypeOK, RestoreIsAlone, NEW c \in Calls, NEW expiring \in BOOLEAN, Restored(c, expiring)
  PROVE  /\ \A d \in Calls : pc'[d] \in {"idle", "restore.refresh", "fill.asking"}
         /\ \/ refresh'.pc = "none"
            \/ refresh'.pc = "asking" /\ refresh'.session = stored'
<1>1. pc[c] = "restore.read" /\ refresh.pc = "none" /\ \A d \in Calls \ {c} : pc[d] = "idle"
  BY DEF RestoreIsAlone, Restored, RestorePcs, EarlyRestorePcs, Idle
<1>2. pc' = [pc EXCEPT ![c] = pc'[c]] /\ pc'[c] \in {"idle", "restore.refresh", "fill.asking"}
  BY DEF TypeOK, Restored, Goto
<1>3. \A d \in Calls : pc'[d] \in {"idle", "restore.refresh", "fill.asking"}
  BY <1>1, <1>2 DEF TypeOK
<1>4. \/ refresh' = refresh
      \/ stored' = with[c] /\ JoinRefresh(with[c])
  BY DEF Restored
<1>5. QED
  BY <1>1, <1>3, <1>4 DEF JoinRefresh, Refreshing

(* The server's answer renews the token of the account that asked. *)
LEMMA RefreshAnsweredShape ==
  ASSUME TypeOK, SessionsHeld, RefreshAnswered
  PROVE  /\ refresh'.pc \in {"saving", "settling"} /\ refresh.pc = "asking"
         /\ refresh'.gen = refresh.gen /\ refresh'.calm = refresh.calm
         /\ refresh'.session # None /\ refresh'.session.user = refresh.session.user
<1>1. refresh \in Refreshes /\ refresh.session \in Sessions
  BY DEF TypeOK, SessionsHeld, RefreshAnswered, Refreshes
<1>2. DEFINE s == [refresh.session EXCEPT !.token = issued + 1]
<1>3. s # None /\ s.user = refresh.session.user
  <2>1. s \in Sessions
    BY <1>1, IssuedSessions DEF RefreshAnswered
  <2>2. QED
    BY <1>1, <2>1, NoneAssumption DEF Sessions
<1>4. CASE refresh.gen # generation
  <2>1. refresh' = [refresh EXCEPT !.pc = "settling", !.answer = "stale"]
    BY <1>4 DEF RefreshAnswered, Settle
  <2>2. refresh.pc = "asking" /\ refresh.session # None
    BY <1>1, NoneAssumption DEF RefreshAnswered
  <2>3. QED
    BY <1>1, <2>1, <2>2 DEF Refreshes
<1>5. CASE refresh.gen = generation
  <2>1. refresh' = [refresh EXCEPT !.pc = "saving", !.session = s]
    BY <1>5 DEF RefreshAnswered
  <2>2. QED
    BY <1>1, <1>3, <2>1 DEF RefreshAnswered, Refreshes
<1>6. QED
  BY <1>4, <1>5

(* A sign-in moves the generation before anything else, so who captured    *)
(* the present one while nobody was signing in is still right.             *)
LEMMA NobodySigningInStep ==
  ASSUME TypeOK, SessionsHeld, RestoreIsAlone, GenerationsPassed, NobodySigningIn,
         [Next]_vars
  PROVE  NobodySigningIn'
<1> USE DEF NobodySigningIn, SigningIn, SignInPcs, Calm, TypeOK,
            GenerationsPassed, WaitPcs, Retries, Fills, Goto, Held, Start,
            Settling, Settle, SetNull, JoinRefresh, Refreshing, NoRefresh,
            SessionPcs, CallPcs
<1>1. CASE UNCHANGED vars
  BY <1>1 DEF vars, callVars
<1>2. ASSUME NEW c \in Calls, Resume(c) PROVE NobodySigningIn'
  BY <1>2 DEF Resume
<1>3. ASSUME ~Settling, NEW c \in Calls, Asks(c) PROVE NobodySigningIn'
  <2>1. CASE Restore(c)
    <3>1. refresh.pc = "none" /\ refresh' = refresh /\ \A d \in Calls \ {c} : pc'[d] = "idle"
      BY <2>1 DEF Restore, RestoreIsAlone, Idle
    <3>2. pc'[c] \in {"restore.clean", "restore.reading"}
      BY <2>1 DEF Restore
    <3>3. QED
      BY <3>1, <3>2
  <2>2. CASE SignOut(c)
    <3>1. /\ \A d \in Calls \ {c} : since'[d] # generation'
          /\ refresh'.gen # generation'
      BY <2>2, GenerationMoves DEF SignOut
    <3>2. pc'[c] \in {"signOut.clean", "removing"}
      BY <2>2 DEF SignOut
    <3>3. QED
      BY <3>1, <3>2
  <2>3. CASE SignIn(c)
    <3>1. /\ \A d \in Calls \ {c} : since'[d] # generation'
          /\ refresh'.gen # generation'
      BY <2>3, GenerationMoves DEF SignIn
    <3>2. pc'[c] \in {"signIn.clean", "signIn.asking"}
      BY <2>3 DEF SignIn
    <3>3. QED
      BY <3>1, <3>2
  <2>4. CASE RefreshIfDue(c)
    BY <1>3, <2>4 DEF RefreshIfDue
  <2>5. CASE CallStarts(c)
    BY <1>3, <2>5 DEF CallStarts
  <2>6. QED
    BY <1>3, <2>1, <2>2, <2>3, <2>4, <2>5 DEF Asks
<1>4. ASSUME ~Settling, NEW c \in Calls, Answers(c) PROVE NobodySigningIn'
  <2>1. ASSUME NEW u \in Users, SignInAnswered(c, u) PROVE NobodySigningIn'
    BY <2>1 DEF SignInAnswered
  <2>2. CASE SignInRefused(c)
    BY <1>4, <2>2 DEF SignInRefused
  <2>3. CASE FillAnswered(c)
    BY <1>4, <2>3 DEF FillAnswered
  <2>4. CASE FillRefused(c)
    BY <1>4, <2>4 DEF FillRefused
  <2>5. CASE CallEnds(c)
    BY <1>4, <2>5 DEF CallEnds
  <2>6. CASE CallRefused(c)
    BY <1>4, <2>6 DEF CallRefused
  <2>7. CASE RetryRefused(c)
    BY <1>4, <2>7 DEF RetryRefused
  <2>8. CASE ProfileAnswered(c)
    BY <2>8 DEF ProfileAnswered
  <2>9. QED
    BY <1>4, <2>1, <2>2, <2>3, <2>4, <2>5, <2>6, <2>7, <2>8 DEF Answers
<1>5. ASSUME ~Settling, NEW c \in Calls, Reads(c) PROVE NobodySigningIn'
  <2>1. CASE ReadFile(c)
    BY <2>1 DEF ReadFile
  <2>2. CASE Purge(c)
    BY <2>2 DEF Purge
  <2>3. ASSUME NEW expiring \in BOOLEAN, Restored(c, expiring) PROVE NobodySigningIn'
    BY <2>3, RestoredAlone
  <2>4. QED
    BY <1>5, <2>1, <2>2, <2>3 DEF Reads
<1>6. CASE SignInWithoutCipher
  BY <1>6 DEF SignInWithoutCipher, callVars
<1>7. CASE RefreshAnswers
  <2>1. CASE RefreshAnswered
    BY <2>1, RefreshAnsweredShape DEF RefreshAnswered, callVars
  <2>2. ASSUME NEW answer, RefreshRefused(answer) PROVE NobodySigningIn'
    BY <2>2 DEF RefreshRefused, callVars
  <2>3. QED
    BY <1>7, <2>1, <2>2 DEF RefreshAnswers
<1>8. ASSUME ~Settling, NEW worked \in BOOLEAN, DiskEnds(worked) PROVE NobodySigningIn'
  <2>1. CASE RefreshSaved(worked)
    BY <2>1 DEF RefreshSaved, callVars
  <2>2. ASSUME NEW c \in Calls, Removed(c, worked) PROVE NobodySigningIn'
    BY <2>2 DEF Removed
  <2>3. ASSUME NEW c \in Calls, SignOutCleaned(c, worked) PROVE NobodySigningIn'
    BY <2>3 DEF SignOutCleaned
  <2>4. ASSUME NEW c \in Calls, SignInCleaned(c, worked) PROVE NobodySigningIn'
    BY <2>4 DEF SignInCleaned
  <2>5. ASSUME NEW c \in Calls, SignInSaved(c, worked) PROVE NobodySigningIn'
    BY <2>5 DEF SignInSaved
  <2>6. ASSUME NEW c \in Calls, RestoreCleaned(c, worked) PROVE NobodySigningIn'
    BY <2>6 DEF RestoreCleaned
  <2>7. ASSUME NEW c \in Calls, FillSaved(c, worked) PROVE NobodySigningIn'
    BY <2>7 DEF FillSaved
  <2>8. QED
    BY <1>8, <2>1, <2>2, <2>3, <2>4, <2>5, <2>6, <2>7 DEF DiskEnds
<1>9. CASE Crash
  BY <1>9 DEF Crash, NoRefresh
<1>10. QED
  BY <1>1, <1>2, <1>3, <1>4, <1>5, <1>6, <1>7, <1>8, <1>9 DEF Next

(* A refresh that a calm call may wait for is started from memory, which   *)
(* is the call's account, or was in flight for it when the call started.   *)
LEMMA RefreshIsTheCallsStep ==
  ASSUME RestoreFirst, TypeOK, SessionsHeld, RestoreIsAlone, GenerationsPassed,
         CallIsCurrent, RefreshIsTheCalls, [Next]_vars
  PROVE  RefreshIsTheCalls'
<1> USE DEF RefreshIsTheCalls, CallIsCurrent, SessionsHeld, Calm, TypeOK,
            GenerationsPassed, Retries, Fills, Goto, Held, Start, Settling,
            Settle, SetNull, JoinRefresh, Refreshing, NoRefresh, SessionPcs,
            CallPcs
<1>1. CASE UNCHANGED vars
  BY <1>1 DEF vars, callVars
<1>2. ASSUME NEW c \in Calls, Resume(c) PROVE RefreshIsTheCalls'
  BY <1>2 DEF Resume
<1>3. ASSUME ~Settling, NEW c \in Calls, Asks(c) PROVE RefreshIsTheCalls'
  <2>1. CASE Restore(c)
    BY <1>3, <2>1 DEF Restore
  <2>2. CASE SignOut(c)
    BY <1>3, <2>2, GenerationMoves DEF SignOut, SignInPcs
  <2>3. CASE SignIn(c)
    BY <1>3, <2>3, GenerationMoves DEF SignIn, SignInPcs
  <2>4. CASE RefreshIfDue(c)
    BY <1>3, <2>4 DEF RefreshIfDue
  <2>5. CASE CallStarts(c)
    <3>1. stored # None /\ refresh' = refresh /\ generation' = generation
      BY <2>5 DEF CallStarts
    <3>2. Calm /\ refresh.pc # "none" => refresh.session.user = stored.user
      BY <1>3, <3>1 DEF Refreshes
    <3>3. QED
      BY <2>5, <3>1, <3>2 DEF CallStarts
  <2>6. QED
    BY <1>3, <2>1, <2>2, <2>3, <2>4, <2>5 DEF Asks
<1>4. ASSUME ~Settling, NEW c \in Calls, Answers(c) PROVE RefreshIsTheCalls'
  <2>1. ASSUME NEW u \in Users, SignInAnswered(c, u) PROVE RefreshIsTheCalls'
    BY <2>1 DEF SignInAnswered
  <2>2. CASE SignInRefused(c)
    BY <1>4, <2>2 DEF SignInRefused
  <2>3. CASE FillAnswered(c)
    BY <1>4, <2>3 DEF FillAnswered
  <2>4. CASE FillRefused(c)
    BY <1>4, <2>4 DEF FillRefused
  <2>5. CASE CallEnds(c)
    BY <1>4, <2>5 DEF CallEnds
  <2>6. CASE CallRefused(c)
    <3>1. CASE Refreshing \/ ~(since[c] = generation /\ stored # None)
      BY <2>6, <3>1 DEF CallRefused
    <3>2. CASE ~Refreshing /\ since[c] = generation /\ stored # None
      <4>1. refresh'.session = stored /\ generation' = generation /\ with' = with
            /\ since' = since /\ calm' = calm
        BY <2>6, <3>2 DEF CallRefused
      <4>2. \A d \in Calls : pc'[d] \in SessionPcs => pc[d] \in SessionPcs
        BY <2>6 DEF CallRefused
      <4>3. QED
        BY <3>2, <4>1, <4>2
    <3>3. QED
      BY <3>1, <3>2
  <2>7. CASE RetryRefused(c)
    BY <1>4, <2>7 DEF RetryRefused
  <2>8. CASE ProfileAnswered(c)
    BY <2>8 DEF ProfileAnswered
  <2>9. QED
    BY <1>4, <2>1, <2>2, <2>3, <2>4, <2>5, <2>6, <2>7, <2>8 DEF Answers
<1>5. ASSUME ~Settling, NEW c \in Calls, Reads(c) PROVE RefreshIsTheCalls'
  <2>1. CASE ReadFile(c)
    BY <2>1 DEF ReadFile
  <2>2. CASE Purge(c)
    BY <2>2 DEF Purge
  <2>3. ASSUME NEW expiring \in BOOLEAN, Restored(c, expiring) PROVE RefreshIsTheCalls'
    BY <2>3, RestoredAlone
  <2>4. QED
    BY <1>5, <2>1, <2>2, <2>3 DEF Reads
<1>6. CASE SignInWithoutCipher
  BY <1>6 DEF SignInWithoutCipher, callVars
<1>7. CASE RefreshAnswers
  <2>1. CASE RefreshAnswered
    BY <2>1, RefreshAnsweredShape DEF RefreshAnswered, callVars
  <2>2. ASSUME NEW answer, RefreshRefused(answer) PROVE RefreshIsTheCalls'
    BY <2>2 DEF RefreshRefused, callVars
  <2>3. QED
    BY <1>7, <2>1, <2>2 DEF RefreshAnswers
<1>8. ASSUME ~Settling, NEW worked \in BOOLEAN, DiskEnds(worked) PROVE RefreshIsTheCalls'
  <2>1. CASE RefreshSaved(worked)
    BY <2>1 DEF RefreshSaved, callVars
  <2>2. ASSUME NEW c \in Calls, Removed(c, worked) PROVE RefreshIsTheCalls'
    BY <2>2 DEF Removed
  <2>3. ASSUME NEW c \in Calls, SignOutCleaned(c, worked) PROVE RefreshIsTheCalls'
    BY <2>3 DEF SignOutCleaned
  <2>4. ASSUME NEW c \in Calls, SignInCleaned(c, worked) PROVE RefreshIsTheCalls'
    BY <2>4 DEF SignInCleaned
  <2>5. ASSUME NEW c \in Calls, SignInSaved(c, worked) PROVE RefreshIsTheCalls'
    BY <2>5 DEF SignInSaved
  <2>6. ASSUME NEW c \in Calls, RestoreCleaned(c, worked) PROVE RefreshIsTheCalls'
    BY <2>6 DEF RestoreCleaned
  <2>7. ASSUME NEW c \in Calls, FillSaved(c, worked) PROVE RefreshIsTheCalls'
    BY <2>7 DEF FillSaved
  <2>8. QED
    BY <1>8, <2>1, <2>2, <2>3, <2>4, <2>5, <2>6, <2>7 DEF DiskEnds
<1>9. CASE Crash
  BY <1>9 DEF Crash, NoRefresh
<1>10. QED
  BY <1>1, <1>2, <1>3, <1>4, <1>5, <1>6, <1>7, <1>8, <1>9 DEF Next

(* Nothing but a sign-in or a restore brings another account to memory.    *)
LEMMA RefreshIsCurrentStep ==
  ASSUME RestoreFirst, TypeOK, SessionsHeld, RestoreIsAlone, GenerationsPassed,
         NobodySigningIn, RefreshIsCurrent, [Next]_vars
  PROVE  RefreshIsCurrent'
<1> USE DEF RefreshIsCurrent, NobodySigningIn, SigningIn, SignInPcs,
            SessionsHeld, Filled, StillCurrent, TypeOK, GenerationsPassed,
            Retries, Fills, Goto, Held, Start, Settling, Settle, SetNull,
            JoinRefresh, Refreshing, NoRefresh, SessionPcs, CallPcs
<1>1. CASE UNCHANGED vars
  BY <1>1 DEF vars, callVars
<1>2. ASSUME NEW c \in Calls, Resume(c) PROVE RefreshIsCurrent'
  BY <1>2 DEF Resume
<1>3. ASSUME ~Settling, NEW c \in Calls, Asks(c) PROVE RefreshIsCurrent'
  <2>1. CASE Restore(c)
    BY <1>3, <2>1 DEF Restore
  <2>2. CASE SignOut(c)
    BY <1>3, <2>2 DEF SignOut
  <2>3. CASE SignIn(c)
    BY <1>3, <2>3 DEF SignIn
  <2>4. CASE RefreshIfDue(c)
    BY <1>3, <2>4 DEF RefreshIfDue
  <2>5. CASE CallStarts(c)
    BY <1>3, <2>5 DEF CallStarts
  <2>6. QED
    BY <1>3, <2>1, <2>2, <2>3, <2>4, <2>5 DEF Asks
<1>4. ASSUME ~Settling, NEW c \in Calls, Answers(c) PROVE RefreshIsCurrent'
  <2>1. ASSUME NEW u \in Users, SignInAnswered(c, u) PROVE RefreshIsCurrent'
    BY <2>1 DEF SignInAnswered
  <2>2. CASE SignInRefused(c)
    BY <1>4, <2>2 DEF SignInRefused
  <2>3. CASE FillAnswered(c)
    BY <1>4, <2>3 DEF FillAnswered
  <2>4. CASE FillRefused(c)
    BY <1>4, <2>4 DEF FillRefused
  <2>5. CASE CallEnds(c)
    BY <1>4, <2>5 DEF CallEnds
  <2>6. CASE CallRefused(c)
    BY <1>4, <2>6 DEF CallRefused
  <2>7. CASE RetryRefused(c)
    BY <1>4, <2>7 DEF RetryRefused
  <2>8. CASE ProfileAnswered(c)
    BY <2>8 DEF ProfileAnswered
  <2>9. QED
    BY <1>4, <2>1, <2>2, <2>3, <2>4, <2>5, <2>6, <2>7, <2>8 DEF Answers
<1>5. ASSUME ~Settling, NEW c \in Calls, Reads(c) PROVE RefreshIsCurrent'
  <2>1. CASE ReadFile(c)
    BY <2>1 DEF ReadFile
  <2>2. CASE Purge(c)
    BY <2>2 DEF Purge
  <2>3. ASSUME NEW expiring \in BOOLEAN, Restored(c, expiring) PROVE RefreshIsCurrent'
    BY <2>3, RestoredAlone
  <2>4. QED
    BY <1>5, <2>1, <2>2, <2>3 DEF Reads
<1>6. CASE SignInWithoutCipher
  BY <1>6 DEF SignInWithoutCipher, callVars
<1>7. CASE RefreshAnswers
  <2>1. CASE RefreshAnswered
    BY <2>1, RefreshAnsweredShape DEF RefreshAnswered, callVars
  <2>2. ASSUME NEW answer, RefreshRefused(answer) PROVE RefreshIsCurrent'
    BY <2>2 DEF RefreshRefused, callVars
  <2>3. QED
    BY <1>7, <2>1, <2>2 DEF RefreshAnswers
<1>8. ASSUME ~Settling, NEW worked \in BOOLEAN, DiskEnds(worked) PROVE RefreshIsCurrent'
  <2>1. CASE RefreshSaved(worked)
    BY <2>1 DEF RefreshSaved, callVars
  <2>2. ASSUME NEW c \in Calls, Removed(c, worked) PROVE RefreshIsCurrent'
    BY <2>2 DEF Removed
  <2>3. ASSUME NEW c \in Calls, SignOutCleaned(c, worked) PROVE RefreshIsCurrent'
    BY <2>3 DEF SignOutCleaned
  <2>4. ASSUME NEW c \in Calls, SignInCleaned(c, worked) PROVE RefreshIsCurrent'
    BY <2>4 DEF SignInCleaned
  <2>5. ASSUME NEW c \in Calls, SignInSaved(c, worked) PROVE RefreshIsCurrent'
    BY <2>5 DEF SignInSaved
  <2>6. ASSUME NEW c \in Calls, RestoreCleaned(c, worked) PROVE RefreshIsCurrent'
    BY <2>6 DEF RestoreCleaned
  <2>7. ASSUME NEW c \in Calls, FillSaved(c, worked) PROVE RefreshIsCurrent'
    BY <2>7 DEF FillSaved
  <2>8. QED
    BY <1>8, <2>1, <2>2, <2>3, <2>4, <2>5, <2>6, <2>7 DEF DiskEnds
<1>9. CASE Crash
  BY <1>9 DEF Crash, NoRefresh
<1>10. QED
  BY <1>1, <1>2, <1>3, <1>4, <1>5, <1>6, <1>7, <1>8, <1>9 DEF Next

(* ... and the only refresh that can land is the call's own account's.      *)
LEMMA CallIsCurrentStep ==
  ASSUME RestoreFirst, TypeOK, SessionsHeld, RestoreIsAlone, GenerationsPassed,
         NobodySigningIn, RefreshIsTheCalls, CallIsCurrent, [Next]_vars
  PROVE  CallIsCurrent'
<1> USE DEF CallIsCurrent, RefreshIsTheCalls, NobodySigningIn, SigningIn,
            SignInPcs, SessionsHeld, Filled, StillCurrent, TypeOK,
            GenerationsPassed, Retries, Fills, Goto, Held, Start, Settling,
            Settle, SetNull, JoinRefresh, Refreshing, NoRefresh, SessionPcs,
            CallPcs
<1>1. CASE UNCHANGED vars
  BY <1>1 DEF vars, callVars
<1>2. ASSUME NEW c \in Calls, Resume(c) PROVE CallIsCurrent'
  <2>1. refresh.pc # "none" /\ generation' = generation
    BY <1>2 DEF Resume
  <2>2. CASE SignsOutOver(c, refresh.answer)
    BY <1>2, <2>2 DEF Resume
  <2>3. CASE ~SignsOutOver(c, refresh.answer)
    <3>1. stored' = stored /\ calm' = calm /\ pc[c] \in WaitPcs
      BY <1>2, <2>3 DEF Resume
    <3>2. \A d \in Calls \ {c} : pc'[d] = pc[d] /\ since'[d] = since[d] /\ with'[d] = with[d]
      BY <1>2, <2>3 DEF Resume
    <3>3. pc'[c] \in SessionPcs =>
            since'[c] = since[c] /\ with'[c] = refresh.session /\ pc[c] = "call.refresh"
      BY <1>2, <2>3 DEF Resume
    <3>4. QED
      BY <2>1, <3>1, <3>2, <3>3
  <2>4. QED
    BY <2>2, <2>3
<1>3. ASSUME ~Settling, NEW c \in Calls, Asks(c) PROVE CallIsCurrent'
  <2>1. CASE Restore(c)
    BY <1>3, <2>1 DEF Restore
  <2>2. CASE SignOut(c)
    BY <1>3, <2>2, GenerationMoves DEF SignOut
  <2>3. CASE SignIn(c)
    BY <1>3, <2>3, GenerationMoves DEF SignIn
  <2>4. CASE RefreshIfDue(c)
    BY <1>3, <2>4 DEF RefreshIfDue
  <2>5. CASE CallStarts(c)
    BY <1>3, <2>5 DEF CallStarts
  <2>6. QED
    BY <1>3, <2>1, <2>2, <2>3, <2>4, <2>5 DEF Asks
<1>4. ASSUME ~Settling, NEW c \in Calls, Answers(c) PROVE CallIsCurrent'
  <2>1. ASSUME NEW u \in Users, SignInAnswered(c, u) PROVE CallIsCurrent'
    BY <2>1 DEF SignInAnswered
  <2>2. CASE SignInRefused(c)
    BY <1>4, <2>2 DEF SignInRefused
  <2>3. CASE FillAnswered(c)
    BY <1>4, <2>3 DEF FillAnswered
  <2>4. CASE FillRefused(c)
    BY <1>4, <2>4 DEF FillRefused
  <2>5. CASE CallEnds(c)
    BY <1>4, <2>5 DEF CallEnds
  <2>6. CASE CallRefused(c)
    BY <1>4, <2>6 DEF CallRefused
  <2>7. CASE RetryRefused(c)
    BY <1>4, <2>7 DEF RetryRefused
  <2>8. CASE ProfileAnswered(c)
    BY <2>8 DEF ProfileAnswered
  <2>9. QED
    BY <1>4, <2>1, <2>2, <2>3, <2>4, <2>5, <2>6, <2>7, <2>8 DEF Answers
<1>5. ASSUME ~Settling, NEW c \in Calls, Reads(c) PROVE CallIsCurrent'
  <2>1. CASE ReadFile(c)
    BY <2>1 DEF ReadFile
  <2>2. CASE Purge(c)
    BY <2>2 DEF Purge
  <2>3. ASSUME NEW expiring \in BOOLEAN, Restored(c, expiring) PROVE CallIsCurrent'
    BY <2>3, RestoredAlone
  <2>4. QED
    BY <1>5, <2>1, <2>2, <2>3 DEF Reads
<1>6. CASE SignInWithoutCipher
  BY <1>6 DEF SignInWithoutCipher, callVars
<1>7. CASE RefreshAnswers
  <2>1. CASE RefreshAnswered
    BY <2>1 DEF RefreshAnswered, callVars
  <2>2. ASSUME NEW answer, RefreshRefused(answer) PROVE CallIsCurrent'
    BY <2>2 DEF RefreshRefused, callVars
  <2>3. QED
    BY <1>7, <2>1, <2>2 DEF RefreshAnswers
<1>8. ASSUME ~Settling, NEW worked \in BOOLEAN, DiskEnds(worked) PROVE CallIsCurrent'
  <2>1. CASE RefreshSaved(worked)
    BY <2>1 DEF RefreshSaved, callVars
  <2>2. ASSUME NEW c \in Calls, Removed(c, worked) PROVE CallIsCurrent'
    BY <2>2 DEF Removed
  <2>3. ASSUME NEW c \in Calls, SignOutCleaned(c, worked) PROVE CallIsCurrent'
    BY <2>3 DEF SignOutCleaned
  <2>4. ASSUME NEW c \in Calls, SignInCleaned(c, worked) PROVE CallIsCurrent'
    BY <2>4 DEF SignInCleaned
  <2>5. ASSUME NEW c \in Calls, SignInSaved(c, worked) PROVE CallIsCurrent'
    BY <2>5 DEF SignInSaved
  <2>6. ASSUME NEW c \in Calls, RestoreCleaned(c, worked) PROVE CallIsCurrent'
    BY <2>6 DEF RestoreCleaned
  <2>7. ASSUME NEW c \in Calls, FillSaved(c, worked) PROVE CallIsCurrent'
    BY <2>7 DEF FillSaved
  <2>8. QED
    BY <1>8, <2>1, <2>2, <2>3, <2>4, <2>5, <2>6, <2>7 DEF DiskEnds
<1>9. CASE Crash
  BY <1>9 DEF Crash, NoRefresh
<1>10. QED
  BY <1>1, <1>2, <1>3, <1>4, <1>5, <1>6, <1>7, <1>8, <1>9 DEF Next

(* Joining the refresh starts it when there is none, and the last waiter   *)
(* to resume clears it.                                                    *)
LEMMA WaitersStep ==
  ASSUME TypeOK, WaitersHaveRefresh, [Next]_vars
  PROVE  WaitersHaveRefresh'
<1> USE DEF WaitersHaveRefresh, TypeOK, WaitPcs, SignInPcs, Goto, Held, Start,
            Settling, Settle, JoinRefresh, Refreshing, NoRefresh
<1>1. CASE UNCHANGED vars
  BY <1>1 DEF vars, callVars
<1>2. ASSUME NEW c \in Calls, Resume(c) PROVE WaitersHaveRefresh'
  BY <1>2 DEF Resume
<1>3. ASSUME ~Settling, NEW c \in Calls, Asks(c) PROVE WaitersHaveRefresh'
  <2>1. CASE Restore(c)
    BY <1>3, <2>1 DEF Restore
  <2>2. CASE SignOut(c)
    BY <1>3, <2>2 DEF SignOut
  <2>3. CASE SignIn(c)
    BY <1>3, <2>3 DEF SignIn
  <2>4. CASE RefreshIfDue(c)
    BY <1>3, <2>4 DEF RefreshIfDue
  <2>5. CASE CallStarts(c)
    BY <1>3, <2>5 DEF CallStarts
  <2>6. QED
    BY <1>3, <2>1, <2>2, <2>3, <2>4, <2>5 DEF Asks
<1>4. ASSUME ~Settling, NEW c \in Calls, Answers(c) PROVE WaitersHaveRefresh'
  <2>1. ASSUME NEW u \in Users, SignInAnswered(c, u) PROVE WaitersHaveRefresh'
    BY <2>1 DEF SignInAnswered
  <2>2. CASE SignInRefused(c)
    BY <1>4, <2>2 DEF SignInRefused
  <2>3. CASE FillAnswered(c)
    BY <1>4, <2>3 DEF FillAnswered
  <2>4. CASE FillRefused(c)
    BY <1>4, <2>4 DEF FillRefused
  <2>5. CASE CallEnds(c)
    BY <1>4, <2>5 DEF CallEnds
  <2>6. CASE CallRefused(c)
    BY <1>4, <2>6 DEF CallRefused
  <2>7. CASE RetryRefused(c)
    BY <1>4, <2>7 DEF RetryRefused
  <2>8. CASE ProfileAnswered(c)
    BY <2>8 DEF ProfileAnswered
  <2>9. QED
    BY <1>4, <2>1, <2>2, <2>3, <2>4, <2>5, <2>6, <2>7, <2>8 DEF Answers
<1>5. ASSUME ~Settling, NEW c \in Calls, Reads(c) PROVE WaitersHaveRefresh'
  <2>1. CASE ReadFile(c)
    BY <2>1 DEF ReadFile
  <2>2. CASE Purge(c)
    BY <2>2 DEF Purge
  <2>3. ASSUME NEW expiring \in BOOLEAN, Restored(c, expiring) PROVE WaitersHaveRefresh'
    BY <1>5, <2>3 DEF Restored
  <2>4. QED
    BY <1>5, <2>1, <2>2, <2>3 DEF Reads
<1>6. CASE SignInWithoutCipher
  BY <1>6 DEF SignInWithoutCipher, callVars
<1>7. CASE RefreshAnswers
  <2>1. CASE RefreshAnswered
    <3>1. refresh.pc = "asking"
      BY <2>1 DEF RefreshAnswered
    <3>2. refresh'.pc \in {"saving", "settling"}
      BY <2>1 DEF RefreshAnswered, Refreshes
    <3>3. QED
      BY <2>1, <3>1, <3>2 DEF RefreshAnswered, callVars
  <2>2. ASSUME NEW answer, RefreshRefused(answer) PROVE WaitersHaveRefresh'
    BY <2>2 DEF RefreshRefused, callVars
  <2>3. QED
    BY <1>7, <2>1, <2>2 DEF RefreshAnswers
<1>8. ASSUME ~Settling, NEW worked \in BOOLEAN, DiskEnds(worked) PROVE WaitersHaveRefresh'
  <2>1. CASE RefreshSaved(worked)
    BY <2>1 DEF RefreshSaved, callVars
  <2>2. ASSUME NEW c \in Calls, Removed(c, worked) PROVE WaitersHaveRefresh'
    BY <2>2 DEF Removed
  <2>3. ASSUME NEW c \in Calls, SignOutCleaned(c, worked) PROVE WaitersHaveRefresh'
    BY <2>3 DEF SignOutCleaned
  <2>4. ASSUME NEW c \in Calls, SignInCleaned(c, worked) PROVE WaitersHaveRefresh'
    BY <2>4 DEF SignInCleaned
  <2>5. ASSUME NEW c \in Calls, SignInSaved(c, worked) PROVE WaitersHaveRefresh'
    BY <2>5 DEF SignInSaved
  <2>6. ASSUME NEW c \in Calls, RestoreCleaned(c, worked) PROVE WaitersHaveRefresh'
    BY <2>6 DEF RestoreCleaned
  <2>7. ASSUME NEW c \in Calls, FillSaved(c, worked) PROVE WaitersHaveRefresh'
    BY <2>7 DEF FillSaved
  <2>8. QED
    BY <1>8, <2>1, <2>2, <2>3, <2>4, <2>5, <2>6, <2>7 DEF DiskEnds
<1>9. CASE Crash
  BY <1>9 DEF Crash, NoRefresh
<1>10. QED
  BY <1>1, <1>2, <1>3, <1>4, <1>5, <1>6, <1>7, <1>8, <1>9 DEF Next

-----------------------------------------------------------------------------
(* The inductive invariant holds of every behaviour in the engine's order, *)
(* where nothing runs before restore has ended.                            *)
THEOREM IdentityInvariant ==
  ASSUME RestoreFirst
  PROVE  Spec => []IdentityInv
<1>1. Init => IdentityInv
  <2> SUFFICES ASSUME Init PROVE IdentityInv
    OBVIOUS
  <2>1. TypeOK
    BY TypeInit
  <2>2. /\ refresh.pc = "none" /\ refresh.gen = 0 /\ generation = 0 /\ stored = None
        /\ launched = "no" /\ \A c \in Calls : pc[c] = "idle" /\ since[c] = 0
    BY DEF Init, Launch, NoRefresh
  <2>3. RestoreIsAlone
    BY <2>2 DEF RestoreIsAlone, RestorePcs, EarlyRestorePcs, Idle
  <2>4. GenerationsPassed
    BY <2>2 DEF GenerationsPassed
  <2>5. NobodySigningIn /\ SessionsHeld /\ RefreshIsTheCalls /\ RefreshIsCurrent /\ CallIsCurrent
    BY <2>2 DEF NobodySigningIn, SessionsHeld, RefreshIsTheCalls, RefreshIsCurrent,
                CallIsCurrent, Refreshing, SessionPcs, CallPcs
  <2>6. QED
    BY <2>1, <2>3, <2>4, <2>5 DEF IdentityInv
<1>2. IdentityInv /\ [Next]_vars => IdentityInv'
  BY TypeStep, SessionsHeldStep, AloneStep, GenerationsStep, NobodySigningInStep,
     RefreshIsTheCallsStep, RefreshIsCurrentStep, CallIsCurrentStep
     DEF IdentityInv
<1>3. QED
  BY <1>1, <1>2, PTL DEF Spec

(* The types of the store, which also say that the shared refresh is at    *)
(* one of its stages and every call at one of its awaits; in any order of  *)
(* operations.                                                             *)
THEOREM TypesHold == Spec => []TypeOK
<1>1. Init => TypeOK /\ SessionsHeld
  BY TypeInit DEF Init, Launch, NoRefresh, SessionsHeld, SessionPcs, CallPcs
<1>2. TypeOK /\ SessionsHeld /\ [Next]_vars => (TypeOK /\ SessionsHeld)'
  BY TypeStep, SessionsHeldStep
<1>3. QED
  BY <1>1, <1>2, PTL DEF Spec

(* The shared refresh is in flight exactly while some call waits for it,   *)
(* in any order of operations.                                             *)
THEOREM WaitersAlwaysHaveRefresh == Spec => []WaitersHaveRefresh
<1>1. Init => WaitersHaveRefresh
  BY DEF Init, Launch, NoRefresh, WaitersHaveRefresh, WaitPcs
<1>2. TypeOK /\ WaitersHaveRefresh /\ [Next]_vars => WaitersHaveRefresh'
  BY WaitersStep
<1>3. QED
  BY <1>1, <1>2, TypesHold, PTL DEF Spec

(* A refresh begun while nobody was signing in renews the account in       *)
(* memory, as long as its generation stands.                               *)
THEOREM RefreshStaysCurrent ==
  ASSUME RestoreFirst
  PROVE  Spec => []RefreshIsCurrent
<1>1. IdentityInv => RefreshIsCurrent
  BY DEF IdentityInv
<1>2. QED
  BY <1>1, IdentityInvariant, PTL

(* A call begun in a calm store, whose generation stands, works for the    *)
(* account in memory: what it may sign out is its own account.             *)
THEOREM CallStaysCurrent ==
  ASSUME RestoreFirst
  PROVE  Spec => []CallIsCurrent
<1>1. IdentityInv => CallIsCurrent
  BY DEF IdentityInv
<1>2. QED
  BY <1>1, IdentityInvariant, PTL

(* A waiting call goes on to its retry in its own Resume and nowhere else. *)
LEMMA OnlyResumeRetries ==
  ASSUME TypeOK, [Next]_vars, NEW c \in Calls,
         pc[c] = "call.refresh", pc'[c] = "call.retrying"
  PROVE  Resume(c)
<1> USE DEF TypeOK, Goto, Start
<1>1. CASE UNCHANGED vars
  BY <1>1 DEF vars, callVars
<1>2. ASSUME NEW d \in Calls, Resume(d) PROVE Resume(c)
  <2>1. d # c => pc'[c] = pc[c]
    BY <1>2 DEF Resume
  <2>2. QED
    BY <1>2, <2>1
<1>3. ASSUME NEW d \in Calls, Asks(d) PROVE FALSE
  BY <1>3 DEF Asks, Restore, SignOut, SignIn, RefreshIfDue, CallStarts
<1>4. ASSUME NEW d \in Calls, Answers(d) PROVE FALSE
  BY <1>4 DEF Answers, SignInAnswered, ProfileAnswered, SignInRefused, FillAnswered, FillRefused,
              CallEnds, CallRefused, RetryRefused
<1>5. ASSUME NEW d \in Calls, Reads(d) PROVE FALSE
  BY <1>5 DEF Reads, ReadFile, Purge, Restored
<1>6. CASE SignInWithoutCipher \/ RefreshAnswers \/ Crash
  BY <1>6 DEF SignInWithoutCipher, RefreshAnswers, RefreshAnswered, RefreshRefused, Crash, callVars
<1>7. ASSUME NEW worked \in BOOLEAN, DiskEnds(worked) PROVE FALSE
  BY <1>7 DEF DiskEnds, RefreshSaved, Removed, SignOutCleaned, SignInCleaned, SignInSaved,
              RestoreCleaned, FillSaved, callVars
<1>8. QED
  BY <1>1, <1>2, <1>3, <1>4, <1>5, <1>6, <1>7 DEF Next

(* withSession never makes such a call again under another account.        *)
THEOREM RetriesKeepTheirUser ==
  ASSUME RestoreFirst
  PROVE  Spec => RetryKeepsUser
<1> DEFINE Kept == \A c \in Calls :
                     pc[c] = "call.refresh" /\ pc'[c] = "call.retrying" /\ calm[c]
                       => with'[c].user = with[c].user
<1>1. ASSUME IdentityInv, [Next]_vars PROVE [Kept]_vars
  <2> SUFFICES ASSUME NEW c \in Calls, pc[c] = "call.refresh", pc'[c] = "call.retrying", calm[c]
               PROVE  with'[c].user = with[c].user
    BY DEF Kept
  <2> USE DEF IdentityInv
  <2>1. Resume(c)
    BY <1>1, OnlyResumeRetries
  <2>2. ~SignsOutOver(c, refresh.answer)
    BY <1>1, <2>1 DEF Resume, Goto, TypeOK
  <2>3. Retries(c) /\ with'[c] = refresh.session
    BY <1>1, <2>1, <2>2 DEF Resume, Goto, TypeOK
  <2>4. refresh.session.user = with[c].user
    BY <1>1, <2>1, <2>3 DEF Resume, Retries, Settling, RefreshIsTheCalls, SessionPcs, CallPcs
  <2>5. QED
    BY <2>3, <2>4
<1>2. QED
  BY <1>1, IdentityInvariant, PTL DEF Spec, RetryKeepsUser

-----------------------------------------------------------------------------
(* The session file.  A task on the file's queue belongs to a call or to   *)
(* the refresh that waits for it, and is the only one of theirs.           *)
Removals == {"removing", "restore.removing", "restore.clean", "signOut.clean", "signIn.clean"}
Saves == {"signIn.saving", "fill.saving"}
Awaited(t, p, w, r) ==
  \/ t.kind = "save" /\ t.by = Refresher /\ r.pc = "saving" /\ t.value = r.session
  \/ /\ t.by \in Calls
     /\ \/ t.kind = "remove" /\ p[t.by] \in Removals
        \/ t.kind = "save" /\ p[t.by] = "signIn.saving" /\ t.value = w[t.by]
        \/ t.kind = "save" /\ p[t.by] = "fill.saving" /\ t.value = [w[t.by] EXCEPT !.account = TRUE]
TasksAwaited ==
  /\ \A i \in 1..Len(queue) : Awaited(queue[i], pc, with, refresh)
  /\ \A i, j \in 1..Len(queue) : queue[i].by = queue[j].by => i = j
(* A task that brings a new token, and one that only fills in the account. *)
Renews(t, p) == t.kind = "save" /\ (t.by = Refresher \/ p[t.by] = "signIn.saving")
FillsIn(t, p) == t.kind = "save" /\ t.by \in Calls /\ p[t.by] = "fill.saving"

(* Until a restore has read the file nobody is signed in, and the file is  *)
(* of the account that was read; an unreadable one is nobody's.            *)
ReadInTurn ==
  /\ launched = "no" => stored = None
  /\ \A c \in Calls : pc[c] \in EarlyRestorePcs => stored = None
  /\ \A c \in Calls : pc[c] = "restore.purge" => with[c] = None
  /\ \A c \in Calls : pc[c] = "restore.read" /\ with[c] # None /\ file # None => file.user = with[c].user
(* While its generation stands, nobody signs in behind the request for the *)
(* account, and a refresh is one that began since.                         *)
FillUndisturbed ==
  \A c \in Calls : pc[c] = "fill.asking" /\ since[c] = generation =>
    ~SigningIn /\ (Refreshing => refresh.calm /\ refresh.gen = generation)
(* The file is of the account in memory; and so is an account to be filled *)
(* in, and every session that is to be saved before it.                    *)
FileIsTheAccounts ==
  /\ stored # None /\ file # None => file.user = stored.user
  /\ \A i \in 1..Len(queue) : FillsIn(queue[i], pc) =>
       /\ stored # None => stored.user = queue[i].value.user
       /\ \A j \in 1..i : queue[j].kind = "save" => queue[j].value.user = queue[i].value.user
(* No token held is one the server has yet to issue; one that a refresh is *)
(* saving is no older than the one in memory, nor than those before it.    *)
Until(s, n) == s # None => s.token <= n
IssuedBefore ==
  /\ Until(stored, issued) /\ Until(file, issued) /\ Until(refresh.session, issued)
  /\ \A c \in Calls : Until(with[c], issued)
Refreshed(t) == t.kind = "save" /\ t.by = Refresher
TokensInOrder ==
  \A i \in 1..Len(queue) : Refreshed(queue[i]) =>
    /\ stored # None => stored.token <= queue[i].value.token
    /\ \A j \in 1..i : Renews(queue[j], pc) => queue[j].value.token <= queue[i].value.token
FileInv ==
  /\ IdentityInv /\ TasksAwaited /\ ReadInTurn /\ FillUndisturbed /\ FileIsTheAccounts
  /\ IssuedBefore /\ TokensInOrder

-----------------------------------------------------------------------------
(* A step, by what it does to the file and its queue.  Somebody who waits  *)
(* for no task does something else or queues one, or somebody's task ends  *)
(* and is perhaps followed by a removal; or nothing is queued at all.      *)
Callers == Calls \cup {Refresher}
Busy(x) == IF x \in Calls THEN pc[x] \in Removals \cup Saves ELSE refresh.pc = "saving"
OnlyMoves(x) ==
  /\ \A c \in Calls \ {x} : pc'[c] = pc[c] /\ with'[c] = with[c]
  /\ x # Refresher => (refresh.pc = "saving" => refresh' = refresh)
Keeps == stored' \in {stored, None} /\ file' \in {file, None}
Quiet(x) == ~Busy(x) /\ OnlyMoves(x) /\ queue' = queue /\ Keeps
QueuesRemoval(x) ==
  /\ ~Busy(x) /\ OnlyMoves(x) /\ Keeps
  /\ x \in Calls /\ pc'[x] \in Removals /\ queue' = Append(queue, RemoveTask(x))
Brings(x, s) ==
  IF x = Refresher THEN s.token = issued + 1 /\ refresh'.pc = "saving" /\ refresh'.session = s
  ELSE s.token <= issued /\ pc'[x] = "signIn.saving" /\ with'[x] = s
QueuesRenewal(x) ==
  /\ ~Busy(x) /\ OnlyMoves(x) /\ Keeps
  /\ \E s \in Sessions : /\ queue' = Append(queue, SaveTask(x, s)) /\ Brings(x, s)
QueuesFill(x) ==
  /\ ~Busy(x) /\ OnlyMoves(x) /\ UNCHANGED <<stored, file, with>>
  /\ x \in Calls /\ pc'[x] = "fill.saving" /\ stored = with[x] /\ stored # None
  /\ queue' = Append(queue, SaveTask(x, Filled(x)))
  /\ \A i \in 1..Len(queue) : queue[i].kind = "save" => queue[i].value.user = stored.user
Lands(x) ==
  /\ queue[1].kind = "save" /\ file' = queue[1].value
  /\ \/ Renews(queue[1], pc) /\ stored' = queue[1].value
     \/ FillsIn(queue[1], pc) /\ stored' \in {stored, IF stored = with[x] THEN Filled(x) ELSE stored}
Finishes(x) ==
  /\ queue # <<>> /\ queue[1].by = x /\ OnlyMoves(x)
  /\ \/ queue' = Tail(queue)
     \/ queue' = Append(Tail(queue), RemoveTask(x)) /\ x \in Calls /\ pc'[x] \in Removals
  /\ Keeps \/ Lands(x)
Rests ==
  /\ queue' = <<>> /\ file' = file /\ (stored' # None => stored = None)
  /\ stored' # None /\ file # None => file.user = stored'.user

(* A call at another await than these waits for no task. *)
LEMMA NotQueued ==
  ASSUME TypeOK, TasksAwaited, NEW x \in Callers, ~Busy(x)
  PROVE  \A i \in 1..Len(queue) : queue[i].by # x
BY CallsAssumption DEF TasksAwaited, Awaited, Busy, Removals, Saves, Callers

(* The new queue has tasks of others from the old one, in their order, and *)
(* perhaps one of its own, last.                                           *)
Came(x, k, i) == i + k \in 1..Len(queue) /\ queue'[i] = queue[i + k] /\ queue[i + k].by # x
Flows(x, k) ==
  \A i \in 1..Len(queue') :
    Came(x, k, i) \/ (i = Len(queue') /\ queue'[i].by = x)

LEMMA Appended ==
  ASSUME NEW q \in Seq(Tasks), NEW t \in Tasks
  PROVE  /\ Append(q, t) \in Seq(Tasks) /\ Len(Append(q, t)) = Len(q) + 1 /\ Len(q) \in Nat
         /\ Append(q, t)[Len(q) + 1] = t
         /\ \A i \in 1..Len(q) : Append(q, t)[i] = q[i]
BY AppendProperties, LenProperties
LEMMA Dropped ==
  ASSUME NEW q \in Seq(Tasks), q # <<>>
  PROVE  /\ Tail(q) \in Seq(Tasks) /\ Len(Tail(q)) = Len(q) - 1 /\ Len(q) \in Nat \ {0}
         /\ \A i \in 1..Len(Tail(q)) : i + 1 \in 1..Len(q) /\ Tail(q)[i] = q[i + 1]
         /\ Head(q) = q[1] /\ q[1] \in Tasks
<1>1. Tail(q) \in Seq(Tasks) /\ Len(Tail(q)) = Len(q) - 1 /\ \A i \in 1..Len(Tail(q)) : Tail(q)[i] = q[i + 1]
  BY HeadTailProperties
<1>2. Len(q) \in Nat /\ Len(q) # 0
  BY EmptySeq, LenProperties
<1>3. Head(q) = q[1]
  OBVIOUS
<1>4. q[1] \in Tasks
  BY <1>2, ElementOfSeq
<1>5. QED
  BY <1>1, <1>2, <1>3, <1>4

LEMMA FlowsOn ==
  ASSUME TypeOK, TasksAwaited, NEW x \in Callers,
         Quiet(x) \/ QueuesRemoval(x) \/ QueuesRenewal(x) \/ QueuesFill(x), TypeOK'
  PROVE  Flows(x, 0)
<1>1. \A i \in 1..Len(queue) : queue[i].by # x
  BY NotQueued DEF Quiet, QueuesRemoval, QueuesRenewal, QueuesFill
<1>2. Len(queue) \in Nat
  BY LenProperties DEF TypeOK
<1>3. CASE queue' = queue
  BY <1>1, <1>2, <1>3 DEF Flows, Came
<1>4. ASSUME NEW t \in Tasks, t.by = x, queue' = Append(queue, t) PROVE Flows(x, 0)
  BY <1>1, <1>2, <1>4, Appended DEF Flows, Came, TypeOK
<1>5. CASE QueuesRemoval(x)
  BY <1>4, <1>5, TaskTypes DEF QueuesRemoval, RemoveTask
<1>6. CASE QueuesRenewal(x)
  BY <1>4, <1>6, TaskTypes DEF QueuesRenewal, SaveTask, Callers
<1>7. CASE QueuesFill(x)
  <2>1. with[x] \in Sessions /\ Filled(x) \in Sessions
    BY <1>7 DEF QueuesFill, TypeOK, Filled, Sessions
  <2>2. QED
    BY <1>4, <1>7, <2>1, TaskTypes DEF QueuesFill, SaveTask, Callers
<1>8. QED
  BY <1>3, <1>5, <1>6, <1>7 DEF Quiet

LEMMA FlowsOff ==
  ASSUME TypeOK, TasksAwaited, NEW x \in Callers, Finishes(x)
  PROVE  Flows(x, 1)
<1>1. /\ queue \in Seq(Tasks) /\ queue # <<>> /\ queue[1].by = x
      /\ Len(queue) \in Nat \ {0} /\ Len(Tail(queue)) = Len(queue) - 1 /\ Tail(queue) \in Seq(Tasks)
      /\ \A i \in 1..Len(Tail(queue)) : i + 1 \in 1..Len(queue) /\ Tail(queue)[i] = queue[i + 1]
  BY Dropped DEF TypeOK, Finishes
<1>2. \A i \in 1..Len(queue) : i # 1 => queue[i].by # x
  BY <1>1 DEF TasksAwaited
<1>3. \A i \in 1..Len(Tail(queue)) : i + 1 \in 1..Len(queue) /\ i + 1 # 1 /\ Tail(queue)[i] = queue[i + 1] /\ queue[i + 1].by # x
  BY <1>1, <1>2
<1>4. CASE queue' = Tail(queue)
  BY <1>3, <1>4 DEF Flows, Came
<1>5. CASE x \in Calls /\ queue' = Append(Tail(queue), RemoveTask(x))
  <2>1. RemoveTask(x) \in Tasks /\ RemoveTask(x).by = x
    BY <1>5, TaskTypes, CallsAssumption DEF RemoveTask, Callers
  <2>2. /\ Len(queue') = Len(Tail(queue)) + 1 /\ queue'[Len(queue')].by = x
        /\ \A i \in 1..Len(Tail(queue)) : queue'[i] = Tail(queue)[i]
    BY <1>1, <1>5, <2>1, Appended
  <2>3. \A i \in 1..Len(queue') : i = Len(queue') \/ i \in 1..Len(Tail(queue))
    <3>1. Len(Tail(queue)) \in Nat
      BY <1>1, LenProperties
    <3>2. \A n \in Nat : \A i \in 1..(n + 1) : i = n + 1 \/ i \in 1..n
      OBVIOUS
    <3>3. QED
      BY <2>2, <3>1, <3>2
  <2>4. QED
    BY <1>3, <2>2, <2>3 DEF Flows, Came
<1>6. QED
  BY <1>4, <1>5 DEF Finishes

-----------------------------------------------------------------------------
(* Every step of the program is one of these.                              *)
Step ==
  \/ UNCHANGED <<stored, refresh, pc, with, file, queue>> \/ Rests
  \/ \E x \in Callers : Quiet(x) \/ QueuesRemoval(x) \/ QueuesRenewal(x) \/ QueuesFill(x) \/ Finishes(x)

(* Who has to save an account to be filled in does so in a queue that has  *)
(* this account's sessions only.                                           *)
LEMMA FillFits ==
  ASSUME FileInv, NEW c \in Calls, pc[c] = "fill.asking", StillCurrent(c)
  PROVE  \A i \in 1..Len(queue) : queue[i].kind = "save" => queue[i].value.user = stored.user
<1>1. /\ stored # None /\ stored = with[c] /\ ~SigningIn
      /\ Refreshing => refresh.calm /\ refresh.gen = generation
  BY DEF FileInv, IdentityInv, SessionsHeld, StillCurrent, FillUndisturbed
<1>2. TAKE i \in 1..Len(queue)
<1>3. HAVE queue[i].kind = "save"
<1>4. CASE queue[i].by = Refresher
  BY <1>1, <1>3, <1>4, CallsAssumption
     DEF FileInv, IdentityInv, TasksAwaited, Awaited, Refreshing, RefreshIsCurrent
<1>5. CASE FillsIn(queue[i], pc)
  BY <1>1, <1>5 DEF FileInv, FileIsTheAccounts
<1>6. Awaited(queue[i], pc, with, refresh)
  BY DEF FileInv, TasksAwaited
<1>7. QED
  BY <1>1, <1>3, <1>4, <1>5, <1>6 DEF Awaited, FillsIn, SigningIn, SignInPcs

LEMMA RestoredRests ==
  ASSUME FileInv, NEW c \in Calls, NEW expiring \in BOOLEAN, Restored(c, expiring)
  PROVE  Rests
<1>1. /\ pc[c] = "restore.read" /\ refresh.pc = "none" /\ \A d \in Calls \ {c} : pc[d] = "idle"
      /\ stored = None /\ (with[c] # None /\ file # None => file.user = with[c].user)
  BY DEF FileInv, IdentityInv, ReadInTurn, RestoreIsAlone, Restored, RestorePcs, EarlyRestorePcs, Idle
<1>2. \A i \in 1..Len(queue) : FALSE
  BY <1>1 DEF FileInv, TasksAwaited, Awaited, Removals
<1>3. queue = <<>>
  BY <1>2, EmptySeq, LenProperties DEF FileInv, IdentityInv, TypeOK
<1>4. queue' = queue /\ file' = file /\ stored' \in {stored, with[c]}
  BY DEF Restored
<1>5. QED
  BY <1>1, <1>3, <1>4 DEF Rests

LEMMA StepsAreThese ==
  ASSUME FileInv, [Next]_vars
  PROVE  Step
<1> USE CallsAssumption DEF Step, Quiet, QueuesRemoval, Keeps, OnlyMoves, Busy, Removals, Saves, Callers,
            FileInv, IdentityInv, TypeOK, Goto, Held, Start, Settling, Settle, SetNull, Queue,
            JoinRefresh, Refreshing, Retries, Fills, WaitPcs
<1>1. CASE UNCHANGED vars
  BY <1>1 DEF vars, callVars
<1>2. ASSUME NEW c \in Calls, Resume(c) PROVE Step
  <2>1. CASE SignsOutOver(c, refresh.answer)
    BY <1>2, <2>1 DEF Resume
  <2>2. CASE ~SignsOutOver(c, refresh.answer)
    <3>1. ~Busy(c) /\ queue' = queue /\ Keeps
      BY <1>2, <2>2 DEF Resume
    <3>2. pc' = [pc EXCEPT ![c] = pc'[c]] /\ with' = [with EXCEPT ![c] = with'[c]]
      BY <1>2, <2>2 DEF Resume
    <3>3. OnlyMoves(c)
      BY <1>2, <3>2 DEF Resume
    <3>4. Quiet(c)
      BY <3>1, <3>3
    <3>5. QED
      BY <3>4
  <2>3. QED
    BY <2>1, <2>2
<1>3. ASSUME ~Settling, NEW c \in Calls, Asks(c) PROVE Step
  <2>1. CASE Restore(c)
    <3>1. CASE MustRemove
      BY <1>3, <2>1, <3>1 DEF Restore
    <3>2. CASE ~MustRemove
      <4>1. Quiet(c)
        BY <1>3, <2>1, <3>2 DEF Restore
      <4>2. QED
        BY <4>1
    <3>3. QED
      BY <3>1, <3>2
  <2>2. CASE SignOut(c)
    BY <1>3, <2>2 DEF SignOut
  <2>3. CASE SignIn(c)
    <3>1. CASE MustRemove
      BY <1>3, <2>3, <3>1 DEF SignIn
    <3>2. CASE ~MustRemove
      <4>1. Quiet(c)
        BY <1>3, <2>3, <3>2 DEF SignIn
      <4>2. QED
        BY <4>1
    <3>3. QED
      BY <3>1, <3>2
  <2>4. CASE RefreshIfDue(c)
    BY <1>3, <2>4 DEF RefreshIfDue
  <2>5. CASE CallStarts(c)
    BY <1>3, <2>5 DEF CallStarts
  <2>6. QED
    BY <1>3, <2>1, <2>2, <2>3, <2>4, <2>5 DEF Asks
<1>4. ASSUME ~Settling, NEW c \in Calls, Answers(c) PROVE Step
  <2>1. ASSUME NEW u \in Users, SignInAnswered(c, u) PROVE Step
    <3>1. Quiet(c)
      BY <1>4, <2>1 DEF SignInAnswered
    <3>2. QED
      BY <3>1
  <2>2. CASE SignInRefused(c)
    BY <1>4, <2>2 DEF SignInRefused
  <2>3. CASE FillAnswered(c)
    <3>1. CASE StillCurrent(c)
      <4>1. \A i \in 1..Len(queue) : queue[i].kind = "save" => queue[i].value.user = stored.user
        BY <2>3, <3>1, FillFits DEF FillAnswered
      <4>2. stored = with[c] /\ stored # None
        BY <2>3, <3>1 DEF FillAnswered, StillCurrent, SessionsHeld
      <4>3. QueuesFill(c)
        BY <2>3, <3>1, <4>1, <4>2 DEF FillAnswered, QueuesFill
      <4>4. QED
        BY <4>3
    <3>2. CASE ~StillCurrent(c)
      BY <1>4, <2>3, <3>2 DEF FillAnswered
    <3>3. QED
      BY <3>1, <3>2
  <2>4. CASE FillRefused(c)
    BY <1>4, <2>4 DEF FillRefused
  <2>5. CASE CallEnds(c)
    BY <1>4, <2>5 DEF CallEnds
  <2>6. CASE CallRefused(c)
    <3>1. Quiet(c)
      BY <1>4, <2>6 DEF CallRefused
    <3>2. QED
      BY <3>1
  <2>7. CASE RetryRefused(c)
    <3>1. CASE since[c] = generation
      <4>1. QueuesRemoval(c)
        BY <1>4, <2>7, <3>1 DEF RetryRefused
      <4>2. QED
        BY <4>1
    <3>2. CASE since[c] # generation
      <4>1. Quiet(c)
        BY <1>4, <2>7, <3>2 DEF RetryRefused
      <4>2. QED
        BY <4>1
    <3>3. QED
      BY <3>1, <3>2
  <2>8. CASE ProfileAnswered(c)
    <3>1. with[c] \in Sessions /\ Until(with[c], issued) /\ with[c] # None
      BY <2>8 DEF ProfileAnswered, SessionsHeld, IssuedBefore
    <3>2. with[c].token <= issued
      BY <3>1 DEF Until
    <3>3. queue' = Append(queue, SaveTask(c, with[c])) /\ pc'[c] = "signIn.saving" /\ with'[c] = with[c]
      BY <2>8 DEF ProfileAnswered
    <3>4. ~Busy(c) /\ OnlyMoves(c) /\ Keeps
      BY <2>8 DEF ProfileAnswered
    <3>5. QueuesRenewal(c)
      BY <3>1, <3>2, <3>3, <3>4, CallsAssumption DEF QueuesRenewal, Brings
    <3>6. QED
      BY <3>5
  <2>9. QED
    BY <1>4, <2>1, <2>2, <2>3, <2>4, <2>5, <2>6, <2>7, <2>8 DEF Answers
<1>5. ASSUME ~Settling, NEW c \in Calls, Reads(c) PROVE Step
  <2>1. CASE ReadFile(c)
    <3>1. with' = [with EXCEPT ![c] = with'[c]] /\ pc' = [pc EXCEPT ![c] = pc'[c]] /\ pc[c] = "restore.reading"
          /\ UNCHANGED <<stored, refresh, file, queue>>
      BY <2>1 DEF ReadFile
    <3>2. Quiet(c)
      BY <3>1
    <3>3. QED
      BY <3>2
  <2>2. CASE Purge(c)
    BY <2>2 DEF Purge
  <2>3. ASSUME NEW expiring \in BOOLEAN, Restored(c, expiring) PROVE Step
    BY <2>3, RestoredRests
  <2>4. QED
    BY <1>5, <2>1, <2>2, <2>3 DEF Reads
<1>6. CASE SignInWithoutCipher
  BY <1>6 DEF SignInWithoutCipher, callVars
<1>7. CASE ~Settling /\ RefreshAnswers
  <2>1. CASE RefreshAnswered
    <3>1. CASE refresh.gen # generation
      BY <2>1, <3>1 DEF RefreshAnswered, callVars
    <3>2. CASE refresh.gen = generation
      <4> DEFINE s == [refresh.session EXCEPT !.token = issued + 1]
      <4>1. refresh.session \in Sessions
        BY <2>1 DEF RefreshAnswered, SessionsHeld, Refreshes
      <4>2. s \in Sessions /\ s.token = issued + 1
        BY <2>1, <4>1, IssuedSessions DEF RefreshAnswered, Sessions
      <4>3. refresh'.pc = "saving" /\ refresh'.session = s /\ queue' = Append(queue, SaveTask(Refresher, s))
        BY <2>1, <3>2 DEF RefreshAnswered, Refreshes
      <4>4. ~Busy(Refresher) /\ OnlyMoves(Refresher) /\ Keeps
        BY <2>1, <3>2 DEF RefreshAnswered, callVars
      <4>5. QueuesRenewal(Refresher)
        BY <4>2, <4>3, <4>4 DEF QueuesRenewal, Brings
      <4>6. QED
        BY <4>5
    <3>3. QED
      BY <3>1, <3>2
  <2>2. ASSUME NEW answer, RefreshRefused(answer) PROVE Step
    BY <2>2 DEF RefreshRefused, callVars
  <2>3. QED
    BY <1>7, <2>1, <2>2 DEF RefreshAnswers
<1>8. ASSUME ~Settling, NEW worked \in BOOLEAN, DiskEnds(worked) PROVE Step
  <2>1. ASSUME NEW by \in Callers, DiskStep(by, worked)
        PROVE  /\ queue # <<>> /\ queue[1].by = by /\ Awaited(queue[1], pc, with, refresh)
               /\ file' = IF worked THEN (IF queue[1].kind = "save" THEN queue[1].value ELSE None) ELSE file
               /\ queue[1].kind = "remove" => queue[1].kind # "save"
    <3>1. queue # <<>> /\ Head(queue) = queue[1] /\ 1 \in 1..Len(queue)
      BY <2>1, Dropped DEF DiskStep
    <3>2. QED
      BY <2>1, <3>1 DEF DiskStep, FileAfter, After, TasksAwaited
  <2> USE DEF Finishes, Lands, Awaited, Renews, FillsIn
  <2>2. CASE RefreshSaved(worked)
    <3>1. DiskStep(Refresher, worked) /\ queue' = Tail(queue) /\ OnlyMoves(Refresher)
      BY <2>2 DEF RefreshSaved, callVars
    <3>2. Finishes(Refresher)
      BY <2>1, <2>2, <3>1 DEF RefreshSaved, callVars
    <3>3. QED
      BY <3>2
  <2>3. ASSUME NEW c \in Calls, Removed(c, worked) PROVE Step
    BY <2>1, <2>3 DEF Removed
  <2>4. ASSUME NEW c \in Calls, SignOutCleaned(c, worked) PROVE Step
    BY <2>1, <2>4 DEF SignOutCleaned
  <2>5. ASSUME NEW c \in Calls, SignInCleaned(c, worked) PROVE Step
    BY <2>1, <2>5 DEF SignInCleaned
  <2>6. ASSUME NEW c \in Calls, SignInSaved(c, worked) PROVE Step
    BY <2>1, <2>6 DEF SignInSaved
  <2>7. ASSUME NEW c \in Calls, RestoreCleaned(c, worked) PROVE Step
    BY <2>1, <2>7 DEF RestoreCleaned
  <2>8. ASSUME NEW c \in Calls, FillSaved(c, worked) PROVE Step
    BY <2>1, <2>8 DEF FillSaved, StillCurrent
  <2>9. QED
    BY <1>8, <2>2, <2>3, <2>4, <2>5, <2>6, <2>7, <2>8 DEF DiskEnds
<1>9. CASE Crash
  BY <1>9 DEF Crash, Rests
<1>10. QED
  BY <1>1, <1>2, <1>3, <1>4, <1>5, <1>6, <1>7, <1>8, <1>9 DEF Next

-----------------------------------------------------------------------------
(* Each task that stays is still awaited, and still of the same sort.      *)
LEMMA StillAwaited ==
  ASSUME NEW x \in Callers, OnlyMoves(x), NEW t, t.by # x, Awaited(t, pc, with, refresh)
  PROVE  /\ Awaited(t, pc', with', refresh')
         /\ FillsIn(t, pc') <=> FillsIn(t, pc)
         /\ Renews(t, pc') <=> Renews(t, pc)
<1>1. t.by \in Calls => pc'[t.by] = pc[t.by] /\ with'[t.by] = with[t.by]
  BY DEF OnlyMoves
<1>2. t.by = Refresher => x # Refresher
  OBVIOUS
<1>3. Awaited(t, pc', with', refresh')
  BY <1>1, <1>2 DEF OnlyMoves, Awaited
<1>4. QED
  BY <1>1, <1>3, CallsAssumption DEF FillsIn, Renews, Awaited

(* What a step that queues or ends a task of x does to the queue.          *)
LEMMA QueueAfter ==
  ASSUME FileInv, TypeOK', NEW x \in Callers,
         Quiet(x) \/ QueuesRemoval(x) \/ QueuesRenewal(x) \/ QueuesFill(x) \/ Finishes(x)
  PROVE  /\ OnlyMoves(x) /\ Len(queue) \in Nat /\ Len(queue') \in Nat
         /\ \E k \in {0, 1} : Flows(x, k) /\ (k = 1 => Finishes(x)) /\ (k = 0 => ~Busy(x))
         /\ \A i \in 1..Len(queue') : queue'[i].by = x =>
              \/ x \in Calls /\ queue'[i] = RemoveTask(x) /\ pc'[x] \in Removals
              \/ QueuesRenewal(x) /\ \E s \in Sessions : queue'[i] = SaveTask(x, s) /\ Brings(x, s)
              \/ QueuesFill(x) /\ queue'[i] = SaveTask(x, Filled(x))
<1>1. /\ queue \in Seq(Tasks) /\ Len(queue) \in Nat /\ queue' \in Seq(Tasks) /\ Len(queue') \in Nat
      /\ TypeOK /\ TasksAwaited
  BY LenProperties DEF FileInv, IdentityInv, TypeOK
<1>2. OnlyMoves(x)
  BY DEF Quiet, QueuesRemoval, QueuesRenewal, QueuesFill, Finishes
<1>3. \E k \in {0, 1} : Flows(x, k) /\ (k = 1 => Finishes(x)) /\ (k = 0 => ~Busy(x))
  <2>1. CASE Finishes(x)
    BY <1>1, <2>1, FlowsOff
  <2>2. CASE ~Finishes(x)
    <3>1. Flows(x, 0)
      BY <1>1, <2>2, FlowsOn
    <3>2. ~Busy(x)
      BY <2>2 DEF Quiet, QueuesRemoval, QueuesRenewal, QueuesFill
    <3>3. QED
      BY <3>1, <3>2
  <2>3. QED
    BY <2>1, <2>2
<1>4. PICK k \in {0, 1} : Flows(x, k)
  BY <1>3
<1>5. SUFFICES ASSUME NEW i \in 1..Len(queue'), queue'[i].by = x
      PROVE \/ x \in Calls /\ queue'[i] = RemoveTask(x) /\ pc'[x] \in Removals
            \/ QueuesRenewal(x) /\ \E s \in Sessions : queue'[i] = SaveTask(x, s) /\ Brings(x, s)
            \/ QueuesFill(x) /\ queue'[i] = SaveTask(x, Filled(x))
  BY <1>1, <1>2, <1>3
<1>6. i = Len(queue')
  BY <1>4, <1>5 DEF Flows, Came
<1>7. ASSUME NEW q \in Seq(Tasks), NEW t \in Tasks, queue' = Append(q, t) PROVE queue'[i] = t
  BY <1>6, <1>7, Appended
<1>8. ~Busy(x) => queue' # queue
  BY <1>1, <1>5, NotQueued
<1>9. CASE QueuesRemoval(x)
  BY <1>1, <1>7, <1>9, TaskTypes DEF QueuesRemoval
<1>10. CASE QueuesRenewal(x)
  <2>1. PICK s \in Sessions : queue' = Append(queue, SaveTask(x, s)) /\ Brings(x, s)
    BY <1>10 DEF QueuesRenewal
  <2>2. queue'[i] = SaveTask(x, s)
    BY <1>1, <1>7, <2>1, TaskTypes DEF Callers
  <2>3. QED
    BY <1>10, <2>1, <2>2
<1>11. CASE QueuesFill(x)
  <2>1. with[x] \in Sessions /\ Filled(x) \in Sessions
    BY <1>1, <1>11 DEF QueuesFill, TypeOK, Filled, Sessions
  <2>2. queue'[i] = SaveTask(x, Filled(x))
    BY <1>1, <1>7, <1>11, <2>1, TaskTypes DEF QueuesFill, Callers
  <2>3. QED
    BY <1>11, <2>2
<1>12. CASE Finishes(x)
  <2>1. queue # <<>> /\ Tail(queue) \in Seq(Tasks)
    BY <1>1, <1>12, Dropped DEF Finishes
  <2>2. CASE queue' = Tail(queue)
    <3>1. i + 1 \in 1..Len(queue) /\ queue'[i] = queue[i + 1] /\ queue[1].by = x /\ 1 \in 1..Len(queue)
      BY <1>1, <1>5, <1>12, <2>1, <2>2, Dropped DEF Finishes
    <3>2. QED
      BY <1>1, <1>5, <3>1 DEF TasksAwaited
  <2>3. CASE queue' = Append(Tail(queue), RemoveTask(x)) /\ x \in Calls /\ pc'[x] \in Removals
    BY <1>7, <2>1, <2>3, TaskTypes
  <2>4. QED
    BY <1>12, <2>2, <2>3 DEF Finishes
<1>13. QED
  BY <1>8, <1>9, <1>10, <1>11, <1>12 DEF Quiet

LEMMA AwaitedStep ==
  ASSUME FileInv, Step, TypeOK'
  PROVE  TasksAwaited'
<1>1. CASE UNCHANGED <<stored, refresh, pc, with, file, queue>>
  BY <1>1 DEF FileInv, TasksAwaited, Awaited, Filled
<1>2. CASE Rests
  <2>1. Len(queue') = 0
    BY <1>2, EmptySeq DEF Rests
  <2>2. QED
    BY <2>1 DEF TasksAwaited
<1>3. ASSUME NEW x \in Callers,
             Quiet(x) \/ QueuesRemoval(x) \/ QueuesRenewal(x) \/ QueuesFill(x) \/ Finishes(x)
      PROVE  TasksAwaited'
  <2>1. /\ OnlyMoves(x) /\ Len(queue) \in Nat /\ Len(queue') \in Nat
        /\ \E k \in {0, 1} : Flows(x, k)
    BY <1>3, QueueAfter
  <2>2. PICK k \in {0, 1} : Flows(x, k)
    BY <2>1
  <2>3. ASSUME NEW i \in 1..Len(queue') PROVE Awaited(queue'[i], pc', with', refresh')
    <3>1. CASE Came(x, k, i)
      BY <2>1, <2>3, <3>1, StillAwaited DEF Came, FileInv, TasksAwaited
    <3>2. CASE queue'[i].by = x
      <4>1. CASE x \in Calls /\ queue'[i] = RemoveTask(x) /\ pc'[x] \in Removals
        BY <4>1 DEF RemoveTask, Awaited
      <4>2. ASSUME NEW s \in Sessions, queue'[i] = SaveTask(x, s), Brings(x, s)
            PROVE  Awaited(queue'[i], pc', with', refresh')
        BY <4>2 DEF SaveTask, Awaited, Callers, Brings
      <4>3. CASE QueuesFill(x) /\ queue'[i] = SaveTask(x, Filled(x))
        <5>1. x \in Calls /\ with'[x] = with[x] /\ pc'[x] = "fill.saving"
          BY <4>3 DEF QueuesFill
        <5>2. /\ queue'[i].kind = "save" /\ queue'[i].by = x
              /\ queue'[i].value = [with'[x] EXCEPT !.account = TRUE]
          BY <4>3, <5>1 DEF SaveTask, Filled
        <5>3. QED
          BY <5>1, <5>2, Zenon DEF Awaited
      <4>4. QED
        BY <1>3, <3>2, <4>1, <4>2, <4>3, QueueAfter
    <3>3. QED
      BY <2>2, <3>1, <3>2 DEF Flows
  <2>4. ASSUME NEW i \in 1..Len(queue'), NEW j \in 1..Len(queue'), queue'[i].by = queue'[j].by
        PROVE  i = j
    <3>1. CASE Came(x, k, i) /\ Came(x, k, j)
      <4>1. i + k = j + k
        BY <2>4, <3>1 DEF Came, FileInv, TasksAwaited
      <4>2. QED
        BY <2>1, <4>1
    <3>2. QED
      BY <2>2, <2>4, <3>1 DEF Flows, Came
  <2>5. QED
    BY <2>3, <2>4 DEF TasksAwaited
<1>4. QED
  BY <1>1, <1>2, <1>3 DEF Step

(* What a saved session leaves in memory.                                  *)
LEMMA Landed ==
  ASSUME FileInv, NEW x \in Callers, Finishes(x), Lands(x)
  PROVE  /\ 1 \in 1..Len(queue) /\ queue[1].by = x /\ queue[1].kind = "save" /\ queue[1].value \in Sessions
         /\ file' = queue[1].value /\ Awaited(queue[1], pc, with, refresh)
         /\ \/ Renews(queue[1], pc) /\ stored' = queue[1].value
            \/ /\ FillsIn(queue[1], pc) /\ x \in Calls /\ queue[1].value = Filled(x) /\ with[x] \in Sessions
               /\ stored' = stored \/ (stored = with[x] /\ stored' = Filled(x))
<1>1. 1 \in 1..Len(queue) /\ queue[1] \in Tasks /\ queue[1].by = x
  BY Dropped DEF FileInv, IdentityInv, TypeOK, Finishes
<1>2. Awaited(queue[1], pc, with, refresh)
  BY <1>1 DEF FileInv, TasksAwaited
<1>3. queue[1].value \in Sessions
  <2>1. refresh.pc = "saving" => refresh.session \in Sessions
    BY DEF FileInv, IdentityInv, TypeOK, Refreshes, SessionsHeld
  <2>2. \A c \in Calls : pc[c] \in Saves => with[c] \in Sessions /\ Filled(c) \in Sessions
    BY DEF FileInv, IdentityInv, TypeOK, SessionsHeld, Saves, Filled, Sessions
  <2>3. QED
    BY <1>2, <2>1, <2>2 DEF Awaited, Lands, Saves, Filled
<1>4. FillsIn(queue[1], pc) => x \in Calls /\ queue[1].value = Filled(x) /\ with[x] \in Sessions
  <2>1. \A c \in Calls : pc[c] \in Saves => with[c] \in Sessions
    BY DEF FileInv, IdentityInv, TypeOK, SessionsHeld, Saves
  <2>2. QED
    BY <1>1, <1>2, <2>1, CallsAssumption DEF FillsIn, Awaited, Saves, Filled
<1>5. QED
  BY <1>1, <1>2, <1>3, <1>4 DEF Lands

LEMMA FileStep ==
  ASSUME FileInv, Step, TypeOK'
  PROVE  FileIsTheAccounts'
<1>1. CASE UNCHANGED <<stored, refresh, pc, with, file, queue>>
  BY <1>1 DEF FileInv, FileIsTheAccounts, FillsIn
<1>2. CASE Rests
  <2>1. Len(queue') = 0
    BY <1>2, EmptySeq DEF Rests
  <2>2. QED
    BY <1>2, <2>1 DEF FileIsTheAccounts, Rests
<1>3. ASSUME NEW x \in Callers,
             Quiet(x) \/ QueuesRemoval(x) \/ QueuesRenewal(x) \/ QueuesFill(x) \/ Finishes(x)
      PROVE  FileIsTheAccounts'
  <2>1. /\ OnlyMoves(x) /\ Len(queue) \in Nat /\ Len(queue') \in Nat
        /\ \E k \in {0, 1} : Flows(x, k) /\ (k = 1 => Finishes(x)) /\ (k = 0 => ~Busy(x))
    BY <1>3, QueueAfter
  <2>2. PICK k \in {0, 1} : Flows(x, k) /\ (k = 1 => Finishes(x)) /\ (k = 0 => ~Busy(x))
    BY <2>1
  <2>3. stored' # None /\ file' # None => file'.user = stored'.user
    <3>1. CASE Keeps
      BY <3>1 DEF Keeps, FileInv, FileIsTheAccounts
    <3>2. CASE Finishes(x) /\ Lands(x)
      <4>1. \A s \in Sessions : [s EXCEPT !.account = TRUE].user = s.user
        BY DEF Sessions
      <4>2. FillsIn(queue[1], pc) /\ stored # None => stored.user = queue[1].value.user
        BY <3>2, Landed DEF FileInv, FileIsTheAccounts
      <4>3. QED
        BY <3>2, <4>1, <4>2, Landed DEF Filled
    <3>3. CASE UNCHANGED <<stored, file>>
      BY <3>3 DEF FileInv, FileIsTheAccounts
    <3>4. QED
      BY <1>3, <3>1, <3>2, <3>3 DEF Quiet, QueuesRemoval, QueuesRenewal, QueuesFill, Finishes
  <2>4. ASSUME NEW i \in 1..Len(queue'), FillsIn(queue'[i], pc'), Came(x, k, i)
        PROVE  /\ stored' # None => stored'.user = queue'[i].value.user
               /\ \A j \in 1..i : queue'[j].kind = "save" => queue'[j].value.user = queue'[i].value.user
    <3> DEFINE m == i + k
    <3>1. m \in 1..Len(queue) /\ queue'[i] = queue[m] /\ queue[m].by # x /\ Awaited(queue[m], pc, with, refresh)
      BY <2>4 DEF Came, FileInv, TasksAwaited
    <3>2. FillsIn(queue[m], pc)
      BY <2>1, <2>4, <3>1, StillAwaited
    <3>3. /\ stored # None => stored.user = queue[m].value.user
          /\ \A j \in 1..m : queue[j].kind = "save" => queue[j].value.user = queue[m].value.user
      BY <3>1, <3>2 DEF FileInv, FileIsTheAccounts
    <3>4. stored' # None => stored'.user = queue[m].value.user
      <4>1. CASE stored' \in {stored, None}
        BY <3>3, <4>1
      <4>2. CASE Finishes(x) /\ Lands(x)
        <5>1. 1 \in 1..m
          BY <2>1, <3>1
        <5>2. queue[1].value.user = queue[m].value.user
          BY <3>3, <4>2, <5>1, Landed
        <5>3. \A s \in Sessions : [s EXCEPT !.account = TRUE].user = s.user
          BY DEF Sessions
        <5>4. QED
          BY <3>3, <4>2, <5>2, <5>3, Landed DEF Filled
      <4>3. QED
        BY <1>3, <4>1, <4>2 DEF Quiet, QueuesRemoval, QueuesRenewal, QueuesFill, Finishes, Keeps
    <3>5. ASSUME NEW j \in 1..i, queue'[j].kind = "save"
          PROVE  queue'[j].value.user = queue[m].value.user
      <4>1. j \in 1..Len(queue')
        BY <2>1
      <4>2. Came(x, k, j)
        <5>1. j = Len(queue') => j = i
          BY <2>1
        <5>2. queue'[i].by # x
          BY <3>1
        <5>3. QED
          BY <2>2, <4>1, <5>1, <5>2 DEF Flows
      <4>3. j + k \in 1..m
        BY <2>1, <4>1, <4>2 DEF Came
      <4>4. queue'[j] = queue[j + k]
        BY <4>2 DEF Came
      <4>5. QED
        BY <3>3, <3>5, <4>3, <4>4
    <3>6. QED
      BY <3>1, <3>4, <3>5
  <2>5. ASSUME NEW i \in 1..Len(queue'), FillsIn(queue'[i], pc'), queue'[i].by = x
        PROVE  /\ stored' # None => stored'.user = queue'[i].value.user
               /\ \A j \in 1..i : queue'[j].kind = "save" => queue'[j].value.user = queue'[i].value.user
    <3>1. QueuesFill(x) /\ queue'[i] = SaveTask(x, Filled(x))
      <4>1. queue'[i].kind = "save" /\ x \in Calls /\ x # Refresher /\ pc'[x] = "fill.saving"
        BY <2>5, CallsAssumption DEF FillsIn
      <4>2. QED
        BY <1>3, <2>5, <4>1, QueueAfter DEF RemoveTask, Removals, Brings
    <3>2. with[x] \in Sessions /\ stored = with[x] /\ stored' = stored
      BY <3>1 DEF QueuesFill, FileInv, IdentityInv, TypeOK
    <3>3. queue'[i].value.user = stored.user
      BY <3>1, <3>2 DEF SaveTask, Filled, Sessions
    <3>4. ASSUME NEW j \in 1..i, queue'[j].kind = "save" PROVE queue'[j].value.user = stored.user
      <4>1. j \in 1..Len(queue')
        BY <2>1
      <4>2. CASE Came(x, k, j)
        BY <3>1, <3>4, <4>2 DEF Came, QueuesFill
      <4>3. CASE queue'[j].by = x
        <5>1. queue'[j] = SaveTask(x, Filled(x))
          <6>1. x \in Calls /\ x # Refresher /\ pc'[x] = "fill.saving"
            BY <3>1, CallsAssumption DEF QueuesFill
          <6>2. queue'[j] # RemoveTask(x)
            BY <3>4 DEF RemoveTask
          <6>3. QED
            BY <1>3, <4>1, <4>3, <6>1, <6>2, QueueAfter DEF Brings
        <5>2. QED
          BY <3>1, <3>3, <5>1
      <4>4. QED
        BY <2>2, <4>1, <4>2, <4>3 DEF Flows
    <3>5. QED
      BY <3>2, <3>3, <3>4
  <2>6. QED
    <3>1. \A i \in 1..Len(queue') : Came(x, k, i) \/ queue'[i].by = x
      BY <2>2 DEF Flows
    <3>2. QED
      BY <2>3, <2>4, <2>5, <3>1 DEF FileIsTheAccounts
<1>4. QED
  BY <1>1, <1>2, <1>3 DEF Step

LEMMA TokensStep ==
  ASSUME FileInv, Step, TypeOK'
  PROVE  TokensInOrder'
<1>1. CASE UNCHANGED <<stored, refresh, pc, with, file, queue>>
  BY <1>1 DEF FileInv, TokensInOrder, Renews, Refreshed
<1>2. CASE Rests
  <2>1. Len(queue') = 0
    BY <1>2, EmptySeq DEF Rests
  <2>2. QED
    BY <1>2, <2>1 DEF TokensInOrder
<1>3. ASSUME NEW x \in Callers,
             Quiet(x) \/ QueuesRemoval(x) \/ QueuesRenewal(x) \/ QueuesFill(x) \/ Finishes(x)
      PROVE  TokensInOrder'
  <2>1. /\ OnlyMoves(x) /\ Len(queue) \in Nat /\ Len(queue') \in Nat
        /\ \E k \in {0, 1} : Flows(x, k) /\ (k = 1 => Finishes(x)) /\ (k = 0 => ~Busy(x))
    BY <1>3, QueueAfter
  <2>2. PICK k \in {0, 1} : Flows(x, k) /\ (k = 1 => Finishes(x)) /\ (k = 0 => ~Busy(x))
    BY <2>1
  <2>3. ASSUME NEW i \in 1..Len(queue'), Refreshed(queue'[i]), Came(x, k, i)
        PROVE  /\ stored' # None => stored'.token <= queue'[i].value.token
               /\ \A j \in 1..i : Renews(queue'[j], pc') => queue'[j].value.token <= queue'[i].value.token
    <3> DEFINE m == i + k
    <3>1. m \in 1..Len(queue) /\ queue'[i] = queue[m] /\ queue[m].by # x /\ Awaited(queue[m], pc, with, refresh)
      BY <2>3 DEF Came, FileInv, TasksAwaited
    <3>2. Refreshed(queue[m])
      BY <2>3, <3>1
    <3>3. /\ stored # None => stored.token <= queue[m].value.token
          /\ \A j \in 1..m : Renews(queue[j], pc) => queue[j].value.token <= queue[m].value.token
      BY <3>1, <3>2 DEF FileInv, TokensInOrder
    <3>4. stored' # None => stored'.token <= queue[m].value.token
      <4>1. CASE stored' \in {stored, None}
        BY <3>3, <4>1
      <4>2. CASE Finishes(x) /\ Lands(x)
        <5>1. 1 \in 1..m
          BY <2>1, <3>1
        <5>2. Renews(queue[1], pc) => queue[1].value.token <= queue[m].value.token
          BY <3>3, <5>1
        <5>3. \A s \in Sessions : [s EXCEPT !.account = TRUE].token = s.token /\ s # None
          BY NoneAssumption DEF Sessions
        <5>4. ASSUME stored = with[x], stored' = Filled(x), with[x] \in Sessions
              PROVE  stored # None /\ stored'.token = stored.token
          BY <5>3, <5>4 DEF Filled
        <5>5. QED
          BY <3>3, <4>2, <5>2, <5>4, Landed
      <4>3. QED
        BY <1>3, <4>1, <4>2 DEF Quiet, QueuesRemoval, QueuesRenewal, QueuesFill, Finishes, Keeps
    <3>5. ASSUME NEW j \in 1..i, Renews(queue'[j], pc')
          PROVE  queue'[j].value.token <= queue[m].value.token
      <4>1. j \in 1..Len(queue')
        BY <2>1
      <4>2. Came(x, k, j)
        <5>1. j = Len(queue') => j = i
          BY <2>1
        <5>2. queue'[i].by # x
          BY <3>1
        <5>3. QED
          BY <2>2, <4>1, <5>1, <5>2 DEF Flows
      <4>3. j + k \in 1..m
        BY <2>1, <4>1, <4>2 DEF Came
      <4>4. /\ queue'[j] = queue[j + k] /\ queue[j + k].by # x
            /\ Awaited(queue[j + k], pc, with, refresh)
        BY <4>2 DEF Came, FileInv, TasksAwaited
      <4>5. Renews(queue[j + k], pc)
        BY <2>1, <3>5, <4>4, StillAwaited
      <4>6. QED
        BY <3>3, <4>3, <4>4, <4>5
    <3>6. QED
      BY <3>1, <3>4, <3>5
  <2>4. ASSUME NEW i \in 1..Len(queue'), Refreshed(queue'[i]), queue'[i].by = x
        PROVE  /\ stored' # None => stored'.token <= queue'[i].value.token
               /\ \A j \in 1..i : Renews(queue'[j], pc') => queue'[j].value.token <= queue'[i].value.token
    <3> DEFINE Own(j) == QueuesRenewal(x) /\ queue'[j].value.token = issued + 1
    <3>0. x = Refresher
      BY <2>4 DEF Refreshed
    <3>1. ASSUME NEW j \in 1..Len(queue'), Renews(queue'[j], pc'), queue'[j].by = x PROVE Own(j)
      <4>1. queue'[j] # RemoveTask(x)
        BY <3>1 DEF Renews, RemoveTask
      <4>2. ~QueuesFill(x)
        BY <3>1, CallsAssumption DEF Renews, QueuesFill
      <4>3. QED
        <5>1. QueuesRenewal(x) /\ \E s \in Sessions : s.token = issued + 1 /\ queue'[j] = SaveTask(x, s)
          BY <1>3, <3>0, <3>1, <4>1, <4>2, QueueAfter DEF Brings
        <5>2. QED
          BY <5>1 DEF SaveTask
    <3>2. Own(i)
      BY <2>4, <3>1 DEF Refreshed, Renews
    <3>3. Keeps /\ issued \in Int
      BY <3>2 DEF QueuesRenewal, FileInv, IdentityInv, TypeOK
    <3>4. \A s \in Sessions : s.token \in Int
      BY DEF Sessions
    <3>5. stored' # None => stored'.token <= issued + 1
      BY <3>3, <3>4 DEF Keeps, FileInv, IdentityInv, TypeOK, IssuedBefore, Until
    <3>6. ASSUME NEW j \in 1..i, Renews(queue'[j], pc') PROVE queue'[j].value.token <= issued + 1
      <4>1. j \in 1..Len(queue')
        BY <2>1
      <4>2. CASE queue'[j].by = x
        BY <3>1, <3>3, <3>6, <4>1, <4>2
      <4>3. CASE Came(x, k, j)
        <5>1. /\ queue'[j] = queue[j + k] /\ queue[j + k].by # x
              /\ Awaited(queue[j + k], pc, with, refresh)
          BY <4>3 DEF Came, FileInv, TasksAwaited
        <5>2. Renews(queue[j + k], pc)
          BY <2>1, <3>6, <5>1, StillAwaited
        <5>3. /\ refresh.pc = "saving" => refresh.session \in Sessions /\ refresh.session # None
              /\ \A c \in Calls : pc[c] = "signIn.saving" => with[c] \in Sessions /\ with[c] # None
          BY DEF FileInv, IdentityInv, TypeOK, Refreshes, SessionsHeld
        <5>4. queue[j + k].value.token \in Int /\ queue[j + k].value.token <= issued
          BY <3>4, <5>1, <5>2, <5>3, CallsAssumption DEF Awaited, Renews, FileInv, IssuedBefore, Until
        <5>5. QED
          BY <3>3, <5>1, <5>4
      <4>4. QED
        BY <2>2, <4>1, <4>2, <4>3 DEF Flows
    <3>7. QED
      BY <3>2, <3>5, <3>6
  <2>5. QED
    <3>1. \A i \in 1..Len(queue') : Came(x, k, i) \/ queue'[i].by = x
      BY <2>2 DEF Flows
    <3>2. QED
      BY <2>3, <2>4, <3>1 DEF TokensInOrder
<1>4. QED
  BY <1>1, <1>2, <1>3 DEF Step

-----------------------------------------------------------------------------
(* While a restore has yet to act on what it read, nothing is queued.      *)
LEMMA NothingQueued ==
  ASSUME FileInv, NEW c \in Calls, pc[c] = "restore.read"
  PROVE  queue = <<>> /\ launched = "restoring" /\ \A d \in Calls \ {c} : pc[d] = "idle"
<1>1. refresh.pc = "none" /\ launched = "restoring" /\ \A d \in Calls \ {c} : pc[d] = "idle"
  BY DEF FileInv, IdentityInv, RestoreIsAlone, RestorePcs, EarlyRestorePcs, Idle
<1>2. \A i \in 1..Len(queue) : FALSE
  BY <1>1 DEF FileInv, TasksAwaited, Awaited, Removals
<1>3. queue = <<>>
  BY <1>2, EmptySeq, LenProperties DEF FileInv, IdentityInv, TypeOK
<1>4. QED
  BY <1>1, <1>3

LEMMA ReadStep ==
  ASSUME RestoreFirst, FileInv, [Next]_vars
  PROVE  ReadInTurn'
<1> USE CallsAssumption DEF ReadInTurn, EarlyRestorePcs, FileInv, IdentityInv, TypeOK, Goto, Held, Start,
            Settling, SetNull, Open
<1>1. CASE UNCHANGED vars
  BY <1>1 DEF vars, callVars
<1>2. ASSUME NEW c \in Calls, Resume(c) PROVE ReadInTurn'
  <2>1. pc[c] \notin EarlyRestorePcs /\ pc'[c] \notin EarlyRestorePcs
    BY <1>2 DEF Resume, WaitPcs
  <2>2. \A d \in Calls \ {c} : pc'[d] = pc[d] /\ with'[d] = with[d]
    BY <1>2 DEF Resume
  <2>3. launched # "no" /\ launched' # "no"
    BY <1>2 DEF Resume, RestoreIsAlone, WaitPcs, Idle
  <2>4. stored' \in {stored, None} /\ file' = file
    BY <1>2 DEF Resume
  <2>5. QED
    BY <2>1, <2>2, <2>3, <2>4
<1>3. ASSUME ~Settling, NEW c \in Calls, Asks(c) PROVE ReadInTurn'
  <2>1. CASE Restore(c)
    BY <1>3, <2>1 DEF Restore
  <2>2. CASE SignOut(c)
    BY <1>3, <2>2 DEF SignOut
  <2>3. CASE SignIn(c)
    BY <1>3, <2>3 DEF SignIn
  <2>4. CASE RefreshIfDue(c)
    BY <1>3, <2>4 DEF RefreshIfDue
  <2>5. CASE CallStarts(c)
    BY <1>3, <2>5 DEF CallStarts
  <2>6. QED
    BY <1>3, <2>1, <2>2, <2>3, <2>4, <2>5 DEF Asks
<1>4. ASSUME ~Settling, NEW c \in Calls, Answers(c) PROVE ReadInTurn'
  <2>1. ASSUME NEW u \in Users, SignInAnswered(c, u) PROVE ReadInTurn'
    BY <2>1 DEF SignInAnswered
  <2>2. CASE SignInRefused(c)
    BY <1>4, <2>2 DEF SignInRefused
  <2>3. CASE FillAnswered(c)
    BY <1>4, <2>3 DEF FillAnswered
  <2>4. CASE FillRefused(c)
    BY <1>4, <2>4 DEF FillRefused
  <2>5. CASE CallEnds(c)
    BY <1>4, <2>5 DEF CallEnds
  <2>6. CASE CallRefused(c)
    BY <1>4, <2>6 DEF CallRefused
  <2>7. CASE RetryRefused(c)
    BY <1>4, <2>7 DEF RetryRefused
  <2>8. CASE ProfileAnswered(c)
    BY <2>8 DEF ProfileAnswered
  <2>9. QED
    BY <1>4, <2>1, <2>2, <2>3, <2>4, <2>5, <2>6, <2>7, <2>8 DEF Answers
<1>5. ASSUME ~Settling, NEW c \in Calls, Reads(c) PROVE ReadInTurn'
  <2>1. CASE ReadFile(c)
    BY <2>1 DEF ReadFile
  <2>2. CASE Purge(c)
    BY <2>2 DEF Purge
  <2>3. ASSUME NEW expiring \in BOOLEAN, Restored(c, expiring) PROVE ReadInTurn'
    <3>1. pc[c] = "restore.read" /\ launched = "restoring" /\ \A d \in Calls \ {c} : pc[d] = "idle"
      BY <2>3, NothingQueued DEF Restored
    <3>2. \A d \in Calls : pc'[d] \notin EarlyRestorePcs
      BY <2>3, RestoredAlone
    <3>3. launched' # "no"
      BY <2>3, <3>1 DEF Restored
    <3>4. QED
      BY <3>2, <3>3
  <2>4. QED
    BY <1>5, <2>1, <2>2, <2>3 DEF Reads
<1>6. CASE SignInWithoutCipher
  BY <1>6 DEF SignInWithoutCipher, callVars
<1>7. CASE RefreshAnswers
  BY <1>7 DEF RefreshAnswers, RefreshAnswered, RefreshRefused, callVars
<1>8. ASSUME ~Settling, NEW worked \in BOOLEAN, DiskEnds(worked) PROVE ReadInTurn'
  <2>1. ASSUME NEW by, DiskStep(by, worked) PROVE \A c \in Calls : pc[c] # "restore.read"
    BY <2>1, NothingQueued DEF DiskStep
  <2>2. ASSUME NEW c \in Calls, DiskStep(c, worked)
        PROVE  queue # <<>> /\ Head(queue).by = c
    BY <2>2 DEF DiskStep
  <2>3. CASE RefreshSaved(worked)
    BY <2>1, <2>3 DEF RefreshSaved, callVars, RestoreIsAlone
  <2>4. ASSUME NEW c \in Calls, Removed(c, worked) PROVE ReadInTurn'
    BY <2>1, <2>4 DEF Removed, RestoreIsAlone, Idle
  <2>5. ASSUME NEW c \in Calls, SignOutCleaned(c, worked) PROVE ReadInTurn'
    BY <2>1, <2>5 DEF SignOutCleaned, RestoreIsAlone, Idle
  <2>6. ASSUME NEW c \in Calls, SignInCleaned(c, worked) PROVE ReadInTurn'
    BY <2>1, <2>6 DEF SignInCleaned, RestoreIsAlone, Idle
  <2>7. ASSUME NEW c \in Calls, SignInSaved(c, worked) PROVE ReadInTurn'
    BY <2>1, <2>7 DEF SignInSaved, RestoreIsAlone, RestorePcs, Idle
  <2>8. ASSUME NEW c \in Calls, RestoreCleaned(c, worked) PROVE ReadInTurn'
    BY <2>1, <2>8 DEF RestoreCleaned, RestoreIsAlone, Idle
  <2>9. ASSUME NEW c \in Calls, FillSaved(c, worked) PROVE ReadInTurn'
    BY <2>1, <2>9 DEF FillSaved, RestoreIsAlone, RestorePcs, Idle
  <2>10. QED
    BY <1>8, <2>3, <2>4, <2>5, <2>6, <2>7, <2>8, <2>9 DEF DiskEnds
<1>9. CASE Crash
  BY <1>9 DEF Crash
<1>10. QED
  BY <1>1, <1>2, <1>3, <1>4, <1>5, <1>6, <1>7, <1>8, <1>9 DEF Next

LEMMA FillStep ==
  ASSUME RestoreFirst, FileInv, [Next]_vars
  PROVE  FillUndisturbed'
<1> USE CallsAssumption DEF FillUndisturbed, SigningIn, SignInPcs, FileInv, IdentityInv, TypeOK, GenerationsPassed,
            Goto, Held, Start, Settling, Settle, SetNull, JoinRefresh, Refreshing, NoRefresh
<1>1. CASE UNCHANGED vars
  BY <1>1 DEF vars, callVars
<1>2. ASSUME NEW c \in Calls, Resume(c) PROVE FillUndisturbed'
  <2>1. CASE SignsOutOver(c, refresh.answer)
    BY <1>2, <2>1 DEF Resume
  <2>2. CASE ~SignsOutOver(c, refresh.answer) /\ Fills(c)
    <3>1. \A d \in Calls \ {c} : pc[d] = "idle"
      BY <2>2 DEF Fills, RestoreIsAlone, RestorePcs, Idle
    <3>2. pc'[c] = "fill.asking" /\ \A d \in Calls \ {c} : pc'[d] = "idle"
      BY <1>2, <2>2, <3>1 DEF Resume, Fills, Retries
    <3>3. refresh'.pc = "none"
      BY <1>2, <3>1 DEF Resume, WaitPcs
    <3>4. QED
      BY <3>2, <3>3
  <2>3. CASE ~SignsOutOver(c, refresh.answer) /\ ~Fills(c)
    <3>1. pc'[c] \in {"call.retrying", "idle"} /\ \A d \in Calls \ {c} : pc'[d] = pc[d]
      BY <1>2, <2>3 DEF Resume
    <3>2. UNCHANGED <<since, generation>> /\ refresh' \in {refresh, NoRefresh}
      BY <1>2, <2>3 DEF Resume
    <3>3. QED
      BY <1>2, <3>1, <3>2 DEF Resume
  <2>4. QED
    BY <2>1, <2>2, <2>3
<1>3. ASSUME ~Settling, NEW c \in Calls, Asks(c) PROVE FillUndisturbed'
  <2>1. CASE Restore(c)
    <3>1. \A d \in Calls : pc'[d] # "fill.asking"
      BY <2>1 DEF Restore, RestoreIsAlone, Idle
    <3>2. QED
      BY <3>1
  <2>2. CASE SignOut(c)
    <3>1. \A d \in Calls \ {c} : since'[d] # generation'
      BY <2>2, GenerationMoves DEF SignOut
    <3>2. pc'[c] # "fill.asking"
      BY <2>2 DEF SignOut
    <3>3. QED
      BY <3>1, <3>2
  <2>3. CASE SignIn(c)
    <3>1. \A d \in Calls \ {c} : since'[d] # generation'
      BY <2>3, GenerationMoves DEF SignIn
    <3>2. pc'[c] # "fill.asking"
      BY <2>3 DEF SignIn
    <3>3. QED
      BY <3>1, <3>2
  <2>4. CASE RefreshIfDue(c)
    BY <1>3, <2>4 DEF RefreshIfDue
  <2>5. CASE CallStarts(c)
    BY <1>3, <2>5 DEF CallStarts
  <2>6. QED
    BY <1>3, <2>1, <2>2, <2>3, <2>4, <2>5 DEF Asks
<1>4. ASSUME ~Settling, NEW c \in Calls, Answers(c) PROVE FillUndisturbed'
  <2>1. ASSUME NEW u \in Users, SignInAnswered(c, u) PROVE FillUndisturbed'
    BY <2>1 DEF SignInAnswered
  <2>2. CASE SignInRefused(c)
    BY <1>4, <2>2 DEF SignInRefused
  <2>3. CASE FillAnswered(c)
    BY <1>4, <2>3 DEF FillAnswered
  <2>4. CASE FillRefused(c)
    BY <1>4, <2>4 DEF FillRefused
  <2>5. CASE CallEnds(c)
    BY <1>4, <2>5 DEF CallEnds
  <2>6. CASE CallRefused(c)
    <3>1. pc'[c] \in {"call.refresh", "idle"} /\ pc[c] = "call.asking" /\ \A d \in Calls \ {c} : pc'[d] = pc[d]
      BY <2>6 DEF CallRefused
    <3>2. UNCHANGED <<since, generation>>
      BY <2>6 DEF CallRefused
    <3>3. refresh' = refresh \/ (refresh'.gen = generation /\ refresh'.calm = ~SigningIn)
      BY <2>6 DEF CallRefused
    <3>4. SigningIn' => SigningIn
      BY <3>1
    <3>5. QED
      BY <3>1, <3>2, <3>3, <3>4
  <2>7. CASE RetryRefused(c)
    BY <1>4, <2>7 DEF RetryRefused
  <2>8. CASE ProfileAnswered(c)
    BY <2>8 DEF ProfileAnswered
  <2>9. QED
    BY <1>4, <2>1, <2>2, <2>3, <2>4, <2>5, <2>6, <2>7, <2>8 DEF Answers
<1>5. ASSUME ~Settling, NEW c \in Calls, Reads(c) PROVE FillUndisturbed'
  <2>1. CASE ReadFile(c)
    BY <2>1 DEF ReadFile
  <2>2. CASE Purge(c)
    BY <2>2 DEF Purge
  <2>3. ASSUME NEW expiring \in BOOLEAN, Restored(c, expiring) PROVE FillUndisturbed'
    <3>1. \A d \in Calls \ {c} : pc'[d] = "idle"
      BY <2>3, NothingQueued DEF Restored
    <3>2. pc'[c] = "fill.asking" => refresh' = refresh /\ refresh.pc = "none"
      BY <2>3 DEF Restored, RestoreIsAlone, EarlyRestorePcs
    <3>3. QED
      BY <3>1, <3>2
  <2>4. QED
    BY <1>5, <2>1, <2>2, <2>3 DEF Reads
<1>6. CASE SignInWithoutCipher
  BY <1>6, GenerationMoves DEF SignInWithoutCipher, callVars
<1>7. CASE RefreshAnswers
  <2>1. CASE RefreshAnswered
    BY <2>1, RefreshAnsweredShape DEF RefreshAnswered, callVars
  <2>2. ASSUME NEW answer, RefreshRefused(answer) PROVE FillUndisturbed'
    BY <2>2 DEF RefreshRefused, callVars
  <2>3. QED
    BY <1>7, <2>1, <2>2 DEF RefreshAnswers
<1>8. ASSUME ~Settling, NEW worked \in BOOLEAN, DiskEnds(worked) PROVE FillUndisturbed'
  <2>1. CASE RefreshSaved(worked)
    BY <2>1 DEF RefreshSaved, callVars
  <2>2. ASSUME NEW c \in Calls, Removed(c, worked) PROVE FillUndisturbed'
    BY <2>2 DEF Removed
  <2>3. ASSUME NEW c \in Calls, SignOutCleaned(c, worked) PROVE FillUndisturbed'
    BY <2>3 DEF SignOutCleaned
  <2>4. ASSUME NEW c \in Calls, SignInCleaned(c, worked) PROVE FillUndisturbed'
    BY <2>4 DEF SignInCleaned
  <2>5. ASSUME NEW c \in Calls, SignInSaved(c, worked) PROVE FillUndisturbed'
    BY <2>5 DEF SignInSaved
  <2>6. ASSUME NEW c \in Calls, RestoreCleaned(c, worked) PROVE FillUndisturbed'
    BY <2>6 DEF RestoreCleaned
  <2>7. ASSUME NEW c \in Calls, FillSaved(c, worked) PROVE FillUndisturbed'
    BY <2>7 DEF FillSaved
  <2>8. QED
    BY <1>8, <2>1, <2>2, <2>3, <2>4, <2>5, <2>6, <2>7 DEF DiskEnds
<1>9. CASE Crash
  BY <1>9 DEF Crash
<1>10. QED
  BY <1>1, <1>2, <1>3, <1>4, <1>5, <1>6, <1>7, <1>8, <1>9 DEF Next

(* Every session held somewhere has a token that was issued.               *)
LEMMA IssuedStep ==
  ASSUME FileInv, [Next]_vars
  PROVE  IssuedBefore'
<1> USE DEF IssuedBefore, FileInv, IdentityInv, TypeOK, Goto, Held, Start,
            Settling, Settle, SetNull, JoinRefresh, Refreshing, NoRefresh
<1>0. /\ issued \in Int /\ \A s \in Sessions : s.token \in Int
      /\ \A s \in Sessions \cup {None} : Until(s, issued) => Until(s, issued + 1)
  BY NoneAssumption DEF Until, Sessions
<1>1. CASE UNCHANGED vars
  BY <1>1 DEF vars, callVars
<1>2. ASSUME NEW c \in Calls, Resume(c) PROVE IssuedBefore'
  <2>1. Until(None, issued)
    BY DEF Until
  <2>2. UNCHANGED <<file, issued>> /\ stored' \in {stored, None} /\ refresh'.session \in {refresh.session, None}
    BY <1>2 DEF Resume
  <2>3. \A d \in Calls : with'[d] \in {with[d], refresh.session}
    BY <1>2 DEF Resume
  <2>4. QED
    BY <2>1, <2>2, <2>3
<1>3. ASSUME ~Settling, NEW c \in Calls, Asks(c) PROVE IssuedBefore'
  <2>1. CASE Restore(c)
    BY <1>3, <2>1 DEF Restore
  <2>2. CASE SignOut(c)
    BY <1>3, <2>2 DEF SignOut, Until
  <2>3. CASE SignIn(c)
    BY <1>3, <2>3 DEF SignIn
  <2>4. CASE RefreshIfDue(c)
    BY <1>3, <2>4 DEF RefreshIfDue
  <2>5. CASE CallStarts(c)
    BY <1>3, <2>5 DEF CallStarts
  <2>6. QED
    BY <1>3, <2>1, <2>2, <2>3, <2>4, <2>5 DEF Asks
<1>4. ASSUME ~Settling, NEW c \in Calls, Answers(c) PROVE IssuedBefore'
  <2>1. ASSUME NEW u \in Users, SignInAnswered(c, u) PROVE IssuedBefore'
    <3>1. /\ issued' = issued + 1 /\ UNCHANGED <<stored, file, refresh>>
          /\ with'[c] = [user |-> u, token |-> issued + 1, account |-> TRUE]
          /\ \A d \in Calls \ {c} : with'[d] = with[d]
      BY <2>1 DEF SignInAnswered
    <3>2. Until(with'[c], issued + 1)
      BY <1>0, <3>1 DEF Until
    <3>3. refresh.session \in Sessions \cup {None}
      BY DEF Refreshes
    <3>4. QED
      BY <1>0, <3>1, <3>2, <3>3
  <2>2. CASE SignInRefused(c)
    BY <1>4, <2>2 DEF SignInRefused
  <2>3. CASE FillAnswered(c)
    BY <1>4, <2>3 DEF FillAnswered
  <2>4. CASE FillRefused(c)
    BY <1>4, <2>4 DEF FillRefused
  <2>5. CASE CallEnds(c)
    BY <1>4, <2>5 DEF CallEnds
  <2>6. CASE CallRefused(c)
    BY <1>4, <2>6 DEF CallRefused
  <2>7. CASE RetryRefused(c)
    BY <1>4, <2>7 DEF RetryRefused, Until
  <2>8. CASE ProfileAnswered(c)
    BY <2>8 DEF ProfileAnswered
  <2>9. QED
    BY <1>4, <2>1, <2>2, <2>3, <2>4, <2>5, <2>6, <2>7, <2>8 DEF Answers
<1>5. ASSUME ~Settling, NEW c \in Calls, Reads(c) PROVE IssuedBefore'
  <2>1. CASE ReadFile(c)
    <3>1. UNCHANGED <<stored, file, refresh, issued>> /\ \A d \in Calls : with'[d] \in {with[d], file, None}
      BY <2>1 DEF ReadFile
    <3>2. QED
      BY <3>1 DEF Until
  <2>2. CASE Purge(c)
    BY <2>2 DEF Purge, Until
  <2>3. ASSUME NEW expiring \in BOOLEAN, Restored(c, expiring) PROVE IssuedBefore'
    BY <2>3 DEF Restored
  <2>4. QED
    BY <1>5, <2>1, <2>2, <2>3 DEF Reads
<1>6. CASE SignInWithoutCipher
  BY <1>6 DEF SignInWithoutCipher, callVars
<1>7. CASE RefreshAnswers
  <2>1. CASE RefreshAnswered
    <3>1. issued' = issued + 1 /\ UNCHANGED <<stored, file, with>> /\ refresh.session \in Sessions
      BY <2>1 DEF RefreshAnswered, callVars, SessionsHeld, Refreshes
    <3>2. refresh'.session = refresh.session \/ refresh'.session.token = issued + 1
      <4>1. CASE refresh.gen # generation
        BY <2>1, <4>1 DEF RefreshAnswered, Refreshes
      <4>2. CASE refresh.gen = generation
        <5>1. [refresh.session EXCEPT !.token = issued + 1].token = issued + 1
          BY <3>1 DEF Sessions
        <5>2. refresh'.session = [refresh.session EXCEPT !.token = issued + 1]
          BY <2>1, <4>2 DEF RefreshAnswered, Refreshes
        <5>3. QED
          BY <5>1, <5>2
      <4>3. QED
        BY <4>1, <4>2
    <3>3. Until(refresh'.session, issued + 1)
      BY <1>0, <3>1, <3>2 DEF Until
    <3>4. QED
      BY <1>0, <3>1, <3>3
  <2>2. ASSUME NEW answer, RefreshRefused(answer) PROVE IssuedBefore'
    BY <2>2 DEF RefreshRefused, callVars
  <2>3. QED
    BY <1>7, <2>1, <2>2 DEF RefreshAnswers
<1>8. ASSUME ~Settling, NEW worked \in BOOLEAN, DiskEnds(worked) PROVE IssuedBefore'
  <2>1. ASSUME NEW by \in Callers, DiskStep(by, worked)
        PROVE  Until(file', issued)
    <3>1. queue # <<>> /\ Head(queue) = queue[1] /\ 1 \in 1..Len(queue)
      BY <2>1, Dropped DEF DiskStep
    <3>2. Awaited(queue[1], pc, with, refresh)
      BY <3>1 DEF TasksAwaited
    <3>3. \A c \in Calls : pc[c] = "fill.saving" => with[c] \in Sessions /\ with[c] # None /\ Filled(c).token = with[c].token
      BY DEF SessionsHeld, Filled, Sessions
    <3>4. queue[1].kind = "save" => Until(queue[1].value, issued)
      BY <3>2, <3>3 DEF Awaited, Until, Filled
    <3>5. QED
      BY <2>1, <3>1, <3>4 DEF DiskStep, FileAfter, After, Until
  <2> USE DEF Callers
  <2>2. CASE RefreshSaved(worked)
    BY <2>1, <2>2 DEF RefreshSaved, callVars
  <2>3. ASSUME NEW c \in Calls, Removed(c, worked) PROVE IssuedBefore'
    BY <2>1, <2>3 DEF Removed
  <2>4. ASSUME NEW c \in Calls, SignOutCleaned(c, worked) PROVE IssuedBefore'
    BY <2>1, <2>4 DEF SignOutCleaned, Until
  <2>5. ASSUME NEW c \in Calls, SignInCleaned(c, worked) PROVE IssuedBefore'
    BY <2>1, <2>5 DEF SignInCleaned
  <2>6. ASSUME NEW c \in Calls, SignInSaved(c, worked) PROVE IssuedBefore'
    BY <2>1, <2>6 DEF SignInSaved
  <2>7. ASSUME NEW c \in Calls, RestoreCleaned(c, worked) PROVE IssuedBefore'
    BY <2>1, <2>7 DEF RestoreCleaned
  <2>8. ASSUME NEW c \in Calls, FillSaved(c, worked) PROVE IssuedBefore'
    <3>1. with[c] \in Sessions /\ with[c] # None /\ Filled(c).token = with[c].token
      BY <2>8 DEF FillSaved, SessionsHeld, Filled, Sessions
    <3>2. Until(Filled(c), issued)
      BY <3>1 DEF Until
    <3>3. UNCHANGED <<refresh, with, issued>> /\ stored' \in {stored, Filled(c)} /\ DiskStep(c, worked)
      BY <2>8 DEF FillSaved
    <3>4. QED
      BY <2>1, <3>2, <3>3
  <2>9. QED
    BY <1>8, <2>2, <2>3, <2>4, <2>5, <2>6, <2>7, <2>8 DEF DiskEnds
<1>9. CASE Crash
  BY <1>9 DEF Crash, Until
<1>10. QED
  BY <1>1, <1>2, <1>3, <1>4, <1>5, <1>6, <1>7, <1>8, <1>9 DEF Next

-----------------------------------------------------------------------------
(* The file before anything has run.                                       *)
LEMMA FileInvInit ==
  ASSUME Init
  PROVE  /\ TasksAwaited /\ ReadInTurn /\ FillUndisturbed /\ FileIsTheAccounts
         /\ IssuedBefore /\ TokensInOrder
<1>1. /\ queue = <<>> /\ stored = None /\ refresh.session = None /\ issued = 1
      /\ \A c \in Calls : pc[c] = "idle" /\ with[c] = None
      /\ file # None => file.token = 1
  BY DEF Init, Launch, NoRefresh
<1>2. Len(queue) = 0
  BY <1>1, EmptySeq
<1>3. QED
  BY <1>1, <1>2 DEF TasksAwaited, ReadInTurn, FillUndisturbed, FileIsTheAccounts, IssuedBefore, TokensInOrder,
                    Until, EarlyRestorePcs

(* The inductive invariant of the file, which holds in the engine's order. *)
THEOREM FileInvariant ==
  ASSUME RestoreFirst
  PROVE  Spec => []FileInv
<1> DEFINE Rest == TasksAwaited /\ ReadInTurn /\ FillUndisturbed /\ FileIsTheAccounts /\ IssuedBefore /\ TokensInOrder
<1>1. Init => Rest
  BY FileInvInit
<1>2. ASSUME IdentityInv, IdentityInv', Rest, [Next]_vars PROVE Rest'
  <2>1. FileInv /\ TypeOK'
    BY <1>2 DEF FileInv, IdentityInv
  <2>2. Step
    BY <1>2, <2>1, StepsAreThese
  <2>3. QED
    BY <1>2, <2>1, <2>2, AwaitedStep, ReadStep, FillStep, FileStep, IssuedStep, TokensStep
<1>3. IdentityInv /\ Rest => FileInv
  BY DEF FileInv
<1> HIDE DEF Rest
<1>4. QED
  BY <1>1, <1>2, <1>3, IdentityInvariant, PTL DEF Spec

(* With nothing left to write, a restart finds the account that is signed  *)
(* in (SessionStore), whatever was refused, and whatever overlapped.       *)
THEOREM RestartsFindTheAccount ==
  ASSUME RestoreFirst
  PROVE  Spec => []RestartFindsAccount
<1>1. FileInv => RestartFindsAccount
  BY DEF FileInv, FileIsTheAccounts, RestartFindsAccount
<1>2. QED
  BY <1>1, FileInvariant, PTL

(* Only a sign-in, saved after a refresh that overtook it, may bring memory *)
(* an older token (SessionStore): what a refresh lands in the file, and     *)
(* then in memory, is in the order in which the server issued it, whatever  *)
(* sign-ins, sign-outs and requests for the account it overlaps.            *)
THEOREM TokensMoveForward ==
  ASSUME RestoreFirst
  PROVE  Spec => TokenMovesForward
<1> DEFINE Forward == stored # None /\ stored' # None /\ stored'.token < stored.token
                        => \E c \in Calls : pc[c] = "signIn.saving" /\ stored' = with[c]
<1>1. ASSUME FileInv, [Next]_vars PROVE Forward
  <2> SUFFICES ASSUME stored # None, stored' # None, stored'.token < stored.token
               PROVE  \E c \in Calls : pc[c] = "signIn.saving" /\ stored' = with[c]
    OBVIOUS
  <2>1. \A s \in Sessions : s.token \in Int /\ [s EXCEPT !.account = TRUE].token = s.token
    BY DEF Sessions
  <2>2. stored \in Sessions
    BY <1>1 DEF FileInv, IdentityInv, TypeOK
  <2>3. stored' # stored
    BY <2>1, <2>2
  <2>4. PICK x \in Callers : Finishes(x) /\ Lands(x)
    BY <1>1, <2>3, StepsAreThese DEF Step, Rests, Quiet, QueuesRemoval, QueuesRenewal, QueuesFill, Finishes, Keeps
  <2>5. /\ 1 \in 1..Len(queue) /\ queue[1].value \in Sessions /\ queue[1].kind = "save"
        /\ Awaited(queue[1], pc, with, refresh)
        /\ \/ Renews(queue[1], pc) /\ stored' = queue[1].value
           \/ with[x] = stored /\ stored' = Filled(x)
    BY <1>1, <2>3, <2>4, Landed
  <2>6. CASE with[x] = stored /\ stored' = Filled(x)
    BY <2>1, <2>2, <2>6 DEF Filled
  <2>7. CASE queue[1].by = Refresher /\ stored' = queue[1].value
    <3>1. stored.token <= queue[1].value.token
      BY <1>1, <2>5, <2>7 DEF FileInv, TokensInOrder, Refreshed
    <3>2. stored.token \in Int /\ queue[1].value.token \in Int
      BY <2>1, <2>2, <2>5
    <3>3. QED
      BY <2>7, <3>1, <3>2
  <2>8. CASE queue[1].by # Refresher /\ Renews(queue[1], pc) /\ stored' = queue[1].value
    BY <2>5, <2>8 DEF Renews, Awaited
  <2>9. QED
    BY <2>5, <2>6, <2>7, <2>8
<1>2. QED
  BY <1>1, FileInvariant, PTL DEF Spec, TokenMovesForward
=============================================================================
