---------------------------- MODULE SessionStore ----------------------------
(***************************************************************************)
(* The session store of app/src/main/account/session.ts: who is signed in, *)
(* kept in memory and in one encrypted file.                               *)
(*                                                                         *)
(* Every operation is asynchronous: it runs to its next `await` in one     *)
(* step, and any other operation, network answer or disk write may come    *)
(* in between.  A call c of Calls is one running operation and pc[c] names *)
(* the await it is parked at.  The refresh of the token is shared: one     *)
(* runs at a time and every call that needs it waits for it.               *)
(***************************************************************************)
EXTENDS JsonFile, Integers

CONSTANTS
  Users,         \* the accounts
  Calls,         \* the operations that may be in flight at once
  Refresher,     \* the shared refresh, as the owner of a disk task
  RestoreFirst,  \* TRUE: the engine's order, nothing runs before restore ends
  MaxGeneration, \* bound: sign-ins and sign-outs of one process life
  MaxToken       \* bound: tokens the server issues

ASSUME CallsAssumption == Refresher \notin Calls /\ None \notin Calls
ASSUME BoundsAssumption == MaxGeneration \in Nat /\ MaxToken \in Nat \ {0}
ASSUME RestoreAssumption == RestoreFirst \in BOOLEAN

(* A stored session: whose it is, which token, and whether the file also   *)
(* says who the account is (a file of an older build does not).            *)
Sessions == [user : Users, token : 1..MaxToken, account : BOOLEAN]
ASSUME NoneAssumption == None \notin Sessions

VARIABLES
  stored,          \* the session in memory, or None
  generation,      \* bumped by signInWith and signOut
  removalPending,  \* a file the sign-out could not delete: it is dead
  refresh,         \* the shared refresh in flight
  launched,        \* whether restore has run: "no", "restoring", "yes"
  pc, since, with, \* per call: the await, the generation captured, the session held
  calm,            \* history: whether the store was calm when a call started
  file, queue,     \* the session file, and the tasks queued on it
  issued           \* the tokens the server has issued

callVars == <<pc, since, with, calm>>
vars == <<stored, generation, removalPending, refresh, launched, callVars,
          file, queue, issued>>

SignInPcs == {"signIn.clean", "signIn.asking", "signIn.profile", "signIn.saving"}
WaitPcs   == {"restore.refresh", "due.refresh", "call.refresh"}
CallPcs   == {"call.asking", "call.refresh"}
Pcs == SignInPcs \cup WaitPcs \cup CallPcs \cup
       {"idle", "signOut.clean", "removing", "restore.clean", "restore.reading",
        "restore.purge", "restore.read", "restore.removing",
        "call.retrying", "fill.asking", "fill.saving"}

(* The refresh in flight: the generation it was started in, the session it *)
(* is about, what it came to, and whether nobody was signing in then.      *)
NoRefresh == [pc |-> "none", gen |-> 0, session |-> None, answer |-> "none", calm |-> TRUE]
Refreshes == [pc : {"none", "asking", "saving", "settling"}, gen : 0..MaxGeneration,
              session : Sessions \cup {None}, calm : BOOLEAN,
              answer : {"none", "ok", "stale", "unauthorised", "badCredentials", "failed"}]

Tasks == TasksOf(Calls \cup {Refresher}, Sessions)

TypeOK ==
  /\ stored \in Sessions \cup {None}
  /\ generation \in 0..MaxGeneration
  /\ removalPending \in BOOLEAN
  /\ refresh \in Refreshes
  /\ launched \in {"no", "restoring", "yes"}
  /\ pc \in [Calls -> Pcs]
  /\ since \in [Calls -> 0..MaxGeneration]
  /\ with \in [Calls -> Sessions \cup {None}]
  /\ calm \in [Calls -> BOOLEAN]
  /\ file \in Sessions \cup {None}
  /\ queue \in Seq(Tasks)
  /\ issued \in 1..MaxToken

-----------------------------------------------------------------------------
Launch ==
  /\ stored = None /\ generation = 0 /\ removalPending = FALSE
  /\ refresh = NoRefresh /\ launched = "no"
  /\ pc = [c \in Calls |-> "idle"]
  /\ since = [c \in Calls |-> 0]
  /\ with = [c \in Calls |-> None]
  /\ calm = [c \in Calls |-> TRUE]
  /\ queue = <<>>
Init ==
  /\ Launch
  /\ issued = 1
  /\ file \in {None} \cup [user : Users, token : {1}, account : BOOLEAN]

Open == launched = "yes" \/ ~RestoreFirst
Refreshing == refresh.pc \in {"asking", "saving"}
SigningIn == \E c \in Calls : pc[c] \in SignInPcs

(* Nobody is signing in, and a refresh in flight is one of the session in  *)
(* memory: what a call that starts now is told about is settled.           *)
Calm ==
  /\ ~SigningIn
  /\ Refreshing => /\ refresh.gen = generation
                   /\ stored # None => refresh.session.user = stored.user

Goto(c, label) == pc' = [pc EXCEPT ![c] = label]
Held == UNCHANGED <<since, with, calm>>
(* Call c starts in generation gen, under the session of this moment. *)
StartAhead(c, label, gen) ==  \* a slip: the generation is taken one ahead
  /\ pc[c] = "idle" /\ Goto(c, label)
  /\ since' = [since EXCEPT ![c] = gen + 1]
  /\ with' = [with EXCEPT ![c] = stored] /\ calm' = [calm EXCEPT ![c] = Calm]
Start(c, label, gen) ==
  /\ pc[c] = "idle" /\ Goto(c, label)
  /\ since' = [since EXCEPT ![c] = gen]
  /\ with' = [with EXCEPT ![c] = stored]
  /\ calm' = [calm EXCEPT ![c] = Calm]

QueueFirst(task) == queue' = <<task>> \o queue  \* a slip: the latest task goes first
Queue(task) == queue' = Append(queue, task)
(* The first task queued on the file, owned by `by`, ends. *)
DiskStep(by, worked) ==
  /\ queue # <<>> /\ Head(queue).by = by
  /\ file' = FileAfter(file, Head(queue), worked)

(* removeStored has something to do: a dead file and nobody signed in. *)
MustRemove == removalPending /\ stored = None

(* set(null): memory and listeners first; the removal of the file is       *)
(* queued in the same step, awaited, and best effort.                      *)
SetNull(c) ==
  /\ stored' = None /\ removalPending' = TRUE
  /\ Queue(RemoveTask(c))
Removed(c, worked) ==
  /\ pc[c] \in {"removing", "restore.removing"} /\ DiskStep(c, worked)
  /\ queue' = Tail(queue)
  /\ removalPending' = (removalPending /\ ~worked)
  /\ launched' = IF pc[c] = "restore.removing" THEN "yes" ELSE launched
  /\ Goto(c, "idle") /\ Held
  /\ UNCHANGED <<stored, generation, refresh, issued>>

-----------------------------------------------------------------------------
(* signOut: the generation moves first, then a dead file of an earlier     *)
(* sign-out is tried again, then set(null).                                *)
SignOut(c) ==
  /\ Open /\ generation < MaxGeneration
  /\ generation' = generation + 1
  /\ IF MustRemove
     THEN /\ Start(c, "signOut.clean", generation + 1) /\ Queue(RemoveTask(c))
          /\ UNCHANGED <<stored, removalPending>>
     ELSE Start(c, "removing", generation + 1) /\ SetNull(c)
  /\ UNCHANGED <<refresh, launched, file, issued>>
SignOutCleaned(c, worked) ==
  /\ pc[c] = "signOut.clean" /\ DiskStep(c, worked)
  /\ stored' = None /\ removalPending' = TRUE
  /\ queue' = Append(Tail(queue), RemoveTask(c))
  /\ Goto(c, "removing") /\ Held
  /\ UNCHANGED <<generation, refresh, launched, issued>>

(* signInWith: the generation moves first, then the same.  With no cipher  *)
(* it ends there, the generation already moved.                            *)
SignInUncounted(c) ==  \* a slip: a sign-in does not move the generation
  /\ Open /\ Start(c, "signIn.asking", generation)
  /\ UNCHANGED <<stored, generation, removalPending, refresh, launched, file, queue, issued>>
SignIn(c) ==
  /\ Open /\ generation < MaxGeneration
  /\ generation' = generation + 1
  /\ IF MustRemove
     THEN Start(c, "signIn.clean", generation + 1) /\ Queue(RemoveTask(c))
     ELSE Start(c, "signIn.asking", generation + 1) /\ UNCHANGED queue
  /\ UNCHANGED <<stored, removalPending, refresh, launched, file, issued>>
SignInWithoutCipher ==
  /\ Open /\ generation < MaxGeneration
  /\ generation' = generation + 1
  /\ UNCHANGED <<stored, removalPending, refresh, launched, callVars, file, queue, issued>>
SignInCleaned(c, worked) ==
  /\ pc[c] = "signIn.clean" /\ DiskStep(c, worked)
  /\ queue' = Tail(queue)
  /\ removalPending' = (removalPending /\ ~worked)
  /\ Goto(c, "signIn.asking") /\ Held
  /\ UNCHANGED <<stored, generation, refresh, launched, issued>>

(* The server answers the sign-in with a session, then the request for the *)
(* profile, made under that session; refused at either, the sign-in ends.  *)
(* Then the session is saved, and takes memory when the file has it.       *)
SignInAnswered(c, u) ==
  /\ pc[c] = "signIn.asking" /\ issued < MaxToken
  /\ issued' = issued + 1
  /\ with' = [with EXCEPT ![c] = [user |-> u, token |-> issued + 1, account |-> TRUE]]
  /\ Goto(c, "signIn.profile")
  /\ UNCHANGED <<stored, generation, removalPending, refresh, launched, since, calm, file, queue>>
ProfileAnswered(c) ==
  /\ pc[c] = "signIn.profile"
  /\ Queue(SaveTask(c, with[c]))
  /\ Goto(c, "signIn.saving") /\ Held
  /\ UNCHANGED <<stored, generation, removalPending, refresh, launched, file, issued>>
SignInRefused(c) ==
  /\ pc[c] \in {"signIn.asking", "signIn.profile"}
  /\ Goto(c, "idle") /\ Held
  /\ UNCHANGED <<stored, generation, removalPending, refresh, launched, file, queue, issued>>
SignInUnsaved(c, worked) ==  \* a slip: memory takes a session the file refused
  /\ pc[c] = "signIn.saving" /\ DiskStep(c, worked)
  /\ queue' = Tail(queue) /\ stored' = with[c] /\ removalPending' = FALSE
  /\ Goto(c, "idle") /\ Held
  /\ UNCHANGED <<generation, refresh, launched, issued>>
SignInSaved(c, worked) ==
  /\ pc[c] = "signIn.saving" /\ DiskStep(c, worked)
  /\ queue' = Tail(queue)
  /\ stored' = IF worked THEN with[c] ELSE stored
  /\ removalPending' = (removalPending /\ ~worked)
  /\ Goto(c, "idle") /\ Held
  /\ UNCHANGED <<generation, refresh, launched, issued>>

-----------------------------------------------------------------------------
(* refreshShared, for the session s: join the refresh in flight or start   *)
(* one.  The callers wait at one of WaitPcs.                               *)
JoinRefresh(s) ==
  refresh' = IF Refreshing THEN refresh
             ELSE [pc |-> "asking", gen |-> generation, session |-> s,
                   answer |-> "none", calm |-> ~SigningIn]

(* The shared promise settles.  Its waiters resume as microtasks do,       *)
(* before anything else happens.                                           *)
Settling == refresh.pc = "settling"
SettleAlone(answer) == refresh' = NoRefresh  \* a slip: cleared before its waiters resume
Settle(answer) == refresh' = [refresh EXCEPT !.pc = "settling", !.answer = answer]

(* A new token.  Once the generation has moved it is thrown away;          *)
(* otherwise the session is saved, and takes memory when the file has it.  *)
RefreshAnswered ==
  /\ refresh.pc = "asking" /\ issued < MaxToken
  /\ issued' = issued + 1
  /\ IF refresh.gen # generation
     THEN Settle("stale") /\ UNCHANGED queue
     ELSE LET s == [refresh.session EXCEPT !.token = issued + 1]
          IN  /\ refresh' = [refresh EXCEPT !.pc = "saving", !.session = s]
              /\ Queue(SaveTask(Refresher, s))
  /\ UNCHANGED <<stored, generation, removalPending, launched, callVars, file>>
RefreshRefused(answer) ==
  /\ refresh.pc = "asking" /\ Settle(answer)
  /\ UNCHANGED <<stored, generation, removalPending, launched, callVars, file, queue, issued>>
RefreshSaved(worked) ==
  /\ refresh.pc = "saving" /\ DiskStep(Refresher, worked)
  /\ queue' = Tail(queue)
  /\ stored' = IF worked THEN refresh.session ELSE stored
  /\ removalPending' = (removalPending /\ ~worked)
  /\ Settle(IF worked THEN "ok" ELSE "failed")
  /\ UNCHANGED <<generation, launched, callVars, issued>>

(* Which waiting calls sign the user out over a refused refresh: restore   *)
(* always, the others only while the generation they started in stands.    *)
Firm == {"unauthorised", "badCredentials"}
SignsOutOver(c, answer) ==
  \/ pc[c] = "restore.refresh" /\ answer \in Firm
  \/ pc[c] = "due.refresh" /\ answer \in Firm /\ since[c] = generation
  \/ pc[c] = "call.refresh" /\ answer = "unauthorised" /\ since[c] = generation
Retries(c) == pc[c] = "call.refresh" /\ refresh.answer = "ok" /\ since[c] = generation
Fills(c) == pc[c] = "restore.refresh" /\ refresh.answer = "ok" /\ ~refresh.session.account

(* A waiting call resumes: it signs out, makes its own call again with the *)
(* new session, goes on to fill in the account (restore), or ends.         *)
Resume(c) ==
  /\ Settling /\ pc[c] \in WaitPcs
  /\ refresh' = IF \E d \in Calls \ {c} : pc[d] \in WaitPcs THEN refresh ELSE NoRefresh
  /\ IF SignsOutOver(c, refresh.answer)
     THEN /\ SetNull(c) /\ Held /\ UNCHANGED launched
          /\ Goto(c, IF pc[c] = "restore.refresh" THEN "restore.removing" ELSE "removing")
     ELSE /\ Goto(c, IF Retries(c) THEN "call.retrying"
                     ELSE IF Fills(c) THEN "fill.asking" ELSE "idle")
          /\ with' = IF Retries(c) \/ Fills(c)
                     THEN [with EXCEPT ![c] = refresh.session] ELSE with
          /\ since' = IF Fills(c) THEN [since EXCEPT ![c] = generation] ELSE since
          /\ launched' = IF pc[c] = "restore.refresh" THEN "yes" ELSE launched
          /\ UNCHANGED <<stored, removalPending, queue, calm>>
  /\ UNCHANGED <<generation, file, issued>>

-----------------------------------------------------------------------------
(* restore, once per launch.  A file this process signed out of is dead.   *)
Restore(c) ==
  /\ launched = "no" /\ launched' = "restoring"
  /\ IF MustRemove
     THEN Start(c, "restore.clean", generation) /\ Queue(RemoveTask(c))
     ELSE Start(c, "restore.reading", generation) /\ UNCHANGED queue
  /\ UNCHANGED <<stored, generation, removalPending, refresh, file, issued>>
RestoreCleaned(c, worked) ==
  /\ pc[c] = "restore.clean" /\ DiskStep(c, worked)
  /\ queue' = Tail(queue)
  /\ removalPending' = (removalPending /\ ~worked)
  /\ IF removalPending /\ ~worked
     THEN Goto(c, "idle") /\ launched' = "yes"
     ELSE Goto(c, "restore.reading") /\ UNCHANGED launched
  /\ Held /\ UNCHANGED <<stored, generation, refresh, issued>>

(* The bytes are read at one moment and acted on at a later one.  A file   *)
(* counts as none while the keychain is locked, and stays.  An unreadable  *)
(* one is deleted, outside the queue, and counts as none.  A deletion that *)
(* is refused leaves it where reading failed; where its contents were bad  *)
(* it throws out of the launch, which ends the process: that is Crash.     *)
ReadFile(c) ==
  /\ pc[c] = "restore.reading"
  /\ \/ /\ Goto(c, "restore.read") /\ \E read \in {file, None} : with' = [with EXCEPT ![c] = read]
     \/ /\ file # None
        /\ Goto(c, "restore.purge") /\ with' = [with EXCEPT ![c] = None]
  /\ UNCHANGED <<stored, generation, removalPending, refresh, launched, since, calm,
                 file, queue, issued>>
Purge(c) ==
  /\ pc[c] = "restore.purge" /\ Goto(c, "restore.read") /\ Held
  /\ file' \in {file, None}
  /\ UNCHANGED <<stored, generation, removalPending, refresh, launched, queue, issued>>

(* What was read becomes the session, unless a sign-in or sign-out came    *)
(* first.  Near its expiry it is refreshed before restore ends.            *)
Restored(c, expiring) ==
  /\ pc[c] = "restore.read" /\ Held
  /\ \/ /\ since[c] # generation
        /\ Goto(c, "idle") /\ launched' = "yes" /\ UNCHANGED <<stored, refresh>>
     \/ /\ since[c] = generation /\ with[c] # None /\ expiring
        /\ stored' = with[c] /\ JoinRefresh(with[c])
        /\ Goto(c, "restore.refresh") /\ UNCHANGED launched
     \/ /\ since[c] = generation /\ (with[c] = None \/ ~expiring)
        /\ stored' = with[c] /\ launched' = "yes" /\ UNCHANGED refresh
        /\ Goto(c, IF with[c] # None /\ ~with[c].account THEN "fill.asking" ELSE "idle")
  /\ UNCHANGED <<generation, removalPending, file, queue, issued>>

(* fillAccount goes on in the background of the restore that started it.   *)
StillCurrent(c) == since[c] = generation /\ stored = with[c]
Filled(c) == [with[c] EXCEPT !.account = TRUE]
FillAnswered(c) ==
  /\ pc[c] = "fill.asking" /\ Held
  /\ IF StillCurrent(c)
     THEN Goto(c, "fill.saving") /\ Queue(SaveTask(c, Filled(c)))
     ELSE Goto(c, "idle") /\ UNCHANGED queue
  /\ UNCHANGED <<stored, generation, removalPending, refresh, launched, file, issued>>
FillRefused(c) ==
  /\ pc[c] = "fill.asking" /\ Goto(c, "idle") /\ Held
  /\ UNCHANGED <<stored, generation, removalPending, refresh, launched, file, queue, issued>>
FillSaved(c, worked) ==
  /\ pc[c] = "fill.saving" /\ DiskStep(c, worked)
  /\ queue' = Tail(queue)
  /\ stored' = IF worked /\ StillCurrent(c) THEN Filled(c) ELSE stored
  /\ Goto(c, "idle") /\ Held
  /\ UNCHANGED <<generation, removalPending, refresh, launched, issued>>

-----------------------------------------------------------------------------
(* refreshIfDue, on the engine's minute tick, when the token is due. *)
RefreshIfDue(c) ==
  /\ Open /\ stored # None
  /\ Start(c, "due.refresh", generation) /\ JoinRefresh(stored)
  /\ UNCHANGED <<stored, generation, removalPending, launched, file, queue, issued>>

(* withSession: the call goes out with the session of this moment. *)
CallStarts(c) ==
  /\ Open /\ stored # None
  /\ Start(c, "call.asking", generation)
  /\ UNCHANGED <<stored, generation, removalPending, refresh, launched, file, queue, issued>>

(* An answer that is not UNAUTHORISED ends it, the first time or on retry. *)
CallEnds(c) ==
  /\ pc[c] \in {"call.asking", "call.retrying"} /\ Goto(c, "idle") /\ Held
  /\ UNCHANGED <<stored, generation, removalPending, refresh, launched, file, queue, issued>>

(* UNAUTHORISED: refresh once, unless the generation has moved.  With      *)
(* nobody signed in any more there is nothing to refresh and it throws.    *)
CallRefused(c) ==
  /\ pc[c] = "call.asking" /\ Held
  /\ IF since[c] = generation /\ (Refreshing \/ stored # None)
     THEN Goto(c, "call.refresh") /\ JoinRefresh(stored)
     ELSE Goto(c, "idle") /\ UNCHANGED refresh
  /\ UNCHANGED <<stored, generation, removalPending, launched, file, queue, issued>>

(* Refused again on the retry: signed out, unless the generation moved. *)
RetryRefused(c) ==
  /\ pc[c] = "call.retrying" /\ Held
  /\ IF since[c] = generation
     THEN Goto(c, "removing") /\ SetNull(c)
     ELSE Goto(c, "idle") /\ UNCHANGED <<stored, removalPending, queue>>
  /\ UNCHANGED <<generation, refresh, launched, file, issued>>

(* The process dies between any two steps; only the file survives. *)
Crash ==
  /\ launched # "no"
  /\ stored' = None /\ generation' = 0 /\ removalPending' = FALSE
  /\ refresh' = NoRefresh /\ launched' = "no"
  /\ pc' = [c \in Calls |-> "idle"]
  /\ since' = [c \in Calls |-> 0]
  /\ with' = [c \in Calls |-> None]
  /\ calm' = [c \in Calls |-> TRUE]
  /\ queue' = <<>>
  /\ UNCHANGED <<file, issued>>

-----------------------------------------------------------------------------
Asks(c) ==                     \* what the user and the engine ask for
  \/ Restore(c) \/ SignOut(c) \/ SignIn(c) \/ RefreshIfDue(c) \/ CallStarts(c)
Answers(c) ==                  \* the server answers call c
  \/ \E u \in Users : SignInAnswered(c, u)
  \/ ProfileAnswered(c) \/ SignInRefused(c)
  \/ FillAnswered(c) \/ FillRefused(c)
  \/ CallEnds(c) \/ CallRefused(c) \/ RetryRefused(c)
Reads(c) == ReadFile(c) \/ Purge(c) \/ \E expiring \in BOOLEAN : Restored(c, expiring)
RefreshAnswers ==
  \/ RefreshAnswered
  \/ \E answer \in Firm \cup {"failed"} : RefreshRefused(answer)
DiskEnds(worked) ==
  \/ RefreshSaved(worked)
  \/ \E c \in Calls : \/ Removed(c, worked) \/ SignOutCleaned(c, worked)
                      \/ SignInCleaned(c, worked) \/ SignInSaved(c, worked)
                      \/ RestoreCleaned(c, worked) \/ FillSaved(c, worked)

Next ==
  \/ \E c \in Calls : Resume(c)
  \/ /\ ~Settling
     /\ \/ \E c \in Calls : Asks(c) \/ Answers(c) \/ Reads(c)
        \/ SignInWithoutCipher
        \/ RefreshAnswers
        \/ \E worked \in BOOLEAN : DiskEnds(worked)
        \/ Crash

Spec == Init /\ [][Next]_vars

(* Every request ends (httpApi.ts gives each a time limit), every disk     *)
(* operation settles, and the runtime runs a ready microtask.  Fairness is *)
(* strong where settling waiters, a momentary state, keep disabling the    *)
(* step.  Nobody is bound to sign in, to sign out or to start a call.      *)
Fairness ==
  /\ \A c \in Calls : /\ WF_vars(Resume(c))
                      /\ SF_vars(~Settling /\ Answers(c))
                      /\ SF_vars(~Settling /\ Reads(c))
  /\ WF_vars(~Settling /\ RefreshAnswers)
  /\ SF_vars(~Settling /\ \E worked \in BOOLEAN : DiskEnds(worked))
FairSpec == Spec /\ Fairness

-----------------------------------------------------------------------------
(* Safety.                                                                 *)

(* A refresh is in flight exactly while some call waits for it: the shared *)
(* promise of refreshShared is cleared when it settles and never before,   *)
(* so no call waits for a refresh that nobody runs.                        *)
WaitersHaveRefresh ==
  (\E c \in Calls : pc[c] \in WaitPcs) <=> refresh.pc # "none"

(* A refresh that was started while nobody was signing in, and whose       *)
(* generation stands, is about the account in memory: what it saves can    *)
(* only ever renew that account's token.                                   *)
RefreshIsCurrent ==
  Refreshing /\ refresh.calm /\ refresh.gen = generation /\ stored # None
    => refresh.session.user = stored.user

(* A call that started while the store was calm, and whose generation      *)
(* stands, still works for the account in memory, whatever sign-ins,       *)
(* sign-outs, refreshes and disk writes came between: the sign-out it may  *)
(* be about to cause is its own account's.                                 *)
CallIsCurrent ==
  \A c \in Calls :
    pc[c] \in CallPcs \cup {"call.retrying"} /\ calm[c] /\ since[c] = generation /\ stored # None
      => with[c].user = stored.user

(* withSession never makes a call again under another account than the one *)
(* it was first made for, when it started in a calm store.                 *)
RetryKeepsUser ==
  [][\A c \in Calls :
       pc[c] = "call.refresh" /\ pc'[c] = "call.retrying" /\ calm[c]
         => with'[c].user = with[c].user]_vars

(* Only a sign-in may leave memory with a token older than the one it had: *)
(* a refresh that starts and ends while the profile of the sign-in is      *)
(* awaited (session.ts:158-160) saves a later one first.  A refresh, the   *)
(* account request and a restore never do, however they overlap.           *)
TokenMovesForward ==
  [][stored # None /\ stored' # None /\ stored'.token < stored.token
       => \E c \in Calls : pc[c] = "signIn.saving" /\ stored' = with[c]]_vars

(* What session.ts:60-62 says: a refresh started against one identity is   *)
(* never applied once that identity has signed out, or somebody else has   *)
(* signed in.  It does not hold: a sign-out between the check (:110) and   *)
(* the end of the write (:87) is undone by it.                             *)
RefreshStaysWithIdentity ==
  [][refresh.pc = "saving" /\ stored' # stored /\ stored' = refresh.session
       => stored # None /\ stored.user = refresh.session.user]_vars

(* What session.ts:183-184 and :226 say: the refusal of a refresh says     *)
(* nothing about another identity than the one it was for, and signs       *)
(* nobody else out.  It does not hold of a refresh that began while a      *)
(* sign-in was under way, under the generation of that sign-in (:202).     *)
RefusalIsOnesOwn ==
  [][\A c \in Calls : Resume(c) /\ SignsOutOver(c, refresh.answer) /\ stored # None
       => refresh.session.user = stored.user]_vars

(* With nothing left to write, a restart finds the account that is signed  *)
(* in, or nobody, and never another account.                               *)
RestartFindsAccount ==
  queue = <<>> /\ launched = "yes" /\ stored # None /\ file # None
    => file.user = stored.user

(* Liveness: whatever fails, every call comes to its end; nobody waits for *)
(* ever on the shared refresh or on the file's queue.                      *)
CallsEnd == \A c \in Calls : pc[c] # "idle" ~> pc[c] = "idle"

-----------------------------------------------------------------------------
(* The inductive invariant behind RefreshIsCurrent and CallIsCurrent.      *)

Idle(c) == pc[c] = "idle"
EarlyRestorePcs == {"restore.clean", "restore.reading", "restore.purge", "restore.read"}
RestorePcs == EarlyRestorePcs \cup {"restore.refresh", "restore.removing"}
SessionPcs == CallPcs \cup {"call.retrying"}

(* Under RestoreFirst a restore runs alone, and before any refresh of its own. *)
RestoreIsAlone ==
  /\ launched = "no" => refresh.pc = "none" /\ \A c \in Calls : Idle(c)
  /\ \A c \in Calls : pc[c] \in RestorePcs =>
       launched = "restoring" /\ \A d \in Calls \ {c} : Idle(d)
  /\ \A c \in Calls : pc[c] \in EarlyRestorePcs => refresh.pc = "none"

(* No generation is captured before it exists; and who was told that       *)
(* nobody is signing in is right until the generation moves.               *)
GenerationsPassed ==
  /\ \A c \in Calls : since[c] <= generation
  /\ refresh.gen <= generation
NobodySigningIn ==
  /\ Refreshing /\ refresh.calm /\ refresh.gen = generation => ~SigningIn
  /\ \A c \in Calls : pc[c] \in SessionPcs /\ calm[c] /\ since[c] = generation => ~SigningIn

(* Whatever a calm call waits for, or may find settled, is its account's.  *)
RefreshIsTheCalls ==
  \A c \in Calls : pc[c] \in SessionPcs /\ calm[c] /\ since[c] = generation /\ refresh.pc # "none"
    => refresh.session # None /\ refresh.session.user = with[c].user

(* A refresh, a call and a sign-in about to be saved have a session.       *)
SessionsHeld ==
  /\ refresh.pc # "none" => refresh.session # None
  /\ \A c \in Calls : pc[c] \in SessionPcs \cup {"signIn.profile", "signIn.saving", "fill.asking", "fill.saving"}
       => with[c] # None

IdentityInv ==
  /\ TypeOK /\ RestoreIsAlone /\ GenerationsPassed /\ NobodySigningIn
  /\ SessionsHeld /\ RefreshIsTheCalls /\ RefreshIsCurrent /\ CallIsCurrent
=============================================================================
