------------------------------- MODULE Outbox -------------------------------
(***************************************************************************)
(* What happens to an approved statement: the pool of pending statements,  *)
(* the outbox and its upload, the sent log, and the account they belong    *)
(* to, as app/src/main/engine.ts drives app/src/main/review/uploader.ts,   *)
(* sentLog.ts and pool.ts.                                                 *)
(*                                                                         *)
(* The outbox is one object in memory and one file.  Every change of it is *)
(* read-modify-write: the new outbox is computed from memory, saved, and   *)
(* put in memory when the save is over.  Between the two anything else may *)
(* happen, another change included.                                        *)
(*                                                                         *)
(* Bounds: one start-up, sign-in, tick's adoption or deletion of all data  *)
(* at a time (flow); MaxFaults disk operations and loads that fail, and    *)
(* MaxTurns sign-ins, sign-outs, deletions of all data and restarts, in a  *)
(* behaviour.                                                              *)
(***************************************************************************)
EXTENDS JsonFile, Naturals

CONSTANTS
  Users, Items,    \* the accounts, the statements
  OwnerOf,         \* under whose account a statement was captured
  Ownerless,       \* statements in an outbox an older build left without an owner
  SwitchDirectly,  \* whether a sign-in may replace a live session
  Deletes,         \* whether the user may delete all data
  MaxFaults, MaxTurns

ASSUME OwnerAssumption == OwnerOf \in [Items -> Users] /\ Ownerless \subseteq Items
ASSUME NoneAssumption == None \notin Users /\ SwitchDirectly \in BOOLEAN /\ Deletes \in BOOLEAN
ASSUME BoundsAssumption == MaxFaults \in Nat /\ MaxTurns \in Nat

VARIABLES
  user,                  \* session.userId()
  mem, file, queue,      \* the outbox in memory, its file, the tasks queued on it
  backoff,               \* an attempt failed: automatic flushes wait
  send,                  \* the one upload in flight
  problem,               \* storageProblems has "outbox"
  pending, poolOwner,    \* the pool in memory
  poolFile, savedPool,   \* the pool on disk; what savePool holds it to be
  captured,              \* the statements extraction has produced
  deciding,              \* per statement: how far its approval is
  log, logFile,          \* the sent log in memory and on disk
  flow, heir, ticking,   \* the flow in progress; whose sign-in waits; the timers
  server, refused,       \* what the server holds of whom; what it refused for good
  approved,              \* history: saved in the outbox
  gone,                  \* history: dropped by design, or in a file that a launch could not read
  raced, misfiled,       \* history: see SaveAfter and Approve
  faults, turns          \* the bounds' counters

outbox  == <<mem, file, queue, backoff, send>>
pool    == <<pending, poolOwner, poolFile, savedPool, captured>>
sent    == <<log, logFile>>
world   == <<server, refused>>
phase   == <<flow, heir, ticking>>
history == <<approved, gone, raced, misfiled>>
vars == <<user, outbox, problem, pool, deciding, sent, phase, world, history, faults, turns>>

Account  == Users \cup {None}
Boxes    == [owner : Account, items : SUBSET Items]
EmptyBox == [owner |-> None, items |-> {}]
Writers  == Items \cup {"send", "adopt", "resave", "clear"}
ASSUME NamesAssumption ==
  None \notin Boxes /\ Items \cap {"send", "adopt", "resave", "clear"} = {}
(* An upload: where it is, of whom, what is in it, what the server holds   *)
(* and is done with of it, and the sent log it is writing.                 *)
NoSend == [pc |-> "none", owner |-> None, batch |-> {}, held |-> {}, done |-> {}, log |-> {}]
Launching == {"launch", "launch.loaded", "launch.adopting", "launch.pool"}
SigningIn == {"signIn.stopping", "signIn.saving", "signIn.clearing", "signIn.adopting", "signIn.flush"}
Deleting  == {"delete.stopping", "delete.saving", "delete.outbox", "delete.clearing", "delete.files"}

TypeOK ==
  /\ user \in Account /\ mem \in Boxes /\ file \in Boxes \cup {None}
  /\ queue \in Seq(TasksOf(Writers, Boxes)) /\ backoff \in BOOLEAN /\ problem \in BOOLEAN
  /\ send \in [pc : {"none", "adopting", "submitting", "logging", "saving"}, owner : Account,
               batch : SUBSET Items, held : SUBSET Items, done : SUBSET Items,
               log : SUBSET (Users \X Items)]
  /\ pending \subseteq Items /\ poolOwner \in Account
  /\ poolFile \in Boxes \cup {None} /\ savedPool \in Boxes \cup {None}
  /\ captured \subseteq Items
  /\ deciding \in [Items -> {"no", "saving", "flushing", "joined", "keeping"}]
  /\ log \subseteq Users \X Items /\ logFile \subseteq Users \X Items
  /\ flow \in {"none", "tick.adopting"} \cup Launching \cup SigningIn \cup Deleting
  /\ heir \in Account /\ ticking \in BOOLEAN
  /\ server \subseteq Users \X Items /\ refused \subseteq Items
  /\ approved \subseteq Items /\ gone \subseteq Items
  /\ raced \in BOOLEAN /\ misfiled \in BOOLEAN
  /\ faults \in 0..MaxFaults /\ turns \in 0..MaxTurns

Init ==
  /\ user \in Account
  /\ file = IF Ownerless = {} THEN None ELSE [owner |-> None, items |-> Ownerless]
  /\ mem = EmptyBox /\ queue = <<>>
  /\ backoff = FALSE /\ send = NoSend /\ problem = FALSE
  /\ pending = {} /\ poolOwner = None /\ poolFile = None /\ savedPool = None /\ captured = Ownerless
  /\ deciding = [i \in Items |-> "no"]
  /\ log = {} /\ logFile = {} /\ flow = "launch" /\ heir = None /\ ticking = FALSE
  /\ server = {} /\ refused = {} /\ approved = Ownerless /\ gone = {}
  /\ raced = FALSE /\ misfiled = FALSE /\ faults = 0 /\ turns = 0

-----------------------------------------------------------------------------
(* A new outbox is on its way to disk.  History: raced once one was        *)
(* computed while another was still on its way.                            *)
SaveAfter(q, by, box) ==
  /\ queue' = Append(q, SaveTask(by, box))
  /\ raced' = (raced \/ q # <<>>)
(* The task at the head of the queue ends. *)
Landed(by, worked) ==
  /\ queue # <<>> /\ Head(queue).by = by
  /\ file' = FileAfter(file, Head(queue), worked)

(* flush: one upload at a time, of the live account's own outbox, and not  *)
(* before the backoff is over unless forced.  box is the outbox in memory  *)
(* and q what is queued on its file.  An outbox without an owner is first  *)
(* adopted, and that saved.                                                *)
CanFlush(box, force) ==
  /\ send.pc = "none" /\ box.items # {}
  /\ user # None /\ box.owner \in {None, user}
  /\ force \/ ~backoff
Submitting(box) == [NoSend EXCEPT !.pc = "submitting", !.owner = box.owner, !.batch = box.items]
Flush(box, q, force) ==
  \/ /\ CanFlush(box, force) /\ box.owner = None
     /\ send' = [NoSend EXCEPT !.pc = "adopting"]
     /\ SaveAfter(q, "send", [box EXCEPT !.owner = user])
  \/ /\ CanFlush(box, force) /\ box.owner # None
     /\ send' = Submitting(box) /\ queue' = q /\ UNCHANGED raced
  \/ ~CanFlush(box, force) /\ queue' = q /\ UNCHANGED <<send, raced>>

-----------------------------------------------------------------------------
(* Extraction puts a statement in the pool of the pipeline's owner.  The   *)
(* pipeline that takes the place of a dropped one has yet to read anything.*)
Fresh == flow \in Launching \cup {"signIn.saving", "delete.saving"}
Capture(i) ==
  /\ ~Fresh /\ poolOwner = OwnerOf[i] /\ i \notin captured
  /\ captured' = captured \cup {i} /\ pending' = pending \cup {i}
  /\ UNCHANGED <<user, outbox, problem, poolOwner, poolFile, savedPool, deciding, sent, phase, world, history>>

(* approve: nothing while a decision on the statement is in flight, nothing*)
(* that is not pending.  The statement goes into the outbox first, unless  *)
(* it is there.  History: misfiled once one account's approval puts it in  *)
(* another's outbox, or takes a statement captured under another.          *)
CanDecide(i) == flow \notin Launching /\ user # None /\ deciding[i] = "no" /\ i \in pending
NewBox(i) == [owner |-> IF mem.owner # None THEN mem.owner ELSE user, items |-> mem.items \cup {i}]
Approve(i) ==
  /\ CanDecide(i) /\ i \notin mem.items
  /\ deciding' = [deciding EXCEPT ![i] = "saving"]
  /\ SaveAfter(queue, i, NewBox(i))
  /\ misfiled' = (misfiled \/ NewBox(i).owner # user \/ OwnerOf[i] # user)
  /\ UNCHANGED <<user, mem, file, backoff, send, problem, pool, sent, phase, world,
                 approved, gone>>
(* Also reject: the statement only leaves the pool. *)
LeavePool(i) ==
  /\ pending' = pending \ {i}
  /\ deciding' = [deciding EXCEPT ![i] = "keeping"]
  /\ UNCHANGED <<user, outbox, poolOwner, poolFile, savedPool, captured, sent, phase, world, history>>
Reject(i) == CanDecide(i) /\ LeavePool(i) /\ UNCHANGED problem
ApproveAgain(i) == CanDecide(i) /\ i \in mem.items /\ LeavePool(i) /\ problem' = FALSE

(* The outbox is saved: it takes memory and is sent.  A refused write      *)
(* leaves the statement pending.                                           *)
Enqueued(i, worked) ==
  /\ deciding[i] = "saving" /\ Landed(i, worked)
  /\ IF worked
     THEN /\ mem' = Head(queue).value
          /\ deciding' = [deciding EXCEPT ![i] = IF send.pc = "none" THEN "flushing" ELSE "joined"]
          /\ Flush(mem', Tail(queue), FALSE)
          /\ approved' = approved \cup {i} /\ gone' = gone \ {i}
          /\ UNCHANGED problem
     ELSE /\ deciding' = [deciding EXCEPT ![i] = "no"] /\ problem' = TRUE
          /\ queue' = Tail(queue) /\ UNCHANGED <<mem, send, raced, approved, gone>>
  /\ UNCHANGED <<user, backoff, pool, sent, phase, world, misfiled>>

(* An approval that joined an upload flushes once more when it is over;    *)
(* the statement leaves the pool when its own flush is over.               *)
FlushAgain(i) ==
  /\ deciding[i] = "joined" /\ send.pc = "none"
  /\ Flush(mem, queue, FALSE)
  /\ deciding' = [deciding EXCEPT ![i] = "flushing"]
  /\ UNCHANGED <<user, mem, file, backoff, problem, pool, sent, phase, world,
                 approved, gone, misfiled>>
Resolve(i) ==
  deciding[i] = "flushing" /\ send.pc = "none" /\ LeavePool(i) /\ problem' = FALSE

(* savePool writes what the pool is at that moment, unless that is what it *)
(* holds the file to be; once a write was refused, perhaps even so (while  *)
(* the problem stands).  A write that is refused is tried again by the     *)
(* tick, and the decisions that waited for it end all the same.  One step: *)
(* the chain `saving` lets no other write of the pool in between.          *)
Snapshot == [owner |-> poolOwner, items |-> pending]
SavePool(worked) ==
  /\ flow \notin Launching
  /\ \/ /\ worked /\ (savedPool = Snapshot => faults > 0)
        /\ poolFile' = Snapshot /\ savedPool' = Snapshot
     \/ worked = (savedPool = Snapshot) /\ UNCHANGED <<poolFile, savedPool>>
  /\ deciding' = [i \in Items |-> IF deciding[i] = "keeping" THEN "no" ELSE deciding[i]]
  /\ UNCHANGED <<user, outbox, problem, pending, poolOwner, captured, sent, phase, world, history>>

-----------------------------------------------------------------------------
(* The tick's flush; and a backoff that has run out. *)
TickFlush ==
  /\ ticking /\ CanFlush(mem, FALSE) /\ Flush(mem, queue, FALSE)
  /\ UNCHANGED <<user, mem, file, backoff, problem, pool, deciding, sent, phase, world,
                 approved, gone, misfiled>>
BackoffStays ==  \* a slip: the backoff is reset by a send only
  FALSE /\ UNCHANGED vars
BackoffEnds ==
  /\ backoff /\ backoff' = FALSE
  /\ UNCHANGED <<user, mem, file, queue, send, problem, pool, deciding, sent, phase, world, history>>

SendFails == send' = NoSend /\ backoff' = TRUE
(* What an upload came to is seen by the engine only if its own flush (the *)
(* tick's, a sign-in's) started or joined it: only then the problem it saw *)
(* raised or retired counts.                                               *)
Told(seen) == problem' \in {problem, seen}

(* The adoption of an ownerless outbox is saved.  The batch is submitted   *)
(* only if its owner is still the one signed in.                           *)
Adopted(worked) ==
  /\ send.pc = "adopting" /\ Landed("send", worked)
  /\ queue' = Tail(queue)
  /\ IF worked THEN mem' = Head(queue).value /\ UNCHANGED problem
               ELSE mem' = mem /\ Told(TRUE)
  /\ IF worked /\ mem'.owner = user
     THEN send' = Submitting(mem') /\ UNCHANGED backoff
     ELSE SendFails
  /\ UNCHANGED <<user, pool, deciding, sent, phase, world, history>>

(* The server takes the batch: it holds some, refuses some for good, and   *)
(* leaves the rest to be sent again.  What it holds it never refuses.      *)
Served(held, rejected) ==
  /\ send.pc = "submitting" /\ held \subseteq send.batch /\ rejected \subseteq send.batch \ held
  /\ \A i \in rejected : <<send.owner, i>> \notin server
  /\ server' = server \cup ({send.owner} \X held)
  /\ refused' = refused \cup rejected
(* Back here the answer counts only while the batch's owner is the one     *)
(* signed in.  What is held goes to the sent log, under that owner, before *)
(* anything leaves the outbox.                                             *)
RestIsEmpty(done) == [mem EXCEPT !.items = {}]         \* a slip: the whole outbox goes
Rest(done) == [mem EXCEPT !.items = @ \ done]
WithBatch(held) == log \cup ({send.owner} \X send.batch)  \* a slip: refused ones logged too
WithSent(held) == log \cup ({send.owner} \X held)
Submitted(held, rejected) ==
  /\ Served(held, rejected) /\ user = send.owner
  /\ IF WithSent(held) # log
     THEN /\ send' = [send EXCEPT !.pc = "logging", !.held = held, !.done = held \cup rejected,
                                  !.log = WithSent(held)]
          /\ UNCHANGED <<queue, raced>>
     ELSE /\ send' = [send EXCEPT !.pc = "saving", !.held = held, !.done = held \cup rejected]
          /\ SaveAfter(queue, "send", Rest(held \cup rejected))
  /\ UNCHANGED <<user, mem, file, backoff, problem, pool, deciding, sent, phase,
                 approved, gone, misfiled>>
(* No answer, a refusal, an answer lost on its way, or one that comes to   *)
(* another session than the owner's.                                       *)
SubmitFails ==
  /\ \/ send.pc = "submitting" /\ UNCHANGED world
     \/ \E held \in SUBSET send.batch : \E rejected \in SUBSET (send.batch \ held) :
          Served(held, rejected)
  /\ SendFails
  /\ UNCHANGED <<user, mem, file, queue, problem, pool, deciding, sent, phase, history>>

(* The sent log is written, then the outbox without what is done. *)
LoggedAnyway(worked) ==  \* a slip: a sent log that was not written is passed over
  /\ send.pc = "logging"
  /\ IF worked THEN log' = send.log /\ logFile' = send.log ELSE UNCHANGED <<log, logFile>>
  /\ send' = [send EXCEPT !.pc = "saving", !.log = {}] /\ SaveAfter(queue, "send", Rest(send.done))
  /\ UNCHANGED <<user, mem, file, backoff, problem, pool, deciding, phase, world,
                 approved, gone, misfiled>>
Logged(worked) ==
  /\ send.pc = "logging"
  /\ IF worked
     THEN /\ log' = send.log /\ logFile' = send.log
          /\ send' = [send EXCEPT !.pc = "saving", !.log = {}] /\ UNCHANGED <<backoff, problem>>
          /\ SaveAfter(queue, "send", Rest(send.done))
     ELSE SendFails /\ Told(TRUE) /\ UNCHANGED <<log, logFile, queue, raced>>
  /\ UNCHANGED <<user, mem, file, pool, deciding, phase, world,
                 approved, gone, misfiled>>
SendSaved(worked) ==
  /\ send.pc = "saving" /\ Landed("send", worked)
  /\ queue' = Tail(queue)
  /\ IF worked
     THEN /\ mem' = Head(queue).value /\ send' = NoSend /\ backoff' = FALSE
          /\ IF mem'.items = {} THEN Told(FALSE) ELSE UNCHANGED problem
     ELSE mem' = mem /\ SendFails /\ Told(TRUE)
  /\ UNCHANGED <<user, pool, deciding, sent, phase, world, history>>

-----------------------------------------------------------------------------
(* adoptOutbox for the account u of this moment: another account's outbox  *)
(* is emptied.  With nobody signed in it is only written again.            *)
KeptBox(u) == [mem EXCEPT !.owner = u]  \* a slip: another account's statements stay
AdoptedBox(u) == IF mem.owner \notin {None, u} THEN [owner |-> u, items |-> {}]
                                               ELSE [mem EXCEPT !.owner = u]
StartAdopt(u) == IF u = None THEN SaveAfter(queue, "resave", mem)
                             ELSE SaveAfter(queue, "adopt", AdoptedBox(u))
Adopting == flow \in {"launch.adopting", "signIn.adopting", "tick.adopting"}
AfterAdopting == CASE flow = "launch.adopting" -> "launch.pool"
                   [] flow = "signIn.adopting" -> "signIn.flush"
                   [] flow = "tick.adopting"   -> "none"
AdoptEnds(worked) ==
  /\ Adopting /\ problem' = ~worked /\ queue' = Tail(queue)
  /\ \/ Landed("resave", worked) /\ UNCHANGED <<mem, backoff, gone>>
     \/ /\ Landed("adopt", worked)
        /\ mem' = IF worked THEN Head(queue).value ELSE mem
        /\ LET clearing == mem.owner \notin {None, mem'.owner}
           IN  /\ gone' = IF clearing THEN gone \cup mem.items ELSE gone
               /\ backoff' = (backoff /\ ~clearing)
  /\ flow' = AfterAdopting
  /\ UNCHANGED <<user, send, pool, deciding, sent, heir, ticking, world, approved, raced, misfiled>>
TickAdopt ==
  /\ ticking /\ problem /\ flow = "none" /\ flow' = "tick.adopting"
  /\ StartAdopt(user)
  /\ UNCHANGED <<user, mem, file, backoff, send, problem, pool, deciding, sent, heir, ticking, world,
                 approved, gone, misfiled>>

(* Start-up: the sent log and the outbox are loaded, the outbox adopted,   *)
(* then the saved pool restored, if it is this user's or nobody is signed  *)
(* in; anybody else's is removed.  The timers start.  A file that cannot   *)
(* be read counts as none.  It is deleted, or stays: a locked keychain     *)
(* leaves it (a removal that throws ends the process: LaunchRefused).      *)
BoxIn(f) == IF f = None THEN EmptyBox ELSE f
OutboxRead == mem' = BoxIn(file) /\ UNCHANGED file
OutboxUnread == file # None /\ mem' = EmptyBox /\ file' \in {file, None}
LogRead == log' = logFile /\ UNCHANGED logFile
LogUnread == log' = {} /\ logFile' \in {logFile, {}}
LoadFiles(worked) ==
  /\ flow = "launch" /\ flow' = "launch.loaded"
  /\ OutboxRead \/ (~worked /\ OutboxUnread)
  /\ LogRead \/ (~worked /\ LogUnread)
  /\ gone' = gone \cup (BoxIn(file).items \ mem'.items) \cup {s[2] : s \in logFile \ log'}
  /\ UNCHANGED <<user, queue, backoff, send, problem, pool, deciding, heir, ticking, world,
                 approved, raced, misfiled>>
StartUp ==
  /\ flow = "launch.loaded"
  /\ IF user = None THEN flow' = "launch.pool" /\ UNCHANGED <<queue, raced>>
                    ELSE flow' = "launch.adopting" /\ StartAdopt(user)
  /\ UNCHANGED <<user, mem, file, backoff, send, problem, pool, deciding, sent, heir, ticking, world,
                 approved, gone, misfiled>>
RestoreAnyPool(worked) ==  \* a slip: whose the saved pool is goes unread
  /\ flow = "launch.pool" /\ flow' = "none" /\ ticking' = TRUE
  /\ pending' = BoxIn(poolFile).items /\ poolOwner' = user /\ savedPool' = Snapshot'
  /\ UNCHANGED <<user, outbox, problem, poolFile, captured, deciding, sent, heir, world, history>>
OwnPool == poolFile # None /\ user \in {None, poolFile.owner}
RestorePool(worked) ==
  /\ flow = "launch.pool" /\ flow' = "none" /\ ticking' = TRUE
  /\ \/ /\ worked /\ OwnPool
        /\ pending' = poolFile.items /\ poolOwner' = poolFile.owner /\ UNCHANGED poolFile
     \/ /\ worked /\ ~OwnPool
        /\ pending' = {} /\ poolOwner' = user /\ poolFile' = None
     \/ /\ ~worked /\ pending' = {} /\ poolOwner' = user /\ poolFile' \in {poolFile, None}
  /\ savedPool' = Snapshot'
  /\ UNCHANGED <<user, outbox, problem, captured, deciding, sent, heir, world, history>>

-----------------------------------------------------------------------------
(* signedInBy: the session is u's at once.  The pool of another account    *)
(* goes when its run of capture has ended, which is awaited where a live   *)
(* session is replaced (without one nothing runs); it changes hands when   *)
(* no save of it is under way, and its file is removed next.  Then the     *)
(* outbox is adopted, and sent without waiting for the backoff.            *)
SignInAtOnce(u) ==  \* a slip: the pool is the new account's with what is in it
  /\ flow = "none" /\ user # u /\ (user = None \/ SwitchDirectly)
  /\ user' = u /\ poolOwner' = u /\ flow' = "signIn.adopting" /\ StartAdopt(u)
  /\ UNCHANGED <<mem, file, backoff, send, problem, pending, poolFile, savedPool, captured, deciding,
                 sent, heir, ticking, world, approved, gone, misfiled>>
SignIn(u) ==
  /\ flow = "none" /\ user # u /\ (user = None \/ SwitchDirectly)
  /\ user' = u
  /\ IF poolOwner \notin {None, u}
     THEN /\ heir' = u /\ UNCHANGED <<poolOwner, queue, raced>>
          /\ IF user = None THEN pending' = {} /\ flow' = "signIn.saving"
                            ELSE flow' = "signIn.stopping" /\ UNCHANGED pending
     ELSE /\ poolOwner' = u /\ StartAdopt(u) /\ flow' = "signIn.adopting"
          /\ UNCHANGED <<pending, heir>>
  /\ UNCHANGED <<mem, file, backoff, send, problem, poolFile, savedPool, captured, deciding, sent,
                 ticking, world, approved, gone, misfiled>>
PoolDropped ==
  /\ flow = "signIn.stopping" /\ flow' = "signIn.saving" /\ pending' = {}
  /\ UNCHANGED <<user, outbox, problem, poolOwner, poolFile, savedPool, captured, deciding, sent, heir,
                 ticking, world, history>>
PoolHandedOver ==
  /\ flow = "signIn.saving" /\ flow' = "signIn.clearing"
  /\ poolOwner' = heir /\ heir' = None /\ savedPool' = [Snapshot EXCEPT !.owner = heir]
  /\ UNCHANGED <<user, outbox, problem, pending, poolFile, captured, deciding, sent, ticking, world,
                 history>>
PoolCleared(worked) ==
  /\ flow = "signIn.clearing" /\ flow' = "signIn.adopting"
  /\ IF worked THEN poolFile' = None /\ UNCHANGED savedPool
               ELSE savedPool' = None /\ UNCHANGED poolFile
  /\ StartAdopt(user)
  /\ UNCHANGED <<user, mem, file, backoff, send, problem, pending, poolOwner, captured, deciding,
                 sent, heir, ticking, world, approved, gone, misfiled>>
SignInFlush ==
  /\ flow = "signIn.flush" /\ flow' = "none" /\ Flush(mem, queue, TRUE)
  /\ UNCHANGED <<user, mem, file, backoff, problem, pool, deciding, sent, heir, ticking, world,
                 approved, gone, misfiled>>
SignOut ==
  /\ user # None /\ flow \notin Launching \ {"launch.pool"} /\ user' = None
  /\ UNCHANGED <<outbox, problem, pool, deciding, sent, phase, world, history>>

-----------------------------------------------------------------------------
(* deleteAllData: the timers stop and the run of capture ends; then the    *)
(* pipeline is dropped, a save of the pool under way awaited, and the      *)
(* session ended; then the outbox goes, then the files.  A removal the     *)
(* disk refuses ends it there, the timers still stopped.                   *)
DeleteAllData ==
  /\ Deletes /\ flow = "none" /\ flow' = "delete.stopping" /\ ticking' = FALSE
  /\ UNCHANGED <<user, outbox, problem, pool, deciding, sent, heir, world, history>>
DeleteDrops ==
  /\ flow = "delete.stopping" /\ flow' = "delete.saving" /\ pending' = {}
  /\ UNCHANGED <<user, outbox, problem, poolOwner, poolFile, savedPool, captured, deciding, sent, heir,
                 ticking, world, history>>
DeleteSignsOut ==
  /\ flow = "delete.saving" /\ flow' = "delete.outbox" /\ poolOwner' = None /\ user' = None
  /\ UNCHANGED <<outbox, problem, pending, poolFile, savedPool, captured, deciding, sent, heir, ticking,
                 world, history>>
DeleteOutbox ==
  /\ flow = "delete.outbox" /\ flow' = "delete.clearing"
  /\ mem' = EmptyBox /\ backoff' = FALSE
  /\ queue' = Append(queue, RemoveTask("clear")) /\ raced' = (raced \/ queue # <<>>)
  /\ gone' = gone \cup approved
  /\ UNCHANGED <<user, file, send, problem, pool, deciding, sent, heir, ticking, world,
                 approved, misfiled>>
OutboxDeleted(worked) ==
  /\ flow = "delete.clearing" /\ Landed("clear", worked) /\ queue' = Tail(queue)
  /\ flow' = IF worked THEN "delete.files" ELSE "none"
  /\ UNCHANGED <<user, mem, backoff, send, problem, pool, deciding, sent, heir, ticking, world, history>>
(* The pool's file goes, then all files, one by one, past every queue; the *)
(* problems are forgotten in between, and the sent log is read again when  *)
(* all are gone.                                                           *)
FilesDeleted(worked) ==
  /\ flow = "delete.files" /\ flow' = "none" /\ ticking' = worked
  /\ \/ ~worked /\ UNCHANGED <<poolFile, savedPool, problem, file, logFile>>
     \/ /\ poolFile' = None /\ savedPool' = Snapshot /\ problem' = FALSE
        /\ file' \in IF worked THEN {None} ELSE {None, file}
        /\ logFile' \in IF worked THEN {{}} ELSE {{}, logFile}
  /\ log' = IF worked THEN {} ELSE log
  /\ UNCHANGED <<user, mem, queue, backoff, send, pending, poolOwner, captured, deciding, heir, world,
                 history>>

(* The process dies between any two steps and is launched again: the files *)
(* are what they were, and the session file may name the last user still.  *)
Ends ==
  /\ user' \in {user, poolOwner, None}
  /\ mem' = EmptyBox /\ queue' = <<>>
  /\ backoff' = FALSE /\ send' = NoSend /\ problem' = FALSE
  /\ pending' = {} /\ poolOwner' = None /\ savedPool' = None
  /\ deciding' = [i \in Items |-> "no"]
  /\ log' = {} /\ flow' = "launch" /\ heir' = None /\ ticking' = FALSE
  /\ UNCHANGED <<file, poolFile, captured, logFile, world, history>>
Crash == flow # "launch" /\ Ends
(* The removal of a file that does not parse, or of another account's      *)
(* pool, is refused: it throws out of createEngine, and the app exits.     *)
LaunchRefused ==
  /\ \/ flow = "launch" /\ (file # None \/ logFile # {})
     \/ flow = "launch.pool" /\ poolFile # None
  /\ Ends

-----------------------------------------------------------------------------
Decides == \E i \in Items : Approve(i) \/ ApproveAgain(i) \/ Reject(i)
Turns == (\E u \in Users : SignIn(u)) \/ SignOut \/ DeleteAllData \/ Crash \/ LaunchRefused
EngineActs ==
  \/ \E i \in Items : Capture(i) \/ FlushAgain(i) \/ Resolve(i)
  \/ StartUp \/ TickFlush \/ BackoffEnds \/ TickAdopt
  \/ PoolDropped \/ PoolHandedOver \/ SignInFlush
  \/ DeleteDrops \/ DeleteSignsOut \/ DeleteOutbox
ServerActs ==
  \/ \E held \in SUBSET send.batch : \E rejected \in SUBSET (send.batch \ held) :
       Submitted(held, rejected)
  \/ SubmitFails
DiskActs(worked) ==
  \/ \E i \in Items : Enqueued(i, worked)
  \/ Adopted(worked) \/ Logged(worked) \/ SendSaved(worked) \/ AdoptEnds(worked)
  \/ LoadFiles(worked) \/ RestorePool(worked)
  \/ SavePool(worked) \/ PoolCleared(worked) \/ OutboxDeleted(worked) \/ FilesDeleted(worked)
Next ==
  \/ (Decides \/ EngineActs \/ ServerActs \/ DiskActs(TRUE)) /\ UNCHANGED <<faults, turns>>
  \/ Turns /\ turns < MaxTurns /\ turns' = turns + 1 /\ UNCHANGED faults
  \/ DiskActs(FALSE) /\ faults < MaxFaults /\ faults' = faults + 1 /\ UNCHANGED turns

Spec == Init /\ [][Next]_vars

(* The timers go on, every request ends (httpApi.ts gives each a limit) and*)
(* every disk operation settles; a server and a disk that are asked again  *)
(* and again take the work some day.                                       *)
Going(act) == act /\ UNCHANGED <<faults, turns>>
Fairness ==
  /\ WF_vars(Going(LoadFiles(TRUE) \/ StartUp \/ RestorePool(TRUE) \/ PoolDropped \/ PoolHandedOver \/ SignInFlush))
  /\ WF_vars(Going(DeleteDrops \/ DeleteSignsOut \/ DeleteOutbox))
  /\ SF_vars(Going(AdoptEnds(TRUE) \/ PoolCleared(TRUE) \/ OutboxDeleted(TRUE) \/ FilesDeleted(TRUE)))
  /\ WF_vars(Going(TickFlush)) /\ SF_vars(Going(TickAdopt)) /\ WF_vars(Going(BackoffEnds))
  /\ SF_vars(Going(\E i \in Items : Enqueued(i, TRUE)))
  /\ WF_vars(Going(SubmitFails))
  /\ SF_vars(Going(\E rejected \in SUBSET send.batch :
                     Submitted(send.batch \ rejected, rejected)))
  /\ SF_vars(Going(Adopted(TRUE) \/ SendSaved(TRUE))) /\ SF_vars(Going(Logged(TRUE)))
FairSpec == Spec /\ Fairness

-----------------------------------------------------------------------------
Held == {i \in Items : \E u \in Users : <<u, i>> \in server}
(* The outbox and the sent log, which a launch has yet to load at first. *)
Box == IF flow = "launch" THEN BoxIn(file) ELSE mem
Record == IF flow = "launch" THEN logFile ELSE log

(* Under a live session the pool in memory holds only statements captured  *)
(* under that account, whatever sign-ins, sign-outs, restarts and refused  *)
(* removals of the pool file came before; except while the sign-in that    *)
(* replaced another session awaits the end of that one's run of capture    *)
(* (engine.ts:631), when the old account's are there still.                *)
PendingIsTheUsers ==
  user # None /\ flow \notin Launching \cup {"signIn.stopping"} => \A i \in pending : OwnerOf[i] = user

(* No statement is ever on the server under another account than its own,  *)
(* so long as each was approved by its own account and put in an outbox    *)
(* that was that account's.                                                *)
NeverToAnotherAccount ==
  ~misfiled => \A s \in server : OwnerOf[s[2]] = s[1] \/ s[2] \in Ownerless

(* An approved statement is never lost: it is in the outbox, on the        *)
(* server, refused for good, discarded with its account, or was in a file  *)
(* that a launch could not read.  For outbox changes that never overlapped.*)
NothingDropped ==
  ~raced => \A i \in approved : i \in Box.items \cup Held \cup refused \cup gone

(* The sent log never says of a statement that it left when it did not; and*)
(* what the server took and the outbox no longer holds is in the log under *)
(* the account it was sent as, or went with its account, or was in a file  *)
(* that a launch could not read.                                           *)
LogIsTrue ==
  /\ log \cup logFile \subseteq server
  /\ ~raced /\ ~misfiled =>
       \A s \in server : s \in Record \/ s[2] \in Box.items \cup gone

(* What three comments of the source promise, and the code does not keep.  *)
(*                                                                         *)
(* "nothing of the previous owner's may be shown, uploaded or left behind" *)
(* (engine.ts:629).  Shown: PendingIsTheUsers, with no exception for a     *)
(* sign-in that awaits the end of the old session's run of capture.        *)
NothingOfThePreviousShown ==
  user # None /\ flow \notin Launching => \A i \in pending : OwnerOf[i] = user
(* Uploaded: NeverToAnotherAccount, with no exception for an approval that *)
(* overlaps a change of account.                                           *)
NothingOfThePreviousUploaded ==
  \A s \in server : OwnerOf[s[2]] = s[1] \/ s[2] \in Ownerless
(* "Never dropped silently" (uploader.ts:13): NothingDropped, with no      *)
(* exception for two changes of the outbox that overlap; what is on its way*)
(* to the server is not dropped yet.                                       *)
NeverDroppedSilently ==
  \A i \in approved : i \in Box.items \cup send.batch \cup Held \cup refused \cup gone
(* "leave it alone" (jsonFile.ts:54): an outbox file that a launch could   *)
(* not read, and kept, is not written over: what a save replaces is no more*)
(* than what the outbox in memory holds at that moment.                    *)
LockedFileIsLeftAlone ==
  [][~raced /\ flow \notin {"launch"} \cup Deleting /\ file # None /\ file' # file
       => file.items \subseteq mem.items]_vars

(* Liveness: what waits in the live account's outbox leaves it, so long as *)
(* the session, the timers and the process last.                           *)
OutboxDrains ==
  \A i \in Items :
    i \in mem.items /\ mem.owner = user /\ ticking
      ~> i \notin mem.items \/ mem.owner # user \/ ~ticking
=============================================================================
