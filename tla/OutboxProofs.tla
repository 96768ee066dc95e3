----------------------------- MODULE OutboxProofs -----------------------------
(***************************************************************************)
(* Theorems about Outbox, for any accounts and statements, any number of   *)
(* faults of the disk, and any turns of the user and restarts.             *)
(***************************************************************************)
EXTENDS Outbox, SequenceTheorems, TLAPS

-----------------------------------------------------------------------------
(* The inductive invariant, in layers: each holds of a step because those  *)
(* before it hold of the step's first state and of its last.               *)

(* What the outbox and its file are made of.                               *)
Sends == [pc : {"none", "adopting", "submitting", "logging", "saving"}, owner : Account,
          batch : SUBSET Items, held : SUBSET Items, done : SUBSET Items, log : SUBSET (Users \X Items)]
Task == {t \in TasksOf(Writers, Boxes) :
           IF t.by = "clear" THEN t.kind = "remove" ELSE t.kind = "save" /\ t.value \in Boxes}
FileBox == BoxIn(file)

(* An upload has at most one save on its way, and only while it waits for  *)
(* it; the one that adopts names an account.                               *)
InTurn(q, p) ==
  /\ \A k \in 1..Len(q) : q[k].by = "send" => p \in {"adopting", "saving"}
  /\ \A j, k \in 1..Len(q) : q[j].by = "send" /\ q[k].by = "send" => j = k
  /\ p = "adopting" => \A k \in 1..Len(q) : q[k].by = "send" => q[k].value.owner \in Users
(* Who sends is an account, and what it is about to log is on the server.  *)
Sender(d) ==
  /\ d.pc \in {"none", "adopting"} => d.batch = {}
  /\ d.pc \in {"submitting", "logging", "saving"} => d.owner \in Users
Logs == log \cup logFile \cup send.log \subseteq server
Types == TypeOK /\ queue \in Seq(Task) /\ InTurn(queue, send.pc) /\ Sender(send) /\ Logs

(* A launch begins with nothing in memory.                                 *)
AtLaunch ==
  flow = "launch" => mem = EmptyBox /\ queue = <<>> /\ send = NoSend /\ log = {}

(* The pool, in memory and on disk, is its owner's, and the owner is who is*)
(* signed in, unless a sign-in waits to hand the pool over.                *)
Waiting == {"signIn.stopping", "signIn.saving"}
Deleted == {"delete.outbox", "delete.clearing", "delete.files"}
PoolIsItsOwners ==
  /\ \A i \in pending : OwnerOf[i] = poolOwner
  /\ poolFile # None => \A i \in poolFile.items : OwnerOf[i] = poolFile.owner
  /\ user # None /\ flow \notin Launching \cup Waiting => poolOwner = user
  /\ flow \in Waiting => heir \in Users /\ user \in {None, heir}
  /\ flow \in {"signIn.saving", "delete.saving"} \cup Deleted => pending = {}
  /\ flow \in Deleted => user = None /\ poolOwner = None
(* A statement is pending once it was captured, and one that an older build*)
(* left in an outbox never is.                                             *)
New == captured \ Ownerless
CapturedFirst ==
  /\ Ownerless \subseteq captured /\ approved \subseteq captured /\ pending \subseteq New
  /\ poolFile # None => poolFile.items \subseteq New
  /\ \A k \in 1..Len(queue) : queue[k].by \in Items => queue[k].by \in New

(* Every box holds its owner's statements.                                 *)
RightBox(b) == \A i \in b.items : OwnerOf[i] = b.owner \/ i \in Ownerless
Filed ==
  /\ RightBox(mem) /\ RightBox(FileBox)
  /\ \A k \in 1..Len(queue) : queue[k].kind = "save" => RightBox(queue[k].value)
  /\ \A i \in send.batch : OwnerOf[i] = send.owner \/ i \in Ownerless
  /\ \A s \in server : OwnerOf[s[2]] = s[1] \/ s[2] \in Ownerless

(* While no two changes of the outbox overlap, the one on its way was      *)
(* computed from the outbox in memory.                                     *)
Erasing == {"delete.clearing", "delete.files"}
Computed(t) ==
  /\ t.by \in Items => t.value.items = mem.items \cup {t.by} /\ flow \notin Erasing
  /\ t.by = "send" => t.value.items = IF send.pc = "adopting" THEN mem.items ELSE mem.items \ send.done
  /\ t.by = "adopt" => \/ t.value.items = mem.items /\ mem.owner \in {None, t.value.owner}
                       \/ t.value.items = {} /\ mem.owner \notin {None, t.value.owner}
  /\ t.by = "resave" => t.value = mem
  /\ t.by \in Items \cup {"send"} => mem.owner \in {None, t.value.owner}
OneChange ==
  /\ Len(queue) <= 1 /\ (queue # <<>> => Computed(queue[1]))
  /\ send.pc \in {"adopting", "saving"} => queue # <<>> /\ queue[1].by = "send"
Safe == Held \cup refused \cup gone
Kept ==
  /\ flow # "launch" => approved \subseteq mem.items \cup Safe /\ FileBox.items \subseteq mem.items \cup gone
  /\ approved \subseteq FileBox.items \cup Safe
  /\ mem.items \subseteq approved /\ FileBox.items \subseteq approved
  /\ mem.items \subseteq FileBox.items \cup gone
  /\ flow \in Erasing => approved \subseteq gone
  /\ send.pc \in {"logging", "saving"} => send.done \subseteq Held \cup refused
  /\ send.batch \subseteq mem.items \cup gone /\ send.batch \subseteq approved

(* ... and if moreover none was filed under another account, a statement   *)
(* that the server holds is nobody else's wherever it still is, and what   *)
(* left is in the sent log.                                                *)
Same(b) ==
  \A i \in b.items : /\ \A s \in server : s[2] = i => s[1] = b.owner
                     /\ i \in send.batch => send.owner = b.owner
Attributed ==
  /\ Same(mem) /\ Same(FileBox)
  /\ \A i \in mem.items \cap FileBox.items : mem.owner = FileBox.owner
  /\ \A s \in server : s[2] \in send.batch => s[1] = send.owner
  /\ \A s \in server : s[2] \in approved
OnRecord ==
  /\ flow # "launch" => \A s \in server : s \in log \/ s[2] \in mem.items \cup gone
  /\ \A s \in server : s \in logFile \/ s[2] \in FileBox.items \cup gone
  /\ send.pc = "logging" =>
       /\ \A s \in server : s[2] \in send.done => s \in send.log
       /\ \A s \in server : s \in send.log \/ s[2] \in mem.items \cup gone
  /\ send.pc = "saving" => \A s \in server : s[2] \in send.done => s[2] \in gone \/ s \in log \cap logFile
(* What memory has in the log and the file has not went with its account,  *)
(* and nobody approves it again.                                           *)
Unlogged ==
  /\ \A s \in log \ logFile : s[2] \in gone /\ s[2] \notin pending
  /\ \A k \in 1..Len(queue) : \A s \in log \ logFile : s[2] # queue[k].by
  /\ flow \in Launching => log \subseteq logFile
Orderly == OneChange /\ Kept
Recorded == Attributed /\ OnRecord /\ Unlogged

IInv ==
  /\ Types /\ AtLaunch /\ PoolIsItsOwners /\ CapturedFirst /\ (~misfiled => Filed)
  /\ (~raced => Orderly)
  /\ (~raced /\ ~misfiled => Recorded)

-----------------------------------------------------------------------------
(* The queue of one file: a task put in, the first one taken out.          *)
LEMMA PutIn ==
  ASSUME NEW q \in Seq(Task), NEW t \in Task
  PROVE  LET r == Append(q, t)
         IN  /\ r \in Seq(Task) /\ Len(r) = Len(q) + 1 /\ r[Len(r)] = t
             /\ \A k \in 1..Len(r) : (k \in 1..Len(q) /\ r[k] = q[k]) \/ (k = Len(r) /\ r[k] = t)
             /\ q = <<>> => Len(r) = 1 /\ r[1] = t
<1> DEFINE r == Append(q, t)
<1>1. /\ r \in Seq(Task) /\ Len(r) = Len(q) + 1 /\ r[Len(q) + 1] = t
      /\ \A k \in 1..Len(q) : r[k] = q[k]
  BY AppendProperties
<1> HIDE DEF r
<1>2. Len(q) \in Nat /\ (q = <<>> => Len(q) = 0)
  OBVIOUS
<1>3. QED
  BY <1>1, <1>2 DEF r
LEMMA TakenOut ==
  ASSUME NEW q \in Seq(Task), q # <<>>
  PROVE  /\ Tail(q) \in Seq(Task) /\ Head(q) = q[1] /\ q[1] \in Task /\ 1 \in 1..Len(q)
         /\ Len(Tail(q)) = Len(q) - 1
         /\ \A k \in 1..Len(Tail(q)) : k + 1 \in 1..Len(q) /\ Tail(q)[k] = q[k + 1]
         /\ Len(q) <= 1 => Tail(q) = <<>>
<1>1. Len(q) \in Nat /\ Len(q) # 0
  BY EmptySeq
<1>2. Tail(q) \in Seq(Task) /\ Len(Tail(q)) = Len(q) - 1 /\ \A k \in 1..Len(Tail(q)) : Tail(q)[k] = q[k + 1]
  BY HeadTailProperties
<1>3. 1 \in 1..Len(q)
  BY <1>1
<1>4. q[1] \in Task
  BY <1>3, ElementOfSeq
<1>5. Len(q) <= 1 => Tail(q) = <<>>
  BY <1>1, <1>2, EmptySeq
<1>6. QED
  BY <1>1, <1>2, <1>3, <1>4, <1>5

(* Saves and removals are tasks.                                           *)
LEMMA TaskTypes ==
  /\ \A by \in Writers : \A b \in Boxes : by # "clear" =>
       SaveTask(by, b) \in Task /\ SaveTask(by, b).by = by /\ SaveTask(by, b).value = b /\ SaveTask(by, b).kind = "save"
  /\ RemoveTask("clear") \in Task /\ RemoveTask("clear").by = "clear" /\ RemoveTask("clear").kind = "remove"
  /\ \A t \in Task : t.by \in Writers /\ (t.by # "clear" => t.kind = "save" /\ t.value \in Boxes)
                     /\ (t.by = "clear" => t.kind = "remove")
<1>1. "clear" \in Writers
  BY DEF Writers
<1>2. QED
  BY <1>1 DEF SaveTask, RemoveTask, Task, TasksOf

(* Boxes, and the one a file is read as.                                   *)
LEMMA BoxTypes ==
  /\ EmptyBox \in Boxes /\ EmptyBox.owner = None /\ EmptyBox.items = {}
  /\ \A b \in Boxes : b # None /\ BoxIn(b) = b /\ b.owner \in Account /\ b.items \in SUBSET Items
  /\ BoxIn(None) = EmptyBox
  /\ \A b \in Boxes : \A u \in Account : [b EXCEPT !.owner = u] \in Boxes
                     /\ [b EXCEPT !.owner = u].owner = u /\ [b EXCEPT !.owner = u].items = b.items
  /\ \A b \in Boxes : \A I \in SUBSET Items : [b EXCEPT !.items = I] \in Boxes
                     /\ [b EXCEPT !.items = I].items = I /\ [b EXCEPT !.items = I].owner = b.owner
  /\ \A u \in Account : \A I \in SUBSET Items : [owner |-> u, items |-> I] \in Boxes
BY NamesAssumption DEF EmptyBox, Boxes, Account, BoxIn

(* A task lands.                                                           *)
LEMMA LandedTypes ==
  ASSUME queue \in Seq(Task), file \in Boxes \cup {None}, NEW by, NEW worked \in BOOLEAN, Landed(by, worked)
  PROVE  /\ queue # <<>> /\ Tail(queue) \in Seq(Task) /\ Head(queue) = queue[1] /\ queue[1] \in Task /\ queue[1].by = by
         /\ 1 \in 1..Len(queue)
         /\ file' \in Boxes \cup {None} /\ FileBox \in Boxes /\ FileBox' \in Boxes
         /\ by # "clear" => queue[1].value \in Boxes /\ FileBox' = (IF worked THEN queue[1].value ELSE FileBox)
         /\ by = "clear" => FileBox' \in {FileBox, EmptyBox}
<1>1. /\ queue # <<>> /\ Tail(queue) \in Seq(Task) /\ Head(queue) = queue[1] /\ queue[1] \in Task /\ queue[1].by = by
      /\ 1 \in 1..Len(queue)
  BY TakenOut DEF Landed
<1>2. /\ by # "clear" => queue[1].kind = "save" /\ queue[1].value \in Boxes
      /\ by = "clear" => queue[1].kind = "remove"
  BY <1>1, TaskTypes
<1>3. file' = (IF worked THEN IF queue[1].kind = "save" THEN queue[1].value ELSE None ELSE file)
  BY <1>1 DEF Landed, FileAfter, After
<1>4. FileBox = BoxIn(file) /\ FileBox' = BoxIn(file')
  BY DEF FileBox
<1>5. QED
  BY <1>1, <1>2, <1>3, <1>4, BoxTypes

(* Whose turn it is, when a task is put in or taken out.                   *)
LEMMA TurnPutIn ==
  ASSUME NEW q \in Seq(Task), NEW t \in Task, NEW p, InTurn(q, p)
  PROVE  /\ t.by # "send" => InTurn(Append(q, t), p)
         /\ \A r \in {"adopting", "saving"} :
              p \notin {"adopting", "saving"} /\ (r = "adopting" => t.value.owner \in Users) => InTurn(Append(q, t), r)
<1> DEFINE r == Append(q, t)
<1>1. /\ r \in Seq(Task) /\ Len(r) = Len(q) + 1 /\ r[Len(r)] = t
      /\ \A k \in 1..Len(r) : (k \in 1..Len(q) /\ r[k] = q[k]) \/ (k = Len(r) /\ r[k] = t)
      /\ q = <<>> => Len(r) = 1 /\ r[1] = t
  BY PutIn
<1> HIDE DEF r
<1>2. t.by # "send" => InTurn(r, p)
  BY <1>1 DEF InTurn
<1>3. ASSUME NEW o \in {"adopting", "saving"}, p \notin {"adopting", "saving"}, o = "adopting" => t.value.owner \in Users
      PROVE  InTurn(r, o)
  BY <1>1, <1>3 DEF InTurn
<1>4. QED
  BY <1>2, <1>3 DEF r
LEMMA TurnTakenOut ==
  ASSUME NEW q \in Seq(Task), q # <<>>, NEW p, InTurn(q, p)
  PROVE  /\ InTurn(Tail(q), p)
         /\ q[1].by = "send" => \A r : InTurn(Tail(q), r)
<1>1. /\ Tail(q) \in Seq(Task) /\ 1 \in 1..Len(q)
      /\ Len(Tail(q)) = Len(q) - 1
      /\ \A k \in 1..Len(Tail(q)) : k + 1 \in 1..Len(q) /\ Tail(q)[k] = q[k + 1]
  BY TakenOut
<1>2. \A j, k \in 1..Len(Tail(q)) : j + 1 = k + 1 => j = k
  BY <1>1
<1>3. InTurn(Tail(q), p)
  BY <1>1, <1>2 DEF InTurn
<1>4. ASSUME q[1].by = "send" PROVE \A k \in 1..Len(Tail(q)) : Tail(q)[k].by # "send"
  <2>1. \A k \in 1..Len(Tail(q)) : k + 1 # 1
    BY <1>1
  <2>2. QED
    BY <1>1, <1>4, <2>1 DEF InTurn
<1>5. QED
  BY <1>3, <1>4 DEF InTurn
LEMMA TurnOther ==
  ASSUME NEW q \in Seq(Task), NEW p, InTurn(q, p), p \notin {"adopting", "saving"}
  PROVE  \A r : InTurn(q, r)
BY DEF InTurn

-----------------------------------------------------------------------------
(* The steps, by what they do to the outbox: nothing; an adoption asked    *)
(* for, maybe; a flush; or something of their own.                         *)
Quiet ==
  \/ \E i \in Items : Capture(i) \/ Resolve(i) \/ ApproveAgain(i) \/ Reject(i)
  \/ \E worked \in BOOLEAN : SavePool(worked) \/ RestorePool(worked)
  \/ PoolDropped \/ PoolHandedOver
  \/ SignOut \/ BackoffEnds \/ DeleteAllData \/ DeleteDrops \/ DeleteSignsOut
Asking ==
  \/ StartUp \/ TickAdopt \/ \E u \in Users : SignIn(u)
  \/ \E worked \in BOOLEAN : PoolCleared(worked)
Flushing == TickFlush \/ SignInFlush \/ \E i \in Items : FlushAgain(i)
Deciding == \E i \in Items : Approve(i) \/ \E worked \in BOOLEAN : Enqueued(i, worked)
Sending ==
  \/ \E held \in SUBSET send.batch : \E rejected \in SUBSET (send.batch \ held) : Submitted(held, rejected)
  \/ SubmitFails
  \/ \E worked \in BOOLEAN : Adopted(worked) \/ Logged(worked) \/ SendSaved(worked)
Owning ==
  \/ DeleteOutbox
  \/ \E worked \in BOOLEAN : AdoptEnds(worked) \/ OutboxDeleted(worked) \/ FilesDeleted(worked)
Loading == \E worked \in BOOLEAN : LoadFiles(worked)
LEMMA NextIs ==
  [Next]_vars => \/ Quiet \/ Asking \/ Flushing \/ Deciding \/ Sending \/ Owning \/ Loading \/ Ends
                 \/ UNCHANGED vars
BY DEF Next, Decides, EngineActs, ServerActs, DiskActs, Turns, Quiet, Asking, Flushing, Deciding, Sending, Owning,
  Loading, Crash, LaunchRefused
LEMMA NextCounts ==
  TypeOK /\ [Next]_vars => faults' \in 0..MaxFaults /\ turns' \in 0..MaxTurns
<1> SUFFICES ASSUME TypeOK, [Next]_vars PROVE faults' \in 0..MaxFaults /\ turns' \in 0..MaxTurns
  OBVIOUS
<1>1. /\ faults \in 0..MaxFaults /\ turns \in 0..MaxTurns /\ MaxFaults \in Nat /\ MaxTurns \in Nat
  BY BoundsAssumption DEF TypeOK
<1>2. /\ faults' = faults \/ (faults < MaxFaults /\ faults' = faults + 1)
      /\ turns' = turns \/ (turns < MaxTurns /\ turns' = turns + 1)
  BY DEF Next, vars
<1>3. QED
  BY <1>1, <1>2

(* What a step may leave alone beside the outbox.                          *)
Things == <<approved, gone, server, refused, log, logFile>>
LEMMA QuietIs == Quiet => UNCHANGED <<mem, file, queue, send, raced, misfiled, Things>>
BY DEF Quiet, Capture, Resolve, ApproveAgain, Reject, LeavePool, SavePool, RestorePool, PoolDropped, PoolHandedOver,
  SignOut, BackoffEnds, DeleteAllData, DeleteDrops, DeleteSignsOut, outbox, history, world, sent, Things
LEMMA AskingIs ==
  TypeOK /\ Asking =>
    /\ UNCHANGED <<mem, file, send, misfiled, Things>>
    /\ UNCHANGED <<queue, raced>> \/ \E u \in Account : StartAdopt(u)
<1>1. TypeOK /\ StartUp => \/ UNCHANGED <<queue, raced>> \/ \E u \in Account : StartAdopt(u)
  BY DEF TypeOK, StartUp
<1>2. TypeOK /\ TickAdopt => \E u \in Account : StartAdopt(u)
  BY DEF TypeOK, TickAdopt
<1>3. \A u \in Users : SignIn(u) => UNCHANGED <<queue, raced>> \/ \E v \in Account : StartAdopt(v)
  BY DEF SignIn, Account
<1>4. TypeOK /\ (\E worked \in BOOLEAN : PoolCleared(worked)) => \E u \in Account : StartAdopt(u)
  BY DEF TypeOK, PoolCleared
<1>5. Asking => UNCHANGED <<mem, file, send, misfiled, Things>>
  BY DEF Asking, StartUp, TickAdopt, SignIn, PoolCleared, outbox, history, world, sent, Things
<1>6. QED
  BY <1>1, <1>2, <1>3, <1>4, <1>5 DEF Asking
LEMMA FlushingIs ==
  Flushing => /\ UNCHANGED <<mem, file, misfiled, Things>>
              /\ \E force \in BOOLEAN : Flush(mem, queue, force)
BY DEF Flushing, TickFlush, SignInFlush, FlushAgain, outbox, history, world, sent, Things

-----------------------------------------------------------------------------
(* The types, in parts.                                                    *)
BoxPart ==
  /\ mem \in Boxes /\ file \in Boxes \cup {None} /\ queue \in Seq(Task) /\ InTurn(queue, send.pc)
  /\ send \in Sends /\ Sender(send)
PoolPart ==
  /\ user \in Account /\ pending \subseteq Items /\ poolOwner \in Account /\ poolFile \in Boxes \cup {None}
  /\ captured \subseteq Items /\ savedPool \in Boxes \cup {None} /\ heir \in Account
LogPart ==
  /\ log \subseteq Users \X Items /\ logFile \subseteq Users \X Items /\ server \subseteq Users \X Items
  /\ refused \subseteq Items /\ approved \subseteq Items /\ gone \subseteq Items /\ Logs
FlagPart ==
  /\ backoff \in BOOLEAN /\ problem \in BOOLEAN /\ ticking \in BOOLEAN /\ raced \in BOOLEAN
  /\ misfiled \in BOOLEAN
Flows == {"none", "tick.adopting"} \cup Launching \cup SigningIn \cup Deleting
WayPart == flow \in Flows /\ deciding \in [Items -> {"no", "saving", "flushing", "joined", "keeping"}]
LEMMA TypeParts ==
  /\ Types => BoxPart /\ PoolPart /\ LogPart /\ FlagPart /\ WayPart
  /\ /\ BoxPart' /\ PoolPart' /\ LogPart' /\ FlagPart' /\ WayPart'
     /\ faults' \in 0..MaxFaults /\ turns' \in 0..MaxTurns
     => Types'
<1>1. Types => BoxPart /\ PoolPart /\ LogPart /\ FlagPart /\ WayPart
  BY DEF Types, TypeOK, BoxPart, PoolPart, LogPart, FlagPart, WayPart, Flows, Sends
<1>2. ASSUME BoxPart', PoolPart', LogPart', FlagPart', WayPart', faults' \in 0..MaxFaults, turns' \in 0..MaxTurns
      PROVE  Types'
  <2>1. Task \subseteq TasksOf(Writers, Boxes)
    BY DEF Task
  <2>2. queue' \in Seq(TasksOf(Writers, Boxes))
    <3>1. queue' \in Seq(Task)
      BY <1>2 DEF BoxPart
    <3>2. \A i \in 1..Len(queue') : queue'[i] \in TasksOf(Writers, Boxes)
      BY <2>1, <3>1, ElementOfSeq
    <3>3. queue' \in [1..Len(queue') -> TasksOf(Writers, Boxes)] /\ Len(queue') \in Nat
      BY <3>1, <3>2
    <3>4. QED
      BY <3>3, SeqDef
  <2>3. TypeOK'
    <3>1. /\ user' \in Account /\ mem' \in Boxes /\ file' \in Boxes \cup {None} /\ send' \in Sends
          /\ pending' \subseteq Items /\ poolOwner' \in Account /\ poolFile' \in Boxes \cup {None}
          /\ captured' \subseteq Items /\ savedPool' \in Boxes \cup {None} /\ heir' \in Account
      BY <1>2 DEF BoxPart, PoolPart
    <3>2. backoff' \in BOOLEAN /\ problem' \in BOOLEAN
      BY <1>2 DEF FlagPart
    <3>3. ticking' \in BOOLEAN /\ raced' \in BOOLEAN /\ misfiled' \in BOOLEAN
      BY <1>2 DEF FlagPart
    <3>4. /\ log' \subseteq Users \X Items /\ logFile' \subseteq Users \X Items /\ server' \subseteq Users \X Items
          /\ refused' \subseteq Items /\ approved' \subseteq Items /\ gone' \subseteq Items
      BY <1>2 DEF LogPart
    <3>5. flow' \in Flows /\ deciding' \in [Items -> {"no", "saving", "flushing", "joined", "keeping"}]
      BY <1>2 DEF WayPart
    <3>6. QED
      BY <1>2, <2>2, <3>1, <3>2, <3>3, <3>4, <3>5 DEF TypeOK, Sends, Flows
  <2>4. QED
    BY <1>2, <2>3 DEF Types, BoxPart, LogPart
<1>3. QED
  BY <1>1, <1>2

(* Where the long operations stand.                                        *)
LEMMA WayStep == Types /\ [Next]_vars => flow' \in Flows
<1> SUFFICES ASSUME Types, [Next]_vars PROVE flow' \in Flows
  OBVIOUS
<1>1. flow \in Flows
  BY TypeParts DEF WayPart
<1>2. CASE Quiet
  BY <1>1, <1>2 DEF Quiet, Capture, Resolve, ApproveAgain, Reject, LeavePool, SavePool, RestorePool, PoolDropped,
    PoolHandedOver, SignOut, BackoffEnds, DeleteAllData, DeleteDrops, DeleteSignsOut, phase, Flows, SigningIn, Deleting
<1>3. CASE Asking
  BY <1>1, <1>3 DEF Asking, StartUp, TickAdopt, SignIn, PoolCleared, Flows, Launching, SigningIn
<1>4. CASE Flushing \/ Deciding \/ Sending
  BY <1>1, <1>4 DEF Flushing, Deciding, Sending, TickFlush, SignInFlush, FlushAgain, Approve, Enqueued, Submitted,
    SubmitFails, Adopted, Logged, SendSaved, phase, Flows
<1>5. CASE Owning
  <2>1. CASE \E worked \in BOOLEAN : AdoptEnds(worked)
    <3>1. flow' = AfterAdopting /\ flow \in {"launch.adopting", "signIn.adopting", "tick.adopting"}
      BY <2>1 DEF AdoptEnds, Adopting
    <3>2. flow' \in {"launch.pool", "signIn.flush", "none"}
      BY <3>1, Zenon DEF AfterAdopting
    <3>3. QED
      BY <3>2 DEF Flows, Launching, SigningIn
  <2>2. CASE ~\E worked \in BOOLEAN : AdoptEnds(worked)
    BY <1>5, <2>2 DEF Owning, DeleteOutbox, OutboxDeleted, FilesDeleted, Flows, Deleting
  <2>3. QED
    BY <2>1, <2>2
<1>6. CASE Loading \/ Ends
  BY <1>6 DEF Loading, LoadFiles, Ends, Flows, Launching
<1>7. CASE UNCHANGED vars
  BY <1>1, <1>7 DEF vars, phase
<1>8. QED
  BY <1>2, <1>3, <1>4, <1>5, <1>6, <1>7, NextIs

(* How they go on: to where they adopted for, and from one stage of the    *)
(* deletion to the next.                                                   *)
LEMMA AfterAdoptingIs ==
  ASSUME NEW worked, AdoptEnds(worked)
  PROVE  \/ flow = "launch.adopting" /\ flow' = "launch.pool"
         \/ flow = "signIn.adopting" /\ flow' = "signIn.flush"
         \/ flow = "tick.adopting" /\ flow' = "none"
<1>1. flow' = AfterAdopting /\ flow \in {"launch.adopting", "signIn.adopting", "tick.adopting"}
  BY DEF AdoptEnds, Adopting
<1>2. QED
  BY <1>1, Zenon DEF AfterAdopting

(* Decisions.                                                              *)
LEMMA DecideStep ==
  Types /\ [Next]_vars => deciding' \in [Items -> {"no", "saving", "flushing", "joined", "keeping"}]
<1> SUFFICES ASSUME Types, [Next]_vars
             PROVE  deciding' \in [Items -> {"no", "saving", "flushing", "joined", "keeping"}]
  OBVIOUS
<1>1. deciding \in [Items -> {"no", "saving", "flushing", "joined", "keeping"}]
  BY TypeParts DEF WayPart
<1>2. CASE Quiet
  <2>1. CASE \E i \in Items : Resolve(i) \/ ApproveAgain(i) \/ Reject(i)
    BY <1>1, <2>1 DEF Resolve, ApproveAgain, Reject, LeavePool
  <2>2. CASE \E worked \in BOOLEAN : SavePool(worked)
    BY <1>1, <2>2 DEF SavePool
  <2>3. CASE \/ \E i \in Items : Capture(i)
             \/ \E worked \in BOOLEAN : RestorePool(worked)
             \/ PoolDropped \/ PoolHandedOver
             \/ SignOut \/ BackoffEnds \/ DeleteAllData \/ DeleteDrops \/ DeleteSignsOut
    BY <1>1, <2>3 DEF Capture, RestorePool, PoolDropped, PoolHandedOver, SignOut, BackoffEnds, DeleteAllData,
      DeleteDrops, DeleteSignsOut
  <2>4. QED
    BY <1>2, <2>1, <2>2, <2>3 DEF Quiet
<1>3. CASE Asking
  BY <1>1, <1>3 DEF Asking, StartUp, TickAdopt, SignIn, PoolCleared
<1>4. CASE Flushing
  BY <1>1, <1>4 DEF Flushing, TickFlush, SignInFlush, FlushAgain
<1>5. CASE Deciding
  <2>1. \A i \in Items : Approve(i) => deciding' = [deciding EXCEPT ![i] = "saving"]
    BY DEF Approve
  <2>2. \A i \in Items : \A worked \in BOOLEAN : Enqueued(i, worked) =>
          \E d \in {"no", "flushing", "joined"} : deciding' = [deciding EXCEPT ![i] = d]
    BY DEF Enqueued
  <2>3. QED
    BY <1>1, <1>5, <2>1, <2>2 DEF Deciding
<1>6. CASE Sending
  BY <1>1, <1>6 DEF Sending, Submitted, SubmitFails, Adopted, Logged, SendSaved
<1>7. CASE Owning \/ Loading
  BY <1>1, <1>7 DEF Owning, DeleteOutbox, AdoptEnds, OutboxDeleted, FilesDeleted, Loading, LoadFiles
<1>8. CASE Ends \/ UNCHANGED vars
  BY <1>1, <1>8 DEF Ends, vars
<1>9. QED
  BY <1>2, <1>3, <1>4, <1>5, <1>6, <1>7, <1>8, NextIs

(* The process is launched by its end, and stays so until the files are    *)
(* loaded.                                                                 *)
LEMMA StillLaunched ==
  Quiet \/ Asking \/ Flushing \/ UNCHANGED vars => (flow' = "launch") = (flow = "launch")
<1>1. Quiet => (flow' = "launch") = (flow = "launch")
  BY DEF Quiet, Capture, Resolve, ApproveAgain, Reject, LeavePool, SavePool, RestorePool, PoolDropped,
    PoolHandedOver, SignOut, BackoffEnds, DeleteAllData, DeleteDrops, DeleteSignsOut, phase
<1>2. Asking \/ Flushing => (flow' = "launch") = (flow = "launch")
  BY DEF Asking, StartUp, TickAdopt, SignIn, PoolCleared, Flushing, TickFlush, SignInFlush, FlushAgain, phase
<1>3. UNCHANGED vars => (flow' = "launch") = (flow = "launch")
  BY DEF vars, phase
<1>4. QED
  BY <1>1, <1>2, <1>3
LEMMA LaunchIs ==
  [Next]_vars => \/ Ends /\ flow' = "launch"
                 \/ Loading /\ flow = "launch" /\ flow' = "launch.loaded"
                 \/ (flow' = "launch") = (flow = "launch") /\ ~Loading
<1> SUFFICES ASSUME [Next]_vars
             PROVE  \/ Ends /\ flow' = "launch"
                    \/ Loading /\ flow = "launch" /\ flow' = "launch.loaded"
                    \/ (flow' = "launch") = (flow = "launch") /\ ~Loading
  OBVIOUS
<1>1. Ends => flow' = "launch"
  BY DEF Ends
<1>2. Loading => flow = "launch" /\ flow' = "launch.loaded"
  BY DEF Loading, LoadFiles
<1>3. CASE Quiet
  BY <1>2, <1>3 DEF Quiet, Capture, Resolve, ApproveAgain, Reject, LeavePool, SavePool, RestorePool, PoolDropped,
    PoolHandedOver, SignOut, BackoffEnds, DeleteAllData, DeleteDrops, DeleteSignsOut, phase
<1>4. CASE Asking \/ Flushing \/ Deciding \/ Sending
  BY <1>2, <1>4 DEF Asking, StartUp, TickAdopt, SignIn, PoolCleared, Flushing, Deciding, Sending, TickFlush, SignInFlush,
    FlushAgain, Approve, Enqueued, Submitted, SubmitFails, Adopted, Logged, SendSaved, phase
<1>5. CASE \E worked \in BOOLEAN : AdoptEnds(worked)
  BY <1>2, <1>5, AfterAdoptingIs
<1>6. CASE Owning /\ ~\E worked \in BOOLEAN : AdoptEnds(worked)
  BY <1>2, <1>6 DEF Owning, DeleteOutbox, OutboxDeleted, FilesDeleted
<1>7. CASE UNCHANGED vars
  BY <1>2, <1>7 DEF vars, phase
<1>8. QED
  BY <1>1, <1>2, <1>3, <1>4, <1>5, <1>6, <1>7, NextIs DEF Owning

-----------------------------------------------------------------------------
(* The pool keeps its types and its owner.                                 *)
PoolStill == UNCHANGED <<user, pending, poolOwner, poolFile, savedPool, captured, heir>>
Emptied == {"signIn.saving", "delete.saving"} \cup Deleted
LEMMA PoolStep ==
  ASSUME Types, PoolIsItsOwners, [Next]_vars
  PROVE  PoolPart' /\ PoolIsItsOwners'
<1> USE DEF Launching, Waiting, Deleted
<1>1. PoolPart
  BY TypeParts
<1>2. ASSUME PoolStill, flow' \notin Launching \cup Waiting => flow \notin Launching \cup Waiting,
             flow' \in Waiting => flow \in Waiting, flow' \in Emptied => flow \in Emptied,
             flow' \in Deleted => flow \in Deleted
      PROVE  PoolPart' /\ PoolIsItsOwners'
  <2>1. PoolPart'
    BY <1>1, <1>2 DEF PoolStill, PoolPart
  <2>2. QED
    BY <1>2, <2>1 DEF PoolStill, PoolIsItsOwners, Emptied
<1>3. CASE Flushing \/ Deciding \/ Sending \/ UNCHANGED vars
  <2>1. PoolStill
    BY <1>3 DEF Flushing, Deciding, Sending, TickFlush, SignInFlush, FlushAgain, Approve, Enqueued, Submitted,
      SubmitFails, Adopted, Logged, SendSaved, vars, pool, phase, PoolStill
  <2>2. flow' = flow \/ (flow' = "none" /\ flow = "signIn.flush")
    BY <1>3 DEF Flushing, Deciding, Sending, TickFlush, SignInFlush, FlushAgain, Approve, Enqueued, Submitted,
      SubmitFails, Adopted, Logged, SendSaved, vars, phase
  <2>3. QED
    BY <1>2, <2>1, <2>2 DEF Emptied
<1>4. CASE Quiet
  <2>1. CASE \E i \in Items : Capture(i)
    <3>1. PICK i \in Items : Capture(i)
      BY <2>1
    <3>2. OwnerOf[i] # None
      BY OwnerAssumption, NoneAssumption
    <3>3. /\ flow \notin Launching /\ flow \notin {"signIn.saving", "delete.saving"}
          /\ poolOwner = OwnerOf[i] /\ pending' = pending \cup {i} /\ captured' = captured \cup {i}
          /\ UNCHANGED <<user, poolOwner, poolFile, savedPool, heir, flow>>
      BY <3>1 DEF Capture, phase, Fresh
    <3>4. QED
      BY <1>1, <3>2, <3>3 DEF PoolPart, PoolIsItsOwners
  <2>2. CASE \E i \in Items : Resolve(i) \/ ApproveAgain(i) \/ Reject(i)
    <3>1. pending' \subseteq pending /\ UNCHANGED <<user, poolOwner, poolFile, savedPool, captured, heir, flow>>
      BY <2>2 DEF Resolve, ApproveAgain, Reject, LeavePool, phase
    <3>2. PoolPart'
      BY <1>1, <3>1 DEF PoolPart
    <3>3. QED
      BY <3>1, <3>2 DEF PoolIsItsOwners
  <2>3. CASE \E worked \in BOOLEAN : SavePool(worked)
    <3>1. /\ UNCHANGED <<user, pending, poolOwner, captured, heir, flow>> /\ poolFile' \in {poolFile, Snapshot}
          /\ savedPool' \in {savedPool, Snapshot}
      BY <2>3 DEF SavePool, phase
    <3>2. Snapshot \in Boxes /\ Snapshot.owner = poolOwner /\ Snapshot.items = pending
      BY <1>1, BoxTypes DEF PoolPart, Snapshot
    <3>3. PoolPart'
      BY <1>1, <3>1, <3>2 DEF PoolPart
    <3>4. QED
      BY <3>1, <3>2, <3>3 DEF PoolIsItsOwners
  <2>4. CASE \E worked \in BOOLEAN : RestorePool(worked)
    <3>1. /\ flow' = "none" /\ UNCHANGED <<user, captured, heir>> /\ savedPool' = Snapshot'
          /\ \/ /\ poolFile # None /\ user \in {None, poolFile.owner} /\ pending' = poolFile.items
                /\ poolOwner' = poolFile.owner /\ poolFile' = poolFile
             \/ pending' = {} /\ poolOwner' = user /\ poolFile' \in {poolFile, None}
      BY <2>4 DEF RestorePool, OwnPool
    <3>2. poolFile # None => poolFile \in Boxes /\ poolFile.owner \in Account /\ poolFile.items \in SUBSET Items
      BY <1>1, BoxTypes DEF PoolPart
    <3>3. pending' \in SUBSET Items /\ poolOwner' \in Account
      BY <1>1, <3>1, <3>2 DEF PoolPart
    <3>4. Snapshot' \in Boxes
      BY <3>3, BoxTypes DEF Snapshot
    <3>5. PoolPart'
      BY <1>1, <3>1, <3>3, <3>4 DEF PoolPart
    <3>6. QED
      BY <3>1, <3>5 DEF PoolIsItsOwners
  <2>5. CASE SignOut \/ BackoffEnds
    BY <1>1, <2>5 DEF SignOut, BackoffEnds, PoolPart, PoolIsItsOwners, pool, phase, Account
  <2>6. CASE PoolDropped \/ DeleteDrops
    <3>1. /\ pending' = {} /\ UNCHANGED <<user, poolOwner, poolFile, savedPool, captured, heir>>
          /\ \/ flow = "signIn.stopping" /\ flow' = "signIn.saving"
             \/ flow = "delete.stopping" /\ flow' = "delete.saving"
      BY <2>6 DEF PoolDropped, DeleteDrops
    <3>2. PoolPart'
      BY <1>1, <3>1 DEF PoolPart
    <3>3. QED
      BY <3>1, <3>2 DEF PoolIsItsOwners
  <2>7. CASE PoolHandedOver
    <3>1. /\ flow = "signIn.saving" /\ flow' = "signIn.clearing" /\ poolOwner' = heir /\ heir' = None
          /\ savedPool' = [Snapshot EXCEPT !.owner = heir] /\ UNCHANGED <<user, pending, poolFile, captured>>
      BY <2>7 DEF PoolHandedOver
    <3>2. pending = {} /\ heir \in Users /\ user \in {None, heir}
      BY <3>1 DEF PoolIsItsOwners
    <3>3. [Snapshot EXCEPT !.owner = heir] \in Boxes
      BY <1>1, BoxTypes DEF PoolPart, Snapshot
    <3>4. PoolPart'
      BY <1>1, <3>1, <3>3 DEF PoolPart, Account
    <3>5. QED
      BY <3>1, <3>2, <3>4 DEF PoolIsItsOwners
  <2>8. CASE DeleteAllData
    <3>1. PoolStill /\ flow = "none" /\ flow' = "delete.stopping"
      BY <2>8 DEF DeleteAllData, pool, PoolStill
    <3>2. QED
      BY <1>2, <3>1 DEF Emptied
  <2>9. CASE DeleteSignsOut
    <3>1. /\ flow = "delete.saving" /\ flow' = "delete.outbox" /\ poolOwner' = None /\ user' = None
          /\ UNCHANGED <<pending, poolFile, savedPool, captured, heir>>
      BY <2>9 DEF DeleteSignsOut
    <3>2. PoolPart'
      BY <1>1, <3>1 DEF PoolPart, Account
    <3>3. QED
      BY <3>1, <3>2 DEF PoolIsItsOwners
  <2>10. QED
    BY <1>4, <2>1, <2>2, <2>3, <2>4, <2>5, <2>6, <2>7, <2>8, <2>9 DEF Quiet
<1>5. CASE Asking
  <2>1. CASE StartUp \/ TickAdopt
    BY <1>2, <2>1 DEF StartUp, TickAdopt, pool, PoolStill, Emptied
  <2>2. ASSUME NEW u \in Users, SignIn(u) PROVE PoolPart' /\ PoolIsItsOwners'
    <3>1. \A i \in pending : OwnerOf[i] \in Users /\ OwnerOf[i] # None
      BY <1>1, OwnerAssumption, NoneAssumption DEF PoolPart
    <3>2. flow = "none" /\ user' = u /\ UNCHANGED <<poolFile, savedPool, captured>>
      BY <2>2 DEF SignIn
    <3>3. CASE poolOwner \notin {None, u}
      <4>1. /\ heir' = u /\ poolOwner' = poolOwner
            /\ \/ pending' = {} /\ flow' = "signIn.saving"
               \/ flow' = "signIn.stopping" /\ pending' = pending
        BY <2>2, <3>3 DEF SignIn
      <4>2. PoolPart'
        BY <1>1, <3>2, <4>1 DEF PoolPart, Account
      <4>3. QED
        BY <3>2, <4>1, <4>2 DEF PoolIsItsOwners
    <3>4. CASE poolOwner \in {None, u}
      <4>1. poolOwner' = u /\ flow' = "signIn.adopting" /\ UNCHANGED <<pending, heir>>
        BY <2>2, <3>4 DEF SignIn
      <4>2. PoolPart'
        BY <1>1, <3>2, <4>1 DEF PoolPart, Account
      <4>3. QED
        BY <3>1, <3>2, <3>4, <4>1, <4>2 DEF PoolIsItsOwners
    <3>5. QED
      BY <3>3, <3>4
  <2>3. CASE \E worked \in BOOLEAN : PoolCleared(worked)
    <3>1. /\ flow = "signIn.clearing" /\ flow' = "signIn.adopting" /\ UNCHANGED <<user, pending, poolOwner, captured, heir>>
          /\ poolFile' \in {poolFile, None} /\ savedPool' \in {savedPool, None}
      BY <2>3 DEF PoolCleared
    <3>2. PoolPart'
      BY <1>1, <3>1 DEF PoolPart
    <3>3. QED
      BY <3>1, <3>2 DEF PoolIsItsOwners
  <2>4. QED
    BY <1>5, <2>1, <2>2, <2>3 DEF Asking
<1>6. CASE Owning \/ Loading
  <2>1. CASE \E worked \in BOOLEAN : AdoptEnds(worked)
    <3>1. PoolStill
      BY <2>1 DEF AdoptEnds, pool, PoolStill
    <3>2. QED
      BY <1>2, <2>1, <3>1, AfterAdoptingIs DEF Emptied
  <2>2. CASE DeleteOutbox \/ (\E worked \in BOOLEAN : OutboxDeleted(worked)) \/ Loading
    BY <1>2, <2>2 DEF DeleteOutbox, OutboxDeleted, Loading, LoadFiles, pool, PoolStill, Emptied
  <2>3. CASE \E worked \in BOOLEAN : FilesDeleted(worked)
    <3>1. /\ flow = "delete.files" /\ flow' = "none" /\ UNCHANGED <<user, pending, poolOwner, captured, heir>>
          /\ poolFile' \in {poolFile, None} /\ savedPool' \in {savedPool, Snapshot}
      BY <2>3 DEF FilesDeleted
    <3>2. Snapshot \in Boxes
      BY <1>1, BoxTypes DEF PoolPart, Snapshot
    <3>3. PoolPart'
      BY <1>1, <3>1, <3>2 DEF PoolPart
    <3>4. QED
      BY <3>1, <3>3 DEF PoolIsItsOwners
  <2>4. QED
    BY <1>6, <2>1, <2>2, <2>3 DEF Owning
<1>7. CASE Ends
  <2>1. /\ pending' = {} /\ poolOwner' = None /\ savedPool' = None /\ heir' = None /\ flow' = "launch"
        /\ user' \in {user, poolOwner, None} /\ UNCHANGED <<poolFile, captured>>
    BY <1>7 DEF Ends
  <2>2. PoolPart'
    BY <1>1, <2>1 DEF PoolPart, Account
  <2>3. QED
    BY <2>1, <2>2 DEF PoolIsItsOwners
<1>8. QED
  BY <1>3, <1>4, <1>5, <1>6, <1>7, NextIs

-----------------------------------------------------------------------------
(* What a flush does: nothing, or it adopts, or it submits.                *)
Flushed(box, q) ==
  \/ queue' = q /\ send' = send /\ raced' = raced
  \/ /\ send.pc = "none" /\ box.owner = None /\ user \in Users
     /\ queue' = Append(q, SaveTask("send", [box EXCEPT !.owner = user])) /\ raced' = (raced \/ q # <<>>)
     /\ send' = [NoSend EXCEPT !.pc = "adopting"]
  \/ /\ send.pc = "none" /\ box.owner \in Users /\ queue' = q /\ raced' = raced
     /\ send' = Submitting(box)
LEMMA FlushIs ==
  ASSUME user \in Account, NEW box \in Boxes, NEW q, NEW force \in BOOLEAN, Flush(box, q, force)
  PROVE  Flushed(box, q)
<1>1. CASE CanFlush(box, force) /\ box.owner = None
  BY <1>1 DEF Flush, Flushed, CanFlush, SaveAfter, Account
<1>2. CASE CanFlush(box, force) /\ box.owner # None
  BY <1>2 DEF Flush, Flushed, CanFlush, Account
<1>3. CASE ~CanFlush(box, force)
  BY <1>3 DEF Flush, Flushed
<1>4. QED
  BY <1>1, <1>2, <1>3

(* An upload that is over, that adopts, that submits.                      *)
LEMMA SendTypes ==
  /\ NoSend \in Sends /\ NoSend.pc = "none" /\ NoSend.batch = {} /\ NoSend.done = {} /\ NoSend.log = {}
  /\ LET d == [NoSend EXCEPT !.pc = "adopting"]
     IN  d \in Sends /\ d.pc = "adopting" /\ d.batch = {} /\ d.done = {} /\ d.log = {}
  /\ \A b \in Boxes : LET d == Submitting(b)
                      IN  /\ d \in Sends /\ d.pc = "submitting" /\ d.owner = b.owner /\ d.batch = b.items
                          /\ d.done = {} /\ d.log = {}
BY DEF NoSend, Submitting, Sends, Account, Boxes

LEMMA FlushTypes ==
  ASSUME NEW box \in Boxes, NEW q \in Seq(Task), InTurn(q, send.pc), send \in Sends, Sender(send), send.log \subseteq server,
         Flushed(box, q), raced \in BOOLEAN
  PROVE  /\ queue' \in Seq(Task) /\ InTurn(queue', send'.pc) /\ send' \in Sends /\ Sender(send)'
         /\ send'.log \subseteq server /\ raced' \in BOOLEAN
<1>1. CASE queue' = q /\ send' = send /\ raced' = raced
  BY <1>1 DEF Sender
<1>2. CASE /\ send.pc = "none" /\ box.owner = None /\ user \in Users
           /\ queue' = Append(q, SaveTask("send", [box EXCEPT !.owner = user])) /\ raced' = (raced \/ q # <<>>)
           /\ send' = [NoSend EXCEPT !.pc = "adopting"]
  <2> DEFINE t == SaveTask("send", [box EXCEPT !.owner = user])
  <2>1. user \in Account /\ "send" \in Writers /\ "send" # "clear"
    BY <1>2 DEF Account, Writers
  <2>2. [box EXCEPT !.owner = user] \in Boxes /\ [box EXCEPT !.owner = user].owner = user
    BY <2>1, BoxTypes
  <2>3. t \in Task /\ t.by = "send" /\ t.value.owner \in Users
    BY <1>2, <2>1, <2>2, TaskTypes
  <2> HIDE DEF t
  <2>4. Append(q, t) \in Seq(Task) /\ InTurn(Append(q, t), "adopting")
    BY <1>2, <2>3, PutIn, TurnPutIn
  <2>5. send' \in Sends /\ send'.pc = "adopting" /\ send'.batch = {} /\ send'.log = {}
    BY <1>2, SendTypes
  <2>6. Sender(send)'
    BY <2>5 DEF Sender
  <2>7. raced' \in BOOLEAN
    BY <1>2
  <2>8. QED
    BY <1>2, <2>4, <2>5, <2>6, <2>7 DEF t
<1>3. CASE /\ send.pc = "none" /\ box.owner \in Users /\ queue' = q /\ raced' = raced
           /\ send' = Submitting(box)
  <2>1. send' \in Sends /\ send'.pc = "submitting" /\ send'.owner \in Users /\ send'.log = {}
    BY <1>3, SendTypes
  <2>2. InTurn(q, "submitting")
    BY <1>3, TurnOther
  <2>3. Sender(send)'
    BY <2>1 DEF Sender
  <2>4. QED
    BY <1>3, <2>1, <2>2, <2>3
<1>4. QED
  BY <1>1, <1>2, <1>3 DEF Flushed

(* A save is asked for by somebody else than the upload.                   *)
LEMMA AskTypes ==
  ASSUME queue \in Seq(Task), InTurn(queue, send.pc), NEW by \in Writers \ {"send", "clear"}, NEW b \in Boxes,
         SaveAfter(queue, by, b), raced \in BOOLEAN
  PROVE  queue' \in Seq(Task) /\ InTurn(queue', send.pc) /\ raced' \in BOOLEAN
<1>1. SaveTask(by, b) \in Task /\ SaveTask(by, b).by = by
  BY TaskTypes
<1>2. queue' = Append(queue, SaveTask(by, b)) /\ raced' = (raced \/ queue # <<>>)
  BY DEF SaveAfter
<1>3. raced' \in BOOLEAN
  BY <1>2
<1>4. QED
  BY <1>1, <1>2, <1>3, PutIn, TurnPutIn

(* Adoption writes the box back, or gives it an owner, or empties it.      *)
LEMMA StartAdoptIs ==
  ASSUME mem \in Boxes, NEW u \in Account, StartAdopt(u)
  PROVE  \E by \in {"resave", "adopt"} : \E b \in Boxes :
           /\ SaveAfter(queue, by, b)
           /\ by = "resave" => b = mem
           /\ by = "adopt" => b.owner = u /\ u # None /\ b.items = IF mem.owner \in {None, u} THEN mem.items ELSE {}
<1>1. CASE u = None
  BY <1>1 DEF StartAdopt
<1>2. CASE u # None
  <2>1. SaveAfter(queue, "adopt", AdoptedBox(u))
    BY <1>2 DEF StartAdopt
  <2>2. /\ AdoptedBox(u) \in Boxes /\ AdoptedBox(u).owner = u
        /\ AdoptedBox(u).items = IF mem.owner \in {None, u} THEN mem.items ELSE {}
    <3>1. /\ [mem EXCEPT !.owner = u] \in Boxes /\ [mem EXCEPT !.owner = u].owner = u
          /\ [mem EXCEPT !.owner = u].items = mem.items
      BY BoxTypes
    <3>2. [owner |-> u, items |-> {}] \in Boxes
      BY BoxTypes
    <3>3. QED
      BY <3>1, <3>2 DEF AdoptedBox
  <2>3. QED
    BY <1>2, <2>1, <2>2
<1>3. QED
  BY <1>1, <1>2

-----------------------------------------------------------------------------
(* What each step does to the outbox, its file and their queue, whose first*)
(* task it may take out.                                                   *)
First == queue[1]
Takes(by) ==
  /\ queue # <<>> /\ First \in Task /\ First.by = by /\ 1 \in 1..Len(queue)
  /\ Tail(queue) \in Seq(Task) /\ file' \in Boxes \cup {None}
Writes(by, worked) ==
  /\ Takes(by) /\ First.value \in Boxes
  /\ FileBox' = IF worked THEN First.value ELSE FileBox
LEMMA LandedIs ==
  ASSUME Types, NEW by, NEW worked \in BOOLEAN, Landed(by, worked)
  PROVE  /\ Takes(by) /\ Head(queue) = First
         /\ by # "clear" => Writes(by, worked)
         /\ by = "clear" => FileBox' \in {FileBox, EmptyBox}
<1>1. queue \in Seq(Task) /\ file \in Boxes \cup {None}
  BY DEF Types, TypeOK
<1>2. QED
  BY <1>1, LandedTypes DEF Takes, Writes, First
LEMMA ItemsAreItems == \A i \in Items : i \in Writers /\ i \notin {"send", "adopt", "resave", "clear"}
BY NamesAssumption DEF Writers

LEMMA ApproveIs ==
  ASSUME Types, NEW i \in Items, Approve(i)
  PROVE  /\ SaveAfter(queue, i, NewBox(i)) /\ NewBox(i) \in Boxes /\ NewBox(i).items = mem.items \cup {i}
         /\ NewBox(i).owner = (IF mem.owner # None THEN mem.owner ELSE user) /\ NewBox(i).owner \in Users
         /\ user # None /\ flow \notin Launching /\ i \in pending /\ i \notin mem.items
         /\ misfiled' = (misfiled \/ NewBox(i).owner # user \/ OwnerOf[i] # user)
         /\ UNCHANGED <<mem, file, send, Things, user, flow>>
<1>1. mem \in Boxes /\ user \in Account
  BY DEF Types, TypeOK
<1>2. mem.owner \in Account /\ mem.items \in SUBSET Items
  BY <1>1, BoxTypes
<1>3. user # None /\ flow \notin Launching /\ i \in pending /\ i \notin mem.items
  BY DEF Approve, CanDecide
<1>4. /\ NewBox(i).items = mem.items \cup {i}
      /\ NewBox(i).owner = (IF mem.owner # None THEN mem.owner ELSE user) /\ NewBox(i).owner \in Users
  BY <1>1, <1>2, <1>3 DEF NewBox, Account
<1>5. NewBox(i) \in Boxes
  BY <1>1, <1>2, <1>4, BoxTypes DEF NewBox, Account
<1>6. QED
  BY <1>3, <1>4, <1>5 DEF Approve, world, sent, Things, phase
LEMMA EnqueuedIs ==
  ASSUME Types, NEW i \in Items, NEW worked \in BOOLEAN, Enqueued(i, worked)
  PROVE  /\ Writes(i, worked) /\ UNCHANGED <<misfiled, server, refused, log, logFile, user, flow>>
         /\ worked => /\ mem' = First.value /\ Flushed(First.value, Tail(queue))
                      /\ approved' = approved \cup {i} /\ gone' = gone \ {i}
         /\ ~worked => UNCHANGED <<mem, send, raced, approved, gone>> /\ queue' = Tail(queue)
<1>1. Landed(i, worked) /\ i # "clear"
  BY ItemsAreItems DEF Enqueued
<1>2. Writes(i, worked) /\ Head(queue) = First
  BY <1>1, LandedIs
<1>3. ASSUME worked PROVE mem' = First.value /\ Flush(First.value, Tail(queue), FALSE)
  BY <1>2, <1>3 DEF Enqueued
<1>4. worked => Flushed(First.value, Tail(queue))
  BY <1>2, <1>3, FlushIs DEF Types, TypeOK, Writes
<1>5. QED
  BY <1>2, <1>3, <1>4 DEF Enqueued, world, sent, phase
LEMMA AdoptedIs ==
  ASSUME Types, NEW worked \in BOOLEAN, Adopted(worked)
  PROVE  /\ send.pc = "adopting" /\ Writes("send", worked) /\ First.value.owner \in Users
         /\ mem' = (IF worked THEN First.value ELSE mem) /\ queue' = Tail(queue)
         /\ send' = NoSend \/ (worked /\ send' = Submitting(First.value))
         /\ UNCHANGED <<raced, misfiled, Things, user, flow>>
<1>1. Writes("send", worked) /\ Head(queue) = First
  BY LandedIs DEF Adopted
<1>2. First.value.owner \in Users
  BY <1>1 DEF Types, InTurn, Writes, Takes, First, Adopted
<1>3. QED
  BY <1>1, <1>2 DEF Adopted, SendFails, world, sent, history, Things, phase
LEMMA ServedIs ==
  ASSUME Types, NEW held \in SUBSET send.batch, NEW rejected \in SUBSET (send.batch \ held), Served(held, rejected)
  PROVE  /\ send.pc = "submitting" /\ send.owner \in Users /\ send.batch \in SUBSET Items
         /\ server' = server \cup ({send.owner} \X held) /\ refused' = refused \cup rejected
         /\ \A i \in rejected : <<send.owner, i>> \notin server
BY DEF Types, TypeOK, Sender, Served
LEMMA SubmittedIs ==
  ASSUME Types, NEW held \in SUBSET send.batch, NEW rejected \in SUBSET (send.batch \ held), Submitted(held, rejected)
  PROVE  /\ Served(held, rejected)
         /\ send'.owner = send.owner /\ send'.batch = send.batch /\ send'.done = held \cup rejected /\ send' \in Sends
         /\ UNCHANGED <<mem, file, misfiled, approved, gone, log, logFile, user, flow>>
         /\ \/ /\ send'.pc = "logging" /\ send'.log = log \cup ({send.owner} \X held) /\ UNCHANGED <<queue, raced>>
            \/ /\ send'.pc = "saving" /\ send'.log = send.log /\ log \cup ({send.owner} \X held) = log
               /\ SaveAfter(queue, "send", Rest(held \cup rejected))
<1>1. Served(held, rejected) /\ UNCHANGED <<mem, file, misfiled, approved, gone, log, logFile, user, flow>>
  BY DEF Submitted, sent, phase
<1>2. send \in Sends /\ send.owner \in Users /\ held \in SUBSET Items /\ rejected \in SUBSET Items
  BY <1>1, ServedIs DEF Types, TypeOK, Sends
<1>3. WithSent(held) \in SUBSET (Users \X Items)
  BY <1>2 DEF Types, TypeOK, WithSent
<1>4. CASE WithSent(held) # log
  <2>1. send' = [send EXCEPT !.pc = "logging", !.held = held, !.done = held \cup rejected, !.log = WithSent(held)]
        /\ UNCHANGED <<queue, raced>>
    BY <1>4 DEF Submitted
  <2>2. QED
    BY <1>1, <1>2, <1>3, <2>1 DEF Sends, WithSent
<1>5. CASE WithSent(held) = log
  <2>1. send' = [send EXCEPT !.pc = "saving", !.held = held, !.done = held \cup rejected]
        /\ SaveAfter(queue, "send", Rest(held \cup rejected))
    BY <1>5 DEF Submitted
  <2>2. QED
    BY <1>1, <1>2, <1>5, <2>1 DEF Sends, WithSent
<1>6. QED
  BY <1>4, <1>5
LEMMA SubmitFailsIs ==
  ASSUME Types, SubmitFails
  PROVE  /\ send.pc = "submitting" /\ send' = NoSend
         /\ UNCHANGED <<mem, file, queue, raced, misfiled, approved, gone, log, logFile, user, flow>>
         /\ \/ UNCHANGED <<server, refused>>
            \/ \E held \in SUBSET send.batch : \E rejected \in SUBSET (send.batch \ held) : Served(held, rejected)
BY DEF SubmitFails, Served, SendFails, world, sent, history, phase
LEMMA RestTypes ==
  ASSUME mem \in Boxes, NEW done \in SUBSET Items
  PROVE  Rest(done) \in Boxes /\ Rest(done).owner = mem.owner /\ Rest(done).items = mem.items \ done
<1>1. mem.items \ done \in SUBSET Items
  BY BoxTypes
<1>2. QED
  BY <1>1, BoxTypes DEF Rest
LEMMA LoggedIs ==
  ASSUME Types, NEW worked \in BOOLEAN, Logged(worked)
  PROVE  /\ send.pc = "logging" /\ UNCHANGED <<mem, file, misfiled, server, refused, approved, gone, user, flow>>
         /\ worked => /\ log' = send.log /\ logFile' = send.log /\ SaveAfter(queue, "send", Rest(send.done))
                      /\ send' \in Sends /\ send'.pc = "saving" /\ send'.log = {} /\ send'.owner = send.owner
                      /\ send'.batch = send.batch /\ send'.done = send.done
         /\ ~worked => send' = NoSend /\ UNCHANGED <<log, logFile, queue, raced>>
<1>1. send \in Sends
  BY DEF Types, TypeOK, Sends
<1>2. CASE worked
  <2>1. send' = [send EXCEPT !.pc = "saving", !.log = {}]
    BY <1>2 DEF Logged
  <2>2. QED
    BY <1>1, <1>2, <2>1 DEF Logged, Sends, world, phase
<1>3. CASE ~worked
  BY <1>3 DEF Logged, SendFails, world, phase
<1>4. QED
  BY <1>2, <1>3
LEMMA SendSavedIs ==
  ASSUME Types, NEW worked \in BOOLEAN, SendSaved(worked)
  PROVE  /\ send.pc = "saving" /\ Writes("send", worked) /\ send' = NoSend /\ queue' = Tail(queue)
         /\ mem' = (IF worked THEN First.value ELSE mem)
         /\ UNCHANGED <<raced, misfiled, Things, user, flow>>
<1>1. Writes("send", worked) /\ Head(queue) = First
  BY LandedIs DEF SendSaved
<1>2. QED
  BY <1>1 DEF SendSaved, SendFails, world, sent, history, Things, phase
LEMMA AdoptEndsIs ==
  ASSUME Types, NEW worked \in BOOLEAN, AdoptEnds(worked)
  PROVE  /\ UNCHANGED <<send, raced, misfiled, server, refused, log, logFile, approved, user>> /\ queue' = Tail(queue)
         /\ \/ Writes("resave", worked) /\ UNCHANGED <<mem, gone>>
            \/ /\ Writes("adopt", worked) /\ mem' = (IF worked THEN First.value ELSE mem)
               /\ gone' = IF mem.owner \in {None, mem'.owner} THEN gone ELSE gone \cup mem.items
<1>1. UNCHANGED <<send, raced, misfiled, server, refused, log, logFile, approved, user>> /\ queue' = Tail(queue)
  BY DEF AdoptEnds, world, sent
<1>2. CASE Landed("resave", worked) /\ UNCHANGED <<mem, gone>>
  BY <1>1, <1>2, LandedIs
<1>3. CASE /\ Landed("adopt", worked) /\ mem' = (IF worked THEN Head(queue).value ELSE mem)
           /\ gone' = IF mem.owner \notin {None, mem'.owner} THEN gone \cup mem.items ELSE gone
  <2>1. Writes("adopt", worked) /\ Head(queue) = First
    BY <1>3, LandedIs
  <2>2. QED
    BY <1>1, <1>3, <2>1
<1>4. QED
  BY <1>2, <1>3 DEF AdoptEnds
LEMMA DeleteOutboxIs ==
  ASSUME Types, DeleteOutbox
  PROVE  /\ flow = "delete.outbox" /\ flow' = "delete.clearing" /\ mem' = EmptyBox
         /\ queue' = Append(queue, RemoveTask("clear")) /\ raced' = (raced \/ queue # <<>>)
         /\ gone' = gone \cup approved
         /\ UNCHANGED <<file, send, misfiled, server, refused, log, logFile, approved, user>>
BY DEF DeleteOutbox, world, sent
LEMMA OutboxDeletedIs ==
  ASSUME Types, NEW worked \in BOOLEAN, OutboxDeleted(worked)
  PROVE  /\ flow = "delete.clearing" /\ flow' \in {"delete.files", "none"}
         /\ Takes("clear") /\ FileBox' \in {FileBox, EmptyBox} /\ queue' = Tail(queue)
         /\ UNCHANGED <<mem, send, raced, misfiled, Things, user>>
<1>1. Takes("clear") /\ FileBox' \in {FileBox, EmptyBox}
  BY LandedIs DEF OutboxDeleted
<1>2. QED
  BY <1>1 DEF OutboxDeleted, world, sent, history, Things
LEMMA FilesDeletedIs ==
  ASSUME Types, NEW worked \in BOOLEAN, FilesDeleted(worked)
  PROVE  /\ flow = "delete.files" /\ flow' = "none" /\ file' \in Boxes \cup {None} /\ FileBox' \in {FileBox, EmptyBox}
         /\ logFile' \in {{}, logFile} /\ log' \in {{}, log} /\ (log' # log => logFile' = {})
         /\ UNCHANGED <<mem, queue, send, raced, misfiled, server, refused, approved, gone, user>>
<1>1. file' \in {file, None}
  BY DEF FilesDeleted
<1>2. file' \in Boxes \cup {None}
  BY <1>1 DEF Types, TypeOK
<1>3. FileBox' \in {FileBox, EmptyBox}
  BY <1>1 DEF FileBox, BoxIn
<1>4. QED
  BY <1>2, <1>3 DEF FilesDeleted, world, history
LEMMA LoadIs ==
  ASSUME Types, NEW worked \in BOOLEAN, LoadFiles(worked)
  PROVE  /\ flow = "launch" /\ flow' = "launch.loaded"
         /\ file' \in Boxes \cup {None} /\ mem' \in Boxes /\ mem' \in {FileBox, EmptyBox}
         /\ FileBox' = FileBox \/ (FileBox' = EmptyBox /\ mem' = EmptyBox)
         /\ \/ log' = logFile /\ logFile' = logFile
            \/ log' = {} /\ logFile' \in {logFile, {}}
         /\ gone' = gone \cup (FileBox.items \ mem'.items) \cup {s[2] : s \in logFile \ log'}
         /\ UNCHANGED <<queue, send, server, refused, raced, misfiled, approved, user>>
<1>1. file \in Boxes \cup {None} /\ FileBox \in Boxes /\ EmptyBox \in Boxes /\ BoxIn(None) = EmptyBox
  BY BoxTypes DEF Types, TypeOK, FileBox
<1>2. OutboxRead \/ OutboxUnread
  BY DEF LoadFiles
<1>3. /\ file' \in {file, None} /\ mem' \in {FileBox, EmptyBox}
      /\ file' = file \/ (file' = None /\ mem' = EmptyBox)
  BY <1>2 DEF OutboxRead, OutboxUnread, FileBox
<1>4. FileBox' = FileBox \/ (FileBox' = EmptyBox /\ mem' = EmptyBox)
  BY <1>1, <1>3 DEF FileBox
<1>5. \/ log' = logFile /\ logFile' = logFile
      \/ log' = {} /\ logFile' \in {logFile, {}}
  BY DEF LoadFiles, LogRead, LogUnread
<1>6. /\ flow = "launch" /\ flow' = "launch.loaded"
      /\ gone' = gone \cup (FileBox.items \ mem'.items) \cup {s[2] : s \in logFile \ log'}
      /\ UNCHANGED <<queue, send, server, refused, raced, misfiled, approved, user>>
  BY DEF LoadFiles, world, FileBox
<1>7. file' \in Boxes \cup {None} /\ mem' \in Boxes
  BY <1>1, <1>3
<1>8. QED
  BY <1>3, <1>4, <1>5, <1>6, <1>7
LEMMA EndsIs ==
  ASSUME Types, Ends
  PROVE  /\ mem' = EmptyBox /\ queue' = <<>> /\ send' = NoSend /\ log' = {} /\ flow' = "launch" /\ FileBox' = FileBox
         /\ UNCHANGED <<file, logFile, server, refused, raced, misfiled, approved, gone>>
BY DEF Ends, world, history, FileBox, BoxIn

-----------------------------------------------------------------------------
(* The types of the outbox, its upload and its queue, and of what is on the*)
(* server and in the log.                                                  *)
LEMMA TakenTypes ==
  ASSUME Types, NEW by, Takes(by), queue' = Tail(queue)
  PROVE  /\ queue' \in Seq(Task) /\ InTurn(queue', send.pc)
         /\ by = "send" => \A p : InTurn(queue', p)
BY TurnTakenOut DEF Types, TypeOK, Takes, First
LEMMA BoxStill ==
  ASSUME Types, UNCHANGED <<mem, file, queue, send>> PROVE BoxPart'
BY TypeParts DEF BoxPart, Sender

LEMMA DecideBoxes ==
  ASSUME Types, Deciding PROVE BoxPart' /\ raced' \in BOOLEAN /\ send'.log \subseteq server
<1>1. BoxPart /\ LogPart /\ FlagPart
  BY TypeParts
<1>2. ASSUME NEW i \in Items, Approve(i) PROVE BoxPart' /\ raced' \in BOOLEAN /\ send'.log \subseteq server
  <2>1. SaveAfter(queue, i, NewBox(i)) /\ NewBox(i) \in Boxes /\ UNCHANGED <<mem, file, send>>
    BY <1>2, ApproveIs
  <2>2. i \in Writers \ {"send", "clear"}
    BY ItemsAreItems
  <2>3. queue' \in Seq(Task) /\ InTurn(queue', send.pc) /\ raced' \in BOOLEAN
    BY <1>1, <2>1, <2>2, AskTypes DEF BoxPart, FlagPart
  <2>4. QED
    BY <1>1, <2>1, <2>3 DEF BoxPart, Sender, LogPart, Logs
<1>3. ASSUME NEW i \in Items, NEW worked \in BOOLEAN, Enqueued(i, worked)
      PROVE  BoxPart' /\ raced' \in BOOLEAN /\ send'.log \subseteq server
  <2>1. /\ Writes(i, worked)
        /\ worked => mem' = First.value /\ Flushed(First.value, Tail(queue))
        /\ ~worked => UNCHANGED <<mem, send, raced>> /\ queue' = Tail(queue)
    BY <1>3, EnqueuedIs
  <2>2. /\ Tail(queue) \in Seq(Task) /\ InTurn(Tail(queue), send.pc) /\ First.value \in Boxes
        /\ file' \in Boxes \cup {None}
    BY <1>1, <2>1, TurnTakenOut DEF Writes, Takes, BoxPart
  <2>3. CASE worked
    <3>1. Flushed(First.value, Tail(queue)) /\ send \in Sends /\ Sender(send) /\ send.log \subseteq server /\ raced \in BOOLEAN
      BY <1>1, <2>1, <2>3 DEF BoxPart, LogPart, Logs, FlagPart
    <3>2. /\ queue' \in Seq(Task) /\ InTurn(queue', send'.pc) /\ send' \in Sends /\ Sender(send)'
          /\ send'.log \subseteq server /\ raced' \in BOOLEAN
      BY <2>2, <3>1, FlushTypes
    <3>3. QED
      BY <2>1, <2>2, <2>3, <3>2 DEF BoxPart
  <2>4. CASE ~worked
    BY <1>1, <2>1, <2>2, <2>4 DEF BoxPart, Sender, LogPart, Logs, FlagPart
  <2>5. QED
    BY <2>3, <2>4
<1>4. QED
  BY <1>2, <1>3 DEF Deciding

LEMMA SendBoxes ==
  ASSUME Types, Sending PROVE BoxPart' /\ raced' \in BOOLEAN /\ send'.log \subseteq server'
<1>1. BoxPart /\ LogPart /\ FlagPart /\ NoSend.pc = "none" /\ NoSend \in Sends /\ NoSend.log = {} /\ NoSend.batch = {}
  BY TypeParts, SendTypes
<1>2. ASSUME NEW d \in SUBSET Items, SaveAfter(queue, "send", Rest(d)), send.pc \notin {"adopting", "saving"}
      PROVE  queue' \in Seq(Task) /\ InTurn(queue', "saving") /\ raced' \in BOOLEAN
  <2>1. Rest(d) \in Boxes /\ "send" \in Writers
    BY <1>1, RestTypes DEF BoxPart, Writers
  <2>2. SaveTask("send", Rest(d)) \in Task
    BY <2>1, TaskTypes
  <2>3. queue' = Append(queue, SaveTask("send", Rest(d))) /\ raced' = (raced \/ queue # <<>>)
    BY <1>2 DEF SaveAfter
  <2>4. raced' \in BOOLEAN
    BY <2>3
  <2>5. QED
    BY <1>1, <1>2, <2>2, <2>3, <2>4, PutIn, TurnPutIn DEF BoxPart
<1>3. ASSUME NEW held \in SUBSET send.batch, NEW rejected \in SUBSET (send.batch \ held), Submitted(held, rejected)
      PROVE  BoxPart' /\ raced' \in BOOLEAN /\ send'.log \subseteq server'
  <2>1. /\ send'.owner = send.owner /\ send'.batch = send.batch /\ send'.done = held \cup rejected /\ send' \in Sends
        /\ UNCHANGED <<mem, file>> /\ Served(held, rejected)
        /\ \/ /\ send'.pc = "logging" /\ send'.log = log \cup ({send.owner} \X held) /\ UNCHANGED <<queue, raced>>
           \/ /\ send'.pc = "saving" /\ send'.log = send.log /\ SaveAfter(queue, "send", Rest(held \cup rejected))
    BY <1>3, SubmittedIs
  <2>2. send.pc = "submitting" /\ send.owner \in Users /\ server' = server \cup ({send.owner} \X held) /\ send.batch \in SUBSET Items
    BY <2>1, ServedIs
  <2>3. Sender(send)'
    BY <2>1, <2>2 DEF Sender
  <2>4. CASE send'.pc = "logging" /\ send'.log = log \cup ({send.owner} \X held) /\ UNCHANGED <<queue, raced>>
    <3>1. InTurn(queue, "logging")
      BY <1>1, <2>2, TurnOther DEF BoxPart
    <3>2. send'.log \subseteq server'
      BY <1>1, <2>2, <2>4 DEF LogPart, Logs
    <3>3. QED
      BY <1>1, <2>1, <2>3, <2>4, <3>1, <3>2 DEF BoxPart, FlagPart
  <2>5. CASE send'.pc = "saving" /\ send'.log = send.log /\ SaveAfter(queue, "send", Rest(held \cup rejected))
    <3>1. queue' \in Seq(Task) /\ InTurn(queue', "saving") /\ raced' \in BOOLEAN
      BY <1>2, <2>2, <2>5
    <3>2. QED
      BY <1>1, <2>1, <2>2, <2>3, <2>5, <3>1 DEF BoxPart, LogPart, Logs
  <2>6. QED
    BY <2>1, <2>4, <2>5
<1>4. ASSUME send' = NoSend, UNCHANGED <<mem, file, queue, raced>>, send.pc \in {"submitting", "logging"}
      PROVE  BoxPart' /\ raced' \in BOOLEAN /\ send'.log \subseteq server'
  <2>1. InTurn(queue, "none")
    BY <1>1, <1>4, TurnOther DEF BoxPart
  <2>2. Sender(send)'
    BY <1>1, <1>4 DEF Sender
  <2>3. QED
    BY <1>1, <1>4, <2>1, <2>2 DEF BoxPart, FlagPart
<1>5. CASE SubmitFails
  BY <1>4, <1>5, SubmitFailsIs
<1>6. ASSUME NEW worked \in BOOLEAN, Adopted(worked) PROVE BoxPart' /\ raced' \in BOOLEAN /\ send'.log \subseteq server'
  <2>1. /\ Writes("send", worked) /\ First.value.owner \in Users
        /\ mem' = (IF worked THEN First.value ELSE mem) /\ queue' = Tail(queue)
        /\ send' = NoSend \/ send' = Submitting(First.value)
        /\ UNCHANGED raced
    BY <1>6, AdoptedIs
  <2>2. queue' \in Seq(Task) /\ InTurn(queue', send'.pc)
    BY <2>1, TakenTypes DEF Writes
  <2>3. send' \in Sends /\ send'.log = {} /\ Sender(send)'
    BY <1>1, <2>1, SendTypes DEF Sender, Writes
  <2>4. mem' \in Boxes /\ file' \in Boxes \cup {None}
    BY <1>1, <2>1 DEF Writes, Takes, BoxPart
  <2>5. QED
    BY <1>1, <2>1, <2>2, <2>3, <2>4 DEF BoxPart, FlagPart
<1>7. ASSUME NEW worked \in BOOLEAN, Logged(worked) PROVE BoxPart' /\ raced' \in BOOLEAN /\ send'.log \subseteq server'
  <2>1. /\ send.pc = "logging" /\ UNCHANGED <<mem, file, server>>
        /\ worked => /\ SaveAfter(queue, "send", Rest(send.done)) /\ send' \in Sends /\ send'.pc = "saving"
                     /\ send'.log = {} /\ send'.owner = send.owner
        /\ ~worked => send' = NoSend /\ UNCHANGED <<queue, raced>>
    BY <1>7, LoggedIs
  <2>2. send.done \in SUBSET Items /\ send.owner \in Users
    BY <1>1, <2>1 DEF BoxPart, Sends, Sender
  <2>3. CASE worked
    <3>1. queue' \in Seq(Task) /\ InTurn(queue', "saving") /\ raced' \in BOOLEAN
      BY <1>2, <2>1, <2>2, <2>3
    <3>2. Sender(send)'
      BY <2>1, <2>2, <2>3 DEF Sender
    <3>3. QED
      BY <1>1, <2>1, <2>3, <3>1, <3>2 DEF BoxPart
  <2>4. CASE ~worked
    BY <1>4, <2>1, <2>4
  <2>5. QED
    BY <2>3, <2>4
<1>8. ASSUME NEW worked \in BOOLEAN, SendSaved(worked) PROVE BoxPart' /\ raced' \in BOOLEAN /\ send'.log \subseteq server'
  <2>1. /\ Writes("send", worked) /\ send' = NoSend /\ queue' = Tail(queue)
        /\ mem' = (IF worked THEN First.value ELSE mem) /\ UNCHANGED raced
    BY <1>8, SendSavedIs
  <2>2. queue' \in Seq(Task) /\ InTurn(queue', "none")
    BY <2>1, TakenTypes DEF Writes
  <2>3. mem' \in Boxes /\ file' \in Boxes \cup {None}
    BY <1>1, <2>1 DEF Writes, Takes, BoxPart
  <2>4. Sender(send)'
    BY <1>1, <2>1 DEF Sender
  <2>5. QED
    BY <1>1, <2>1, <2>2, <2>3, <2>4 DEF BoxPart, FlagPart
<1>9. QED
  BY <1>3, <1>5, <1>6, <1>7, <1>8 DEF Sending

LEMMA OwnBoxes ==
  ASSUME Types, Owning PROVE BoxPart' /\ raced' \in BOOLEAN /\ send'.log \subseteq server'
<1>1. BoxPart /\ LogPart /\ FlagPart /\ NoSend.pc = "none" /\ NoSend \in Sends /\ NoSend.log = {} /\ NoSend.batch = {}
  BY TypeParts, SendTypes
<1>2. ASSUME NEW by, Takes(by), queue' = Tail(queue), mem' \in Boxes, UNCHANGED <<send, raced, server>>
      PROVE  BoxPart' /\ raced' \in BOOLEAN /\ send'.log \subseteq server'
  <2>1. queue' \in Seq(Task) /\ InTurn(queue', send.pc) /\ file' \in Boxes \cup {None}
    BY <1>2, TakenTypes DEF Takes
  <2>2. Sender(send)'
    BY <1>1, <1>2 DEF BoxPart, Sender
  <2>3. QED
    BY <1>1, <1>2, <2>1, <2>2 DEF BoxPart, LogPart, Logs, FlagPart
<1>3. ASSUME NEW worked \in BOOLEAN, AdoptEnds(worked) PROVE BoxPart' /\ raced' \in BOOLEAN /\ send'.log \subseteq server'
  <2>1. /\ UNCHANGED <<send, raced, server>> /\ queue' = Tail(queue)
        /\ \/ Writes("resave", worked) /\ mem' = mem
           \/ Writes("adopt", worked) /\ mem' = (IF worked THEN First.value ELSE mem)
    BY <1>3, AdoptEndsIs
  <2>2. mem' \in Boxes
    BY <1>1, <2>1 DEF Writes, BoxPart
  <2>3. QED
    BY <1>2, <2>1, <2>2 DEF Writes
<1>4. ASSUME NEW worked \in BOOLEAN, OutboxDeleted(worked) PROVE BoxPart' /\ raced' \in BOOLEAN /\ send'.log \subseteq server'
  <2>1. Takes("clear") /\ queue' = Tail(queue) /\ UNCHANGED <<mem, send, raced, server>>
    BY <1>4, OutboxDeletedIs DEF Things
  <2>2. QED
    BY <1>1, <1>2, <2>1 DEF BoxPart
<1>5. CASE DeleteOutbox
  <2>1. /\ mem' = EmptyBox /\ queue' = Append(queue, RemoveTask("clear")) /\ raced' = (raced \/ queue # <<>>)
        /\ UNCHANGED <<file, send, server>>
    BY <1>5, DeleteOutboxIs
  <2>2. RemoveTask("clear") \in Task /\ RemoveTask("clear").by # "send"
    BY TaskTypes
  <2>3. queue' \in Seq(Task) /\ InTurn(queue', send.pc)
    BY <1>1, <2>1, <2>2, PutIn, TurnPutIn DEF BoxPart
  <2>4. raced' \in BOOLEAN
    BY <2>1
  <2>5. QED
    BY <1>1, <2>1, <2>3, <2>4, BoxTypes DEF BoxPart, Sender, LogPart, Logs
<1>6. ASSUME NEW worked \in BOOLEAN, FilesDeleted(worked) PROVE BoxPart' /\ raced' \in BOOLEAN /\ send'.log \subseteq server'
  <2>1. file' \in Boxes \cup {None} /\ UNCHANGED <<mem, queue, send, raced, server>>
    BY <1>6, FilesDeletedIs
  <2>2. QED
    BY <1>1, <2>1 DEF BoxPart, Sender, LogPart, Logs, FlagPart
<1>7. QED
  BY <1>3, <1>4, <1>5, <1>6 DEF Owning

LEMMA LaunchBoxes ==
  ASSUME Types, Loading \/ Ends PROVE BoxPart' /\ raced' \in BOOLEAN /\ send'.log \subseteq server'
<1>1. BoxPart /\ LogPart /\ FlagPart /\ NoSend.pc = "none" /\ NoSend \in Sends /\ NoSend.log = {} /\ NoSend.batch = {}
  BY TypeParts, SendTypes
<1>2. ASSUME NEW worked \in BOOLEAN, LoadFiles(worked)
      PROVE  BoxPart' /\ raced' \in BOOLEAN /\ send'.log \subseteq server'
  <2>1. file' \in Boxes \cup {None} /\ mem' \in Boxes /\ UNCHANGED <<queue, send, server, raced>>
    BY <1>2, LoadIs
  <2>2. QED
    BY <1>1, <2>1 DEF BoxPart, Sender, LogPart, Logs, FlagPart
<1>3. CASE Ends
  <2>1. mem' = EmptyBox /\ queue' = <<>> /\ send' = NoSend /\ UNCHANGED <<file, server, raced>>
    BY <1>3, EndsIs
  <2>2. EmptyBox \in Boxes
    BY BoxTypes
  <2>3. queue' \in Seq(Task) /\ Len(queue') = 0
    BY <2>1
  <2>4. InTurn(queue', "none")
    BY <2>3 DEF InTurn
  <2>5. Sender(send)'
    BY <1>1, <2>1 DEF Sender
  <2>6. QED
    BY <1>1, <2>1, <2>2, <2>3, <2>4, <2>5 DEF BoxPart, FlagPart
<1>4. QED
  BY <1>2, <1>3 DEF Loading

LEMMA BoxStep ==
  ASSUME Types, [Next]_vars PROVE BoxPart' /\ raced' \in BOOLEAN /\ send'.log \subseteq server'
<1>1. BoxPart /\ LogPart /\ FlagPart /\ PoolPart /\ TypeOK
  BY TypeParts DEF Types
<1>2. send.log \subseteq server /\ raced \in BOOLEAN
  BY <1>1 DEF LogPart, Logs, FlagPart
<1>3. ASSUME UNCHANGED <<mem, file, queue, send, raced, server>> PROVE BoxPart' /\ raced' \in BOOLEAN /\ send'.log \subseteq server'
  BY <1>2, <1>3, BoxStill
<1>4. CASE Quiet
  <2>1. UNCHANGED <<mem, file, queue, send, raced, server>>
    BY <1>4, QuietIs DEF Things
  <2>2. QED
    BY <1>3, <2>1
<1>5. CASE Asking
  <2>1. UNCHANGED <<mem, file, send, server>> /\ (UNCHANGED <<queue, raced>> \/ \E u \in Account : StartAdopt(u))
    BY <1>1, <1>5, AskingIs DEF Things
  <2>2. ASSUME NEW u \in Account, StartAdopt(u) PROVE queue' \in Seq(Task) /\ InTurn(queue', send.pc) /\ raced' \in BOOLEAN
    <3>1. PICK by \in {"resave", "adopt"} : \E b \in Boxes : SaveAfter(queue, by, b)
      BY <1>1, <2>2, StartAdoptIs DEF BoxPart
    <3>2. by \in Writers \ {"send", "clear"}
      BY DEF Writers
    <3>3. QED
      BY <1>1, <1>2, <3>1, <3>2, AskTypes DEF BoxPart
  <2>3. CASE UNCHANGED <<queue, raced>>
    BY <1>3, <2>1, <2>3
  <2>4. CASE \E u \in Account : StartAdopt(u)
    BY <1>1, <1>2, <2>1, <2>2, <2>4 DEF BoxPart, Sender
  <2>5. QED
    BY <2>1, <2>3, <2>4
<1>6. CASE Flushing
  <2>1. UNCHANGED <<mem, file, server>> /\ \E force \in BOOLEAN : Flush(mem, queue, force)
    BY <1>6, FlushingIs DEF Things
  <2>2. user \in Account /\ mem \in Boxes
    BY <1>1 DEF PoolPart, BoxPart
  <2>3. Flushed(mem, queue)
    BY <2>1, <2>2, FlushIs
  <2>4. queue \in Seq(Task) /\ InTurn(queue, send.pc) /\ send \in Sends /\ Sender(send)
    BY <1>1 DEF BoxPart
  <2>5. /\ queue' \in Seq(Task) /\ InTurn(queue', send'.pc) /\ send' \in Sends /\ Sender(send)'
        /\ send'.log \subseteq server /\ raced' \in BOOLEAN
    BY <1>2, <2>2, <2>3, <2>4, FlushTypes
  <2>6. QED
    BY <1>1, <2>1, <2>5 DEF BoxPart
<1>7. CASE Deciding
  <2>1. server' = server
    BY <1>7, ApproveIs, EnqueuedIs DEF Deciding, Things
  <2>2. QED
    BY <1>7, <2>1, DecideBoxes
<1>8. CASE UNCHANGED vars
  <2>1. UNCHANGED <<mem, file, queue, send, raced, server>>
    BY <1>8 DEF vars, outbox, history, world
  <2>2. QED
    BY <1>3, <2>1
<1>9. QED
  BY <1>4, <1>5, <1>6, <1>7, <1>8, SendBoxes, OwnBoxes, LaunchBoxes, NextIs

(* The server only gains, and the log is only ever made of what is there.  *)
LEMMA LogStep ==
  ASSUME Types, [Next]_vars
  PROVE  /\ LogPart' /\ server \subseteq server' /\ refused \subseteq refused'
<1>1. LogPart /\ BoxPart /\ PoolPart /\ TypeOK
  BY TypeParts DEF Types
<1>2. send'.log \subseteq server'
  BY BoxStep
<1>3. ASSUME UNCHANGED Things PROVE LogPart' /\ server \subseteq server' /\ refused \subseteq refused'
  BY <1>1, <1>2, <1>3 DEF Things, LogPart, Logs
<1>4. CASE Quiet \/ Asking \/ Flushing \/ UNCHANGED vars
  <2>1. UNCHANGED Things
    BY <1>1, <1>4, QuietIs, AskingIs, FlushingIs DEF Things, vars, world, sent, history
  <2>2. QED
    BY <1>3, <2>1
<1>5. CASE Deciding
  <2>1. /\ UNCHANGED <<server, refused, log, logFile>> /\ approved' \subseteq Items /\ gone' \subseteq Items
    BY <1>1, <1>5, ApproveIs, EnqueuedIs DEF Deciding, Things, LogPart
  <2>2. QED
    BY <1>1, <1>2, <2>1 DEF LogPart, Logs
<1>6. CASE Sending
  <2>1. ASSUME NEW held \in SUBSET send.batch, NEW rejected \in SUBSET (send.batch \ held), Served(held, rejected),
               UNCHANGED <<approved, gone, log, logFile>>
        PROVE  LogPart' /\ server \subseteq server' /\ refused \subseteq refused'
    <3>1. /\ send.owner \in Users /\ send.batch \in SUBSET Items
          /\ server' = server \cup ({send.owner} \X held) /\ refused' = refused \cup rejected
      BY <2>1, ServedIs
    <3>2. server' \subseteq Users \X Items /\ refused' \subseteq Items /\ server \subseteq server' /\ refused \subseteq refused'
      BY <1>1, <3>1 DEF LogPart
    <3>3. QED
      BY <1>1, <1>2, <2>1, <3>2 DEF LogPart, Logs
  <2>2. CASE SubmitFails
    BY <1>3, <2>1, <2>2, SubmitFailsIs DEF Things
  <2>3. CASE \E held \in SUBSET send.batch : \E rejected \in SUBSET (send.batch \ held) : Submitted(held, rejected)
    BY <2>1, <2>3, SubmittedIs
  <2>4. CASE \E worked \in BOOLEAN : Adopted(worked) \/ SendSaved(worked)
    BY <1>3, <2>4, AdoptedIs, SendSavedIs
  <2>5. CASE \E worked \in BOOLEAN : Logged(worked)
    <3>1. /\ UNCHANGED <<server, refused, approved, gone>>
          /\ (log' = send.log /\ logFile' = send.log) \/ UNCHANGED <<log, logFile>>
      BY <2>5, LoggedIs
    <3>2. send.log \subseteq Users \X Items
      BY <1>1 DEF BoxPart, Sends
    <3>3. QED
      BY <1>1, <1>2, <3>1, <3>2 DEF LogPart, Logs
  <2>6. QED
    BY <1>6, <2>2, <2>3, <2>4, <2>5 DEF Sending
<1>7. CASE Owning
  <2>1. CASE \E worked \in BOOLEAN : AdoptEnds(worked)
    <3>1. /\ UNCHANGED <<server, refused, log, logFile, approved>>
          /\ gone' \in {gone, gone \cup mem.items}
      BY <2>1, AdoptEndsIs
    <3>2. mem.items \in SUBSET Items
      BY <1>1, BoxTypes DEF BoxPart
    <3>3. QED
      BY <1>1, <1>2, <3>1, <3>2 DEF LogPart, Logs
  <2>2. CASE DeleteOutbox
    BY <1>1, <1>2, <2>2, DeleteOutboxIs DEF LogPart, Logs
  <2>3. CASE \E worked \in BOOLEAN : OutboxDeleted(worked)
    BY <1>3, <2>3, OutboxDeletedIs
  <2>4. CASE \E worked \in BOOLEAN : FilesDeleted(worked)
    BY <1>1, <1>2, <2>4, FilesDeletedIs DEF LogPart, Logs
  <2>5. QED
    BY <1>7, <2>1, <2>2, <2>3, <2>4 DEF Owning
<1>8. CASE Loading
  <2>1. PICK worked \in BOOLEAN : LoadFiles(worked)
    BY <1>8 DEF Loading
  <2>2. /\ UNCHANGED <<server, refused, approved, send>>
        /\ \/ log' = logFile /\ logFile' = logFile
           \/ log' = {} /\ logFile' \in {logFile, {}}
        /\ gone' = gone \cup (FileBox.items \ mem'.items) \cup {s[2] : s \in logFile \ log'}
    BY <2>1, LoadIs
  <2>3. FileBox \in Boxes /\ FileBox.items \in SUBSET Items
    BY <1>1, BoxTypes DEF FileBox, BoxPart
  <2>4. {s[2] : s \in logFile \ log'} \subseteq Items
    BY <1>1 DEF LogPart
  <2>5. gone' \subseteq Items
    BY <1>1, <2>2, <2>3, <2>4 DEF LogPart
  <2>6. QED
    BY <1>1, <1>2, <2>2, <2>5 DEF LogPart, Logs
<1>9. CASE Ends
  BY <1>1, <1>2, <1>9, EndsIs DEF LogPart, Logs
<1>10. QED
  BY <1>4, <1>5, <1>6, <1>7, <1>8, <1>9, NextIs

(* Only an approval can be filed under another account.                    *)
LEMMA MisfiledIs ==
  ASSUME Types, [Next]_vars PROVE misfiled' = misfiled \/ \E i \in Items : Approve(i)
<1>1. CASE Deciding
  BY <1>1 DEF Deciding, Enqueued
<1>2. CASE Sending
  BY <1>2, SubmittedIs, SubmitFailsIs, AdoptedIs, LoggedIs, SendSavedIs DEF Sending
<1>3. CASE Owning
  BY <1>3, AdoptEndsIs, DeleteOutboxIs, OutboxDeletedIs, FilesDeletedIs DEF Owning
<1>4. CASE Loading \/ Ends \/ UNCHANGED vars
  BY <1>4, LoadIs, EndsIs DEF Loading, vars, history
<1>5. QED
  BY <1>1, <1>2, <1>3, <1>4, NextIs, QuietIs, AskingIs, FlushingIs DEF Types

(* The flags, the types, and where they begin.                             *)
LEMMA FlagStep == ASSUME Types, [Next]_vars PROVE FlagPart'
<1>1. FlagPart
  BY TypeParts
<1>2. backoff \in BOOLEAN /\ problem \in BOOLEAN /\ ticking \in BOOLEAN /\ misfiled \in BOOLEAN
  BY <1>1 DEF FlagPart
<1>3. raced' \in BOOLEAN
  BY BoxStep
<1>4. misfiled' \in BOOLEAN
  <2>1. CASE misfiled' = misfiled
    BY <1>2, <2>1
  <2>2. CASE \E i \in Items : Approve(i)
    <3>1. PICK i \in Items : misfiled' = (misfiled \/ NewBox(i).owner # user \/ OwnerOf[i] # user)
      BY <2>2 DEF Approve
    <3>2. QED
      BY <1>2, <3>1
  <2>3. QED
    BY <2>1, <2>2, MisfiledIs
<1>5. backoff' \in BOOLEAN
  <2>1. CASE Quiet
    BY <1>2, <2>1 DEF Quiet, Capture, Resolve, ApproveAgain, Reject, LeavePool, SavePool, RestorePool, PoolDropped,
      PoolHandedOver, SignOut, BackoffEnds, DeleteAllData, DeleteDrops, DeleteSignsOut, outbox
  <2>2. CASE Asking \/ Flushing
    BY <1>2, <2>2 DEF Asking, Flushing, StartUp, TickAdopt, SignIn, PoolCleared, TickFlush, SignInFlush, FlushAgain
  <2>3. CASE Deciding
    BY <1>2, <2>3 DEF Deciding, Approve, Enqueued
  <2>4. CASE Sending
    <3>1. backoff' = backoff \/ backoff' = TRUE \/ backoff' = FALSE
      BY <2>4 DEF Sending, Submitted, SubmitFails, Adopted, Logged, SendSaved, SendFails
    <3>2. QED
      BY <1>2, <3>1
  <2>5. CASE Owning
    <3>1. CASE \E worked \in BOOLEAN : AdoptEnds(worked)
      <4>1. backoff' = backoff \/ backoff' = (backoff /\ ~(mem.owner \notin {None, mem'.owner}))
        BY <3>1 DEF AdoptEnds
      <4>2. QED
        BY <1>2, <4>1
    <3>2. CASE ~\E worked \in BOOLEAN : AdoptEnds(worked)
      BY <1>2, <2>5, <3>2 DEF Owning, DeleteOutbox, OutboxDeleted, FilesDeleted
    <3>3. QED
      BY <3>1, <3>2
  <2>6. CASE Loading \/ Ends \/ UNCHANGED vars
    BY <1>2, <2>6 DEF Loading, LoadFiles, Ends, vars, outbox
  <2>7. QED
    BY <2>1, <2>2, <2>3, <2>4, <2>5, <2>6, NextIs
<1>6. problem' \in BOOLEAN
  <2>1. CASE Quiet
    BY <1>2, <2>1 DEF Quiet, Capture, Resolve, ApproveAgain, Reject, LeavePool, SavePool, RestorePool, PoolDropped,
      PoolHandedOver, SignOut, BackoffEnds, DeleteAllData, DeleteDrops, DeleteSignsOut
  <2>2. CASE Asking \/ Flushing
    BY <1>2, <2>2 DEF Asking, Flushing, StartUp, TickAdopt, SignIn, PoolCleared, TickFlush, SignInFlush, FlushAgain
  <2>3. CASE Deciding
    BY <1>2, <2>3 DEF Deciding, Approve, Enqueued
  <2>4. CASE Sending
    <3>1. problem' = problem \/ problem' = TRUE \/ problem' = FALSE
      BY <2>4 DEF Sending, Submitted, SubmitFails, Adopted, Logged, SendSaved, Told
    <3>2. QED
      BY <1>2, <3>1
  <2>5. CASE Owning
    <3>1. CASE \E worked \in BOOLEAN : AdoptEnds(worked)
      <4>1. PICK worked \in BOOLEAN : problem' = ~worked
        BY <3>1 DEF AdoptEnds
      <4>2. QED
        BY <4>1
    <3>2. CASE ~\E worked \in BOOLEAN : AdoptEnds(worked)
      BY <1>2, <2>5, <3>2 DEF Owning, DeleteOutbox, OutboxDeleted, FilesDeleted
    <3>3. QED
      BY <3>1, <3>2
  <2>6. CASE Loading \/ Ends \/ UNCHANGED vars
    BY <1>2, <2>6 DEF Loading, LoadFiles, Ends, vars
  <2>7. QED
    BY <2>1, <2>2, <2>3, <2>4, <2>5, <2>6, NextIs
<1>7. ticking' \in BOOLEAN
  <2>1. CASE Quiet
    BY <1>2, <2>1 DEF Quiet, Capture, Resolve, ApproveAgain, Reject, LeavePool, SavePool, RestorePool, PoolDropped,
      PoolHandedOver, SignOut, BackoffEnds, DeleteAllData, DeleteDrops, DeleteSignsOut, phase
  <2>2. CASE Asking \/ Flushing
    BY <1>2, <2>2 DEF Asking, Flushing, StartUp, TickAdopt, SignIn, PoolCleared, TickFlush, SignInFlush, FlushAgain, phase
  <2>3. CASE Deciding \/ Sending
    BY <1>2, <2>3 DEF Deciding, Sending, Approve, Enqueued, Submitted, SubmitFails, Adopted, Logged, SendSaved, phase
  <2>4. CASE Owning
    <3>1. CASE \E worked \in BOOLEAN : FilesDeleted(worked)
      <4>1. PICK worked \in BOOLEAN : ticking' = worked
        BY <3>1 DEF FilesDeleted
      <4>2. QED
        BY <4>1
    <3>2. CASE ~\E worked \in BOOLEAN : FilesDeleted(worked)
      BY <1>2, <2>4, <3>2 DEF Owning, DeleteOutbox, OutboxDeleted, AdoptEnds
    <3>3. QED
      BY <3>1, <3>2
  <2>5. CASE Loading \/ Ends \/ UNCHANGED vars
    BY <1>2, <2>5 DEF Loading, LoadFiles, Ends, vars, phase
  <2>6. QED
    BY <2>1, <2>2, <2>3, <2>4, <2>5, NextIs
<1>8. QED
  BY <1>3, <1>4, <1>5, <1>6, <1>7 DEF FlagPart

(* What a launch begins with stays until the files are loaded.             *)
LEMMA LaunchStep == ASSUME Types, AtLaunch, [Next]_vars PROVE AtLaunch'
<1>1. CASE Ends
  BY <1>1, EndsIs DEF AtLaunch
<1>2. CASE flow' # "launch"
  BY <1>2 DEF AtLaunch
<1>3. CASE flow' = "launch" /\ flow = "launch" /\ ~Ends /\ ~Loading
  <2>1. mem = EmptyBox /\ mem.items = {} /\ queue = <<>> /\ send = NoSend /\ send.pc = "none" /\ log = {}
    BY <1>3, BoxTypes, SendTypes DEF AtLaunch
  <2>2. CASE Quiet
    BY <1>3, <2>1, <2>2, QuietIs DEF AtLaunch, Things
  <2>3. CASE Flushing
    <3>1. \A force \in BOOLEAN : ~CanFlush(mem, force)
      BY <2>1 DEF CanFlush
    <3>2. \E force \in BOOLEAN : Flush(mem, queue, force)
      BY <2>3, FlushingIs
    <3>3. queue' = queue /\ send' = send
      BY <3>1, <3>2 DEF Flush
    <3>4. QED
      BY <2>1, <2>3, <3>3, FlushingIs DEF AtLaunch, Things
  <2>4. ~Asking
    BY <1>3 DEF Asking, StartUp, TickAdopt, SignIn, PoolCleared
  <2>5. ~Deciding
    BY <1>3, <2>1 DEF Deciding, Approve, CanDecide, Launching, Enqueued, Landed
  <2>6. ~Sending
    BY <2>1 DEF Sending, Submitted, Served, SubmitFails, Adopted, Logged, SendSaved
  <2>7. ~Owning
    BY <1>3 DEF Owning, DeleteOutbox, AdoptEnds, Adopting, OutboxDeleted, FilesDeleted
  <2>8. CASE UNCHANGED vars
    BY <1>3, <2>1, <2>8 DEF AtLaunch, vars, outbox, sent
  <2>9. QED
    BY <1>3, <2>2, <2>3, <2>4, <2>5, <2>6, <2>7, <2>8, NextIs
<1>4. QED
  BY <1>1, <1>2, <1>3, LaunchIs

LEMMA TypesStep == Types /\ AtLaunch /\ PoolIsItsOwners /\ [Next]_vars => Types' /\ AtLaunch' /\ PoolIsItsOwners'
<1> SUFFICES ASSUME Types, AtLaunch, PoolIsItsOwners, [Next]_vars PROVE Types' /\ AtLaunch' /\ PoolIsItsOwners'
  OBVIOUS
<1>1. BoxPart' /\ LogPart' /\ FlagPart' /\ PoolPart' /\ AtLaunch' /\ PoolIsItsOwners'
  BY BoxStep, LogStep, FlagStep, PoolStep, LaunchStep
<1>2. WayPart'
  BY WayStep, DecideStep DEF WayPart
<1>3. faults' \in 0..MaxFaults /\ turns' \in 0..MaxTurns
  BY NextCounts DEF Types
<1>4. QED
  BY <1>1, <1>2, <1>3, TypeParts

LEMMA TypesInit == Init => Types /\ AtLaunch /\ PoolIsItsOwners
<1> SUFFICES ASSUME Init PROVE Types /\ AtLaunch /\ PoolIsItsOwners
  OBVIOUS
<1>1. /\ file \in Boxes \cup {None} /\ mem = EmptyBox /\ mem \in Boxes
  <2>1. None \in Account
    BY DEF Account
  <2>2. Ownerless \in SUBSET Items
    BY OwnerAssumption
  <2>3. file \in Boxes \cup {None}
    BY <2>1, <2>2, BoxTypes DEF Init
  <2>4. QED
    BY <2>3, BoxTypes DEF Init
<1>2. send = NoSend /\ send.pc = "none" /\ send.batch = {} /\ send.log = {} /\ send \in Sends
  BY SendTypes DEF Init
<1>3. queue = <<>> /\ queue \in Seq(Task) /\ Len(queue) = 0 /\ queue \in Seq(TasksOf(Writers, Boxes))
  BY DEF Init
<1>4. InTurn(queue, send.pc) /\ Sender(send)
  BY <1>2, <1>3 DEF InTurn, Sender
<1>5. 0 \in 0..MaxFaults /\ 0 \in 0..MaxTurns
  BY BoundsAssumption
<1>6. TypeOK
  <2>1. backoff \in BOOLEAN /\ problem \in BOOLEAN
    BY DEF Init
  <2>2. ticking \in BOOLEAN /\ raced \in BOOLEAN /\ misfiled \in BOOLEAN
    BY DEF Init
  <2>3. QED
    BY <1>1, <1>2, <1>3, <1>5, <2>1, <2>2, OwnerAssumption DEF Init, TypeOK, Sends, Account, Launching
<1>7. PoolIsItsOwners /\ AtLaunch
  BY DEF Init, PoolIsItsOwners, Launching, Waiting, Deleted, AtLaunch
<1>8. QED
  BY <1>2, <1>3, <1>4, <1>6, <1>7 DEF Types, Logs, Init

-----------------------------------------------------------------------------
(* Where what is queued, what memory and the file hold and what an upload  *)
(* carries come from.  A task that is no approval's is computed from the   *)
(* outbox that memory holds when it is queued.                             *)
Derived(t) ==
  /\ t.by \notin Items
  /\ t.kind = "save" => t.value.items = {} \/ (t.value.items \subseteq mem'.items /\ mem'.owner \in {None, t.value.owner})
From(q, r) ==
  \A k \in 1..Len(r) : \/ \E j \in 1..Len(q) : r[k] = q[j]
                       \/ Derived(r[k])
                       \/ \E i \in Items : Approve(i) /\ r[k] = SaveTask(i, NewBox(i))
LEMMA FlushFrom ==
  ASSUME NEW box \in Boxes, box = mem', NEW q \in Seq(Task), Flushed(box, q)
  PROVE  From(q, queue')
<1>1. CASE queue' = q
  BY <1>1 DEF From
<1>2. CASE box.owner = None /\ user \in Users /\ queue' = Append(q, SaveTask("send", [box EXCEPT !.owner = user]))
  <2> DEFINE t == SaveTask("send", [box EXCEPT !.owner = user])
  <2>1. user \in Account /\ "send" \in Writers /\ "send" # "clear" /\ "send" \notin Items
    BY <1>2, NamesAssumption DEF Account, Writers
  <2>2. /\ [box EXCEPT !.owner = user] \in Boxes /\ [box EXCEPT !.owner = user].items = box.items
    BY <2>1, BoxTypes
  <2>3. t \in Task /\ t.by = "send" /\ t.value.items = box.items
    BY <2>1, <2>2, TaskTypes
  <2>4. Derived(t)
    BY <1>2, <2>1, <2>3 DEF Derived
  <2> HIDE DEF t
  <2>5. queue' = Append(q, t)
    BY <1>2 DEF t
  <2>6. QED
    BY <2>3, <2>4, <2>5, PutIn DEF From
<1>3. QED
  BY <1>1, <1>2 DEF Flushed
LEMMA SaveFrom ==
  ASSUME queue \in Seq(Task), NEW by \in Writers \ {"clear"}, NEW b \in Boxes, SaveAfter(queue, by, b),
         Derived(SaveTask(by, b)) \/ \E i \in Items : Approve(i) /\ SaveTask(by, b) = SaveTask(i, NewBox(i))
  PROVE  From(queue, queue')
<1> DEFINE t == SaveTask(by, b)
<1>1. t \in Task /\ (Derived(t) \/ \E i \in Items : Approve(i) /\ t = SaveTask(i, NewBox(i)))
  BY TaskTypes
<1>2. queue' = Append(queue, t)
  BY DEF SaveAfter
<1> HIDE DEF t
<1>3. QED
  BY <1>1, <1>2, PutIn DEF From
LEMMA TailFrom ==
  ASSUME NEW q \in Seq(Task), q # <<>>, NEW r
  PROVE  From(q, Tail(q)) /\ (From(Tail(q), r) => From(q, r))
<1>1. \A k \in 1..Len(Tail(q)) : k + 1 \in 1..Len(q) /\ Tail(q)[k] = q[k + 1]
  BY TakenOut
<1>2. QED
  BY <1>1 DEF From

LEMMA QueueStep == ASSUME Types, [Next]_vars PROVE From(queue, queue')
<1>1. TypeOK /\ queue \in Seq(Task) /\ mem \in Boxes /\ mem' \in Boxes /\ send \in Sends /\ user \in Account
  BY TypeParts, BoxStep DEF Types, BoxPart, PoolPart
<1>2. ASSUME queue' = queue PROVE From(queue, queue')
  BY <1>2 DEF From
<1>3. ASSUME NEW by, Takes(by), queue' = Tail(queue) PROVE From(queue, queue')
  BY <1>1, <1>3, TailFrom DEF Takes
<1>4. ASSUME NEW d \in SUBSET Items, mem' = mem, SaveAfter(queue, "send", Rest(d)) PROVE From(queue, queue')
  <2>1. Rest(d) \in Boxes /\ Rest(d).owner = mem.owner /\ Rest(d).items = mem.items \ d
    BY <1>1, RestTypes
  <2>2. "send" \in Writers \ {"clear"} /\ "send" \notin Items
    BY NamesAssumption DEF Writers
  <2>3. Derived(SaveTask("send", Rest(d)))
    BY <1>4, <2>1, <2>2, TaskTypes DEF Derived
  <2>4. QED
    BY <1>1, <1>4, <2>1, <2>2, <2>3, SaveFrom
<1>5. CASE Quiet \/ UNCHANGED vars
  BY <1>2, <1>5, QuietIs DEF vars, outbox
<1>6. CASE Asking
  <2>1. mem' = mem /\ (queue' = queue \/ \E u \in Account : StartAdopt(u))
    BY <1>1, <1>6, AskingIs
  <2>2. ASSUME NEW u \in Account, StartAdopt(u) PROVE From(queue, queue')
    <3>1. PICK by \in {"resave", "adopt"} : \E b \in Boxes :
            /\ SaveAfter(queue, by, b)
            /\ by = "resave" => b = mem
            /\ by = "adopt" => b.owner = u /\ b.items = IF mem.owner \in {None, u} THEN mem.items ELSE {}
      BY <1>1, <2>2, StartAdoptIs
    <3>2. PICK b \in Boxes :
            /\ SaveAfter(queue, by, b)
            /\ by = "resave" => b = mem
            /\ by = "adopt" => b.owner = u /\ b.items = IF mem.owner \in {None, u} THEN mem.items ELSE {}
      BY <3>1
    <3>3. by \in Writers \ {"clear"} /\ by \notin Items
      BY NamesAssumption DEF Writers
    <3>4. Derived(SaveTask(by, b))
      BY <2>1, <3>2, <3>3, TaskTypes DEF Derived
    <3>5. QED
      BY <1>1, <3>2, <3>3, <3>4, SaveFrom
  <2>3. QED
    BY <1>2, <2>1, <2>2
<1>7. CASE Flushing
  <2>1. mem' = mem /\ \E force \in BOOLEAN : Flush(mem, queue, force)
    BY <1>7, FlushingIs
  <2>2. Flushed(mem, queue)
    BY <1>1, <2>1, FlushIs
  <2>3. QED
    BY <1>1, <2>1, <2>2, FlushFrom
<1>8. CASE Deciding
  <2>1. ASSUME NEW i \in Items, Approve(i) PROVE From(queue, queue')
    BY <1>1, <2>1, ApproveIs, SaveFrom, ItemsAreItems
  <2>2. ASSUME NEW i \in Items, NEW worked \in BOOLEAN, Enqueued(i, worked) PROVE From(queue, queue')
    <3>1. /\ Writes(i, worked)
          /\ worked => mem' = First.value /\ Flushed(First.value, Tail(queue))
          /\ ~worked => queue' = Tail(queue)
      BY <2>2, EnqueuedIs
    <3>2. Tail(queue) \in Seq(Task) /\ queue # <<>> /\ First.value \in Boxes /\ Takes(i)
      BY <3>1 DEF Writes, Takes
    <3>3. worked => From(Tail(queue), queue')
      BY <3>1, <3>2, FlushFrom
    <3>4. QED
      BY <1>1, <1>3, <3>1, <3>2, <3>3, TailFrom
  <2>3. QED
    BY <1>8, <2>1, <2>2 DEF Deciding
<1>9. CASE Sending
  <2>1. ASSUME NEW held \in SUBSET send.batch, NEW rejected \in SUBSET (send.batch \ held), Submitted(held, rejected)
        PROVE  From(queue, queue')
    <3>1. mem' = mem /\ held \cup rejected \in SUBSET Items
      BY <1>1, <2>1, SubmittedIs DEF Sends
    <3>2. QED
      BY <1>2, <1>4, <2>1, <3>1, SubmittedIs
  <2>2. CASE SubmitFails
    BY <1>2, <2>2, SubmitFailsIs
  <2>3. ASSUME NEW worked \in BOOLEAN, Adopted(worked) \/ SendSaved(worked) PROVE From(queue, queue')
    <3>1. Takes("send") /\ queue' = Tail(queue)
      BY <2>3, AdoptedIs, SendSavedIs DEF Writes
    <3>2. QED
      BY <1>3, <3>1
  <2>4. ASSUME NEW worked \in BOOLEAN, Logged(worked) PROVE From(queue, queue')
    <3>1. mem' = mem /\ send.done \in SUBSET Items
      BY <1>1, <2>4, LoggedIs DEF Sends
    <3>2. QED
      BY <1>2, <1>4, <2>4, <3>1, LoggedIs
  <2>5. QED
    BY <1>9, <2>1, <2>2, <2>3, <2>4 DEF Sending
<1>10. CASE Owning
  <2>1. ASSUME NEW worked \in BOOLEAN, AdoptEnds(worked) PROVE From(queue, queue')
    <3>1. (Takes("resave") \/ Takes("adopt")) /\ queue' = Tail(queue)
      BY <2>1, AdoptEndsIs DEF Writes
    <3>2. QED
      BY <1>3, <3>1
  <2>2. ASSUME NEW worked \in BOOLEAN, OutboxDeleted(worked) PROVE From(queue, queue')
    BY <1>3, <2>2, OutboxDeletedIs
  <2>3. CASE DeleteOutbox
    <3>1. queue' = Append(queue, RemoveTask("clear"))
      BY <2>3, DeleteOutboxIs
    <3>2. RemoveTask("clear") \in Task /\ Derived(RemoveTask("clear"))
      BY TaskTypes, NamesAssumption DEF Derived
    <3>3. QED
      BY <1>1, <3>1, <3>2, PutIn DEF From
  <2>4. ASSUME NEW worked \in BOOLEAN, FilesDeleted(worked) PROVE From(queue, queue')
    BY <1>2, <2>4, FilesDeletedIs
  <2>5. QED
    BY <1>10, <2>1, <2>2, <2>3, <2>4 DEF Owning
<1>11. CASE Loading \/ Ends
  <2>1. queue' = queue \/ queue' = <<>>
    BY <1>11, LoadIs, EndsIs DEF Loading
  <2>2. QED
    BY <1>2, <2>1 DEF From
<1>12. QED
  BY <1>5, <1>6, <1>7, <1>8, <1>9, <1>10, <1>11, NextIs

(* A box on its way: of the first task, if that is a save.                 *)
OnItsWay(b) == queue # <<>> /\ 1 \in 1..Len(queue) /\ First.kind = "save" /\ b = First.value
LEMMA WritesWay ==
  ASSUME NEW by, NEW worked \in BOOLEAN, Writes(by, worked), by # "clear"
  PROVE  OnItsWay(First.value) /\ (FileBox' = FileBox \/ OnItsWay(FileBox'))
<1>1. queue # <<>> /\ 1 \in 1..Len(queue) /\ First \in Task /\ First.by # "clear" /\ FileBox' \in {FileBox, First.value}
  BY DEF Writes, Takes
<1>2. First.kind = "save"
  BY <1>1, TaskTypes
<1>3. QED
  BY <1>1, <1>2 DEF OnItsWay
LEMMA BoxesStep ==
  ASSUME Types, [Next]_vars
  PROVE  /\ mem' \in {mem, FileBox, EmptyBox} \/ OnItsWay(mem')
         /\ FileBox' \in {FileBox, EmptyBox} \/ OnItsWay(FileBox')
<1>1. TypeOK
  BY DEF Types
<1>2. ASSUME mem' = mem, file' = file
      PROVE  mem' \in {mem, FileBox, EmptyBox} /\ FileBox' \in {FileBox, EmptyBox}
  BY <1>2 DEF FileBox
<1>3. CASE Quiet \/ Asking \/ Flushing \/ UNCHANGED vars
  <2>1. mem' = mem /\ file' = file
    BY <1>1, <1>3, QuietIs, AskingIs, FlushingIs DEF vars, outbox
  <2>2. QED
    BY <1>2, <2>1
<1>4. ASSUME NEW by, NEW worked \in BOOLEAN, Writes(by, worked), by # "clear", mem' \in {mem, First.value}
      PROVE  /\ mem' \in {mem, FileBox, EmptyBox} \/ OnItsWay(mem')
             /\ FileBox' \in {FileBox, EmptyBox} \/ OnItsWay(FileBox')
  BY <1>4, WritesWay
<1>5. CASE Deciding
  <2>1. ASSUME NEW i \in Items, Approve(i) PROVE mem' = mem /\ file' = file
    BY <2>1, ApproveIs
  <2>2. ASSUME NEW i \in Items, NEW worked \in BOOLEAN, Enqueued(i, worked)
        PROVE  i # "clear" /\ Writes(i, worked) /\ mem' \in {mem, First.value}
    BY <2>2, EnqueuedIs, ItemsAreItems
  <2>3. QED
    BY <1>2, <1>4, <1>5, <2>1, <2>2 DEF Deciding
<1>6. CASE Sending
  <2>1. ASSUME NEW worked \in BOOLEAN, Adopted(worked) \/ SendSaved(worked)
        PROVE  "send" # "clear" /\ Writes("send", worked) /\ mem' \in {mem, First.value}
    BY <2>1, AdoptedIs, SendSavedIs
  <2>2. CASE ~\E worked \in BOOLEAN : Adopted(worked) \/ SendSaved(worked)
    BY <1>2, <1>6, <2>2, SubmittedIs, SubmitFailsIs, LoggedIs DEF Sending
  <2>3. QED
    BY <1>4, <2>1, <2>2
<1>7. CASE Owning
  <2>1. ASSUME NEW worked \in BOOLEAN, AdoptEnds(worked)
        PROVE  \E by \in {"resave", "adopt"} : Writes(by, worked) /\ mem' \in {mem, First.value}
    BY <2>1, AdoptEndsIs
  <2>2. CASE DeleteOutbox
    BY <2>2, DeleteOutboxIs DEF FileBox
  <2>3. CASE \E worked \in BOOLEAN : OutboxDeleted(worked) \/ FilesDeleted(worked)
    BY <2>3, OutboxDeletedIs, FilesDeletedIs
  <2>4. QED
    BY <1>4, <1>7, <2>1, <2>2, <2>3 DEF Owning
<1>8. CASE Loading \/ Ends
  BY <1>8, LoadIs, EndsIs DEF Loading
<1>9. QED
  BY <1>3, <1>5, <1>6, <1>7, <1>8, NextIs

(* An upload keeps what it carries to its end, and takes what memory holds.*)
LEMMA SendStep ==
  ASSUME Types, [Next]_vars
  PROVE  /\ \/ send'.batch = send.batch /\ send'.owner = send.owner
            \/ send'.batch = {}
            \/ send'.batch = mem'.items /\ send'.owner = mem'.owner
         /\ \/ server' = server
            \/ \E held \in SUBSET send.batch : server' = server \cup ({send.owner} \X held)
<1>1. TypeOK /\ send \in Sends /\ user \in Account /\ mem \in Boxes /\ NoSend.batch = {}
  BY TypeParts, SendTypes DEF Types, BoxPart, PoolPart
<1>2. ASSUME NEW q, NEW box \in Boxes, box = mem', Flushed(box, q)
      PROVE  \/ send'.batch = send.batch /\ send'.owner = send.owner
             \/ send'.batch = {}
             \/ send'.batch = mem'.items /\ send'.owner = mem'.owner
  BY <1>2, SendTypes DEF Flushed
<1>3. CASE Quiet \/ Asking \/ UNCHANGED vars
  BY <1>1, <1>3, QuietIs, AskingIs DEF vars, outbox, world, Things
<1>4. CASE Flushing
  <2>1. mem' = mem /\ server' = server /\ \E force \in BOOLEAN : Flush(mem, queue, force)
    BY <1>4, FlushingIs DEF Things
  <2>2. Flushed(mem, queue)
    BY <1>1, <2>1, FlushIs
  <2>3. QED
    BY <1>1, <1>2, <2>1, <2>2
<1>5. CASE Deciding
  <2>1. ASSUME NEW i \in Items, Approve(i) PROVE send' = send /\ server' = server
    BY <2>1, ApproveIs DEF Things
  <2>2. ASSUME NEW i \in Items, NEW worked \in BOOLEAN, Enqueued(i, worked)
        PROVE  /\ server' = server
               /\ \/ send'.batch = send.batch /\ send'.owner = send.owner
                  \/ send'.batch = {}
                  \/ send'.batch = mem'.items /\ send'.owner = mem'.owner
    <3>1. /\ server' = server /\ First.value \in Boxes
          /\ worked => mem' = First.value /\ Flushed(First.value, Tail(queue))
          /\ ~worked => send' = send
      BY <2>2, EnqueuedIs DEF Writes
    <3>2. QED
      BY <1>2, <3>1
  <2>3. QED
    BY <1>5, <2>1, <2>2 DEF Deciding
<1>6. CASE Sending
  <2>1. CASE \E held \in SUBSET send.batch : \E rejected \in SUBSET (send.batch \ held) : Submitted(held, rejected)
    BY <2>1, SubmittedIs, ServedIs
  <2>2. CASE SubmitFails
    BY <1>1, <2>2, SubmitFailsIs, ServedIs
  <2>3. ASSUME NEW worked \in BOOLEAN, Adopted(worked)
        PROVE  /\ server' = server
               /\ send'.batch = {} \/ (send'.batch = mem'.items /\ send'.owner = mem'.owner)
    <3>1. /\ server' = server /\ First.value \in Boxes /\ mem' = (IF worked THEN First.value ELSE mem)
          /\ send' = NoSend \/ (worked /\ send' = Submitting(First.value))
      BY <2>3, AdoptedIs DEF Writes, Things
    <3>2. QED
      BY <1>1, <3>1, SendTypes
  <2>4. CASE \E worked \in BOOLEAN : Logged(worked) \/ SendSaved(worked)
    BY <1>1, <2>4, LoggedIs, SendSavedIs DEF Things
  <2>5. QED
    BY <1>6, <2>1, <2>2, <2>3, <2>4 DEF Sending
<1>7. CASE Owning
  BY <1>1, <1>7, AdoptEndsIs, DeleteOutboxIs, OutboxDeletedIs, FilesDeletedIs DEF Owning, Things
<1>8. CASE Loading \/ Ends
  BY <1>1, <1>8, LoadIs, EndsIs DEF Loading
<1>9. QED
  BY <1>3, <1>4, <1>5, <1>6, <1>7, <1>8, NextIs

-----------------------------------------------------------------------------
(* A statement is captured once and first: nothing that an older build left*)
(* in the outbox is pending again.                                         *)
LEMMA CapturedIs ==
  ASSUME Types, CapturedFirst, [Next]_vars
  PROVE  /\ captured \subseteq captured' /\ pending' \subseteq captured' \ Ownerless
         /\ poolFile' # None => poolFile'.items \subseteq captured' \ Ownerless
<1>1. /\ pending \subseteq New
      /\ poolFile # None => poolFile.items \subseteq New
      /\ Ownerless \subseteq captured /\ pending \subseteq Items
      /\ poolFile \in Boxes \cup {None}
  BY DEF CapturedFirst, Types, TypeOK
<1>2. ASSUME UNCHANGED captured, pending' \subseteq New, poolFile' # None => poolFile'.items \subseteq New
      PROVE  /\ captured \subseteq captured' /\ pending' \subseteq captured' \ Ownerless
             /\ poolFile' # None => poolFile'.items \subseteq captured' \ Ownerless
  BY <1>2 DEF New
<1>3. CASE Flushing \/ Deciding \/ Sending \/ UNCHANGED vars
  <2>1. UNCHANGED <<captured, pending, poolFile>>
    BY <1>3 DEF Flushing, Deciding, Sending, TickFlush, SignInFlush, FlushAgain, Approve, Enqueued, Submitted,
      SubmitFails, Adopted, Logged, SendSaved, vars, pool
  <2>2. QED
    BY <1>1, <1>2, <2>1
<1>4. CASE Quiet
  <2>1. CASE \E i \in Items : Capture(i)
    <3>1. PICK i \in Items : /\ i \notin captured /\ captured' = captured \cup {i} /\ pending' = pending \cup {i}
                             /\ poolFile' = poolFile
      BY <2>1 DEF Capture
    <3>2. QED
      BY <1>1, <3>1 DEF New
  <2>2. CASE \E worked \in BOOLEAN : SavePool(worked)
    <3>1. UNCHANGED <<pending, captured>> /\ poolFile' \in {poolFile, [owner |-> poolOwner, items |-> pending]}
      BY <2>2 DEF SavePool, Snapshot
    <3>2. QED
      BY <1>1, <1>2, <3>1
  <2>3. CASE \E i \in Items : Resolve(i) \/ ApproveAgain(i) \/ Reject(i)
    <3>1. UNCHANGED <<captured, poolFile>> /\ pending' \subseteq pending
      BY <2>3 DEF Resolve, ApproveAgain, Reject, LeavePool
    <3>2. QED
      BY <1>1, <1>2, <3>1
  <2>4. CASE \E worked \in BOOLEAN : RestorePool(worked)
    <3>1. /\ UNCHANGED captured /\ poolFile' \in {poolFile, None}
          /\ pending' = {} \/ (poolFile # None /\ pending' = poolFile.items)
      BY <2>4 DEF RestorePool, OwnPool
    <3>2. QED
      BY <1>1, <1>2, <3>1
  <2>5. CASE \/ PoolDropped \/ PoolHandedOver
             \/ SignOut \/ BackoffEnds \/ DeleteAllData \/ DeleteDrops \/ DeleteSignsOut
    <3>1. UNCHANGED <<captured, poolFile>> /\ pending' \in {pending, {}}
      BY <2>5 DEF PoolDropped, PoolHandedOver, SignOut, BackoffEnds, DeleteAllData, DeleteDrops, DeleteSignsOut, pool
    <3>2. QED
      BY <1>1, <1>2, <3>1
  <2>6. QED
    BY <1>4, <2>1, <2>2, <2>3, <2>4, <2>5 DEF Quiet
<1>5. CASE Asking \/ Owning \/ Loading \/ Ends
  <2>1. UNCHANGED captured /\ pending' \in {pending, {}} /\ poolFile' \in {poolFile, None}
    BY <1>5 DEF Asking, Owning, StartUp, TickAdopt, SignIn, PoolCleared, DeleteOutbox, AdoptEnds, OutboxDeleted,
      FilesDeleted, Loading, LoadFiles, Ends, pool
  <2>2. QED
    BY <1>1, <1>2, <2>1
<1>6. QED
  BY <1>3, <1>4, <1>5, NextIs
LEMMA ApprovedIs ==
  ASSUME Types, [Next]_vars
  PROVE  approved' = approved \/ \E i \in Items : Takes(i) /\ approved' = approved \cup {i}
<1>1. TypeOK
  BY DEF Types
<1>2. CASE Quiet \/ Asking \/ Flushing \/ UNCHANGED vars
  BY <1>1, <1>2, QuietIs, AskingIs, FlushingIs DEF Things, vars, history
<1>3. CASE Deciding
  BY <1>3, ApproveIs, EnqueuedIs DEF Deciding, Things, Writes
<1>4. CASE Sending
  BY <1>4, SubmittedIs, SubmitFailsIs, AdoptedIs, LoggedIs, SendSavedIs DEF Sending, Things
<1>5. CASE Owning \/ Loading \/ Ends
  BY <1>5, AdoptEndsIs, DeleteOutboxIs, OutboxDeletedIs, FilesDeletedIs, LoadIs, EndsIs DEF Owning, Loading, Things
<1>6. QED
  BY <1>2, <1>3, <1>4, <1>5, NextIs
LEMMA CapturedStep ==
  ASSUME Types, CapturedFirst, [Next]_vars PROVE CapturedFirst'
<1>1. /\ captured \subseteq captured' /\ pending' \subseteq captured' \ Ownerless
      /\ poolFile' # None => poolFile'.items \subseteq captured' \ Ownerless
  BY CapturedIs
<1>2. Ownerless \subseteq captured' /\ approved \subseteq captured' /\ New \subseteq captured' \ Ownerless
  BY <1>1 DEF CapturedFirst, New
<1>3. approved' \subseteq captured'
  <2>1. ASSUME NEW i \in Items, Takes(i) PROVE i \in captured'
    <3>1. 1 \in 1..Len(queue) /\ queue[1].by = i
      BY <2>1 DEF Takes, First
    <3>2. i \in New
      BY <3>1 DEF CapturedFirst
    <3>3. QED
      BY <1>2, <3>2
  <2>2. QED
    BY <1>2, <2>1, ApprovedIs
<1>4. ASSUME NEW k \in 1..Len(queue'), queue'[k].by \in Items PROVE queue'[k].by \in captured' \ Ownerless
  <2>1. CASE \E j \in 1..Len(queue) : queue'[k] = queue[j]
    BY <1>2, <1>4, <2>1 DEF CapturedFirst
  <2>2. CASE Derived(queue'[k])
    BY <1>4, <2>2 DEF Derived
  <2>3. ASSUME NEW i \in Items, Approve(i), queue'[k] = SaveTask(i, NewBox(i)) PROVE queue'[k].by \in New
    <3>1. i \in pending /\ queue'[k].by = i
      BY <2>3, ApproveIs, ItemsAreItems, TaskTypes
    <3>2. QED
      BY <3>1 DEF CapturedFirst
  <2>4. QED
    BY <1>2, <1>4, <2>1, <2>2, <2>3, QueueStep DEF From
<1>5. QED
  BY <1>1, <1>2, <1>3, <1>4 DEF CapturedFirst, New

(* So long as no approval is filed under another account, every box, every *)
(* upload and the server have a statement under its own account.           *)
LEMMA FiledStep ==
  ASSUME Types, AtLaunch, PoolIsItsOwners, misfiled \/ Filed, [Next]_vars, ~misfiled' PROVE Filed'
<1>1. /\ Types' /\ mem \in Boxes /\ mem' \in Boxes /\ misfiled \in BOOLEAN
      /\ queue \in Seq(Task) /\ queue' \in Seq(Task)
  BY TypesStep DEF Types, TypeOK
<1>2. ~misfiled /\ \A i \in Items : Approve(i) => NewBox(i).owner = user /\ OwnerOf[i] = user
  <2>1. \A i \in Items : Approve(i) => misfiled' = (misfiled \/ NewBox(i).owner # user \/ OwnerOf[i] # user)
    BY DEF Approve
  <2>2. QED
    BY <1>1, <2>1, MisfiledIs
<1>3. Filed
  BY <1>2
<1>4. \A i \in Items : OwnerOf[i] # None
  BY OwnerAssumption, NoneAssumption
<1>5. OnItsWay(mem') => RightBox(mem')
  BY <1>3 DEF Filed, OnItsWay, First
<1>6. OnItsWay(FileBox') => RightBox(FileBox')
  BY <1>3 DEF Filed, OnItsWay, First
<1>7. RightBox(mem') /\ RightBox(FileBox')
  <2>1. RightBox(EmptyBox) /\ RightBox(mem) /\ RightBox(FileBox)
    BY <1>3, BoxTypes DEF RightBox, Filed
  <2>2. QED
    BY <1>5, <1>6, <2>1, BoxesStep
<1>8. ASSUME NEW k \in 1..Len(queue'), queue'[k].kind = "save" PROVE RightBox(queue'[k].value)
  <2>1. CASE \E j \in 1..Len(queue) : queue'[k] = queue[j]
    BY <1>3, <1>8, <2>1 DEF Filed
  <2>2. CASE Derived(queue'[k])
    <3> DEFINE b == queue'[k].value
    <3>1. b.items = {} \/ (b.items \subseteq mem'.items /\ mem'.owner \in {None, b.owner})
      BY <1>8, <2>2 DEF Derived
    <3> HIDE DEF b
    <3>2. \A i \in mem'.items : i \in Items /\ (OwnerOf[i] = mem'.owner \/ i \in Ownerless)
      BY <1>1, <1>7, BoxTypes DEF RightBox
    <3>3. RightBox(b)
      BY <1>4, <3>1, <3>2 DEF RightBox
    <3>4. QED
      BY <3>3 DEF b
  <2>3. ASSUME NEW i \in Items, Approve(i), queue'[k] = SaveTask(i, NewBox(i)) PROVE RightBox(queue'[k].value)
    <3>1. /\ NewBox(i) \in Boxes /\ NewBox(i).items = mem.items \cup {i} /\ i \in pending
          /\ NewBox(i).owner = (IF mem.owner # None THEN mem.owner ELSE user)
          /\ NewBox(i).owner = user
      BY <1>2, <2>3, ApproveIs
    <3>2. queue'[k].value = NewBox(i)
      BY <2>3, <3>1, ItemsAreItems, TaskTypes
    <3>3. OwnerOf[i] = user
      BY <1>2, <2>3
    <3>4. \A j \in mem.items : j \in Items /\ (OwnerOf[j] = mem.owner \/ j \in Ownerless)
      BY <1>1, <1>3, BoxTypes DEF Filed, RightBox
    <3>5. RightBox(NewBox(i))
      BY <1>4, <3>1, <3>3, <3>4 DEF RightBox
    <3>6. QED
      BY <3>2, <3>5
  <2>4. QED
    BY <1>8, <2>1, <2>2, <2>3, QueueStep DEF From
<1>9. \A i \in send'.batch : OwnerOf[i] = send'.owner \/ i \in Ownerless
  BY <1>3, <1>7, SendStep DEF Filed, RightBox
<1>10. \A s \in server' : OwnerOf[s[2]] = s[1] \/ s[2] \in Ownerless
  BY <1>3, SendStep DEF Filed
<1>11. QED
  BY <1>7, <1>8, <1>9, <1>10 DEF Filed
LEMMA FiledInit == Init => Filed /\ CapturedFirst
<1> SUFFICES ASSUME Init PROVE Filed /\ CapturedFirst
  OBVIOUS
<1>1. mem = EmptyBox /\ FileBox \in {EmptyBox, [owner |-> None, items |-> Ownerless]}
  BY DEF Init, FileBox, BoxIn
<1>2. RightBox(mem) /\ RightBox(FileBox)
  BY <1>1, BoxTypes DEF RightBox
<1>3. queue = <<>> /\ Len(queue) = 0 /\ server = {} /\ send.batch = {} /\ pending = {} /\ poolFile = None
      /\ captured = Ownerless /\ approved = Ownerless
  BY SendTypes DEF Init
<1>4. QED
  BY <1>2, <1>3 DEF Filed, CapturedFirst

-----------------------------------------------------------------------------
(* While no two changes of the outbox overlap: what is queued was computed *)
(* from memory, and every approved statement is accounted for, in memory   *)
(* and on disk.  Nothing leaves the queue but its only task, and nothing   *)
(* joins it but when it is empty.                                          *)
LEMMA Grown == server \subseteq server' /\ refused \subseteq refused' => Held \subseteq Held' /\ Held \cup refused \subseteq Held' \cup refused'
BY DEF Held
LEMMA OneTask ==
  ASSUME queue = <<>>, NEW t \in Task, queue' = Append(queue, t), Computed(t)',
         send'.pc \in {"adopting", "saving"} => t.by = "send"
  PROVE  OneChange'
<1>1. queue \in Seq(Task)
  BY ONLY queue = <<>>
<1>2. Len(queue') = 1 /\ queue'[1] = t
  BY <1>1, PutIn
<1>3. queue' # <<>>
  BY <1>2
<1>4. Computed(queue[1])'
  BY <1>2 DEF Computed
<1>5. QED
  BY <1>2, <1>3, <1>4 DEF OneChange
LEMMA LastTask ==
  ASSUME Types, OneChange, NEW by, Takes(by), queue' = Tail(queue), send'.pc \notin {"adopting", "saving"}
  PROVE  OneChange'
<1>1. queue \in Seq(Task) /\ queue # <<>> /\ Len(queue) <= 1
  BY DEF Types, OneChange, Takes
<1>2. queue' = <<>>
  BY <1>1, TakenOut
<1>3. Len(queue') = 0
  BY <1>2
<1>4. QED
  BY <1>2, <1>3 DEF OneChange
LEMMA SameTask ==
  ASSUME Types, OneChange, UNCHANGED <<queue, mem>>, flow' \in Erasing => flow \in Erasing,
         \/ send' = send
         \/ send.pc \notin {"adopting", "saving"} /\ send'.pc \notin {"adopting", "saving"}
  PROVE  OneChange'
<1>1. CASE send' = send
  <2>1. queue # <<>> => Computed(queue[1])'
    BY <1>1 DEF OneChange, Computed
  <2>2. QED
    BY <1>1, <2>1 DEF OneChange
<1>2. CASE send.pc \notin {"adopting", "saving"} /\ send'.pc \notin {"adopting", "saving"}
  <2>1. queue # <<>> => 1 \in 1..Len(queue)
    BY TakenOut DEF Types
  <2>2. queue # <<>> => queue[1].by # "send"
    BY <1>2, <2>1 DEF Types, InTurn
  <2>3. queue # <<>> => Computed(queue[1])'
    BY <2>2 DEF OneChange, Computed
  <2>4. QED
    BY <1>2, <2>3 DEF OneChange
<1>3. QED
  BY <1>1, <1>2
LEMMA SameBoxes ==
  ASSUME Kept, UNCHANGED <<mem, file, approved, gone>>, server \subseteq server', refused \subseteq refused',
         flow' \in Erasing => flow \in Erasing, flow' # "launch" => flow # "launch",
         send'.pc \in {"logging", "saving"} => \/ send'.done \subseteq Held' \cup refused'
                                               \/ send.pc \in {"logging", "saving"} /\ send'.done = send.done,
         send'.batch \in {{}, send.batch, mem.items}
  PROVE  Kept'
<1>1. Held \subseteq Held' /\ Held \cup refused \subseteq Held' \cup refused' /\ Safe \subseteq Safe'
  BY Grown DEF Safe
<1>2. mem' = mem /\ FileBox' = FileBox
  BY DEF FileBox
<1>3. send'.pc \in {"logging", "saving"} => send'.done \subseteq Held' \cup refused'
  BY <1>1 DEF Kept
<1>4. /\ flow' # "launch" => approved' \subseteq mem'.items \cup Safe' /\ FileBox'.items \subseteq mem'.items \cup gone'
      /\ approved' \subseteq FileBox'.items \cup Safe'
      /\ mem'.items \subseteq approved' /\ FileBox'.items \subseteq approved'
      /\ mem'.items \subseteq FileBox'.items \cup gone'
  BY <1>1, <1>2 DEF Kept
<1>5. flow' \in Erasing => approved' \subseteq gone'
  BY DEF Kept
<1>6. send'.batch \subseteq mem'.items \cup gone' /\ send'.batch \subseteq approved'
  BY <1>2 DEF Kept
<1>7. QED
  BY <1>3, <1>4, <1>5, <1>6 DEF Kept

LEMMA OrderlyQuiet ==
  ASSUME Types, raced \/ Orderly, Quiet \/ Asking \/ UNCHANGED vars, ~raced' PROVE Orderly'
<1>0. flow' # "launch" => flow # "launch"
  BY StillLaunched
<1>1. TypeOK /\ mem \in Boxes
  BY DEF Types, TypeOK
<1>2. UNCHANGED <<mem, file, send, Things>> /\ (UNCHANGED <<queue, raced>> \/ \E u \in Account : StartAdopt(u))
  BY <1>1, QuietIs, AskingIs DEF vars, outbox, history, world, sent, Things
<1>3. flow' \in Erasing => flow \in Erasing
  <2>1. Quiet => \/ flow' = flow
                 \/ flow' \in {"none", "signIn.saving", "signIn.clearing", "delete.stopping", "delete.saving", "delete.outbox"}
    BY DEF Quiet, Capture, Resolve, ApproveAgain, Reject, LeavePool, SavePool, RestorePool, PoolDropped,
      PoolHandedOver, SignOut, BackoffEnds, DeleteAllData, DeleteDrops, DeleteSignsOut, phase
  <2>2. Asking => flow' \in {"launch.pool", "launch.adopting", "tick.adopting", "signIn.stopping", "signIn.saving",
                             "signIn.adopting"}
    BY DEF Asking, StartUp, TickAdopt, SignIn, PoolCleared
  <2>3. UNCHANGED vars => flow' = flow
    BY DEF vars, phase
  <2>4. QED
    BY <2>1, <2>2, <2>3 DEF Erasing
<1>4. ASSUME Orderly PROVE Kept'
  <2>1. send'.batch \in {{}, send.batch, mem.items} /\ server \subseteq server' /\ refused \subseteq refused'
    BY <1>2 DEF Things
  <2>2. send'.pc \in {"logging", "saving"} => \/ send'.done \subseteq Held' \cup refused'
                                              \/ send.pc \in {"logging", "saving"} /\ send'.done = send.done
    BY <1>2
  <2>3. UNCHANGED <<mem, file, approved, gone>>
    BY <1>2 DEF Things
  <2>4. QED
    BY <1>0, <1>3, <1>4, <2>1, <2>2, <2>3, SameBoxes DEF Orderly
<1>5. CASE UNCHANGED <<queue, raced>>
  <2>1. OneChange'
    BY <1>2, <1>3, <1>5, SameTask DEF Orderly
  <2>2. QED
    BY <1>4, <1>5, <2>1 DEF Orderly
<1>6. ASSUME NEW u \in Account, StartAdopt(u) PROVE Orderly'
  <2>1. PICK by \in {"resave", "adopt"} : \E b \in Boxes :
          /\ SaveAfter(queue, by, b)
          /\ by = "resave" => b = mem
          /\ by = "adopt" => b.owner = u /\ u # None /\ b.items = IF mem.owner \in {None, u} THEN mem.items ELSE {}
    BY <1>1, <1>6, StartAdoptIs
  <2>2. PICK b \in Boxes :
          /\ SaveAfter(queue, by, b)
          /\ by = "resave" => b = mem
          /\ by = "adopt" => b.owner = u /\ u # None /\ b.items = IF mem.owner \in {None, u} THEN mem.items ELSE {}
    BY <2>1
  <2>3. queue = <<>> /\ ~raced
    BY <2>2 DEF SaveAfter
  <2>4. by \in Writers \ {"clear"} /\ by \notin Items /\ by # "send"
    BY NamesAssumption DEF Writers
  <2> DEFINE t == SaveTask(by, b)
  <2>5. t \in Task /\ t.by = by /\ t.value = b /\ queue' = Append(queue, t)
    BY <2>2, <2>4, TaskTypes DEF SaveAfter
  <2> HIDE DEF t
  <2>6. Computed(t)'
    BY <1>2, <2>2, <2>4, <2>5 DEF Computed
  <2>7. send'.pc \notin {"adopting", "saving"}
    BY <1>2, <2>3 DEF Orderly, OneChange
  <2>8. OneChange'
    BY <2>3, <2>5, <2>6, <2>7, OneTask
  <2>9. QED
    BY <1>4, <2>3, <2>8 DEF Orderly
<1>7. QED
  BY <1>2, <1>5, <1>6
LEMMA OrderlyFlushing ==
  ASSUME Types, raced \/ Orderly, Flushing, ~raced' PROVE Orderly'
<1>1. mem \in Boxes /\ user \in Account /\ queue \in Seq(Task) /\ send \in Sends
  BY TypeParts DEF BoxPart, PoolPart
<1>2. UNCHANGED <<mem, file, Things>> /\ \E force \in BOOLEAN : Flush(mem, queue, force)
  BY FlushingIs
<1>3. Flushed(mem, queue)
  BY <1>1, <1>2, FlushIs
<1>4. raced' = raced \/ raced' = (raced \/ queue # <<>>)
  BY <1>3 DEF Flushed
<1>5. Orderly
  BY <1>4
<1>6. (flow' \in Erasing => flow \in Erasing) /\ (flow' # "launch" => flow # "launch")
  BY DEF Flushing, TickFlush, SignInFlush, FlushAgain, phase, Erasing
<1>7. Kept'
  <2>1. send' = send \/ (send'.batch \in {{}, mem.items} /\ send'.pc \notin {"logging", "saving"})
    BY <1>1, <1>3, SendTypes DEF Flushed
  <2>2. send'.batch \in {{}, send.batch, mem.items} /\ server \subseteq server' /\ refused \subseteq refused'
    BY <1>2, <2>1 DEF Things
  <2>3. send'.pc \in {"logging", "saving"} => \/ send'.done \subseteq Held' \cup refused'
                                              \/ send.pc \in {"logging", "saving"} /\ send'.done = send.done
    BY <2>1
  <2>4. UNCHANGED <<mem, file, approved, gone>>
    BY <1>2 DEF Things
  <2>5. QED
    BY <1>5, <1>6, <2>2, <2>3, <2>4, SameBoxes DEF Orderly
<1>8. OneChange'
  <2>1. CASE queue' = queue /\ send' = send
    BY <1>2, <1>5, <1>6, <2>1, SameTask DEF Orderly
  <2>2. CASE queue' = queue /\ send.pc = "none" /\ send' = Submitting(mem)
    <3>1. send'.pc = "submitting"
      BY <1>1, <2>2, SendTypes
    <3>2. QED
      BY <1>2, <1>5, <1>6, <2>2, <3>1, SameTask DEF Orderly
  <2>3. CASE /\ mem.owner = None /\ user \in Users
             /\ queue' = Append(queue, SaveTask("send", [mem EXCEPT !.owner = user])) /\ raced' = (raced \/ queue # <<>>)
             /\ send' = [NoSend EXCEPT !.pc = "adopting"]
    <3>1. user \in Account /\ "send" \in Writers /\ "send" # "clear" /\ "send" \notin Items
      BY <2>3, NamesAssumption DEF Account, Writers
    <3>2. [mem EXCEPT !.owner = user] \in Boxes /\ [mem EXCEPT !.owner = user].items = mem.items
      BY <1>1, <3>1, BoxTypes
    <3>3. PICK t \in Task : /\ t = SaveTask("send", [mem EXCEPT !.owner = user])
                           /\ t.by = "send" /\ t.value.items = mem.items
      <4>1. LET t == SaveTask("send", [mem EXCEPT !.owner = user])
            IN  t \in Task /\ t.by = "send" /\ t.value.items = mem.items
        BY <3>1, <3>2, TaskTypes
      <4>2. QED
        BY <4>1, Zenon
    <3>4. queue' = Append(queue, t) /\ queue = <<>> /\ send'.pc = "adopting"
      BY <2>3, <3>3, SendTypes
    <3>5. mem'.owner = None /\ mem' = mem
      BY <1>2, <2>3
    <3>6. Computed(t)'
      BY <3>1, <3>3, <3>4, <3>5 DEF Computed
    <3>7. QED
      BY <3>3, <3>4, <3>6, OneTask
  <2>4. QED
    BY <1>3, <2>1, <2>2, <2>3 DEF Flushed
<1>9. QED
  BY <1>7, <1>8 DEF Orderly

LEMMA OrderlyApprove ==
  ASSUME Types, PoolIsItsOwners, raced \/ Orderly, NEW i \in Items, Approve(i), ~raced' PROVE Orderly'
<1>1. /\ SaveAfter(queue, i, NewBox(i)) /\ NewBox(i) \in Boxes /\ NewBox(i).items = mem.items \cup {i}
      /\ NewBox(i).owner = (IF mem.owner # None THEN mem.owner ELSE user)
      /\ user # None /\ i \in pending /\ UNCHANGED <<mem, file, send, Things, flow>>
  BY ApproveIs
<1>2. queue = <<>> /\ Orderly
  BY <1>1 DEF SaveAfter
<1>3. flow \notin Erasing
  BY <1>1 DEF PoolIsItsOwners, Erasing, Deleted
<1>4. Kept'
  <2>1. /\ server \subseteq server' /\ refused \subseteq refused'
        /\ send'.pc \in {"logging", "saving"} => \/ send'.done \subseteq Held' \cup refused'
                                                 \/ send.pc \in {"logging", "saving"} /\ send'.done = send.done
        /\ UNCHANGED <<mem, file, approved, gone>>
    BY <1>1 DEF Things
  <2>2. /\ (flow' \in Erasing => flow \in Erasing) /\ (flow' # "launch" => flow # "launch")
        /\ send'.batch \in {{}, send.batch, mem.items}
    BY <1>1
  <2>3. QED
    BY <1>2, <2>1, <2>2, SameBoxes DEF Orderly
<1>5. OneChange'
  <2>1. PICK t \in Task : t.by = i /\ t.value = NewBox(i) /\ queue' = Append(queue, t)
    BY <1>1, ItemsAreItems, TaskTypes DEF SaveAfter
  <2>2. i \notin {"send", "adopt", "resave", "clear"}
    BY ItemsAreItems
  <2>3. Computed(t)'
    BY <1>1, <1>3, <2>1, <2>2 DEF Computed
  <2>4. send'.pc \notin {"adopting", "saving"}
    BY <1>1, <1>2 DEF Orderly, OneChange
  <2>5. QED
    BY <1>2, <2>1, <2>3, <2>4, OneTask
<1>6. QED
  BY <1>4, <1>5 DEF Orderly

LEMMA OrderlyEnqueued ==
  ASSUME Types, AtLaunch, raced \/ Orderly, NEW i \in Items, NEW worked \in BOOLEAN, Enqueued(i, worked), ~raced'
  PROVE  Orderly'
<1>1. /\ Writes(i, worked) /\ UNCHANGED <<server, refused, flow>>
      /\ worked => /\ mem' = First.value /\ Flushed(First.value, Tail(queue))
                   /\ approved' = approved \cup {i} /\ gone' = gone \ {i}
      /\ ~worked => UNCHANGED <<mem, send, raced, approved, gone>> /\ queue' = Tail(queue)
  BY EnqueuedIs
<1>2. Orderly
  BY <1>1 DEF Flushed
<1>3. Takes(i) /\ First.value \in Boxes /\ FileBox' = (IF worked THEN First.value ELSE FileBox) /\ First.by = i
  BY <1>1 DEF Writes, Takes
<1>4. i \notin {"send", "adopt", "resave", "clear"}
  BY ItemsAreItems
<1>5. Computed(First) /\ send.pc \notin {"adopting", "saving"} /\ queue # <<>> /\ Len(queue) <= 1 /\ queue \in Seq(Task)
  BY <1>2, <1>3, <1>4 DEF Orderly, OneChange, Takes, First, Types
<1>6. First.value.items = mem.items \cup {i} /\ flow \notin Erasing /\ flow # "launch"
  BY <1>3, <1>5 DEF Computed, AtLaunch
<1>7. Tail(queue) = <<>>
  BY <1>5, TakenOut
<1>8. CASE worked
  <2>1. /\ mem' = First.value /\ FileBox' = First.value /\ Flushed(First.value, <<>>)
        /\ approved' = approved \cup {i} /\ gone' = gone \ {i} /\ flow' \notin Erasing
    BY <1>1, <1>3, <1>6, <1>7, <1>8
  <2>2. send' = send \/ (send'.batch \in {{}, mem'.items} /\ send'.pc \notin {"logging", "saving"})
    BY <1>3, <2>1, SendTypes DEF Flushed
  <2>3. Held' = Held
    BY <1>1 DEF Held
  <2>4. Kept'
    <3>1. mem'.items = mem.items \cup {i} /\ Held' = Held /\ refused' = refused
      BY <1>1, <1>6, <2>1, <2>3
    <3>2. approved' \subseteq mem'.items \cup Safe' /\ mem'.items \subseteq approved' /\ FileBox'.items = mem'.items
      BY <1>2, <1>6, <2>1, <3>1 DEF Orderly, Kept, Safe
    <3>3. send'.pc \in {"logging", "saving"} => send'.done \subseteq Held' \cup refused'
      BY <1>2, <2>2, <3>1 DEF Orderly, Kept
    <3>4. send'.batch \subseteq mem'.items \cup gone' /\ send'.batch \subseteq approved'
      BY <1>2, <2>1, <2>2, <3>1, <3>2 DEF Orderly, Kept
    <3>5. QED
      BY <2>1, <3>2, <3>3, <3>4 DEF Kept
  <2>5. OneChange'
    <3>1. CASE queue' = <<>> /\ send' = send
      <4>1. Len(queue') = 0
        BY <3>1
      <4>2. QED
        BY <1>5, <3>1, <4>1 DEF OneChange
    <3>2. CASE queue' = <<>> /\ send' = Submitting(First.value)
      <4>1. Len(queue') = 0 /\ send'.pc = "submitting"
        BY <1>3, <3>2, SendTypes
      <4>2. QED
        BY <3>2, <4>1 DEF OneChange
    <3>3. CASE /\ First.value.owner = None /\ user \in Users
               /\ queue' = Append(<<>>, SaveTask("send", [First.value EXCEPT !.owner = user]))
               /\ send' = [NoSend EXCEPT !.pc = "adopting"]
      <4>1. user \in Account /\ "send" \in Writers /\ "send" # "clear" /\ "send" \notin Items
        BY <3>3, NamesAssumption DEF Account, Writers
      <4>2. [First.value EXCEPT !.owner = user] \in Boxes /\ [First.value EXCEPT !.owner = user].items = First.value.items
        BY <1>3, <4>1, BoxTypes
      <4>3. PICK t \in Task : /\ t = SaveTask("send", [First.value EXCEPT !.owner = user])
                             /\ t.by = "send" /\ t.value.items = First.value.items
        <5>1. LET t == SaveTask("send", [First.value EXCEPT !.owner = user])
              IN  t \in Task /\ t.by = "send" /\ t.value.items = First.value.items
          BY <4>1, <4>2, TaskTypes
        <5>2. QED
          BY <5>1, Zenon
      <4>4. queue' = Append(<<>>, t) /\ send'.pc = "adopting"
        BY <3>3, <4>3, SendTypes
      <4>5. mem'.owner = None /\ mem'.items = First.value.items
        BY <2>1, <3>3
      <4>6. Computed(t)'
        BY <4>1, <4>3, <4>4, <4>5 DEF Computed
      <4>7. Len(queue') = 1 /\ queue'[1] = t
        BY <4>3, <4>4, PutIn
      <4>8. Computed(queue[1])' /\ queue' # <<>>
        BY <4>6, <4>7 DEF Computed
      <4>9. QED
        BY <4>3, <4>7, <4>8 DEF OneChange
    <3>4. QED
      BY <2>1, <3>1, <3>2, <3>3 DEF Flushed
  <2>6. QED
    BY <2>4, <2>5 DEF Orderly
<1>9. CASE ~worked
  <2>1. UNCHANGED <<mem, send, approved, gone, server, refused, flow>> /\ queue' = Tail(queue) /\ FileBox' = FileBox
    BY <1>1, <1>3, <1>9
  <2>2. OneChange'
    BY <1>2, <1>3, <1>5, <2>1, LastTask DEF Orderly
  <2>3. Kept'
    <3>1. Held' = Held
      BY <2>1 DEF Held
    <3>2. QED
      BY <1>2, <2>1, <3>1 DEF Orderly, Kept, Safe
  <2>4. QED
    BY <2>2, <2>3 DEF Orderly
<1>10. QED
  BY <1>8, <1>9
(* An upload leaves the outbox to a save of its own, from which what is    *)
(* done is gone.                                                           *)
LEMMA RestTask ==
  ASSUME Types, queue = <<>>, NEW d \in SUBSET Items, SaveAfter(queue, "send", Rest(d)), mem' = mem,
         send'.pc = "saving", send'.done = d
  PROVE  OneChange'
<1>1. /\ Rest(d) \in Boxes /\ Rest(d).owner = mem.owner /\ Rest(d).items = mem.items \ d
      /\ "send" \in Writers /\ "send" \notin Items
  BY RestTypes, NamesAssumption DEF Types, TypeOK, Writers
<1>2. PICK t \in Task : t.by = "send" /\ t.value = Rest(d) /\ queue' = Append(queue, t)
  BY <1>1, TaskTypes DEF SaveAfter
<1>3. Computed(t)'
  <2>1. t.value.items = mem'.items \ d /\ mem'.owner \in {None, t.value.owner}
    BY <1>1, <1>2
  <2>2. QED
    BY <1>1, <1>2, <2>1 DEF Computed
<1>4. QED
  BY <1>2, <1>3, OneTask
LEMMA OrderlyServed ==
  ASSUME Types, raced \/ Orderly, ~raced',
         \/ SubmitFails
         \/ \E held \in SUBSET send.batch : \E rejected \in SUBSET (send.batch \ held) : Submitted(held, rejected)
  PROVE  Orderly'
<1>1. CASE SubmitFails
  <2>1. /\ send.pc = "submitting" /\ send' = NoSend /\ send'.pc = "none" /\ send'.batch = {}
        /\ UNCHANGED <<mem, file, queue, raced, approved, gone, flow>>
    BY <1>1, SubmitFailsIs, SendTypes
  <2>2. Orderly
    BY <2>1
  <2>3. server \subseteq server' /\ refused \subseteq refused'
    BY <1>1, SubmitFailsIs, ServedIs
  <2>4. /\ (flow' \in Erasing => flow \in Erasing) /\ (flow' # "launch" => flow # "launch")
        /\ send'.pc \notin {"logging", "saving"} /\ send'.batch \in {{}, send.batch, mem.items}
    BY <2>1
  <2>5. Kept'
    BY <2>1, <2>2, <2>3, <2>4, SameBoxes DEF Orderly
  <2>6. OneChange'
    BY <2>1, <2>2, SameTask DEF Orderly
  <2>7. QED
    BY <2>5, <2>6 DEF Orderly
<1>2. ASSUME NEW held \in SUBSET send.batch, NEW rejected \in SUBSET (send.batch \ held), Submitted(held, rejected)
      PROVE  Orderly'
  <2>1. /\ Served(held, rejected)
        /\ send'.batch = send.batch /\ send'.done = held \cup rejected
        /\ UNCHANGED <<mem, file, approved, gone, flow>>
        /\ \/ send'.pc = "logging" /\ UNCHANGED <<queue, raced>>
           \/ send'.pc = "saving" /\ SaveAfter(queue, "send", Rest(held \cup rejected))
    BY <1>2, SubmittedIs
  <2>2. /\ send.pc = "submitting" /\ send.owner \in Users /\ send.batch \in SUBSET Items
        /\ server' = server \cup ({send.owner} \X held) /\ refused' = refused \cup rejected
    BY <2>1, ServedIs
  <2>3. Orderly /\ (queue = <<>> \/ (send'.pc = "logging" /\ UNCHANGED queue))
    <3>1. CASE send'.pc = "logging" /\ UNCHANGED <<queue, raced>>
      BY <3>1
    <3>2. CASE SaveAfter(queue, "send", Rest(held \cup rejected))
      <4>1. ~raced /\ queue = <<>>
        BY <3>2 DEF SaveAfter
      <4>2. QED
        BY <4>1
    <3>3. QED
      BY <2>1, <3>1, <3>2
  <2>4. held \cup rejected \subseteq Held' \cup refused'
    BY <2>2 DEF Held
  <2>5. Kept'
    <3>1. /\ server \subseteq server' /\ refused \subseteq refused'
          /\ (flow' \in Erasing => flow \in Erasing) /\ (flow' # "launch" => flow # "launch")
      BY <2>1, <2>2
    <3>2. send'.done \subseteq Held' \cup refused' /\ send'.batch \in {{}, send.batch, mem.items}
      BY <2>1, <2>4
    <3>3. QED
      BY <2>1, <2>3, <3>1, <3>2, SameBoxes DEF Orderly
  <2>6. OneChange'
    <3>1. CASE send'.pc = "logging" /\ UNCHANGED <<queue, raced>>
      BY <2>1, <2>2, <2>3, <3>1, SameTask DEF Orderly
    <3>2. CASE send'.pc = "saving" /\ SaveAfter(queue, "send", Rest(held \cup rejected))
      BY <2>1, <2>2, <2>3, <3>2, RestTask
    <3>3. QED
      BY <2>1, <3>1, <3>2
  <2>7. QED
    BY <2>5, <2>6 DEF Orderly
<1>3. QED
  BY <1>1, <1>2

LEMMA OrderlySaved ==
  ASSUME Types, AtLaunch, raced \/ Orderly, ~raced', NEW worked \in BOOLEAN, Adopted(worked) \/ Logged(worked) \/ SendSaved(worked)
  PROVE  Orderly'
<1>1. CASE Logged(worked)
  <2>1. /\ send.pc = "logging" /\ UNCHANGED <<mem, file, server, refused, approved, gone, flow>>
        /\ worked => /\ SaveAfter(queue, "send", Rest(send.done)) /\ send'.pc = "saving"
                     /\ send'.batch = send.batch /\ send'.done = send.done
        /\ ~worked => send' = NoSend /\ UNCHANGED <<queue, raced>>
    BY <1>1, LoggedIs
  <2>2. /\ Orderly /\ (worked => queue = <<>>) /\ send.done \in SUBSET Items
        /\ ~worked => send'.pc = "none" /\ send'.batch = {}
    BY <2>1, SendTypes DEF SaveAfter, Types, TypeOK
  <2>3. Kept'
    <3>1. /\ server \subseteq server' /\ refused \subseteq refused'
          /\ (flow' \in Erasing => flow \in Erasing) /\ (flow' # "launch" => flow # "launch")
          /\ send'.batch \in {{}, send.batch, mem.items}
      BY <2>1, <2>2
    <3>2. send'.pc \in {"logging", "saving"} => send.pc \in {"logging", "saving"} /\ send'.done = send.done
      BY <2>1, <2>2
    <3>3. QED
      BY <2>1, <2>2, <3>1, <3>2, SameBoxes DEF Orderly
  <2>4. OneChange'
    BY <2>1, <2>2, SameTask, RestTask DEF Orderly
  <2>5. QED
    BY <2>3, <2>4 DEF Orderly
<1>2. CASE Adopted(worked) \/ SendSaved(worked)
  <2>1. /\ send.pc \in {"adopting", "saving"} /\ Writes("send", worked) /\ queue' = Tail(queue)
        /\ mem' = (IF worked THEN First.value ELSE mem)
        /\ UNCHANGED <<raced, server, refused, approved, gone, flow>>
        /\ send' = NoSend \/ (worked /\ send.pc = "adopting" /\ send' = Submitting(First.value))
    BY <1>2, AdoptedIs, SendSavedIs DEF Things
  <2>2. Orderly /\ Takes("send") /\ First.value \in Boxes /\ First.by = "send" /\ queue # <<>> /\ flow # "launch"
        /\ FileBox' = (IF worked THEN First.value ELSE FileBox)
    BY <2>1 DEF Writes, Takes, AtLaunch
  <2>3. First.value.items = (IF send.pc = "adopting" THEN mem.items ELSE mem.items \ send.done)
    BY <2>2 DEF Orderly, OneChange, Computed, First
  <2>4. /\ send'.pc \in {"none", "submitting"}
        /\ send'.batch = {} \/ (worked /\ send.pc = "adopting" /\ send'.batch = mem'.items)
    BY <2>1, <2>2, SendTypes
  <2>5. OneChange'
    BY <2>1, <2>2, <2>4, LastTask DEF Orderly
  <2>6. Held' = Held /\ refused' = refused
    BY <2>1 DEF Held
  <2>7. send.pc = "saving" => send.done \subseteq Held \cup refused
    BY <2>2 DEF Orderly, Kept
  <2>8. mem'.items \subseteq mem.items /\ mem.items \subseteq mem'.items \cup Held \cup refused
    BY <2>1, <2>3, <2>7
  <2>9. (FileBox' = FileBox /\ mem' = mem) \/ FileBox' = mem'
    BY <2>1, <2>2
  <2>10. /\ approved' \subseteq mem'.items \cup Safe' /\ approved' \subseteq FileBox'.items \cup Safe'
         /\ mem'.items \subseteq approved' /\ FileBox'.items \subseteq approved'
         /\ FileBox'.items \subseteq mem'.items \cup gone' /\ mem'.items \subseteq FileBox'.items \cup gone'
    BY <2>1, <2>2, <2>6, <2>8, <2>9 DEF Orderly, Kept, Safe
  <2>11. QED
    BY <2>1, <2>2, <2>4, <2>5, <2>10 DEF Orderly, Kept
<1>3. QED
  BY <1>1, <1>2

LEMMA OrderlyOwning ==
  ASSUME Types, AtLaunch, raced \/ Orderly, ~raced', Owning PROVE Orderly'
<1>1. ASSUME NEW worked \in BOOLEAN, AdoptEnds(worked) PROVE Orderly'
  <2>1. /\ UNCHANGED <<send, raced, server, refused, approved>> /\ queue' = Tail(queue)
        /\ \/ Writes("resave", worked) /\ UNCHANGED <<mem, gone>>
           \/ /\ Writes("adopt", worked) /\ mem' = (IF worked THEN First.value ELSE mem)
              /\ gone' = IF mem.owner \in {None, mem'.owner} THEN gone ELSE gone \cup mem.items
    BY <1>1, AdoptEndsIs
  <2>2. Orderly /\ Held' = Held /\ flow' \notin Erasing
    BY <1>1, <2>1, AfterAdoptingIs DEF Held, Erasing
  <2>3. PICK by \in {"resave", "adopt"} : Writes(by, worked) /\ (by = "resave" => UNCHANGED <<mem, gone>>)
          /\ (by = "adopt" => /\ mem' = (IF worked THEN First.value ELSE mem)
                              /\ gone' = IF mem.owner \in {None, mem'.owner} THEN gone ELSE gone \cup mem.items)
    BY <2>1
  <2>4. /\ Takes(by) /\ First.by = by /\ queue # <<>> /\ FileBox' = (IF worked THEN First.value ELSE FileBox)
        /\ by \notin Items /\ by # "send" /\ flow # "launch"
    BY <2>3, NamesAssumption DEF Writes, Takes, AtLaunch
  <2>5. Computed(First) /\ send.pc \notin {"adopting", "saving"}
    BY <2>2, <2>4 DEF Orderly, OneChange, First
  <2>6. OneChange'
    BY <2>1, <2>2, <2>4, <2>5, LastTask DEF Orderly
  <2>7. \/ mem' = mem /\ FileBox' \in {FileBox, mem} /\ gone' = gone
        \/ mem'.items = mem.items /\ FileBox' = mem' /\ gone' = gone
        \/ mem'.items = {} /\ FileBox' = mem' /\ gone' = gone \cup mem.items
    BY <2>3, <2>4, <2>5 DEF Computed
  <2>8. /\ approved' \subseteq mem'.items \cup Safe' /\ approved' \subseteq FileBox'.items \cup Safe'
        /\ mem'.items \subseteq approved' /\ FileBox'.items \subseteq approved'
        /\ FileBox'.items \subseteq mem'.items \cup gone' /\ mem'.items \subseteq FileBox'.items \cup gone'
    BY <2>1, <2>2, <2>4, <2>7 DEF Orderly, Kept, Safe
  <2>9. send'.batch \subseteq mem'.items \cup gone' /\ send'.batch \subseteq approved'
    BY <2>1, <2>2, <2>7 DEF Orderly, Kept
  <2>10. QED
    BY <2>1, <2>2, <2>6, <2>8, <2>9 DEF Orderly, Kept
<1>2. CASE DeleteOutbox
  <2>1. /\ flow' = "delete.clearing" /\ mem' = EmptyBox
        /\ queue' = Append(queue, RemoveTask("clear")) /\ raced' = (raced \/ queue # <<>>)
        /\ gone' = gone \cup approved
        /\ UNCHANGED <<file, send, server, refused, approved>>
    BY <1>2, DeleteOutboxIs
  <2>2. Orderly /\ queue = <<>> /\ Held' = Held /\ FileBox' = FileBox /\ mem'.items = {} /\ flow # "launch"
    BY <1>2, <2>1, BoxTypes, DeleteOutboxIs DEF Held, FileBox
  <2>3. send.pc \notin {"adopting", "saving"}
    BY <2>2 DEF Orderly, OneChange
  <2>4. PICK t \in Task : t.by = "clear" /\ queue' = Append(queue, t)
    BY <2>1, TaskTypes
  <2>5. Computed(t)'
    BY <2>4, NamesAssumption DEF Computed
  <2>6. OneChange'
    BY <2>1, <2>2, <2>3, <2>4, <2>5, OneTask
  <2>7. Kept'
    BY <2>1, <2>2 DEF Orderly, Kept, Safe
  <2>8. QED
    BY <2>6, <2>7 DEF Orderly
<1>3. ASSUME NEW worked \in BOOLEAN, OutboxDeleted(worked) PROVE Orderly'
  <2>1. /\ flow = "delete.clearing" /\ flow' \in {"delete.files", "none"}
        /\ Takes("clear") /\ FileBox' \in {FileBox, EmptyBox} /\ queue' = Tail(queue)
        /\ UNCHANGED <<mem, send, raced, server, refused, approved, gone>>
    BY <1>3, OutboxDeletedIs DEF Things
  <2>2. Orderly /\ Held' = Held /\ approved \subseteq gone /\ EmptyBox.items = {} /\ First.by = "clear" /\ queue # <<>>
    BY <2>1, BoxTypes DEF Held, Orderly, Kept, Erasing, Takes
  <2>3. send.pc \notin {"adopting", "saving"}
    BY <2>2 DEF Orderly, OneChange, First
  <2>4. OneChange'
    BY <2>1, <2>2, <2>3, LastTask DEF Orderly
  <2>5. Kept'
    BY <2>1, <2>2 DEF Orderly, Kept, Safe
  <2>6. QED
    BY <2>4, <2>5 DEF Orderly
<1>4. ASSUME NEW worked \in BOOLEAN, FilesDeleted(worked) PROVE Orderly'
  <2>1. /\ flow = "delete.files" /\ flow' = "none" /\ FileBox' \in {FileBox, EmptyBox}
        /\ UNCHANGED <<mem, queue, send, raced, server, refused, approved, gone>>
    BY <1>4, FilesDeletedIs
  <2>2. Orderly /\ Held' = Held /\ approved \subseteq gone /\ EmptyBox.items = {} /\ flow' \notin Erasing
    BY <2>1, BoxTypes DEF Held, Orderly, Kept, Erasing
  <2>3. OneChange'
    BY <2>1, <2>2, SameTask DEF Orderly
  <2>4. Kept'
    BY <2>1, <2>2 DEF Orderly, Kept, Safe
  <2>5. QED
    BY <2>3, <2>4 DEF Orderly
<1>5. QED
  BY <1>1, <1>2, <1>3, <1>4 DEF Owning

(* A process that ends leaves its files; what a launch reads of them is    *)
(* there, what it cannot read counts as gone.                              *)
LEMMA OrderlyLaunching ==
  ASSUME Types, AtLaunch, raced \/ Orderly, ~raced', Loading \/ Ends PROVE Orderly'
<1>1. CASE Ends
  <2>1. /\ mem' = EmptyBox /\ queue' = <<>> /\ send' = NoSend /\ flow' = "launch" /\ FileBox' = FileBox
        /\ UNCHANGED <<server, refused, raced, approved, gone>>
    BY <1>1, EndsIs
  <2>2. /\ Orderly /\ Held' = Held /\ flow' \notin Erasing /\ send'.pc = "none" /\ send'.batch = {}
        /\ mem'.items = {} /\ Len(queue') = 0
    BY <2>1, SendTypes, BoxTypes DEF Held, Erasing
  <2>3. OneChange'
    BY <2>1, <2>2 DEF OneChange
  <2>4. Kept'
    BY <2>1, <2>2 DEF Orderly, Kept, Safe
  <2>5. QED
    BY <2>3, <2>4 DEF Orderly
<1>2. ASSUME NEW worked \in BOOLEAN, LoadFiles(worked) PROVE Orderly'
  <2>1. /\ flow = "launch" /\ flow' = "launch.loaded" /\ mem' \in {FileBox, EmptyBox}
        /\ FileBox' = FileBox \/ (FileBox' = EmptyBox /\ mem' = EmptyBox)
        /\ gone \cup (FileBox.items \ mem'.items) \subseteq gone'
        /\ UNCHANGED <<queue, send, server, refused, raced, approved>>
    BY <1>2, LoadIs
  <2>2. /\ Orderly /\ Held' = Held /\ flow' \notin Erasing /\ EmptyBox.items = {}
        /\ queue' = <<>> /\ Len(queue') = 0 /\ send'.pc = "none" /\ send'.batch = {}
    BY <2>1, SendTypes, BoxTypes DEF Held, Erasing, AtLaunch
  <2>3. OneChange'
    BY <2>2 DEF OneChange
  <2>4. Kept'
    BY <2>1, <2>2 DEF Orderly, Kept, Safe
  <2>5. QED
    BY <2>3, <2>4 DEF Orderly
<1>3. QED
  BY <1>1, <1>2 DEF Loading

LEMMA OrderlyStep ==
  ASSUME Types, AtLaunch, PoolIsItsOwners, raced \/ Orderly, [Next]_vars, ~raced' PROVE Orderly'
BY NextIs, OrderlyQuiet, OrderlyFlushing, OrderlyApprove, OrderlyEnqueued, OrderlyServed, OrderlySaved, OrderlyOwning,
   OrderlyLaunching
   DEF Deciding, Sending
LEMMA OrderlyInit == Init => Orderly
<1> SUFFICES ASSUME Init PROVE Orderly
  OBVIOUS
<1>1. mem.items = {} /\ FileBox.items = Ownerless /\ approved = Ownerless /\ Ownerless \subseteq Items
  BY BoxTypes, OwnerAssumption DEF Init, FileBox, BoxIn
<1>2. /\ queue = <<>> /\ Len(queue) = 0 /\ send.pc = "none" /\ send.batch = {} /\ flow \notin Erasing
      /\ flow = "launch"
  BY SendTypes DEF Init, Erasing
<1>3. QED
  BY <1>1, <1>2 DEF Orderly, OneChange, Kept

-----------------------------------------------------------------------------
(* The log in memory and the one on disk: they part only when all data is  *)
(* deleted, when nothing is pending and everything approved is given up.   *)
LEMMA PendingIs ==
  ASSUME Types, [Next]_vars, flow \notin Launching
  PROVE  pending' \subseteq pending \cup (Items \ captured)
<1>1. CASE Flushing \/ Deciding \/ Sending \/ UNCHANGED vars
  BY <1>1 DEF Flushing, Deciding, Sending, TickFlush, SignInFlush, FlushAgain, Approve, Enqueued, Submitted,
    SubmitFails, Adopted, Logged, SendSaved, vars, pool
<1>2. CASE Quiet
  <2>1. CASE \E i \in Items : Capture(i)
    BY <2>1 DEF Capture
  <2>2. CASE \E i \in Items : Resolve(i) \/ ApproveAgain(i) \/ Reject(i)
    BY <2>2 DEF Resolve, ApproveAgain, Reject, LeavePool
  <2>3. CASE \/ \E worked \in BOOLEAN : SavePool(worked)
             \/ PoolDropped \/ PoolHandedOver
             \/ SignOut \/ BackoffEnds \/ DeleteAllData \/ DeleteDrops \/ DeleteSignsOut
    BY <2>3 DEF SavePool, PoolDropped, PoolHandedOver, SignOut, BackoffEnds, DeleteAllData, DeleteDrops, DeleteSignsOut, pool
  <2>4. CASE \E worked \in BOOLEAN : RestorePool(worked)
    BY <2>4 DEF RestorePool, Launching
  <2>5. QED
    BY <1>2, <2>1, <2>2, <2>3, <2>4 DEF Quiet
<1>3. CASE Asking \/ Owning \/ Loading \/ Ends
  BY <1>3 DEF Asking, Owning, StartUp, TickAdopt, SignIn, PoolCleared, DeleteOutbox, AdoptEnds, OutboxDeleted,
    FilesDeleted, Loading, LoadFiles, Ends, pool
<1>4. QED
  BY <1>1, <1>2, <1>3, NextIs
LEMMA LogsAre ==
  ASSUME Types, [Next]_vars
  PROVE  \/ UNCHANGED <<log, logFile>> /\ (flow' \in Launching => flow \in Launching)
         \/ log' \subseteq logFile'
         \/ \E worked \in BOOLEAN : FilesDeleted(worked)
<1>1. TypeOK
  BY DEF Types
<1>2. CASE Quiet \/ UNCHANGED vars
  <2>1. \/ flow' = flow
        \/ flow' \in {"none", "signIn.saving", "signIn.clearing", "delete.stopping", "delete.saving", "delete.outbox"}
    BY <1>2 DEF Quiet, Capture, Resolve, ApproveAgain, Reject, LeavePool, SavePool, RestorePool, PoolDropped,
      PoolHandedOver, SignOut, BackoffEnds, DeleteAllData, DeleteDrops, DeleteSignsOut, phase, vars
  <2>2. QED
    BY <1>2, <2>1, QuietIs DEF Things, vars, sent, Launching
<1>3. CASE Asking
  <2>1. \/ flow = "launch.loaded"
        \/ flow' \in {"tick.adopting", "signIn.stopping", "signIn.saving", "signIn.adopting"}
    BY <1>3 DEF Asking, StartUp, TickAdopt, SignIn, PoolCleared
  <2>2. QED
    BY <1>1, <1>3, <2>1, AskingIs DEF Things, Launching
<1>4. CASE Flushing
  <2>1. flow' = flow \/ flow' = "none"
    BY <1>4 DEF Flushing, TickFlush, SignInFlush, FlushAgain, phase
  <2>2. QED
    BY <1>4, <2>1, FlushingIs DEF Things, Launching
<1>5. CASE Deciding
  BY <1>5, ApproveIs, EnqueuedIs DEF Deciding, Things
<1>6. CASE Sending
  BY <1>6, SubmittedIs, SubmitFailsIs, AdoptedIs, LoggedIs, SendSavedIs DEF Sending, Things
<1>7. CASE Owning
  BY <1>7, AdoptEndsIs, AfterAdoptingIs, DeleteOutboxIs, OutboxDeletedIs DEF Owning, Things, Launching
<1>8. CASE Loading \/ Ends
  BY <1>8, LoadIs, EndsIs DEF Loading
<1>9. QED
  BY <1>2, <1>3, <1>4, <1>5, <1>6, <1>7, <1>8, NextIs
LEMMA GoneIs ==
  ASSUME Types, [Next]_vars PROVE \A i \in gone : i \in gone' \/ Takes(i)
<1>1. TypeOK
  BY DEF Types
<1>2. CASE Quiet \/ Asking \/ Flushing \/ UNCHANGED vars
  BY <1>1, <1>2, QuietIs, AskingIs, FlushingIs DEF Things, vars, history
<1>3. CASE Deciding
  BY <1>3, ApproveIs, EnqueuedIs DEF Deciding, Things, Writes
<1>4. CASE Sending
  BY <1>4, SubmittedIs, SubmitFailsIs, AdoptedIs, LoggedIs, SendSavedIs DEF Sending, Things
<1>5. CASE Owning \/ Loading \/ Ends
  BY <1>5, AdoptEndsIs, DeleteOutboxIs, OutboxDeletedIs, FilesDeletedIs, LoadIs, EndsIs DEF Owning, Loading, Things
<1>6. QED
  BY <1>2, <1>3, <1>4, <1>5, NextIs
LEMMA UnloggedStep ==
  ASSUME Types, PoolIsItsOwners, CapturedFirst, Orderly, Recorded, [Next]_vars PROVE Unlogged'
<1>1. LogPart /\ Unlogged /\ log \subseteq server /\ \A s \in server : s[2] \in approved
  BY TypeParts DEF Recorded, Attributed, LogPart, Logs
<1>2. CASE UNCHANGED <<log, logFile>> /\ (flow' \in Launching => flow \in Launching)
  <2>1. \A s \in log \ logFile : s[2] \in Items /\ s[2] \in captured /\ s[2] \in gone /\ s[2] \notin pending
    BY <1>1 DEF LogPart, CapturedFirst, Unlogged
  <2>2. \A s \in log \ logFile : flow \notin Launching
    BY <1>1 DEF Unlogged
  <2>3. \A s \in log \ logFile : s[2] \notin pending'
    BY <2>1, <2>2, PendingIs
  <2>4. \A s \in log \ logFile : s[2] \in gone'
    <3>1. \A i : Takes(i) => 1 \in 1..Len(queue) /\ queue[1].by = i
      BY DEF Takes, First
    <3>2. \A s \in log \ logFile : ~Takes(s[2])
      BY <1>1, <3>1 DEF Unlogged
    <3>3. QED
      BY <2>1, <3>2, GoneIs
  <2>5. ASSUME NEW k \in 1..Len(queue'), NEW s \in log \ logFile PROVE s[2] # queue'[k].by
    <3>1. CASE \E j \in 1..Len(queue) : queue'[k] = queue[j]
      BY <1>1, <3>1 DEF Unlogged
    <3>2. CASE Derived(queue'[k])
      BY <2>1, <3>2 DEF Derived
    <3>3. ASSUME NEW i \in Items, Approve(i), queue'[k] = SaveTask(i, NewBox(i)) PROVE s[2] # queue'[k].by
      <4>1. i \in pending /\ queue'[k].by = i
        BY <3>3, ApproveIs, ItemsAreItems, TaskTypes
      <4>2. QED
        BY <2>1, <4>1
    <3>4. QED
      BY <3>1, <3>2, <3>3, QueueStep DEF From
  <2>6. QED
    BY <1>1, <1>2, <2>3, <2>4, <2>5 DEF Unlogged
<1>3. CASE log' \subseteq logFile'
  BY <1>3 DEF Unlogged
<1>4. ASSUME NEW worked \in BOOLEAN, FilesDeleted(worked) PROVE Unlogged'
  <2>1. /\ flow = "delete.files" /\ flow' = "none" /\ log' \in {{}, log} /\ UNCHANGED <<queue, gone>>
    BY <1>4, FilesDeletedIs
  <2>2. approved \subseteq gone /\ pending = {}
    BY <2>1 DEF Orderly, Kept, Erasing, PoolIsItsOwners, Deleted
  <2>3. pending' = {}
    BY <1>4, <2>2 DEF FilesDeleted
  <2>4. \A s \in log' : s[2] \in gone' /\ s[2] \notin pending' /\ s[2] \in Items
    BY <1>1, <2>1, <2>2, <2>3 DEF LogPart
  <2>5. ASSUME NEW k \in 1..Len(queue) PROVE queue[k].by \notin Items
    <3>1. Computed(queue[1]) /\ k = 1
      <4>1. queue # <<>> /\ Len(queue) <= 1
        BY <2>5 DEF Orderly, OneChange
      <4>2. Len(queue) \in Nat
        BY DEF Types
      <4>3. QED
        BY <2>5, <4>1, <4>2 DEF Orderly, OneChange
    <3>2. QED
      BY <2>1, <3>1 DEF Computed, Erasing
  <2>6. flow' \notin Launching
    BY <2>1 DEF Launching
  <2>7. QED
    BY <2>1, <2>4, <2>5, <2>6 DEF Unlogged
<1>5. QED
  BY <1>2, <1>3, <1>4, LogsAre

-----------------------------------------------------------------------------
(* Whose a statement is, and where it is on record.                        *)
Noted == Attributed /\ OnRecord
(* A box with no more in it, and an owner that replaces nobody else.       *)
LEMMA SameOf ==
  ASSUME Types, Attributed, NEW b \in Boxes, \A i \in b.items : i \in mem.items, mem.owner \in {None, b.owner}
  PROVE  Same(b)
<1>1. /\ send.batch # {} => send.owner \in Users
      /\ \A s \in server : s[1] \in Users
      /\ None \notin Users
  <2>1. send \in Sends
    BY TypeParts DEF BoxPart
  <2>2. QED
    BY <2>1, NoneAssumption DEF Types, TypeOK, Sender, Sends
<1>2. ASSUME NEW i \in b.items PROVE /\ \A s \in server : s[2] = i => s[1] = b.owner
                                     /\ i \in send.batch => send.owner = b.owner
  <2>1. /\ \A s \in server : s[2] = i => s[1] = mem.owner
        /\ i \in send.batch => send.owner = mem.owner
    BY <1>2 DEF Attributed, Same
  <2>2. QED
    BY <1>1, <1>2, <2>1
<1>3. QED
  BY <1>2 DEF Same
LEMMA NotedQuiet ==
  ASSUME Noted, UNCHANGED <<mem, file, send, Things>>, flow' # "launch" => flow # "launch" PROVE Noted'
<1>1. FileBox' = FileBox
  BY DEF FileBox
<1>2. UNCHANGED <<mem, send, server, log, logFile, gone, approved>>
  BY DEF Things
<1>3. Attributed'
  BY <1>1, <1>2 DEF Noted, Attributed, Same
<1>4. OnRecord'
  BY <1>1, <1>2 DEF Noted, OnRecord
<1>5. QED
  BY <1>3, <1>4 DEF Noted
LEMMA NotedFlushing ==
  ASSUME Types, Noted, Flushing PROVE Noted'
<1>1. mem \in Boxes /\ user \in Account
  BY DEF Types, TypeOK
<1>2. UNCHANGED <<mem, file, Things>> /\ \E force \in BOOLEAN : Flush(mem, queue, force)
  BY FlushingIs
<1>3. Flushed(mem, queue) /\ FileBox' = FileBox /\ (flow' # "launch" => flow # "launch")
  BY <1>1, <1>2, FlushIs, StillLaunched DEF FileBox
<1>4. CASE send' = send
  BY <1>2, <1>3, <1>4, NotedQuiet
<1>5. CASE send'.batch = {} /\ send'.pc = "adopting"
  <2>1. Attributed'
    BY <1>2, <1>3, <1>5 DEF Things, Noted, Attributed, Same
  <2>2. OnRecord'
    BY <1>2, <1>3, <1>5 DEF Things, Noted, OnRecord
  <2>3. QED
    BY <2>1, <2>2 DEF Noted
<1>6. CASE send'.batch = mem.items /\ send'.owner = mem.owner /\ send'.pc = "submitting"
  <2>1. \A i \in FileBox.items : i \in mem.items => mem.owner = FileBox.owner
    BY DEF Noted, Attributed
  <2>2. Attributed'
    BY <1>2, <1>3, <1>6, <2>1 DEF Things, Noted, Attributed, Same
  <2>3. OnRecord'
    BY <1>2, <1>3, <1>6 DEF Things, Noted, OnRecord
  <2>4. QED
    BY <2>2, <2>3 DEF Noted
<1>7. QED
  BY <1>1, <1>3, <1>4, <1>5, <1>6, SendTypes DEF Flushed

LEMMA NotedEnqueued ==
  ASSUME Types, AtLaunch, Filed, Filed', CapturedFirst, Orderly, Noted,
         NEW i \in Items, NEW worked \in BOOLEAN, Enqueued(i, worked)
  PROVE  Noted'
<1>1. /\ Writes(i, worked) /\ UNCHANGED <<server, refused, log, logFile, flow>>
      /\ worked => /\ mem' = First.value /\ Flushed(First.value, Tail(queue))
                   /\ approved' = approved \cup {i} /\ gone' = gone \ {i}
      /\ ~worked => UNCHANGED <<mem, send, raced, approved, gone>> /\ queue' = Tail(queue)
  BY EnqueuedIs
<1>2. /\ First.value \in Boxes /\ FileBox' = (IF worked THEN First.value ELSE FileBox) /\ First.by = i
      /\ queue # <<>> /\ 1 \in 1..Len(queue) /\ i \notin {"send", "adopt", "resave", "clear"}
  BY <1>1, ItemsAreItems DEF Writes, Takes
<1>3. Computed(First) /\ send.pc \notin {"adopting", "saving"} /\ i \in New /\ flow # "launch"
  BY <1>2 DEF Orderly, OneChange, First, CapturedFirst, AtLaunch
<1>4. First.value.items = mem.items \cup {i} /\ mem.owner \in {None, First.value.owner}
  BY <1>2, <1>3 DEF Computed
<1>5. CASE worked
  <2>1. /\ mem' = First.value /\ FileBox' = First.value /\ mem' \in Boxes /\ mem'.items = mem.items \cup {i}
        /\ mem.owner \in {None, mem'.owner}
        /\ approved' = approved \cup {i} /\ gone' = gone \ {i} /\ UNCHANGED <<server, log, logFile>>
    BY <1>1, <1>2, <1>4, <1>5
  <2>2. \/ send' = send
        \/ send'.batch = {} /\ send'.pc = "adopting"
        \/ send'.batch = mem'.items /\ send'.owner = mem'.owner /\ send'.pc = "submitting"
    BY <1>1, <1>2, <1>5, SendTypes DEF Flushed
  <2>3. i \notin Ownerless
    BY <1>3 DEF New
  <2>4. /\ \A s \in server' : s[2] = i => s[1] = mem'.owner
        /\ i \in send'.batch => send'.owner = mem'.owner
    BY <2>1, <2>3 DEF Filed, RightBox
  <2>5. ASSUME NEW j \in mem.items
        PROVE  /\ \A s \in server' : s[2] = j => s[1] = mem'.owner
               /\ j \in send'.batch => send'.owner = mem'.owner
    <3>1. /\ send.batch # {} => send.owner \in Users
          /\ \A s \in server : s[1] \in Users
          /\ None \notin Users
      <4>1. send \in Sends
        BY TypeParts DEF BoxPart
      <4>2. QED
        BY <4>1, NoneAssumption DEF Types, TypeOK, Sender, Sends
    <3>2. /\ \A s \in server : s[2] = j => s[1] = mem.owner
          /\ j \in send.batch => send.owner = mem.owner
      BY DEF Noted, Attributed, Same
    <3>3. QED
      BY <2>1, <2>2, <3>1, <3>2
  <2>6. Same(mem)'
    BY <2>1, <2>4, <2>5 DEF Same
  <2>7. Same(FileBox)'
    BY <2>1, <2>6 DEF Same
  <2>8. Attributed'
    <3>1. \A s \in server' : s[2] \in send'.batch => s[1] = send'.owner
      BY <2>1, <2>2, <2>6 DEF Same, Noted, Attributed
    <3>2. \A s \in server' : s[2] \in approved'
      BY <2>1 DEF Noted, Attributed
    <3>3. QED
      BY <2>1, <2>6, <2>7, <3>1, <3>2 DEF Attributed
  <2>9. OnRecord'
    <3>1. send'.pc # "saving"
      BY <1>3, <2>2
    <3>2. \A s \in server' : s \in log' \/ s[2] \in mem'.items \cup gone'
      BY <1>3, <2>1 DEF Noted, OnRecord
    <3>3. \A s \in server' : s \in logFile' \/ s[2] \in FileBox'.items \cup gone'
      <4>1. FileBox.items \subseteq mem.items \cup gone
        BY <1>3 DEF Orderly, Kept
      <4>2. QED
        BY <2>1, <4>1 DEF Noted, OnRecord
    <3>4. send'.pc = "logging" => send' = send
      BY <2>2
    <3>5. QED
      BY <2>1, <3>1, <3>2, <3>3, <3>4 DEF Noted, OnRecord
  <2>10. QED
    BY <2>8, <2>9 DEF Noted
<1>6. CASE ~worked
  <2>1. UNCHANGED <<mem, send, server, log, logFile, gone, approved>> /\ FileBox' = FileBox
    BY <1>1, <1>2, <1>6
  <2>2. Attributed'
    BY <2>1 DEF Noted, Attributed, Same
  <2>3. OnRecord'
    BY <1>3, <2>1 DEF Noted, OnRecord
  <2>4. QED
    BY <2>2, <2>3 DEF Noted
<1>7. QED
  BY <1>5, <1>6

(* What the server takes is of the upload's batch, and of its owner.       *)
LEMMA Taken ==
  ASSUME Types, flow # "launch", Orderly, Noted, UNCHANGED <<mem, file, approved, gone, log, logFile>>,
         NEW held \in SUBSET send.batch, server' = server \cup ({send.owner} \X held),
         send'.batch = {} \/ (send'.batch = send.batch /\ send'.owner = send.owner)
  PROVE  /\ Attributed'
         /\ \A s \in server' : s \in log' \/ s[2] \in mem'.items \cup gone'
         /\ \A s \in server' : s \in logFile' \/ s[2] \in FileBox'.items \cup gone'
<1>1. FileBox' = FileBox
  BY DEF FileBox
<1>2. \A s \in server' : s \in server \/ (s[1] = send.owner /\ s[2] \in send.batch)
  OBVIOUS
<1>3. \A b : Same(b) => \A j \in b.items : \A s \in server' : s[2] = j => s[1] = b.owner
  BY <1>2 DEF Same
<1>4. Same(mem)' /\ Same(FileBox)'
  <2>1. /\ \A j \in mem.items : \A s \in server' : s[2] = j => s[1] = mem.owner
        /\ \A j \in FileBox.items : \A s \in server' : s[2] = j => s[1] = FileBox.owner
    BY <1>3 DEF Noted, Attributed
  <2>2. /\ \A j \in mem.items : j \in send'.batch => send'.owner = mem.owner
        /\ \A j \in FileBox.items : j \in send'.batch => send'.owner = FileBox.owner
    BY DEF Noted, Attributed, Same
  <2>3. QED
    BY <1>1, <2>1, <2>2 DEF Same
<1>5. send.batch \subseteq mem.items \cup gone /\ send.batch \subseteq approved
      /\ mem.items \subseteq FileBox.items \cup gone
  BY DEF Orderly, Kept
<1>6. Attributed'
  <2>1. \A s \in server' : s[2] \in send'.batch => s[1] = send'.owner
    BY <1>2 DEF Noted, Attributed
  <2>2. \A s \in server' : s[2] \in approved'
    BY <1>2, <1>5 DEF Noted, Attributed
  <2>3. QED
    BY <1>1, <1>4, <2>1, <2>2 DEF Noted, Attributed
<1>7. QED
  BY <1>1, <1>2, <1>5, <1>6 DEF Noted, OnRecord
LEMMA NotedServed ==
  ASSUME Types, AtLaunch, Orderly, Unlogged, Noted,
         \/ SubmitFails
         \/ \E held \in SUBSET send.batch : \E rejected \in SUBSET (send.batch \ held) : Submitted(held, rejected)
  PROVE  Noted'
<1>0. flow # "launch"
  BY SubmitFailsIs, SubmittedIs, ServedIs, SendTypes DEF AtLaunch
<1>1. CASE SubmitFails
  <2>1. send' = NoSend /\ send'.batch = {} /\ send'.pc = "none"
        /\ UNCHANGED <<mem, file, approved, gone, log, logFile>>
    BY <1>1, SubmitFailsIs, SendTypes
  <2>2. \E held \in SUBSET send.batch : server' = server \cup ({send.owner} \X held)
    <3>1. CASE server' = server
      <4>1. server' = server \cup ({send.owner} \X {}) /\ {} \in SUBSET send.batch
        BY <3>1
      <4>2. QED
        BY <4>1
    <3>2. QED
      BY <1>1, <3>1, SubmitFailsIs, ServedIs
  <2>3. /\ Attributed'
        /\ \A s \in server' : s \in log' \/ s[2] \in mem'.items \cup gone'
        /\ \A s \in server' : s \in logFile' \/ s[2] \in FileBox'.items \cup gone'
    BY <1>0, <2>1, <2>2, Taken
  <2>4. QED
    BY <2>1, <2>3 DEF Noted, OnRecord
<1>2. ASSUME NEW held \in SUBSET send.batch, NEW rejected \in SUBSET (send.batch \ held), Submitted(held, rejected)
      PROVE  Noted'
  <2>1. /\ Served(held, rejected)
        /\ send'.owner = send.owner /\ send'.batch = send.batch /\ send'.done = held \cup rejected
        /\ UNCHANGED <<mem, file, approved, gone, log, logFile>>
        /\ \/ send'.pc = "logging" /\ send'.log = log \cup ({send.owner} \X held)
           \/ send'.pc = "saving" /\ log \cup ({send.owner} \X held) = log
    BY <1>2, SubmittedIs
  <2>2. /\ send.owner \in Users /\ server' = server \cup ({send.owner} \X held)
        /\ \A i \in rejected : <<send.owner, i>> \notin server
    BY <2>1, ServedIs
  <2>3. /\ Attributed'
        /\ \A s \in server' : s \in log' \/ s[2] \in mem'.items \cup gone'
        /\ \A s \in server' : s \in logFile' \/ s[2] \in FileBox'.items \cup gone'
    BY <1>0, <2>1, <2>2, Taken
  <2>4. ASSUME NEW s \in server', s[2] \in send'.done PROVE s \in log \cup ({send.owner} \X held)
    <3>1. s \in Users \X Items /\ s[2] \in send.batch
      <4>1. server \subseteq Users \X Items /\ send.batch \in SUBSET Items
        BY <2>1, TypeParts, ServedIs DEF LogPart
      <4>2. QED
        BY <2>1, <2>2, <2>4, <4>1
    <3>2. s[1] = send.owner
      BY <2>1, <2>3, <3>1 DEF Attributed
    <3>3. s = <<send.owner, s[2]>>
      BY <3>1, <3>2
    <3>4. s[2] \notin rejected
      BY <2>2, <3>3
    <3>5. s[2] \in held
      BY <2>1, <2>4, <3>4
    <3>6. QED
      BY <3>3, <3>5
  <2>5. send'.pc = "logging" =>
          /\ \A s \in server' : s[2] \in send'.done => s \in send'.log
          /\ \A s \in server' : s \in send'.log \/ s[2] \in mem'.items \cup gone'
    BY <2>1, <2>3, <2>4
  <2>6. send'.pc = "saving" =>
          \A s \in server' : s[2] \in send'.done => s[2] \in gone' \/ s \in log' \cap logFile'
    BY <2>1, <2>4 DEF Unlogged
  <2>7. QED
    BY <2>3, <2>5, <2>6 DEF Noted, OnRecord
<1>3. QED
  BY <1>1, <1>2

(* The outbox in memory and its file become one box.                       *)
LEMMA OneBox ==
  ASSUME Types, flow # "launch", Unlogged, Noted, NEW b \in Boxes, \A i \in b.items : i \in mem.items, mem.owner \in {None, b.owner},
         mem' = b, FileBox' = b, UNCHANGED <<server, approved, gone, log, logFile>>,
         \A s \in server : s[2] \in mem.items \ b.items => s[2] \in gone \/ s \in log \cap logFile,
         \/ send' = send /\ b.items = mem.items /\ send.pc # "saving"
         \/ send'.batch = {} /\ send'.pc = "none"
         \/ send'.batch = b.items /\ send'.owner = b.owner /\ send'.pc = "submitting"
  PROVE  Noted'
<1>1. Same(b)
  BY SameOf DEF Noted
<1>2. Same(mem)' /\ Same(FileBox)'
  BY <1>1 DEF Same
<1>3. Attributed'
  <2>1. \A s \in server' : s[2] \in send'.batch => s[1] = send'.owner
    BY <1>2 DEF Same, Noted, Attributed
  <2>2. QED
    BY <1>2, <2>1 DEF Noted, Attributed
<1>4. OnRecord'
  <2>1. \A s \in server' : s \in log' \/ s[2] \in mem'.items \cup gone'
    BY DEF Noted, OnRecord
  <2>2. \A s \in server' : s \in logFile' \/ s[2] \in FileBox'.items \cup gone'
    BY <2>1 DEF Unlogged
  <2>3. send'.pc = "logging" => send' = send /\ b.items = mem.items
    OBVIOUS
  <2>4. send'.pc # "saving"
    OBVIOUS
  <2>5. send'.pc = "logging" =>
          /\ \A s \in server' : s[2] \in send'.done => s \in send'.log
          /\ \A s \in server' : s \in send'.log \/ s[2] \in mem'.items \cup gone'
    BY <2>3 DEF Noted, OnRecord
  <2>6. QED
    BY <2>1, <2>2, <2>4, <2>5 DEF OnRecord
<1>5. QED
  BY <1>3, <1>4 DEF Noted
(* Both stay, and an upload stays or ends.                                 *)
LEMMA SameBoth ==
  ASSUME flow # "launch", Noted, mem' = mem, FileBox' = FileBox, UNCHANGED <<server, approved, gone, log, logFile>>,
         send' = send \/ (send'.batch = {} /\ send'.pc = "none")
  PROVE  Noted'
<1>1. Attributed'
  BY DEF Noted, Attributed, Same
<1>2. OnRecord'
  BY DEF Noted, OnRecord
<1>3. QED
  BY <1>1, <1>2 DEF Noted
LEMMA NotedSaved ==
  ASSUME Types, AtLaunch, Orderly, Unlogged, Noted,
         NEW worked \in BOOLEAN, Adopted(worked) \/ Logged(worked) \/ SendSaved(worked)
  PROVE  Noted'
<1>0. flow # "launch"
  BY AdoptedIs, LoggedIs, SendSavedIs, SendTypes DEF AtLaunch
<1>1. CASE Logged(worked)
  <2>1. /\ send.pc = "logging" /\ UNCHANGED <<mem, file, server, approved, gone>>
        /\ worked => /\ log' = send.log /\ logFile' = send.log /\ send'.pc = "saving"
                     /\ send'.owner = send.owner /\ send'.batch = send.batch /\ send'.done = send.done
        /\ ~worked => send' = NoSend /\ UNCHANGED <<log, logFile>>
    BY <1>1, LoggedIs
  <2>2. FileBox' = FileBox
    BY <2>1 DEF FileBox
  <2>3. CASE worked
    <3>1. Attributed'
      BY <2>1, <2>2, <2>3 DEF Noted, Attributed, Same
    <3>2. mem.items \subseteq FileBox.items \cup gone
      BY DEF Orderly, Kept
    <3>3. OnRecord'
      BY <2>1, <2>2, <2>3, <3>2 DEF Noted, OnRecord
    <3>4. QED
      BY <3>1, <3>3 DEF Noted
  <2>4. CASE ~worked
    BY <1>0, <2>1, <2>2, <2>4, SendTypes, SameBoth
  <2>5. QED
    BY <2>3, <2>4
<1>2. CASE Adopted(worked) \/ SendSaved(worked)
  <2>1. /\ send.pc \in {"adopting", "saving"} /\ Writes("send", worked)
        /\ mem' = (IF worked THEN First.value ELSE mem)
        /\ UNCHANGED <<server, approved, gone, log, logFile>>
        /\ send' = NoSend \/ (worked /\ send.pc = "adopting" /\ send' = Submitting(First.value))
    BY <1>2, AdoptedIs, SendSavedIs DEF Things
  <2>2. /\ First.value \in Boxes /\ First.by = "send" /\ queue # <<>>
        /\ FileBox' = (IF worked THEN First.value ELSE FileBox)
    BY <2>1 DEF Writes, Takes
  <2>3. /\ First.value.items = (IF send.pc = "adopting" THEN mem.items ELSE mem.items \ send.done)
        /\ mem.owner \in {None, First.value.owner}
    BY <2>2 DEF Orderly, OneChange, Computed, First
  <2>4. \/ send'.batch = {} /\ send'.pc = "none"
        \/ worked /\ send'.batch = First.value.items /\ send'.owner = First.value.owner /\ send'.pc = "submitting"
    BY <2>1, <2>2, SendTypes
  <2>5. CASE worked
    <3>1. \A s \in server : s[2] \in mem.items \ First.value.items => s[2] \in gone \/ s \in log \cap logFile
      BY <2>1, <2>3 DEF Noted, OnRecord
    <3>2. (\A i \in First.value.items : i \in mem.items) /\ mem' = First.value /\ FileBox' = First.value
      BY <2>1, <2>2, <2>3, <2>5
    <3>3. PICK b \in Boxes : b = First.value
      BY <2>2
    <3>4. QED
      BY <1>0, <2>1, <2>3, <2>4, <3>1, <3>2, <3>3, OneBox
  <2>6. CASE ~worked
    BY <1>0, <2>1, <2>2, <2>4, <2>6, SameBoth
  <2>7. QED
    BY <2>5, <2>6
<1>3. QED
  BY <1>1, <1>2

(* What all of it was given up before: the boxes may be emptied.           *)
LEMMA GivenUp ==
  ASSUME Noted, mem' \in {mem, EmptyBox}, FileBox' \in {FileBox, EmptyBox}, approved \subseteq gone',
         UNCHANGED <<server, approved>>, send' = send
  PROVE  Noted'
<1>1. EmptyBox.items = {} /\ mem'.items \subseteq mem.items /\ FileBox'.items \subseteq FileBox.items
  BY BoxTypes
<1>2. (mem' = mem \/ mem'.items = {}) /\ (FileBox' = FileBox \/ FileBox'.items = {})
  BY <1>1
<1>3. Same(mem)' /\ Same(FileBox)'
  BY <1>2 DEF Noted, Attributed, Same
<1>4. Attributed'
  <2>1. \A i \in mem'.items \cap FileBox'.items : mem'.owner = FileBox'.owner
    BY <1>2 DEF Noted, Attributed
  <2>2. QED
    BY <1>3, <2>1 DEF Noted, Attributed
<1>5. \A s \in server' : s[2] \in gone'
  BY DEF Noted, Attributed
<1>6. OnRecord'
  BY <1>5 DEF Noted, OnRecord
<1>7. QED
  BY <1>4, <1>6 DEF Noted
LEMMA NotedOwning ==
  ASSUME Types, AtLaunch, Orderly, Unlogged, Noted, Owning PROVE Noted'
<1>1. ASSUME NEW worked \in BOOLEAN, AdoptEnds(worked) PROVE Noted'
  <2>1. /\ UNCHANGED <<send, server, approved, log, logFile>>
        /\ \/ Writes("resave", worked) /\ UNCHANGED <<mem, gone>>
           \/ /\ Writes("adopt", worked) /\ mem' = (IF worked THEN First.value ELSE mem)
              /\ gone' = IF mem.owner \in {None, mem'.owner} THEN gone ELSE gone \cup mem.items
    BY <1>1, AdoptEndsIs
  <2>2. PICK by \in {"resave", "adopt"} : Writes(by, worked) /\ (by = "resave" => UNCHANGED <<mem, gone>>)
          /\ (by = "adopt" => /\ mem' = (IF worked THEN First.value ELSE mem)
                              /\ gone' = IF mem.owner \in {None, mem'.owner} THEN gone ELSE gone \cup mem.items)
    BY <2>1
  <2>3. /\ First.by = by /\ queue # <<>> /\ FileBox' = (IF worked THEN First.value ELSE FileBox)
        /\ by \notin Items /\ by # "send" /\ First.value \in Boxes /\ mem \in Boxes /\ flow # "launch"
    BY <2>2, NamesAssumption DEF Writes, Takes, Types, TypeOK, AtLaunch
  <2>4. Computed(First) /\ send.pc \notin {"adopting", "saving"}
    BY <2>3 DEF Orderly, OneChange, First
  <2>5. \/ mem' = mem /\ FileBox' \in {FileBox, mem} /\ gone' = gone
        \/ mem' = First.value /\ mem'.items = mem.items /\ mem.owner \in {None, First.value.owner}
           /\ FileBox' = mem' /\ gone' = gone
        \/ mem'.items = {} /\ FileBox' = mem' /\ gone' = gone \cup mem.items
    BY <2>2, <2>3, <2>4 DEF Computed
  <2>6. CASE mem' = mem /\ FileBox' = FileBox /\ gone' = gone
    BY <2>1, <2>3, <2>6, SameBoth
  <2>7. CASE mem' = mem /\ FileBox' = mem /\ gone' = gone
    <3>1. PICK b \in Boxes : b = mem
      BY <2>3
    <3>2. QED
      BY <2>1, <2>3, <2>4, <2>7, <3>1, OneBox
  <2>8. CASE /\ mem' = First.value /\ mem'.items = mem.items /\ mem.owner \in {None, First.value.owner}
             /\ FileBox' = mem' /\ gone' = gone
    <3>1. PICK b \in Boxes : b = First.value
      BY <2>3
    <3>2. QED
      BY <2>1, <2>3, <2>4, <2>8, <3>1, OneBox
  <2>9. CASE mem'.items = {} /\ FileBox' = mem' /\ gone' = gone \cup mem.items
    <3>1. Attributed'
      BY <2>1, <2>9 DEF Noted, Attributed, Same
    <3>2. \A s \in server' : s \in log' \/ s[2] \in gone'
      BY <2>1, <2>3, <2>9 DEF Noted, OnRecord
    <3>3. \A s \in server' : s \in logFile' \/ s[2] \in gone'
      BY <2>1, <2>9, <3>2 DEF Unlogged
    <3>4. send.pc = "logging" => /\ \A s \in server : s[2] \in send.done => s \in send.log
                                 /\ \A s \in server : s \in send.log \/ s[2] \in gone'
      BY <2>9 DEF Noted, OnRecord
    <3>5. OnRecord'
      BY <2>1, <2>4, <3>2, <3>3, <3>4 DEF OnRecord
    <3>6. QED
      BY <3>1, <3>5 DEF Noted
  <2>10. QED
    BY <2>5, <2>6, <2>7, <2>8, <2>9
<1>2. CASE DeleteOutbox
  <2>1. mem' = EmptyBox /\ gone' = gone \cup approved /\ UNCHANGED <<file, send, server, approved>>
    BY <1>2, DeleteOutboxIs
  <2>2. FileBox' = FileBox
    BY <2>1 DEF FileBox
  <2>3. QED
    BY <2>1, <2>2, GivenUp
<1>3. ASSUME NEW worked \in BOOLEAN, OutboxDeleted(worked) \/ FilesDeleted(worked) PROVE Noted'
  <2>1. /\ flow \in Erasing /\ FileBox' \in {FileBox, EmptyBox}
        /\ UNCHANGED <<mem, send, server, approved, gone>>
    BY <1>3, OutboxDeletedIs, FilesDeletedIs DEF Things, Erasing
  <2>2. approved \subseteq gone
    BY <2>1 DEF Orderly, Kept
  <2>3. QED
    BY <2>1, <2>2, GivenUp
<1>4. QED
  BY <1>1, <1>2, <1>3 DEF Owning

(* A process that ends, and the launch that reads its files.               *)
LEMMA NotedLaunching ==
  ASSUME Types, AtLaunch, Noted, Loading \/ Ends PROVE Noted'
<1>1. CASE Ends
  <2>1. /\ mem'.items = {} /\ send'.batch = {} /\ send'.pc = "none" /\ flow' = "launch" /\ FileBox' = FileBox
        /\ UNCHANGED <<logFile, server, approved, gone>>
    BY <1>1, EndsIs, SendTypes, BoxTypes
  <2>2. Attributed'
    BY <2>1 DEF Noted, Attributed, Same
  <2>3. OnRecord'
    BY <2>1 DEF Noted, OnRecord
  <2>4. QED
    BY <2>2, <2>3 DEF Noted
<1>2. ASSUME NEW worked \in BOOLEAN, LoadFiles(worked) PROVE Noted'
  <2>1. /\ mem' \in {FileBox, EmptyBox}
        /\ FileBox' = FileBox \/ (FileBox' = EmptyBox /\ mem' = EmptyBox)
        /\ \/ log' = logFile /\ logFile' = logFile
           \/ log' = {} /\ logFile' \in {logFile, {}}
        /\ gone' = gone \cup (FileBox.items \ mem'.items) \cup {s[2] : s \in logFile \ log'}
        /\ UNCHANGED <<send, server, approved>>
    BY <1>2, LoadIs
  <2>2. send'.batch = {} /\ send'.pc = "none" /\ EmptyBox.items = {}
    BY <1>2, <2>1, LoadIs, SendTypes, BoxTypes DEF AtLaunch
  <2>3. Attributed'
    <3>1. (mem' = FileBox \/ mem'.items = {}) /\ (FileBox' = FileBox \/ FileBox'.items = {})
      BY <2>1, <2>2
    <3>2. Same(mem)' /\ Same(FileBox)'
      BY <2>1, <2>2, <3>1 DEF Noted, Attributed, Same
    <3>3. \A i \in mem'.items \cap FileBox'.items : mem'.owner = FileBox'.owner
      BY <3>1
    <3>4. QED
      BY <2>1, <2>2, <3>2, <3>3 DEF Noted, Attributed
  <2>4. \A s \in server : s \in logFile \/ s[2] \in FileBox.items \cup gone
    BY DEF Noted, OnRecord
  <2>5. \A s \in logFile : s \in log' \/ s[2] \in gone'
    BY <2>1
  <2>6. FileBox.items \subseteq mem'.items \cup gone' /\ gone \subseteq gone'
    BY <2>1
  <2>7. \A s \in server' : s \in log' \/ s[2] \in mem'.items \cup gone'
    BY <2>1, <2>4, <2>5, <2>6
  <2>8. \A s \in server' : s \in logFile' \/ s[2] \in FileBox'.items \cup gone'
    BY <2>1, <2>2, <2>7
  <2>9. QED
    BY <2>2, <2>3, <2>7, <2>8 DEF Noted, OnRecord
<1>3. QED
  BY <1>1, <1>2 DEF Loading

LEMMA RecordedStep ==
  ASSUME Types, AtLaunch, PoolIsItsOwners, CapturedFirst, Filed, Filed', Orderly, Recorded, [Next]_vars
  PROVE  Recorded'
<1>1. Noted /\ Unlogged /\ TypeOK
  BY DEF Recorded, Noted, Types
<1>2. CASE Quiet \/ Asking \/ UNCHANGED vars
  <2>1. UNCHANGED <<mem, file, send, Things>> /\ (flow' # "launch" => flow # "launch")
    BY <1>1, <1>2, QuietIs, AskingIs, StillLaunched DEF vars, outbox, history, world, sent, Things
  <2>2. QED
    BY <1>1, <2>1, NotedQuiet, UnloggedStep DEF Noted, Recorded
<1>3. ASSUME NEW i \in Items, Approve(i) PROVE Noted'
  BY <1>1, <1>3, NotedQuiet, ApproveIs
<1>4. CASE Flushing \/ Deciding \/ Sending \/ Owning \/ Loading \/ Ends
  <2>1. Noted'
    BY <1>1, <1>3, <1>4, NotedFlushing, NotedEnqueued, NotedServed, NotedSaved, NotedOwning, NotedLaunching
       DEF Deciding, Sending
  <2>2. QED
    BY <2>1, UnloggedStep DEF Noted, Recorded
<1>5. QED
  BY <1>2, <1>4, NextIs
LEMMA RecordedInit == Init => Recorded
<1> SUFFICES ASSUME Init PROVE Recorded
  OBVIOUS
<1>1. mem.items = {} /\ send.batch = {} /\ send.pc = "none" /\ server = {} /\ log = {} /\ logFile = {}
  BY SendTypes, BoxTypes DEF Init
<1>2. QED
  BY <1>1 DEF Recorded, Attributed, OnRecord, Unlogged, Same

-----------------------------------------------------------------------------
(* A change once computed while another was on its way is not forgotten.   *)
LEMMA RacedIs == ASSUME Types, raced, [Next]_vars PROVE raced'
<1>1. TypeOK /\ mem \in Boxes /\ user \in Account
  BY DEF Types, TypeOK
<1>2. \A q, by, b : SaveAfter(q, by, b) => raced'
  BY DEF SaveAfter
<1>3. CASE Quiet \/ UNCHANGED vars
  BY <1>3, QuietIs DEF vars, history
<1>4. CASE Asking
  BY <1>1, <1>2, <1>4, AskingIs, StartAdoptIs
<1>5. CASE Flushing
  <2>1. Flushed(mem, queue)
    BY <1>1, <1>5, FlushingIs, FlushIs
  <2>2. QED
    BY <2>1 DEF Flushed
<1>6. CASE Deciding
  <2>1. \A i \in Items : Approve(i) => raced'
    BY <1>2, ApproveIs
  <2>2. ASSUME NEW i \in Items, NEW worked \in BOOLEAN, Enqueued(i, worked) PROVE raced'
    BY <2>2, EnqueuedIs DEF Flushed
  <2>3. QED
    BY <1>6, <2>1, <2>2 DEF Deciding
<1>7. CASE Sending
  <2>1. \A worked \in BOOLEAN : Logged(worked) => raced'
    BY <1>2, LoggedIs
  <2>2. CASE \E held \in SUBSET send.batch : \E rejected \in SUBSET (send.batch \ held) : Submitted(held, rejected)
    BY <1>2, <2>2, SubmittedIs
  <2>3. QED
    BY <1>7, <2>1, <2>2, SubmitFailsIs, AdoptedIs, SendSavedIs DEF Sending
<1>8. CASE Owning \/ Loading \/ Ends
  BY <1>8, AdoptEndsIs, DeleteOutboxIs, OutboxDeletedIs, FilesDeletedIs, LoadIs, EndsIs DEF Owning, Loading
<1>9. QED
  BY <1>3, <1>4, <1>5, <1>6, <1>7, <1>8, NextIs

(* The invariant, from the start and in every step.                        *)
LEMMA InvInit == Init => IInv
BY TypesInit, FiledInit, OrderlyInit, RecordedInit DEF IInv
LEMMA InvStep == IInv /\ [Next]_vars => IInv'
<1> SUFFICES ASSUME IInv, [Next]_vars PROVE IInv'
  OBVIOUS
<1>1. Types /\ AtLaunch /\ PoolIsItsOwners /\ CapturedFirst /\ (misfiled \/ Filed) /\ (raced \/ Orderly)
  BY DEF IInv
<1>2. Types' /\ AtLaunch' /\ PoolIsItsOwners' /\ CapturedFirst'
  BY <1>1, TypesStep, CapturedStep
<1>3. ~misfiled' => Filed'
  BY <1>1, FiledStep
<1>4. ~raced' => Orderly'
  BY <1>1, OrderlyStep
<1>5. (~misfiled' => ~misfiled) /\ (~raced' => ~raced)
  <2>1. misfiled \in BOOLEAN /\ raced \in BOOLEAN /\ misfiled' \in BOOLEAN /\ raced' \in BOOLEAN
    BY <1>1, <1>2 DEF Types, TypeOK
  <2>2. ~misfiled' => ~misfiled
    <3>1. \A i \in Items : Approve(i) => misfiled' = (misfiled \/ NewBox(i).owner # user \/ OwnerOf[i] # user)
      BY DEF Approve
    <3>2. QED
      BY <1>1, <2>1, <3>1, MisfiledIs
  <2>3. ~raced' => ~raced
    BY <1>1, <2>1, RacedIs
  <2>4. QED
    BY <2>2, <2>3
<1>6. ASSUME ~raced', ~misfiled' PROVE Recorded'
  BY <1>1, <1>3, <1>5, <1>6, RecordedStep DEF IInv
<1>7. QED
  BY <1>2, <1>3, <1>4, <1>6 DEF IInv
LEMMA Invariance == Spec => []IInv
<1>1. QED
  BY InvInit, InvStep, PTL DEF Spec

(* Every variable keeps its type.                                          *)
THEOREM TypesHold == Spec => []TypeOK
<1>1. IInv => TypeOK
  BY DEF IInv, Types
<1>2. QED
  BY <1>1, Invariance, PTL

(* Under a live session the pool in memory holds only statements captured  *)
(* under that account, whatever sign-ins, sign-outs, restarts, unreadable  *)
(* files and refused removals of the pool's file came before, except while *)
(* a sign-in that replaced another session waits for that one's run of     *)
(* capture to end (engine.ts, signedInBy and the start-up's reading of the *)
(* saved pool).                                                            *)
THEOREM PoolStaysTheUsers == Spec => []PendingIsTheUsers
<1>1. IInv => PendingIsTheUsers
  BY DEF IInv, PoolIsItsOwners, PendingIsTheUsers, Waiting
<1>2. QED
  BY <1>1, Invariance, PTL

(* No statement reaches the server under another account than its own, so  *)
(* long as every approval was of the approver's own and went into an outbox*)
(* of the approver's: neither an adoption, nor an upload that outlives its *)
(* session, nor a crash between the two writes of one, nor a launch that   *)
(* cannot read a file can change whose it is (uploader.ts).                *)
THEOREM StaysWithItsAccount == Spec => []NeverToAnotherAccount
<1>1. IInv => NeverToAnotherAccount
  BY DEF IInv, Filed, NeverToAnotherAccount
<1>2. QED
  BY <1>1, Invariance, PTL

(* No approved statement is lost, whatever writes are refused and wherever *)
(* the process dies: it is in the outbox, on the server, refused for good, *)
(* was given up with its account, or was in a file that a launch could not *)
(* read; for outbox changes that never overlapped (uploader.ts, change,    *)
(* flush and adopt; jsonFile.ts, load).                                    *)
THEOREM NothingIsDropped == Spec => []NothingDropped
<1>1. IInv => NothingDropped
  BY DEF IInv, Orderly, Kept, Safe, NothingDropped, Box, FileBox
<1>2. QED
  BY <1>1, Invariance, PTL

(* The sent log names only what the server holds, and everything that it   *)
(* holds and the outbox no longer does, under the account it was sent as,  *)
(* or that account's data was given up, or a launch could not read one of  *)
(* the two files (sentLog.ts; flush writes the log before the outbox).     *)
THEOREM LogTellsTheTruth == Spec => []LogIsTrue
<1>1. IInv => LogIsTrue
  BY DEF IInv, Types, Logs, Recorded, OnRecord, LogIsTrue, Box, Record, FileBox
<1>2. QED
  BY <1>1, Invariance, PTL
=============================================================================
