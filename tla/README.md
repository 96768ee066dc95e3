# A formal model of Clave Agent

Clave Agent reads the focused window with the operating system's text recognition, lets a local
language model write statements about what the user demonstrated, shows them for approval, and
uploads the approved ones to the user's profile. This directory models the parts of it that keep
state across awaits, callbacks, crashes and clock readings, checks them with TLC on small
instances, and proves their safety properties for every instance with TLAPS. Paths below are relative to the
repository; `main/` and `core/` stand for `app/src/main/` and `app/src/core/`.

## 1. The system

### Parts, their state and what they do

| Part | State | Operations | Hard because |
|---|---|---|---|
| Session store, `main/account/session.ts` | session in memory, its generation, a removal still owed, the refresh in flight, an encrypted file | `signIn`, `signOut`, `restore`, `refreshIfDue`, `withSession`, account request | each is a chain of awaits, and any other may run between two of them; one refresh is shared by all callers |
| JSON file, `main/storage/jsonFile.ts`, `nodeFs.ts` | a promise chain per file | `load`, `save`, `remove` | memory changes after the file; `load` is not queued; a write may be refused, the process may end |
| Outbox, `main/review/uploader.ts`, `sentLog.ts` | the owner's approved statements, backoff, the upload in flight, the sent log | `enqueue`, `flush`, `adoptOwner`, `resave`, `clear` | read-modify-write over an await; partial, lost and refused answers; the owner changes meanwhile |
| Pool of statements, `main/review/pool.ts`, `core/digest.ts` | statements waiting for a decision, whose they are | `restore`, `save`, `clear`; add, merge, list, resolve, turn of the day | belongs to one account across sign-outs, refused removals and restarts |
| Capture loop, `main/capture/loop.ts` | a run's generation, the cycle in progress, a round owed, recent failures, barren streak and its clock | `start`, `stop`, `trigger`, one cycle of three awaits | the window may change at every await; a call given up comes back in a later run |
| Pipeline, `core/index.ts`, `buffer.ts`, `scenarios/` | capture on/locked, screen text, the open scenario, the queue, the extraction in flight | `mayCapture`, `ingest`, `tick`, `signal`, `configure` | ends are dated back; text must leave in time; the machine sleeps |
| Engine, `main/engine.ts` | blockers, permission, pause, owner of the settings, storage problems, timers | start-up, sign-in, decisions, ticks, `evaluate`, `deleteAllData`, `quit` | composes all the others; several of its flows overlap |
| Reader client, `main/reader/readerClient.ts` | the helper process, its restarts, pending requests | spawn, request, time-out, restart, refresh | exits, planned restarts and requests race |
| Native helper, `app/native/reader/src/worker.rs`, `scheduler.rs` | a queue of jobs, one running, cancellation | read, cancel, budget of a read | threads |
| Model client and host, `main/model/client.ts`, `hostCore.ts` | host process, its generation, conversations | open, ask, close, reset | the host may die between any two messages |
| Model download, `main/model/download.ts` | partial file, state | start, resume, verify, remove all | a removal during a download |
| Settings, `main/settings.ts`; skill list, `main/account/taxonomy.ts` | one object and one file each | update, reset, refresh | overlapping updates |
| Google sign-in, `main/account/googleSignIn.ts` | the one attempt in progress | start, cancel | loopback answer races the cancellation |
| Digest, `core/digest.ts` | statements waiting for a decision, the day, how many were decided today | add, list, resolve, tick, export, import | merges, carried statements, midnights the app did not see |
| Window, `renderer/App.tsx`, `renderer/screens/` | the step shown, a copy of the settings | a button for each step | the copy is only as new as the last read; an update may be undone by another |
| Review prompt, `main/review/scheduler.ts` | the day already handled | check | two checks in one minute |
| Reader evaluation, `app/src/readerEval/`, `app/scripts/reader-eval.mjs` | two processes: options, heartbeat and a file of recognised text; cases, what was measured, a verdict | stage, recognise, read, reveal, judge | options parsed twice, in two languages; the front window changes at any moment; either process may be killed with the file on the disk |

How they interact: the engine owns all of them and calls them directly. The capture loop asks the
pipeline (`mayCapture`) before and hands it a read after (`ingest`); the pipeline's statements are
read by the engine, which puts approved ones into the outbox; the outbox asks the session store for
a session at the moment it sends; a change of the session, the skill list or the settings calls back
into the engine, which re-evaluates whether capture may run. Everything in the main process runs on
one thread, so a step of the models is what runs between two awaits; the reader and the model are
other processes, and their answers come in any order.

### What makes each part correct

- **Session store.** Work begun for one account is never finished under another; the file and
  memory agree on whose session it is; the newest token wins; no caller waits for ever.
- **Outbox and pool.** A statement goes to nobody's profile but its author's; an approved statement
  is never lost; what left is on record and nothing else is; what waits is sent.
- **Capture loop.** Only the text of a window that was approved, and still was in front after it was
  read, is kept; the reader is blamed for failures of the current run only; the app says that it
  reads nothing exactly when that is so; a change of window during a read is not forgotten.
- **Pipeline.** Scenarios do not overlap or run backwards; each read belongs to one; text leaves in
  time; nothing waits while the model is free.
- **Reader, model, download.** No helper, host or request is left behind; the client is not blamed for
  what it does itself; what is called ready is the model; everything begun ends.
- **Window.** Doing what each step asks ends with the app set up; the review list is as full as it may
  be, and what it carries over stays on it.
- **Reader evaluation.** It reads what it staged and nothing else; no strip of a toolbar outlives the
  run; a run is accepted only if it measured all it promises.
- **Engine.** Capture runs only while switched on and unblocked, under the live account's own
  choices; deletion deletes.

The full list of what is hard to test, line by line, with the properties that watch it, is under
`hazards` in `PROJECT.json`.

## 2. Modules

| Module | Models | Run |
|---|---|---|
| `JsonFile` | the queue of saves and removals of one file; a write lands whole or not at all | used by SessionStore, Outbox |
| `SessionStore` (+ `MCSessionStore`) | `session.ts`, every operation, await by await | `session_store`, `session_store_live` |
| `Outbox` (+ `MCOutbox`) | `uploader.ts`, `sentLog.ts`, `pool.ts`, as `engine.ts` drives them | `outbox`, `outbox_live` |
| `CaptureLoop` | `loop.ts`, with the engine's stop in the turn of a problem | `capture_loop` |
| `Pipeline` | `core/index.ts`, `buffer.ts`, `segmenter.ts`, and the engine's tick | `pipeline` |
| `CaptureGate` | `evaluate` of `engine.ts` and all that calls it; `settings.ts` | `capture_gate` |
| `ReaderClient`, `ReaderPort` | `readerClient.ts`; what main may rely on, abstractly | `reader_client` |
| `ModelClient` | `client.ts`, `hostCore.ts`, `extract.ts`, `selfTest.ts` together | `model_client` |
| `Download`, `ModelFile` | `download.ts`; what the engine and the window may rely on, abstractly | `download` |
| `Setup`, `Review`, `Window` | the window's steps over main's state; `digest.ts`; the two one after the other | `window` |
| `EvalOptions`, `RevealFile`, `ReaderEval` | both parsers; the file between the two processes; the run | `reader_eval` |
| `SessionStoreProofs`, `OutboxProofs`, `PipelineProofs`, `ReaderClientProofs`, `ReaderEvalProofs`, `WindowProofs` | the theorems about each, section 5 | |
| `CaptureProofs`, `ModelProofs` | those about `CaptureLoop` and `CaptureGate`, and about `ModelClient` and `Download` | |

`PROJECT.json` maps each definition to the lines it stands for. Definitions marked *a slip* are
plausible mistakes (a dropped guard, a missing reset, a swapped order); no action uses them. They
exist to show that each property fails when the code is wrong in that way.

### SessionStore

A call is one running operation; `pc[c]` names the await it is parked at, `since[c]` the generation
it captured, `with[c]` the session it holds. `refresh` is `inFlightRefresh`: started by the first
caller that needs it (`Start...`, `Join`), answered by the server, saved through the file's queue,
settled for all its waiters at once (`Settle`). A sign-in is parked at each of its four awaits: the
removal of a dead file, the server, the profile, its save. The queue is explicit: a save put in it lands later,
and may be refused. `Launch` ends the process at any moment and begins again from the file.
Left out: expiry arithmetic (whether a token is due is a choice), display names, listeners.
`RestoreFirst` says whether anything may run before `restore` ends; `engine.ts:570` awaits it, so
the instances and the theorems about accounts assume it, and the liveness run does not.

### Outbox

`mem` is the outbox in memory, `queue` the saves on their way, `file` what is on disk. A change
computes the new outbox from memory and saves it; memory follows when the save has landed. `send`
is the one upload in flight, at one of its awaits. `flow` is the engine's one long operation in
progress (start-up, sign-in, the tick's adoption, the deletion of all data), again by await; `ticking`
says whether the timers run. A sign-in makes the session the new user's in its first step; that the old
one's run of capture ends, that no save of the pool is under way, that its file is gone and that the
outbox is adopted are awaited one after the other (`heir` is who the pool waits for), with approvals,
uploads and sign-outs in between. The deletion of all data is taken apart in the same way. The server
may hold any part of a batch, refuse another part for good, and lose its answer. The process may end at
any step; one disk operation may be refused. A file that a launch cannot read counts as none, and is
deleted or stays where it is (`jsonFile.ts:46-63`); a removal that is refused at a launch throws out of
`createEngine`, and the process ends (`LaunchRefused`).
History variables record which statements were approved, which were discarded by design or were in a
file that no launch could read (`gone`), and two conditions: `raced` (a change was computed while another
was on its way) and `misfiled` (an approval by one account took a statement of another's, or went into
an outbox that was not the approver's). The properties that are conditional on them hold whenever
the condition did not arise; section 4 says what happens when it does.
Choices of the model: a pipeline that was just put in the place of a dropped one extracts nothing during
the two short awaits that follow, since it has read nothing yet; a statement that expires while it waits
leaves the pool as a rejected one does; a save of the pool is one step, as no other is let in between.

### CaptureLoop

`pc` is the await of the cycle: the front window, the read, the front window again. `mine` is the
generation the cycle belongs to; a cycle of an earlier run ends without effect. Time is abstract;
deadlines are a call's failure. A picture remembers which window it shows and in which run it was
taken, which the code cannot see and the property about it needs.

### Pipeline

The unit of time is the engine's tick. One step is one call; `ingest` reads the clock twice, at the
gate and after the scrub, and the second reading may be later. `due` keeps the ticks coming while
the machine is awake; under a lock, which `suspend` also raises, time may pass without any. What the
rules say of a window, whether its text differs from the last one and whether `compact` finds a
scenario thin are choices. The tick throws away what has waited too long: a filter in the code, here
the end of the queue from the first that has not (`Fresh`), since the queue is in order; that the two
are the same is a lemma. The failures that `CaptureLoop` forgets are treated alike (`Recent`).

### CaptureGate

`cur` is the settings in memory, `saves` the updates on their way, each with the value computed when
it was asked for; `disk` is the file. `evaluate` runs in one turn, so an action that calls it decides
in the same step whether the loop runs. Sign-ins are three awaits each, of two accounts at once. At a
launch the pool is nobody's until it has been read (`Started`), and the loop may run before that: the
skill list's answer evaluates (`engine.ts:577`) while the pool is awaited (`:581`).
Blockers that only call `evaluate` are one flag, `ready`. The condition of `ReadsByConsent` names the
crossings (two updates, two sign-ins, an update and an account change) under which the code does not
keep it (section 4).

### ReaderClient and ReaderPort

The source's helpers (`drain`, `tryPromote`, `noteExit`, ...) are operators from a state of the client
to the next; an action is one event: a line, an exit, a deadline, a call. Whether a planned restart is
due is a choice. `ReaderPort` says only that a call that waits is answered and that nothing waits after
`dispose`; `PortSpec` is the refinement.

### ModelClient

A conversation is a slot, one attempt of one user: the pipeline's extraction and the self-test, over
one host. Ids begin again with each host, which is what `RightConversation` is about. Of the limits
only the order matters: the users' are shorter than the client's, and that shorter than the idle wait.

### Download, ModelFile

A task waits at a named await; a file is its length and whether its bytes are the model's. The app may
end at any time and its files be overwritten while it is not running. `ModelFile` has the told state,
one task at a time, and whether the file is the model; `PortSpec` is the refinement, and `Setup` is
built on `ModelFile`.

### Setup, Review, Window

`Setup` is what a user sees from the first launch: the step, the window's copy of the settings with
its read on the way, the settings with their queue of saves, permission, extension, self-test, model.
`troubles` counts what goes wrong, each of any kind at any time; nobody starts the app again for the
user, a launch is one of the things that go wrong. `Review` is the digest: statements are
numbered as they are written, and of a text only its content words count. The list is computed as the code
computes it, by two sorts and three nested loops: `InTurn` puts statements at their places, `TakeAll` goes
through them, `Rounds` does so once for each place a target may have. They are recursive functions and
not folds of a library, so that they can be reasoned about. `saved` is the pool's file: decisions take
memory first and are saved later or, refused, not at all (`engine.ts:717-744`), and a launch begins with
what the file has and is not too old, or with nothing. `Window` runs one after the other: the first
statement is written once the app is set up and everything that may go wrong has.

### EvalOptions, RevealFile, ReaderEval

`EvalOptions` has both parsers: what is typed is judged by `reader-eval.mjs`, what reaches the bundle -
from there or set by hand - by `config.ts`. `RevealFile` is the disk the two processes share: a file,
its half-written and its claimed name, and the heartbeat, one operation a step. In `ReaderEval`, `tpc`
and `bpc` are where the terminal and the bundle stand; `rows` is what was measured of each case,
`approval` the window a case was recognised in, `shot` the window its text came from (the bundle cannot
see that; the helper compares it with the one it is told to expect). Choices of the model:

- a bundle built before `--not-secure` existed loses that option and writes an earlier schema; this is
  the hazard `typedNotSecure` (`reader-eval.mjs:1104`) is written for;
- a bundle is opened by hand only to reveal something, or with settings that are refused;
- kills and interruptions come only in runs that reveal, one in a run: the others share nothing on the
  disk but results. For the same reason the terminal's following of an observing run that reveals
  nothing is left out: it prints progress and changes nothing;
- the clean-up of an interrupted terminal is over before the bundle's next step outside its gate: it is
  four deletions in a row, and after a strip the bundle sleeps two seconds or waits for `pkill`;
- what a run that can never be accepted measures is fixed to its best case, since nothing depends on it;
- one case of each sort; 19 of 20 hosts is 1 of 1; the second, cached read changes no state.

## 3. What the runs check

| Run | Question | Bounds | States, time (2 workers) |
|---|---|---|---|
| `session_store` | accounts, tokens and the file under two operations at once, refused writes, restarts | 2 accounts, 2 calls, 2 generations, 3 tokens; symmetric | 135 k, 12 s |
| `session_store_live` | every operation ends | 1 account, 2 calls, restore racing the rest | 30 k, 25 s |
| `outbox` | whose statements are shown, sent, logged and kept | 2 accounts, a statement in flight that has no owner yet, another approved meanwhile, 2 turns, 1 fault | 1.25 M, 60 to 120 s |
| `outbox_live` | what waits is sent; whose the pool is when one live session replaces another and all data is deleted | 2 accounts, 1 statement, 1 turn, 1 fault | 37 k, 40 s |
| `capture_loop` | what is kept, who is blamed, what is announced, that owed rounds begin | 2 windows, limits of 2, 4 clock values, 4 generations | 694 k, 60 to 95 s |
| `pipeline` | scenarios, the queue and the age of text | ages 3, idle 2, away 1, cap 3, queue 1, clock 0..5, 2 reads | 2.0 M, 60 to 100 s |
| `capture_gate` | whether the loop runs as decided, and by whose choices | 2 accounts, 2 updates on their way, 2 turns of the user, 1 refused write | 430 k, 70 to 120 s |
| `reader_client` | no helper and no call left behind; the reader is not blamed for planned restarts; implements `ReaderPort` | 3 helpers alive, 2 calls, 2 exits tolerated | 31 k, 80 s |
| `model_client` | extraction and self-test over one host that may die | 2 users, 2 conversations on a host | 153 k, 95 s |
| `download` | what is called ready is the model; implements `ModelFile` | 2 chunks | 19 k, 8 s |
| `window` | setting up ends set up, or at the download's dead end; then the review list is full and keeps what it carries, across launches | 1 account, 2 updates, 2 troubles; 2 targets, 2 a day and a target, 3 statements, 2 days | 456 k, 130 to 200 s |
| `reader_eval` | what is read, what stays on the disk, what is accepted, that the run ends | one case of each sort, 2 repetitions, 2 attempts, limits 1 and 2, every typed option | 1.5 M, 125 to 155 s |

Why these bounds are enough. Two operations and two accounts are what a race needs: one begun for
the first, one that changes the account; a third only repeats the second. Two generations let a
sign-out and a sign-in both happen during a call; three tokens let a refresh overlap a sign-in.
In `outbox` two turns give every pair of sign-in, sign-out and end of the process from every initial
session, a fault is one refused write, removal or load at any step, and the launch after it shows what it
left. `outbox_live` has the turns that `outbox` has not: a sign-in over a live session and the
deletion of all data, one at a time; the theorems have any number of all of them. The loop's limits
of two are the least at which "in a row" and "within the window" mean anything, and four generations
let a late answer find two later runs. The pipeline's limits keep the order of the real ones
(away < idle < cap, and reads live as long as a capped scenario at least), the clock outlives the
oldest read by two ticks, and a queue of one overflows as soon as two scenarios wait. Two updates of
the settings can cross and two sign-ins overlap; a third finds the queue as the second does. A third
helper is one that drains while another serves and a third warms up, the most the client keeps by
design. Two conversations on a host are the least for ids to be mixed up, and two users for one to
find what the other left. A model of two chunks can be cut, resumed, whole and too long. Setting up
with two troubles meets every pair of them, and settings that a third would undo are those the second
left; one account is enough, as the steps and the self-test belong to the installation (with two of them
and without the review the run has 1.2 M states and passes too). Three statements and two targets fill a day and a target of two and leave one over; two
days have the one midnight, and with a limit of one day what is carried over may expire at any hour. In `reader_eval` two repetitions are the least at which one may fail and
another not, two attempts at which one is tried again, and limits of 1 and 2 cut a part, or do not and
still are a limit.

The properties, and what would break them:

- `WaitersHaveRefresh`, `CallsEnd`: a refresh settled for one waiter and not the others.
- `IdentityInv`, `RetryKeepsUser`: a sign-in that does not move the generation; it is the inductive
  invariant of the proofs, checked before it was proved.
- `TokenMovesForward`, in memory: a file queue that does not keep its order.
- `RestartFindsAccount`: a sign-in that takes memory without its file.
- `PendingIsTheUsers`: a pool restored without looking at its owner; a sign-in that takes the pool over
  with what is in it.
- `NeverToAnotherAccount`: an adoption that keeps another account's statements.
- `NothingDropped`: a sent batch that empties the outbox it was taken from.
- `LogIsTrue`: a refused log passed over; refused statements logged as sent.
- `OutboxDrains`: a backoff that never ends.
- `IngestsAllowedOnly`: checking that the window has not changed, and not whose picture came.
- `NoticeIsEarned`: the notice that nothing is read outliving its run, raised for an empty chair, or
  put off for ever by a clock ahead of time.
- `BlamedForThisRun`: failures kept from an earlier run.
- `OwedRoundsBegin`: a round forgotten, or left over for a later run.
- `SpansInOrder`: a scenario closed and left open; a kept read that is no activity.
- `QueueIsServed`: a resumed model that takes nothing up.
- `TextExpires`: text past its limit still waiting, or handed to the model after the machine slept.
- `GateInv`: a sign-out the gate does not hear of; a permission answer taken as it comes.
- `ReadsByConsent`: a stamp that makes another account's exclusions this one's.
- `CaptureFollows`: an answer like the last one that decides nothing, so that a missed decision stays.
- `ReaderInv`: a helper forgotten when its last call ends; a replacement put under a call; a late
  helper that does not hear that capture is off; exits counted without end.
- `OwnCuresAreFree`, `SupervisionGoesOn`: a helper that keeps its place until it has gone.
- `ReaderPort`'s `PortSpec`: a `dispose` that waits for what the helpers were asked.
- `HostInv`, `RunsEnd`: an open that comes to nothing and leaves the host unwatched; a retry too many,
  or without end.
- `RightConversation`: a close sent to whichever host is there.
- `FileInv`, `ModelFile`'s `PortSpec`, `TasksEnd`: a marker believed for another file; a file named the
  model by its length; a download tried again for ever.
- `SetupEnds`: a window that does not read again what it saved. Its two exceptions are the download's
  dead ends (section 4), which last until the app is started again; no other step may leave the user with
  nothing to do.
- `WindowInv`, `CarriedStays`: the day's list over-filled by a target; a merge that keeps both texts;
  today's statements before those carried over.
- `EvalInv`: its four parts fail if any staged window will do, if the front window is read whichever it
  is, if a judged run may reveal, if only this run's files are swept, if the bundle ends without a look
  at the disk.
- `AcceptedIsEarned`: an exit code that trusts the results alone; a strip not found counted as no badge;
  a run cut short judged by what it measured.
- `EvalEnds`: a helper waited for without a limit.

`TypeOK` is each module's one type invariant (`LoopTypeOK` and `DownloadTypeOK` where two modules have
their theorems in one); in the modules whose invariant is a conjunction with a
name (`GateInv`, `ReaderInv`, `HostInv`, `FileInv`, `WindowInv`, `EvalInv`) it is the first part. `Outbox`'s is
proved (`TypesHold`), and no run lists it.

Deadlock is checked but in `capture_gate`, `reader_client` and `model_client`: there the bounds on the
user's turns, on helpers and on conversations let a behaviour come to rest, as the program does when
nobody asks anything of it; what must go on is a liveness property of each.

Fairness. `SessionStore`: every started operation goes on; the server's requests have time limits
(`httpApi.ts`), so each gets some answer, a failure perhaps; disk operations settle, either way.
`Outbox`: the timers go on while they run; requests end; a disk and a server asked again and again
take the work some day (strong fairness on success: each refusal is retried by the tick, and the
bound on faults is not relied on for the server). `CaptureLoop`: a call of the reader answers, fails
or is given up at its deadline. `CaptureGate`: writes land or are refused, answers come back, timers
fire while they are set, a sign-in goes on. `ReaderClient`: deadlines pass, and a helper that was
killed goes. `ModelClient`: the users' own limits run out and what they await goes on. `Download`: the
disk and the server answer or fail. `ReaderEval`: both processes go on while they live, no failure is
due, nothing is assumed of the helper. `Setup` (`SetupFairness`) is the one that assumes something of the user: who is
asked for a step does it (`Helps`), and main and the system go on; without it no program ends its
set-up. That the app is started again is assumed nowhere. The runs of safety alone have no fairness.

## 4. Where the code and its comments part

Found while modelling, at these lines. The properties of the runs name, as a condition, the case they
leave out, so that all else about them is checked. Where a comment of the source says otherwise, and the
models can tell, the comment is stated as a property too, beside the others of its module, with a
configuration of its own that is meant to fail: it is not among the runs of `PROJECT.json`, and
`tlc -config OutboxOverlap.cfg MCOutbox`, say, ends within seconds with a behaviour of the code that
violates it. (`MCSessionStore`, `MCOutbox`, `CaptureGate` and `Download` are the modules.)

| Configuration | Property | What it finds |
|---|---|---|
| `SessionStoreStale.cfg` | `RefreshStaysWithIdentity` | `session.ts:60-62`. A sign-out whose steps fall into the save of a refresh (`:87-88`), behind the check at `:110`, is undone when the save ends |
| `SessionStoreRefused.cfg` | `RefusalIsOnesOwn` | `session.ts:183-184`, `:226`. A refresh of the old account that `refreshIfDue` begins while a sign-in is under way (`:202`) carries the new generation: its refusal signs the new account out |
| `OutboxShown.cfg` | `NothingOfThePreviousShown` | `engine.ts:629`. The session is the new user's (`session.ts:88`) while `engine.ts:631` awaits the end of the old run; the old user's statements are shown until then, and may be approved |
| `OutboxUploaded.cfg` | `NothingOfThePreviousUploaded` | `engine.ts:629`. A statement approved while the outbox changes hands (`uploader.ts:149`) is filed under the previous account and sent as that one's |
| `OutboxOverlap.cfg` | `NeverDroppedSilently` | `uploader.ts:13`. Of two approvals that overlap the later save overwrites the earlier (`:137-139`) |
| `OutboxLocked.cfg` | `LockedFileIsLeftAlone` | `jsonFile.ts:54`. The file is kept, but the outbox counts as empty, and the first save writes over it |
| `CaptureUnasked.cfg` | `OnlyIfStarted` | `copy.ts:10`. An exclusion changed right after capture was switched off is computed from settings that still have it on (`settings.ts:86`), and capture runs again |
| `CaptureForeign.cfg` | `ChoicesAreOnesOwn` | `engine.ts:423`. What a new user changes before the settings are stamped goes into the previous account's (`:770`) |
| `DownloadStuck.cfg` | `SaysWhatIsLeft` | `download.ts:51`, `:204-205`. A look whose hash the disk refuses (`:78`) ends with `verifying` told, where `start` (`:214`) returns at once and no button is shown (`Onboarding.tsx:185-186`) |

The rest:

Accounts and statements:

- `session.ts:158-160`: the token of a sign-in is issued before the profile is awaited; a refresh that
  starts and ends meanwhile saves a later token, which the sign-in replaces by its earlier one.
  `TokenMovesForward` makes an exception for that step only.
- A removal refused at a sign-out, and then the end of the process, brings the account back.
- `session.ts:220`: a call that starts while a sign-in is in flight captures the new generation with the
  old session, and is retried under the new account.
- `jsonFile.ts:46-63`: a sent log that cannot be read at a launch counts as empty, and is written over
  by the next upload.
- `engine.ts:804`: an approval, an upload or a fetch of the skill list in flight when all data is deleted
  writes its file again. A removal refused in the middle leaves timers and capture stopped until the
  next launch.
- `engine.ts:630`: overlapping sign-ins may leave the pool's owner the earlier account's.

Capture:

- `engine.ts:577`: at a launch the loop may run before the pool has been restored (`:581`); what it reads
  until then is nobody's. `ReadsByConsent` says so. A removal refused in the restore throws out of
  `createEngine` with the loop running, and the process ends.
- `engine.ts:837`: a removal refused in the middle of the deletion leaves a loop that may run at rest;
  `CaptureFollows` speaks of the time the timers run and does not see it.
- `settings.ts:86`: also a finished step of the set-up is undone in that way; `setCapture` answers ok
  though its save was refused, and ends a pause before its write has landed.
- Exclusions changed in a file without an owner after a refused stamp are adopted by the next account.
- A permission answer while the deletion waits for the loop to stop starts the loop again.
- `buffer.ts:30`: the text kept for comparison outlives the sixty minutes of `README.md:12`.
- An idle end is dated to the last gate, so a last read whose scrub crossed a millisecond is later than
  that end: no scenario takes it and it waits out the sixty minutes.

Review:

- `digest.ts:71`, `Review.tsx:72`, `engine.ts:715`: a statement may be merged between its being shown and
  its approval, and the text approved is then not the text read (`WHAT-LEAVES.md:25`).
- `digest.ts:49`: after a launch past midnight, statements that were not listed are carried over too, and
  may displace listed ones; a launch also forgets how many were decided today. Statements written between
  midnight and the next tick count as carried.
- `engine.ts:717`, `:727-728`, `:743-744`: a decision is saved after it was made. After a crash in between,
  or a refused save, the statement is shown again and takes its place again, which may displace a carried
  one; `CarriedStays` speaks of the launches that find in the file what was in memory.

Reader, model, download:

- A restart after the client gave up takes the last working helper away; `release` does not reach a
  draining helper, and a retired helper's late grant puts the token back.
- A host's late "opened" leaves a conversation open on it; `shutdown` rejects an extraction whose retry
  starts another host.
- `download.ts:219`: a removal across a look or a download leaves "ready" without a file, or a part
  behind: `FileInv` leaves that out (`disturbed`), and it is the second dead end of `SetupEnds`.
- `download.ts`: the body of an answer has no limit of its own; the model cuts it one chunk past the
  file's size, and `TasksEnd` speaks of servers that stop sending.

Window and evaluation:

- The window's settings are not read again after another account signs in; a lost update can undo a
  finished step, which the window then shows again.
- `reader-eval.mjs:1097`: a results file of a schema this terminal does not know, with `accepted` true,
  prints ACCEPTED after its warning, while the exit code is 2 (`:1175`).

The account request's save may be queued behind a refresh's, so that the file ends with the older
token; `TokenMovesForward` speaks of memory only.

## 5. What is proved

Every theorem follows one plan: an inductive invariant (`IInv`; `IdentityInv` and `FileInv` for the
session store, `LoopIndInv` for the capture loop, `FileIndInv` for the download, `WindowIndInv` for the
window), made of named parts, each with a comment; a lemma that the first state has it; for
each part, or for each action, a lemma that a step keeps it; and the theorems, which follow from it.
All were checked by TLC on the instances of section 3 before they were proved. All hold for every value of the constants
that the named assumptions allow, which are that `None` is nothing else, that bounds are numbers and
limits are not zero, and what is said below. The bounds on generations, faults, turns and the like are
constants too: the theorems hold whatever they are.

### SessionStore

| Theorem | States |
|---|---|
| `TypesHold` | `TypeOK` always |
| `WaitersAlwaysHaveRefresh` | a refresh is in flight exactly while some call waits for it |
| `IdentityInvariant` | `IdentityInv` is invariant |
| `RefreshStaysCurrent` | a refresh begun in a calm store, whose generation stands, is of the account in memory |
| `CallStaysCurrent` | the same of a call |
| `RetriesKeepTheirUser` | a call begun in a calm store is never made again under another account |
| `RestartsFindTheAccount` | `RestartFindsAccount`, even before the queue has run dry |
| `TokensMoveForward` | `TokenMovesForward` (save for a sign-in that awaited the profile) |

All but the first two assume `RestoreFirst`. *Calm* means that nobody was signing in; `session.ts:220`
in section 4 is why the condition is needed.

`CallIsCurrent` alone is not inductive: a retry takes its session from the refresh
that settled, so one must know that the refresh was of the same account (`RefreshIsTheCalls`), that
the refresh itself is current (`RefreshIsCurrent`), and that the account in memory cannot have
changed while the generation stood. Memory changes hands in a sign-in, which moves the generation
when it starts and takes memory when it ends: a calm call with an unmoved generation excludes one in
between (`NobodySigningIn`), a generation captured is never one to come (`GenerationsPassed`), and a
restore, the other writer of memory, runs alone (`RestoreIsAlone`). `SessionsHeld` says that whoever
needs a session has one, without which the types do not hold either.

`FileInv` adds the file. Every task on its queue is awaited by the one call, or the refresh, that queued
it (`TasksAwaited`); nobody is signed in until the file has been read (`ReadInTurn`). Memory follows the
file in all writes but one, the account request's, which lands even when the session it was for has
gone; so one must know that nothing of another account is queued before it (`FileIsTheAccounts`), and
that needs the same of the moment it was queued (`FillUndisturbed`). `TokensInOrder` says of the queue
what `TokenMovesForward` says of memory. A step is first reduced to what it does to the file and the
queue (`Step`): one of six things, of which each part is kept.

### Outbox

| Theorem | States |
|---|---|
| `TypesHold` | `TypeOK` always |
| `PoolStaysTheUsers` | `PendingIsTheUsers` (save in the first await of a sign-in over a live session) |
| `StaysWithItsAccount` | `NeverToAnotherAccount` (while nothing was misfiled) |
| `NothingIsDropped` | `NothingDropped` (while no two changes overlapped; what a launch could not read counts as gone) |
| `LogTellsTheTruth` | `LogIsTrue` (with the same two conditions) |

The invariant is in layers, each kept because those before it hold at both ends of the step. `Types`
says which tasks may be queued and by whom. `AtLaunch`: a launch has nothing in memory. `PoolIsItsOwners` is the pool, in memory and on disk, and
whose it is while a sign-in waits to hand it over (`heir`). `CapturedFirst`: a statement was captured
before it waits anywhere, and is none of those an older build left.
`Filed`, under `~misfiled`: every box, in memory, on disk and on its way, holds its owner's statements.
`Orderly`, under `~raced`: one change is on its way at most, and it was computed from the outbox that is
in memory still (`Computed`); and `Kept` says the same of the file as of memory, which is why the end of
the process at any step loses nothing
that the next launch can read. `Recorded` is the log, under both: whose
statements the server holds (`Attributed`), that what left is on record in memory and on disk
(`OnRecord`), and what memory's log has and the file's has not (`Unlogged`). The condition on `raced` is
needed: `OutboxOverlap.cfg` in section 4.
Beyond the bounds it is assumed that each statement has an author (`OwnerAssumption`) and that names of
statements and of operations differ (`NamesAssumption`).

### CaptureLoop

| Theorem | States |
|---|---|
| `TypeCorrect` | `LoopTypeOK` always, with the limits on what is remembered |
| `OnlyAllowedIsIngested` | `IngestsAllowedOnly` |
| `NoticesAreEarned` | `NoticeIsEarned` |
| `BlameIsForThisRun` | `BlamedForThisRun` |
| `OwedOnlyDuringACycle` | the safety half of `OwedRoundsBegin`: a round is owed only by a cycle of a loop that runs |

A cycle that waits is of the run going on, reads an allowed window, and holds a picture of this run
(`CycleIsOfThisRun`). The streak never counts more than the barren cycles since something was read
(`StreakIsCounted`), and its clock is neither ahead of the present nor behind that moment
(`ClockIsSound`). The failures remembered are in order (`FailuresInOrder`), so that those forgotten are
the first. Where a least element is needed, induction is taken in the form that a non-empty set of
numbers has one (`LeastNumber`).

### Pipeline

| Theorem | States |
|---|---|
| `TypesHold` | `TypeOK` always: the queue never outgrows its limit |
| `SpansStayInOrder` | `SpansInOrder` |
| `QueueStaysServed` | `QueueIsServed` |
| `TextLeavesInTime` | `TextExpires` |

An end is dated back to the last activity, the beginning of an absence or of a lock. `OpenIsLast`: each
of these lies between the opening of the scenario and now, and all earlier scenarios ended before the
opening; `ReadsAreOpen`: no read is later than any of them. `Line` is the order of the one under
extraction and those that wait. `ScenarioAssumption` says that a scenario is not `None`.

### CaptureGate

| Theorem | States |
|---|---|
| `LoopRunsAsWanted` | `GateInv` (the loop runs as decided while nothing has crossed) |
| `ScreenIsReadByConsent` | `ReadsByConsent` |

While nothing has crossed: a loop that runs is wanted; each write on its way was computed from the settings
in memory and says no more than its user may say of them (`WritesFit`); settings that are on are their
owner's word (`WordIsTheOwners`); what follows a sign-in follows the account's that is signed in
(`OneSignIn`). At a launch whose pool has not been read yet it is nobody's (`AheadOfPool`). After a
crossing only the types are claimed, as the code keeps no more (section 4).

### ReaderClient

| Theorem | States |
|---|---|
| `NoHelperIsLeftBehind` | `ReaderInv` |
| `OwnCuresDoNotCount` | `OwnCuresAreFree` |
| `SomeoneServesOrIsPlanned` | the safety half of `SupervisionGoesOn`: once begun a helper serves or a restart is planned, until the client gives up or ends |
| `ClientIsAReader` | every step of the client is a step of `ReaderPort` or none: the safety half of the refinement |

An action is composed of operators from one state of the client to the next, and the proof is too: each
operator has a lemma that says which helpers it leaves sound and which it does not (`Good`, and
`KnownBut` for those that have yet to hear whether capture is off), and each event is their composition.
One that drains has calls or is being sent away: this is what is broken and restored inside a step.

### ModelClient

| Theorem | States |
|---|---|
| `MessagesReachTheirOwn` | `RightConversation` |
| `HostIsKeptInHand` | `HostInv` |

Ids begin again with each host, so every id main still speaks of must have been given out by the host
that runs (`IdsAreOfThisHost`). `AskedOnce`, that a question is the only one of its conversation, turned
out to be needed: an answer to the first would leave a second whose user waits no longer. The
number of open conversations is the cardinality of those that live (`Counted`), which needs finitely
many users.

### Download

| Theorem | States |
|---|---|
| `ReadyFileIsTheModel` | `FileInv` |
| `DownloadImplementsModelFile` | `PortSpec`: `Download` implements `ModelFile` |

For a model of any length. A verdict on a file holds until the task has acted on it (`LookVerdict`,
`LoadVerdict`), a marker vouches for the file it names (`MarkerVouches`), the part on disk is no longer than what was
received (`Extent`, needed where the length alone decides that a part is whole), and what is told fits
the task (`ToldByTask`). `ModelFile` is without fairness, so the refinement is proved whole: the first
state is one of its first states and every step is one of its steps or none.

### Window

| Theorem | States |
|---|---|
| `DayIsFull` | `WindowInv`: the types, and that the day's list is as full as it may be, and fair |
| `CarriedOverStays` | `CarriedStays` |

For any limits of the day and of a target, any number of days, statements and words. What a loop of `view`
computes is stated once, as lemmas: `InTurn` is all of what it sorts, in order (`InTurnIsAll`: each
statement's place is its own, and a set is as large as its places are many); a list that is being filled
stays within its limits and only grows, and whoever is not taken was refused by a list that held only
what came before (`TakeAllDoes`, `RoundsDo`). `ViewDoes` puts them together, and `ListIsFull` follows from
it: a statement of today's whose target has none was refused in the first round, so the list was full
then, and no target had its second. Each loop is an induction over the numbers of its rounds, taken as a
statement about sets of numbers (`StepByStep`).

The invariant adds what the list cannot say: what was decided today and what waits are together no more
than what was written, and the numbers of the statements are in the order of their days. The same holds
of the pool in its file, with nothing decided (`SavedInv`), as a launch takes it from there. The order is
what `CarriedStays` needs: what comes before a carried statement was carried over too, so it was on the
list before, and a list that had a place for all of them has one for what is left (`NotRefused`); a
decision takes one place of the day and one statement off the list. The types of `Setup` hold for any
number of updates in the queue and of troubles.

### ReaderEval

| Theorem | States |
|---|---|
| `EvalIsSound` | `EvalInv`: what is read is what was staged, no strip outlives the run, nothing is left behind |
| `AcceptedOnlyIfEarned` | `AcceptedIsEarned` |
| `ParsersAgree` | what the terminal lets through is what the bundle accepts, for every combination of options |

For any limits, repetitions, attempts and sets of windows to observe. The parts of the invariant:
`Places` says where the two processes can be, one relative to the other; `Options`, that the bundle's
settings are those the terminal let through; `InHand`, what is known of the window that is staged;
`Counts`, that what is still to be staged is the rest of the plan, and that each case has been read as
often as the part of the plan that is done says; `Rows` and `Verdict`, what was measured and what was
said of it; `Strips`, the disk. A verdict is earned only because nothing is judged before the plan is
done, so it needs `Counts`; and the disk is clean at the end only because whoever is interrupted in its
deletions has done those before (`GoneBefore`) and the gate that has given up writes no more
(`GateShuts`), wherever the other process was when one of them was killed. It is assumed that `None` is
none of the values, that repetitions, attempts and the least number of hosts are not zero, and that
what is expected are windows to observe.

### What is only model-checked

- Liveness: `CallsEnd`, `OutboxDrains`, `OwedRoundsBegin`, `CaptureFollows`, `SupervisionGoesOn`,
  `RunsEnd`, `TasksEnd`, `SetupEnds`, `EvalEnds`, and the fair half of `ReaderPort`. The proof system
  here does not reason about fairness; the safety halves of two of them are proved.

Every other property of the runs is a theorem. Sorting and selection by the library's operators stay out
of reach (the provers cannot expand them), which is why `Review` and `Settings` of `ReaderEval` are
written without them; the actions are those of the code either way.

## 6. What is left

1. That a step of setting up, once finished, is shown again only after an update was lost or an account
   left.
2. A model of the helper's threads (`worker.rs`, `scheduler.rs`), over the same calls as `ReaderClient`.

## 7. Not modelled

The text rules (exclusions, scrub, guard, candidate skills, prompts, and the evaluation's scores):
regular expressions, word lists and edit distances, whose verdicts are choices in the models. The
native helper's queue and its threads, and its platform bindings (Wayland, AppKit, Vision, WinRT):
their answers, exits and silences are inputs of `ReaderClient` and `CaptureLoop`. The skill list, the
Google sign-in, the review prompt and the power guard: one comparison or one request each, inputs of
the modules above. The tray, the IPC wiring, the log, the other screens and all wording: no state the
properties are about. The packaging scripts: build steps in a line. The server: any answer its
interface allows.
