----------------------------- MODULE Download -----------------------------
(***************************************************************************)
(* The download of the model (app/src/main/model/download.ts and           *)
(* nodeDownload.ts): the look at the disk at launch and a download, which  *)
(* hold one lock; the pause; the removal of all files, which takes no      *)
(* lock.                                                                   *)
(*                                                                         *)
(* Every wait for the disk or the server is a step of its own, named by    *)
(* what is waited for.  A file is its length and whether its bytes are the *)
(* model's.  The marker is "fresh" when it names the length and time of    *)
(* the file as it is.  The server answers with any status and any bytes,   *)
(* too few or too many; any wait for the disk may be refused; the app may  *)
(* end at any time, and its files be changed while it is not running.      *)
(* Bounds: the model is Size chunks long, and one chunk too many is as     *)
(* good as any number: a server that sends more is taken to have ended or  *)
(* broken off, which the code waits for without a bound of its own.        *)
(***************************************************************************)
EXTENDS Naturals

CONSTANT Size
ASSUME SizeAssumption == Size \in Nat \ {0}

VARIABLES
  state,                          \* what the window and the engine are told
  task, fresh, abort, received, held,  \* the look or the download in progress
  removal,                        \* the file being removed, if one is
  part, sound, final, marker,     \* the disk
  disturbed                       \* since launch, a removal overlapped a task or was refused
own  == <<state, task, fresh, abort, received, held, removal>>
disk == <<part, sound, final, marker>>
downloadVars == <<own, disk, disturbed>>

LookTasks == {"lookFinal", "lookMarker", "hashFinal", "markFinal", "dropFinal", "dropMarker", "lookPart"}
LoadTasks == {"sizePart", "space", "get", "clear", "stream", "append", "paused", "sizeFull", "dropShort", "dropLong",
              "hash", "dropBad", "rename", "mark"}

DownloadTypeOK ==
  /\ state \in {"missing", "partial", "downloading", "verifying", "ready", "error"}
  /\ task \in LookTasks \cup LoadTasks \cup {"none"}
  /\ fresh \in BOOLEAN /\ held \in BOOLEAN /\ sound \in BOOLEAN /\ disturbed \in BOOLEAN
  /\ abort \in {"none", "armed", "aborted"} /\ (abort # "none" => task \in {"get", "clear", "stream", "append"})
  /\ received \in 0..(Size + 1) /\ part \in 0..(Size + 1)
  /\ removal \in {"none", "part", "final", "marker"}
  /\ final \in {"none", "good", "bad"} /\ marker \in {"none", "fresh", "stale"}

Launched ==
  /\ state' = "missing" /\ task' = "lookFinal" /\ fresh' = TRUE /\ abort' = "none" /\ received' = 0 /\ held' = FALSE
  /\ removal' = "none" /\ disturbed' = FALSE
DownloadInit ==
  /\ state = "missing" /\ task = "lookFinal" /\ fresh = TRUE /\ abort = "none" /\ received = 0 /\ held = FALSE
  /\ removal = "none" /\ disturbed = FALSE
  /\ part = 0 /\ sound = TRUE /\ final = "none" /\ marker = "none"

(* The task waits for `to` next; or ends, leaving a state.                 *)
On(from, to) == task = from /\ task' = to /\ UNCHANGED <<fresh, abort, removal, disturbed>>
Moves(from, to) == On(from, to) /\ UNCHANGED <<state, received, held>>
Leaves(from, left) == On(from, "none") /\ state' = left /\ UNCHANGED <<received, held>>
Verifies(from, to, whole) == On(from, to) /\ state' = "verifying" /\ held' = whole /\ UNCHANGED <<received, disk>>
Outdated == IF marker = "none" THEN "none" ELSE "stale"
-----------------------------------------------------------------------------
(* The look at the disk (inspect).                                         *)
VouchesAnyway == marker # "none" /\ final # "none"    \* a slip: whatever length and time it names
Vouches == marker = "fresh" /\ final # "none"
LookFinal == Moves("lookFinal", IF final = "none" THEN "lookPart" ELSE "lookMarker") /\ UNCHANGED disk
LookMarker ==
  \/ Vouches /\ Leaves("lookMarker", "ready") /\ UNCHANGED disk
  \/ ~Vouches /\ Verifies("lookMarker", "hashFinal", final = "good")
HashFinal == Moves("hashFinal", IF held THEN "markFinal" ELSE "dropFinal") /\ UNCHANGED disk
WriteMarker == marker' \in {marker, IF final = "none" THEN "stale" ELSE "fresh"} /\ UNCHANGED <<part, sound, final>>
MarkFinal == Leaves("markFinal", "ready") /\ WriteMarker
DropFinal == Moves("dropFinal", "dropMarker") /\ final' = "none" /\ marker' = Outdated /\ UNCHANGED <<part, sound>>
DropMarker == Leaves("dropMarker", "missing") /\ marker' = "none" /\ UNCHANGED <<part, sound, final>>
LookPart == Leaves("lookPart", IF part > 0 THEN "partial" ELSE "missing") /\ UNCHANGED disk
(* A refused look leaves the state as it was.                              *)
LookFails == task \in LookTasks \ {"markFinal"} /\ Moves(task, "none") /\ UNCHANGED disk
Look == LookFinal \/ LookMarker \/ HashFinal \/ MarkFinal \/ DropFinal \/ DropMarker \/ LookPart \/ LookFails
-----------------------------------------------------------------------------
(* The download (start, run, download, finishPart).                        *)
Start ==
  /\ task = "none" /\ state \notin {"downloading", "verifying", "ready"}
  /\ task' = "sizePart" /\ fresh' = TRUE /\ disturbed' = (disturbed \/ removal # "none")
  /\ UNCHANGED <<state, abort, received, held, removal, disk>>
SizePart ==
  /\ On("sizePart", IF part >= Size THEN "sizeFull" ELSE "space") /\ received' = part
  /\ UNCHANGED <<state, held, disk>>
Space ==
  \/ Leaves("space", "error") /\ UNCHANGED disk
  \/ /\ task = "space" /\ task' = "get" /\ abort' = "armed" /\ state' = "downloading"
     /\ UNCHANGED <<fresh, received, held, removal, disturbed, disk>>
Answered(status) ==
  /\ task = "get" /\ abort = "armed"
  /\ IF status = 416 THEN task' = "sizeFull" /\ abort' = "none"
     ELSE task' = (IF status = 200 /\ received > 0 THEN "clear" ELSE "stream") /\ UNCHANGED abort
  /\ UNCHANGED <<state, fresh, received, held, removal, disturbed, disk>>
Clear ==
  /\ On("clear", "stream") /\ received' = 0 /\ part' = 0 /\ sound' = TRUE
  /\ UNCHANGED <<state, held, final, marker>>
Chunk == abort = "armed" /\ received <= Size /\ Moves("stream", "append") /\ UNCHANGED disk
(* The chunk begins where the answer does; what is on disk may end         *)
(* elsewhere by then.                                                      *)
Appended(good) ==
  /\ On("append", "stream") /\ received' = received + 1
  /\ part' = part + 1 /\ sound' = ((part = 0 \/ sound) /\ good /\ part = received)
  /\ UNCHANGED <<state, held, final, marker>>
StreamEnds ==
  /\ task = "stream" /\ task' = "sizeFull" /\ abort' = "none"
  /\ UNCHANGED <<state, fresh, received, held, removal, disturbed, disk>>
BreaksArmed ==                                        \* a slip: the controller of a broken download is kept
  /\ task \in {"get", "clear", "stream", "append"} /\ UNCHANGED abort
  /\ IF abort = "aborted" THEN task' = "paused" /\ UNCHANGED state ELSE task' = "none" /\ state' = "error"
  /\ UNCHANGED <<fresh, received, held, removal, disturbed, disk>>
Breaks ==
  /\ task \in {"get", "clear", "stream", "append"} /\ abort' = "none"
  /\ IF abort = "aborted" THEN task' = "paused" /\ UNCHANGED state ELSE task' = "none" /\ state' = "error"
  /\ UNCHANGED <<fresh, received, held, removal, disturbed, disk>>
Paused == Leaves("paused", "partial") /\ UNCHANGED disk

Unhashed == Moves("sizeFull", "rename") /\ UNCHANGED disk  \* a slip: the right length is the model
Hashing == Verifies("sizeFull", "hash", part > 0 /\ sound)
SizeFull ==
  \/ part = Size /\ Hashing
  \/ part # Size /\ Moves("sizeFull", IF part > Size THEN "dropLong" ELSE "dropShort") /\ UNCHANGED disk
Dropped == part' = 0 /\ sound' = TRUE /\ UNCHANGED <<final, marker>>
DropShort == Leaves("dropShort", "error") /\ Dropped
DropLongAgain ==                                      \* a slip: as often as it takes
  task = "dropLong" /\ task' = "sizePart" /\ Dropped /\ UNCHANGED <<state, fresh, abort, received, held, removal, disturbed>>
DropLong ==
  \/ ~fresh /\ Leaves("dropLong", "error") /\ Dropped
  \/ /\ fresh /\ task = "dropLong" /\ task' = "sizePart" /\ fresh' = FALSE
     /\ Dropped /\ UNCHANGED <<state, abort, received, held, removal, disturbed>>
Hash == Moves("hash", IF held THEN "rename" ELSE "dropBad") /\ UNCHANGED disk
DropBad == Leaves("dropBad", "error") /\ Dropped
Rename ==
  /\ part > 0 /\ Moves("rename", "mark")
  /\ final' = (IF sound /\ part = Size THEN "good" ELSE "bad") /\ marker' = Outdated /\ part' = 0 /\ sound' = TRUE
Mark == Leaves("mark", "ready") /\ WriteMarker
(* What the disk refuses, and what is not there to be renamed.             *)
LoadFails ==
  /\ task \in {"sizePart", "space", "paused", "sizeFull", "dropShort", "dropLong", "hash", "dropBad", "rename"}
  /\ Leaves(task, "error") /\ UNCHANGED disk
Load ==
  \/ SizePart \/ Space \/ \E status \in {200, 206, 416} : Answered(status)
  \/ Clear \/ Chunk \/ (\E good \in BOOLEAN : Appended(good)) \/ StreamEnds \/ Breaks \/ Paused
  \/ SizeFull \/ DropShort \/ DropLong \/ Hash \/ DropBad \/ Rename \/ Mark \/ LoadFails
-----------------------------------------------------------------------------
Aborted == IF abort = "armed" THEN "aborted" ELSE abort
Pause == abort = "armed" /\ abort' = Aborted /\ UNCHANGED <<state, task, fresh, received, held, removal, disk, disturbed>>

(* removeAll: the part, the file, its marker; then the state.              *)
RemoveAll ==
  /\ removal = "none" /\ removal' = "part" /\ abort' = Aborted /\ disturbed' = (disturbed \/ task # "none")
  /\ UNCHANGED <<state, task, fresh, received, held, disk>>
Remove ==
  /\ removal # "none"
  /\ CASE removal = "part" -> removal' = "final" /\ part' = 0 /\ sound' = TRUE /\ UNCHANGED <<state, final, marker>>
       [] removal = "final" -> removal' = "marker" /\ final' = "none" /\ marker' = Outdated /\ UNCHANGED <<state, part, sound>>
       [] OTHER -> removal' = "none" /\ marker' = "none" /\ state' = "missing" /\ UNCHANGED <<part, sound, final>>
  /\ UNCHANGED <<task, fresh, abort, received, held, disturbed>>
RemovalFails ==
  /\ removal # "none" /\ removal' = "none" /\ disturbed' = TRUE
  /\ UNCHANGED <<state, task, fresh, abort, received, held, disk>>

(* The app ends anywhere and is launched again; meanwhile a file may be    *)
(* overwritten, which its time shows.                                      *)
Relaunch ==
  /\ Launched /\ UNCHANGED part
  /\ sound' \in {sound, FALSE}
  /\ \/ UNCHANGED <<final, marker>>
     \/ final # "none" /\ final' = "bad" /\ marker' = Outdated

DownloadNext == Look \/ Start \/ Load \/ Pause \/ RemoveAll \/ Remove \/ RemovalFails \/ Relaunch
DownloadSpec == DownloadInit /\ [][DownloadNext]_downloadVars
(* The disk and the server answer or fail.                                 *)
FairDownload == DownloadSpec /\ WF_downloadVars(Look \/ Load) /\ WF_downloadVars(Remove)
-----------------------------------------------------------------------------
(* "A file that has not been verified is never exposed": what is called    *)
(* ready is the model, whole, however it came to be on disk.  Not so once  *)
(* a removal has crossed a look or a download, or stopped half way.        *)
ReadyIsWhole == state = "ready" /\ removal = "none" /\ ~disturbed => final = "good"

FileInv == DownloadTypeOK /\ ReadyIsWhole

(* The engine and the window see no more of all this than ModelFile says:  *)
(* what is told, one task at a time, and a file that is the model; and the *)
(* file gets its name only after its bytes were found to be the model's,   *)
(* even while everything is being removed.                                 *)
Port == INSTANCE ModelFile WITH
  busy <- (IF task \in LookTasks THEN "look" ELSE IF task \in LoadTasks THEN "load" ELSE "no"),
  whole <- final = "good", removing <- removal # "none"
PortSpec == Port!FileSpec /\ [][Rename => final' = "good"]_downloadVars

(* By the time nobody looks or loads any more, the state says what came of *)
(* it and what is left to be done (download.ts:51, :204-205), so that a    *)
(* start has something to go by.                                           *)
SaysWhatIsLeft == task = "none" => state \notin {"downloading", "verifying"}

(* A look and a download end, and the lock with them, whatever the server  *)
(* sends, as long as it stops sending; unless the app never stops being    *)
(* launched.                                                               *)
TasksEnd == []<><<Relaunch>>_downloadVars \/ (task # "none" ~> task = "none")
=============================================================================
