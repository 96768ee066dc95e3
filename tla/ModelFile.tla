----------------------------- MODULE ModelFile -----------------------------
(***************************************************************************)
(* What the download of the model promises the engine and the window       *)
(* (app/src/main/model/download.ts, interface Downloader): one look or one *)
(* load at a time, the states it goes through, and whether the file it     *)
(* speaks of is the model.  Download implements it.                        *)
(***************************************************************************)
VARIABLES
  state,                   \* what is told
  busy,                    \* "look" or "load" while one is in progress
  whole,                   \* the file under the model's name is the model
  removing, disturbed      \* a removal is in progress; one has met a task or been refused since launch
fileVars == <<state, busy, whole, removing, disturbed>>

FileInit == state = "missing" /\ busy = "look" /\ whole = FALSE /\ removing = FALSE /\ disturbed = FALSE

(* A task goes on, or ends, with what is told then.                        *)
Tells(task, from, to) == busy = task /\ state \in from /\ state' = to /\ UNCHANGED <<whole, removing, disturbed>>
GoesOn == UNCHANGED busy
IsOver == busy' = "no"

Looks ==
  \/ Tells("look", {"missing"}, "verifying") /\ GoesOn
  \/ Tells("look", {"missing"}, "partial") /\ IsOver
  \/ Tells("look", {"missing"}, "missing") /\ IsOver
  \/ Tells("look", {"verifying", "missing"}, "ready") /\ (whole \/ disturbed) /\ IsOver
  \/ Tells("look", {"verifying", "missing"}, "missing") /\ (~whole \/ disturbed) /\ IsOver
LookRefused == busy = "look" /\ IsOver /\ UNCHANGED <<state, whole, removing, disturbed>>
Begins ==
  /\ busy = "no" /\ state \notin {"downloading", "verifying", "ready"} /\ busy' = "load"
  /\ disturbed' \in {disturbed, disturbed \/ removing} /\ UNCHANGED <<state, whole, removing>>
Begun == {"missing", "partial", "error", "downloading"}
Loads ==
  \/ Tells("load", Begun, "downloading") /\ GoesOn
  \/ Tells("load", Begun, "verifying") /\ GoesOn
  \/ Tells("load", {"verifying", "missing"}, "ready") /\ (whole \/ disturbed) /\ IsOver
  \/ busy = "load" /\ state \in {"verifying", "missing"} /\ whole' = TRUE /\ UNCHANGED <<state, busy, removing, disturbed>>
LoadStops ==
  \/ busy = "load" /\ Tells("load", {state}, "error") /\ IsOver
  \/ Tells("load", {"downloading", "missing"}, "partial") /\ IsOver

(* A removal: the file, later what is told.                                *)
RemovalBegins ==
  /\ ~removing /\ removing' = TRUE /\ disturbed' = (disturbed \/ busy # "no") /\ UNCHANGED <<state, busy, whole>>
FileGoes == whole /\ whole' = FALSE /\ removing /\ UNCHANGED <<state, busy, removing, disturbed>>
RemovalIsOver == removing /\ removing' = FALSE /\ state' = "missing" /\ UNCHANGED <<busy, whole, disturbed>>
RemovalRefused == removing /\ removing' = FALSE /\ disturbed' = TRUE /\ UNCHANGED <<state, busy, whole>>

(* A launch tells nothing yet; what is on disk may have been overwritten.  *)
Launches ==
  /\ state' = "missing" /\ busy' = "look" /\ removing' = FALSE /\ disturbed' = FALSE /\ whole' \in {whole, FALSE}

FileNext ==
  \/ Looks \/ LookRefused \/ Begins \/ Loads \/ LoadStops
  \/ RemovalBegins \/ FileGoes \/ RemovalIsOver \/ RemovalRefused \/ Launches
FileSpec == FileInit /\ [][FileNext]_fileVars
=============================================================================
