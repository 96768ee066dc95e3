----------------------------- MODULE ReaderPort -----------------------------
(***************************************************************************)
(* What main may count on from a reader, whoever stands behind it          *)
(* (app/src/main/ports/reader.ts): a call that waits is answered, whatever *)
(* happens to the helper, and after dispose nothing waits.                 *)
(***************************************************************************)
CONSTANT Calls
VARIABLES waiting, disposed
port == <<waiting, disposed>>

Init == waiting = {} /\ disposed = FALSE

(* A call is made, and may end others: a read takes an earlier one's place.*)
Call(c) ==
  /\ ~disposed /\ c \notin waiting /\ UNCHANGED disposed
  /\ \E w \in SUBSET waiting : waiting' = w \cup {c}
Answered(c) ==
  /\ c \in waiting /\ UNCHANGED disposed
  /\ \E w \in SUBSET (waiting \ {c}) : waiting' = w
Dispose == disposed' = TRUE /\ waiting' = {}

Safety == Init /\ [][Dispose \/ \E c \in Calls : Call(c) \/ Answered(c)]_port
Spec   == Safety /\ \A c \in Calls : WF_port(Answered(c))
=============================================================================
