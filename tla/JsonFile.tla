------------------------------ MODULE JsonFile ------------------------------
(***************************************************************************)
(* One JSON document on disk, as app/src/main/storage/jsonFile.ts keeps    *)
(* it: saves and removals of one file queue behind one another, each       *)
(* either takes effect whole or leaves the file as it was (a temporary     *)
(* file and a rename), and its caller resumes in the step that ends it.    *)
(* A load is not queued.                                                   *)
(***************************************************************************)
EXTENDS Sequences

CONSTANT None        \* no document, no session, nothing

SaveTask(by, v)  == [kind |-> "save", by |-> by, value |-> v]
RemoveTask(by)   == [kind |-> "remove", by |-> by, value |-> None]

TasksOf(Callers, Values) ==
  [kind : {"save", "remove"}, by : Callers, value : Values \cup {None}]

(* What the file holds once a task that worked is over. *)
After(task) == IF task.kind = "save" THEN task.value ELSE None

(* What the file holds once a task is over: a refused write or removal     *)
(* (no cipher, a full disk, no permission) changes nothing.                *)
FileAfter(file, task, worked) == IF worked THEN After(task) ELSE file
=============================================================================
