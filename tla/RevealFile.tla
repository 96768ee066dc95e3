------------------------------- MODULE RevealFile -------------------------------
(* The strips of text a revealing run prints travel from the bundle to the   *)
(* terminal through a file that nobody may find afterwards.  The bundle writes*)
(* only while the terminal's heartbeat is fresh; the terminal takes the file *)
(* by a rename, prints it and deletes it.  Each step here is one operation on*)
(* the disk: the two processes share nothing else.                           *)
EXTENDS EvalOptions

VARIABLES disk,       \* each name: None, or the strips in the file
          beat,       \* the heartbeat file: None, "fresh", "stale"
          stopped     \* the gate gave up
revealVars == <<disk, beat, stopped>>

RevealFileNames == <<"reveal", "partial", "claimed">>

RevealInit == /\ disk \in {[n \in ToSet(RevealFileNames) |-> IF n = "reveal" THEN left ELSE None] :
                           left \in {None, {"plain"}}}      \* of a run that was killed
              /\ beat = None /\ stopped = FALSE
RevealTypeOK == /\ disk \in [ToSet(RevealFileNames) -> (SUBSET Cases) \cup {None}]
                /\ beat \in {None, "fresh", "stale"} /\ stopped \in BOOLEAN

NoStrips == \A n \in DOMAIN disk : disk[n] = None
Gone(n) == disk' = [disk EXCEPT ![n] = None]

(* The terminal.                                                             *)
\* a slip: only this run's own files are removed
SweepNothing == UNCHANGED disk
SweepOrphans == disk' = [n \in DOMAIN disk |-> None]
Beat == beat' = "fresh" /\ UNCHANGED <<disk, stopped>>
Grows == beat = "fresh" /\ beat' = "stale" /\ UNCHANGED <<disk, stopped>>
Claim == /\ disk["reveal"] # None
         /\ disk' = [disk EXCEPT !["claimed"] = disk["reveal"], !["reveal"] = None]
         /\ UNCHANGED <<beat, stopped>>
RemoveClaimed == Gone("claimed") /\ UNCHANGED <<beat, stopped>>
ClearStep(i) == IF i <= Len(RevealFileNames)
                THEN Gone(RevealFileNames[i]) /\ UNCHANGED <<beat, stopped>>
                ELSE beat' = None /\ UNCHANGED <<disk, stopped>>
ClearAll == disk' = [n \in DOMAIN disk |-> None] /\ beat' = None /\ UNCHANGED stopped
Clearing == 1..(Len(RevealFileNames) + 1)

(* The bundle's gate.                                                        *)
Alive == beat = "fresh"
GateStops == ~Alive /\ stopped' = TRUE /\ UNCHANGED <<disk, beat>>
WritePartial(strips) == disk' = [disk EXCEPT !["partial"] = strips] /\ UNCHANGED <<beat, stopped>>
RenamePartial == /\ IF disk["partial"] = None THEN UNCHANGED disk
                    ELSE disk' = [disk EXCEPT !["reveal"] = disk["partial"], !["partial"] = None]
                 /\ UNCHANGED <<beat, stopped>>
RemoveStep(i) == Gone(RevealFileNames[i]) /\ UNCHANGED <<beat, stopped>>
================================================================================
