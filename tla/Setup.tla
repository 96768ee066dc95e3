------------------------------- MODULE Setup -------------------------------
(***************************************************************************)
(* Setting the app up: the window's steps (app/src/renderer/App.tsx,       *)
(* model/views.ts, screens/Onboarding.tsx, and the fix buttons of          *)
(* screens/Home.tsx, which do the same things), over what main keeps: the  *)
(* settings (main/settings.ts), the session, the self-test, the permission *)
(* (main/engine.ts), the GNOME extension (shell/gnomeExtension.ts), and    *)
(* what the download of the model tells (ModelFile).                       *)
(*                                                                         *)
(* The status is pushed to the window at every change and is taken as      *)
(* current; the settings are only read when the window asks.  An update is *)
(* computed from the settings as they are and reaches them when its save   *)
(* is over; saves queue.                                                   *)
(* Bounds: MaxSaves updates in the queue; MaxTroubles things go wrong,     *)
(* each of any kind and at any time.                                       *)
(***************************************************************************)
EXTENDS ModelFile, Naturals, Sequences

CONSTANTS None, Users, MaxSaves, MaxTroubles
ASSUME SetupAssumption == None \notin Users /\ MaxSaves \in Nat \ {0} /\ MaxTroubles \in Nat

VARIABLES
  session, settings, saves,     \* main: who is signed in; the settings and their file's queue
  permission, granted,          \* main's last answer, and what the system would answer
  extension,                    \* GNOME's: what a check of it would say
  shown, asking, testing,       \* the window: its settings; a question, a self-test under way
  troubles                      \* how many things have gone wrong
main   == <<session, settings, saves, permission, granted, extension>>
window == <<shown, asking, testing>>
all    == <<fileVars, main, window, troubles>>

Fresh == [seen |-> 0, tested |-> FALSE, owner |-> None]
Settings == [seen : {0, 1, 5, 6, 7}, tested : BOOLEAN, owner : Users \cup {None}]
TypeOK ==
  /\ state \in {"missing", "partial", "downloading", "verifying", "ready", "error"}
  /\ busy \in {"no", "look", "load"} /\ {whole, removing, disturbed} \subseteq BOOLEAN
  /\ session \in Users \cup {None} /\ settings \in Settings /\ shown \in {0, 1, 5, 6, 7, None}
  /\ saves \in Seq([by : {"window", "stamp", "test", "reset"}, is : Settings]) /\ Len(saves) <= MaxSaves
  /\ permission \in {"unknown", "granted", "denied", "needsRestart"} /\ {granted, asking, testing} \subseteq BOOLEAN
  /\ extension \in {"off", "needsLogin", "ready"} /\ troubles \in 0..MaxTroubles

SetupInit ==
  /\ FileInit /\ session = None /\ settings = Fresh /\ saves = <<>>
  /\ permission = "unknown" /\ granted \in BOOLEAN /\ extension \in {"off", "ready"}
  /\ shown = None /\ asking = TRUE /\ testing = FALSE /\ troubles = 0

-----------------------------------------------------------------------------
(* The settings: an update is queued, saved, and is then what they are.    *)
Pending(by) == \E i \in 1..Len(saves) : saves[i].by = by
Update(by, next) == Len(saves) < MaxSaves /\ ~Pending(by) /\ saves' = Append(saves, [by |-> by, is |-> next])
(* The removal of them is queued like a save, and taken it lets the        *)
(* deletion of all data go on: with the model's, if that was asked for.    *)
SaveIsOver(taken, asksFor) ==
  LET by == Head(saves).by
  IN  /\ saves # <<>> /\ saves' = Tail(saves)
      /\ settings' = (IF taken THEN Head(saves).is ELSE settings)
      /\ asking' = (asking \/ by \in asksFor \/ (by = "reset" /\ taken)) /\ testing' = (testing /\ by # "test")
      /\ (by = "reset" /\ taken /\ RemovalBegins) \/ UNCHANGED fileVars
      /\ UNCHANGED <<session, permission, granted, extension, shown>>
SaveEndsUnasked(taken) == SaveIsOver(taken, {})   \* a slip: the window does not read again what it saved
SaveEnds(taken) == SaveIsOver(taken, {"window"})
OwnerPending == session # None /\ settings.owner # session
(* An ownerless file is adopted with its choices, another account's is     *)
(* reset; the steps and the self-test belong to the installation.          *)
Stamp ==
  /\ OwnerPending
  /\ Update("stamp", [settings EXCEPT !.owner = session])
  /\ UNCHANGED <<fileVars, session, settings, permission, granted, extension, window>>

Read == asking /\ asking' = FALSE /\ shown' = settings.seen /\ UNCHANGED <<fileVars, main, testing>>
ReadRefused == asking /\ asking' = FALSE /\ UNCHANGED <<fileVars, main, shown, testing>>
AskAgain == shown = None /\ ~asking /\ asking' = TRUE /\ UNCHANGED <<fileVars, main, shown, testing>>

-----------------------------------------------------------------------------
(* The step: what the machine can check comes from the status, what is     *)
(* only seen from the count in the window's settings.                      *)
OnboardingStep ==
  CASE shown < 1 -> "pitch"
    [] shown >= 1 /\ session = None -> "signIn"
    [] shown >= 1 /\ session # None /\ (state # "ready" \/ ~settings.tested) -> "model"
    [] shown >= 1 /\ session # None /\ state = "ready" /\ settings.tested
       /\ (permission # "granted" \/ extension # "ready") -> "permission"
    [] OTHER -> IF shown < 5 THEN "neverRead" ELSE IF shown < 6 THEN "reviewTime"
                ELSE IF shown < 7 THEN "done" ELSE "home"
At(step) == shown # None /\ OnboardingStep = step

Save(next) == Update("window", next) /\ UNCHANGED <<fileVars, session, settings, permission, granted, extension, window>>
Continue ==
  \/ At("pitch") /\ Save([settings EXCEPT !.seen = 1])
  \/ At("neverRead") /\ Save([settings EXCEPT !.seen = 5])
  \/ At("reviewTime") /\ Save([settings EXCEPT !.seen = 6])
  \/ At("done") /\ Save([settings EXCEPT !.seen = 7])
SignIn(u) ==
  /\ At("signIn") /\ session' = u
  /\ UNCHANGED <<fileVars, settings, saves, permission, granted, extension, window>>

(* The model: download, then the self-test on this machine.                *)
Download == At("model") /\ Begins /\ UNCHANGED <<main, window>>
SelfTest ==
  /\ At("model") /\ state = "ready" /\ ~testing /\ testing' = TRUE
  /\ UNCHANGED <<fileVars, main, shown, asking>>
TestPasses ==
  /\ testing /\ ~Pending("test") /\ whole /\ Update("test", [settings EXCEPT !.tested = TRUE])
  /\ UNCHANGED <<fileVars, session, settings, permission, granted, extension, window>>
TestFails == testing /\ ~Pending("test") /\ testing' = FALSE /\ UNCHANGED <<fileVars, main, shown, asking>>

(* The permission: the user answers the system, main is told when it asks; *)
(* a reader that is busy says nothing.                                     *)
Grant == At("permission") /\ ~granted /\ granted' = TRUE /\ UNCHANGED <<fileVars, session, settings, saves, permission, extension, window>>
Recheck(restart) ==
  /\ permission' = (IF ~granted THEN "denied" ELSE IF restart THEN "needsRestart" ELSE "granted")
  /\ UNCHANGED <<fileVars, session, settings, saves, granted, extension, window>>
(* The extension: installing also switches it on; GNOME loads it at login. *)
Extension ==
  /\ At("permission") /\ extension = "off" /\ extension' \in {"needsLogin", "ready"}
  /\ UNCHANGED <<fileVars, session, settings, saves, permission, granted, window>>

-----------------------------------------------------------------------------
(* The app starts again, by its own button, after GNOME's log-out, or      *)
(* because it was ended.                                                   *)
Launch(ext) ==
  /\ Launches /\ saves' = <<>> /\ permission' = "unknown" /\ extension' = ext
  /\ shown' = None /\ asking' = TRUE /\ testing' = FALSE
  /\ UNCHANGED <<session, settings, granted>>
Restarts == At("permission") /\ permission = "needsRestart" /\ Launch(extension)
LogOut == At("permission") /\ extension = "needsLogin" /\ Launch("ready")

(* All data are deleted, with the model or without it: the session goes,   *)
(* then the settings, then the rest (SaveIsOver).                          *)
Delete ==
  /\ At("home") /\ session' = None /\ Update("reset", Fresh)
  /\ UNCHANGED <<fileVars, settings, permission, granted, extension, window>>

(* What the download tells, while nothing fails.                           *)
Runs == (Looks \/ Loads) /\ UNCHANGED <<main, window>>
Removes == (FileGoes \/ RemovalIsOver) /\ UNCHANGED <<main, window>>

(* What goes wrong.                                                        *)
GoesWrong ==
  /\ troubles < MaxTroubles /\ troubles' = troubles + 1
  /\ \/ SaveEnds(FALSE) \/ ReadRefused \/ TestFails \/ Recheck(TRUE) \/ Launch(extension) \/ Delete
     \/ (LookRefused \/ LoadStops \/ RemovalRefused) /\ UNCHANGED <<main, window>>
     \/ session # None /\ session' = None /\ UNCHANGED <<fileVars, settings, saves, permission, granted, extension, window>>
     \/ granted /\ granted' = FALSE /\ UNCHANGED <<fileVars, session, settings, saves, permission, extension, window>>
     \/ extension # "off" /\ extension' = "off" /\ UNCHANGED <<fileVars, session, settings, saves, permission, granted, window>>

(* What helps: the user does what the step asks, main and the system go on. *)
Helps ==
  /\ UNCHANGED troubles
  /\ \/ SaveEnds(TRUE) \/ Stamp \/ Read \/ AskAgain \/ Continue \/ \E u \in Users : SignIn(u)
     \/ Download \/ SelfTest \/ TestPasses \/ Grant \/ Recheck(FALSE) \/ Extension
     \/ Restarts \/ LogOut \/ Runs \/ Removes
SetupNext == Helps \/ GoesWrong
SetupSpec == SetupInit /\ [][SetupNext]_all
(* A read that was asked for and a removal that has begun end by themselves*)
(* (TasksEnd of Download); of the rest, something is done as long as there *)
(* is something to do.                                                     *)
SetupFairness ==
  /\ WF_all(Read /\ UNCHANGED troubles)
  /\ WF_all(RemovalIsOver /\ UNCHANGED <<main, window, troubles>>) /\ WF_all(Helps)
-----------------------------------------------------------------------------
(* However setting up went until then, once nothing goes wrong any more    *)
(* doing what each step asks ends with the app set up: no lost update and  *)
(* no stale screen leaves the user at a step with nothing to do.  Only the *)
(* download does, in two ways that last until the app is started again: a  *)
(* look at the disk refused while it hashed still tells `verifying`, when  *)
(* start does nothing (download.ts:214) and no button is shown             *)
(* (Onboarding.tsx:185-186); and what a removal crossed is told `ready`    *)
(* without being the model.                                                *)
SetUp ==
  /\ session # None /\ state = "ready" /\ whole /\ settings.tested
  /\ permission = "granted" /\ extension = "ready" /\ At("home")
Stuck == busy = "no" /\ ~removing /\ (state = "verifying" \/ (state = "ready" /\ ~whole))
SetupEnds == <>[]SetUp \/ <>[](Stuck /\ (At("model") \/ At("home")))
=============================================================================
