------------------------------- MODULE ReaderEval -------------------------------
(* One run of the reader evaluation.  The terminal judges what was typed,    *)
(* opens the dev bundle and follows it; the bundle starts the native helper, *)
(* stages windows one at a time, has the helper read a window only after it  *)
(* recognised it as its own, writes a verdict and quits; the terminal turns  *)
(* that into words and an exit code.  Anything may come to the front at any  *)
(* moment, the helper may die, and each process may be killed.               *)
EXTENDS RevealFile

CONSTANTS Repetitions,    \* reads of each scored case
          ReadAttempts,   \* OBSERVE_READ_ATTEMPTS_MAX
          HostHitsMin     \* how many normal toolbars must show their address

ASSUME EvalAssumption == /\ {Repetitions, ReadAttempts, HostHitsMin} \subseteq Nat \ {0}
                         /\ None \notin EvalSettings /\ None # 0 /\ None # "fresh"
                         /\ None # [error |-> "REFUSED"]

VARIABLES opts,       \* what was typed, or set by hand
          tpc, tAt,   \* the terminal, and how far its clean-up is
          last,       \* the terminal's last sweep has begun
          shown,      \* the strips printed
          exit, said, \* its exit code and its last line
          bpc, bAt,   \* the bundle, and how far its gate's clean-up is
          s,          \* its settings, None before
          todo, item, \* the cases still to be staged, and the one in hand
          tries,      \* how often its window was opened
          approval,   \* the window it was recognised in
          shot,       \* the window the last text came from
          rows,       \* what was measured of each case
          revealed,   \* the strips to be shown
          granted, helper, chrome,
          out,        \* the results file
          killed      \* the processes that were killed, or told to leave
tVars == <<tpc, tAt, last, shown, exit, said>>
caseVars == <<todo, item, tries, approval, shot, rows, revealed>>
hostVars == <<granted, helper, chrome>>
bVars == <<bpc, bAt, s, caseVars, hostVars, out>>
vars == <<opts, killed, tVars, bVars, revealVars>>

AppOf(c) == CASE c = "terminal" -> "Terminal" [] c = "plain" -> "Safari" [] OTHER -> "Chrome"
Windows == {w \in [case : Cases, app : {"Chrome", "Terminal", "Safari"}, thisRun : BOOLEAN, ready : BOOLEAN] :
              w.ready => w.case = "terminal"}       \* only its script says so
AccuracyRow == [n : 0..Repetitions, ok : BOOLEAN, short : BOOLEAN, host : {FALSE}, private : {None}]
ToolbarRow == [n : 0..1, ok : BOOLEAN, short : {FALSE}, host : BOOLEAN, private : BOOLEAN \cup {None}]
ObserveRow == [n : 0..ReadAttempts, ok : BOOLEAN, short : {FALSE}, host : {FALSE}, private : BOOLEAN \cup {None}]
NoRow == [n |-> 0, ok |-> TRUE, short |-> FALSE, host |-> FALSE, private |-> None]
Done(c) == rows[c].n > 0 /\ rows[c].ok

Init == /\ RevealInit /\ opts \in Typed
        /\ \/ tpc = "typed" /\ bpc = "off"
           \/ /\ tpc = "absent" /\ bpc = "config"  \* the bundle opened by hand
              /\ opts.reveal \/ ~ParseEvalArgs(opts)
        /\ tAt = 1 /\ bAt = 1 /\ last = FALSE /\ shown = {} /\ exit = None /\ said = None
        /\ s = None /\ todo = <<>> /\ item = None /\ tries = 0 /\ approval = None /\ shot = None
        /\ rows = [c \in Cases |-> NoRow] /\ revealed = {}
        /\ granted = FALSE /\ helper = "none" /\ chrome = FALSE /\ out = None /\ killed = {}

(* The terminal: it follows a run that shows something while it goes.        *)
WatchPlanFor(o) == o.reveal
Over == bpc = "gone"
Start == /\ tpc = "typed"
         /\ IF ParseEvalArgs(opts)
            THEN /\ SweepOrphans /\ bpc' = "config" /\ UNCHANGED exit
                 /\ tpc' = IF WatchPlanFor(opts) THEN "loop" ELSE "wait"
            ELSE tpc' = "gone" /\ exit' = 1 /\ UNCHANGED <<disk, bpc>>
         /\ UNCHANGED <<opts, tAt, bAt, last, shown, said, killed, s, caseVars, hostVars, out, beat, stopped>>

Watch == /\ tpc = "loop" /\ tpc' = "claim"
         /\ last' = Over
         /\ IF Over THEN UNCHANGED revealVars ELSE Beat
         /\ UNCHANGED <<opts, tAt, shown, exit, said, killed, bVars>>
FormatRevealRow(strips) == IF strips = None THEN {} ELSE strips
AfterSweep == IF last THEN "wait" ELSE "loop"
SweepReveal == /\ \/ tpc = "claim" /\ IF disk["reveal"] = None
                                      THEN tpc' = AfterSweep /\ UNCHANGED <<shown, revealVars>>
                                      ELSE tpc' = "print" /\ Claim /\ UNCHANGED shown
                  \/ /\ tpc = "print" /\ tpc' = "remove" /\ UNCHANGED revealVars
                     /\ shown' = shown \cup FormatRevealRow(disk["claimed"])
                  \/ tpc = "remove" /\ tpc' = AfterSweep /\ RemoveClaimed /\ UNCHANGED shown
               /\ UNCHANGED <<opts, tAt, last, exit, said, killed, bVars>>
PrintFails == /\ tpc = "print" /\ tpc' = "clear" /\ exit' = 1       \* the window it prints to is closed
              /\ UNCHANGED <<opts, tAt, last, shown, said, killed, bVars, revealVars>>

(* The verdict, in words and as an exit code: two functions of the results.  *)
Schema == 6
TypedNotSecure == opts.notSecure
IsNotSecure(r) == ~(r.notSecure = FALSE /\ r.exploratory = FALSE)
IsResults == out # None /\ "error" \notin DOMAIN out
\* a slip: the results alone say whether the run was an ordinary one
ExitCodeUntyped == IF ~IsResults THEN 1 ELSE IF out.accepted THEN 0 ELSE 2
ExitCodeFor == IF ~IsResults THEN 1
               ELSE IF TypedNotSecure \/ out.schema # Schema \/ IsNotSecure(out) THEN 2
               ELSE IF out.accepted THEN 0 ELSE 2
FormatSummary == IF ~IsResults THEN "FAILED"
                 ELSE IF out.accepted /\ ~TypedNotSecure /\ ~IsNotSecure(out) THEN "ACCEPTED" ELSE "SHORTFALL"
Finish == /\ tpc = "wait" /\ Over
          /\ exit' = ExitCodeFor /\ said' = FormatSummary /\ tpc' = "clear" /\ tAt' = 1
          /\ UNCHANGED <<opts, last, shown, killed, bVars, revealVars>>
Clear == /\ tpc = "clear"
         /\ IF Over THEN ClearAll ELSE ClearStep(tAt)
         /\ IF ~Over /\ tAt + 1 \in Clearing THEN tAt' = tAt + 1 /\ UNCHANGED tpc ELSE tAt' = 1 /\ tpc' = "gone"
         /\ UNCHANGED <<opts, last, shown, exit, said, killed, bVars>>
Interrupted == /\ tpc \in {"loop", "wait"} /\ WatchPlanFor(opts) /\ killed = {}
               /\ tpc' = "clear" /\ tAt' = 1 /\ exit' = 130 /\ killed' = {"interrupted"}
               /\ UNCHANGED <<opts, last, shown, said, bVars, revealVars>>

(* The bundle: its settings, its helper.  After a strip it sleeps, or waits  *)
(* for a program: long enough for the terminal's clean-up, which waits for   *)
(* nothing, to be over.                                                      *)
InGate == {"gate", "write", "rename", "giveUp"}
Error(code) == [error |-> code]
EvalErrors == {Error(code) : code \in {"REFUSED", "HARNESS"}}
bStays == UNCHANGED <<opts, killed, tVars>>
bOwn == UNCHANGED <<bAt, s, caseVars, hostVars, out>>
Settings == [mode : Modes, limit : Limits \cup {None}, expect : Expects \cup {None},
             reveal : BOOLEAN, notSecure : BOOLEAN, schema : {Schema - 1, Schema}]
BuiltWith(schema, r) == [mode |-> r.mode, limit |-> r.limit, expect |-> r.expect,
                         reveal |-> r.reveal, notSecure |-> r.notSecure, schema |-> schema]
\* an older build does not know --not-secure, and makes an ordinary run of it
Known(env, older) == IF older THEN [env EXCEPT !.notSecure = None] ELSE env
Configure ==
    /\ bpc = "config"
    /\ \E older \in {FALSE, opts.notSecure /\ tpc # "absent"} :
         LET r == ReadEvalSettings(Known(EvalEnv(opts), older))
         IN  IF r = None THEN out' = Error("REFUSED") /\ bpc' = "quit" /\ UNCHANGED <<s, todo>>
             ELSE /\ s' = BuiltWith(IF older THEN Schema - 1 ELSE Schema, r)
                  /\ todo' = Staged(r, Repetitions) /\ bpc' = "place" /\ UNCHANGED out
    /\ opts' = [opts EXCEPT !.host = None, !.position = None]     \* they are only carried on
    /\ UNCHANGED <<bAt, killed, tVars, revealVars, item, tries, approval, shot, rows, revealed, hostVars>>
StagesWindows == s.mode # "coldstart"
DisplayRefusal == StagesWindows              \* too small, or the corner is off it
PageServerRefusal == StagesWindows           \* no matched pair of sockets
Refuses == /\ bpc = "place" /\ (DisplayRefusal \/ PageServerRefusal)
           /\ out' = Error("HARNESS") /\ bpc' = "quit"
           /\ bStays /\ UNCHANGED <<bAt, s, caseVars, hostVars, revealVars>>
SpawnHelper == /\ bpc = "place" /\ bpc' = "ready" /\ helper' = "up"
               /\ bStays /\ UNCHANGED <<bAt, s, caseVars, granted, chrome, out, revealVars>>
\* a slip: a helper that is not ready is asked again, without a limit
HelperReadyUnlimited == /\ bpc = "ready" /\ bpc' = (IF helper = "up" THEN "grant" ELSE bpc)
                     /\ bStays /\ UNCHANGED <<bAt, s, caseVars, hostVars, out, revealVars>>
HelperReady == /\ bpc = "ready"
               /\ \/ helper = "up" /\ bpc' = "grant" /\ UNCHANGED out
                  \/ bpc' = "end" /\ out' = Error("HARNESS")           \* late, gone, or of another protocol
               /\ bStays /\ UNCHANGED <<bAt, s, caseVars, hostVars, revealVars>>
Permission == /\ bpc = "grant"
              /\ granted' \in {FALSE, helper = "up"}
              /\ IF s.mode = "coldstart" THEN bpc' = "results" /\ UNCHANGED out
                 ELSE IF granted' THEN bpc' = "next" /\ UNCHANGED out
                 ELSE bpc' = "end" /\ out' = Error("HARNESS")
              /\ bStays /\ UNCHANGED <<bAt, s, caseVars, helper, chrome, revealVars>>

(* A staged case.  Chrome's earlier windows may still be there when it is    *)
(* opened again; a window is waited for until the time is up.                *)
OpenChrome(c) == c \in InChrome /\ chrome' = TRUE
OpenTerminal(c) == c \notin InChrome /\ UNCHANGED chrome
NextCase == /\ bpc = "next" /\ shot' = None /\ approval' = None
            /\ IF todo # <<>> THEN /\ item' = Head(todo) /\ tries' = 1 /\ bpc' = "look"
                                   /\ OpenChrome(item') \/ OpenTerminal(item')
               ELSE /\ bpc' = IF s.mode \in ObservesWindows THEN "observe" ELSE "results"
                    /\ item' = None /\ tries' = 0 /\ UNCHANGED chrome
            /\ bStays /\ UNCHANGED <<bAt, s, todo, rows, revealed, granted, helper, out, revealVars>>
\* a slip: any window this harness staged will do
ApproveAnyStaged(w, c) == w.app = AppOf(c) /\ w.thisRun /\ (c = "terminal" => w.ready)
Approve(w, c) == /\ w.app = AppOf(c) /\ w.case = c /\ w.thisRun
                 /\ c = "terminal" => w.ready
Recognised(c) == /\ helper = "up"
                 /\ \E w \in Windows : Approve(w, c) /\ approval' = w
                 /\ bpc' = "read"
\* a row after one more read; what its mode does not measure stays as it was
After(c, row, ok, short, host, private) ==
    [n |-> row.n + 1, ok |-> ok /\ (row.ok \/ c \in Watched),
     short |-> c \in ToSet(Accuracy) /\ (row.short \/ (ok /\ short)),
     host |-> c = "normal" /\ ok /\ host,
     private |-> IF c \in ToSet(Accuracy) \/ ~ok THEN None
                 ELSE IF c \in Watched THEN private ELSE private = TRUE]
Failed(c) == rows' = [rows EXCEPT ![c] = After(c, @, FALSE, FALSE, FALSE, None)]
OpenAgain(c) == c \in InChrome /\ tries = 1 /\ tries' = 2
AwaitStagedWindow ==
    /\ bpc = "look"
    /\ \/ Recognised(item) /\ UNCHANGED <<rows, tries, chrome>>
       \/ OpenAgain(item) /\ UNCHANGED <<bpc, rows, chrome, approval>>
       \/ /\ item \notin InChrome \/ tries = 2
          /\ Failed(item) /\ bpc' = "down" /\ UNCHANGED <<tries, chrome, approval>>
    /\ bStays /\ UNCHANGED <<bAt, s, todo, item, shot, revealed, granted, helper, out, revealVars>>
Wanted == IF s.expect = None THEN Watched ELSE s.expect
Settled(c) == Done(c) \/ rows[c].n >= ReadAttempts
ObserveFront == /\ bpc = "observe" /\ \E c \in Wanted : ~Settled(c)
                /\ \E c \in Watched : ~Settled(c) /\ Recognised(c) /\ item' = c
                /\ shot' = None
                /\ bStays /\ UNCHANGED <<bAt, s, todo, tries, rows, revealed, hostVars, out, revealVars>>
ObserveEnds == /\ bpc = "observe" /\ bpc' = "results"   \* all are settled, or the time is up
               /\ item' = None /\ approval' = None /\ shot' = None
               /\ bStays /\ UNCHANGED <<bAt, s, todo, tries, rows, revealed, hostVars, out, revealVars>>

(* The helper compares the window in front with the one it is told to expect.*)
\* a slip: the front window is read, whichever it is
AnyFront(w) == TRUE
Expected(w) == w = approval
(* What a text may show; of a run that cannot be accepted, the best of it.   *)
Judged == /\ ~s.reveal /\ ~s.notSecure /\ s.limit = None
          /\ s.mode \in ObservesWindows => s.expect # None
Texts(c) == IF Judged THEN [short : BOOLEAN, host : BOOLEAN, asStaged : BOOLEAN, private : BOOLEAN \cup {None}]
            ELSE {[short |-> FALSE, host |-> TRUE, asStaged |-> TRUE, private |-> c \in ExpectPrivate]}
RevealRowOf(c) == {c}
RevealsNow(c) == s.reveal /\ c \notin ToSet(Accuracy)
Answered == /\ helper = "up"
            /\ \E w \in Windows : Expected(w) /\ shot' = w
            /\ \E x \in Texts(item) :
                 rows' = [rows EXCEPT ![item] =
                            After(item, @, x.asStaged \/ item \in Watched, x.short, x.host, x.private)]
            /\ IF RevealsNow(item) THEN revealed' = revealed \cup RevealRowOf(item) /\ bpc' = "gate"
               ELSE bpc' = (IF item \in Watched THEN "observe" ELSE "down") /\ UNCHANGED revealed
NotAnswered == /\ Failed(item) /\ shot' = None /\ UNCHANGED revealed      \* gone, black, late, or the helper is
               /\ bpc' = IF item \in Watched THEN "observe" ELSE "down"
ReadApproved == /\ bpc = "read" /\ (Answered \/ NotAnswered) /\ approval' = None
                /\ bStays /\ UNCHANGED <<bAt, s, todo, item, tries, hostVars, out, revealVars>>
TearDown == /\ bpc = "down" /\ bpc' = "next" /\ chrome' = FALSE /\ todo' = Tail(todo)
            /\ bStays /\ UNCHANGED <<bAt, s, item, tries, approval, shot, rows, revealed, granted, helper,
                                     out, revealVars>>

(* The gate: the check, the write and the rename are moments of their own, as*)
(* are the removals when it gives up.                                        *)
AfterGate == IF item \in Watched THEN "observe" ELSE "down"
Gate == /\ \/ bpc = "gate" /\ stopped /\ bpc' = AfterGate /\ UNCHANGED revealVars
           \/ bpc = "gate" /\ ~stopped /\ GateStops /\ bpc' = "giveUp"
           \/ bpc = "gate" /\ ~stopped /\ Alive /\ bpc' = "write" /\ UNCHANGED revealVars
           \/ bpc = "write" /\ WritePartial(revealed) /\ bpc' = "rename"
           \/ bpc = "rename" /\ RenamePartial /\ bpc' = AfterGate
        /\ bStays /\ bOwn
Removes(at, after) == /\ bpc = at /\ RemoveStep(bAt)
                      /\ IF bAt < Len(RevealFileNames) THEN bAt' = bAt + 1 /\ UNCHANGED bpc
                         ELSE bAt' = 1 /\ bpc' = after
                      /\ bStays /\ UNCHANGED <<s, caseVars, hostVars, out>>
GateRemoves == Removes("giveUp", AfterGate) \/ Removes("giveUpAtEnd", "shut")

(* What was measured becomes a verdict, written with its markers.            *)
GroupsPassed == \A c \in ToSet(Accuracy) : rows[c].n > 0 /\ rows[c].ok /\ ~rows[c].short
ToolbarPassed == /\ \A c \in ToSet(Toolbars) : rows[c].n > 0 /\ rows[c].ok
                 /\ Cardinality({c \in {"normal"} : rows[c].host}) >= HostHitsMin
                 /\ rows["incognito"].private = TRUE /\ rows["normal"].private # TRUE
Disagrees(c) == Done(c) /\ (c \in ExpectPrivate) # (rows[c].private = TRUE)
\* a slip: a window whose strip was not found shows no badge
NeverUnchecked(c) == FALSE
NotChecked(c) == c \notin ExpectPrivate /\ rows[c].private = None
ObservePassed == /\ s.expect # None
                 /\ \A c \in s.expect : Done(c) /\ ~NotChecked(c)
                 /\ ~\E c \in Watched : Disagrees(c)
\* a slip: a run cut short is judged by what it measured
Whole == TRUE
Unlimited == s.limit = None
Accepted == /\ Unlimited /\ ~s.notSecure
            /\ s.mode \in {"accuracy", "all"} => GroupsPassed
            /\ s.mode \in {"toolbar", "all"} => ToolbarPassed
            /\ s.mode \in ObservesWindows => ObservePassed
            /\ s.mode = "coldstart" => granted
Written == [schema |-> s.schema, accepted |-> Accepted,
            notSecure |-> IF s.schema = Schema THEN s.notSecure ELSE None,
            exploratory |-> IF s.schema = Schema THEN s.notSecure ELSE None]
Results == /\ bpc = "results" /\ out' = Written /\ bpc' = "end"
           /\ bStays /\ UNCHANGED <<bAt, s, caseVars, hostVars, revealVars>>
EvalResults == [schema : {Schema}, accepted : BOOLEAN, notSecure : BOOLEAN, exploratory : BOOLEAN]
               \cup [schema : {Schema - 1}, accepted : BOOLEAN, notSecure : {None}, exploratory : {None}]

(* The end, whichever way it came: the gate, the helper, the profile's Chrome.*)
Throws == /\ \/ bpc = "next" /\ todo # <<>>                  \* a script or a profile is not written
             \/ bpc = "look" /\ item \in InChrome /\ tries = 1
             \/ bpc = "results"
          /\ bpc' = "end" /\ chrome' = FALSE
          /\ bStays /\ UNCHANGED <<bAt, s, caseVars, granted, helper, out, revealVars>>
\* a slip: what is on the disk is the terminal's to find
EndUnlooked == bpc = "end" /\ bpc' = "shut" /\ bStays /\ bOwn /\ UNCHANGED revealVars
End == /\ bpc = "end"
       /\ IF s.reveal /\ ~stopped /\ ~Alive THEN GateStops /\ bpc' = "giveUpAtEnd"
          ELSE bpc' = "shut" /\ UNCHANGED revealVars
       /\ bStays /\ bOwn
Shutdown == /\ bpc \in {"shut", "quit"} /\ bpc' = "gone"
            /\ helper' = IF bpc = "shut" /\ helper = "up" THEN "told" ELSE helper
            /\ out' \in IF out = None THEN {None, Error("HARNESS")} ELSE {out}
            /\ bStays /\ UNCHANGED <<bAt, s, caseVars, granted, chrome, revealVars>>

(* Around it.                                                                *)
HelperDies == /\ bpc \in {"ready", "grant", "look", "observe", "read"} /\ helper = "up" /\ helper' = "down"
              /\ UNCHANGED <<opts, killed, tVars, bpc, bAt, s, caseVars, granted, chrome, out, revealVars>>
BeatGrowsOld == /\ s # None /\ s.reveal /\ Grows /\ UNCHANGED <<opts, killed, tVars, bVars>>
TerminalKilled == /\ tpc \notin {"typed", "absent", "gone"} /\ WatchPlanFor(opts) /\ killed = {}
                  /\ tpc' = "gone" /\ killed' = {"terminal"}
                  /\ UNCHANGED <<opts, tAt, last, shown, exit, said, bVars, revealVars>>
BundleKilled == /\ bpc \notin {"off", "gone"} /\ WatchPlanFor(opts) /\ killed = {}
                /\ bpc' = "gone" /\ killed' = {"bundle"}
                /\ UNCHANGED <<opts, tVars, bAt, s, caseVars, hostVars, out, revealVars>>

Terminal == Start \/ Watch \/ SweepReveal \/ Finish \/ Clear
Undisturbed == tpc = "clear" => bpc \in InGate
Bundle == /\ Undisturbed
          /\ \/ Configure \/ SpawnHelper \/ HelperReady \/ Permission \/ NextCase \/ AwaitStagedWindow
             \/ ObserveFront \/ ObserveEnds \/ ReadApproved \/ TearDown \/ Gate \/ GateRemoves
             \/ Results \/ End \/ Shutdown
Ended == tpc \in {"absent", "gone"} /\ bpc \in {"off", "gone"}
Rests == Ended /\ UNCHANGED vars
Fails == Undisturbed /\ (Refuses \/ Throws)
Next == Terminal \/ Bundle \/ Fails \/ PrintFails \/ Interrupted \/ HelperDies \/ BeatGrowsOld
        \/ TerminalKilled \/ BundleKilled \/ Rests
Spec == Init /\ [][Next]_vars /\ WF_vars(Terminal) /\ WF_vars(Bundle)   \* no failure is due
--------------------------------------------------------------------------------
TypeOK == /\ RevealTypeOK /\ opts \in Typed
          /\ \A c \in Cases : rows[c] \in IF c \in Watched THEN ObserveRow
                                     ELSE IF c \in ToSet(Toolbars) THEN ToolbarRow ELSE AccuracyRow
          /\ s \in Settings \cup {None}
          /\ out \in EvalResults \cup EvalErrors \cup {None}
          /\ shown \subseteq revealed /\ approval \in Windows \cup {None} /\ shot \in Windows \cup {None}

(* The two parsers agree: what the terminal lets through the bundle accepts, *)
(* and what the bundle accepts, set by hand, could have been typed.          *)
FencesAgree == /\ out = Error("REFUSED") /\ tpc # "absent" => opts.notSecure      \* an older build
               /\ s # None => ParseEvalArgs(opts)

(* A strip of somebody's toolbar stays on the disk after both have ended only*)
(* if one of them was killed; and none is printed by a run that is judged.   *)
NoStripIsLeft == /\ tpc = "gone" /\ bpc = "gone" /\ killed \subseteq {"interrupted"} => NoStrips
                 /\ shown # {} => opts.reveal /\ (opts.mode = "observe" \/ opts.notSecure)

(* Whatever comes to the front and whenever, a text is this run's, of the case*)
(* it is counted for; and a bundle that is not killed leaves no Chrome and no*)
(* helper behind, whatever went wrong.                                       *)
ReadsItsOwn == /\ shot # None => /\ shot.case = item /\ shot.thisRun /\ shot.app = AppOf(item)
                                 /\ item = "terminal" => shot.ready
               /\ bpc = "gone" /\ "bundle" \notin killed => ~chrome /\ helper # "up"
EvalInv == TypeOK /\ FencesAgree /\ NoStripIsLeft /\ ReadsItsOwn

(* Exit code 0, and the word ACCEPTED, are for a whole and ordinary run: every*)
(* case of its mode was read, as often as it should be, well enough and as   *)
(* staged, and nothing was revealed.  reader-eval.mjs:1170, summary.ts:343.  *)
ReadAsItShould(c) ==
    /\ rows[c].n > 0 /\ rows[c].ok
    /\ c \in ToSet(Accuracy) => rows[c].n = Repetitions /\ ~rows[c].short
    /\ c \in ExpectPrivate => rows[c].private = TRUE
    /\ c = "normal" => rows[c].host /\ rows[c].private # TRUE
    /\ c = "plain" => rows[c].private = FALSE
AcceptedIsEarned ==
    /\ exit = 0 => /\ opts.limit = None /\ ~opts.notSecure /\ ~opts.reveal
                   /\ opts.mode \in ObservesWindows => opts.expect # None
                   /\ \A c \in Measured(opts.mode, opts.expect) : ReadAsItShould(c)
                   /\ opts.mode = "coldstart" => granted
    /\ said # None => (said = "ACCEPTED") = (exit = 0)

(* Every run ends, whatever the helper, the windows and the two processes do.*)
EvalEnds == <>[]Ended
================================================================================
