------------------------------ MODULE EvalOptions ------------------------------
(* The reader evaluation is a terminal program that opens the dev bundle.    *)
(* Every option is parsed twice, in two languages: what is typed is judged by*)
(* reader-eval.mjs, and what reaches the bundle's environment - from there or*)
(* by hand - by config.ts.  Bad is any value that a parser of its own refuses.*)
EXTENDS Naturals, FiniteSets, Sequences, SequencesExt

CONSTANTS None, Bad,
          Modes,      \* the modes of the terminal program
          Limits,     \* the numbers typed after --limit
          Expects     \* the sets of windows typed after --expect

(* The cases, one of each sort: pages in Chrome and in Terminal that are     *)
(* scored; toolbars of normal and incognito windows; the person's own windows.*)
Accuracy == <<"page", "terminal">>
Toolbars == <<"normal", "incognito">>
Watched == {"plain", "private"}
Cases == ToSet(Accuracy) \cup ToSet(Toolbars) \cup Watched
ExpectPrivate == {"incognito", "private"}
InChrome == {"page"} \cup ToSet(Toolbars)

LimitsCases == {"accuracy", "toolbar", "all"}
ObservesWindows == {"observe", "all"}
ASSUME OptionsAssumption == /\ Limits \subseteq Nat /\ Expects \subseteq SUBSET Watched
                            /\ None # Bad /\ None # "1" /\ None \notin BOOLEAN

Typed == [mode : Modes \cup {Bad}, limit : Limits \cup {None, Bad},
          expect : Expects \cup {None, Bad}, host : {None, Bad, "name"},
          position : {None, Bad, "there"}, reveal : BOOLEAN, notSecure : BOOLEAN]

ParsesNumbers(o) == o.limit # Bad /\ o.position # Bad
ParsesWords(o) == o.expect # Bad /\ o.host # Bad /\ o.mode # Bad

(* At the terminal.  What it lets through is told to the bundle, a variable  *)
(* for each option that was typed.                                           *)
\* a slip: a run that is judged may reveal
MayRevealAnywhere(o) == o.mode = "observe" \/ (o.mode = "toolbar" /\ o.notSecure)
MayRevealArgs(o) == \/ o.mode = "observe" /\ o.expect = None
                    \/ o.mode = "toolbar" /\ o.notSecure
ParseEvalArgs(o) == /\ ParsesNumbers(o) /\ ParsesWords(o)
                    /\ o.limit # None => o.mode \in LimitsCases
                    /\ o.expect # None => o.mode \in ObservesWindows
                    /\ o.notSecure => o.mode = "toolbar" /\ o.host = None
                    /\ o.host # None => o.mode \in ObservesWindows
                    /\ o.reveal => MayRevealArgs(o)

EvalEnv(o) == [o EXCEPT !.reveal = IF o.reveal THEN "1" ELSE None,
                        !.notSecure = IF o.notSecure THEN "1" ELSE None]

(* In the bundle: the settings, or None.                                     *)
MayReveal(mode, expect, notSecure) ==
    (mode = "observe" /\ expect = None) \/ (mode = "toolbar" /\ notSecure)
EvalSettings == [mode : Modes, limit : Limits \cup {None}, expect : Expects \cup {None},
                 reveal : BOOLEAN, notSecure : BOOLEAN]
ReadsEnv(env) == \A f \in {"limit", "position", "expect", "host", "mode"} : env[f] # Bad
ReadEvalSettings(env) ==
    LET notSecure == env.notSecure = "1"
        reveal == env.reveal = "1"
    IN  IF /\ ReadsEnv(env)
           /\ env.limit # None => env.mode \in LimitsCases
           /\ env.expect # None => env.mode \in ObservesWindows
           /\ notSecure => env.mode = "toolbar" /\ env.host = None
           /\ env.host # None => env.mode \in ObservesWindows
           /\ reveal => MayReveal(env.mode, env.expect, notSecure)
        THEN [mode |-> env.mode, limit |-> env.limit, expect |-> env.expect,
              reveal |-> reveal, notSecure |-> notSecure]
        ELSE None

(* What a mode stages, in its order and within its limit.                    *)
LimitedTo(cases, limit) == IF limit = None THEN cases
                           ELSE SubSeq(cases, 1, IF limit < Len(cases) THEN limit ELSE Len(cases))
Repeated(cases, reps) == FlattenSeq([i \in 1..Len(cases) |-> [r \in 1..reps |-> cases[i]]])
Staged(s, reps) ==
    (IF s.mode \in {"accuracy", "all"} THEN Repeated(LimitedTo(Accuracy, s.limit), reps) ELSE <<>>)
    \o (IF s.mode \in {"toolbar", "all"} THEN LimitedTo(Toolbars, s.limit) ELSE <<>>)

(* What a run without a limit promises to have measured.                     *)
Measured(mode, expect) ==
    (IF mode \in {"accuracy", "all"} THEN ToSet(Accuracy) ELSE {})
    \cup (IF mode \in {"toolbar", "all"} THEN ToSet(Toolbars) ELSE {})
    \cup (IF mode \in ObservesWindows THEN expect ELSE {})
================================================================================
