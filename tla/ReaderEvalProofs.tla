--------------------------- MODULE ReaderEvalProofs ---------------------------
(***************************************************************************)
(* Theorems about ReaderEval, for any limits, sets of windows, repetitions *)
(* and attempts: what is read is what was staged, no strip outlives a run, *)
(* and exit code 0 is earned.                                              *)
(***************************************************************************)
EXTENDS ReaderEval, FiniteSetTheorems, SequenceTheorems, TLAPS

-----------------------------------------------------------------------------
(* What is staged, as a function of the mode and the limit: pages, then    *)
(* terminals, then at most one toolbar of each sort.                       *)

Within(limit, n) == limit = None \/ limit >= n
Pages(mode, limit) == IF mode \in {"accuracy", "all"} /\ Within(limit, 1) THEN Repetitions ELSE 0
Terminals(mode, limit) == IF mode \in {"accuracy", "all"} /\ Within(limit, 2) THEN Repetitions ELSE 0
Bars(mode, limit) == IF mode \notin {"toolbar", "all"} THEN 0
                     ELSE IF Within(limit, 2) THEN 2 ELSE limit
Planned(mode, limit) == Pages(mode, limit) + Terminals(mode, limit) + Bars(mode, limit)
PlanAt(mode, limit, j) ==
  IF j <= Pages(mode, limit) THEN "page"
  ELSE IF j <= Pages(mode, limit) + Terminals(mode, limit) THEN "terminal"
  ELSE IF j = Pages(mode, limit) + Terminals(mode, limit) + 1 THEN "normal" ELSE "incognito"

(* How often a case has been read when m windows of the plan have been.    *)
Lesser(m, n) == IF m <= n THEN m ELSE n
Beyond(m, n) == IF m <= n THEN 0 ELSE m - n
ReadOf(mode, limit, m, c) ==
  CASE c = "page"      -> Lesser(m, Pages(mode, limit))
    [] c = "terminal"  -> Lesser(Beyond(m, Pages(mode, limit)), Terminals(mode, limit))
    [] c = "normal"    -> Lesser(Beyond(m, Pages(mode, limit) + Terminals(mode, limit)), 1)
    [] c = "incognito" -> Beyond(m, Pages(mode, limit) + Terminals(mode, limit) + 1)

-----------------------------------------------------------------------------
(* The inductive invariant.                                                *)

Begins   == {"place", "ready", "grant"}
Measures == {"next", "look", "read", "down", "observe", "results"} \cup InGate
Closes   == {"end", "giveUpAtEnd", "shut"}
Runs     == Begins \cup Measures \cup Closes
Stops    == {"giveUp", "giveUpAtEnd"}
Row == [n : Nat, ok : BOOLEAN, short : BOOLEAN, host : BOOLEAN, private : BOOLEAN \cup {None}]

(* Where the two processes can be, and what is settled there.              *)
Places ==
  /\ tpc \in {"typed", "absent", "loop", "claim", "print", "remove", "wait", "clear", "gone"}
  /\ bpc \in {"off", "config", "quit", "gone"} \cup Runs
  /\ bpc = "off" => tpc \in {"typed", "gone"}
  /\ tpc = "typed" => bpc = "off"
  /\ tpc \in {"loop", "claim", "print", "remove"} => opts.reveal
  /\ tAt \in Clearing /\ (tpc \notin {"clear", "gone"} => tAt = 1)
  /\ bAt \in 1..Len(RevealFileNames) /\ (bpc \notin Stops \cup {"gone"} => bAt = 1)
  /\ killed \subseteq {"interrupted", "terminal", "bundle"}
  /\ "bundle" \in killed => bpc = "gone"

(* The bundle's settings are those of the options that were let through.   *)
SetFor(x, o) ==
  /\ x \in Settings
  /\ x.mode = o.mode /\ x.limit = o.limit /\ x.expect = o.expect /\ x.reveal = o.reveal
  /\ x.notSecure => o.notSecure
  /\ x.schema = Schema => x.notSecure = o.notSecure
  /\ x.reveal => MayReveal(x.mode, x.expect, x.notSecure)
Options ==
  /\ opts \in Typed
  /\ bpc # "off" /\ tpc # "absent" => ParseEvalArgs(opts)
  /\ s # None => ParseEvalArgs(opts)
  /\ s = None \/ SetFor(s, opts)
  /\ bpc \in Runs => SetFor(s, opts)
  /\ bpc \in {"off", "config"} => s = None

(* The window in hand.                                                     *)
AtStaged == bpc \in {"look", "down"} \/ (bpc \in {"read"} \cup InGate /\ item \notin Watched)
AtWatched == bpc = "observe" \/ (bpc \in {"read"} \cup InGate /\ item \in Watched)
InHand ==
  /\ item \in Cases \cup {None}
  /\ approval \in Windows \cup {None} /\ shot \in Windows \cup {None}
  /\ bpc = "read" => approval \in Windows /\ Approve(approval, item)
  /\ shot # None => Approve(shot, item)
  /\ bpc \in {"look", "read", "down"} \cup InGate => item \in Cases
  /\ bpc = "look" => item \notin Watched
  /\ bpc = "down" => item \notin Watched
  /\ bpc = "read" /\ item \in Watched => rows[item].n < ReadAttempts
  /\ bpc \in InGate => s.reveal
  /\ chrome \in BOOLEAN /\ (chrome => AtStaged \/ (bpc = "gone" /\ "bundle" \in killed))
  /\ bpc \in {"off", "config", "place", "quit"} => helper = "none"
  /\ bpc = "gone" /\ "bundle" \notin killed => helper # "up"

(* What is still to be staged is the rest of the plan, and each case was   *)
(* read as often as the part of the plan that is done says.                *)
Took(x, t) == Planned(x.mode, x.limit) - Len(t)
Reads(x, t, one) == Took(x, t) + IF one THEN 1 ELSE 0
HasRead == bpc = "down" \/ (bpc \in InGate /\ item \notin Watched)
IsRest(x, t) ==
  /\ t \in Seq(ToSet(Accuracy) \cup ToSet(Toolbars)) /\ Len(t) \in 0..Planned(x.mode, x.limit)
  /\ \A i \in 1..Len(t) : t[i] = PlanAt(x.mode, x.limit, Took(x, t) + i)
Counts ==
  /\ bpc \in {"off", "config"} => rows = [c \in Cases |-> NoRow]
  /\ bpc \in Begins \cup Measures =>
       /\ IsRest(s, todo)
       /\ \A c \in Cases \ Watched : rows[c].n = ReadOf(s.mode, s.limit, Reads(s, todo, HasRead), c)
       /\ AtStaged => todo # <<>> /\ item = todo[1]
       /\ AtWatched \/ bpc = "results" => todo = <<>>
RowFor(c) == IF c \in Watched THEN ObserveRow ELSE IF c \in ToSet(Toolbars) THEN ToolbarRow ELSE AccuracyRow
Rows == /\ rows \in [Cases -> Row]
        /\ \A c \in Cases : rows[c] \in RowFor(c)

(* The verdict.                                                            *)
Earned ==
  /\ opts.limit = None /\ ~opts.notSecure /\ ~opts.reveal
  /\ opts.mode \in ObservesWindows => opts.expect # None
  /\ \A c \in Measured(opts.mode, opts.expect) : ReadAsItShould(c)
  /\ opts.mode = "coldstart" => granted
Verdict ==
  /\ out \in EvalResults \cup EvalErrors \cup {None}
  /\ bpc \in {"off", "config"} \cup Begins \cup Measures => out = None
  /\ out = Error("REFUSED") /\ tpc # "absent" => opts.notSecure
  /\ (out # None /\ out \in EvalResults /\ out.accepted /\ out.schema = Schema /\ ~out.notSecure) => Earned
  /\ out \in EvalResults => out.schema = Schema \/ out.notSecure = None
  /\ exit = 0 => bpc = "gone" /\ Earned
  /\ said # None => tpc \in {"clear", "gone"} /\ (said = "ACCEPTED") = (exit = 0)

(* The disk.  While the terminal runs the disk holds what this run reveals;*)
(* once the gate has given up, and while it does, what is removed stays so.*)
Swept == tpc \notin {"typed", "absent"} /\ bpc # "off"
Names == {"reveal", "partial", "claimed"}
Empty(d) == \A n \in Names : d[n] = None
GoneBefore(d, i) == /\ i > 1 => d["reveal"] = None
                    /\ i > 2 => d["partial"] = None
                    /\ i > 3 => d["claimed"] = None
Clean == killed \subseteq {"interrupted"}
DiskTyped == disk \in [Names -> (SUBSET Cases) \cup {None}] /\ beat \in {None, "fresh", "stale"} /\ stopped \in BOOLEAN
OnlyRevealed ==
  /\ revealed \subseteq Cases /\ shown \subseteq revealed
  /\ revealed # {} => opts.reveal /\ (opts.mode = "observe" \/ opts.notSecure)
  /\ Swept => \A n \in Names : disk[n] = None \/ disk[n] \subseteq revealed
Quiet == bpc \in {"config", "quit"} \cup Begins \/ (bpc \in Runs /\ ~s.reveal)
GateShuts ==
  /\ Swept /\ Quiet => Empty(disk)
  /\ bpc \in {"write", "rename"} \cup {"off", "config", "quit"} \cup Begins => ~stopped
  /\ stopped /\ bpc \notin Stops /\ "bundle" \notin killed => Empty(disk)
  /\ bpc \in Stops => stopped /\ GoneBefore(disk, bAt)
  /\ tpc = "clear" /\ bpc = "shut" => GoneBefore(disk, tAt)
  /\ tpc = "gone" /\ bpc # "off" /\ Clean => /\ beat # "fresh"
                                             /\ bpc \in {"shut", "gone"} => Empty(disk)
Strips == DiskTyped /\ OnlyRevealed /\ GateShuts

IInv == Places /\ Options /\ InHand /\ Counts /\ Rows /\ Verdict /\ Strips

-----------------------------------------------------------------------------
(* The cases, and what a mode stages of them.                              *)

LEMMA CaseNames ==
  /\ ToSet(Accuracy) = {"page", "terminal"}
  /\ ToSet(Toolbars) = {"normal", "incognito"}
  /\ Cases = {"page", "terminal", "normal", "incognito", "plain", "private"}
  /\ ToSet(RevealFileNames) = {"reveal", "partial", "claimed"}
<1>1. ToSet(Accuracy) = {"page", "terminal"}
  BY DEF ToSet, Accuracy
<1>2. ToSet(Toolbars) = {"normal", "incognito"}
  BY DEF ToSet, Toolbars
<1>3. ToSet(RevealFileNames) = {"reveal", "partial", "claimed"}
  BY DEF ToSet, RevealFileNames
<1>4. QED
  BY <1>1, <1>2, <1>3 DEF Cases, Watched

(* A sequence of two sequences, flattened; and of one, and of none. *)
LEMMA FlattenedPair ==
  ASSUME NEW S, NEW a \in Seq(S), NEW b \in Seq(S)
  PROVE  FlattenSeq(<<a, b>>) = a \o b
<1> DEFINE flat == CHOOSE g : g = [i \in 1..Len(<<a, b>>) |-> IF i = 1 THEN <<a, b>>[i] ELSE g[i-1] \o <<a, b>>[i]]
<1>1. \E g : g = [i \in 1..Len(<<a, b>>) |-> IF i = 1 THEN <<a, b>>[i] ELSE g[i-1] \o <<a, b>>[i]]
  <2> DEFINE w == [i \in 1..2 |-> IF i = 1 THEN a ELSE a \o b]
  <2>1. w[1] = a /\ w[2] = a \o b
    OBVIOUS
  <2>2. \A i \in 1..2 : w[i] = IF i = 1 THEN <<a, b>>[i] ELSE w[i-1] \o <<a, b>>[i]
    BY <2>1
  <2>3. w = [i \in 1..2 |-> IF i = 1 THEN <<a, b>>[i] ELSE w[i-1] \o <<a, b>>[i]]
    BY <2>2
  <2>4. Len(<<a, b>>) = 2
    OBVIOUS
  <2>5. QED
    BY <2>3, <2>4
<1>2. flat = [i \in 1..Len(<<a, b>>) |-> IF i = 1 THEN <<a, b>>[i] ELSE flat[i-1] \o <<a, b>>[i]]
  BY <1>1
<1> HIDE DEF flat
<1>3. flat = [i \in 1..2 |-> IF i = 1 THEN a ELSE flat[i-1] \o <<a, b>>[i]]
  <2>1. Len(<<a, b>>) = 2 /\ <<a, b>>[1] = a
    OBVIOUS
  <2>2. QED
    BY <1>2, <2>1
<1>4. flat[1] = a
  BY <1>3
<1>5. flat[2] = flat[1] \o b
  <2>1. flat[2] = flat[2-1] \o <<a, b>>[2]
    BY <1>3
  <2>2. QED
    BY <2>1
<1>6. FlattenSeq(<<a, b>>) = flat[2]
  BY DEF FlattenSeq, flat
<1>7. QED
  BY <1>4, <1>5, <1>6

LEMMA FlattenedOne ==
  ASSUME NEW a
  PROVE  FlattenSeq(<<a>>) = a
<1> DEFINE flat == CHOOSE g : g = [i \in 1..Len(<<a>>) |-> IF i = 1 THEN <<a>>[i] ELSE g[i-1] \o <<a>>[i]]
<1>1. \E g : g = [i \in 1..Len(<<a>>) |-> IF i = 1 THEN <<a>>[i] ELSE g[i-1] \o <<a>>[i]]
  <2> DEFINE w == [i \in 1..1 |-> a]
  <2>1. w = [i \in 1..1 |-> IF i = 1 THEN <<a>>[i] ELSE w[i-1] \o <<a>>[i]]
    OBVIOUS
  <2>2. Len(<<a>>) = 1
    OBVIOUS
  <2>3. QED
    BY <2>1, <2>2
<1>2. flat = [i \in 1..Len(<<a>>) |-> IF i = 1 THEN <<a>>[i] ELSE flat[i-1] \o <<a>>[i]]
  BY <1>1
<1> HIDE DEF flat
<1>3. flat[1] = a
  BY <1>2
<1>4. FlattenSeq(<<a>>) = flat[1]
  BY DEF FlattenSeq, flat
<1>5. QED
  BY <1>3, <1>4

(* A function over 1..2, or over 1..1, as a tuple. *)
LEMMA AsPair ==
  ASSUME NEW f, NEW a, NEW b, f = [i \in 1..2 |-> f[i]], f[1] = a, f[2] = b
  PROVE  f = <<a, b>>
<1>1. <<a, b>> = [i \in 1..2 |-> <<a, b>>[i]]
  OBVIOUS
<1>2. \A i \in 1..2 : f[i] = <<a, b>>[i]
  OBVIOUS
<1>3. QED
  BY <1>1, <1>2

LEMMA AsOne ==
  ASSUME NEW f, NEW a, f = [i \in 1..1 |-> f[i]], f[1] = a
  PROVE  f = <<a>>
<1>1. <<a>> = [i \in 1..1 |-> <<a>>[i]]
  OBVIOUS
<1>2. \A i \in 1..1 : f[i] = <<a>>[i]
  OBVIOUS
<1>3. QED
  BY <1>1, <1>2

(* What a mode stages is the plan. *)
LEMMA RepeatedTwo ==
  Repeated(Accuracy, Repetitions) = [r \in 1..Repetitions |-> "page"] \o [r \in 1..Repetitions |-> "terminal"]
<1> DEFINE f == [i \in 1..Len(Accuracy) |-> [r \in 1..Repetitions |-> Accuracy[i]]]
<1>1. f = <<[r \in 1..Repetitions |-> "page"], [r \in 1..Repetitions |-> "terminal"]>>
  <2>1. /\ Len(Accuracy) = 2
        /\ [r \in 1..Repetitions |-> Accuracy[1]] = [r \in 1..Repetitions |-> "page"]
        /\ [r \in 1..Repetitions |-> Accuracy[2]] = [r \in 1..Repetitions |-> "terminal"]
    BY DEF Accuracy
  <2>2. f = [i \in 1..2 |-> f[i]] /\ f[1] = [r \in 1..Repetitions |-> "page"]
                               /\ f[2] = [r \in 1..Repetitions |-> "terminal"]
    BY <2>1
  <2> HIDE DEF f
  <2>3. QED
    BY <2>2, AsPair
<1>2. /\ [r \in 1..Repetitions |-> "page"] \in Seq({"page", "terminal"})
      /\ [r \in 1..Repetitions |-> "terminal"] \in Seq({"page", "terminal"})
  BY EvalAssumption
<1>3. Repeated(Accuracy, Repetitions) = FlattenSeq(f)
  BY DEF Repeated
<1> HIDE DEF f
<1>4. QED
  BY <1>1, <1>2, <1>3, FlattenedPair

LEMMA RepeatedOne == Repeated(<<"page">>, Repetitions) = [r \in 1..Repetitions |-> "page"]
<1> DEFINE f == [i \in 1..Len(<<"page">>) |-> [r \in 1..Repetitions |-> <<"page">>[i]]]
<1>1. f = <<[r \in 1..Repetitions |-> "page"]>>
  <2>1. Len(<<"page">>) = 1 /\ [r \in 1..Repetitions |-> <<"page">>[1]] = [r \in 1..Repetitions |-> "page"]
    OBVIOUS
  <2>2. f = [i \in 1..1 |-> f[i]] /\ f[1] = [r \in 1..Repetitions |-> "page"]
    BY <2>1
  <2> HIDE DEF f
  <2>3. QED
    BY <2>2, AsOne
<1>3. Repeated(<<"page">>, Repetitions) = FlattenSeq(f)
  BY DEF Repeated
<1> HIDE DEF f
<1>4. QED
  BY <1>1, <1>3, FlattenedOne

LEMMA RepeatedNone == Repeated(<<>>, Repetitions) = <<>>
<1> DEFINE f == [i \in 1..Len(<<>>) |-> [r \in 1..Repetitions |-> <<>>[i]]]
<1>1. f = <<>>
  OBVIOUS
<1>2. Repeated(<<>>, Repetitions) = FlattenSeq(f)
  BY DEF Repeated
<1> HIDE DEF f
<1>3. FlattenSeq(<<>>) = <<>>
  BY DEF FlattenSeq
<1>4. QED
  BY <1>1, <1>2, <1>3

LEMMA LimitedPair ==
  ASSUME NEW a, NEW b, NEW limit \in Limits \cup {None}
  PROVE  LimitedTo(<<a, b>>, limit) =
           IF Within(limit, 2) THEN <<a, b>> ELSE IF limit = 1 THEN <<a>> ELSE <<>>
<1>1. CASE limit = None
  BY <1>1 DEF LimitedTo, Within
<1>2. CASE limit # None
  <2>1. limit \in Nat
    BY <1>2, OptionsAssumption
  <2>2. CASE limit >= 2
    <3>1. LimitedTo(<<a, b>>, limit) = SubSeq(<<a, b>>, 1, 2)
      BY <1>2, <2>1, <2>2 DEF LimitedTo
    <3>2. QED
      BY <3>1, <2>1, <2>2, <1>2 DEF Within
  <2>3. CASE limit = 1
    <3>1. LimitedTo(<<a, b>>, limit) = SubSeq(<<a, b>>, 1, 1)
      BY <1>2, <2>1, <2>3 DEF LimitedTo
    <3>2. SubSeq(<<a, b>>, 1, 1) = <<a>>
      <4>1. <<a, b>> \in Seq({a, b}) /\ <<a>> \in Seq({a, b}) /\ Len(<<a, b>>) = 2 /\ Len(<<a>>) = 1
        OBVIOUS
      <4>2. /\ SubSeq(<<a, b>>, 1, 1) \in Seq({a, b})
            /\ Len(SubSeq(<<a, b>>, 1, 1)) = 1
            /\ SubSeq(<<a, b>>, 1, 1)[1] = a
        BY <4>1, SubSeqProperties
      <4>3. <<a>>[1] = a
        OBVIOUS
      <4>4. \A i \in 1..Len(SubSeq(<<a, b>>, 1, 1)) : SubSeq(<<a, b>>, 1, 1)[i] = <<a>>[i]
        BY <4>2, <4>3
      <4>5. Len(SubSeq(<<a, b>>, 1, 1)) = Len(<<a>>)
        BY <4>1, <4>2
      <4>6. QED
        BY <4>1, <4>2, <4>4, <4>5, SeqEqual
    <3>3. QED
      BY <3>1, <3>2, <2>1, <2>3, <1>2 DEF Within
  <2>4. CASE limit = 0
    <3>1. LimitedTo(<<a, b>>, limit) = SubSeq(<<a, b>>, 1, 0)
      BY <1>2, <2>1, <2>4 DEF LimitedTo
    <3>2. SubSeq(<<a, b>>, 1, 0) = <<>>
      OBVIOUS
    <3>3. QED
      BY <3>1, <3>2, <2>1, <2>4, <1>2 DEF Within
  <2>5. QED
    BY <2>1, <2>2, <2>3, <2>4
<1>3. QED
  BY <1>1, <1>2

LEMMA PlannedSizes ==
  ASSUME NEW mode, NEW limit \in Limits \cup {None}
  PROVE  /\ Pages(mode, limit) \in Nat /\ Terminals(mode, limit) \in Nat /\ Bars(mode, limit) \in 0..2
         /\ Planned(mode, limit) \in Nat
         /\ Pages(mode, limit) <= Repetitions /\ Terminals(mode, limit) <= Repetitions
<1>1. limit = None \/ limit \in Nat
  BY OptionsAssumption
<1>2. Pages(mode, limit) \in Nat /\ Terminals(mode, limit) \in Nat /\ Bars(mode, limit) \in 0..2
  BY <1>1, EvalAssumption DEF Pages, Terminals, Bars, Within
<1>3. Pages(mode, limit) <= Repetitions /\ Terminals(mode, limit) <= Repetitions
  BY <1>1, EvalAssumption DEF Pages, Terminals
<1>4. QED
  BY <1>2, <1>3 DEF Planned

LEMMA StagesScored ==
  ASSUME NEW limit \in Limits \cup {None}
  PROVE  LET t == Repeated(LimitedTo(Accuracy, limit), Repetitions)
             pages == Pages("accuracy", limit)
             all == pages + Terminals("accuracy", limit)
         IN  /\ t \in Seq({"page", "terminal"}) /\ Len(t) = all
             /\ \A i \in 1..all : t[i] = IF i <= pages THEN "page" ELSE "terminal"
<1> DEFINE t == Repeated(LimitedTo(Accuracy, limit), Repetitions)
<1> DEFINE p == [r \in 1..Repetitions |-> "page"]
<1> DEFINE q == [r \in 1..Repetitions |-> "terminal"]
<1>1. LimitedTo(Accuracy, limit) = IF Within(limit, 2) THEN <<"page", "terminal">>
                                   ELSE IF limit = 1 THEN <<"page">> ELSE <<>>
  BY LimitedPair DEF Accuracy
<1>2. /\ p \in Seq({"page", "terminal"}) /\ Len(p) = Repetitions
      /\ q \in Seq({"page", "terminal"}) /\ Len(q) = Repetitions
  BY EvalAssumption
<1>3. /\ \A i \in 1..Repetitions : p[i] = "page"
      /\ \A i \in 1..Repetitions : q[i] = "terminal"
  OBVIOUS
<1>4. Repetitions \in Nat \ {0}
  BY EvalAssumption
<1>5. CASE Within(limit, 2)
  <2>1. t = p \o q
    BY <1>1, <1>5, RepeatedTwo DEF Accuracy
  <2>2. Pages("accuracy", limit) = Repetitions /\ Terminals("accuracy", limit) = Repetitions
    BY <1>5, OptionsAssumption DEF Pages, Terminals, Within
  <2> HIDE DEF t, p, q
  <2>3. t \in Seq({"page", "terminal"}) /\ Len(t) = Repetitions + Repetitions
    BY <2>1, <1>2, ConcatProperties
  <2>4. \A i \in 1..Repetitions + Repetitions : t[i] = IF i <= Repetitions THEN p[i] ELSE q[i - Repetitions]
    BY <2>1, <1>2, ConcatProperties
  <2>5. \A i \in 1..Repetitions + Repetitions : t[i] = IF i <= Repetitions THEN "page" ELSE "terminal"
    BY <2>4, <1>3, <1>4
  <2>6. QED
    BY <2>2, <2>3, <2>5 DEF t
<1>6. CASE ~Within(limit, 2) /\ limit = 1
  <2>1. t = p
    BY <1>1, <1>6, RepeatedOne
  <2>2. Pages("accuracy", limit) = Repetitions /\ Terminals("accuracy", limit) = 0
    BY <1>6 DEF Pages, Terminals, Within
  <2> HIDE DEF t, p, q
  <2>3. QED
    BY <2>1, <2>2, <1>2, <1>3, <1>4 DEF t
<1>7. CASE ~Within(limit, 2) /\ limit # 1
  <2>1. t = <<>>
    BY <1>1, <1>7, RepeatedNone
  <2>2. limit = 0
    BY <1>7, OptionsAssumption DEF Within
  <2>3. Pages("accuracy", limit) = 0 /\ Terminals("accuracy", limit) = 0
    BY <1>7, <2>2 DEF Pages, Terminals, Within
  <2> HIDE DEF t, p, q
  <2>4. QED
    BY <2>1, <2>3 DEF t
<1>8. QED
  BY <1>5, <1>6, <1>7

LEMMA StagesBars ==
  ASSUME NEW limit \in Limits \cup {None}
  PROVE  LET t == LimitedTo(Toolbars, limit)
         IN  /\ t \in Seq({"normal", "incognito"}) /\ Len(t) = Bars("toolbar", limit)
             /\ \A i \in 1..Bars("toolbar", limit) : t[i] = IF i = 1 THEN "normal" ELSE "incognito"
<1>1. LimitedTo(Toolbars, limit) = IF Within(limit, 2) THEN <<"normal", "incognito">>
                                   ELSE IF limit = 1 THEN <<"normal">> ELSE <<>>
  BY LimitedPair DEF Toolbars
<1>2. limit = None \/ limit \in Nat
  BY OptionsAssumption
<1>3. Bars("toolbar", limit) = IF Within(limit, 2) THEN 2 ELSE IF limit = 1 THEN 1 ELSE 0
  <2>1. CASE limit = None
    BY <2>1 DEF Bars, Within
  <2>2. CASE limit \in Nat /\ limit # None
    <3>1. Within(limit, 2) <=> limit >= 2
      BY <2>2 DEF Within
    <3>2. Bars("toolbar", limit) = IF Within(limit, 2) THEN 2 ELSE limit
      BY DEF Bars
    <3>3. limit >= 2 \/ limit = 1 \/ limit = 0
      BY <2>2
    <3>4. QED
      BY <3>1, <3>2, <3>3
  <2>3. QED
    BY <1>2, <2>1, <2>2
<1>4. CASE Within(limit, 2)
  BY <1>1, <1>3, <1>4
<1>5. CASE ~Within(limit, 2) /\ limit = 1
  BY <1>1, <1>3, <1>5
<1>6. CASE ~Within(limit, 2) /\ limit # 1
  BY <1>1, <1>3, <1>6
<1>7. QED
  BY <1>4, <1>5, <1>6

Kinds == ToSet(Accuracy) \cup ToSet(Toolbars)
LEMMA StagedIsThePlan ==
  ASSUME NEW x, x.limit \in Limits \cup {None}
  PROVE  IsRest(x, Staged(x, Repetitions)) /\ Len(Staged(x, Repetitions)) = Planned(x.mode, x.limit)
<1> DEFINE limit == x.limit
<1> DEFINE a == IF x.mode \in {"accuracy", "all"} THEN Repeated(LimitedTo(Accuracy, limit), Repetitions) ELSE <<>>
<1> DEFINE b == IF x.mode \in {"toolbar", "all"} THEN LimitedTo(Toolbars, limit) ELSE <<>>
<1> DEFINE pages == Pages(x.mode, limit)
<1> DEFINE scored == pages + Terminals(x.mode, limit)
<1> DEFINE bars == Bars(x.mode, limit)
<1>1. Staged(x, Repetitions) = a \o b
  BY DEF Staged
<1>2. /\ pages \in Nat /\ Terminals(x.mode, limit) \in Nat /\ bars \in 0..2 /\ scored \in Nat
      /\ pages <= scored
  BY PlannedSizes
<1>3. a \in Seq(Kinds) /\ Len(a) = scored
  <2>1. CASE x.mode \in {"accuracy", "all"}
    <3>1. pages = Pages("accuracy", limit) /\ Terminals(x.mode, limit) = Terminals("accuracy", limit)
      BY <2>1 DEF Pages, Terminals
    <3>2. a \in Seq({"page", "terminal"}) /\ Len(a) = scored
      BY <2>1, <3>1, StagesScored
    <3> HIDE DEF a
    <3>3. QED
      BY <3>2, CaseNames, SeqMonotonic DEF Kinds
  <2>2. CASE x.mode \notin {"accuracy", "all"}
    BY <2>2 DEF Pages, Terminals
  <2>3. QED
    BY <2>1, <2>2
<1>4. \A i \in 1..scored : a[i] = IF i <= pages THEN "page" ELSE "terminal"
  <2>1. CASE x.mode \in {"accuracy", "all"}
    <3>1. pages = Pages("accuracy", limit) /\ Terminals(x.mode, limit) = Terminals("accuracy", limit)
      BY <2>1 DEF Pages, Terminals
    <3>2. QED
      BY <2>1, <3>1, StagesScored
  <2>2. CASE x.mode \notin {"accuracy", "all"}
    BY <2>2 DEF Pages, Terminals
  <2>3. QED
    BY <2>1, <2>2
<1>5. b \in Seq(Kinds) /\ Len(b) = bars
  <2>1. CASE x.mode \in {"toolbar", "all"}
    <3>1. bars = Bars("toolbar", limit)
      BY <2>1 DEF Bars
    <3>2. b \in Seq({"normal", "incognito"}) /\ Len(b) = bars
      BY <2>1, <3>1, StagesBars
    <3> HIDE DEF b
    <3>3. QED
      BY <3>2, CaseNames, SeqMonotonic DEF Kinds
  <2>2. CASE x.mode \notin {"toolbar", "all"}
    BY <2>2 DEF Bars
  <2>3. QED
    BY <2>1, <2>2
<1>6. \A i \in 1..bars : b[i] = IF i = 1 THEN "normal" ELSE "incognito"
  <2>1. CASE x.mode \in {"toolbar", "all"}
    <3>1. bars = Bars("toolbar", limit)
      BY <2>1 DEF Bars
    <3>2. QED
      BY <2>1, <3>1, StagesBars
  <2>2. CASE x.mode \notin {"toolbar", "all"}
    BY <2>2 DEF Bars
  <2>3. QED
    BY <2>1, <2>2
<1>16. Planned(x.mode, limit) = scored + bars
  BY DEF Planned
<1>17. \A i : PlanAt(x.mode, limit, i) = IF i <= pages THEN "page" ELSE IF i <= scored THEN "terminal"
                                         ELSE IF i = scored + 1 THEN "normal" ELSE "incognito"
  BY DEF PlanAt
<1> HIDE DEF a, b, pages, scored, bars
<1>7. /\ a \o b \in Seq(Kinds) /\ Len(a \o b) = scored + bars
      /\ \A i \in 1..scored + bars : (a \o b)[i] = IF i <= scored THEN a[i] ELSE b[i - scored]
  BY <1>3, <1>5, ConcatProperties
<1>9. \A i \in 1..scored + bars : (a \o b)[i] = PlanAt(x.mode, limit, i)
  <2> SUFFICES ASSUME NEW i \in 1..scored + bars PROVE (a \o b)[i] = PlanAt(x.mode, limit, i)
    OBVIOUS
  <2>1. CASE i <= scored
    BY <2>1, <1>2, <1>4, <1>7, <1>17
  <2>2. CASE ~(i <= scored)
    <3>1. i \in Nat /\ i - scored \in 1..bars /\ (a \o b)[i] = b[i - scored]
      BY <2>2, <1>2, <1>7
    <3>2. QED
      <4>1. b[i - scored] = IF i - scored = 1 THEN "normal" ELSE "incognito"
        BY <3>1, <1>6
      <4>2. ~(i <= pages) /\ (i - scored = 1 <=> i = scored + 1)
        BY <2>2, <3>1, <1>2
      <4>3. QED
        BY <2>2, <3>1, <4>1, <4>2, <1>17
  <2>3. QED
    BY <2>1, <2>2
<1> DEFINE t == a \o b
<1>10. Staged(x, Repetitions) = t /\ Len(t) = Planned(x.mode, x.limit) /\ t \in Seq(Kinds)
  BY <1>1, <1>7, <1>16
<1>11. Took(x, t) = 0 /\ Planned(x.mode, x.limit) \in Nat
  BY <1>2, <1>10, <1>16 DEF Took
<1>12. \A i \in 1..Len(t) : t[i] = PlanAt(x.mode, x.limit, Took(x, t) + i)
  <2> SUFFICES ASSUME NEW i \in 1..Len(t) PROVE t[i] = PlanAt(x.mode, x.limit, Took(x, t) + i)
    OBVIOUS
  <2>1. i \in 1..scored + bars /\ 0 + i = i
    BY <1>7
  <2>2. QED
    BY <2>1, <1>9, <1>11
<1> HIDE DEF t
<1>13. QED
  BY <1>10, <1>11, <1>12 DEF IsRest, Kinds

-----------------------------------------------------------------------------
(* The two parsers.                                                        *)

LEMMA EnvFields ==
  ASSUME NEW o \in Typed
  PROVE  LET env == EvalEnv(o) IN
         /\ env.mode = o.mode /\ env.limit = o.limit /\ env.expect = o.expect
         /\ env.host = o.host /\ env.position = o.position
         /\ env.reveal = "1" <=> o.reveal
         /\ env.notSecure = "1" <=> o.notSecure
BY OptionsAssumption DEF Typed, EvalEnv

LEMMA OlderEnvFields ==
  ASSUME NEW o \in Typed
  PROVE  LET env == [EvalEnv(o) EXCEPT !.notSecure = None] IN
         /\ env.mode = o.mode /\ env.limit = o.limit /\ env.expect = o.expect
         /\ env.host = o.host /\ env.position = o.position
         /\ env.reveal = "1" <=> o.reveal
         /\ env.notSecure # "1"
BY OptionsAssumption DEF Typed, EvalEnv

(* What the bundle makes of an environment that says what o says. *)
LEMMA SettingsOf ==
  ASSUME NEW o \in Typed, NEW env, NEW notSecure \in BOOLEAN,
         env.mode = o.mode, env.limit = o.limit, env.expect = o.expect,
         env.host = o.host, env.position = o.position,
         env.reveal = "1" <=> o.reveal,
         env.notSecure = "1" <=> notSecure
  PROVE  LET r == ReadEvalSettings(env)
             p == [o EXCEPT !.notSecure = notSecure]
         IN  /\ ParseEvalArgs(p) => /\ r \in EvalSettings
                                    /\ r.mode = o.mode /\ r.limit = o.limit /\ r.expect = o.expect
                                    /\ r.reveal = o.reveal /\ r.notSecure = notSecure
                                    /\ r.reveal => MayReveal(r.mode, r.expect, r.notSecure)
             /\ ~ParseEvalArgs(p) => r = None
<1> DEFINE p == [o EXCEPT !.notSecure = notSecure]
<1> DEFINE passes == /\ ReadsEnv(env)
                     /\ env.limit # None => env.mode \in LimitsCases
                     /\ env.expect # None => env.mode \in ObservesWindows
                     /\ notSecure => env.mode = "toolbar" /\ env.host = None
                     /\ env.host # None => env.mode \in ObservesWindows
                     /\ o.reveal => MayReveal(env.mode, env.expect, notSecure)
<1> DEFINE result == [mode |-> env.mode, limit |-> env.limit, expect |-> env.expect,
                      reveal |-> o.reveal, notSecure |-> notSecure]
<1>1. o.reveal \in BOOLEAN /\ (env.reveal = "1") = o.reveal /\ (env.notSecure = "1") = notSecure
  BY DEF Typed
<1>2. ReadEvalSettings(env) = IF passes THEN result ELSE None
  BY <1>1 DEF ReadEvalSettings
<1>3. /\ p.mode = o.mode /\ p.limit = o.limit /\ p.expect = o.expect /\ p.host = o.host
      /\ p.position = o.position /\ p.reveal = o.reveal /\ p.notSecure = notSecure
  BY DEF Typed
<1>4. ReadsEnv(env) <=> ParsesNumbers(p) /\ ParsesWords(p)
  BY <1>3 DEF ReadsEnv, ParsesNumbers, ParsesWords
<1>5. MayReveal(env.mode, env.expect, notSecure) <=> MayRevealArgs(p)
  BY <1>3 DEF MayReveal, MayRevealArgs
<1>6. passes <=> ParseEvalArgs(p)
  BY <1>3, <1>4, <1>5 DEF ParseEvalArgs
<1>7. ParseEvalArgs(p) => result \in EvalSettings
  BY <1>1, <1>3 DEF ParseEvalArgs, ParsesNumbers, ParsesWords, Typed, EvalSettings
<1>8. passes => (result.reveal => MayReveal(result.mode, result.expect, result.notSecure))
  OBVIOUS
<1> HIDE DEF passes, p
<1>9. QED
  BY <1>2, <1>6, <1>7, <1>8 DEF p

(* Whatever is typed, the bundle accepts it exactly when the terminal      *)
(* program does: config.ts and reader-eval.mjs are one fence.              *)
THEOREM ParsersAgree == \A o \in Typed : ReadEvalSettings(EvalEnv(o)) # None <=> ParseEvalArgs(o)
<1> SUFFICES ASSUME NEW o \in Typed PROVE ReadEvalSettings(EvalEnv(o)) # None <=> ParseEvalArgs(o)
  OBVIOUS
<1>1. o.notSecure \in BOOLEAN /\ [o EXCEPT !.notSecure = o.notSecure] = o
  BY DEF Typed
<1>2. /\ ParseEvalArgs(o) => ReadEvalSettings(EvalEnv(o)) \in EvalSettings
      /\ ~ParseEvalArgs(o) => ReadEvalSettings(EvalEnv(o)) = None
  BY <1>1, EnvFields, SettingsOf
<1>3. QED
  BY <1>2, EvalAssumption

LEMMA WithSchema ==
  ASSUME NEW r \in EvalSettings, NEW n \in {Schema - 1, Schema}
  PROVE  LET x == BuiltWith(n, r) IN
         /\ x \in Settings
         /\ x.mode = r.mode /\ x.limit = r.limit /\ x.expect = r.expect
         /\ x.reveal = r.reveal /\ x.notSecure = r.notSecure /\ x.schema = n
BY DEF BuiltWith, EvalSettings, Settings

-----------------------------------------------------------------------------
(* A step of the specification, with the guard of the bundle's own.        *)

StepOfTerminal == Start \/ Watch \/ SweepReveal \/ PrintFails \/ Finish \/ Clear \/ Interrupted \/ TerminalKilled
StepOfBundle == Configure \/ Refuses \/ SpawnHelper \/ HelperReady \/ Permission \/ NextCase \/ AwaitStagedWindow
                \/ ObserveFront \/ ObserveEnds \/ ReadApproved \/ TearDown \/ Gate \/ GateRemoves
                \/ Results \/ Throws \/ End \/ Shutdown
StepAround == HelperDies \/ BeatGrowsOld \/ BundleKilled

LEMMA Steps == [Next]_vars => StepOfTerminal \/ (Undisturbed /\ StepOfBundle) \/ StepAround \/ UNCHANGED vars
BY DEF Next, Terminal, Bundle, Fails, Rests, StepOfTerminal, StepOfBundle, StepAround

(* What the bundle does when it reads its settings.                        *)
LEMMA ConfigureDoes ==
  ASSUME IInv, Configure
  PROVE  /\ bpc = "config" /\ s = None
         /\ \/ /\ out' = Error("REFUSED") /\ bpc' = "quit" /\ s' = s /\ todo' = todo
               /\ tpc # "absent" => opts.notSecure
            \/ /\ bpc' = "place" /\ out' = out
               /\ SetFor(s', opts') /\ ParseEvalArgs(opts')
               /\ todo' = Staged(s', Repetitions)
         /\ opts' \in Typed /\ opts' = [opts EXCEPT !.host = None, !.position = None]
         /\ tpc # "absent" => ParseEvalArgs(opts')
<1> USE DEF IInv
<1>1. bpc = "config" /\ s = None /\ opts \in Typed /\ (tpc # "absent" => ParseEvalArgs(opts))
  BY DEF Configure, Options, Places
<1>2. PICK older \in {FALSE, opts.notSecure /\ tpc # "absent"} :
         LET r == ReadEvalSettings(Known(EvalEnv(opts), older))
         IN  IF r = None THEN out' = Error("REFUSED") /\ bpc' = "quit" /\ UNCHANGED <<s, todo>>
             ELSE /\ s' = BuiltWith(IF older THEN Schema - 1 ELSE Schema, r)
                  /\ todo' = Staged(r, Repetitions) /\ bpc' = "place" /\ UNCHANGED out
  BY DEF Configure
<1>3. opts' = [opts EXCEPT !.host = None, !.position = None]
  BY DEF Configure
<1>4. opts.notSecure \in BOOLEAN /\ older \in BOOLEAN
  BY <1>1 DEF Typed
<1> DEFINE notSecure == opts.notSecure /\ ~older
<1> DEFINE env == Known(EvalEnv(opts), older)
<1> DEFINE r == ReadEvalSettings(env)
<1> DEFINE p == [opts EXCEPT !.notSecure = notSecure]
<1>5. /\ env.mode = opts.mode /\ env.limit = opts.limit /\ env.expect = opts.expect
      /\ env.host = opts.host /\ env.position = opts.position
      /\ env.reveal = "1" <=> opts.reveal
      /\ env.notSecure = "1" <=> notSecure
  <2>1. CASE older
    BY <1>1, <2>1, OlderEnvFields DEF Known
  <2>2. CASE ~older
    BY <1>1, <2>2, EnvFields DEF Known
  <2>3. QED
    BY <2>1, <2>2
<1>6. notSecure \in BOOLEAN
  BY <1>4
<1>7. /\ ParseEvalArgs(p) => /\ r \in EvalSettings
                             /\ r.mode = opts.mode /\ r.limit = opts.limit /\ r.expect = opts.expect
                             /\ r.reveal = opts.reveal /\ r.notSecure = notSecure
                             /\ r.reveal => MayReveal(r.mode, r.expect, r.notSecure)
      /\ ~ParseEvalArgs(p) => r = None
  <2> HIDE DEF notSecure, env
  <2>1. QED
    BY <1>1, <1>5, <1>6, SettingsOf
<1>8. ~older => p = opts
  BY <1>1, <1>4 DEF Typed
<1>9. older => tpc # "absent" /\ opts.notSecure /\ ParseEvalArgs(opts)
  BY <1>1, <1>2
<1>10. opts' \in Typed
  BY <1>1, <1>3 DEF Typed
<1>11. ParseEvalArgs(opts) => ParseEvalArgs(opts')
  BY <1>1, <1>3, OptionsAssumption
     DEF Typed, ParseEvalArgs, ParsesNumbers, ParsesWords, MayRevealArgs
<1>12. /\ opts'.mode = opts.mode /\ opts'.limit = opts.limit /\ opts'.expect = opts.expect
       /\ opts'.reveal = opts.reveal /\ opts'.notSecure = opts.notSecure
  BY <1>1, <1>3 DEF Typed
<1>13. CASE r = None
  <2>1. out' = Error("REFUSED") /\ bpc' = "quit" /\ s' = s /\ todo' = todo
    BY <1>2, <1>13
  <2>2. ~ParseEvalArgs(p)
    BY <1>7, <1>13, EvalAssumption
  <2>3. tpc # "absent" => older
    BY <1>1, <1>8, <2>2, <1>4
  <2>4. QED
    BY <1>1, <1>3, <1>9, <1>10, <1>11, <2>1, <2>3
<1>14. CASE r # None
  <2> DEFINE n == IF older THEN Schema - 1 ELSE Schema
  <2>1. s' = BuiltWith(n, r) /\ todo' = Staged(r, Repetitions) /\ bpc' = "place" /\ out' = out
    BY <1>2, <1>14
  <2>2. /\ r \in EvalSettings
        /\ r.mode = opts.mode /\ r.limit = opts.limit /\ r.expect = opts.expect
        /\ r.reveal = opts.reveal /\ r.notSecure = notSecure
        /\ r.reveal => MayReveal(r.mode, r.expect, r.notSecure)
    BY <1>7, <1>14
  <2>3. ParseEvalArgs(opts)
    BY <1>1, <1>7, <1>8, <1>9, <1>14, <1>4
  <2>4. n \in {Schema - 1, Schema} /\ (n = Schema => ~older)
    BY <1>4 DEF Schema
  <2> HIDE DEF n, r
  <2>5. /\ s' \in Settings
        /\ s'.mode = r.mode /\ s'.limit = r.limit /\ s'.expect = r.expect
        /\ s'.reveal = r.reveal /\ s'.notSecure = r.notSecure /\ s'.schema = n
    BY <2>1, <2>2, <2>4, WithSchema
  <2>6. SetFor(s', opts')
    BY <1>4, <1>12, <2>2, <2>4, <2>5 DEF SetFor
  <2>7. Staged(r, Repetitions) = Staged(s', Repetitions)
    BY <2>5 DEF Staged
  <2>8. QED
    BY <1>1, <1>3, <1>10, <1>11, <2>1, <2>3, <2>6, <2>7
<1>15. QED
  BY <1>13, <1>14

-----------------------------------------------------------------------------
(* Each part of the invariant is kept.                                     *)

(* Where the two processes can be. *)
LEMMA PlacesKeep == ASSUME IInv, [Next]_vars PROVE Places'
<1> USE DEF Runs, Begins, Measures, Closes, Stops, InGate, Clearing, RevealFileNames
<1>1. Places /\ opts \in Typed
  BY DEF IInv, Options
<1>2. ASSUME StepOfTerminal PROVE Places'
  <2>1. CASE Start
    BY <1>1, <2>1 DEF Places, Start, WatchPlanFor, bVars, Typed
  <2>2. CASE Watch \/ SweepReveal
    <3>1. /\ tpc \in {"loop", "claim", "print", "remove"}
          /\ tpc' \in {"loop", "claim", "print", "remove", "wait"}
          /\ UNCHANGED <<opts, tAt, killed, bpc, bAt>>
      BY <2>2 DEF Watch, SweepReveal, AfterSweep, bVars
    <3>2. QED
      BY <1>1, <3>1 DEF Places
  <2>3. CASE PrintFails \/ Finish \/ Interrupted \/ TerminalKilled
    BY <1>1, <2>3 DEF Places, PrintFails, Finish, Interrupted, TerminalKilled, bVars
  <2>4. CASE Clear
    BY <1>1, <2>4 DEF Places, Clear, bVars
  <2>5. QED
    BY <1>2, <2>1, <2>2, <2>3, <2>4 DEF StepOfTerminal
<1>3. ASSUME StepOfBundle PROVE Places'
  <2> USE DEF bStays, bOwn, tVars
  <2>1. CASE Configure
    <3>1. opts'.reveal = opts.reveal
      BY <2>1, <1>1 DEF Configure, Typed
    <3>2. bpc' \in {"place", "quit"}
      BY <2>1, ConfigureDoes
    <3>3. bpc = "config" /\ UNCHANGED <<bAt, killed, tVars>>
      BY <2>1 DEF Configure
    <3>4. QED
      BY <1>1, <3>1, <3>2, <3>3 DEF Places
  <2>2. CASE Refuses \/ SpawnHelper \/ HelperReady \/ Permission
    BY <1>1, <2>2 DEF Places, Refuses, SpawnHelper, HelperReady, Permission
  <2>3. CASE NextCase \/ AwaitStagedWindow
    BY <1>1, <2>3 DEF Places, NextCase, AwaitStagedWindow, Recognised
  <2>4. CASE ObserveFront \/ ObserveEnds
    BY <1>1, <2>4 DEF Places, ObserveFront, ObserveEnds, Recognised
  <2>5. CASE ReadApproved \/ TearDown
    BY <1>1, <2>5 DEF Places, ReadApproved, Answered, NotAnswered, TearDown
  <2>6. CASE Gate \/ GateRemoves
    <3>1. CASE Gate
      <4>1. bpc \in {"gate", "write", "rename"} /\ UNCHANGED <<opts, tpc, tAt, killed, bAt>>
        BY <3>1 DEF Gate
      <4>2. bpc' \in {"observe", "down", "giveUp", "write", "rename"}
        BY <3>1 DEF Gate, AfterGate
      <4>3. QED
        BY <1>1, <4>1, <4>2 DEF Places
    <3>2. CASE GateRemoves
      <4>1. bpc \in Stops /\ UNCHANGED <<opts, tpc, tAt, killed>>
        BY <3>2 DEF GateRemoves, Removes
      <4>2. \/ bpc' = bpc /\ bAt < 3 /\ bAt' = bAt + 1
            \/ bpc' \in {"observe", "down", "shut"} /\ bAt' = 1
        BY <3>2 DEF GateRemoves, Removes, AfterGate
      <4>3. QED
        BY <1>1, <4>1, <4>2 DEF Places
    <3>3. QED
      BY <2>6, <3>1, <3>2
  <2>7. CASE Results \/ Throws \/ End \/ Shutdown
    BY <1>1, <2>7 DEF Places, Results, Throws, End, Shutdown
  <2>8. QED
    BY <1>3, <2>1, <2>2, <2>3, <2>4, <2>5, <2>6, <2>7 DEF StepOfBundle
<1>4. ASSUME StepAround PROVE Places'
  BY <1>1, <1>4 DEF StepAround, HelperDies, BeatGrowsOld, BundleKilled, Places, tVars, bVars
<1>5. CASE UNCHANGED vars
  BY <1>1, <1>5 DEF vars, Places, tVars, bVars
<1>6. QED
  BY <1>2, <1>3, <1>4, <1>5, Steps

(* The options and the settings. *)
LEMMA OptionsKeep == ASSUME IInv, [Next]_vars PROVE Options'
<1> USE DEF Runs, Begins, Measures, Closes, InGate
<1>1. Options /\ Places
  BY DEF IInv
<1>2. CASE Configure
  <2>1. UNCHANGED tpc /\ bpc = "config" /\ bpc' \in {"quit", "place"}
    BY <1>2, ConfigureDoes DEF Configure, tVars
  <2>2. QED
    BY <1>2, <2>1, ConfigureDoes DEF Options
<1>3. CASE ~Configure
  <2>1. UNCHANGED <<opts, s>>
    BY <1>3, Steps DEF StepOfTerminal, Start, Watch, SweepReveal, PrintFails, Finish, Clear, Interrupted,
         TerminalKilled, StepOfBundle, Refuses, SpawnHelper, HelperReady, Permission, NextCase, AwaitStagedWindow,
         ObserveFront, ObserveEnds, ReadApproved, TearDown, Gate, GateRemoves, Removes, Results, Throws, End,
         Shutdown, StepAround, HelperDies, BeatGrowsOld, BundleKilled, vars, bVars, bStays, bOwn
  <2>2. /\ bpc' # "off" => bpc # "off" \/ ParseEvalArgs(opts)
        /\ tpc' # "absent" => tpc # "absent"
        /\ bpc' \in Runs => bpc \in Runs
        /\ bpc' \in {"off", "config"} => bpc \in {"off", "config"}
    <3>1. CASE StepOfTerminal \/ StepAround \/ UNCHANGED vars
      BY <1>1, <3>1 DEF StepOfTerminal, Start, Watch, SweepReveal, PrintFails, Finish, Clear, Interrupted, Places,
         TerminalKilled, StepAround, HelperDies, BeatGrowsOld, BundleKilled, vars, bVars, tVars, AfterSweep
    <3>2. CASE Refuses \/ SpawnHelper \/ HelperReady \/ Permission \/ NextCase \/ AwaitStagedWindow
      BY <3>2 DEF Refuses, SpawnHelper, HelperReady, Permission, NextCase, AwaitStagedWindow, Recognised, bStays, tVars
    <3>3. CASE ObserveFront \/ ObserveEnds \/ ReadApproved \/ TearDown \/ Gate \/ GateRemoves
      BY <3>3 DEF ObserveFront, ObserveEnds, ReadApproved, Answered, NotAnswered, TearDown, Gate, GateRemoves, Removes,
           AfterGate, Recognised, bStays, bOwn, tVars
    <3>4. CASE Results \/ Throws \/ End \/ Shutdown
      BY <3>4 DEF Results, Throws, End, Shutdown, bStays, bOwn, tVars
    <3>5. QED
      BY <1>3, <3>1, <3>2, <3>3, <3>4, Steps DEF StepOfBundle
  <2>3. QED
    BY <1>1, <2>1, <2>2 DEF Options
<1>4. QED
  BY <1>2, <1>3

(* The window in hand, Chrome and the helper. *)
LEMMA InHandTerminal ==
  ASSUME IInv, StepOfTerminal \/ StepAround \/ UNCHANGED vars PROVE InHand'
<1> USE DEF InGate, AtStaged
<1>1. InHand /\ Places
  BY DEF IInv
<1>2. CASE StepOfTerminal \/ UNCHANGED vars
  <2>1. /\ UNCHANGED <<item, approval, shot, rows, chrome, helper, s>>
        /\ bpc' = bpc \/ (bpc = "off" /\ bpc' = "config")
        /\ killed' = killed \/ (killed = {} /\ "bundle" \notin killed')
    BY <1>1, <1>2 DEF StepOfTerminal, Start, Watch, SweepReveal, PrintFails, Finish, Clear, Interrupted, Places,
         TerminalKilled, vars, bVars, caseVars, hostVars
  <2>2. QED
    BY <1>1, <2>1 DEF InHand, Approve
<1>3. CASE StepAround
  <2>1. /\ UNCHANGED <<item, approval, shot, rows, chrome, s>>
        /\ \/ UNCHANGED <<bpc, killed, helper>>
           \/ UNCHANGED <<bpc, killed>> /\ helper' = "down" /\ bpc \notin {"off", "config", "place", "quit"}
           \/ bpc' = "gone" /\ killed' = {"bundle"} /\ UNCHANGED helper
    BY <1>3 DEF StepAround, HelperDies, BeatGrowsOld, BundleKilled, bVars, caseVars, hostVars
  <2>2. QED
    BY <1>1, <2>1 DEF InHand, Approve
<1>4. QED
  BY <1>2, <1>3

LEMMA InHandOfCase ==
  ASSUME IInv, NextCase \/ AwaitStagedWindow \/ ObserveFront \/ ObserveEnds \/ TearDown
  PROVE  InHand'
<1> USE DEF InGate, AtStaged
<1>1. InHand /\ Places /\ Rows /\ Counts /\ Cases = {"page", "terminal", "normal", "incognito", "plain", "private"}
  BY CaseNames DEF IInv
<1>2. CASE NextCase
  <2>1. /\ bpc = "next" /\ shot' = None /\ approval' = None
        /\ UNCHANGED <<s, todo, rows, helper, killed>>
    BY <1>2 DEF NextCase, bStays
  <2>2. CASE todo # <<>>
    <3>1. item' = Head(todo) /\ bpc' = "look" /\ chrome' \in {TRUE, chrome}
      BY <1>2, <2>2 DEF NextCase, OpenChrome, OpenTerminal
    <3>2. todo \in Seq({"page", "terminal", "normal", "incognito"})
      BY <1>1, <2>1, CaseNames DEF Counts, IsRest, Measures
    <3>3. Head(todo) \in {"page", "terminal", "normal", "incognito"}
      BY <2>2, <3>2
    <3>4. QED
      BY <1>1, <2>1, <3>1, <3>3 DEF InHand, Watched
  <2>3. CASE todo = <<>>
    <3>1. item' = None /\ bpc' \in {"observe", "results"} /\ UNCHANGED chrome
      BY <1>2, <2>3 DEF NextCase
    <3>2. QED
      BY <1>1, <2>1, <3>1 DEF InHand
  <2>4. QED
    BY <2>2, <2>3
<1>3. CASE AwaitStagedWindow
  <2>1. bpc = "look" /\ item \in Cases /\ item \notin Watched /\ UNCHANGED <<s, item, shot, helper, killed>>
    BY <1>1, <1>3 DEF AwaitStagedWindow, InHand, bStays
  <2>2. CASE Recognised(item) /\ UNCHANGED <<rows, tries, chrome>>
    <3>1. approval' \in Windows /\ Approve(approval', item) /\ bpc' = "read"
      BY <2>2 DEF Recognised
    <3>2. QED
      BY <1>1, <2>1, <2>2, <3>1 DEF InHand, Approve
  <2>3. CASE OpenAgain(item) /\ UNCHANGED <<bpc, rows, chrome, approval>>
    BY <1>1, <2>1, <2>3 DEF InHand, Approve
  <2>4. CASE bpc' = "down" /\ UNCHANGED <<chrome, approval>>
    BY <1>1, <2>1, <2>4 DEF InHand, Approve
  <2>5. QED
    BY <1>3, <2>2, <2>3, <2>4 DEF AwaitStagedWindow
<1>4. CASE ObserveFront
  <2>1. /\ bpc = "observe" /\ shot' = None /\ UNCHANGED <<s, rows, helper, chrome, killed>>
    BY <1>4 DEF ObserveFront, bStays, hostVars
  <2>2. PICK c \in Watched : ~Settled(c) /\ Recognised(c) /\ item' = c
    BY <1>4 DEF ObserveFront
  <2>3. approval' \in Windows /\ Approve(approval', item') /\ bpc' = "read"
    BY <2>2 DEF Recognised
  <2>4. rows[item'].n < ReadAttempts
    <3>1. c \in Cases
      BY <1>1, <2>2 DEF Watched
    <3>2. rows[c].n \in Nat /\ ~(rows[c].n >= ReadAttempts)
      BY <1>1, <2>2, <3>1 DEF Settled, Rows, Row
    <3>3. QED
      BY <2>2, <3>2, EvalAssumption
  <2>5. QED
    BY <1>1, <2>1, <2>2, <2>3, <2>4 DEF InHand, Watched, Approve
<1>5. CASE ObserveEnds
  <2>1. /\ bpc' = "results" /\ bpc = "observe" /\ item' = None /\ approval' = None /\ shot' = None
        /\ UNCHANGED <<s, rows, helper, killed, chrome>>
    BY <1>5 DEF ObserveEnds, bStays, hostVars
  <2>2. QED
    BY <1>1, <2>1 DEF InHand, Approve
<1>6. CASE TearDown
  <2>1. /\ bpc' = "next" /\ bpc = "down" /\ chrome' = FALSE
        /\ UNCHANGED <<s, rows, helper, killed, item, approval, shot>>
    BY <1>6 DEF TearDown, bStays, hostVars
  <2>2. QED
    BY <1>1, <2>1 DEF InHand, Approve
<1>7. QED
  BY <1>2, <1>3, <1>4, <1>5, <1>6

LEMMA InHandOfRead == ASSUME IInv, ReadApproved PROVE InHand'
<1> USE DEF InGate, AtStaged
<1>1. InHand /\ Places
  BY DEF IInv
<1>2. bpc = "read" /\ approval' = None /\ UNCHANGED <<killed, s, item, helper, chrome>>
  BY DEF ReadApproved, bStays, hostVars
<1>3. /\ shot' \in Windows \cup {None}
      /\ shot' # None => shot' = approval
  BY DEF ReadApproved, Answered, NotAnswered, Expected
<1>4. \/ bpc' = "gate" /\ s.reveal
      \/ bpc' = "observe" /\ item \in Watched
      \/ bpc' = "down" /\ item \notin Watched
  BY DEF ReadApproved, Answered, NotAnswered, RevealsNow
<1>5. shot' # None => Approve(shot', item)
  BY <1>1, <1>2, <1>3 DEF InHand
<1>6. QED
  BY <1>1, <1>2, <1>3, <1>4, <1>5 DEF InHand, Approve

LEMMA InHandAtEnds ==
  ASSUME IInv,
         Configure \/ Refuses \/ SpawnHelper \/ HelperReady \/ Permission \/ Gate \/ GateRemoves
         \/ Results \/ Throws \/ End \/ Shutdown
  PROVE  InHand'
<1> USE DEF InGate, AtStaged
<1>1. InHand /\ Places
  BY DEF IInv
<1>2. CASE Configure
  <2>1. bpc = "config" /\ bpc' \in {"quit", "place"}
    BY <1>2, ConfigureDoes
  <2>2. UNCHANGED <<item, approval, shot, rows, chrome, helper, killed>>
    BY <1>2 DEF Configure, hostVars
  <2>3. QED
    BY <1>1, <2>1, <2>2 DEF InHand, Approve
<1>3. CASE Refuses \/ SpawnHelper \/ HelperReady \/ Permission
  <2>1. /\ bpc \in {"place", "ready", "grant"} /\ bpc' \in {"quit", "ready", "grant", "end", "results", "next"}
        /\ bpc' = "quit" => bpc = "place" /\ UNCHANGED helper
        /\ UNCHANGED <<item, approval, shot, rows, chrome, killed, s>>
    BY <1>3 DEF Refuses, SpawnHelper, HelperReady, Permission, caseVars, hostVars, bStays
  <2>2. QED
    BY <1>1, <2>1 DEF InHand, Approve
<1>4. CASE Gate \/ GateRemoves
  <2>1. /\ UNCHANGED <<item, approval, shot, rows, chrome, helper, killed, s>>
        /\ bpc \in {"gate", "write", "rename", "giveUp"} =>
             \/ bpc' \in {"gate", "write", "rename", "giveUp"}
             \/ bpc' = "observe" /\ item \in Watched
             \/ bpc' = "down" /\ item \notin Watched
        /\ bpc \in {"gate", "write", "rename", "giveUp", "giveUpAtEnd"}
        /\ bpc = "giveUpAtEnd" => bpc' \in {"giveUpAtEnd", "shut"}
    BY <1>4 DEF Gate, GateRemoves, Removes, AfterGate, caseVars, hostVars, bStays, bOwn
  <2>2. CASE bpc = "giveUpAtEnd"
    BY <1>1, <2>1, <2>2 DEF InHand, Approve
  <2>3. CASE bpc # "giveUpAtEnd"
    <3>1. item \in Cases /\ s.reveal
      BY <1>1, <2>1, <2>3 DEF InHand
    <3>2. QED
      BY <1>1, <2>1, <2>3, <3>1 DEF InHand, Approve
  <2>4. QED
    BY <2>2, <2>3
<1>5. CASE Results \/ Throws \/ End
  <2>1. /\ UNCHANGED <<item, approval, shot, rows, killed, s, helper>>
        /\ bpc' \in {"end", "giveUpAtEnd", "shut"}
        /\ bpc \notin {"off", "config", "place", "quit"}
        /\ chrome' = FALSE \/ (bpc \in {"results", "end"} /\ UNCHANGED chrome)
    BY <1>5 DEF Results, Throws, End, caseVars, hostVars, bStays, bOwn
  <2>2. chrome' = FALSE
    BY <1>1, <2>1 DEF InHand
  <2>3. QED
    BY <1>1, <2>1, <2>2 DEF InHand, Approve
<1>6. CASE Shutdown
  <2>1. /\ UNCHANGED <<item, approval, shot, rows, killed, s, chrome>>
        /\ bpc' = "gone" /\ bpc \in {"shut", "quit"}
        /\ helper' = IF bpc = "shut" /\ helper = "up" THEN "told" ELSE helper
    BY <1>6 DEF Shutdown, caseVars, hostVars, bStays
  <2>2. chrome' = FALSE /\ helper' # "up"
    BY <1>1, <2>1 DEF InHand
  <2>3. QED
    BY <1>1, <2>1, <2>2 DEF InHand, Approve
<1>7. QED
  BY <1>2, <1>3, <1>4, <1>5, <1>6

LEMMA InHandKeep == ASSUME IInv, [Next]_vars PROVE InHand'
BY InHandTerminal, InHandOfCase, InHandOfRead, InHandAtEnds, Steps DEF StepOfBundle

(* One more window of the plan is one more read of its case. *)
LEMMA ReadOfNext ==
  ASSUME NEW mode, NEW limit \in Limits \cup {None},
         NEW m \in Nat, m < Planned(mode, limit), NEW c \in Cases \ Watched
  PROVE  ReadOf(mode, limit, m + 1, c) = ReadOf(mode, limit, m, c) + IF c = PlanAt(mode, limit, m + 1) THEN 1 ELSE 0
<1>1. /\ Pages(mode, limit) \in Nat /\ Terminals(mode, limit) \in Nat /\ Bars(mode, limit) \in 0..2
  BY PlannedSizes
<1>2. c \in {"page", "terminal", "normal", "incognito"}
  BY CaseNames DEF Watched
<1>3. CASE c = "page"
  BY <1>1, <1>3 DEF ReadOf, PlanAt, Planned, Lesser
<1>4. CASE c = "terminal"
  BY <1>1, <1>4 DEF ReadOf, PlanAt, Planned, Lesser, Beyond
<1>5. CASE c = "normal"
  BY <1>1, <1>5 DEF ReadOf, PlanAt, Planned, Lesser, Beyond
<1>6. CASE c = "incognito"
  BY <1>1, <1>6 DEF ReadOf, PlanAt, Planned, Beyond
<1>7. QED
  BY <1>2, <1>3, <1>4, <1>5, <1>6

LEMMA ReadOfBounds ==
  ASSUME NEW mode, NEW limit \in Limits \cup {None},
         NEW m \in Nat, m <= Planned(mode, limit)
  PROVE  /\ ReadOf(mode, limit, m, "page") \in 0..Repetitions
         /\ ReadOf(mode, limit, m, "terminal") \in 0..Repetitions
         /\ ReadOf(mode, limit, m, "normal") \in 0..1
         /\ ReadOf(mode, limit, m, "incognito") \in 0..1
         /\ m = 0 => \A c \in Cases \ Watched : ReadOf(mode, limit, m, c) = 0
         /\ m = Planned(mode, limit) => /\ ReadOf(mode, limit, m, "page") = Pages(mode, limit)
                                        /\ ReadOf(mode, limit, m, "terminal") = Terminals(mode, limit)
<1>1. /\ Pages(mode, limit) \in Nat /\ Terminals(mode, limit) \in Nat /\ Bars(mode, limit) \in 0..2
      /\ Pages(mode, limit) <= Repetitions /\ Terminals(mode, limit) <= Repetitions
      /\ Repetitions \in Nat
  BY PlannedSizes, EvalAssumption
<1>2. \A c \in Cases \ Watched : c \in {"page", "terminal", "normal", "incognito"}
  BY CaseNames DEF Watched
<1>3. ReadOf(mode, limit, m, "page") \in 0..Repetitions
  BY <1>1 DEF ReadOf, Lesser
<1>4. ReadOf(mode, limit, m, "terminal") \in 0..Repetitions
  BY <1>1 DEF ReadOf, Lesser, Beyond
<1>5. ReadOf(mode, limit, m, "normal") \in 0..1
  BY <1>1 DEF ReadOf, Lesser, Beyond
<1>6. ReadOf(mode, limit, m, "incognito") \in 0..1
  BY <1>1 DEF ReadOf, Beyond, Planned
<1>7. m = 0 => \A c \in Cases \ Watched : ReadOf(mode, limit, m, c) = 0
  BY <1>1, <1>2 DEF ReadOf, Beyond, Lesser
<1>8. m = Planned(mode, limit) => /\ ReadOf(mode, limit, m, "page") = Pages(mode, limit)
                                  /\ ReadOf(mode, limit, m, "terminal") = Terminals(mode, limit)
  BY <1>1 DEF ReadOf, Beyond, Lesser, Planned
<1>9. QED
  BY <1>3, <1>4, <1>5, <1>6, <1>7, <1>8

LEMMA RestOfRest ==
  ASSUME NEW x, x.limit \in Limits \cup {None}, NEW t, IsRest(x, t), t # <<>>
  PROVE  /\ IsRest(x, Tail(t)) /\ Took(x, Tail(t)) = Took(x, t) + 1
         /\ Took(x, t) \in Nat /\ Took(x, t) < Planned(x.mode, x.limit)
         /\ t[1] = Head(t) /\ t[1] = PlanAt(x.mode, x.limit, Took(x, t) + 1)
<1>1. t \in Seq(Kinds) /\ Len(t) \in Nat /\ Len(t) # 0 /\ Len(t) <= Planned(x.mode, x.limit)
      /\ Planned(x.mode, x.limit) \in Nat
  <2>1. t \in Seq(Kinds) /\ Len(t) \in 0..Planned(x.mode, x.limit) /\ Planned(x.mode, x.limit) \in Nat
    BY PlannedSizes DEF IsRest, Kinds
  <2>2. Len(t) # 0
    BY <2>1, EmptySeq
  <2>3. QED
    BY <2>1, <2>2
<1>2. /\ Tail(t) \in Seq(Kinds) /\ Len(Tail(t)) = Len(t) - 1
      /\ \A i \in 1..Len(Tail(t)) : Tail(t)[i] = t[i+1]
      /\ Head(t) = t[1]
  BY <1>1, HeadTailProperties
<1>3. Took(x, Tail(t)) = Took(x, t) + 1 /\ Took(x, t) \in Nat /\ Took(x, t) < Planned(x.mode, x.limit)
  BY <1>1, <1>2 DEF Took
<1>4. \A i \in 1..Len(t) : t[i] = PlanAt(x.mode, x.limit, Took(x, t) + i)
  BY DEF IsRest
<1>5. \A i \in 1..Len(Tail(t)) : Tail(t)[i] = PlanAt(x.mode, x.limit, Took(x, Tail(t)) + i)
  <2> SUFFICES ASSUME NEW i \in 1..Len(Tail(t))
               PROVE  Tail(t)[i] = PlanAt(x.mode, x.limit, Took(x, Tail(t)) + i)
    OBVIOUS
  <2>1. i + 1 \in 1..Len(t) /\ Took(x, Tail(t)) + i = Took(x, t) + (i + 1)
    BY <1>1, <1>2, <1>3
  <2>2. QED
    BY <2>1, <1>2, <1>4
<1>6. IsRest(x, Tail(t))
  BY <1>1, <1>2, <1>5 DEF IsRest, Kinds
<1>7. QED
  BY <1>1, <1>2, <1>3, <1>4, <1>6

(* The rows change only when a window was read, or was not found: by one   *)
(* more read of the case in hand.                                          *)
LEMMA RowsStay ==
  ASSUME [Next]_vars, ~AwaitStagedWindow, ~ReadApproved PROVE rows' = rows
BY Steps DEF StepOfTerminal, Start, Watch, SweepReveal, PrintFails, Finish, Clear, Interrupted,
     TerminalKilled, StepOfBundle, Configure, Refuses, SpawnHelper, HelperReady, Permission, NextCase,
     ObserveFront, ObserveEnds, TearDown, Gate, GateRemoves, Removes, Results, Throws, End,
     Shutdown, StepAround, HelperDies, BeatGrowsOld, BundleKilled, vars, bVars, caseVars, bStays, bOwn

LEMMA OneMoreRead ==
  ASSUME IInv, (AwaitStagedWindow /\ bpc' = "down") \/ ReadApproved
  PROVE  /\ item \in Cases /\ item' = item /\ s' = s /\ todo' = todo
         /\ rows' \in [Cases -> Row] /\ rows'[item].n = rows[item].n + 1
         /\ \A c \in Cases : c # item => rows'[c] = rows[c]
         /\ item \in ToSet(Accuracy) => rows'[item].host = FALSE /\ rows'[item].private = None
         /\ item \notin ToSet(Accuracy) => rows'[item].short = FALSE
         /\ item \in Watched => rows'[item].host = FALSE
<1>1. item \in Cases
  BY DEF IInv, InHand, AwaitStagedWindow, ReadApproved
<1>2. rows \in [Cases -> Row] /\ rows[item] \in Row
  BY <1>1 DEF IInv, Rows
<1>3. \E ok \in BOOLEAN, short \in BOOLEAN, host \in BOOLEAN, private \in BOOLEAN \cup {None} :
        rows' = [rows EXCEPT ![item] = After(item, rows[item], ok, short, host, private)]
  <2>1. CASE Failed(item)
    BY <2>1 DEF Failed
  <2>2. CASE ReadApproved /\ Answered
    <3>1. PICK x \in Texts(item) :
                 rows' = [rows EXCEPT ![item] =
                            After(item, rows[item], x.asStaged \/ item \in Watched, x.short, x.host, x.private)]
      BY <2>2 DEF Answered
    <3>2. x \in [short : BOOLEAN, host : BOOLEAN, asStaged : BOOLEAN, private : BOOLEAN \cup {None}]
      <4>1. CASE Judged
        BY <3>1, <4>1 DEF Texts
      <4>2. CASE ~Judged
        <5>1. x = [short |-> FALSE, host |-> TRUE, asStaged |-> TRUE, private |-> item \in ExpectPrivate]
          BY <3>1, <4>2 DEF Texts
        <5>2. QED
          BY <5>1
      <4>3. QED
        BY <4>1, <4>2
    <3> DEFINE ok == x.asStaged \/ item \in Watched
    <3>3. ok \in BOOLEAN /\ x.short \in BOOLEAN /\ x.host \in BOOLEAN /\ x.private \in BOOLEAN \cup {None}
      BY <3>2
    <3>4. rows' = [rows EXCEPT ![item] = After(item, rows[item], ok, x.short, x.host, x.private)]
      BY <3>1
    <3> HIDE DEF ok
    <3>5. QED
      BY <3>3, <3>4
  <2>3. QED
    BY <2>1, <2>2 DEF AwaitStagedWindow, Recognised, OpenAgain, ReadApproved, NotAnswered, IInv, Places
<1>4. PICK ok \in BOOLEAN, short \in BOOLEAN, host \in BOOLEAN, private \in BOOLEAN \cup {None} :
        rows' = [rows EXCEPT ![item] = After(item, rows[item], ok, short, host, private)]
  BY <1>3
<1> DEFINE after == After(item, rows[item], ok, short, host, private)
<1>5. /\ after \in Row /\ after.n = rows[item].n + 1
      /\ item \in ToSet(Accuracy) => after.host = FALSE /\ after.private = None
      /\ item \notin ToSet(Accuracy) => after.short = FALSE
      /\ item \in Watched => after.host = FALSE
  <2>1. rows[item].n + 1 \in Nat
    BY <1>2 DEF Row
  <2>2. after \in Row
    BY <1>2, <2>1 DEF After, Row
  <2>3. QED
    BY <1>1, <2>1, <2>2, CaseNames DEF After, Watched
<1> HIDE DEF after
<1>6. rows' = [rows EXCEPT ![item] = after]
  BY <1>4 DEF after
<1>7. item' = item /\ s' = s /\ todo' = todo
  BY DEF AwaitStagedWindow, ReadApproved
<1>8. QED
  BY <1>1, <1>2, <1>5, <1>6, <1>7

(* What is left of the plan, and what was read of it. *)
LEMMA CountsWhenRead ==
  ASSUME IInv, AwaitStagedWindow \/ ReadApproved PROVE Counts'
<1>1. Counts /\ InHand /\ bpc \in {"look", "read"} /\ SetFor(s, opts)
  BY DEF AwaitStagedWindow, ReadApproved, IInv, Options, Runs, Measures
<1>2. IsRest(s, todo) /\ s.limit \in Limits \cup {None}
  BY <1>1 DEF Counts, Measures, SetFor, Settings
<1>3. \A c \in Cases \ Watched : rows[c].n = ReadOf(s.mode, s.limit, Reads(s, todo, FALSE), c)
  BY <1>1 DEF Counts, HasRead, Measures, InGate
<1>4. Took(s, todo) \in Nat /\ Reads(s, todo, FALSE) = Took(s, todo) /\ Reads(s, todo, TRUE) = Took(s, todo) + 1
  <2>1. Planned(s.mode, s.limit) \in Nat /\ Len(todo) \in 0..Planned(s.mode, s.limit)
    BY <1>2, PlannedSizes DEF IsRest
  <2>2. Took(s, todo) \in Nat
    BY <2>1 DEF Took
  <2>3. QED
    BY <2>2 DEF Reads
<1>5. CASE AwaitStagedWindow /\ bpc' # "down"
  <2>1. bpc = "look" /\ bpc' \in {"look", "read"} /\ item \notin Watched /\ UNCHANGED <<rows, s, todo, item>>
    BY <1>1, <1>5 DEF AwaitStagedWindow, Recognised, OpenAgain, InHand
  <2>2. HasRead' = FALSE /\ AtStaged' /\ ~AtWatched'
    BY <2>1 DEF HasRead, AtStaged, AtWatched, InGate
  <2>3. todo # <<>> /\ item = todo[1]
    BY <1>1, <2>1 DEF Counts, AtStaged, Measures
  <2>4. QED
    BY <1>2, <1>3, <2>1, <2>2, <2>3 DEF Counts
<1>6. CASE (AwaitStagedWindow /\ bpc' = "down") \/ ReadApproved
  <2>1. /\ item \in Cases /\ item' = item /\ s' = s /\ todo' = todo /\ rows'[item].n = rows[item].n + 1
        /\ \A c \in Cases : c # item => rows'[c] = rows[c]
    BY <1>6, OneMoreRead
  <2>2. CASE item \notin Watched
    <3>1. bpc' \in {"down", "gate"} /\ HasRead' = TRUE /\ AtStaged' /\ ~AtWatched' /\ bpc' # "results"
      BY <1>6, <2>1, <2>2 DEF ReadApproved, Answered, NotAnswered, HasRead, AtStaged, AtWatched, InGate
    <3>2. todo # <<>> /\ item = todo[1]
      BY <1>1, <2>2 DEF Counts, AtStaged, Measures
    <3>3. /\ Took(s, todo) < Planned(s.mode, s.limit)
          /\ item = PlanAt(s.mode, s.limit, Took(s, todo) + 1)
      BY <1>2, <3>2, RestOfRest
    <3>4. ASSUME NEW c \in Cases \ Watched
          PROVE  rows'[c].n = ReadOf(s.mode, s.limit, Took(s, todo) + 1, c)
      <4>1. ReadOf(s.mode, s.limit, Took(s, todo) + 1, c)
              = ReadOf(s.mode, s.limit, Took(s, todo), c) + IF c = item THEN 1 ELSE 0
        BY <1>2, <1>4, <3>3, ReadOfNext
      <4>2. rows[c].n = ReadOf(s.mode, s.limit, Took(s, todo), c) /\ rows[c].n \in Nat
        BY <1>3, <1>4 DEF IInv, Rows, Row
      <4>3. QED
        BY <2>1, <4>1, <4>2
    <3>5. QED
      BY <1>2, <1>4, <2>1, <3>1, <3>2, <3>4 DEF Counts
  <2>3. CASE item \in Watched
    <3>1. bpc = "read" /\ bpc' \in {"observe", "gate"}
      BY <1>1, <1>6, <2>3 DEF ReadApproved, Answered, NotAnswered, InHand, AwaitStagedWindow
    <3>2. HasRead' = FALSE /\ ~AtStaged' /\ bpc' # "results"
      BY <2>1, <2>3, <3>1 DEF HasRead, AtStaged, InGate
    <3>3. todo = <<>>
      BY <1>1, <2>3, <3>1 DEF Counts, AtWatched, Measures
    <3>4. \A c \in Cases \ Watched : rows'[c] = rows[c]
      BY <2>1, <2>3
    <3>5. QED
      BY <1>2, <1>3, <2>1, <3>1, <3>2, <3>3, <3>4 DEF Counts
  <2>4. QED
    BY <2>2, <2>3
<1>7. QED
  BY <1>5, <1>6

LEMMA CountsBegin == ASSUME IInv, Configure PROVE Counts'
<1>1. rows = [c \in Cases |-> NoRow] /\ rows' = rows
  BY DEF Configure, IInv, Counts
<1>2. CASE bpc' = "quit"
  BY <1>2 DEF Counts, Begins, Measures, InGate
<1>3. CASE bpc' = "place"
  <2>1. SetFor(s', opts') /\ todo' = Staged(s', Repetitions)
    BY <1>3, ConfigureDoes
  <2>2. s'.limit \in Limits \cup {None}
    BY <2>1 DEF SetFor, Settings
  <2>3. IsRest(s', todo') /\ Len(todo') = Planned(s'.mode, s'.limit) /\ Planned(s'.mode, s'.limit) \in Nat
    BY <2>1, <2>2, StagedIsThePlan, PlannedSizes
  <2>4. HasRead' = FALSE /\ ~AtStaged' /\ ~AtWatched'
    BY <1>3 DEF HasRead, AtStaged, AtWatched, InGate
  <2>5. Reads(s', todo', FALSE) = 0
    BY <2>3 DEF Reads, Took
  <2>6. \A c \in Cases \ Watched : ReadOf(s'.mode, s'.limit, 0, c) = 0
    BY <2>2, <2>3, ReadOfBounds
  <2>7. \A c \in Cases \ Watched : rows'[c].n = 0
    BY <1>1 DEF NoRow
  <2>8. QED
    BY <1>3, <2>3, <2>4, <2>5, <2>6, <2>7 DEF Counts
<1>4. QED
  BY <1>2, <1>3, ConfigureDoes

LEMMA CountsElsewhere ==
  ASSUME IInv, [Next]_vars, ~AwaitStagedWindow, ~ReadApproved, ~Configure PROVE Counts'
<1> USE DEF InGate, HasRead, AtStaged, AtWatched, Begins, Measures
<1>1. Counts /\ Places /\ InHand /\ Options /\ rows' = rows
  BY RowsStay DEF IInv
<1>2. CASE StepOfTerminal \/ StepAround \/ UNCHANGED vars
  <2>1. /\ UNCHANGED <<item, rows, s, todo>>
        /\ bpc' = bpc \/ (bpc = "off" /\ bpc' = "config") \/ bpc' = "gone"
    BY <1>1, <1>2 DEF StepOfTerminal, Start, Watch, SweepReveal, PrintFails, Finish, Clear, Interrupted, Places,
         TerminalKilled, StepAround, HelperDies, BeatGrowsOld, BundleKilled, vars, bVars, caseVars
  <2>2. QED
    BY <1>1, <2>1 DEF Counts
<1>3. CASE Refuses \/ SpawnHelper \/ HelperReady \/ Permission
  <2>1. /\ UNCHANGED <<rows, s, todo>> /\ bpc \in Begins
        /\ bpc' \in {"quit", "ready", "grant", "end", "results", "next"}
        /\ bpc' = "results" => s.mode = "coldstart"
    BY <1>3 DEF Refuses, SpawnHelper, HelperReady, Permission, caseVars, hostVars
  <2>2. IsRest(s, todo)
    BY <1>1, <2>1 DEF Counts
  <2>3. bpc' = "results" => todo = <<>>
    <3>1. SUFFICES ASSUME s.mode = "coldstart" PROVE todo = <<>>
      BY <2>1
    <3>2. Planned(s.mode, s.limit) = 0
      BY <3>1 DEF Planned, Pages, Terminals, Bars
    <3>3. todo \in Seq(Kinds) /\ Len(todo) = 0
      BY <2>2, <3>2 DEF IsRest, Kinds
    <3>4. QED
      BY <3>3
  <2>4. QED
    BY <1>1, <2>1, <2>2, <2>3 DEF Counts
<1>4. CASE NextCase
  <2>1. bpc = "next" /\ UNCHANGED <<rows, s, todo>>
    BY <1>4 DEF NextCase
  <2>2. /\ IsRest(s, todo)
        /\ \A c \in Cases \ Watched : rows[c].n = ReadOf(s.mode, s.limit, Reads(s, todo, FALSE), c)
    BY <1>1, <2>1 DEF Counts
  <2>3. CASE todo # <<>>
    <3>1. item' = Head(todo) /\ bpc' = "look"
      BY <1>4, <2>3 DEF NextCase
    <3>2. todo \in Seq(Kinds)
      BY <2>2 DEF IsRest, Kinds
    <3>3. Head(todo) = todo[1]
      BY <2>3, <3>2
    <3>4. QED
      BY <2>1, <2>2, <2>3, <3>1, <3>3 DEF Counts
  <2>4. CASE todo = <<>>
    <3>1. bpc' \in {"observe", "results"} /\ item' = None
      BY <1>4, <2>4 DEF NextCase
    <3>2. QED
      BY <2>1, <2>2, <2>4, <3>1 DEF Counts
  <2>5. QED
    BY <2>3, <2>4
<1>5. CASE ObserveFront \/ ObserveEnds
  <2>1. /\ UNCHANGED <<rows, s, todo>> /\ bpc = "observe"
        /\ (bpc' = "read" /\ item' \in Watched) \/ bpc' = "results"
    BY <1>5 DEF ObserveFront, ObserveEnds, Recognised
  <2>2. /\ IsRest(s, todo) /\ todo = <<>>
        /\ \A c \in Cases \ Watched : rows[c].n = ReadOf(s.mode, s.limit, Reads(s, todo, FALSE), c)
    BY <1>1, <2>1 DEF Counts
  <2>3. QED
    BY <2>1, <2>2 DEF Counts
<1>6. CASE TearDown
  <2>1. bpc = "down" /\ bpc' = "next" /\ todo' = Tail(todo) /\ UNCHANGED <<rows, s>>
    BY <1>6 DEF TearDown
  <2>2. /\ IsRest(s, todo) /\ todo # <<>> /\ s.limit \in Limits \cup {None}
        /\ \A c \in Cases \ Watched : rows[c].n = ReadOf(s.mode, s.limit, Reads(s, todo, TRUE), c)
    BY <1>1, <2>1 DEF Counts, Options, SetFor, Settings, Runs
  <2>3. /\ IsRest(s, Tail(todo)) /\ Took(s, Tail(todo)) = Took(s, todo) + 1 /\ Took(s, todo) \in Nat
    BY <2>2, RestOfRest
  <2>4. Reads(s, Tail(todo), FALSE) = Reads(s, todo, TRUE)
    BY <2>3 DEF Reads
  <2>5. QED
    BY <2>1, <2>2, <2>3, <2>4 DEF Counts
<1>7. CASE Gate \/ GateRemoves
  <2>1. /\ UNCHANGED <<rows, s, todo, item>>
        /\ \/ bpc \in InGate /\ bpc' \in InGate
           \/ bpc \in InGate /\ bpc' = "observe" /\ item \in Watched
           \/ bpc \in InGate /\ bpc' = "down" /\ item \notin Watched
           \/ bpc = "giveUpAtEnd" /\ bpc' \in {"giveUpAtEnd", "shut"}
    BY <1>7 DEF Gate, GateRemoves, Removes, AfterGate, caseVars, bOwn
  <2>2. QED
    BY <1>1, <2>1 DEF Counts
<1>8. CASE Results \/ Throws \/ End \/ Shutdown
  <2>1. bpc' \in {"end", "giveUpAtEnd", "shut", "gone"}
    BY <1>8 DEF Results, Throws, End, Shutdown
  <2>2. QED
    BY <2>1 DEF Counts
<1>9. QED
  BY <1>2, <1>3, <1>4, <1>5, <1>6, <1>7, <1>8, Steps DEF StepOfBundle

LEMMA CountsKeep == ASSUME IInv, [Next]_vars PROVE Counts'
BY CountsWhenRead, CountsBegin, CountsElsewhere

LEMMA ReadsWithin ==
  ASSUME NEW mode, NEW limit \in Limits \cup {None}, NEW m \in Nat, m <= Planned(mode, limit),
         NEW c \in Cases \ Watched
  PROVE  ReadOf(mode, limit, m, c) \in IF c \in ToSet(Accuracy) THEN 0..Repetitions ELSE 0..1
<1>1. /\ ReadOf(mode, limit, m, "page") \in 0..Repetitions
      /\ ReadOf(mode, limit, m, "terminal") \in 0..Repetitions
      /\ ReadOf(mode, limit, m, "normal") \in 0..1
      /\ ReadOf(mode, limit, m, "incognito") \in 0..1
  BY ReadOfBounds
<1>2. c \in {"page", "terminal", "normal", "incognito"}
  BY CaseNames DEF Watched
<1>3. QED
  BY <1>1, <1>2, CaseNames

(* The rows have the shape their case calls for. *)
LEMMA RowsKeep == ASSUME IInv, [Next]_vars PROVE Rows'
<1>1. CASE rows' = rows
  BY <1>1 DEF IInv, Rows, RowFor
<1>2. CASE (AwaitStagedWindow /\ bpc' = "down") \/ ReadApproved
  <2>1. /\ item \in Cases /\ s' = s /\ todo' = todo
        /\ rows' \in [Cases -> Row] /\ rows'[item].n = rows[item].n + 1
        /\ \A c \in Cases : c # item => rows'[c] = rows[c]
        /\ item \in ToSet(Accuracy) => rows'[item].host = FALSE /\ rows'[item].private = None
        /\ item \notin ToSet(Accuracy) => rows'[item].short = FALSE
        /\ item \in Watched => rows'[item].host = FALSE
    BY <1>2, OneMoreRead
  <2>2. Rows /\ InHand /\ bpc \in {"look", "read"} /\ SetFor(s, opts) /\ Counts
    BY <1>2 DEF AwaitStagedWindow, ReadApproved, IInv, Options, Runs, Measures
  <2>3. s.limit \in Limits \cup {None} /\ IsRest(s, todo)
    BY <2>2 DEF SetFor, Settings, Counts, Measures
  <2>4. \A c \in Cases \ Watched : rows'[c].n \in IF c \in ToSet(Accuracy) THEN 0..Repetitions ELSE 0..1
    <3>1. bpc' \in Measures
      BY <1>2 DEF ReadApproved, Answered, NotAnswered, Measures, InGate
    <3>2. \A c \in Cases \ Watched : rows'[c].n = ReadOf(s.mode, s.limit, Reads(s, todo, HasRead'), c)
      BY <2>1, <3>1, CountsKeep DEF Counts
    <3>3. Reads(s, todo, HasRead') \in Nat /\ Reads(s, todo, HasRead') <= Planned(s.mode, s.limit)
      <4>1. CASE HasRead'
        <5>1. AtStaged'
          BY <4>1 DEF HasRead, AtStaged
        <5>2. todo # <<>>
          BY <2>1, <3>1, <5>1, CountsKeep DEF Counts
        <5>3. Took(s, todo) \in Nat /\ Took(s, todo) < Planned(s.mode, s.limit) /\ Planned(s.mode, s.limit) \in Nat
          BY <2>3, <5>2, RestOfRest, PlannedSizes
        <5>4. Reads(s, todo, HasRead') = Took(s, todo) + 1
          BY <4>1 DEF Reads
        <5>5. QED
          BY <5>3, <5>4
      <4>2. CASE ~HasRead'
        <5>1. Planned(s.mode, s.limit) \in Nat /\ Len(todo) \in 0..Planned(s.mode, s.limit)
          BY <2>3, PlannedSizes DEF IsRest
        <5>2. Reads(s, todo, HasRead') = Took(s, todo) + 0
          BY <4>2 DEF Reads
        <5>3. QED
          BY <5>1, <5>2 DEF Took
      <4>3. QED
        BY <4>1, <4>2
    <3>4. PICK m \in Nat : m <= Planned(s.mode, s.limit) /\ m = Reads(s, todo, HasRead')
      BY <3>3
    <3>5. ASSUME NEW c \in Cases \ Watched
          PROVE  rows'[c].n \in IF c \in ToSet(Accuracy) THEN 0..Repetitions ELSE 0..1
      <4>1. rows'[c].n = ReadOf(s.mode, s.limit, m, c)
        BY <3>2, <3>4
      <4>2. ReadOf(s.mode, s.limit, m, c) \in IF c \in ToSet(Accuracy) THEN 0..Repetitions ELSE 0..1
        BY <2>3, <3>4, ReadsWithin
      <4>3. QED
        BY <4>1, <4>2
    <3>6. QED
      BY <3>5
  <2>5. item \in Watched => rows'[item].n \in 0..ReadAttempts
    <3>1. SUFFICES ASSUME item \in Watched PROVE rows'[item].n \in 0..ReadAttempts
      OBVIOUS
    <3>2. rows[item].n < ReadAttempts /\ rows[item].n \in Nat /\ ReadAttempts \in Nat
      BY <2>1, <2>2, <3>1, EvalAssumption DEF InHand, Rows, Row
    <3>3. QED
      BY <2>1, <3>2
  <2>6. rows'[item] \in RowFor(item)
    <3>1. rows'[item] \in Row
      BY <2>1
    <3>2. CASE item \in Watched
      BY <2>1, <2>5, <3>1, <3>2, CaseNames DEF RowFor, ObserveRow, Row, Watched
    <3>3. CASE item \notin Watched /\ item \in ToSet(Toolbars)
      BY <2>1, <2>4, <3>1, <3>3, CaseNames DEF RowFor, ToolbarRow, Row, Watched
    <3>4. CASE item \in ToSet(Accuracy)
      BY <2>1, <2>4, <3>1, <3>4, CaseNames DEF RowFor, AccuracyRow, Row, Watched
    <3>5. QED
      BY <2>1, <3>2, <3>3, <3>4, CaseNames DEF Watched
  <2>7. QED
    BY <2>1, <2>2, <2>6 DEF Rows, RowFor
<1>3. CASE AwaitStagedWindow /\ bpc' # "down"
  BY <1>1, <1>3 DEF AwaitStagedWindow, Failed
<1>4. QED
  BY <1>1, <1>2, <1>3, RowsStay

(* A run that is accepted has earned it. *)
LEMMA HostIsShown ==
  ASSUME Cardinality({c \in {"normal"} : rows[c].host}) >= HostHitsMin PROVE rows["normal"].host
<1>1. SUFFICES ASSUME ~rows["normal"].host PROVE FALSE
  OBVIOUS
<1>2. {c \in {"normal"} : rows[c].host} = {}
  BY <1>1
<1>3. Cardinality({}) = 0
  BY FS_EmptySet
<1>4. HostHitsMin \in Nat \ {0}
  BY EvalAssumption
<1>5. QED
  BY <1>2, <1>3, <1>4

LEMMA AcceptedRunIsEarned ==
  ASSUME IInv, bpc = "results", Accepted, s.schema = Schema PROVE Earned
<1>1. SetFor(s, opts) /\ opts \in Typed /\ Counts /\ Rows
  BY DEF IInv, Options, Runs, Measures
<1>2. /\ s \in Settings /\ s.mode = opts.mode /\ s.limit = opts.limit /\ s.expect = opts.expect
      /\ s.reveal = opts.reveal /\ s.notSecure = opts.notSecure
      /\ s.reveal => MayReveal(s.mode, s.expect, s.notSecure)
  BY <1>1 DEF SetFor
<1>3. /\ s.limit = None /\ ~s.notSecure
      /\ s.mode \in {"accuracy", "all"} => GroupsPassed
      /\ s.mode \in {"toolbar", "all"} => ToolbarPassed
      /\ s.mode \in ObservesWindows => ObservePassed
      /\ s.mode = "coldstart" => granted
  BY DEF Accepted, Unlimited
<1>4. s.mode \in ObservesWindows => s.expect # None
  BY <1>3 DEF ObservePassed
<1>5. ~s.reveal
  BY <1>2, <1>3, <1>4 DEF MayReveal, ObservesWindows
<1>6. opts.mode \in ObservesWindows => opts.expect # None
  BY <1>2, <1>4
<1>7. opts.limit = None /\ ~opts.notSecure /\ ~opts.reveal /\ (opts.mode = "coldstart" => granted)
  BY <1>2, <1>3, <1>5
<1>8. /\ rows["page"].n = Pages(s.mode, s.limit) /\ rows["terminal"].n = Terminals(s.mode, s.limit)
  <2>1. todo = <<>> /\ IsRest(s, todo) /\ HasRead = FALSE
    BY <1>1 DEF Counts, Measures, HasRead, InGate
  <2>2. s.limit \in Limits \cup {None} /\ Planned(s.mode, s.limit) \in Nat
    BY <1>2, PlannedSizes DEF Settings
  <2>3. Reads(s, todo, HasRead) = Planned(s.mode, s.limit)
    BY <2>1, <2>2 DEF Reads, Took
  <2>4. \A c \in Cases \ Watched : rows[c].n = ReadOf(s.mode, s.limit, Planned(s.mode, s.limit), c)
    BY <1>1, <2>3 DEF Counts, Measures
  <2>5. "page" \in Cases \ Watched /\ "terminal" \in Cases \ Watched
    BY CaseNames DEF Watched
  <2>6. /\ ReadOf(s.mode, s.limit, Planned(s.mode, s.limit), "page") = Pages(s.mode, s.limit)
        /\ ReadOf(s.mode, s.limit, Planned(s.mode, s.limit), "terminal") = Terminals(s.mode, s.limit)
    BY <2>2, ReadOfBounds
  <2>7. QED
    BY <2>4, <2>5, <2>6
<1>9. ASSUME NEW c \in Measured(opts.mode, opts.expect) PROVE ReadAsItShould(c)
  <2>1. CASE c \in ToSet(Accuracy) /\ s.mode \in {"accuracy", "all"}
    <3>1. c \in {"page", "terminal"}
      BY <2>1, CaseNames
    <3>2. rows[c].n > 0 /\ rows[c].ok /\ ~rows[c].short
      BY <1>3, <2>1 DEF GroupsPassed
    <3>3. rows[c].n = Repetitions
      BY <1>3, <1>8, <2>1, <3>1 DEF Pages, Terminals, Within
    <3>4. QED
      BY <3>1, <3>2, <3>3 DEF ReadAsItShould, ExpectPrivate
  <2>2. CASE c \in ToSet(Toolbars) /\ s.mode \in {"toolbar", "all"}
    <3>1. c \in {"normal", "incognito"} /\ c \notin ToSet(Accuracy)
      BY <2>2, CaseNames
    <3>2. rows[c].n > 0 /\ rows[c].ok /\ rows["incognito"].private = TRUE /\ rows["normal"].private # TRUE
      BY <1>3, <2>2 DEF ToolbarPassed
    <3>3. rows["normal"].host
      BY <1>3, <2>2, HostIsShown DEF ToolbarPassed
    <3>4. QED
      BY <3>1, <3>2, <3>3 DEF ReadAsItShould, ExpectPrivate
  <2>3. CASE c \in s.expect /\ s.mode \in ObservesWindows
    <3>1. c \in Watched /\ c \notin ToSet(Accuracy)
      BY <1>2, <1>4, <2>3, OptionsAssumption, CaseNames DEF Settings, Watched
    <3>2. Done(c) /\ ~NotChecked(c) /\ ~Disagrees(c)
      BY <1>3, <2>3, <3>1 DEF ObservePassed
    <3>3. rows[c].private \in BOOLEAN \cup {None}
      BY <1>1, <3>1, CaseNames DEF Rows, Row, Watched
    <3>4. rows[c].n > 0 /\ rows[c].ok
      BY <3>2 DEF Done
    <3>5. (c \in ExpectPrivate) = (rows[c].private = TRUE)
      BY <3>2 DEF Disagrees
    <3>6. c \notin ExpectPrivate => rows[c].private = FALSE
      BY <3>2, <3>3, <3>5 DEF NotChecked
    <3>7. c # "normal" /\ (c = "plain" => c \notin ExpectPrivate)
      BY <3>1 DEF Watched, ExpectPrivate
    <3>8. QED
      BY <3>1, <3>4, <3>5, <3>6, <3>7 DEF ReadAsItShould
  <2>4. QED
    BY <1>2, <2>1, <2>2, <2>3 DEF Measured
<1>10. QED
  BY <1>6, <1>7, <1>9 DEF Earned

(* The verdict, the exit code and the last line. *)
LEMMA EarnedStays ==
  ASSUME IInv, [Next]_vars, bpc \in Closes \cup {"quit", "gone"}
  PROVE  bpc' \in Closes \cup {"quit", "gone"} /\ (Earned => Earned')
<1>1. bpc \notin {"look", "read", "config", "grant"}
  BY DEF Closes
<1>2. rows' = rows
  BY <1>1, RowsStay DEF AwaitStagedWindow, ReadApproved
<1>3. UNCHANGED <<opts, granted>> /\ bpc' \in Closes \cup {"quit", "gone"}
  <2>1. CASE StepOfTerminal \/ StepAround \/ UNCHANGED vars
    BY <1>1, <2>1 DEF StepOfTerminal, Start, Watch, SweepReveal, PrintFails, Finish, Clear, Interrupted, Closes,
         TerminalKilled, StepAround, HelperDies, BeatGrowsOld, BundleKilled, vars, bVars, hostVars, IInv, Places
  <2>2. CASE Results \/ Throws \/ End \/ Shutdown \/ Gate \/ GateRemoves
    BY <2>2 DEF Results, Throws, End, Shutdown, Gate, GateRemoves, Removes, bStays, bOwn, hostVars, Closes
  <2>3. CASE Configure \/ Refuses \/ SpawnHelper \/ HelperReady \/ Permission
    BY <2>3 DEF Configure, Refuses, SpawnHelper, HelperReady, Permission, Closes
  <2>4. CASE NextCase \/ AwaitStagedWindow \/ ObserveFront \/ ObserveEnds \/ ReadApproved \/ TearDown
    BY <2>4 DEF NextCase, AwaitStagedWindow, ObserveFront, ObserveEnds, ReadApproved, TearDown, Closes
  <2>5. QED
    BY <2>1, <2>2, <2>3, <2>4, Steps DEF StepOfBundle
<1>4. QED
  BY <1>2, <1>3 DEF Earned, ReadAsItShould

LEMMA VerdictOfBundle == ASSUME IInv, [Next]_vars, StepOfBundle PROVE Verdict'
<1>1. Verdict /\ Places
  BY DEF IInv
<1>2. UNCHANGED <<tpc, exit, said>>
  BY DEF StepOfBundle, Configure, Refuses, SpawnHelper, HelperReady, Permission, NextCase, AwaitStagedWindow,
     ObserveFront, ObserveEnds, ReadApproved, TearDown, Gate, GateRemoves, Removes, Results, Throws, End,
     Shutdown, tVars, bStays
<1>3. exit' = 0 => bpc' = "gone" /\ Earned'
  <2>1. bpc # "gone"
    BY DEF StepOfBundle, Configure, Refuses, SpawnHelper, HelperReady, Permission, NextCase, AwaitStagedWindow,
       ObserveFront, ObserveEnds, ReadApproved, TearDown, Gate, GateRemoves, Removes, Results, Throws, End,
       Shutdown
  <2>2. QED
    BY <1>1, <1>2, <2>1 DEF Verdict
<1>4. said' # None => tpc' \in {"clear", "gone"} /\ (said' = "ACCEPTED") = (exit' = 0)
  BY <1>1, <1>2 DEF Verdict
<1>5. CASE Configure
  <2>1. bpc = "config" /\ out = None
    BY <1>1, <1>5, ConfigureDoes DEF Verdict
  <2>2. opts'.notSecure = opts.notSecure
    BY <1>5 DEF Configure, IInv, Options, Typed
  <2>3. CASE out' = Error("REFUSED") /\ bpc' = "quit" /\ (tpc # "absent" => opts.notSecure)
    <3>1. "error" \in DOMAIN out' /\ out' \in EvalErrors
      BY <2>3 DEF Error, EvalErrors
    <3>2. out' \notin EvalResults
      BY <3>1 DEF EvalResults
    <3>3. QED
      BY <1>2, <1>3, <1>4, <2>2, <2>3, <3>1, <3>2 DEF Verdict, Begins, Measures, InGate
  <2>4. CASE bpc' = "place" /\ out' = out
    <3>1. out' = None
      BY <2>1, <2>4
    <3>2. out' # Error("REFUSED") \/ out = Error("REFUSED")
      BY <2>4
    <3>3. QED
      BY <1>1, <1>2, <1>3, <1>4, <2>2, <2>4, <3>1, <3>2 DEF Verdict
  <2>5. QED
    BY <1>5, <2>3, <2>4, ConfigureDoes
<1>6. CASE Results
  <2>1. bpc = "results" /\ out' = Written /\ bpc' = "end" /\ UNCHANGED <<opts, rows, granted>>
    BY <1>6 DEF Results, bStays, caseVars, hostVars
  <2>2. Accepted \in BOOLEAN
    BY DEF Accepted
  <2>3. s.schema \in {Schema - 1, Schema} /\ s.notSecure \in BOOLEAN /\ Schema - 1 # Schema
    BY <2>1 DEF IInv, Options, Runs, Measures, SetFor, Settings, Schema
  <2>4. Written \in EvalResults /\ (Written.schema = Schema \/ Written.notSecure = None)
    BY <2>2, <2>3 DEF Written, EvalResults
  <2>5. Written.accepted /\ Written.schema = Schema => Earned
    BY <2>1, AcceptedRunIsEarned DEF Written
  <2>6. Earned => Earned'
    BY <2>1 DEF Earned, ReadAsItShould
  <2>7. Written # Error("REFUSED")
    BY DEF Written, Error
  <2>8. QED
    BY <1>2, <1>3, <1>4, <2>1, <2>4, <2>5, <2>6, <2>7 DEF Verdict, Begins, Measures, InGate
<1>7. CASE out' = Error("HARNESS") /\ bpc' \in {"quit", "end", "gone"}
  <2>1. "error" \in DOMAIN out' /\ out' \in EvalErrors
    BY <1>7 DEF Error, EvalErrors
  <2>2. out' \notin EvalResults
    BY <2>1 DEF EvalResults
  <2>3. out' # Error("REFUSED")
    BY <1>7 DEF Error
  <2>4. QED
    BY <1>2, <1>3, <1>4, <1>7, <2>1, <2>2, <2>3 DEF Verdict, Begins, Measures, InGate
<1>8. CASE out' = out /\ opts' = opts /\ ~Results
  <2>1. /\ bpc' \in {"off", "config"} \cup Begins \cup Measures => bpc \in {"off", "config"} \cup Begins \cup Measures
    BY DEF StepOfBundle, Configure, Refuses, SpawnHelper, HelperReady, Permission, NextCase, AwaitStagedWindow,
       ObserveFront, ObserveEnds, ReadApproved, TearDown, Gate, GateRemoves, Removes, Results, Throws, End,
       Shutdown, Begins, Measures, InGate
  <2>2. (out # None /\ Earned) => Earned'
    <3>1. out # None => bpc \in Closes \cup {"quit", "gone"}
      BY <1>1 DEF Verdict, Places, Runs
    <3>2. QED
      BY <3>1, EarnedStays
  <2>3. QED
    BY <1>1, <1>2, <1>3, <1>4, <1>8, <2>1, <2>2 DEF Verdict
<1>9. QED
  <2>1. CASE Refuses \/ HelperReady \/ Permission \/ Shutdown
    BY <1>7, <1>8, <2>1 DEF Refuses, HelperReady, Permission, Shutdown, bStays, Results
  <2>2. CASE SpawnHelper \/ NextCase \/ AwaitStagedWindow \/ ObserveFront \/ ObserveEnds \/ ReadApproved
    BY <1>8, <2>2 DEF SpawnHelper, NextCase, AwaitStagedWindow, ObserveFront, ObserveEnds, ReadApproved, bStays, Results
  <2>3. CASE TearDown \/ Gate \/ GateRemoves \/ Throws \/ End
    BY <1>6, <1>8, <2>3 DEF TearDown, Gate, GateRemoves, Removes, Throws, End, bStays, bOwn
  <2>4. QED
    BY <1>5, <1>6, <2>1, <2>2, <2>3 DEF StepOfBundle

LEMMA VerdictElsewhere ==
  ASSUME IInv, [Next]_vars, StepOfTerminal \/ StepAround \/ UNCHANGED vars PROVE Verdict'
<1>1. Verdict /\ Places
  BY DEF IInv
<1>2. UNCHANGED <<out, opts>>
  BY DEF StepOfTerminal, Start, Watch, SweepReveal, PrintFails, Finish, Clear, Interrupted,
         TerminalKilled, StepAround, HelperDies, BeatGrowsOld, BundleKilled, vars, bVars
<1>3. /\ bpc' \in {"off", "config"} \cup Begins \cup Measures => bpc \in {"off", "config"} \cup Begins \cup Measures
      /\ bpc = "gone" => bpc' = "gone"
      /\ tpc' # "absent" => tpc # "absent"
  BY <1>1 DEF StepOfTerminal, Start, Watch, SweepReveal, PrintFails, Finish, Clear, Interrupted, Begins, Measures, InGate,
         TerminalKilled, StepAround, HelperDies, BeatGrowsOld, BundleKilled, vars, bVars, tVars, Places
<1>4. out # None \/ bpc = "gone" => (Earned => Earned')
  <2>1. out # None => bpc \in Closes \cup {"quit", "gone"}
    BY <1>1 DEF Verdict, Places, Runs
  <2>2. QED
    BY <2>1, EarnedStays
<1>5. /\ exit' = 0 => bpc' = "gone" /\ Earned'
      /\ said' # None => tpc' \in {"clear", "gone"} /\ (said' = "ACCEPTED") = (exit' = 0)
  <2>1. CASE Finish
    <3>1. bpc = "gone" /\ exit' = ExitCodeFor /\ said' = FormatSummary /\ tpc' = "clear"
      BY <2>1 DEF Finish, Over
    <3>2. CASE ~IsResults
      BY <3>1, <3>2 DEF ExitCodeFor, FormatSummary
    <3>3. CASE IsResults
      <4>1. out # None /\ out \in EvalResults
        <5>1. out # None /\ "error" \notin DOMAIN out /\ out \in EvalResults \cup EvalErrors
          BY <1>1, <3>3 DEF IsResults, Verdict
        <5>2. \A e \in EvalErrors : "error" \in DOMAIN e
          BY DEF EvalErrors, Error
        <5>3. QED
          BY <5>1, <5>2
      <4>2. /\ out.schema \in {Schema - 1, Schema} /\ out.accepted \in BOOLEAN
            /\ out.schema = Schema => out.notSecure \in BOOLEAN /\ out.exploratory \in BOOLEAN
            /\ out.schema # Schema => out.notSecure = None
        BY <4>1 DEF EvalResults, Schema
      <4>3. /\ exit' = IF TypedNotSecure \/ out.schema # Schema \/ IsNotSecure(out) THEN 2
                       ELSE IF out.accepted THEN 0 ELSE 2
            /\ said' = IF out.accepted /\ ~TypedNotSecure /\ ~IsNotSecure(out) THEN "ACCEPTED" ELSE "SHORTFALL"
        BY <3>1, <3>3 DEF ExitCodeFor, FormatSummary
      <4>4. out.schema # Schema => IsNotSecure(out)
        BY <4>2, OptionsAssumption DEF IsNotSecure
      <4>5. (said' = "ACCEPTED") = (exit' = 0)
        BY <4>2, <4>3, <4>4
      <4>6. exit' = 0 => out.accepted /\ out.schema = Schema /\ ~out.notSecure
        BY <4>2, <4>3 DEF IsNotSecure
      <4>7. exit' = 0 => Earned
        BY <1>1, <4>1, <4>6 DEF Verdict
      <4>8. QED
        BY <1>3, <1>4, <3>1, <4>5, <4>7
    <3>4. QED
      BY <3>2, <3>3
  <2>2. CASE ~Finish
    <3>1. \/ UNCHANGED <<exit, said>> /\ (tpc \in {"clear", "gone"} => tpc' \in {"clear", "gone"})
          \/ exit' \in {1, 130} /\ tpc' \in {"clear", "gone"} /\ UNCHANGED said /\ tpc \notin {"clear", "gone"}
      BY <2>2 DEF StepOfTerminal, Start, Watch, SweepReveal, PrintFails, Clear, Interrupted,
         TerminalKilled, StepAround, HelperDies, BeatGrowsOld, BundleKilled, vars, bVars, tVars
    <3>2. QED
      BY <1>1, <1>3, <1>4, <3>1 DEF Verdict
  <2>3. QED
    BY <2>1, <2>2
<1>6. QED
  BY <1>1, <1>2, <1>3, <1>4, <1>5 DEF Verdict

LEMMA VerdictKeep == ASSUME IInv, [Next]_vars PROVE Verdict'
BY VerdictOfBundle, VerdictElsewhere, Steps

(* The disk: its three names, and the moves on it. *)
LEMMA DiskNames == ToSet(RevealFileNames) = Names /\ Len(RevealFileNames) = 3
                   /\ RevealFileNames[1] = "reveal" /\ RevealFileNames[2] = "partial" /\ RevealFileNames[3] = "claimed"
BY CaseNames DEF RevealFileNames, Names

LEMMA DiskTypedKeep == ASSUME IInv, [Next]_vars PROVE DiskTyped'
<1>1. DiskTyped /\ revealed \subseteq Cases
  BY DEF IInv, Strips, OnlyRevealed
<1> USE DEF DiskTyped, Names
<1>2. CASE UNCHANGED revealVars
  BY <1>1, <1>2 DEF revealVars
<1>3. CASE Start \/ Watch \/ SweepReveal \/ Clear \/ BeatGrowsOld
  <2>1. CASE Start \/ Watch \/ BeatGrowsOld
    BY <1>1, <1>2, <2>1 DEF Start, SweepOrphans, Watch, Beat, BeatGrowsOld, Grows, revealVars
  <2>2. CASE SweepReveal
    BY <1>1, <1>2, <2>2 DEF SweepReveal, Claim, RemoveClaimed, Gone
  <2>3. CASE Clear
    BY <1>1, <2>3 DEF Clear, ClearAll, ClearStep, Gone
  <2>4. QED
    BY <1>3, <2>1, <2>2, <2>3
<1>4. CASE Gate \/ GateRemoves \/ End
  BY <1>1, <1>2, <1>4 DEF Gate, GateStops, WritePartial, RenamePartial, GateRemoves, Removes, RemoveStep, Gone, End
<1>5. QED
  BY <1>2, <1>3, <1>4, Steps DEF StepOfTerminal, PrintFails, Finish, Interrupted, TerminalKilled, StepOfBundle, Configure, Refuses, SpawnHelper, HelperReady, Permission,
     NextCase, AwaitStagedWindow, ObserveFront, ObserveEnds, ReadApproved, TearDown, Results, Throws, Shutdown,
     StepAround, HelperDies, BundleKilled, vars

(* What is on the disk and what was shown is what this run reveals. *)
LEMMA OnlyRevealedKeep == ASSUME IInv, [Next]_vars PROVE OnlyRevealed'
<1>1. OnlyRevealed /\ Places /\ Options /\ InHand /\ DiskTyped
  BY DEF IInv, Strips
<1>2. revealed' = revealed \/ (ReadApproved /\ s.reveal /\ revealed' = revealed \cup {item})
  BY Steps DEF StepOfTerminal, Start, Watch, SweepReveal, PrintFails, Finish, Clear, Interrupted,
     TerminalKilled, StepOfBundle, Configure, Refuses, SpawnHelper, HelperReady, Permission, NextCase,
     AwaitStagedWindow, ObserveFront, ObserveEnds, ReadApproved, Answered, NotAnswered, RevealsNow, RevealRowOf,
     TearDown, Gate, GateRemoves, Removes, Results, Throws, End,
     Shutdown, StepAround, HelperDies, BeatGrowsOld, BundleKilled, vars, bVars, caseVars, bOwn
<1>3. /\ opts'.reveal = opts.reveal /\ opts'.mode = opts.mode /\ opts'.notSecure = opts.notSecure
  <2>1. opts' = opts \/ opts' = [opts EXCEPT !.host = None, !.position = None]
    BY Steps DEF StepOfTerminal, Start, Watch, SweepReveal, PrintFails, Finish, Clear, Interrupted,
     TerminalKilled, StepOfBundle, Configure, Refuses, SpawnHelper, HelperReady, Permission, NextCase,
     AwaitStagedWindow, ObserveFront, ObserveEnds, ReadApproved, TearDown, Gate, GateRemoves, Removes, Results, Throws,
     End, Shutdown, StepAround, HelperDies, BeatGrowsOld, BundleKilled, vars, bStays
  <2>2. QED
    BY <1>1, <2>1 DEF Options, Typed
<1>4. revealed \subseteq revealed' /\ revealed' \subseteq Cases
  <2>1. ReadApproved => item \in Cases
    BY <1>1 DEF ReadApproved, InHand
  <2>2. QED
    BY <1>1, <1>2, <2>1 DEF OnlyRevealed
<1>5. revealed' # {} => opts'.reveal /\ (opts'.mode = "observe" \/ opts'.notSecure)
  <2>1. ASSUME ReadApproved, s.reveal PROVE opts.reveal /\ (opts.mode = "observe" \/ opts.notSecure)
    <3>1. SetFor(s, opts)
      BY <1>1, <2>1 DEF ReadApproved, Options, Runs, Measures
    <3>2. QED
      BY <2>1, <3>1 DEF SetFor, MayReveal, Settings
  <2>2. QED
    BY <1>1, <1>2, <1>3, <2>1 DEF OnlyRevealed
<1>6. shown' \subseteq revealed
  <2>1. CASE shown' = shown
    BY <1>1, <2>1 DEF OnlyRevealed
  <2>2. CASE tpc = "print" /\ shown' = shown \cup FormatRevealRow(disk["claimed"])
    <3>1. Swept
      BY <1>1, <2>2 DEF Swept, Places
    <3>2. disk["claimed"] = None \/ disk["claimed"] \subseteq revealed
      BY <1>1, <3>1 DEF OnlyRevealed, Names
    <3>3. QED
      BY <1>1, <2>2, <3>2 DEF OnlyRevealed, FormatRevealRow
  <2>3. QED
    BY <2>1, <2>2, Steps DEF StepOfTerminal, Start, Watch, SweepReveal, PrintFails, Finish, Clear, Interrupted,
     TerminalKilled, StepOfBundle, Configure, Refuses, SpawnHelper, HelperReady, Permission, NextCase,
     AwaitStagedWindow, ObserveFront, ObserveEnds, ReadApproved, TearDown, Gate, GateRemoves, Removes, Results, Throws,
     End, Shutdown, StepAround, HelperDies, BeatGrowsOld, BundleKilled, vars, tVars, bStays
<1>7. Swept' => \A n \in Names : disk'[n] = None \/ disk'[n] \subseteq revealed
  <2>1. CASE Start
    <3>1. Swept' => disk' = [n \in DOMAIN disk |-> None]
      BY <1>1, <2>1 DEF Start, SweepOrphans, Swept, Places
    <3>2. QED
      BY <1>1, <3>1 DEF DiskTyped
  <2>2. CASE ~Start
    <3>1. Swept' => Swept
      <4>1. CASE StepOfTerminal
        BY <1>1, <2>2, <4>1 DEF StepOfTerminal, Watch, SweepReveal, PrintFails, Finish, Clear, Interrupted,
           TerminalKilled, bVars, Swept, Places
      <4>2. CASE StepAround \/ UNCHANGED vars
        BY <4>2 DEF StepAround, HelperDies, BeatGrowsOld, BundleKilled, vars, tVars, bVars, Swept
      <4>3. CASE StepOfBundle
        <5>1. tpc' = tpc /\ bpc # "off"
          BY <4>3 DEF StepOfBundle, Configure, Refuses, SpawnHelper, HelperReady, Permission, NextCase,
            AwaitStagedWindow, ObserveFront, ObserveEnds, ReadApproved, TearDown, Gate, GateRemoves, Removes, Results,
            Throws, End, Shutdown, tVars, bStays
        <5>2. QED
          BY <5>1 DEF Swept
      <4>4. QED
        BY <4>1, <4>2, <4>3, Steps
    <3>2. \A n \in Names : disk'[n] = None \/ disk'[n] \subseteq revealed \/ \E k \in Names : disk'[n] = disk[k]
      <4>1. CASE UNCHANGED disk
        BY <4>1
      <4>2. CASE Clear
        BY <1>1, <4>2 DEF Clear, ClearAll, ClearStep, Gone, DiskTyped, Names
      <4>3. CASE SweepReveal
        BY <1>1, <4>1, <4>3 DEF SweepReveal, Claim, RemoveClaimed, Gone, DiskTyped, Names, revealVars
      <4>4. CASE Gate
        BY <1>1, <4>1, <4>4 DEF Gate, GateStops, WritePartial, RenamePartial, DiskTyped, Names, revealVars
      <4>5. CASE GateRemoves
        BY <1>1, <4>5 DEF GateRemoves, Removes, RemoveStep, Gone, DiskTyped, Names
      <4>6. QED
        BY <2>2, <4>1, <4>2, <4>3, <4>4, <4>5, Steps
        DEF StepOfTerminal, Watch, PrintFails, Finish, Interrupted, Beat, GateStops, Grows, revealVars,
           TerminalKilled, StepOfBundle, Configure, Refuses, SpawnHelper, HelperReady, Permission, NextCase,
           AwaitStagedWindow, ObserveFront, ObserveEnds, ReadApproved, TearDown, Results, Throws,
           End, Shutdown, StepAround, HelperDies, BeatGrowsOld, BundleKilled, vars
    <3>3. QED
      BY <1>1, <3>1, <3>2 DEF OnlyRevealed
  <2>3. QED
    BY <2>1, <2>2
<1>8. QED
  BY <1>4, <1>5, <1>6, <1>7 DEF OnlyRevealed

(* The gate shuts: what is removed stays removed, on both sides. *)
LEMMA GateShutsTerminal ==
  ASSUME IInv, StepOfTerminal PROVE GateShuts'
<1> USE DEF Runs, Begins, Measures, Closes, Stops, InGate
<1>1. GateShuts /\ DiskTyped /\ Places
  BY DEF IInv, Strips
<1>2. CASE Start
  <2>1. CASE bpc' = "config" /\ disk' = [n \in DOMAIN disk |-> None] /\ UNCHANGED <<beat, stopped>> /\ tpc' \in {"loop", "wait"}
    <3>1. Empty(disk')
      BY <1>1, <2>1 DEF Empty, DiskTyped
    <3>2. bpc = "off"
      BY <1>1, <1>2 DEF Start, Places
    <3>3. QED
      BY <1>1, <2>1, <3>1, <3>2 DEF GateShuts
  <2>2. CASE bpc' = bpc /\ UNCHANGED <<disk, beat, stopped>>
    <3>1. bpc = "off"
      BY <1>1, <1>2 DEF Start, Places
    <3>2. QED
      BY <1>1, <2>2, <3>1 DEF GateShuts, Quiet, Swept
  <2>3. QED
    BY <1>2, <2>1, <2>2 DEF Start, SweepOrphans
<1>3. CASE Watch \/ SweepReveal
  <2>1. UNCHANGED <<bpc, bAt, s, killed, stopped>> /\ tpc' \in {"claim", "print", "remove", "wait", "loop"}
    BY <1>3 DEF Watch, SweepReveal, AfterSweep, Beat, Claim, RemoveClaimed, revealVars, bVars
  <2>2. tpc \in {"loop", "claim", "print", "remove"}
    BY <1>3 DEF Watch, SweepReveal
  <2>3. Empty(disk) => Empty(disk')
    BY <1>1, <1>3 DEF Watch, SweepReveal, Beat, Claim, RemoveClaimed, Gone, revealVars, Empty, Names, DiskTyped
  <2>4. GoneBefore(disk, bAt) => GoneBefore(disk', bAt)
    <3>1. bAt \in 1..3
      BY <1>1, DiskNames DEF Places
    <3>2. QED
      BY <1>1, <1>3, <3>1 DEF Watch, SweepReveal, Beat, Claim, RemoveClaimed, Gone, revealVars, GoneBefore, Names, DiskTyped
  <2>5. Swept
    BY <1>1, <2>2 DEF Swept, Places
  <2>6. QED
    BY <1>1, <2>1, <2>2, <2>3, <2>4, <2>5 DEF GateShuts, Quiet
<1>4. CASE PrintFails \/ Finish \/ Interrupted
  <2>1. UNCHANGED <<bpc, bAt, s, disk, beat, stopped>> /\ tpc \in {"print", "wait", "loop"} /\ tpc' = "clear" /\ tAt' = 1
        /\ ("bundle" \in killed => "bundle" \in killed')
    BY <1>1, <1>4 DEF PrintFails, Finish, Interrupted, revealVars, bVars, Places
  <2>2. GoneBefore(disk, 1)
    BY DEF GoneBefore
  <2>3. Swept
    BY <1>1, <2>1 DEF Swept, Places
  <2>4. QED
    BY <1>1, <1>4, <2>1, <2>2, <2>3 DEF GateShuts, Quiet, PrintFails, Finish, Interrupted
<1>5. CASE Clear
  <2>1. UNCHANGED <<bpc, bAt, s, killed, stopped>> /\ tpc = "clear" /\ tAt \in 1..4 /\ Clearing = 1..4
    BY <1>1, <1>5, DiskNames DEF Clear, ClearAll, ClearStep, bVars, Places, Clearing
  <2>2. Swept
    BY <1>1, <2>1 DEF Swept, Places
  <2>3. bAt \in 1..3
    BY <1>1, DiskNames DEF Places
  <2>4. CASE bpc = "gone"
    <3>1. tpc' = "gone" /\ disk' = [n \in DOMAIN disk |-> None] /\ beat' = None
      BY <1>5, <2>1, <2>4 DEF Clear, ClearAll, Over
    <3>2. Empty(disk') /\ beat' # "fresh"
      BY <1>1, <3>1, EvalAssumption DEF Empty, DiskTyped
    <3>3. QED
      BY <1>1, <2>1, <2>4, <3>1, <3>2 DEF GateShuts, Quiet
  <2>5. CASE bpc # "gone"
    <3>1. ClearStep(tAt) /\ IF tAt < 4 THEN tAt' = tAt + 1 /\ tpc' = tpc ELSE tAt' = 1 /\ tpc' = "gone"
      BY <1>5, <2>1, <2>5 DEF Clear, Over
    <3>2. Empty(disk) => Empty(disk')
      BY <1>1, <2>1, <3>1, DiskNames DEF ClearStep, Gone, Empty, Names, DiskTyped
    <3>3. GoneBefore(disk, bAt) => GoneBefore(disk', bAt)
      BY <1>1, <2>1, <2>3, <3>1, DiskNames DEF ClearStep, Gone, GoneBefore, Names, DiskTyped
    <3>4. CASE tAt < 4
      <4>1. GoneBefore(disk, tAt) => GoneBefore(disk', tAt + 1)
        BY <1>1, <2>1, <3>1, <3>4, DiskNames DEF ClearStep, Gone, GoneBefore, Names, DiskTyped
      <4>2. QED
        BY <1>1, <2>1, <2>2, <2>5, <3>1, <3>2, <3>3, <3>4, <4>1 DEF GateShuts, Quiet
    <3>5. CASE ~(tAt < 4)
      <4>1. tAt = 4 /\ tpc' = "gone" /\ beat' = None /\ disk' = disk
        BY <2>1, <3>1, <3>5, DiskNames DEF ClearStep
      <4>2. GoneBefore(disk, tAt) => Empty(disk')
        BY <4>1 DEF GoneBefore, Empty, Names
      <4>3. beat' # "fresh"
        BY <4>1, EvalAssumption
      <4>4. QED
        BY <1>1, <2>1, <2>2, <2>5, <3>2, <3>3, <4>1, <4>2, <4>3 DEF GateShuts, Quiet
    <3>6. QED
      BY <3>4, <3>5
  <2>6. QED
    BY <2>4, <2>5
<1>6. CASE TerminalKilled
  <2>1. UNCHANGED <<bpc, bAt, s, disk, beat, stopped>> /\ tpc \notin {"typed", "absent", "gone"} /\ tpc' = "gone"
        /\ killed = {} /\ killed' = {"terminal"}
    BY <1>6 DEF TerminalKilled, revealVars, bVars
  <2>2. Swept /\ ~Clean'
    BY <1>1, <2>1 DEF Swept, Places, Clean
  <2>3. QED
    BY <1>1, <2>1, <2>2 DEF GateShuts, Quiet
<1>7. QED
  BY <1>2, <1>3, <1>4, <1>5, <1>6 DEF StepOfTerminal

LEMMA GateShutsBundle ==
  ASSUME IInv, Undisturbed, StepOfBundle PROVE GateShuts'
<1> USE DEF Runs, Begins, Measures, Closes, Stops, InGate
<1>1. GateShuts /\ DiskTyped /\ Places /\ InHand /\ Options
  BY DEF IInv, Strips
<1>2. UNCHANGED <<tpc, tAt, killed>>
  BY DEF StepOfBundle, Configure, Refuses, SpawnHelper, HelperReady, Permission, NextCase,
            AwaitStagedWindow, ObserveFront, ObserveEnds, ReadApproved, TearDown, Gate, GateRemoves, Removes, Results,
            Throws, End, Shutdown, tVars, bStays
<1>3. bpc # "off" /\ bpc' # "off"
  BY DEF StepOfBundle, Configure, Refuses, SpawnHelper, HelperReady, Permission, NextCase, Recognised, Answered, NotAnswered,
            AwaitStagedWindow, ObserveFront, ObserveEnds, ReadApproved, TearDown, Gate, GateRemoves, Removes, Results,
            Throws, End, Shutdown, AfterGate
<1>4. CASE Configure
  <2>1. bpc = "config" /\ bpc' \in {"quit", "place"} /\ UNCHANGED <<disk, beat, stopped>>
    BY <1>4, ConfigureDoes DEF Configure, revealVars
  <2>2. QED
    BY <1>1, <1>2, <2>1 DEF GateShuts, Quiet, Swept, Clean
<1>5. CASE Refuses \/ SpawnHelper \/ HelperReady \/ Permission
  <2>1. bpc \in Begins /\ bpc' \in Begins \cup {"quit", "next", "results", "end"} /\ UNCHANGED <<disk, beat, stopped, s>>
    BY <1>5 DEF Refuses, SpawnHelper, HelperReady, Permission, revealVars
  <2>2. QED
    BY <1>1, <1>2, <2>1 DEF GateShuts, Quiet, Swept, Clean
<1>6. CASE NextCase \/ AwaitStagedWindow \/ ObserveFront \/ ObserveEnds \/ ReadApproved \/ TearDown \/ Results \/ Throws
  <2>1. UNCHANGED <<disk, beat, stopped, s>>
    BY <1>6 DEF NextCase, AwaitStagedWindow, ObserveFront, ObserveEnds, ReadApproved, TearDown, Results, Throws, revealVars
  <2>2. bpc \in {"next", "look", "read", "observe", "down", "results"}
    BY <1>6 DEF NextCase, AwaitStagedWindow, ObserveFront, ObserveEnds, ReadApproved, TearDown, Results, Throws
  <2>3. bpc' \in {"next", "look", "read", "observe", "down", "results", "gate", "end"}
    BY <1>6, <2>2 DEF NextCase, AwaitStagedWindow, ObserveFront, ObserveEnds, ReadApproved, Answered, NotAnswered, TearDown,
       Results, Throws, Recognised, OpenAgain
  <2>4. QED
    BY <1>1, <1>2, <2>1, <2>2, <2>3 DEF GateShuts, Quiet, Swept, Clean
<1>7. CASE Gate
  <2>1. bpc \in {"gate", "write", "rename"} /\ s.reveal /\ s' = s /\ bAt' = bAt /\ bAt = 1
    BY <1>1, <1>7 DEF Gate, bOwn, InHand, Places
  <2>2. CASE bpc = "gate" /\ stopped
    <3>1. UNCHANGED <<disk, beat, stopped>> /\ bpc' \in {"observe", "down"}
      BY <1>7, <2>2 DEF Gate, AfterGate, revealVars
    <3>2. QED
      BY <1>1, <1>2, <2>1, <2>2, <3>1 DEF GateShuts, Quiet, Clean
  <2>3. CASE bpc = "gate" /\ ~stopped /\ bpc' = "giveUp"
    <3>1. stopped' = TRUE /\ UNCHANGED <<disk, beat>>
      BY <1>7, <2>3 DEF Gate, GateStops
    <3>2. GoneBefore(disk, 1)
      BY DEF GoneBefore
    <3>3. QED
      BY <1>1, <1>2, <2>1, <2>3, <3>1, <3>2 DEF GateShuts, Quiet, Clean
  <2>4. CASE ~stopped /\ bpc' \in {"write", "rename", "observe", "down"} /\ UNCHANGED <<beat, stopped>>
    BY <1>1, <1>2, <2>1, <2>4 DEF GateShuts, Quiet, Clean
  <2>5. QED
    <3>1. bpc \in {"write", "rename"} => ~stopped
      BY <1>1 DEF GateShuts
    <3>2. QED
      BY <1>7, <2>1, <2>2, <2>3, <2>4, <3>1 DEF Gate, AfterGate, WritePartial, RenamePartial, revealVars
<1>8. CASE GateRemoves
  <2>1. /\ bpc \in Stops /\ RemoveStep(bAt) /\ s' = s
        /\ IF bAt < 3 THEN bAt' = bAt + 1 /\ bpc' = bpc
           ELSE bAt' = 1 /\ (bpc = "giveUp" => bpc' \in {"observe", "down"}) /\ (bpc = "giveUpAtEnd" => bpc' = "shut")
    BY <1>8, DiskNames DEF GateRemoves, Removes, AfterGate
  <2>2. stopped /\ GoneBefore(disk, bAt) /\ bAt \in 1..3 /\ UNCHANGED <<beat, stopped>>
    BY <1>1, <2>1, DiskNames DEF GateShuts, Places, RemoveStep
  <2>3. Empty(disk) => Empty(disk')
    BY <1>1, <2>1, <2>2, DiskNames DEF RemoveStep, Gone, Empty, Names, DiskTyped
  <2>4. CASE bAt < 3
    <3>1. GoneBefore(disk', bAt + 1)
      BY <1>1, <2>1, <2>2, <2>4, DiskNames DEF RemoveStep, Gone, GoneBefore, Names, DiskTyped
    <3>2. QED
      BY <1>1, <1>2, <2>1, <2>2, <2>3, <2>4, <3>1 DEF GateShuts, Quiet, Swept, Clean
  <2>5. CASE ~(bAt < 3)
    <3>1. Empty(disk') /\ bAt = 3
      BY <1>1, <2>1, <2>2, <2>5, DiskNames DEF RemoveStep, Gone, GoneBefore, Empty, Names, DiskTyped
    <3>2. bpc = "giveUpAtEnd" => tpc # "clear"
      BY DEF Undisturbed
    <3>3. bpc' \notin Stops
      BY <2>1, <2>5
    <3>4. tpc' = "clear" => bpc' # "shut"
      BY <1>2, <2>1, <2>5, <3>2
    <3>5. bpc' \notin {"write", "rename", "off", "config", "quit"} \cup Begins
      BY <2>1, <2>5
    <3>6. tpc' = "gone" /\ bpc' # "off" /\ Clean' => beat' # "fresh"
      BY <1>1, <1>2, <1>3, <2>2 DEF GateShuts, Clean
    <3>7. QED
      BY <3>1, <3>3, <3>4, <3>5, <3>6 DEF GateShuts
  <2>6. QED
    BY <2>4, <2>5
<1>9. CASE End
  <2>1. bpc = "end" /\ s' = s /\ bAt' = bAt /\ bAt = 1 /\ tpc # "clear"
    BY <1>1, <1>9 DEF End, bOwn, Places, Undisturbed
  <2>2. CASE s.reveal /\ ~stopped /\ ~Alive
    <3>1. bpc' = "giveUpAtEnd" /\ stopped' = TRUE /\ UNCHANGED <<disk, beat>>
      BY <1>9, <2>2 DEF End, GateStops
    <3>2. GoneBefore(disk, 1)
      BY DEF GoneBefore
    <3>3. QED
      BY <1>1, <1>2, <2>1, <2>2, <3>1, <3>2 DEF GateShuts, Quiet, Swept, Clean
  <2>3. CASE ~(s.reveal /\ ~stopped /\ ~Alive)
    <3>1. bpc' = "shut" /\ UNCHANGED <<disk, beat, stopped>>
      BY <1>9, <2>3 DEF End, revealVars
    <3>2. ASSUME tpc = "gone", Clean PROVE Empty(disk)
      <4>1. beat # "fresh" /\ Swept /\ "bundle" \notin killed
        BY <1>1, <2>1, <3>2 DEF GateShuts, Swept, Clean
      <4>2. ~s.reveal \/ stopped
        BY <2>3, <4>1 DEF Alive
      <4>3. QED
        BY <1>1, <2>1, <4>1, <4>2 DEF GateShuts, Quiet
    <3>3. QED
      BY <1>1, <1>2, <2>1, <3>1, <3>2 DEF GateShuts, Quiet, Swept, Clean
  <2>4. QED
    BY <2>2, <2>3
<1>10. CASE Shutdown
  <2>1. bpc \in {"shut", "quit"} /\ bpc' = "gone" /\ UNCHANGED <<disk, beat, stopped, s, bAt>>
    BY <1>10 DEF Shutdown, revealVars
  <2>2. tpc = "gone" /\ Clean => Empty(disk)
    BY <1>1, <2>1 DEF GateShuts, Quiet, Swept
  <2>3. QED
    BY <1>1, <1>2, <2>1, <2>2 DEF GateShuts, Quiet, Swept, Clean
<1>11. QED
  BY <1>4, <1>5, <1>6, <1>7, <1>8, <1>9, <1>10 DEF StepOfBundle

LEMMA GateShutsElsewhere ==
  ASSUME IInv, StepAround \/ UNCHANGED vars PROVE GateShuts'
<1> USE DEF Runs, Begins, Measures, Closes, Stops, InGate
<1>1. GateShuts /\ Places
  BY DEF IInv, Strips
<1>2. CASE HelperDies \/ UNCHANGED vars
  BY <1>1, <1>2 DEF HelperDies, vars, tVars, bVars, revealVars, GateShuts, Quiet, Swept, Clean
<1>3. CASE BeatGrowsOld
  BY <1>1, <1>3 DEF BeatGrowsOld, Grows, tVars, bVars, GateShuts, Quiet, Swept, Clean
<1>4. CASE BundleKilled
  <2>1. bpc # "off" /\ bpc' = "gone" /\ "bundle" \in killed' /\ ~Clean' /\ UNCHANGED <<disk, stopped>>
    BY <1>4 DEF BundleKilled, revealVars, Clean
  <2>2. QED
    BY <1>1, <2>1 DEF GateShuts, Quiet
<1>5. QED
  BY <1>2, <1>3, <1>4 DEF StepAround

LEMMA StripsKeep == ASSUME IInv, [Next]_vars PROVE Strips'
BY DiskTypedKeep, OnlyRevealedKeep, GateShutsTerminal, GateShutsBundle, GateShutsElsewhere, Steps DEF Strips

-----------------------------------------------------------------------------
(* At first nothing is read, and the disk holds at most what a killed run left. *)
LEMMA InvInit == Init => IInv
<1> SUFFICES ASSUME Init PROVE IInv
  OBVIOUS
<1>1. Places
  <2>1. 1 \in Clearing /\ 1 \in 1..Len(RevealFileNames)
    BY DiskNames DEF Clearing
  <2>2. QED
    BY <2>1 DEF Init, Places, Runs, Begins, Measures, Closes, Stops, InGate
<1>2. Options
  BY DEF Init, Options, Runs, Begins, Measures, Closes, InGate
<1>3. InHand
  BY DEF Init, InHand, InGate, AtStaged
<1>4. Counts
  BY DEF Init, Counts, Begins, Measures, InGate
<1>5. Rows
  <2>1. \A c \in Cases : rows[c] = NoRow
    BY DEF Init
  <2>2. 0 \in Nat /\ 0 \in 0..Repetitions /\ 0 \in 0..1 /\ 0 \in 0..ReadAttempts
    BY EvalAssumption
  <2>3. NoRow \in Row /\ NoRow \in AccuracyRow /\ NoRow \in ToolbarRow /\ NoRow \in ObserveRow
    BY <2>2 DEF NoRow, Row, AccuracyRow, ToolbarRow, ObserveRow
  <2>4. rows = [c \in Cases |-> NoRow]
    BY DEF Init
  <2>5. QED
    BY <2>1, <2>3, <2>4 DEF Rows, RowFor
<1>6. Verdict
  <2>1. None # Error("REFUSED")
    BY EvalAssumption DEF Error
  <2>2. out = None /\ exit = None /\ said = None
    BY DEF Init
  <2>3. \A r \in EvalResults : r.schema = Schema \/ r.notSecure = None
    BY DEF EvalResults
  <2>4. exit # 0
    BY <2>2, EvalAssumption
  <2>5. QED
    BY <2>1, <2>2, <2>3, <2>4 DEF Verdict
<1>7. Strips
  <2>1. disk \in [Names -> (SUBSET Cases) \cup {None}]
    <3>1. PICK left \in {None, {"plain"}} : disk = [n \in Names |-> IF n = "reveal" THEN left ELSE None]
      BY DiskNames DEF Init, RevealInit
    <3>2. {"plain"} \in SUBSET Cases
      BY CaseNames
    <3>3. QED
      BY <3>1, <3>2
  <2>2. bpc \in {"off", "config"} /\ stopped = FALSE /\ beat = None /\ revealed = {} /\ shown = {} /\ tpc \in {"typed", "absent"}
    BY DEF Init, RevealInit
  <2>3. QED
    BY <2>1, <2>2 DEF Strips, DiskTyped, OnlyRevealed, GateShuts, Swept, Stops
<1>8. QED
  BY <1>1, <1>2, <1>3, <1>4, <1>5, <1>6, <1>7 DEF IInv

(* Every step keeps the invariant. *)
LEMMA InvStep == IInv /\ [Next]_vars => IInv'
BY PlacesKeep, OptionsKeep, InHandKeep, CountsKeep, RowsKeep, VerdictKeep, StripsKeep DEF IInv

(* Hence it always holds. *)
LEMMA Invariance == Spec => []IInv
BY InvInit, InvStep, PTL DEF Spec

-----------------------------------------------------------------------------
(* The parts of EvalInv, from those of the invariant. *)
LEMMA TypesHold == IInv => TypeOK
<1> SUFFICES ASSUME IInv PROVE TypeOK
  OBVIOUS
<1>1. RevealTypeOK
  BY DiskNames DEF IInv, Strips, DiskTyped, RevealTypeOK
<1>2. \A c \in Cases : rows[c] \in IF c \in Watched THEN ObserveRow ELSE IF c \in ToSet(Toolbars) THEN ToolbarRow ELSE AccuracyRow
  BY DEF IInv, Rows, RowFor
<1>3. s \in Settings \cup {None} /\ opts \in Typed
  BY DEF IInv, Options, SetFor
<1>4. QED
  BY <1>1, <1>2, <1>3 DEF IInv, InHand, Verdict, Strips, OnlyRevealed, TypeOK
LEMMA FencesHold == IInv => FencesAgree
BY DEF IInv, Verdict, Options, FencesAgree
LEMMA NothingIsLeft == IInv => NoStripIsLeft
<1> SUFFICES ASSUME IInv PROVE NoStripIsLeft
  OBVIOUS
<1>1. ASSUME tpc = "gone", bpc = "gone", killed \subseteq {"interrupted"} PROVE NoStrips
  <2>1. Empty(disk)
    BY <1>1 DEF IInv, Strips, GateShuts, Clean
  <2>2. DOMAIN disk = Names
    BY DEF IInv, Strips, DiskTyped
  <2>3. QED
    BY <2>1, <2>2 DEF Empty, NoStrips
<1>2. shown # {} => opts.reveal /\ (opts.mode = "observe" \/ opts.notSecure)
  BY DEF IInv, Strips, OnlyRevealed
<1>3. QED
  BY <1>1, <1>2 DEF NoStripIsLeft
LEMMA OnlyItsOwn == IInv => ReadsItsOwn
<1> SUFFICES ASSUME IInv PROVE ReadsItsOwn
  OBVIOUS
<1>1. shot # None => Approve(shot, item)
  BY DEF IInv, InHand
<1>2. bpc = "gone" /\ "bundle" \notin killed => ~chrome /\ helper # "up"
  BY DEF IInv, InHand, AtStaged, InGate
<1>3. QED
  BY <1>1, <1>2 DEF ReadsItsOwn, Approve

(* EvalInv, of the run reader_eval: every variable has its type; the two   *)
(* parsers agree about what may be run; no strip of text outlives a run    *)
(* nobody killed, and none is printed by a run that is judged; and a text  *)
(* comes from this run's own window of the case it is counted for, and no  *)
(* Chrome and no helper are left behind.                                   *)
THEOREM EvalIsSound == Spec => []EvalInv
<1>1. IInv => EvalInv
  BY TypesHold, FencesHold, NothingIsLeft, OnlyItsOwn DEF EvalInv
<1>2. QED
  BY <1>1, Invariance, PTL

(* AcceptedIsEarned, of the run reader_eval: exit code 0, and the word     *)
(* ACCEPTED, are for a whole and ordinary run in which every case of its   *)
(* mode was read as often as it should be, well enough and as staged, and  *)
(* nothing was revealed.                                                   *)
THEOREM AcceptedOnlyIfEarned == Spec => []AcceptedIsEarned
<1>1. IInv => AcceptedIsEarned
  BY DEF IInv, Verdict, Earned, AcceptedIsEarned
<1>2. QED
  BY <1>1, Invariance, PTL
================================================================================
