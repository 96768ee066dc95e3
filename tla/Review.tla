------------------------------- MODULE Review -------------------------------
(***************************************************************************)
(* The daily review: the statements that wait for an answer and the list   *)
(* of them that a day shows (app/src/core/digest.ts), and the decisions    *)
(* about them (approve and reject of main/engine.ts).                      *)
(*                                                                         *)
(* Statements are numbered as they are written, so a smaller one is older; *)
(* of its text only the number of its content words counts.  `day` is the  *)
(* calendar's, `today` the digest's, which follows at its next tick.       *)
(* The pool is saved behind every decision and tick, one save at a time    *)
(* (savePool of main/engine.ts): each writes the pool as it is then, some  *)
(* time later or, refused, not at all, so the file may lag behind.         *)
(* Bounds: Most statements, days 1..LastDay.                               *)
(***************************************************************************)
EXTENDS Naturals, Sequences, SequencesExt

CONSTANTS Targets, Words, PerDay, PerTarget, Ttl, Most, LastDay
ASSUME ReviewAssumption == Words \subseteq Nat /\ {PerDay, PerTarget, Ttl, Most} \subseteq Nat /\ LastDay \in Nat \ {0}

VARIABLES
  day, today,       \* the calendar's day and the digest's
  pool, written,    \* what waits, by number; how many were ever written
  saved,            \* the pool that is in its file
  resolved,         \* how many were decided on `today`
  deciding,         \* whose approval is being saved
  list              \* what the pool's list is
review == <<day, today, pool, written, saved, resolved, deciding, list>>

ReviewTypeOK ==
  /\ {day, today} \subseteq 1..LastDay /\ today <= day /\ written \in 0..Most
  /\ \A p \in {pool, saved} :
       /\ DOMAIN p \subseteq 1..written
       /\ \A i \in DOMAIN p : p[i] \in [target : Targets, words : Words, born : 1..day]
  /\ resolved \in 0..Most /\ deciding \subseteq 1..written /\ ToSet(list) \subseteq DOMAIN pool

ReviewInit == day = 1 /\ today = 1 /\ pool = <<>> /\ written = 0 /\ saved = <<>> /\ resolved = 0 /\ deciding = {} /\ list = <<>>

-----------------------------------------------------------------------------
(* The list: carried over from another day first, the oldest first; then   *)
(* today's, the one with the most words first, one per target before a     *)
(* second.                                                                 *)
CarriedOf(p, t) == {i \in DOMAIN p : p[i].born # t}
Room(r) == IF r < PerDay THEN PerDay - r ELSE 0
Taken(p, l, target) == Cardinality({i \in ToSet(l) : p[i].target = target})
TakeUpToEach(p, r, n, l, i) ==               \* a slip: a target may have as many as there is room for
  IF Len(l) < Room(r) /\ i \notin ToSet(l) THEN Append(l, i) ELSE l
TakeUpTo(p, r, n, l, i) ==
  IF Len(l) < Room(r) /\ i \notin ToSet(l) /\ Taken(p, l, p[i].target) < n THEN Append(l, i) ELSE l
(* All of them in turn; those of S by their places (joined to nothing: a   *)
(* sequence that is evaluated once); and round after round, each target    *)
(* taking one more.                                                        *)
TakeAll(p, r, n, l, order) ==
  LET taken[k \in 0..Len(order)] == IF k = 0 THEN l ELSE TakeUpTo(p, r, n, taken[k - 1], order[k])
  IN  taken[Len(order)]
InTurn(S, place) == [k \in 1..Cardinality(S) |-> CHOOSE i \in S : place[i] = k] \o <<>>
OldestFirst(S) == InTurn(S, [i \in S |-> 1 + Cardinality({j \in S : j < i})])
Richer(p, i, j) == p[i].words > p[j].words \/ (p[i].words = p[j].words /\ i < j)
RichestFirst(p, S) == InTurn(S, [i \in S |-> 1 + Cardinality({j \in S : Richer(p, j, i)})])
Rounds(p, r, l, fresh) ==
  LET round[n \in 0..PerTarget] == IF n = 0 THEN l ELSE TakeAll(p, r, n, round[n - 1], fresh)
  IN  round[PerTarget]
ViewFreshFirst(p, t, r) ==                   \* a slip: today's come before what is carried over
  TakeAll(p, r, PerTarget, Rounds(p, r, <<>>, RichestFirst(p, DOMAIN p \ CarriedOf(p, t))), OldestFirst(CarriedOf(p, t)))
View(p, t, r) ==
  Rounds(p, r, TakeAll(p, r, PerTarget, <<>>, OldestFirst(CarriedOf(p, t))), RichestFirst(p, DOMAIN p \ CarriedOf(p, t)))
Carried == CarriedOf(pool, today)
Listed == ToSet(list)

-----------------------------------------------------------------------------
(* A statement that passed the guard: merged into one of today's about the *)
(* same thing, which takes the longer text, or one more.                   *)
MergeBoth(i, words) ==                        \* a slip: the text becomes both
  pool' = [pool EXCEPT ![i].words = @ + words] /\ UNCHANGED written
Merge(i, words) == pool' = [pool EXCEPT ![i].words = IF words > @ THEN words ELSE @] /\ UNCHANGED written
Write(target, words) ==
  /\ written < Most /\ written' = written + 1
  /\ pool' = [i \in DOMAIN pool \cup {written'} |->
                IF i = written' THEN [target |-> target, words |-> words, born |-> day] ELSE pool[i]]
Add(target, words) ==
  /\ \/ \E i \in DOMAIN pool \ Carried : pool[i].target = target /\ Merge(i, words)
     \/ Write(target, words)
  /\ UNCHANGED <<day, today, saved, resolved, deciding>>

Resolve(i) == IF i \in DOMAIN pool
              THEN pool' = [j \in DOMAIN pool \ {i} |-> pool[j]] /\ resolved' = resolved + 1
              ELSE UNCHANGED <<pool, resolved>>
Reject(i) == Resolve(i) /\ UNCHANGED <<day, today, written, saved, deciding>>
Approve(i) == deciding' = deciding \cup {i} /\ UNCHANGED <<day, today, pool, written, saved, resolved>>
Approved(i, taken) ==
  /\ deciding' = deciding \ {i} /\ (IF taken THEN Resolve(i) ELSE UNCHANGED <<pool, resolved>>)
  /\ UNCHANGED <<day, today, written, saved>>
PoolSaved == saved' = pool /\ UNCHANGED <<day, today, pool, written, resolved, deciding>>

(* The tick: a day's end drops what was not listed; then what is too old,  *)
(* which on the last day depends on the hour, goes.                        *)
TooOld(p, i) == day - p[i].born > Ttl
MayBeTooOld(p, i) == day - p[i].born = Ttl
StillAlive(p, kept) ==
  \E n \in 0..written :
    /\ \A i \in kept : (i <= n => TooOld(p, i) \/ MayBeTooOld(p, i)) /\ (i > n => ~TooOld(p, i))
    /\ pool' = [i \in {i \in kept : i > n} |-> p[i]]
Tick ==
  /\ StillAlive(pool, IF day = today THEN DOMAIN pool ELSE Listed)
  /\ today' = day /\ resolved' = (IF day = today THEN resolved ELSE 0)
  /\ UNCHANGED <<day, written, saved, deciding>>
Midnight == day < LastDay /\ day' = day + 1 /\ UNCHANGED <<today, pool, written, saved, resolved, deciding>>
(* The app is launched again with what is in the pool's file and not too   *)
(* old, or, when that cannot be read, with nothing; how many were decided  *)
(* today is not known any more.                                            *)
Relaunch ==
  /\ \/ StillAlive(saved, DOMAIN saved) /\ UNCHANGED saved
     \/ pool' = <<>> /\ saved' \in {saved, <<>>}
  /\ today' = day /\ resolved' = 0 /\ deciding' = {} /\ UNCHANGED <<day, written>>

ReviewNext ==
  /\ \/ \E t \in Targets, w \in Words : Add(t, w)
     \/ \E i \in Listed \ deciding : Reject(i) \/ Approve(i)
     \/ \E i \in deciding, taken \in BOOLEAN : Approved(i, taken)
     \/ PoolSaved \/ Tick \/ Midnight \/ Relaunch
  /\ list' \in {View(p, today', resolved') : p \in {pool'}}
ReviewSpec == ReviewInit /\ [][ReviewNext]_review
-----------------------------------------------------------------------------
(* The day's list is as full as the day and the targets allow, and none of *)
(* today's gets a target's second place while another target has none.     *)
ListIsFull ==
  LET fresh == Listed \ Carried
      taken == [t \in Targets |-> Taken(pool, list, t)]
      Of(t) == {i \in fresh : pool[i].target = t}
  IN  /\ Len(list) <= Room(resolved) /\ \A t \in Targets : taken[t] <= PerTarget
      /\ \A i \in DOMAIN pool \ Listed : Len(list) = Room(resolved) \/ taken[pool[i].target] = PerTarget
      /\ \A i \in DOMAIN pool \ (Carried \cup fresh) :
           taken[pool[i].target] = 0 => \A t \in Targets : Cardinality(Of(t)) <= 1

(* Once all that is carried over is on the list it stays there until it is *)
(* decided or too old, and so does what is listed when a day ends,         *)
(* whatever is written, merged and decided meanwhile.  Not so when an      *)
(* approval ends of what has lost its own place since, nor at a launch that*)
(* is the first to see a new day, which carries over what was not listed   *)
(* too, or that finds less or more in the file than there was in memory: a *)
(* decision whose save did not come is undone, and takes its place again.  *)
Earlier == {i \in DOMAIN pool : pool[i].born < today}
Expires(i) == MayBeTooOld(pool, i) \/ TooOld(pool, i)
Stays(i) == i \in Listed' \/ (i \notin DOMAIN pool' /\ (Expires(i) \/ resolved' = resolved + 1))
Orderly ==
  /\ Earlier \subseteq Listed
  /\ (Relaunch => Tick \/ (day = today /\ StillAlive(pool, DOMAIN pool)))
  /\ (today' = today /\ resolved' > resolved => DOMAIN pool \ DOMAIN pool' \subseteq Listed)
CarriedStays == [][Orderly => \A i \in Listed : i \in Earlier \/ today' # today => Stays(i)]_review
=============================================================================
