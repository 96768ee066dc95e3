---------------------------- MODULE ModelClient ----------------------------
(***************************************************************************)
(* The language model as the pipeline and the self-test use it: the two    *)
(* questions of an extraction, asked twice at most                         *)
(* (app/src/core/extraction/extract.ts), the self-test's wrapper           *)
(* (app/src/main/model/selfTest.ts), the client that supervises the host   *)
(* process (app/src/main/model/client.ts), and the host                    *)
(* (app/src/main/model/hostCore.ts, llamaBinding.ts).                      *)
(*                                                                         *)
(* A conversation is a slot: one attempt of one user.  The users' own      *)
(* limits are shorter than the client's limit on a request, so a request   *)
(* runs out of time only when its user has given it up; and that limit is  *)
(* shorter than the idle wait, so the idle timer never fires under an open *)
(* (main/constants.ts).  What was killed says nothing any more; whether the*)
(* crashes are too many in too short a time is a choice.  Bounds: MaxIds   *)
(* conversations opened on one host; a user begins again when what it left *)
(* of the time before has ended.                                           *)
(***************************************************************************)
EXTENDS Naturals, FiniteSets

CONSTANTS None, Users, Tests, MaxIds
ASSUME ConstantsAssumption ==
  IsFiniteSet(Users) /\ Tests \subseteq Users /\ None \notin Users \X {1, 2} /\ MaxIds \in Nat

VARIABLES
  link, open, idle, broken,  \* the client: host, live conversations, idle timer, too many crashes
  conv,                    \* per slot, the conversation as the client has it
  next, has, inbox,        \* the host: ids handed out, conversations, messages to it
  run                      \* the users
client == <<link, open, idle, broken>>
host   == <<next, has, inbox>>
vars   == <<client, conv, host, run>>

Slots == Users \X {1, 2}
Ids == 1..MaxIds
Nothing == [st |-> "none", stale |-> FALSE, id |-> 0]
Resting == [ph |-> "resting", n |-> 1, q |-> 1, ok |-> FALSE, over |-> FALSE]

Conversations == [st : {"none", "opening", "live"}, stale : BOOLEAN, id : 0..MaxIds]
Messages == [kind : {"ask", "close"}, slot : Slots, id : Ids]
Runs == [ph : {"resting", "begins", "opening", "asking", "closes", "closing"}, n : {1, 2}, q : {1, 2},
         ok : BOOLEAN, over : BOOLEAN]
TypeOK ==
  /\ link \in BOOLEAN /\ idle \in BOOLEAN /\ broken \in BOOLEAN /\ open \in 0..Cardinality(Slots)
  /\ conv \in [Slots -> Conversations]
  /\ next \in 0..MaxIds /\ has \in [Ids -> Slots \cup {None}]
  /\ inbox \subseteq Messages /\ run \in [Users -> Runs]

Init ==
  /\ link = FALSE /\ open = 0 /\ idle = FALSE /\ broken = FALSE
  /\ next = 0 /\ has = [i \in Ids |-> None] /\ inbox = {}
  /\ conv = [c \in Slots |-> Nothing] /\ run = [u \in Users |-> Resting]

-----------------------------------------------------------------------------
(* The users.  An attempt that fails is made once more.                    *)
SlotOf(u) == <<u, run[u].n>>
Rests(r) == [r EXCEPT !.ph = "resting", !.n = 1, !.q = 1, !.ok = FALSE, !.over = FALSE]
FailedOnceMore(r) == [r EXCEPT !.ph = "begins", !.n = @ + 1, !.q = 1]  \* a slip: one attempt too many
FailedAgain(r) == [r EXCEPT !.ph = "begins", !.n = 3 - @, !.q = 1]  \* a slip: retried without end
Failed(r) == IF r.n = 2 THEN Rests(r) ELSE [r EXCEPT !.ph = "begins", !.n = 2, !.q = 1]
Ends(r) == IF r.ok THEN Rests(r) ELSE Failed(r)
Closes(r, ok) == [r EXCEPT !.ph = "closes", !.q = 1, !.ok = ok]
Waits(c, ph) == SlotOf(c[1]) = c /\ run[c[1]].ph = ph
Goes(u, r) == run' = [run EXCEPT ![u] = r]

(* armIdle, with the client as the caller leaves it.                       *)
ArmIdle == idle' = (open' = 0 /\ link')
Message(k, c, i) == [kind |-> k, slot |-> c, id |-> i]

(* teardown: every request is rejected, every conversation is stale; what  *)
(* the users do about it comes after, each in a turn of its own.           *)
Teardown ==
  /\ link' = FALSE /\ open' = 0
  /\ conv' = [c \in Slots |-> IF conv[c].st = "live" THEN [conv[c] EXCEPT !.stale = TRUE]
                                                     ELSE Nothing]
  /\ run' = [u \in Users |-> CASE run[u].ph = "opening" -> Failed(run[u])
                               [] run[u].ph = "asking"  -> Closes(run[u], FALSE)
                               [] run[u].ph = "closing" -> Ends(run[u])
                               [] OTHER -> run[u]]
  /\ next' = 0 /\ has' = [i \in Ids |-> None] /\ inbox' = {}
RecordCrash == broken' \in {broken, TRUE}

-----------------------------------------------------------------------------
(* A scenario is taken up, or a self-test is asked for.                    *)
Extract(u) ==
  /\ run[u].ph = "resting" /\ Goes(u, [Resting EXCEPT !.ph = "begins"])
  /\ UNCHANGED <<client, conv, host>>
(* open: the idle wait ends; a broken client refuses, and a host is started*)
(* where there is none.                                                    *)
Opening(u) ==
  LET c == SlotOf(u)
  IN  /\ conv' = [conv EXCEPT ![c] = [Nothing EXCEPT !.st = "opening"]]
      /\ Goes(u, [run[u] EXCEPT !.ph = "opening"])
      /\ link' = TRUE /\ idle' = FALSE /\ UNCHANGED <<open, broken, host>>
Refused(u) == UNCHANGED <<link, open, conv, host>> /\ Goes(u, Failed(run[u])) /\ ArmIdle
Begin(u) ==
  /\ run[u].ph = "begins" /\ conv[SlotOf(u)] = Nothing
  /\ \/ run[u].over /\ Goes(u, Failed(run[u])) /\ UNCHANGED <<client, conv, host>>
     \/ ~run[u].over /\ ~broken /\ Opening(u)
     \/ ~run[u].over /\ broken /\ Refused(u) /\ UNCHANGED broken
     \/ ~run[u].over /\ ~broken /\ ~link /\ RecordCrash /\ Refused(u)
OpenGivenUp(u) ==
  run[u].ph = "opening" /\ Goes(u, Failed(run[u])) /\ UNCHANGED <<client, conv, host>>

(* The host has opened a conversation, and main hears of it if it waits    *)
(* still: the first question follows, or the close where nobody wants the  *)
(* conversation any more.                                                  *)
Opened(c) ==
  LET i == next + 1  wanted == Waits(c, "opening") /\ ~run[c[1]].over
  IN  /\ conv[c].st = "opening" /\ i \in Ids /\ next' = i /\ has' = [has EXCEPT ![i] = c]
      /\ inbox' = inbox \cup {Message(IF wanted THEN "ask" ELSE "close", c, i)}
      /\ conv' = [conv EXCEPT ![c] = IF wanted THEN [st |-> "live", stale |-> FALSE, id |-> i] ELSE Nothing]
      /\ open' = (IF wanted THEN open + 1 ELSE open) /\ UNCHANGED <<link, broken>> /\ ArmIdle
      /\ CASE wanted -> Goes(c[1], [run[c[1]] EXCEPT !.ph = "asking"])
           [] Waits(c, "opening") /\ ~wanted -> Goes(c[1], Failed(run[c[1]]))
           [] OTHER -> UNCHANGED run
(* The host could not (the model did not load), or never answers: then the *)
(* client's own limit ends it, long after its user has given it up.  What a*)
(* host answers after that is dropped.                                     *)
Unarmed(c) ==  \* a slip: an open that comes to nothing leaves the host unwatched
  conv' = [conv EXCEPT ![c] = Nothing] /\ UNCHANGED <<link, open, broken, idle>>
OpenCameToNothing(c) ==
  conv' = [conv EXCEPT ![c] = Nothing] /\ UNCHANGED <<link, open, broken>> /\ ArmIdle
OpenFails(c) ==
  /\ conv[c].st = "opening" /\ OpenCameToNothing(c) /\ UNCHANGED host
  /\ IF Waits(c, "opening") THEN Goes(c[1], Failed(run[c[1]])) ELSE UNCHANGED run

(* A question is answered, well or not: the second follows the first in the*)
(* same turn, unless the gate said no or the self-test is over.  One that  *)
(* its user has given up is forgotten: its answer changes nothing.         *)
Questions(c) == {m \in inbox : m.kind = "ask" /\ m.slot = c}
Asked(c) ==
  \E m \in Questions(c) : \E good, goesOn \in BOOLEAN :
    LET u == c[1]  again == good /\ goesOn /\ run[u].q = 1 /\ ~run[u].over
    IN  /\ good => has[m.id] # None
        /\ inbox' = (IF again THEN inbox ELSE inbox \ {m}) /\ UNCHANGED <<client, conv, next, has>>
        /\ Goes(u, IF again THEN [run[u] EXCEPT !.q = 2] ELSE Closes(run[u], good))
AskGivenUp(u) ==
  /\ run[u].ph = "asking" /\ Goes(u, Closes(run[u], FALSE)) /\ inbox' = inbox \ Questions(SlotOf(u))
  /\ UNCHANGED <<client, conv, next, has>>

(* close: a conversation whose host is gone is closed already, one that the*)
(* self-test closed at its end too.                                        *)
CloseAnyway(c) ==  \* a slip: the host may be another one by now
  /\ conv[c].st = "live" /\ link /\ conv' = [conv EXCEPT ![c] = Nothing]
  /\ open' = (IF open > 0 THEN open - 1 ELSE 0) /\ UNCHANGED <<link, broken, next, has>> /\ ArmIdle
  /\ inbox' = inbox \cup {Message("close", c, conv[c].id)}
CloseOnHost(c) ==
  /\ conv[c].st = "live" /\ ~conv[c].stale /\ conv' = [conv EXCEPT ![c] = Nothing]
  /\ open' = open - 1 /\ UNCHANGED <<link, broken, next, has>> /\ ArmIdle
  /\ inbox' = inbox \cup {Message("close", c, conv[c].id)}
CloseLocally(c) ==
  /\ conv[c].st = "live" => conv[c].stale
  /\ conv' = [conv EXCEPT ![c] = Nothing] /\ UNCHANGED <<client, host>>
Close(u) ==
  /\ run[u].ph = "closes"
  /\ \/ CloseOnHost(SlotOf(u)) /\ Goes(u, [run[u] EXCEPT !.ph = "closing"])
     \/ CloseLocally(SlotOf(u)) /\ Goes(u, Ends(run[u]))
Closed(c) ==
  \E m \in {x \in inbox : x.kind = "close" /\ x.slot = c} : \E good \in BOOLEAN :
    /\ inbox' = inbox \ {m} /\ has' = (IF good THEN [has EXCEPT ![m.id] = None] ELSE has)
    /\ UNCHANGED <<client, conv, next>>
    /\ IF Waits(c, "closing") THEN Goes(c[1], Ends(run[c[1]])) ELSE UNCHANGED run
CloseGivenUp(u) == run[u].ph = "closing" /\ Goes(u, Ends(run[u])) /\ UNCHANGED <<client, conv, host>>

(* The self-test runs out of time: what it has open is closed, what it     *)
(* still waits for is thrown away when it comes.                           *)
TestTimesOut(u) ==
  /\ u \in Tests /\ run[u].ph # "resting" /\ ~run[u].over /\ Goes(u, [run[u] EXCEPT !.over = TRUE])
  /\ \/ CloseOnHost(SlotOf(u))
     \/ /\ conv[SlotOf(u)].st # "live" \/ conv[SlotOf(u)].stale
        /\ UNCHANGED <<client, conv, host>>

-----------------------------------------------------------------------------
(* The host goes: by itself; unloaded when nobody needs it; with quit or   *)
(* the deletion of all data.  Only the first is a crash.                   *)
HostExits == link /\ Teardown /\ RecordCrash /\ UNCHANGED idle
IdleFires ==
  /\ idle /\ idle' = FALSE /\ UNCHANGED broken
  /\ \A c \in Slots : conv[c].st # "opening"
  /\ Teardown
Shutdown == link /\ idle' = FALSE /\ Teardown /\ UNCHANGED broken
Reset    == broken /\ broken' = FALSE /\ UNCHANGED <<link, open, idle, conv, host, run>>

Next ==
  \/ \E u \in Users : \/ Extract(u) \/ Begin(u) \/ OpenGivenUp(u) \/ AskGivenUp(u)
                      \/ Close(u) \/ CloseGivenUp(u) \/ TestTimesOut(u)
  \/ \E c \in Slots : \/ Opened(c) \/ OpenFails(c) \/ Asked(c) \/ Closed(c)
  \/ HostExits \/ IdleFires \/ Shutdown \/ Reset
Spec == Init /\ [][Next]_vars
(* Limits run out, and what is awaited no longer goes on.                  *)
Fairness ==
  /\ \A u \in Users : WF_vars(Begin(u) \/ OpenGivenUp(u) \/ AskGivenUp(u) \/ Close(u) \/ CloseGivenUp(u))
  /\ \A c \in Slots : WF_vars(OpenFails(c))
FairSpec == Spec /\ Fairness

-----------------------------------------------------------------------------
(* What main sends about a conversation reaches that conversation or       *)
(* nothing: ids begin again with each host, so one that outlived its host  *)
(* would speak for somebody else's.                                        *)
RightConversation == \A m \in inbox : has[m.id] \in {None, m.slot}

(* A host that nobody needs has its end set, and one with a conversation   *)
(* on it never has, whatever crossed it.                                   *)
HostIsWatched ==
  /\ open = Cardinality({c \in Slots : conv[c].st = "live" /\ ~conv[c].stale})
  /\ idle => open = 0
  /\ link /\ open = 0 /\ (\A c \in Slots : conv[c].st # "opening") => idle
HostInv == TypeOK /\ HostIsWatched

(* An extraction ends, and so does a self-test, whatever the host does.    *)
RunsEnd == \A u \in Users : run[u].ph # "resting" ~> run[u].ph = "resting"
=============================================================================
