------------------------------ MODULE ModelProofs ------------------------------
(***************************************************************************)
(* Theorems about the language model.  The host and those who talk to it   *)
(* (ModelClient), for any number of users of the model and any number of   *)
(* conversations on one host.  The file the host loads (Download), for a   *)
(* model of any size: a file that has not been verified is never called    *)
(* ready, and Download implements ModelFile.                               *)
(***************************************************************************)
EXTENDS ModelClient, Download, FiniteSetTheorems, TLAPS

-----------------------------------------------------------------------------
(* The inductive invariant.                                                *)

(* Every id main speaks of was given out by the host that runs now.        *)
IdsAreOfThisHost ==
  /\ \A m \in inbox : m.id <= next /\ has[m.id] \in {None, m.slot}
  /\ \A c \in Slots : conv[c].st = "live" /\ ~conv[c].stale =>
                         conv[c].id \in 1..next /\ has[conv[c].id] \in {None, c}
(* A question is on its way only while its user waits for the answer.      *)
AskedInTurn == \A m \in inbox : m.kind = "ask" => Waits(m.slot, "asking")
(* And it is the only one of its conversation.                             *)
AskedOnce == \A m, x \in inbox : m.kind = "ask" /\ x.kind = "ask" /\ m.slot = x.slot => m = x
(* Who is past the opening has nothing left to be opened.                  *)
OpenedOnce == \A u \in Users : run[u].ph \in {"asking", "closes", "closing"} => conv[SlotOf(u)].st # "opening"
(* HostIsWatched, by its parts.                                            *)
Live == {c \in Slots : conv[c].st = "live" /\ ~conv[c].stale}
Counted == open = Cardinality(Live)
Unneeded == idle => open = 0
Watched == link /\ open = 0 /\ (\A c \in Slots : conv[c].st # "opening") => idle

(* The types apart from that of open, which follows from its count.        *)
Types ==
  /\ link \in BOOLEAN /\ idle \in BOOLEAN /\ broken \in BOOLEAN
  /\ conv \in [Slots -> Conversations]
  /\ next \in 0..MaxIds /\ has \in [Ids -> Slots \cup {None}]
  /\ inbox \subseteq Messages /\ run \in [Users -> Runs]

IInv ==
  /\ Types /\ IdsAreOfThisHost /\ AskedInTurn /\ AskedOnce /\ OpenedOnce
  /\ Counted /\ Unneeded /\ Watched

-----------------------------------------------------------------------------
(* There are finitely many slots, so what is open can be counted.          *)
LEMMA SlotsFinite == IsFiniteSet(Slots) /\ IsFiniteSet(Live) /\ IsFiniteSet(Live')
<1>1. IsFiniteSet({1, 2})
  <2>1. IsFiniteSet({1})
    BY FS_Singleton
  <2>2. IsFiniteSet({1} \cup {2})
    BY <2>1, FS_AddElement
  <2>3. {1, 2} = {1} \cup {2}
    OBVIOUS
  <2>4. QED
    BY <2>2, <2>3
<1>2. IsFiniteSet(Users \X {1, 2})
  BY <1>1, ConstantsAssumption, FS_Product
<1>3. QED
  BY <1>2, FS_Subset DEF Slots, Live

(* What is counted is no more than there are slots.                        *)
LEMMA OpenTypes == Counted => open \in 0..Cardinality(Slots)
<1>1. Cardinality(Live) <= Cardinality(Slots) /\ Cardinality(Live) \in Nat /\ Cardinality(Slots) \in Nat
  <2>1. Live \in SUBSET Slots
    BY DEF Live
  <2>2. QED
    BY <2>1, SlotsFinite, FS_Subset, FS_CardinalityType
<1>2. QED
  BY <1>1 DEF Counted

(* The invariant holds of the parts of HostInv. *)
LEMMA InvImplies == IInv => HostInv /\ RightConversation
BY OpenTypes DEF IInv, Types, IdsAreOfThisHost, HostInv, TypeOK, HostIsWatched, Counted, Unneeded, Watched, Live,
  RightConversation

(* How the count moves: one conversation more.                             *)
LEMMA OneMore ==
  ASSUME Counted, NEW c \in Slots, c \notin Live, Live' = Live \cup {c}, open' = open + 1
  PROVE  Counted'
BY SlotsFinite, FS_AddElement DEF Counted
(* One less.                                                               *)
LEMMA OneLess ==
  ASSUME Counted, NEW c \in Slots, c \in Live, Live' = Live \ {c}, open' = open - 1
  PROVE  Counted'
BY SlotsFinite, FS_RemoveElement DEF Counted
(* As many as before.                                                      *)
LEMMA AsMany ==
  ASSUME Counted, Live' = Live, open' = open
  PROVE  Counted'
BY DEF Counted


(* What becomes of a run.                                                  *)
LEMMA RunTypes ==
  ASSUME NEW r \in Runs
  PROVE  /\ Rests(r) \in Runs /\ Rests(r).ph = "resting"
         /\ Failed(r) \in Runs /\ Failed(r).ph \in {"resting", "begins"}
         /\ Ends(r) \in Runs /\ Ends(r).ph \in {"resting", "begins"}
         /\ \A ok \in BOOLEAN : Closes(r, ok) \in Runs /\ Closes(r, ok).ph = "closes" /\ Closes(r, ok).n = r.n
<1>1. Rests(r) \in Runs /\ Rests(r).ph = "resting"
  BY DEF Rests, Runs
<1>2. Failed(r) \in Runs /\ Failed(r).ph \in {"resting", "begins"}
  BY <1>1 DEF Failed, Runs
<1>3. Ends(r) \in Runs /\ Ends(r).ph \in {"resting", "begins"}
  BY <1>1, <1>2 DEF Ends
<1>4. \A ok \in BOOLEAN : Closes(r, ok) \in Runs /\ Closes(r, ok).ph = "closes" /\ Closes(r, ok).n = r.n
  BY DEF Closes, Runs
<1>5. QED
  BY <1>1, <1>2, <1>3, <1>4

(* A slot is a user's.                                                     *)
LEMMA SlotTypes ==
  ASSUME run \in [Users -> Runs]
  PROVE  /\ \A u \in Users : SlotOf(u) \in Slots /\ SlotOf(u)[1] = u /\ SlotOf(u) = <<u, run[u].n>>
         /\ \A c \in Slots : c[1] \in Users /\ c[2] \in {1, 2} /\ c = <<c[1], c[2]>>
BY DEF SlotOf, Slots, Runs

(* The program starts in the invariant.                                    *)
LEMMA InvInit == Init => IInv
<1> SUFFICES ASSUME Init PROVE IInv
  OBVIOUS
<1>1. Types
  <2>1. Resting \in Runs /\ Nothing \in Conversations
    BY ConstantsAssumption DEF Resting, Runs, Nothing, Conversations
  <2>2. link \in BOOLEAN /\ idle \in BOOLEAN /\ broken \in BOOLEAN
    BY DEF Init
  <2>3. next \in 0..MaxIds
    BY ConstantsAssumption DEF Init
  <2>4. QED
    BY <2>1, <2>2, <2>3 DEF Init, Types
<1>2. Live = {}
  BY DEF Init, Live, Nothing
<1>3. IdsAreOfThisHost /\ AskedInTurn /\ AskedOnce /\ OpenedOnce
  BY SlotTypes, <1>1 DEF Init, IdsAreOfThisHost, AskedInTurn, AskedOnce, OpenedOnce, Nothing, Resting, Types
<1>4. Counted /\ Unneeded /\ Watched
  BY <1>2, FS_EmptySet DEF Init, Counted, Unneeded, Watched
<1>5. QED
  BY <1>1, <1>3, <1>4 DEF IInv

-----------------------------------------------------------------------------
(* What a step of one user changes, when no conversation is touched.       *)
LEMMA GoesTypes ==
  ASSUME run \in [Users -> Runs], NEW u \in Users, NEW r \in Runs, Goes(u, r)
  PROVE  /\ run' \in [Users -> Runs] /\ run'[u] = r /\ \A v \in Users \ {u} : run'[v] = run[v]
         /\ \A v \in Users : SlotOf(v)' = <<v, run'[v].n>>
BY DEF Goes, SlotOf

(* What a step of one user keeps.                                          *)
LEMMA RunMoves ==
  ASSUME IInv, NEW u \in Users, NEW r \in Runs, Goes(u, r),
         \A d \in Slots : d[1] # u => conv'[d] = conv[d],
         \A m \in inbox' : m.kind = "ask" =>
            (m \in inbox /\ m.slot[1] # u) \/ (m.slot = <<u, r.n>> /\ r.ph = "asking"),
         r.ph \notin {"asking", "closes", "closing"} \/ conv'[<<u, r.n>>].st # "opening"
  PROVE  run' \in [Users -> Runs] /\ AskedInTurn' /\ OpenedOnce'
<1>1. /\ run' \in [Users -> Runs] /\ run'[u] = r /\ \A v \in Users \ {u} : run'[v] = run[v]
      /\ \A v \in Users : SlotOf(v)' = <<v, run'[v].n>>
  BY GoesTypes DEF IInv, Types
<1>2. AskedInTurn'
  <2>1. SUFFICES ASSUME NEW m \in inbox', m.kind = "ask" PROVE Waits(m.slot, "asking")'
    BY DEF AskedInTurn
  <2>2. CASE m.slot = <<u, r.n>> /\ r.ph = "asking"
    BY <1>1, <2>2 DEF Waits
  <2>3. CASE m \in inbox /\ m.slot[1] # u
    <3>1. Waits(m.slot, "asking") /\ m.slot[1] \in Users
      BY <2>1, <2>3, SlotTypes DEF IInv, AskedInTurn, Types, Messages
    <3>2. run'[m.slot[1]] = run[m.slot[1]]
      BY <1>1, <2>3, <3>1
    <3>3. QED
      BY <1>1, <3>1, <3>2 DEF Waits, SlotOf
  <2>4. QED
    BY <2>1, <2>2, <2>3
<1>3. OpenedOnce'
  <2>1. SUFFICES ASSUME NEW v \in Users, run'[v].ph \in {"asking", "closes", "closing"}
                 PROVE  conv'[SlotOf(v)'].st # "opening"
    BY DEF OpenedOnce
  <2>2. CASE v = u
    BY <1>1, <2>1, <2>2
  <2>3. CASE v # u
    <3>1. run'[v] = run[v] /\ SlotOf(v)' = SlotOf(v) /\ SlotOf(v) \in Slots /\ SlotOf(v)[1] = v
      <4>1. run'[v] = run[v] /\ SlotOf(v)' = <<v, run[v].n>>
        BY <1>1, <2>3
      <4>2. QED
        BY <4>1, SlotTypes DEF IInv, Types
    <3>2. QED
      BY <2>1, <2>3, <3>1 DEF IInv, OpenedOnce
  <2>4. QED
    BY <2>2, <2>3
<1>4. QED
  BY <1>1, <1>2, <1>3

(* And when no user makes a step.                                          *)
LEMMA RunStays ==
  ASSUME IInv, UNCHANGED run, \A m \in inbox' : m.kind = "ask" => m \in inbox,
         \A d \in Slots : conv'[d].st = "opening" => conv[d].st = "opening"
  PROVE  run' \in [Users -> Runs] /\ AskedInTurn' /\ OpenedOnce'
<1>1. run' = run /\ \A v \in Users : SlotOf(v)' = SlotOf(v)
  BY DEF SlotOf
<1>2. \A v \in Users : SlotOf(v) \in Slots
  BY SlotTypes DEF IInv, Types
<1>3. QED
  BY <1>1, <1>2 DEF IInv, Types, AskedInTurn, OpenedOnce, Waits, SlotOf

(* Messages taken away, and nothing else of the conversations.             *)
LEMMA IdsKept ==
  ASSUME IInv, UNCHANGED <<conv, next, has>>, inbox' \subseteq inbox
  PROVE  inbox' \subseteq Messages /\ IdsAreOfThisHost' /\ AskedOnce'
BY DEF IInv, Types, IdsAreOfThisHost, AskedOnce

(* Only who asks has questions on the way.                                 *)
LEMMA NotAskingHasNone ==
  ASSUME IInv, NEW u \in Users, run[u].ph # "asking"
  PROVE  \A m \in inbox : ~(m.kind = "ask" /\ m.slot[1] = u)
BY DEF IInv, AskedInTurn, Waits

(* The client as it was.                                                   *)
LEMMA ClientKept ==
  ASSUME IInv, UNCHANGED client, UNCHANGED conv
  PROVE  Counted' /\ Unneeded' /\ Watched'
BY DEF client, IInv, Counted, Unneeded, Watched, Live

(* A step of a user alone that leaves the client as it is.                 *)
LEMMA UserStep ==
  ASSUME IInv, NEW u \in Users, NEW r \in Runs, Goes(u, r),
         UNCHANGED <<client, conv, next, has>>, inbox' \subseteq inbox,
         \A m \in inbox' : m.kind = "ask" /\ m.slot[1] = u => m.slot = <<u, r.n>> /\ r.ph = "asking",
         r.ph \notin {"asking", "closes", "closing"} \/ conv[<<u, r.n>>].st # "opening"
  PROVE  IInv'
<1>1. conv' = conv
  OBVIOUS
<1>2. \A m \in inbox' : m.kind = "ask" =>
            (m \in inbox /\ m.slot[1] # u) \/ (m.slot = <<u, r.n>> /\ r.ph = "asking")
  OBVIOUS
<1>3. run' \in [Users -> Runs] /\ AskedInTurn' /\ OpenedOnce'
  BY <1>1, <1>2, RunMoves
<1>4. inbox' \subseteq Messages /\ IdsAreOfThisHost' /\ AskedOnce'
  BY IdsKept
<1>5. Counted' /\ Unneeded' /\ Watched'
  BY ClientKept
<1>6. QED
  BY <1>3, <1>4, <1>5 DEF IInv, Types, client

(* A user begins, or gives up what it waits for.                           *)
LEMMA UserAloneKeeps ==
  ASSUME IInv, NEW u \in Users, Extract(u) \/ OpenGivenUp(u) \/ AskGivenUp(u) \/ CloseGivenUp(u)
  PROVE  IInv'
<1>0. run[u] \in Runs /\ run \in [Users -> Runs]
  BY DEF IInv, Types
<1>1. CASE Extract(u) \/ OpenGivenUp(u) \/ CloseGivenUp(u)
  <2>1. PICK r \in Runs : r.ph \in {"resting", "begins"} /\ Goes(u, r)
    <3>1. [Resting EXCEPT !.ph = "begins"] \in Runs /\ [Resting EXCEPT !.ph = "begins"].ph = "begins"
      BY DEF Runs, Resting
    <3>2. QED
      BY <1>0, <1>1, <3>1, RunTypes DEF Extract, OpenGivenUp, CloseGivenUp
  <2>2. run[u].ph # "asking" /\ UNCHANGED <<client, conv, next, has>> /\ inbox' = inbox
    BY <1>1 DEF Extract, OpenGivenUp, CloseGivenUp, host
  <2>3. (\A m \in inbox' : ~(m.kind = "ask" /\ m.slot[1] = u)) /\ r.ph \notin {"asking", "closes", "closing"}
    BY <2>1, <2>2, NotAskingHasNone
  <2>4. /\ inbox' \subseteq inbox /\ UNCHANGED <<client, conv, next, has>>
        /\ \A m \in inbox' : m.kind = "ask" /\ m.slot[1] = u => m.slot = <<u, r.n>> /\ r.ph = "asking"
        /\ r.ph \notin {"asking", "closes", "closing"} \/ conv[<<u, r.n>>].st # "opening"
    BY <2>2, <2>3
  <2>5. QED
    BY <2>1, <2>4, UserStep
<1>2. CASE AskGivenUp(u)
  <2>1. PICK r \in Runs : r.ph = "closes" /\ r.n = run[u].n /\ Goes(u, r)
    BY <1>0, <1>2, RunTypes DEF AskGivenUp
  <2>2. /\ run[u].ph = "asking" /\ UNCHANGED <<client, conv, next, has>>
        /\ inbox' = inbox \ Questions(SlotOf(u))
    BY <1>2 DEF AskGivenUp
  <2>3. \A m \in inbox' : ~(m.kind = "ask" /\ m.slot[1] = u)
    BY <2>2 DEF Questions, IInv, AskedInTurn, Waits
  <2>4. conv[<<u, r.n>>].st # "opening"
    BY <2>1, <2>2 DEF IInv, OpenedOnce, SlotOf
  <2>5. QED
    BY <2>1, <2>2, <2>3, <2>4, UserStep
<1>3. QED
  BY <1>1, <1>2

-----------------------------------------------------------------------------
(* A conversation changed at one slot.                                     *)
LEMMA ConvSet ==
  ASSUME IInv, NEW c \in Slots, NEW k \in Conversations, conv' = [conv EXCEPT ![c] = k]
  PROVE  /\ conv' \in [Slots -> Conversations] /\ conv'[c] = k
         /\ \A d \in Slots : d # c => conv'[d] = conv[d]
BY DEF IInv, Types
(* A slot with nothing in it, and one that is being opened.                *)
LEMMA NothingTypes ==
  /\ Nothing \in Conversations /\ Nothing.st = "none"
  /\ [Nothing EXCEPT !.st = "opening"] \in Conversations /\ [Nothing EXCEPT !.st = "opening"].st = "opening"
<1>1. 0 \in 0..MaxIds /\ FALSE \in BOOLEAN
  BY ConstantsAssumption
<1>2. QED
  BY <1>1 DEF Nothing, Conversations

(* One that is not live becomes another that is not: the ids are as before.*)
LEMMA IdleSlot ==
  ASSUME IInv, NEW c \in Slots, NEW k \in Conversations, conv' = [conv EXCEPT ![c] = k],
         c \notin Live, k.st # "live", UNCHANGED <<next, has>>, inbox' \subseteq inbox
  PROVE  /\ IdsAreOfThisHost' /\ AskedOnce' /\ Live' = Live /\ inbox' \subseteq Messages
<1>1. /\ conv' \in [Slots -> Conversations] /\ conv'[c] = k /\ \A d \in Slots : d # c => conv'[d] = conv[d]
  BY ConvSet
<1>2. Live' = Live
  BY <1>1 DEF Live
<1>3. IdsAreOfThisHost'
  BY <1>1 DEF IInv, IdsAreOfThisHost, Live
<1>4. QED
  BY <1>2, <1>3 DEF IInv, Types, AskedOnce

(* An extraction or a self-test begins.                                    *)
LEMMA BeginKeeps == ASSUME IInv, NEW u \in Users, Begin(u) PROVE IInv'
<1> DEFINE c == SlotOf(u)
<1>0. run[u] \in Runs /\ run \in [Users -> Runs] /\ c \in Slots /\ c[1] = u
  BY SlotTypes DEF IInv, Types
<1>1. run[u].ph = "begins" /\ conv[c] = Nothing /\ c \notin Live
  BY NothingTypes DEF Begin, Live
<1>2. \A m \in inbox : ~(m.kind = "ask" /\ m.slot[1] = u)
  BY <1>1, NotAskingHasNone
<1>3. CASE Goes(u, Failed(run[u])) /\ UNCHANGED <<client, conv, host>>
  <2>1. PICK r \in Runs : r.ph \in {"resting", "begins"} /\ Goes(u, r)
    BY <1>0, <1>3, RunTypes
  <2>2. /\ inbox' \subseteq inbox /\ UNCHANGED <<client, conv, next, has>>
        /\ \A m \in inbox' : m.kind = "ask" /\ m.slot[1] = u => m.slot = <<u, r.n>> /\ r.ph = "asking"
        /\ r.ph \notin {"asking", "closes", "closing"} \/ conv[<<u, r.n>>].st # "opening"
    BY <1>2, <1>3, <2>1 DEF host
  <2>3. QED
    BY <2>1, <2>2, UserStep
<1>4. CASE Opening(u)
  <2> DEFINE k == [Nothing EXCEPT !.st = "opening"]
  <2>1. /\ conv' = [conv EXCEPT ![c] = k] /\ link' = TRUE /\ idle' = FALSE
        /\ UNCHANGED <<open, broken, next, has>> /\ inbox' = inbox
    BY <1>4 DEF Opening, host
  <2>2. PICK r \in Runs : r.ph = "opening" /\ Goes(u, r)
    <3>1. [run[u] EXCEPT !.ph = "opening"] \in Runs /\ [run[u] EXCEPT !.ph = "opening"].ph = "opening"
      BY <1>0 DEF Runs
    <3>2. QED
      BY <1>4, <3>1 DEF Opening
  <2>3. k \in Conversations /\ k.st = "opening"
    BY NothingTypes
  <2> HIDE DEF k, c
  <2>4. /\ conv' \in [Slots -> Conversations] /\ conv'[c] = k /\ \A d \in Slots : d # c => conv'[d] = conv[d]
    BY <1>0, <2>1, <2>3, ConvSet
  <2>5. IdsAreOfThisHost' /\ AskedOnce' /\ Live' = Live /\ inbox' \subseteq Messages
    BY <1>0, <1>1, <2>1, <2>3, IdleSlot
  <2>6. /\ \A d \in Slots : d[1] # u => conv'[d] = conv[d]
        /\ \A m \in inbox' : m.kind = "ask" =>
              (m \in inbox /\ m.slot[1] # u) \/ (m.slot = <<u, r.n>> /\ r.ph = "asking")
        /\ r.ph \notin {"asking", "closes", "closing"} \/ conv'[<<u, r.n>>].st # "opening"
    BY <1>0, <1>2, <2>1, <2>2, <2>4
  <2>7. run' \in [Users -> Runs] /\ AskedInTurn' /\ OpenedOnce'
    BY <2>2, <2>6, RunMoves
  <2>8. Counted' /\ Unneeded' /\ Watched'
    <3>1. conv'[c].st = "opening" /\ c \in Slots
      BY <1>0, <2>3, <2>4
    <3>2. QED
      BY <2>1, <2>5, <3>1, AsMany DEF IInv, Unneeded, Watched
  <2>9. Types'
    BY <2>1, <2>4, <2>5, <2>7 DEF IInv, Types
  <2>10. QED
    BY <2>5, <2>7, <2>8, <2>9 DEF IInv
<1>5. CASE Refused(u) /\ broken' \in BOOLEAN
  <2>1. PICK r \in Runs : r.ph \in {"resting", "begins"} /\ Goes(u, r)
    BY <1>0, <1>5, RunTypes DEF Refused
  <2>2. UNCHANGED <<link, open, conv, next, has>> /\ inbox' = inbox /\ ArmIdle
    BY <1>5 DEF Refused, host
  <2>3. /\ \A d \in Slots : d[1] # u => conv'[d] = conv[d]
        /\ \A m \in inbox' : m.kind = "ask" =>
              (m \in inbox /\ m.slot[1] # u) \/ (m.slot = <<u, r.n>> /\ r.ph = "asking")
        /\ r.ph \notin {"asking", "closes", "closing"} \/ conv'[<<u, r.n>>].st # "opening"
    BY <1>2, <2>1, <2>2
  <2>4. run' \in [Users -> Runs] /\ AskedInTurn' /\ OpenedOnce'
    BY <2>1, <2>3, RunMoves
  <2>5. inbox' \subseteq Messages /\ IdsAreOfThisHost' /\ AskedOnce' /\ Live' = Live
    BY <2>2, IdsKept DEF Live
  <2>6. Counted' /\ Unneeded' /\ Watched'
    BY <2>2, <2>5, AsMany DEF IInv, ArmIdle, Unneeded, Watched
  <2>7. idle' \in BOOLEAN
    BY <2>2 DEF ArmIdle
  <2>8. Types'
    BY <1>5, <2>2, <2>4, <2>5, <2>7 DEF IInv, Types
  <2>9. QED
    BY <2>4, <2>5, <2>6, <2>8 DEF IInv
<1>6. QED
  <2>1. broken \in BOOLEAN
    BY DEF IInv, Types
  <2>2. QED
    BY <1>3, <1>4, <1>5, <2>1 DEF Begin, RecordCrash

(* The host gives out one id more.                                         *)
LEMMA OpenedIds ==
  ASSUME IInv, NEW c \in Slots, NEW k \in Conversations, NEW kind \in {"ask", "close"}, c \notin Live,
         next + 1 \in Ids, next' = next + 1, has' = [has EXCEPT ![next + 1] = c],
         inbox' = inbox \cup {Message(kind, c, next + 1)}, conv' = [conv EXCEPT ![c] = k],
         k.st = "live" => k.id = next + 1
  PROVE  /\ IdsAreOfThisHost' /\ inbox' \subseteq Messages
         /\ next' \in 0..MaxIds /\ has' \in [Ids -> Slots \cup {None}]
<1>1. /\ conv' \in [Slots -> Conversations] /\ conv'[c] = k /\ \A d \in Slots : d # c => conv'[d] = conv[d]
  BY ConvSet
<1>2. next' \in 0..MaxIds /\ has' \in [Ids -> Slots \cup {None}]
  BY DEF IInv, Types, Ids
<1>3. has'[next + 1] = c /\ \A i \in Ids : i <= next => has'[i] = has[i]
  BY DEF IInv, Types, Ids
<1>4. inbox' \subseteq Messages
  BY DEF IInv, Types, Messages, Message
<1>5. \A m \in inbox' : m.id <= next' /\ has'[m.id] \in {None, m.slot}
  <2>1. SUFFICES ASSUME NEW m \in inbox' PROVE m.id <= next' /\ has'[m.id] \in {None, m.slot}
    OBVIOUS
  <2>2. CASE m \in inbox
    <3>1. m.id \in Ids /\ m.id <= next /\ has[m.id] \in {None, m.slot}
      BY <2>2 DEF IInv, Types, Messages, IdsAreOfThisHost
    <3>2. QED
      BY <1>3, <3>1 DEF IInv, Types, Ids
  <2>3. CASE m = Message(kind, c, next + 1)
    <3>1. m.id = next + 1 /\ m.slot = c
      BY <2>3 DEF Message
    <3>2. QED
      BY <1>3, <3>1 DEF IInv, Types
  <2>4. QED
    BY <2>1, <2>2, <2>3
<1>6. \A d \in Slots : conv'[d].st = "live" /\ ~conv'[d].stale =>
                         conv'[d].id \in 1..next' /\ has'[conv'[d].id] \in {None, d}
  <2>1. SUFFICES ASSUME NEW d \in Slots, conv'[d].st = "live", ~conv'[d].stale
                 PROVE  conv'[d].id \in 1..next' /\ has'[conv'[d].id] \in {None, d}
    OBVIOUS
  <2>2. CASE d = c
    BY <1>1, <1>3, <2>1, <2>2 DEF Ids, IInv, Types
  <2>3. CASE d # c
    <3>1. conv'[d] = conv[d]
      BY <1>1, <2>3
    <3>2. conv[d].id \in 1..next /\ has[conv[d].id] \in {None, d}
      BY <2>1, <3>1 DEF IInv, IdsAreOfThisHost
    <3>3. next \in Nat /\ MaxIds \in Nat /\ next <= MaxIds
      BY ConstantsAssumption DEF IInv, Types
    <3>5. conv[d].id \in Ids /\ conv[d].id <= next
      BY <3>2, <3>3 DEF Ids
    <3>4. QED
      BY <1>3, <3>1, <3>2, <3>3, <3>5
  <2>4. QED
    BY <2>2, <2>3
<1>7. QED
  BY <1>2, <1>4, <1>5, <1>6 DEF IdsAreOfThisHost

(* What ArmIdle leaves.                                                    *)
LEMMA Armed == ASSUME ArmIdle PROVE idle' \in BOOLEAN /\ Unneeded' /\ Watched'
BY DEF ArmIdle, Unneeded, Watched

(* A conversation is open on the host, wanted still or not.                *)
LEMMA OpenedKeeps == ASSUME IInv, NEW c \in Slots, Opened(c) PROVE IInv'
<1> DEFINE wanted == Waits(c, "opening") /\ ~run[c[1]].over
           u == c[1]
           kind == IF wanted THEN "ask" ELSE "close"
           k == IF wanted THEN [st |-> "live", stale |-> FALSE, id |-> next + 1] ELSE Nothing
<1>1. /\ conv[c].st = "opening" /\ next + 1 \in Ids /\ next' = next + 1 /\ has' = [has EXCEPT ![next + 1] = c]
      /\ inbox' = inbox \cup {Message(kind, c, next + 1)} /\ conv' = [conv EXCEPT ![c] = k]
      /\ open' = (IF wanted THEN open + 1 ELSE open) /\ UNCHANGED <<link, broken>> /\ ArmIdle
  BY DEF Opened
<1>2. /\ k \in Conversations /\ kind \in {"ask", "close"} /\ c \notin Live /\ (k.st = "live" => k.id = next + 1)
      /\ k.st # "opening"
  <2>1. [st |-> "live", stale |-> FALSE, id |-> next + 1] \in Conversations
    BY <1>1 DEF Conversations, Ids
  <2>2. QED
    BY <1>1, <2>1, NothingTypes DEF Live
<1>3. /\ run[u] \in Runs /\ run \in [Users -> Runs] /\ u \in Users
      /\ Waits(c, "opening") => c = <<u, run[u].n>> /\ run[u].ph = "opening"
  BY SlotTypes DEF IInv, Types, Waits
<1>4. CASE wanted
  <2>0. k = [st |-> "live", stale |-> FALSE, id |-> next + 1] /\ kind = "ask"
    BY <1>4
  <2>1. PICK r \in Runs : r.ph = "asking" /\ r.n = run[u].n /\ Goes(u, r)
    <3>1. [run[u] EXCEPT !.ph = "asking"] \in Runs /\ [run[u] EXCEPT !.ph = "asking"].ph = "asking"
          /\ [run[u] EXCEPT !.ph = "asking"].n = run[u].n
      BY <1>3 DEF Runs
    <3>2. Goes(u, [run[u] EXCEPT !.ph = "asking"])
      BY <1>4 DEF Opened
    <3>3. QED
      BY <3>1, <3>2
  <2>2. k.st = "live" /\ ~k.stale
    BY <2>0
  <2> HIDE DEF k, kind, u, wanted
  <2>3. /\ conv' \in [Slots -> Conversations] /\ conv'[c] = k /\ \A d \in Slots : d # c => conv'[d] = conv[d]
    BY <1>1, <1>2, ConvSet
  <2>4. /\ IdsAreOfThisHost' /\ inbox' \subseteq Messages
        /\ next' \in 0..MaxIds /\ has' \in [Ids -> Slots \cup {None}]
    BY <1>1, <1>2, OpenedIds
  <2>5. Live' = Live \cup {c}
    BY <2>2, <2>3 DEF Live
  <2>6. \A m \in inbox : ~(m.kind = "ask" /\ m.slot[1] = u)
    BY <1>3, <1>4, NotAskingHasNone DEF wanted
  <2>7. \A m \in inbox' : m.kind = "ask" =>
              (m \in inbox /\ m.slot[1] # u) \/ (m.slot = <<u, r.n>> /\ r.ph = "asking")
    <3>1. c = <<u, r.n>>
      BY <1>3, <1>4, <2>1 DEF wanted
    <3>2. QED
      BY <1>1, <2>1, <2>6, <3>1 DEF Message
  <2>8. \A d \in Slots : d[1] # u => conv'[d] = conv[d]
    BY <2>3 DEF u
  <2>9. conv'[<<u, r.n>>].st # "opening"
    BY <1>2, <1>3, <1>4, <2>1, <2>3 DEF wanted
  <2>10. run' \in [Users -> Runs] /\ AskedInTurn' /\ OpenedOnce'
    BY <1>3, <2>1, <2>7, <2>8, <2>9, RunMoves
  <2>11. Counted'
    BY <1>1, <1>2, <1>4, <2>5, OneMore DEF IInv
  <2>12. AskedOnce'
    BY <1>1, <1>3, <1>4, <2>0, <2>6 DEF IInv, AskedOnce, Message, wanted
  <2>13. QED
    BY <1>1, <2>3, <2>4, <2>10, <2>11, <2>12, Armed DEF IInv, Types
<1>5. CASE ~wanted
  <2>0. k = Nothing /\ kind = "close"
    BY <1>5
  <2>1. \/ UNCHANGED run
        \/ Waits(c, "opening") /\ Goes(u, Failed(run[u]))
    BY <1>5 DEF Opened
  <2> HIDE DEF k, kind, u, wanted
  <2>3. /\ conv' \in [Slots -> Conversations] /\ conv'[c] = k /\ \A d \in Slots : d # c => conv'[d] = conv[d]
    BY <1>1, <1>2, ConvSet
  <2>4. /\ IdsAreOfThisHost' /\ inbox' \subseteq Messages
        /\ next' \in 0..MaxIds /\ has' \in [Ids -> Slots \cup {None}]
    BY <1>1, <1>2, OpenedIds
  <2>5. Live' = Live
    BY <2>0, <2>3, <1>2, NothingTypes DEF Live
  <2>6. \A m \in inbox' : m.kind = "ask" => m \in inbox
    BY <1>1, <2>0 DEF Message
  <2>7. run' \in [Users -> Runs] /\ AskedInTurn' /\ OpenedOnce'
    <3>1. CASE UNCHANGED run
      <4>1. \A d \in Slots : conv'[d].st = "opening" => conv[d].st = "opening"
        BY <1>2, <2>3
      <4>2. QED
        BY <2>6, <3>1, <4>1, RunStays
    <3>2. CASE Waits(c, "opening") /\ Goes(u, Failed(run[u]))
      <4>1. PICK r \in Runs : r.ph \in {"resting", "begins"} /\ Goes(u, r)
        BY <1>3, <3>2, RunTypes
      <4>2. \A m \in inbox : ~(m.kind = "ask" /\ m.slot[1] = u)
        BY <1>3, <3>2, NotAskingHasNone
      <4>3. \A m \in inbox' : m.kind = "ask" =>
              (m \in inbox /\ m.slot[1] # u) \/ (m.slot = <<u, r.n>> /\ r.ph = "asking")
        BY <2>6, <4>2
      <4>4. \A d \in Slots : d[1] # u => conv'[d] = conv[d]
        BY <2>3 DEF u
      <4>5. r.ph \notin {"asking", "closes", "closing"}
        BY <4>1
      <4>6. QED
        BY <1>3, <4>1, <4>3, <4>4, <4>5, RunMoves
    <3>3. QED
      BY <2>1, <3>1, <3>2
  <2>8. Counted'
    BY <1>1, <1>5, <2>5, AsMany DEF IInv
  <2>9. AskedOnce'
    BY <2>6 DEF IInv, AskedOnce
  <2>10. QED
    BY <1>1, <2>3, <2>4, <2>7, <2>8, <2>9, Armed DEF IInv, Types
<1>6. QED
  BY <1>4, <1>5

-----------------------------------------------------------------------------
(* A user that waited gives up or goes to its end.                         *)
LEMMA RunEnds ==
  ASSUME IInv, NEW c \in Slots, NEW r \in Runs, r.ph \in {"resting", "begins"},
         Goes(c[1], r), run[c[1]].ph # "asking",
         \A m \in inbox' : m.kind = "ask" => m \in inbox,
         \A d \in Slots : d # c => conv'[d] = conv[d]
  PROVE  run' \in [Users -> Runs] /\ AskedInTurn' /\ OpenedOnce'
<1>1. c[1] \in Users
  BY SlotTypes DEF IInv, Types
<1>2. \A m \in inbox : ~(m.kind = "ask" /\ m.slot[1] = c[1])
  BY <1>1, NotAskingHasNone
<1>3. /\ \A m \in inbox' : m.kind = "ask" =>
            (m \in inbox /\ m.slot[1] # c[1]) \/ (m.slot = <<c[1], r.n>> /\ r.ph = "asking")
      /\ \A d \in Slots : d[1] # c[1] => conv'[d] = conv[d]
      /\ r.ph \notin {"asking", "closes", "closing"}
  BY <1>2
<1>4. QED
  BY <1>1, <1>3, RunMoves

(* An open that comes to nothing.                                          *)
LEMMA OpenFailsKeeps == ASSUME IInv, NEW c \in Slots, OpenFails(c) PROVE IInv'
<1>0. run \in [Users -> Runs] /\ c[1] \in Users /\ run[c[1]] \in Runs
  BY SlotTypes DEF IInv, Types
<1>1. /\ conv' = [conv EXCEPT ![c] = Nothing] /\ UNCHANGED <<link, open, broken, next, has>>
      /\ inbox' = inbox /\ ArmIdle /\ c \notin Live
  BY DEF OpenFails, OpenCameToNothing, host, Live
<1>2. /\ conv' \in [Slots -> Conversations] /\ conv'[c] = Nothing /\ \A d \in Slots : d # c => conv'[d] = conv[d]
  BY <1>1, ConvSet, NothingTypes
<1>3. IdsAreOfThisHost' /\ AskedOnce' /\ Live' = Live /\ inbox' \subseteq Messages
  BY <1>1, IdleSlot, NothingTypes
<1>4. run' \in [Users -> Runs] /\ AskedInTurn' /\ OpenedOnce'
  <2>1. CASE Waits(c, "opening") /\ Goes(c[1], Failed(run[c[1]]))
    <3>1. PICK r \in Runs : r.ph \in {"resting", "begins"} /\ Goes(c[1], r)
      BY <1>0, <2>1, RunTypes
    <3>2. run[c[1]].ph # "asking"
      BY <2>1 DEF Waits
    <3>3. QED
      BY <1>1, <1>2, <3>1, <3>2, RunEnds
  <2>2. CASE UNCHANGED run
    <3>1. /\ \A d \in Slots : conv'[d].st = "opening" => conv[d].st = "opening"
          /\ \A m \in inbox' : m.kind = "ask" => m \in inbox
      BY <1>1, <1>2, NothingTypes
    <3>2. QED
      BY <2>2, <3>1, RunStays
  <2>3. QED
    BY <2>1, <2>2 DEF OpenFails
<1>5. Counted' /\ Unneeded' /\ Watched' /\ idle' \in BOOLEAN
  BY <1>1, <1>3, AsMany, Armed DEF IInv
<1>6. Types'
  BY <1>1, <1>2, <1>3, <1>4, <1>5 DEF IInv, Types
<1>7. QED
  BY <1>3, <1>4, <1>5, <1>6 DEF IInv

(* A question is answered.                                                 *)
LEMMA AskedKeeps == ASSUME IInv, NEW c \in Slots, Asked(c) PROVE IInv'
<1> DEFINE u == c[1]
<1>0. run \in [Users -> Runs] /\ u \in Users /\ run[u] \in Runs
  BY SlotTypes DEF IInv, Types
<1>1. PICK m \in inbox : m.kind = "ask" /\ m.slot = c /\ \E good, goesOn \in BOOLEAN :
        LET again == good /\ goesOn /\ run[u].q = 1 /\ ~run[u].over
        IN  /\ inbox' = (IF again THEN inbox ELSE inbox \ {m}) /\ UNCHANGED <<client, conv, next, has>>
            /\ Goes(u, IF again THEN [run[u] EXCEPT !.q = 2] ELSE Closes(run[u], good))
  BY DEF Asked, Questions
<1>2. run[u].ph = "asking" /\ c = <<u, run[u].n>>
  BY <1>0, <1>1, SlotTypes DEF IInv, AskedInTurn, Waits
<1>3. conv[<<u, run[u].n>>].st # "opening"
  BY <1>0, <1>2 DEF IInv, OpenedOnce, SlotOf
<1>4. \A x \in inbox : x.kind = "ask" /\ x.slot[1] = u => x = m
  <2>1. SUFFICES ASSUME NEW x \in inbox, x.kind = "ask", x.slot[1] = u PROVE x = m
    OBVIOUS
  <2>2. x.slot = <<u, run[u].n>>
    BY <2>1 DEF IInv, AskedInTurn, Waits, SlotOf
  <2>3. QED
    BY <1>1, <1>2, <2>1, <2>2 DEF IInv, AskedOnce
<1>5. UNCHANGED <<client, conv, next, has>>
  BY <1>1
<1>6. CASE inbox' = inbox /\ Goes(u, [run[u] EXCEPT !.q = 2])
  <2>1. PICK r \in Runs : r.ph = "asking" /\ r.n = run[u].n /\ Goes(u, r)
    <3>1. [run[u] EXCEPT !.q = 2] \in Runs /\ [run[u] EXCEPT !.q = 2].ph = "asking"
          /\ [run[u] EXCEPT !.q = 2].n = run[u].n
      BY <1>0, <1>2 DEF Runs
    <3>2. QED
      BY <1>6, <3>1
  <2> HIDE DEF u
  <2>2. /\ inbox' \subseteq inbox
        /\ \A x \in inbox' : x.kind = "ask" /\ x.slot[1] = u => x.slot = <<u, r.n>> /\ r.ph = "asking"
        /\ conv[<<u, r.n>>].st # "opening"
    BY <1>1, <1>2, <1>3, <1>4, <1>6, <2>1
  <2>3. QED
    BY <1>0, <1>5, <2>1, <2>2, UserStep
<1>7. CASE inbox' = inbox \ {m} /\ \E good \in BOOLEAN : Goes(u, Closes(run[u], good))
  <2>1. PICK r \in Runs : r.ph = "closes" /\ r.n = run[u].n /\ Goes(u, r)
    BY <1>0, <1>7, RunTypes
  <2> HIDE DEF u
  <2>2. /\ inbox' \subseteq inbox
        /\ \A x \in inbox' : x.kind = "ask" /\ x.slot[1] = u => x.slot = <<u, r.n>> /\ r.ph = "asking"
        /\ conv[<<u, r.n>>].st # "opening"
    BY <1>3, <1>4, <1>7, <2>1
  <2>3. QED
    BY <1>0, <1>5, <2>1, <2>2, UserStep
<1>8. QED
  BY <1>1, <1>6, <1>7

(* A conversation is closed on its host: all but its user's part.          *)
LEMMA ClosedOnHost ==
  ASSUME IInv, NEW c \in Slots, CloseOnHost(c)
  PROVE  /\ conv' \in [Slots -> Conversations] /\ conv'[c] = Nothing
         /\ \A d \in Slots : d # c => conv'[d] = conv[d]
         /\ UNCHANGED <<broken, link, next, has>> /\ idle' \in BOOLEAN /\ inbox' \subseteq Messages
         /\ \A m \in inbox' : m.kind = "ask" => m \in inbox
         /\ IdsAreOfThisHost' /\ AskedOnce' /\ Counted' /\ Unneeded' /\ Watched'
<1>1. /\ conv[c].st = "live" /\ ~conv[c].stale /\ conv' = [conv EXCEPT ![c] = Nothing]
      /\ open' = open - 1 /\ UNCHANGED <<link, broken, next, has>> /\ ArmIdle
      /\ inbox' = inbox \cup {Message("close", c, conv[c].id)}
  BY DEF CloseOnHost
<1>2. /\ conv' \in [Slots -> Conversations] /\ conv'[c] = Nothing /\ \A d \in Slots : d # c => conv'[d] = conv[d]
  BY <1>1, ConvSet, NothingTypes
<1>3. c \in Live /\ Live' = Live \ {c}
  BY <1>1, <1>2, NothingTypes DEF Live
<1>4. conv[c].id \in Ids /\ conv[c].id <= next /\ has[conv[c].id] \in {None, c}
  <2>1. next \in Nat /\ MaxIds \in Nat /\ next <= MaxIds
    BY ConstantsAssumption DEF IInv, Types
  <2>2. conv[c].id \in 1..next /\ has[conv[c].id] \in {None, c}
    BY <1>1 DEF IInv, IdsAreOfThisHost
  <2>3. QED
    BY <2>1, <2>2 DEF Ids
<1>5. inbox' \subseteq Messages /\ \A m \in inbox' : m.kind = "ask" => m \in inbox
  BY <1>1, <1>4 DEF IInv, Types, Messages, Message
<1>6. IdsAreOfThisHost'
  <2>1. \A m \in inbox' : m.id <= next' /\ has'[m.id] \in {None, m.slot}
    BY <1>1, <1>4 DEF IInv, IdsAreOfThisHost, Message
  <2>2. \A d \in Slots : conv'[d].st = "live" /\ ~conv'[d].stale =>
                         conv'[d].id \in 1..next' /\ has'[conv'[d].id] \in {None, d}
    BY <1>1, <1>2, NothingTypes DEF IInv, IdsAreOfThisHost
  <2>3. QED
    BY <2>1, <2>2 DEF IdsAreOfThisHost
<1>7. AskedOnce'
  BY <1>5 DEF IInv, AskedOnce
<1>8. Counted' /\ Unneeded' /\ Watched' /\ idle' \in BOOLEAN
  BY <1>1, <1>3, OneLess, Armed DEF IInv
<1>9. QED
  BY <1>1, <1>2, <1>5, <1>6, <1>7, <1>8

(* A user closes what it had.                                              *)
LEMMA CloseKeeps == ASSUME IInv, NEW u \in Users, Close(u) PROVE IInv'
<1> DEFINE c == SlotOf(u)
<1>0. run \in [Users -> Runs] /\ run[u] \in Runs /\ c \in Slots /\ c[1] = u /\ c = <<u, run[u].n>>
  BY SlotTypes DEF IInv, Types
<1>1. run[u].ph = "closes" /\ conv[c].st # "opening"
  BY DEF Close, IInv, OpenedOnce
<1>2. \A m \in inbox : ~(m.kind = "ask" /\ m.slot[1] = u)
  BY <1>1, NotAskingHasNone
<1>3. CASE CloseOnHost(c) /\ Goes(u, [run[u] EXCEPT !.ph = "closing"])
  <2>1. PICK r \in Runs : r.ph = "closing" /\ r.n = run[u].n /\ Goes(u, r)
    <3>1. [run[u] EXCEPT !.ph = "closing"] \in Runs /\ [run[u] EXCEPT !.ph = "closing"].ph = "closing"
          /\ [run[u] EXCEPT !.ph = "closing"].n = run[u].n
      BY <1>0 DEF Runs
    <3>2. QED
      BY <1>3, <3>1
  <2> HIDE DEF c
  <2>2. /\ conv' \in [Slots -> Conversations] /\ conv'[c] = Nothing
        /\ \A d \in Slots : d # c => conv'[d] = conv[d]
        /\ UNCHANGED <<broken, link, next, has>> /\ idle' \in BOOLEAN /\ inbox' \subseteq Messages
        /\ \A m \in inbox' : m.kind = "ask" => m \in inbox
        /\ IdsAreOfThisHost' /\ AskedOnce' /\ Counted' /\ Unneeded' /\ Watched'
    BY <1>0, <1>3, ClosedOnHost
  <2>3. /\ \A d \in Slots : d[1] # u => conv'[d] = conv[d]
        /\ \A m \in inbox' : m.kind = "ask" =>
              (m \in inbox /\ m.slot[1] # u) \/ (m.slot = <<u, r.n>> /\ r.ph = "asking")
        /\ conv'[<<u, r.n>>].st # "opening"
    BY <1>0, <1>2, <2>1, <2>2, NothingTypes
  <2>4. run' \in [Users -> Runs] /\ AskedInTurn' /\ OpenedOnce'
    BY <2>1, <2>3, RunMoves
  <2>5. QED
    BY <2>2, <2>4 DEF IInv, Types
<1>4. CASE CloseLocally(c) /\ Goes(u, Ends(run[u]))
  <2>1. PICK r \in Runs : r.ph \in {"resting", "begins"} /\ Goes(u, r)
    BY <1>0, <1>4, RunTypes
  <2>2. conv' = [conv EXCEPT ![c] = Nothing] /\ UNCHANGED <<client, next, has>> /\ inbox' = inbox /\ c \notin Live
    BY <1>4 DEF CloseLocally, host, Live
  <2> HIDE DEF c
  <2>3. /\ conv' \in [Slots -> Conversations] /\ conv'[c] = Nothing
        /\ \A d \in Slots : d # c => conv'[d] = conv[d]
    BY <1>0, <2>2, ConvSet, NothingTypes
  <2>4. IdsAreOfThisHost' /\ AskedOnce' /\ Live' = Live /\ inbox' \subseteq Messages
    BY <1>0, <2>2, IdleSlot, NothingTypes
  <2>5. /\ run[c[1]].ph # "asking" /\ \A m \in inbox' : m.kind = "ask" => m \in inbox
        /\ Goes(c[1], r)
    BY <1>0, <1>1, <2>1, <2>2
  <2>6. run' \in [Users -> Runs] /\ AskedInTurn' /\ OpenedOnce'
    BY <1>0, <2>1, <2>3, <2>5, RunEnds
  <2>7. Counted' /\ Unneeded' /\ Watched'
    <3>1. conv[c].st # "opening"
      BY <1>1 DEF c
    <3>2. \A d \in Slots : conv[d].st = "opening" => conv'[d].st = "opening"
      BY <2>3, <3>1
    <3>3. QED
      BY <2>2, <2>4, <3>2, AsMany DEF IInv, Unneeded, Watched, client
  <2>8. QED
    BY <2>2, <2>3, <2>4, <2>6, <2>7 DEF IInv, Types, client
<1>5. QED
  BY <1>3, <1>4 DEF Close

(* The host has closed it, or could not.                                   *)
LEMMA ClosedKeeps == ASSUME IInv, NEW c \in Slots, Closed(c) PROVE IInv'
<1>0. run \in [Users -> Runs] /\ c[1] \in Users /\ run[c[1]] \in Runs
  BY SlotTypes DEF IInv, Types
<1>1. PICK m \in inbox : m.kind = "close" /\ \E good \in BOOLEAN :
        /\ inbox' = inbox \ {m} /\ has' = (IF good THEN [has EXCEPT ![m.id] = None] ELSE has)
        /\ UNCHANGED <<client, conv, next>>
        /\ IF Waits(c, "closing") THEN Goes(c[1], Ends(run[c[1]])) ELSE UNCHANGED run
  BY DEF Closed
<1>2. has' \in [Ids -> Slots \cup {None}] /\ \A i \in Ids : has'[i] \in {has[i], None}
  BY <1>1 DEF IInv, Types
<1>3. UNCHANGED <<client, conv, next>> /\ inbox' \subseteq inbox /\ \A x \in inbox' : x.kind = "ask" => x \in inbox
  BY <1>1
<1>4. IdsAreOfThisHost'
  <2>1. next \in Nat /\ MaxIds \in Nat /\ next <= MaxIds
    BY ConstantsAssumption DEF IInv, Types
  <2>2. \A x \in inbox' : x.id <= next' /\ has'[x.id] \in {None, x.slot}
    <3>1. \A x \in inbox : x.id \in Ids
      BY DEF IInv, Types, Messages
    <3>2. QED
      BY <1>2, <1>3, <3>1 DEF IInv, IdsAreOfThisHost
  <2>3. \A d \in Slots : conv'[d].st = "live" /\ ~conv'[d].stale =>
                         conv'[d].id \in 1..next' /\ has'[conv'[d].id] \in {None, d}
    <3>1. \A i \in 1..next : i \in Ids
      BY <2>1 DEF Ids
    <3>2. QED
      BY <1>2, <1>3, <3>1 DEF IInv, IdsAreOfThisHost
  <2>4. QED
    BY <2>2, <2>3 DEF IdsAreOfThisHost
<1>5. run' \in [Users -> Runs] /\ AskedInTurn' /\ OpenedOnce'
  <2>1. CASE Waits(c, "closing") /\ Goes(c[1], Ends(run[c[1]]))
    <3>1. PICK r \in Runs : r.ph \in {"resting", "begins"} /\ Goes(c[1], r)
      BY <1>0, <2>1, RunTypes
    <3>2. run[c[1]].ph # "asking" /\ \A d \in Slots : d # c => conv'[d] = conv[d]
      BY <1>3, <2>1 DEF Waits
    <3>3. QED
      BY <1>3, <3>1, <3>2, RunEnds
  <2>2. CASE UNCHANGED run
    <3>1. \A d \in Slots : conv'[d].st = "opening" => conv[d].st = "opening"
      BY <1>3
    <3>2. QED
      BY <1>3, <2>2, <3>1, RunStays
  <2>3. QED
    BY <1>1, <2>1, <2>2
<1>6. Counted' /\ Unneeded' /\ Watched'
  BY <1>3, ClientKept
<1>7. AskedOnce'
  BY <1>3 DEF IInv, AskedOnce
<1>8. Types'
  BY <1>2, <1>3, <1>5 DEF IInv, Types, client
<1>9. QED
  BY <1>4, <1>5, <1>6, <1>7, <1>8 DEF IInv

(* The self-test runs out of time, wherever it is.                         *)
LEMMA TestTimesOutKeeps == ASSUME IInv, NEW u \in Users, TestTimesOut(u) PROVE IInv'
<1> DEFINE c == SlotOf(u)
<1>0. run \in [Users -> Runs] /\ run[u] \in Runs /\ c \in Slots /\ c[1] = u /\ c = <<u, run[u].n>>
  BY SlotTypes DEF IInv, Types
<1>1. PICK r \in Runs : r.ph = run[u].ph /\ r.n = run[u].n /\ Goes(u, r)
  <2>1. [run[u] EXCEPT !.over = TRUE] \in Runs /\ [run[u] EXCEPT !.over = TRUE].ph = run[u].ph
        /\ [run[u] EXCEPT !.over = TRUE].n = run[u].n
    BY <1>0 DEF Runs
  <2>2. QED
    BY <2>1 DEF TestTimesOut
<1>2. \A m \in inbox : m.kind = "ask" /\ m.slot[1] = u => m.slot = <<u, r.n>> /\ r.ph = "asking"
  BY <1>1 DEF IInv, AskedInTurn, Waits, SlotOf
<1>3. r.ph \in {"asking", "closes", "closing"} => conv[<<u, r.n>>].st # "opening"
  BY <1>0, <1>1 DEF IInv, OpenedOnce
<1>4. CASE CloseOnHost(c)
  <2> HIDE DEF c
  <2>2. /\ conv' \in [Slots -> Conversations] /\ conv'[c] = Nothing
        /\ \A d \in Slots : d # c => conv'[d] = conv[d]
        /\ UNCHANGED <<broken, link, next, has>> /\ idle' \in BOOLEAN /\ inbox' \subseteq Messages
        /\ \A m \in inbox' : m.kind = "ask" => m \in inbox
        /\ IdsAreOfThisHost' /\ AskedOnce' /\ Counted' /\ Unneeded' /\ Watched'
    BY <1>0, <1>4, ClosedOnHost
  <2>3. /\ \A d \in Slots : d[1] # u => conv'[d] = conv[d]
        /\ \A m \in inbox' : m.kind = "ask" =>
              (m \in inbox /\ m.slot[1] # u) \/ (m.slot = <<u, r.n>> /\ r.ph = "asking")
        /\ conv'[<<u, r.n>>].st # "opening"
    BY <1>0, <1>1, <1>2, <2>2, NothingTypes
  <2>4. run' \in [Users -> Runs] /\ AskedInTurn' /\ OpenedOnce'
    BY <1>1, <2>3, RunMoves
  <2>5. QED
    BY <2>2, <2>4 DEF IInv, Types
<1>5. CASE UNCHANGED <<client, conv, host>>
  <2>1. /\ inbox' \subseteq inbox /\ UNCHANGED <<client, conv, next, has>>
        /\ \A m \in inbox' : m.kind = "ask" /\ m.slot[1] = u => m.slot = <<u, r.n>> /\ r.ph = "asking"
        /\ r.ph \notin {"asking", "closes", "closing"} \/ conv[<<u, r.n>>].st # "opening"
    BY <1>2, <1>3, <1>5 DEF host
  <2>2. QED
    BY <1>1, <2>1, UserStep
<1>6. QED
  BY <1>4, <1>5 DEF TestTimesOut

-----------------------------------------------------------------------------
(* The host goes, and everything that was on it.                           *)
LEMMA TeardownKeeps == ASSUME IInv, Teardown, idle' \in BOOLEAN, broken' \in BOOLEAN PROVE IInv'
<1>1. /\ link' = FALSE /\ open' = 0 /\ next' = 0 /\ has' = [i \in Ids |-> None] /\ inbox' = {}
  BY DEF Teardown
<1>2. conv' \in [Slots -> Conversations] /\ \A c \in Slots : conv'[c].st # "opening" /\ c \notin Live'
  <2>1. \A c \in Slots : [conv[c] EXCEPT !.stale = TRUE] \in Conversations
    BY DEF IInv, Types, Conversations
  <2>2. conv' = [c \in Slots |-> IF conv[c].st = "live" THEN [conv[c] EXCEPT !.stale = TRUE] ELSE Nothing]
    BY DEF Teardown
  <2>3. \A c \in Slots : conv'[c] \in Conversations /\ conv'[c].st # "opening" /\ ~(conv'[c].st = "live" /\ ~conv'[c].stale)
    <3>1. SUFFICES ASSUME NEW c \in Slots
                   PROVE  conv'[c] \in Conversations /\ conv'[c].st # "opening" /\ ~(conv'[c].st = "live" /\ ~conv'[c].stale)
      OBVIOUS
    <3>2. CASE conv[c].st = "live"
      <4>1. conv'[c] = [conv[c] EXCEPT !.stale = TRUE]
        BY <2>2, <3>2
      <4>2. conv[c] \in Conversations
        BY DEF IInv, Types
      <4>3. conv'[c].st = "live" /\ conv'[c].stale
        BY <3>2, <4>1, <4>2 DEF Conversations
      <4>4. QED
        BY <2>1, <4>1, <4>3
    <3>3. CASE conv[c].st # "live"
      BY <2>2, <3>3, NothingTypes
    <3>4. QED
      BY <3>2, <3>3
  <2>4. QED
    BY <2>2, <2>3 DEF Live
<1>3. run' \in [Users -> Runs]
  <2>1. \A u \in Users : run[u] \in Runs
    BY DEF IInv, Types
  <2>2. \A u \in Users : Failed(run[u]) \in Runs /\ Closes(run[u], FALSE) \in Runs /\ Ends(run[u]) \in Runs
    BY <2>1, RunTypes
  <2>3. run' = [u \in Users |-> CASE run[u].ph = "opening" -> Failed(run[u])
                               [] run[u].ph = "asking"  -> Closes(run[u], FALSE)
                               [] run[u].ph = "closing" -> Ends(run[u])
                               [] OTHER -> run[u]]
    BY DEF Teardown
  <2>4. QED
    BY <2>1, <2>2, <2>3
<1>4. Types'
  <2>1. next' \in 0..MaxIds
    BY <1>1, ConstantsAssumption
  <2>4. link' \in BOOLEAN
    BY <1>1
  <2>2. has' \in [Ids -> Slots \cup {None}] /\ inbox' \subseteq Messages
    BY <1>1
  <2>3. QED
    BY <1>2, <1>3, <2>1, <2>2, <2>4 DEF Types
<1>5. Live' = {}
  BY <1>2 DEF Live
<1>6. Counted' /\ Unneeded' /\ Watched'
  BY <1>1, <1>5, FS_EmptySet DEF Counted, Unneeded, Watched
<1>7. IdsAreOfThisHost' /\ AskedInTurn' /\ AskedOnce'
  BY <1>1, <1>2 DEF IdsAreOfThisHost, AskedInTurn, AskedOnce, Live
<1>8. OpenedOnce'
  <2>1. \A u \in Users : SlotOf(u)' \in Slots
    BY <1>3 DEF SlotOf, Slots, Runs
  <2>2. QED
    BY <1>2, <2>1 DEF OpenedOnce
<1>9. QED
  BY <1>4, <1>6, <1>7, <1>8 DEF IInv

(* What happens to the client itself.                                      *)
LEMMA ClientStepKeeps == ASSUME IInv, HostExits \/ IdleFires \/ Shutdown \/ Reset PROVE IInv'
<1>0. idle \in BOOLEAN /\ broken \in BOOLEAN
  BY DEF IInv, Types
<1>1. CASE HostExits \/ IdleFires \/ Shutdown
  <2>1. Teardown /\ idle' \in BOOLEAN /\ broken' \in BOOLEAN
    BY <1>0, <1>1 DEF HostExits, IdleFires, Shutdown, RecordCrash
  <2>2. QED
    BY <2>1, TeardownKeeps
<1>2. CASE Reset
  <2>1. broken' = FALSE /\ UNCHANGED <<link, open, idle, conv, next, has, inbox, run>>
    BY <1>2 DEF Reset, host
  <2>2. /\ \A m \in inbox' : m.kind = "ask" => m \in inbox
        /\ \A d \in Slots : conv'[d].st = "opening" => conv[d].st = "opening"
        /\ inbox' \subseteq inbox
    BY <2>1
  <2>3. run' \in [Users -> Runs] /\ AskedInTurn' /\ OpenedOnce'
    BY <2>1, <2>2, RunStays
  <2>4. inbox' \subseteq Messages /\ IdsAreOfThisHost' /\ AskedOnce'
    BY <2>1, <2>2, IdsKept
  <2>5. Counted' /\ Unneeded' /\ Watched'
    BY <2>1 DEF IInv, Counted, Unneeded, Watched, Live
  <2>6. QED
    BY <2>1, <2>3, <2>4, <2>5 DEF IInv, Types
<1>3. QED
  BY <1>1, <1>2

-----------------------------------------------------------------------------
(* Every step keeps the invariant.                                         *)
LEMMA InvStep == IInv /\ [Next]_vars => IInv'
<1> SUFFICES ASSUME IInv, [Next]_vars PROVE IInv'
  OBVIOUS
<1>1. CASE UNCHANGED vars
  <2>1. UNCHANGED <<link, open, idle, broken, conv, next, has, inbox, run>>
    BY <1>1 DEF vars, client, host
  <2>2. Types'
    BY <2>1 DEF IInv, Types
  <2>3. IdsAreOfThisHost' /\ AskedInTurn' /\ AskedOnce' /\ OpenedOnce'
    BY <2>1 DEF IInv, IdsAreOfThisHost, AskedInTurn, AskedOnce, OpenedOnce, Waits, SlotOf
  <2>4. Counted' /\ Unneeded' /\ Watched'
    BY <2>1 DEF IInv, Counted, Unneeded, Watched, Live
  <2>5. QED
    BY <2>2, <2>3, <2>4 DEF IInv
<1>2. ASSUME NEW u \in Users,
             Extract(u) \/ Begin(u) \/ OpenGivenUp(u) \/ AskGivenUp(u) \/ Close(u) \/ CloseGivenUp(u) \/ TestTimesOut(u)
      PROVE  IInv'
  BY <1>2, UserAloneKeeps, BeginKeeps, CloseKeeps, TestTimesOutKeeps
<1>3. ASSUME NEW c \in Slots, Opened(c) \/ OpenFails(c) \/ Asked(c) \/ Closed(c) PROVE IInv'
  BY <1>3, OpenedKeeps, OpenFailsKeeps, AskedKeeps, ClosedKeeps
<1>4. CASE HostExits \/ IdleFires \/ Shutdown \/ Reset
  BY <1>4, ClientStepKeeps
<1>5. QED
  BY <1>1, <1>2, <1>3, <1>4 DEF Next

(* What main, the host and the client know of each other, in every state.  *)
THEOREM Invariance == Spec => []IInv
BY InvInit, InvStep, PTL DEF Spec

(* What main sends about a conversation reaches that conversation or no    *)
(* conversation at all (ModelClient.send, HostCore.handle), for any number *)
(* of users, attempts, hosts and conversations on one host.                *)
THEOREM MessagesReachTheirOwn == Spec => []RightConversation
<1>1. IInv => RightConversation
  BY InvImplies
<1>2. QED
  BY <1>1, Invariance, PTL

(* The client counts what lives on the host, lets a host nobody needs have *)
(* its end set, and never has the end of one in use set (armIdle).         *)
THEOREM HostIsKeptInHand == Spec => []HostInv
<1>1. IInv => HostInv
  BY InvImplies
<1>2. QED
  BY <1>1, Invariance, PTL

-----------------------------------------------------------------------------
(* The download.  The inductive invariant.                                 *)

(* What is told while a task waits: a look says nothing before it has to   *)
(* verify a file, a download no longer says what was there before; a       *)
(* removal that ends meanwhile leaves "missing".  No task waits when the   *)
(* file is called ready.                                                   *)
Verifying == {"hashFinal", "markFinal", "dropFinal", "dropMarker", "hash", "dropBad", "rename", "mark"}
Receiving == {"get", "clear", "stream", "append", "paused"}
ToldByTask ==
  /\ task \in {"lookFinal", "lookMarker", "lookPart"} => state = "missing"
  /\ task \in Verifying => state \in {"verifying", "missing"}
  /\ task \in Receiving => state \in {"downloading", "missing"}
  /\ task \in {"sizePart", "space", "sizeFull", "dropShort", "dropLong"} =>
        state \in {"missing", "partial", "error", "downloading"}

(* The look: its verdict holds of the file until it has acted on it.       *)
LookVerdict ==
  /\ task = "markFinal" \/ (task = "hashFinal" /\ held) => final # "bad"
  /\ task = "dropFinal" \/ (task = "hashFinal" /\ ~held) => final # "good"
  /\ task = "dropMarker" => final = "none"
(* The download: what is renamed was found to be the model, whole.         *)
LoadVerdict ==
  /\ task = "rename" \/ (task = "hash" /\ held) => part = 0 \/ (sound /\ part = Size)
  /\ task = "mark" => final # "bad"
(* What is on disk is never longer than what was received.                 *)
Extent ==
  /\ task \in {"space", "get", "clear", "stream", "append"} => part <= received
  /\ task = "append" => received <= Size
(* A marker that names the file as it is names the model.                  *)
MarkerVouches == marker = "fresh" => final = "good"
(* Only a removal that crosses a task takes its file away.                 *)
Undisturbed ==
  ~disturbed =>
    /\ removal # "none" => task = "none"
    /\ task \in {"markFinal", "mark"} \/ (task = "hashFinal" /\ held) => final = "good"
    /\ state = "ready" /\ removal = "none" => final = "good"

FileIndInv == DownloadTypeOK /\ ToldByTask /\ LookVerdict /\ LoadVerdict /\ Extent /\ MarkerVouches /\ Undisturbed

-----------------------------------------------------------------------------
(* A first launch, with nothing on disk. *)
LEMMA FileInvInit == DownloadInit => FileIndInv
<1> SUFFICES ASSUME DownloadInit PROVE FileIndInv
  OBVIOUS
<1>1. fresh \in BOOLEAN /\ held \in BOOLEAN /\ sound \in BOOLEAN /\ disturbed \in BOOLEAN
  BY DEF DownloadInit
<1>2. DownloadTypeOK
  BY <1>1, SizeAssumption DEF DownloadInit, DownloadTypeOK, LookTasks
<1>3. ToldByTask /\ LookVerdict /\ LoadVerdict /\ Extent /\ MarkerVouches /\ Undisturbed
  BY DEF DownloadInit, ToldByTask, LookVerdict, LoadVerdict, Extent, MarkerVouches, Undisturbed, Verifying, Receiving
<1>4. QED
  BY <1>2, <1>3 DEF FileIndInv

(* A step of the look keeps the invariant. *)
LEMMA LookKeeps == ASSUME FileIndInv, Look PROVE FileIndInv'
<1> USE SizeAssumption
<1> USE DEF FileIndInv, DownloadTypeOK, ToldByTask, LookVerdict, LoadVerdict, Extent, MarkerVouches, Undisturbed,
      LookTasks, LoadTasks, Verifying, Receiving
<1> USE DEF On, Moves, Leaves, Verifies, Outdated, WriteMarker, Vouches, disk
<1>1. CASE LookFinal
  BY <1>1 DEF LookFinal
<1>2. CASE LookMarker
  BY <1>2 DEF LookMarker
<1>3. CASE HashFinal
  BY <1>3 DEF HashFinal
<1>4. CASE MarkFinal
  BY <1>4 DEF MarkFinal
<1>5. CASE DropFinal
  BY <1>5 DEF DropFinal
<1>6. CASE DropMarker
  BY <1>6 DEF DropMarker
<1>7. CASE LookPart
  BY <1>7 DEF LookPart
<1>8. CASE LookFails
  BY <1>8 DEF LookFails
<1>9. QED
  BY <1>1, <1>2, <1>3, <1>4, <1>5, <1>6, <1>7, <1>8 DEF Look

(* So does a step of the download. *)
LEMMA LoadKeeps == ASSUME FileIndInv, Load PROVE FileIndInv'
<1> USE SizeAssumption
<1> USE DEF FileIndInv, DownloadTypeOK, ToldByTask, LookVerdict, LoadVerdict, Extent, MarkerVouches, Undisturbed,
      LookTasks, LoadTasks, Verifying, Receiving
<1> USE DEF On, Moves, Leaves, Verifies, Outdated, WriteMarker, Dropped, disk
<1>1. CASE SizePart
  BY <1>1 DEF SizePart
<1>2. CASE Space
  BY <1>2 DEF Space
<1>3. CASE \E status \in {200, 206, 416} : Answered(status)
  BY <1>3 DEF Answered
<1>4. CASE Clear
  BY <1>4 DEF Clear
<1>5. CASE Chunk
  BY <1>5 DEF Chunk
<1>6. CASE \E good \in BOOLEAN : Appended(good)
  BY <1>6 DEF Appended
<1>7. CASE StreamEnds
  BY <1>7 DEF StreamEnds
<1>8. CASE Breaks
  BY <1>8 DEF Breaks
<1>9. CASE Paused
  BY <1>9 DEF Paused
<1>10. CASE SizeFull
  BY <1>10 DEF SizeFull, Hashing
<1>11. CASE DropShort
  BY <1>11 DEF DropShort
<1>12. CASE DropLong
  <2>1. fresh' \in BOOLEAN /\ held' \in BOOLEAN /\ sound' \in BOOLEAN /\ disturbed' \in BOOLEAN
    BY <1>12 DEF DropLong
  <2>2. QED
    BY <1>12, <2>1 DEF DropLong
<1>13. CASE Hash
  BY <1>13 DEF Hash
<1>14. CASE DropBad
  BY <1>14 DEF DropBad
<1>15. CASE Rename
  BY <1>15 DEF Rename
<1>16. CASE Mark
  BY <1>16 DEF Mark
<1>17. CASE LoadFails
  BY <1>17 DEF LoadFails
<1>18. QED
  BY <1>1, <1>2, <1>3, <1>4, <1>5, <1>6, <1>7, <1>8, <1>9, <1>10, <1>11, <1>12, <1>13, <1>14, <1>15,
     <1>16, <1>17 DEF Load

(* And a pause, a removal, whatever it meets, and a launch. *)
LEMMA OthersKeep ==
  ASSUME FileIndInv, Start \/ Pause \/ RemoveAll \/ Remove \/ RemovalFails \/ Relaunch
  PROVE  FileIndInv'
<1> USE SizeAssumption
<1> USE DEF FileIndInv, DownloadTypeOK, ToldByTask, LookVerdict, LoadVerdict, Extent, MarkerVouches, Undisturbed,
      LookTasks, LoadTasks, Verifying, Receiving
<1> USE DEF Outdated, Aborted, disk
<1>1. CASE Start
  BY <1>1 DEF Start
<1>2. CASE Pause
  BY <1>2 DEF Pause
<1>3. CASE RemoveAll
  <2>1. fresh' \in BOOLEAN /\ held' \in BOOLEAN /\ sound' \in BOOLEAN /\ disturbed' \in BOOLEAN
    BY <1>3 DEF RemoveAll
  <2>2. DownloadTypeOK'
    BY <1>3, <2>1 DEF RemoveAll
  <2>3. Undisturbed'
    BY <1>3 DEF RemoveAll
  <2>4. QED
    BY <1>3, <2>2, <2>3 DEF RemoveAll
<1>4. CASE Remove
  <2>1. fresh' \in BOOLEAN /\ held' \in BOOLEAN /\ sound' \in BOOLEAN /\ disturbed' \in BOOLEAN
    BY <1>4 DEF Remove
  <2>2. QED
    BY <1>4, <2>1 DEF Remove
<1>5. CASE RemovalFails
  BY <1>5 DEF RemovalFails
<1>6. CASE Relaunch
  <2>1. fresh' \in BOOLEAN /\ held' \in BOOLEAN /\ sound' \in BOOLEAN /\ disturbed' \in BOOLEAN
    BY <1>6 DEF Relaunch, Launched
  <2>2. QED
    BY <1>6, <2>1 DEF Relaunch, Launched
<1>7. QED
  BY <1>1, <1>2, <1>3, <1>4, <1>5, <1>6

(* Every step keeps the invariant. *)
LEMMA FileInvStep == FileIndInv /\ [DownloadNext]_downloadVars => FileIndInv'
<1> SUFFICES ASSUME FileIndInv, [DownloadNext]_downloadVars PROVE FileIndInv'
  OBVIOUS
<1>1. CASE UNCHANGED downloadVars
  BY <1>1 DEF downloadVars, own, disk, FileIndInv, DownloadTypeOK, ToldByTask, LookVerdict, LoadVerdict, Extent, MarkerVouches, Undisturbed
<1>2. CASE DownloadNext
  BY <1>2, LookKeeps, LoadKeeps, OthersKeep DEF DownloadNext
<1>3. QED
  BY <1>1, <1>2

(* Hence it always holds. *)
LEMMA FileInvariance == DownloadSpec => []FileIndInv
BY FileInvInit, FileInvStep, PTL DEF DownloadSpec

-----------------------------------------------------------------------------
(* FileInv, of the run download: every variable has its type, and a file   *)
(* called ready is the model, whole, unless a removal crossed a task or    *)
(* stopped half way.                                                       *)
THEOREM ReadyFileIsTheModel == DownloadSpec => []FileInv
<1>1. FileIndInv => FileInv
  BY DEF FileIndInv, Undisturbed, FileInv, ReadyIsWhole
<1>2. QED
  BY <1>1, FileInvariance, PTL

-----------------------------------------------------------------------------
(* The refinement of ModelFile, step by step.                              *)
(* Nothing is told at first but that the disk is being looked at. *)
LEMMA PortInit == DownloadInit => Port!FileInit
BY DEF DownloadInit, Port!FileInit, LookTasks

(* Every step of a look is one of the look, or nothing to be told of. *)
LEMMA LookIsLook ==
  ASSUME FileIndInv, Look PROVE Port!Looks \/ Port!LookRefused \/ UNCHANGED Port!fileVars
<1> USE DEF FileIndInv, DownloadTypeOK, ToldByTask, LookVerdict, Undisturbed, LookTasks, LoadTasks, Verifying
<1> USE DEF On, Moves, Leaves, Verifies, Outdated, WriteMarker, disk
<1> USE DEF Port!Looks, Port!LookRefused, Port!fileVars, Port!Tells, Port!GoesOn, Port!IsOver
<1>1. CASE LookFinal
  BY <1>1 DEF LookFinal
<1>2. CASE LookMarker
  BY <1>2 DEF LookMarker, Vouches, MarkerVouches
<1>3. CASE HashFinal
  BY <1>3 DEF HashFinal
<1>4. CASE MarkFinal
  BY <1>4 DEF MarkFinal
<1>5. CASE DropFinal
  BY <1>5 DEF DropFinal
<1>6. CASE DropMarker
  BY <1>6 DEF DropMarker
<1>7. CASE LookPart
  BY <1>7 DEF LookPart
<1>8. CASE LookFails
  BY <1>8 DEF LookFails
<1>9. QED
  BY <1>1, <1>2, <1>3, <1>4, <1>5, <1>6, <1>7, <1>8 DEF Look

(* Every step of a download is one of the load, or nothing to be told of. *)
LEMMA LoadIsLoad ==
  ASSUME FileIndInv, Load PROVE Port!Loads \/ Port!LoadStops \/ UNCHANGED Port!fileVars
<1> USE DEF FileIndInv, DownloadTypeOK, ToldByTask, LoadVerdict, Undisturbed, LookTasks, LoadTasks, Verifying, Receiving
<1> USE DEF On, Moves, Leaves, Verifies, Outdated, WriteMarker, Dropped, disk
<1> USE DEF Port!Loads, Port!LoadStops, Port!Begun, Port!fileVars, Port!Tells, Port!GoesOn, Port!IsOver
<1>1. CASE SizePart
  BY <1>1 DEF SizePart
<1>2. CASE Space
  BY <1>2 DEF Space
<1>3. CASE \E status \in {200, 206, 416} : Answered(status)
  BY <1>3 DEF Answered
<1>4. CASE Clear
  BY <1>4 DEF Clear
<1>5. CASE Chunk
  BY <1>5 DEF Chunk
<1>6. CASE \E good \in BOOLEAN : Appended(good)
  BY <1>6 DEF Appended
<1>7. CASE StreamEnds
  BY <1>7 DEF StreamEnds
<1>8. CASE Breaks
  BY <1>8 DEF Breaks
<1>9. CASE Paused
  BY <1>9 DEF Paused
<1>10. CASE SizeFull
  BY <1>10 DEF SizeFull, Hashing
<1>11. CASE DropShort
  BY <1>11 DEF DropShort
<1>12. CASE DropLong
  BY <1>12 DEF DropLong
<1>13. CASE Hash
  BY <1>13 DEF Hash
<1>14. CASE DropBad
  BY <1>14 DEF DropBad
<1>15. CASE Rename
  BY <1>15, SizeAssumption DEF Rename
<1>16. CASE Mark
  BY <1>16 DEF Mark
<1>17. CASE LoadFails
  BY <1>17 DEF LoadFails
<1>18. QED
  BY <1>1, <1>2, <1>3, <1>4, <1>5, <1>6, <1>7, <1>8, <1>9, <1>10, <1>11, <1>12, <1>13, <1>14, <1>15,
     <1>16, <1>17 DEF Load

(* What comes from outside a task. *)
LEMMA OthersAreTheirs ==
  ASSUME FileIndInv, Start \/ Pause \/ RemoveAll \/ Remove \/ RemovalFails \/ Relaunch
  PROVE  Port!FileNext \/ UNCHANGED Port!fileVars
<1> USE DEF FileIndInv, DownloadTypeOK, LookTasks, LoadTasks, Outdated, Aborted, disk
<1> USE DEF Port!FileNext, Port!fileVars
<1>1. CASE Start
  BY <1>1 DEF Start, Port!Begins
<1>2. CASE Pause
  BY <1>2 DEF Pause
<1>3. CASE RemoveAll
  BY <1>3 DEF RemoveAll, Port!RemovalBegins
<1>4. CASE Remove
  BY <1>4 DEF Remove, Port!FileGoes, Port!RemovalIsOver
<1>5. CASE RemovalFails
  BY <1>5 DEF RemovalFails, Port!RemovalRefused
<1>6. CASE Relaunch
  BY <1>6 DEF Relaunch, Launched, Port!Launches
<1>7. QED
  BY <1>1, <1>2, <1>3, <1>4, <1>5, <1>6

(* Every step of Download is one of ModelFile's, or changes nothing it shows. *)
LEMMA PortStep == FileIndInv /\ [DownloadNext]_downloadVars => [Port!FileNext]_(Port!fileVars)
<1> SUFFICES ASSUME FileIndInv, [DownloadNext]_downloadVars PROVE Port!FileNext \/ UNCHANGED Port!fileVars
  OBVIOUS
<1>1. CASE UNCHANGED downloadVars
  BY <1>1 DEF downloadVars, own, disk, Port!fileVars
<1>2. CASE Look
  BY <1>2, LookIsLook DEF Port!FileNext
<1>3. CASE Load
  BY <1>3, LoadIsLoad DEF Port!FileNext
<1>4. QED
  BY <1>1, <1>2, <1>3, OthersAreTheirs DEF DownloadNext

(* The file only ever gets its name when its bytes are the model's. *)
LEMMA RenamesTheModel == FileIndInv /\ [DownloadNext]_downloadVars => [Rename => final' = "good"]_downloadVars
BY SizeAssumption DEF FileIndInv, DownloadTypeOK, LoadVerdict, Rename, Moves, On

(* PortSpec, of the run download: Download implements ModelFile, and only  *)
(* a file whose bytes were found to be the model's gets the model's name,  *)
(* a removal of everything in progress or not.                             *)
THEOREM DownloadImplementsModelFile == DownloadSpec => PortSpec
<1>1. DownloadInit => Port!FileInit
  BY PortInit
<1>2. QED
  BY <1>1, FileInvariance, PortStep, RenamesTheModel, PTL DEF DownloadSpec, PortSpec, Port!FileSpec
================================================================================
