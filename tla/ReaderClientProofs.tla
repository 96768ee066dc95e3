-------------------------- MODULE ReaderClientProofs --------------------------
(***************************************************************************)
(* Theorems about ReaderClient, for any number of helpers and of calls in  *)
(* flight and any limit on exits.                                          *)
(***************************************************************************)
EXTENDS ReaderClient, TLAPS

-----------------------------------------------------------------------------
(* The inductive invariant, of a state t of the client: actions are made   *)
(* of operators from one state to the next, and each has its lemma.        *)
Helper == [st : {"off", "starting", "ready"}, retired : BOOLEAN, told : BOOLEAN]
State ==
  [helper : [Helpers -> Helper], current : Helpers \cup {None}, next : Helpers \cup {None},
   draining : SUBSET Helpers, timer : BOOLEAN, exits : 0..ExitLimit, gaveUp : BOOLEAN,
   mismatched : BOOLEAN, disposed : BOOLEAN, released : BOOLEAN,
   at : [Calls -> Helpers \cup {None}], kind : [Calls -> Kinds]]

(* A replacement warms up only for a helper that is there.                 *)
Shape(t) ==
  /\ t \in State
  /\ t.next # None => t.current # None /\ t.next # t.current
  /\ t.disposed => t.current = None
(* A helper in service lives and was not sent away; one that was taken out *)
(* of service lives; one that lives is in service or was sent away or was  *)
(* taken out; and calls are with helpers that answer.                      *)
Sane(t, x) ==
  /\ x \in InService(t) => t.helper[x].st # "off" /\ ~t.helper[x].retired /\ x \notin t.draining
  /\ x \in t.draining => t.helper[x].st # "off"
  /\ t.helper[x].st # "off" => x \in InService(t) \/ t.helper[x].retired \/ x \in t.draining
  /\ Pending(t, x) # {} => t.helper[x].st # "off" /\ ~t.helper[x].retired
(* Who was taken out of service goes with the last of its calls.           *)
Fine(t, x) == Sane(t, x) /\ (x \in t.draining => t.helper[x].retired \/ Pending(t, x) # {})
Good(t) == Shape(t) /\ \A x \in Helpers : Fine(t, x)
(* Who is in service knows whether capture is off, X excepted.             *)
KnownBut(t, X) == \A x \in InService(t) \ X : t.helper[x].st = "ready" => t.helper[x].told = t.released
IInv == Good(s) /\ KnownBut(s, {})

(* The invariant says what ReaderInv says.                                 *)
LEMMA InvImplies == IInv => ReaderInv
<1> SUFFICES ASSUME IInv PROVE ReaderInv
  OBVIOUS
<1>1. TypeOK
  BY DEF IInv, Good, Shape, State, Helper, TypeOK
<1>2. NobodyIsLeft
  BY DEF IInv, Good, Fine, Sane, NobodyIsLeft, Live
<1>3. CallsAreHeld
  <2>1. SUFFICES ASSUME NEW c \in Calls, s.at[c] # None
                 PROVE  s.at[c] \in Live(s) /\ ~s.helper[s.at[c]].retired
    BY DEF CallsAreHeld
  <2>2. s.at[c] \in Helpers /\ c \in Pending(s, s.at[c])
    BY <2>1 DEF IInv, Good, Shape, State, Pending
  <2>3. QED
    BY <2>2 DEF IInv, Good, Fine, Sane, Live
<1>4. ReleaseIsKnown
  BY DEF IInv, KnownBut, ReleaseIsKnown
<1>5. QED
  BY <1>1, <1>2, <1>3, <1>4 DEF ReaderInv

-----------------------------------------------------------------------------
(* What a step within a turn keeps: the calls only get fewer, nobody is    *)
(* disposed of, capture is off or on as before; nobody dies; and a plan is *)
(* given up only with the helper itself.                                   *)
Kept(t, r) ==
  /\ r.disposed = t.disposed /\ r.released = t.released
  /\ \A c \in Calls : r.at[c] \in {t.at[c], None}
Alive(t, r) == \A x \in Helpers : t.helper[x].st # "off" => r.helper[x].st # "off"
Planned(t, r) == (t.gaveUp => r.gaveUp) /\ (HasPlan(t) /\ ~r.gaveUp /\ ~r.disposed => HasPlan(r))

(* Calls are settled, and nothing else happens.                            *)
LEMMA SettledFields ==
  ASSUME NEW t \in State, NEW cs \in SUBSET Calls
  PROVE  /\ Settled(t, cs) \in State
         /\ Settled(t, cs) = [t EXCEPT !.at = Settled(t, cs).at, !.kind = Settled(t, cs).kind]
         /\ \A c \in Calls : Settled(t, cs).at[c] = IF c \in cs THEN None ELSE t.at[c]
<1> DEFINE a == [c \in Calls |-> IF c \in cs THEN None ELSE t.at[c]]
           k == [c \in Calls |-> IF c \in cs THEN "permission" ELSE t.kind[c]]
<1>1. a \in [Calls -> Helpers \cup {None}] /\ k \in [Calls -> Kinds]
  BY DEF State, Kinds
<1>2. Settled(t, cs) = [t EXCEPT !.at = a, !.kind = k]
  BY DEF Settled
<1>3. \A c \in Calls : a[c] = IF c \in cs THEN None ELSE t.at[c]
  OBVIOUS
<1> HIDE DEF a, k
<1>4. Settled(t, cs) \in State /\ Settled(t, cs).at = a /\ Settled(t, cs).kind = k
  BY <1>1, <1>2 DEF State
<1>5. QED
  BY <1>2, <1>3, <1>4
(* ... field by field.                                                     *)
LEMMA SettledKeeps ==
  ASSUME NEW t \in State, NEW cs \in SUBSET Calls
  PROVE  LET r == Settled(t, cs)
         IN  /\ r \in State /\ r.helper = t.helper /\ r.current = t.current /\ r.next = t.next
             /\ r.draining = t.draining /\ r.timer = t.timer /\ r.exits = t.exits /\ r.gaveUp = t.gaveUp
             /\ r.mismatched = t.mismatched /\ r.disposed = t.disposed /\ r.released = t.released
             /\ \A x \in Helpers : Pending(r, x) = Pending(t, x) \ cs
             /\ \A c \in Calls : r.at[c] = IF c \in cs THEN None ELSE t.at[c]
<1> DEFINE r == Settled(t, cs)
<1>1. /\ r \in State /\ r = [t EXCEPT !.at = r.at, !.kind = r.kind]
      /\ \A c \in Calls : r.at[c] = IF c \in cs THEN None ELSE t.at[c]
  BY SettledFields
<1> HIDE DEF r
<1>2. /\ r.helper = t.helper /\ r.current = t.current /\ r.next = t.next
      /\ r.draining = t.draining /\ r.timer = t.timer /\ r.exits = t.exits /\ r.gaveUp = t.gaveUp
      /\ r.mismatched = t.mismatched /\ r.disposed = t.disposed /\ r.released = t.released
  BY <1>1 DEF State
<1>3. \A x \in Helpers : Pending(r, x) = Pending(t, x) \ cs
  BY <1>1, ConstantsAssumption DEF Pending
<1>4. QED
  BY <1>1, <1>2, <1>3 DEF r

(* An exit is counted.                                                     *)
LEMMA NoteExitKeeps ==
  ASSUME NEW t \in State
  PROVE  LET r == NoteExit(t)
         IN  /\ r \in State /\ r.helper = t.helper /\ r.current = t.current /\ r.next = t.next
             /\ r.draining = t.draining /\ r.mismatched = t.mismatched /\ r.disposed = t.disposed
             /\ r.released = t.released /\ r.at = t.at /\ r.kind = t.kind
             /\ (t.gaveUp => r.gaveUp) /\ (~r.gaveUp => r.timer = t.timer)
<1>1. CASE t.exits + 1 < ExitLimit
  <2>1. NoteExit(t) = [t EXCEPT !.exits = t.exits + 1]
    BY <1>1 DEF NoteExit
  <2>2. t.exits + 1 \in 0..ExitLimit
    BY <1>1, ConstantsAssumption DEF State
  <2>3. QED
    BY <2>1, <2>2 DEF State
<1>2. CASE ~(t.exits + 1 < ExitLimit)
  <2>1. NoteExit(t) = [t EXCEPT !.exits = ExitLimit, !.gaveUp = TRUE, !.timer = t.timer /\ t.gaveUp]
    BY <1>2 DEF NoteExit
  <2>2. ExitLimit \in 0..ExitLimit
    BY ConstantsAssumption
  <2>3. (t.timer /\ t.gaveUp) \in BOOLEAN
    OBVIOUS
  <2>4. QED
    BY <2>1, <2>2, <2>3 DEF State
<1>3. QED
  BY <1>1, <1>2
(* A restart is planned, where one may be.                                 *)
LEMMA ScheduleKeeps ==
  ASSUME NEW t \in State
  PROVE  LET r == ScheduleRestart(t)
         IN  /\ r \in State /\ r.helper = t.helper /\ r.current = t.current /\ r.next = t.next
             /\ r.draining = t.draining /\ r.mismatched = t.mismatched /\ r.disposed = t.disposed
             /\ r.released = t.released /\ r.at = t.at /\ r.kind = t.kind /\ r.exits = t.exits
             /\ r.gaveUp = t.gaveUp /\ (~t.disposed /\ ~t.gaveUp => r.timer)
<1>1. (t.timer \/ ~(t.disposed \/ t.gaveUp)) \in BOOLEAN
  OBVIOUS
<1>2. ScheduleRestart(t) = [t EXCEPT !.timer = t.timer \/ ~(t.disposed \/ t.gaveUp)]
  BY DEF ScheduleRestart
<1>3. QED
  BY <1>1, <1>2 DEF State

-----------------------------------------------------------------------------
(* A helper is fine or not by where it stands.                             *)
LEMMA FineSame ==
  ASSUME NEW t, NEW r, NEW x \in Helpers, r.helper[x].st = t.helper[x].st,
         r.helper[x].retired = t.helper[x].retired,
         x \in InService(r) <=> x \in InService(t), x \in r.draining <=> x \in t.draining,
         Pending(r, x) = Pending(t, x)
  PROVE  (Sane(t, x) => Sane(r, x)) /\ (Fine(t, x) => Fine(r, x))
BY DEF Sane, Fine

(* The slots and the calls as they were.                                   *)
SameSlots(t, r) ==
  /\ r \in State /\ r.helper = t.helper /\ r.current = t.current /\ r.next = t.next
  /\ r.draining = t.draining /\ r.at = t.at /\ r.disposed = t.disposed /\ r.released = t.released
(* Then all is as it was.                                                  *)
LEMMA SameIsGood ==
  ASSUME NEW t, NEW r, SameSlots(t, r)
  PROVE  /\ Good(t) => Good(r)
         /\ \A X : KnownBut(t, X) => KnownBut(r, X)
         /\ Kept(t, r) /\ Alive(t, r)
<1>1. InService(r) = InService(t) /\ \A x : Pending(r, x) = Pending(t, x)
  BY DEF SameSlots, InService, Pending
<1>2. Good(t) => Good(r)
  BY <1>1, FineSame DEF SameSlots, Good, Shape
<1>3. \A X : KnownBut(t, X) => KnownBut(r, X)
  BY <1>1 DEF SameSlots, KnownBut
<1>4. Kept(t, r) /\ Alive(t, r)
  BY DEF SameSlots, Kept, Alive
<1>5. QED
  BY <1>2, <1>3, <1>4
(* What a turn keeps, it keeps step by step.                               *)
LEMMA Onward ==
  ASSUME NEW t, NEW u, NEW r
  PROVE  /\ Kept(t, u) /\ Kept(u, r) => Kept(t, r)
         /\ Alive(t, u) /\ Alive(u, r) => Alive(t, r)
         /\ Planned(t, u) /\ Planned(u, r) /\ r.disposed = u.disposed => Planned(t, r)
BY DEF Kept, Alive, Planned

(* gone, whatever h had left to do.                                        *)
LEMMA GoneKeeps ==
  ASSUME NEW t, Shape(t), NEW h \in Helpers, \A x \in Helpers \ {h} : Fine(t, x)
  PROVE  LET r == Gone(t, h)
         IN  /\ Good(r) /\ Kept(t, r) /\ \A X : KnownBut(t, X) => KnownBut(r, X)
             /\ \A x \in Helpers \ {h} : r.helper[x] = t.helper[x]
             /\ (h = t.current /\ t.helper[h].retired => t.gaveUp) => Planned(t, r)
             /\ h # t.current \/ t.helper[h].retired => r.exits = t.exits
<1> DEFINE r == Gone(t, h)
           p == Settled(t, Pending(t, h))
           u == [p EXCEPT !.helper[h] = Off, !.draining = p.draining \ {h}]
           v == [u EXCEPT !.current = t.next, !.next = None]
<1>0. t \in State /\ h # None /\ Pending(t, h) \in SUBSET Calls
  BY ConstantsAssumption DEF Shape, Pending
<1>1. /\ p \in State /\ p.helper = t.helper /\ p.current = t.current /\ p.next = t.next
      /\ p.draining = t.draining /\ p.timer = t.timer /\ p.exits = t.exits /\ p.gaveUp = t.gaveUp
      /\ p.mismatched = t.mismatched /\ p.disposed = t.disposed /\ p.released = t.released
      /\ \A x \in Helpers : Pending(p, x) = Pending(t, x) \ Pending(t, h)
      /\ \A c \in Calls : p.at[c] = IF c \in Pending(t, h) THEN None ELSE t.at[c]
  BY <1>0, SettledKeeps
<1>2. \A x \in Helpers \ {h} : Pending(p, x) = Pending(t, x)
  BY <1>1 DEF Pending
<1>3. Pending(p, h) = {}
  BY <1>1
<1> HIDE DEF p
<1>4. /\ u \in State /\ u.helper = [t.helper EXCEPT ![h] = Off] /\ u.draining = t.draining \ {h}
      /\ u.current = t.current /\ u.next = t.next /\ u.at = p.at /\ u.disposed = t.disposed
      /\ u.released = t.released /\ u.timer = t.timer /\ u.gaveUp = t.gaveUp /\ u.exits = t.exits
  BY <1>1 DEF State, Off, Helper
<1>5. /\ \A x \in Helpers \ {h} : u.helper[x] = t.helper[x] /\ (x \in u.draining <=> x \in t.draining)
                                 /\ Pending(u, x) = Pending(t, x)
      /\ u.helper[h] = Off /\ h \notin u.draining /\ Pending(u, h) = {}
  BY <1>0, <1>2, <1>3, <1>4 DEF Pending, State
<1> HIDE DEF u
<1>6. /\ v \in State /\ v.helper = u.helper /\ v.draining = u.draining /\ v.current = t.next /\ v.next = None
      /\ v.at = u.at /\ v.disposed = t.disposed /\ v.released = t.released /\ v.timer = t.timer
      /\ v.gaveUp = t.gaveUp /\ v.exits = t.exits
  BY <1>0, <1>4 DEF State
<1> HIDE DEF v
<1>7. ASSUME NEW q \in State, q.helper = u.helper, q.draining = u.draining, q.at = u.at,
             q.disposed = t.disposed, q.released = t.released, InService(q) = InService(t) \ {h},
             q.next # None => q.current # None /\ q.next # q.current, q.disposed => q.current = None
      PROVE  /\ Good(q) /\ Kept(t, q) /\ \A X : KnownBut(t, X) => KnownBut(q, X)
             /\ \A x \in Helpers \ {h} : q.helper[x] = t.helper[x]
  <2>1. Shape(q)
    BY <1>7 DEF Shape
  <2>2. Pending(q, h) = {} /\ \A x \in Helpers \ {h} : Pending(q, x) = Pending(t, x)
    BY <1>5, <1>7 DEF Pending
  <2>3. \A x \in Helpers \ {h} : Fine(q, x)
    BY <1>5, <1>7, <2>2, FineSame
  <2>4. Fine(q, h)
    BY <1>5, <1>7, <2>2 DEF Fine, Sane, Off
  <2>5. Kept(t, q)
    BY <1>1, <1>4, <1>7 DEF Kept
  <2>6. \A X : KnownBut(t, X) => KnownBut(q, X)
    <3>1. \A x \in InService(q) : x \in Helpers \ {h} /\ x \in InService(t) /\ q.helper[x] = t.helper[x]
      BY <1>0, <1>5, <1>7 DEF InService, State
    <3>2. QED
      BY <1>7, <3>1 DEF KnownBut
  <2>7. QED
    BY <1>5, <1>7, <2>1, <2>3, <2>4, <2>5, <2>6 DEF Good
<1>8. r = CASE h = t.next -> [u EXCEPT !.next = None]
            [] h # t.next /\ h # t.current -> u
            [] h # t.next /\ h = t.current /\ t.helper[h].retired -> v
            [] h # t.next /\ h = t.current /\ ~t.helper[h].retired /\ t.next # None -> NoteExit(v)
            [] OTHER -> ScheduleRestart(NoteExit(v))
  BY DEF Gone, u, v, p
<1> HIDE DEF r
<1>9. CASE h = t.next
  <2>1. r = [u EXCEPT !.next = None]
    BY <1>8, <1>9
  <2>2. /\ r \in State /\ r.helper = u.helper /\ r.draining = u.draining /\ r.at = u.at /\ r.current = t.current
        /\ r.next = None /\ r.disposed = t.disposed /\ r.released = t.released /\ r.timer = t.timer
        /\ r.gaveUp = t.gaveUp /\ r.exits = t.exits
    BY <1>4, <2>1 DEF State
  <2>3. InService(r) = InService(t) \ {h} /\ (r.disposed => r.current = None) /\ h # t.current
    BY <1>0, <1>9, <2>2 DEF InService, Shape
  <2>4. Planned(t, r)
    BY <2>2 DEF Planned, HasPlan
  <2>5. QED
    BY <1>7, <2>2, <2>3, <2>4 DEF r
<1>10. CASE h # t.next /\ h # t.current
  <2>1. r = u
    BY <1>8, <1>10
  <2>2. InService(u) = InService(t) \ {h}
    BY <1>4, <1>10 DEF InService
  <2>3. (u.next # None => u.current # None /\ u.next # u.current) /\ (u.disposed => u.current = None)
    BY <1>4 DEF Shape
  <2>4. Planned(t, r)
    BY <1>4, <2>1 DEF Planned, HasPlan
  <2>5. QED
    BY <1>4, <1>7, <2>1, <2>2, <2>3, <2>4 DEF r
<1>11. CASE h # t.next /\ h = t.current
  <2>1. InService(v) = InService(t) \ {h}
    BY <1>6, <1>11 DEF InService
  <2>2. (v.disposed => v.current = None)
    BY <1>0, <1>6, <1>11 DEF Shape
  <2>3. Good(v) /\ Kept(t, v) /\ (\A X : KnownBut(t, X) => KnownBut(v, X))
        /\ \A x \in Helpers \ {h} : v.helper[x] = t.helper[x]
    BY <1>6, <1>7, <2>1, <2>2
  <2>4. ~t.disposed
    BY <1>0, <1>11 DEF Shape
  <2>5. CASE t.helper[h].retired
    <3>1. r = v
      BY <1>8, <1>11, <2>5
    <3>2. t.gaveUp => Planned(t, r)
      BY <1>6, <3>1 DEF Planned
    <3>3. QED
      BY <1>6, <1>11, <2>3, <2>5, <3>1, <3>2 DEF r
  <2>6. CASE ~t.helper[h].retired
    <3> DEFINE n == NoteExit(v)
               m == ScheduleRestart(n)
    <3>1. /\ n \in State /\ n.helper = v.helper /\ n.current = v.current /\ n.next = v.next
          /\ n.draining = v.draining /\ n.disposed = v.disposed
          /\ n.released = v.released /\ n.at = v.at
          /\ (v.gaveUp => n.gaveUp) /\ (~n.gaveUp => n.timer = v.timer)
      BY <1>6, NoteExitKeeps
    <3>2. SameSlots(v, n)
      BY <3>1 DEF SameSlots
    <3> HIDE DEF n
    <3>3. /\ m \in State /\ m.helper = n.helper /\ m.current = n.current /\ m.next = n.next
          /\ m.draining = n.draining /\ m.disposed = n.disposed
          /\ m.released = n.released /\ m.at = n.at
          /\ m.gaveUp = n.gaveUp /\ (~n.disposed /\ ~n.gaveUp => m.timer)
      BY <3>1, ScheduleKeeps
    <3>4. SameSlots(v, m)
      BY <3>1, <3>3 DEF SameSlots
    <3>5. (t.next # None /\ r = n) \/ (t.next = None /\ r = m)
      BY <1>8, <1>11, <2>6 DEF n
    <3> HIDE DEF m
    <3>6. SameSlots(v, r) /\ r.helper = v.helper
      BY <3>2, <3>4, <3>5 DEF SameSlots
    <3>7. Planned(t, r)
      BY <1>6, <2>4, <3>1, <3>3, <3>5 DEF Planned, HasPlan
    <3>8. Good(r) /\ Kept(t, r) /\ \A X : KnownBut(t, X) => KnownBut(r, X)
      BY <2>3, <3>6, SameIsGood, Onward
    <3>9. QED
      BY <1>11, <2>3, <2>6, <3>6, <3>7, <3>8 DEF r
  <2>7. QED
    BY <2>5, <2>6
<1>12. QED
  BY <1>9, <1>10, <1>11

(* A helper that is out of service is sent away.                           *)
LEMMA RetireKeeps ==
  ASSUME NEW t, Shape(t), NEW h \in Helpers, \A x \in Helpers \ {h} : Fine(t, x),
         h \notin InService(t), t.helper[h].st # "off"
  PROVE  LET r == Retire(t, h)
         IN  /\ Good(r) /\ Kept(t, r) /\ Alive(t, r) /\ Planned(t, r)
             /\ \A X : KnownBut(t, X) => KnownBut(r, X)
             /\ \A x \in Helpers : r.helper[x].st = t.helper[x].st
             /\ r.current = t.current /\ r.next = t.next /\ r.gaveUp = t.gaveUp
<1> DEFINE r == Retire(t, h)
           p == Settled(t, Pending(t, h))
<1>0. t \in State /\ h # None /\ Pending(t, h) \in SUBSET Calls
  BY ConstantsAssumption DEF Shape, Pending
<1>1. /\ p \in State /\ p.helper = t.helper /\ p.current = t.current /\ p.next = t.next
      /\ p.draining = t.draining /\ p.timer = t.timer /\ p.exits = t.exits /\ p.gaveUp = t.gaveUp
      /\ p.disposed = t.disposed /\ p.released = t.released
      /\ \A x \in Helpers : Pending(p, x) = Pending(t, x) \ Pending(t, h)
      /\ \A c \in Calls : p.at[c] = IF c \in Pending(t, h) THEN None ELSE t.at[c]
  BY <1>0, SettledKeeps
<1>2. (\A x \in Helpers \ {h} : Pending(p, x) = Pending(t, x)) /\ Pending(p, h) = {}
  BY <1>1 DEF Pending
<1>3. r = [p EXCEPT !.helper[h].retired = TRUE]
  BY DEF Retire
<1> HIDE DEF p, r
<1>4. [t.helper[h] EXCEPT !.retired = TRUE] \in Helper
  <2>1. t.helper[h] \in Helper
    BY <1>0 DEF State
  <2>2. QED
    BY <2>1 DEF Helper
<1>5. /\ r \in State /\ r.helper = [t.helper EXCEPT ![h] = [t.helper[h] EXCEPT !.retired = TRUE]]
      /\ r.current = t.current /\ r.next = t.next /\ r.draining = t.draining /\ r.at = p.at
      /\ r.timer = t.timer /\ r.gaveUp = t.gaveUp /\ r.disposed = t.disposed /\ r.released = t.released
  BY <1>1, <1>3, <1>4 DEF State
<1>6. /\ \A x \in Helpers \ {h} : r.helper[x] = t.helper[x]
      /\ r.helper[h].st = t.helper[h].st /\ r.helper[h].retired
  BY <1>0, <1>5 DEF State, Helper
<1>7. InService(r) = InService(t) /\ \A x : Pending(r, x) = Pending(p, x)
  BY <1>5 DEF InService, Pending
<1>8. \A x \in Helpers \ {h} : Fine(r, x)
  BY <1>2, <1>5, <1>6, <1>7, FineSame
<1>9. Fine(r, h)
  BY <1>2, <1>6, <1>7 DEF Fine, Sane
<1>10. Good(r)
  BY <1>5, <1>8, <1>9 DEF Good, Shape
<1>11. Kept(t, r) /\ Alive(t, r) /\ Planned(t, r)
  BY <1>1, <1>5, <1>6 DEF Kept, Alive, Planned, HasPlan
<1>12. \A X : KnownBut(t, X) => KnownBut(r, X)
  <2>1. \A x \in InService(r) : x \in Helpers \ {h}
    BY <1>0, <1>7 DEF InService, State
  <2>2. QED
    BY <1>5, <1>6, <1>7, <2>1 DEF KnownBut
<1>13. QED
  BY <1>5, <1>6, <1>10, <1>11, <1>12 DEF r

(* A helper is launched, where there is room for one.                      *)
LEMMA LaunchedKeeps ==
  ASSUME NEW t, Good(t), Live(t) # Helpers, ~t.disposed, NEW slot \in {"current", "next"},
         IF slot = "current" THEN t.current = None ELSE t.current # None /\ t.next = None
  PROVE  LET r == Launched(t, slot)
         IN  /\ Good(r) /\ Kept(t, r) /\ Alive(t, r) /\ Planned(t, r)
             /\ \A X : KnownBut(t, X) => KnownBut(r, X)
             /\ r.current # None /\ (slot = "current" => Serving(r) = {}) /\ r.gaveUp = t.gaveUp
<1> DEFINE r == Launched(t, slot)
           h == CHOOSE x \in Helpers : x \notin Live(t)
<1>1. h \in Helpers /\ h \notin Live(t) /\ h # None
  BY ConstantsAssumption DEF Live
<1>2. r = IF slot = "current" THEN [t EXCEPT !.current = h, !.helper[h] = Fresh]
                              ELSE [t EXCEPT !.next = h, !.helper[h] = Fresh]
  BY DEF Launched
<1> HIDE DEF h, r
<1>3. t \in State /\ t.helper[h].st = "off" /\ Fresh \in Helper
  BY <1>1 DEF Live, Good, Shape, Fresh, Helper
<1>4. /\ r \in State /\ r.helper = [t.helper EXCEPT ![h] = Fresh] /\ r.draining = t.draining /\ r.at = t.at
      /\ r.timer = t.timer /\ r.gaveUp = t.gaveUp /\ r.disposed = t.disposed /\ r.released = t.released
      /\ r.current = (IF slot = "current" THEN h ELSE t.current)
      /\ r.next = (IF slot = "current" THEN t.next ELSE h)
  BY <1>1, <1>2, <1>3 DEF State
<1>5. Fine(t, h) /\ h \notin InService(t) /\ h \notin t.draining /\ Pending(t, h) = {}
  BY <1>1, <1>3 DEF Good, Fine, Sane
<1>6. t.next # None => t.current # None
  BY DEF Good, Shape
<1>7. InService(r) = InService(t) \cup {h} /\ \A x : Pending(r, x) = Pending(t, x)
  BY <1>1, <1>4, <1>6 DEF InService, Pending
<1>8. (\A x \in Helpers \ {h} : r.helper[x] = t.helper[x]) /\ r.helper[h] = Fresh
  BY <1>1, <1>3, <1>4 DEF State
<1>9. \A x \in Helpers \ {h} : Fine(r, x)
  BY <1>4, <1>7, <1>8, FineSame DEF Good
<1>10. Fine(r, h)
  BY <1>4, <1>5, <1>7, <1>8 DEF Fine, Sane, Fresh
<1>11. Shape(r)
  <2>1. t.current # h
    BY <1>1, <1>5 DEF InService
  <2>2. QED
    BY <1>1, <1>4, <1>6, <2>1 DEF Shape
<1>12. Kept(t, r) /\ Alive(t, r) /\ Planned(t, r)
  BY <1>1, <1>3, <1>4, <1>8 DEF Kept, Alive, Planned, HasPlan
<1>13. \A X : KnownBut(t, X) => KnownBut(r, X)
  <2>1. \A x \in InService(r) \ {h} : x \in InService(t) /\ x \in Helpers \ {h}
    BY <1>3, <1>7 DEF InService, State
  <2>2. \A x \in InService(r) : x = h \/ r.helper[x] = t.helper[x]
    BY <1>8, <2>1
  <2>3. r.helper[h].st # "ready"
    BY <1>8 DEF Fresh
  <2>4. QED
    BY <1>4, <2>1, <2>2, <2>3 DEF KnownBut
<1>14. r.current # None /\ (slot = "current" => Serving(r) = {})
  BY <1>1, <1>4, <1>8 DEF Serving, Fresh
<1>15. QED
  BY <1>4, <1>9, <1>10, <1>11, <1>12, <1>13, <1>14 DEF Good, r

(* start: where nobody is in service, somebody is launched, or the failure *)
(* counts and a restart is planned.                                        *)
LEMMA StartKeeps ==
  ASSUME NEW t, Good(t), Live(t) # Helpers, NEW spawns \in BOOLEAN
  PROVE  LET r == Start(t, spawns)
         IN  /\ Good(r) /\ Kept(t, r) /\ Alive(t, r) /\ Planned(t, r)
             /\ \A X : KnownBut(t, X) => KnownBut(r, X)
             /\ ~r.gaveUp /\ ~r.disposed => HasPlan(r)
             /\ t.current # None => r = t
             /\ spawns => r = t \/ Serving(r) = {}
<1> DEFINE r == Start(t, spawns)
<1>0. t \in State
  BY DEF Good, Shape
<1>1. CASE t.disposed \/ t.gaveUp \/ t.current # None
  <2>1. r = t
    BY <1>1 DEF Start
  <2>2. Kept(t, t) /\ Alive(t, t) /\ Planned(t, t)
    BY DEF Kept, Alive, Planned
  <2>3. QED
    BY <1>1, <2>1, <2>2 DEF HasPlan
<1>2. CASE ~(t.disposed \/ t.gaveUp \/ t.current # None) /\ spawns
  <2>1. r = Launched(t, "current")
    BY <1>2 DEF Start
  <2>2. QED
    BY <1>2, <2>1, LaunchedKeeps DEF HasPlan
<1>3. CASE ~(t.disposed \/ t.gaveUp \/ t.current # None) /\ ~spawns
  <2> DEFINE n == NoteExit(t)
  <2>1. /\ n \in State /\ n.helper = t.helper /\ n.current = t.current /\ n.next = t.next
        /\ n.draining = t.draining /\ n.disposed = t.disposed
        /\ n.released = t.released /\ n.at = t.at
        /\ (t.gaveUp => n.gaveUp) /\ (~n.gaveUp => n.timer = t.timer)
    BY <1>0, NoteExitKeeps
  <2>2. r = ScheduleRestart(n)
    BY <1>3 DEF Start
  <2> HIDE DEF n, r
  <2>3. /\ r \in State /\ r.helper = n.helper /\ r.current = n.current /\ r.next = n.next
        /\ r.draining = n.draining /\ r.disposed = n.disposed
        /\ r.released = n.released /\ r.at = n.at
        /\ r.gaveUp = n.gaveUp /\ (~n.disposed /\ ~n.gaveUp => r.timer)
    BY <2>1, <2>2, ScheduleKeeps
  <2>4. SameSlots(t, r)
    BY <2>1, <2>3 DEF SameSlots
  <2>5. Planned(t, r) /\ (~r.gaveUp /\ ~r.disposed => HasPlan(r))
    BY <1>3, <2>1, <2>3 DEF Planned, HasPlan
  <2>6. QED
    BY <1>3, <2>4, <2>5, SameIsGood DEF r
<1>4. QED
  BY <1>1, <1>2, <1>3

(* Nothing at all keeps everything.                                        *)
LEMMA Idle == ASSUME NEW t PROVE Kept(t, t) /\ Alive(t, t) /\ Planned(t, t)
BY DEF Kept, Alive, Planned

(* The last call of a helper that was taken out of service has ended.      *)
LEMMA LeaveKeeps ==
  ASSUME NEW t, Shape(t), NEW h \in Helpers, \A x \in Helpers \ {h} : Fine(t, x), Sane(t, h)
  PROVE  LET r == LeaveIfDrained(t, h)
         IN  /\ Good(r) /\ Kept(t, r) /\ Alive(t, r) /\ Planned(t, r)
             /\ \A X : KnownBut(t, X) => KnownBut(r, X)
             /\ r.gaveUp = t.gaveUp /\ \A x \in Helpers : r.helper[x].st = t.helper[x].st
<1> DEFINE r == LeaveIfDrained(t, h)
           u == [t EXCEPT !.draining = t.draining \ {h}]
<1>1. CASE h \in t.draining /\ Pending(t, h) = {}
  <2>0. t \in State
    BY DEF Shape
  <2>1. r = Retire(u, h)
    BY <1>1 DEF LeaveIfDrained
  <2>2. /\ u \in State /\ u.helper = t.helper /\ u.draining = t.draining \ {h} /\ u.at = t.at
        /\ u.timer = t.timer /\ u.gaveUp = t.gaveUp /\ u.disposed = t.disposed /\ u.released = t.released
        /\ u.current = t.current /\ u.next = t.next
    BY <2>0 DEF State
  <2> HIDE DEF u
  <2>3. InService(u) = InService(t) /\ \A x : Pending(u, x) = Pending(t, x)
    BY <2>2 DEF InService, Pending
  <2>4. \A x \in Helpers \ {h} : Fine(u, x)
    BY <2>2, <2>3, FineSame
  <2>5. Shape(u) /\ h \notin InService(u) /\ u.helper[h].st # "off"
    BY <1>1, <2>2, <2>3 DEF Shape, Sane
  <2>6. Kept(t, u) /\ Alive(t, u) /\ Planned(t, u) /\ \A X : KnownBut(t, X) => KnownBut(u, X)
    BY <2>2, <2>3 DEF Kept, Alive, Planned, HasPlan, KnownBut
  <2>7. /\ Good(r) /\ Kept(u, r) /\ Alive(u, r) /\ Planned(u, r)
        /\ \A X : KnownBut(u, X) => KnownBut(r, X)
        /\ r.gaveUp = u.gaveUp /\ \A x \in Helpers : r.helper[x].st = u.helper[x].st
    BY <2>1, <2>4, <2>5, RetireKeeps
  <2> HIDE DEF r
  <2>8. Kept(t, r) /\ Alive(t, r) /\ Planned(t, r)
    BY <2>6, <2>7, Onward DEF Kept
  <2>9. QED
    BY <2>2, <2>6, <2>7, <2>8 DEF r
<1>2. CASE ~(h \in t.draining /\ Pending(t, h) = {})
  <2>1. r = t
    BY <1>2 DEF LeaveIfDrained
  <2>2. Fine(t, h)
    BY <1>2 DEF Fine
  <2>3. QED
    BY <2>1, <2>2, Idle DEF Good
<1>3. QED
  BY <1>1, <1>2

(* tryPromote: the replacement takes over between calls.                   *)
LEMMA PromoteKeeps ==
  ASSUME NEW t, Good(t)
  PROVE  LET r == TryPromote(t)
         IN  /\ Good(r) /\ Kept(t, r) /\ Alive(t, r) /\ Planned(t, r)
             /\ \A X : KnownBut(t, X) => KnownBut(r, X)
             /\ \A x \in Helpers : r.helper[x].st = t.helper[x].st
<1> DEFINE r == TryPromote(t)
           u == [t EXCEPT !.current = t.next, !.next = None]
<1>0. t \in State
  BY DEF Good, Shape
<1>1. CASE t.next = None \/ t.helper[t.next].st # "ready" \/ Pending(t, t.current) # {}
  <2>1. r = t
    BY <1>1 DEF TryPromote
  <2>2. QED
    BY <2>1, Idle
<1>2. CASE ~(t.next = None \/ t.helper[t.next].st # "ready" \/ Pending(t, t.current) # {})
  <2> DEFINE h == t.current
  <2>1. t.next # None /\ h # None /\ t.next # h /\ h \in Helpers
    BY <1>0, <1>2 DEF Good, Shape, State
  <2>2. r = Retire(u, h)
    BY <1>2, <2>1 DEF TryPromote
  <2>3. /\ u \in State /\ u.helper = t.helper /\ u.draining = t.draining /\ u.at = t.at
        /\ u.timer = t.timer /\ u.gaveUp = t.gaveUp /\ u.disposed = t.disposed /\ u.released = t.released
        /\ u.current = t.next /\ u.next = None
    BY <1>0, <2>1 DEF State
  <2> HIDE DEF u
  <2>4. InService(u) = InService(t) \ {h} /\ \A x : Pending(u, x) = Pending(t, x)
    BY <2>1, <2>3 DEF InService, Pending
  <2>5. \A x \in Helpers \ {h} : Fine(u, x)
    BY <2>3, <2>4, FineSame DEF Good
  <2>6. h \notin InService(u) /\ u.helper[h].st # "off"
    BY <2>1, <2>3, <2>4 DEF Good, Fine, Sane, InService
  <2>7. Shape(u)
    BY <2>1, <2>3 DEF Good, Shape
  <2>8. Kept(t, u) /\ Alive(t, u) /\ Planned(t, u)
    BY <2>1, <2>3 DEF Kept, Alive, Planned, HasPlan
  <2>9. \A X : KnownBut(t, X) => KnownBut(u, X)
    BY <2>3, <2>4 DEF KnownBut
  <2>10. /\ Good(r) /\ Kept(u, r) /\ Alive(u, r) /\ Planned(u, r)
         /\ \A X : KnownBut(u, X) => KnownBut(r, X)
         /\ \A x \in Helpers : r.helper[x].st = u.helper[x].st
    BY <2>1, <2>2, <2>5, <2>6, <2>7, RetireKeeps
  <2> HIDE DEF r
  <2>11. Kept(t, r) /\ Alive(t, r) /\ Planned(t, r)
    BY <2>8, <2>10, Onward DEF Kept
  <2>12. QED
    BY <2>3, <2>9, <2>10, <2>11 DEF r
<1>3. QED
  BY <1>1, <1>2

(* drain: out of service, sent away now or later, and another is started   *)
(* where nobody is left in service.                                        *)
LEMMA DrainKeeps ==
  ASSUME NEW t, Good(t), NEW h, NEW spawns \in BOOLEAN, Live(t) # Helpers
  PROVE  LET r == Drain(t, h, spawns)
         IN  /\ Good(r) /\ Kept(t, r) /\ Alive(t, r) /\ Planned(t, r)
             /\ \A X : KnownBut(t, X) => KnownBut(r, X \ {h})
             /\ t.current # None /\ h # t.current => Live(r) = Live(t)
<1> DEFINE r == Drain(t, h, spawns)
           u == IF h = t.current THEN [t EXCEPT !.current = t.next, !.next = None]
                ELSE IF h = t.next THEN [t EXCEPT !.next = None] ELSE t
           q == [u EXCEPT !.draining = u.draining \cup {h}]
           w == IF Pending(t, h) = {} THEN Retire(u, h) ELSE q
<1>0. t \in State /\ Shape(t)
  BY DEF Good, Shape
<1>1. CASE h \notin Live(t) \/ t.helper[h].retired
  <2>1. r = t
    BY <1>1 DEF Drain
  <2>2. h \notin InService(t)
    BY <1>0, <1>1 DEF InService, State, Live, Good, Fine, Sane
  <2>3. \A X : KnownBut(t, X) => KnownBut(t, X \ {h})
    BY <2>2 DEF KnownBut
  <2>4. QED
    BY <2>1, <2>3, Idle
<1>2. CASE ~(h \notin Live(t) \/ t.helper[h].retired)
  <2>1. h \in Helpers /\ t.helper[h].st # "off" /\ ~t.helper[h].retired /\ h # None
    BY <1>2, ConstantsAssumption DEF Live
  <2>2. r = Start(w, spawns)
    BY <1>2 DEF Drain
  <2>3. /\ u \in State /\ u.helper = t.helper /\ u.draining = t.draining /\ u.at = t.at
        /\ u.timer = t.timer /\ u.gaveUp = t.gaveUp /\ u.disposed = t.disposed /\ u.released = t.released
        /\ u.current = (IF h = t.current THEN t.next ELSE t.current)
        /\ u.next = (IF h = t.current \/ h = t.next THEN None ELSE t.next)
    BY <1>0 DEF State
  <2> HIDE DEF u
  <2>4. InService(u) = InService(t) \ {h} /\ \A x : Pending(u, x) = Pending(t, x)
    BY <1>0, <2>1, <2>3 DEF InService, Pending, Shape
  <2>5. \A x \in Helpers \ {h} : Fine(u, x)
    BY <2>3, <2>4, FineSame DEF Good
  <2>6. h \notin InService(u) /\ Shape(u) /\ u.helper[h].st # "off"
    BY <1>0, <2>1, <2>3, <2>4 DEF Shape
  <2>7. Kept(t, u) /\ Alive(t, u)
    BY <2>3 DEF Kept, Alive
  <2>8. \A X : KnownBut(t, X) => KnownBut(u, X \ {h})
    BY <2>3, <2>4 DEF KnownBut
  <2>9. /\ Good(w) /\ Kept(u, w) /\ Alive(u, w) /\ (\A X : KnownBut(u, X) => KnownBut(w, X))
        /\ (\A x \in Helpers : w.helper[x].st = u.helper[x].st) /\ w.current = u.current /\ w.gaveUp = u.gaveUp
    <3>1. CASE Pending(t, h) = {}
      BY <2>1, <2>5, <2>6, <3>1, RetireKeeps
    <3>2. CASE Pending(t, h) # {}
      <4>1. w = q
        BY <3>2
      <4>2. /\ q \in State /\ q.helper = u.helper /\ q.draining = u.draining \cup {h} /\ q.at = u.at
            /\ q.timer = u.timer /\ q.gaveUp = u.gaveUp /\ q.disposed = u.disposed /\ q.released = u.released
            /\ q.current = u.current /\ q.next = u.next
        BY <2>1, <2>3 DEF State
      <4> HIDE DEF q
      <4>3. InService(q) = InService(u) /\ \A x : Pending(q, x) = Pending(u, x)
        BY <4>2 DEF InService, Pending
      <4>4. \A x \in Helpers \ {h} : Fine(q, x)
        BY <2>5, <4>2, <4>3, FineSame
      <4>5. Fine(q, h)
        BY <2>1, <2>3, <2>4, <2>6, <3>2, <4>2, <4>3 DEF Fine, Sane
      <4>6. Shape(q)
        BY <2>6, <4>2 DEF Shape
      <4>7. Kept(u, q) /\ Alive(u, q) /\ \A X : KnownBut(u, X) => KnownBut(q, X)
        BY <4>2, <4>3 DEF Kept, Alive, KnownBut
      <4>8. Good(q)
        BY <4>4, <4>5, <4>6 DEF Good
      <4>9. QED
        BY <4>1, <4>2, <4>7, <4>8
    <3>3. QED
      BY <3>1, <3>2
  <2> HIDE DEF w
  <2>10. Live(w) = Live(t)
    BY <2>3, <2>9 DEF Live
  <2>11. /\ Good(r) /\ Kept(w, r) /\ Alive(w, r) /\ Planned(w, r)
         /\ (\A X : KnownBut(w, X) => KnownBut(r, X))
         /\ (~r.gaveUp /\ ~r.disposed => HasPlan(r)) /\ (w.current # None => r = w)
    BY <2>2, <2>9, <2>10, StartKeeps
  <2> HIDE DEF r
  <2>12. Kept(t, r) /\ Alive(t, r)
    BY <2>7, <2>9, <2>11, Onward
  <2>13. Planned(t, r)
    BY <2>3, <2>9, <2>11 DEF Planned
  <2>14. t.current # None /\ h # t.current => Live(r) = Live(t)
    BY <2>3, <2>9, <2>10, <2>11
  <2>15. QED
    BY <2>8, <2>9, <2>11, <2>12, <2>13, <2>14 DEF r
<1>3. QED
  BY <1>1, <1>2

(* usable: somebody is started where nobody serves, and a replacement where*)
(* one is due.                                                             *)
LEMMA UsableKeeps ==
  ASSUME NEW t, Good(t), Live(t) # Helpers, NEW spawns \in BOOLEAN, NEW due \in BOOLEAN
  PROVE  LET r == Usable(t, spawns, due)
         IN  /\ Good(r) /\ Kept(t, r) /\ Alive(t, r) /\ Planned(t, r)
             /\ \A X : KnownBut(t, X) => KnownBut(r, X)
<1> DEFINE r == Usable(t, spawns, due)
           u == IF t.current = None /\ ~t.timer THEN Start(t, spawns) ELSE t
<1>1. CASE t.disposed
  <2>1. r = t
    BY <1>1 DEF Usable
  <2>2. QED
    BY <2>1, Idle
<1>2. CASE ~t.disposed
  <2>1. r = IF due /\ spawns /\ ~u.mismatched /\ Serving(u) # {} /\ u.next = None THEN Launched(u, "next") ELSE u
    BY <1>2 DEF Usable
  <2>2. /\ Good(u) /\ Kept(t, u) /\ Alive(t, u) /\ Planned(t, u)
        /\ (\A X : KnownBut(t, X) => KnownBut(u, X)) /\ (spawns => u = t \/ Serving(u) = {})
    <3>1. CASE t.current = None /\ ~t.timer
      BY <3>1, StartKeeps
    <3>2. CASE ~(t.current = None /\ ~t.timer)
      BY <3>2, Idle
    <3>3. QED
      BY <3>1, <3>2
  <2> HIDE DEF u
  <2>3. CASE r = u
    BY <2>2, <2>3
  <2>4. CASE spawns /\ Serving(u) # {} /\ u.next = None /\ r = Launched(u, "next")
    <3>1. u = t /\ t.current # None
      <4>1. u = t
        BY <2>2, <2>4
      <4>2. QED
        BY <2>4, <4>1 DEF Serving
    <3>2. "next" \in {"current", "next"} /\ (IF "next" = "current" THEN u.current = None ELSE u.current # None /\ u.next = None)
      BY <2>4, <3>1
    <3>3. /\ Good(r) /\ Kept(u, r) /\ Alive(u, r) /\ Planned(u, r)
          /\ \A X : KnownBut(u, X) => KnownBut(r, X)
      BY <1>2, <2>2, <2>4, <3>1, <3>2, LaunchedKeeps
    <3>4. QED
      BY <3>1, <3>3
  <2>5. QED
    BY <2>1, <2>3, <2>4
<1>3. QED
  BY <1>1, <1>2

(* Helpers are told something: nobody is better or worse for it.           *)
LEMMA ToldKeeps ==
  ASSUME NEW t, Good(t), NEW hs
  PROVE  LET r == Told(t, hs)
         IN  /\ Good(r) /\ Kept(t, r) /\ Alive(t, r) /\ Planned(t, r) /\ Live(r) = Live(t)
             /\ r.current = t.current /\ r.next = t.next /\ r.released = t.released /\ r.disposed = t.disposed
             /\ \A x \in Helpers : /\ r.helper[x].st = t.helper[x].st
                                   /\ r.helper[x].told = (t.helper[x].told \/ (x \in hs /\ t.helper[x].st = "ready"))
<1> DEFINE r == Told(t, hs)
           a == [x \in Helpers |-> IF x \in hs /\ t.helper[x].st = "ready"
                                   THEN [t.helper[x] EXCEPT !.told = TRUE] ELSE t.helper[x]]
<1>0. t \in State /\ \A x \in Helpers : t.helper[x] \in Helper
  BY DEF Good, Shape, State
<1>1. \A x \in Helpers : /\ a[x] \in Helper /\ a[x].st = t.helper[x].st /\ a[x].retired = t.helper[x].retired
                         /\ a[x].told = (t.helper[x].told \/ (x \in hs /\ t.helper[x].st = "ready"))
  BY <1>0 DEF Helper
<1>2. a \in [Helpers -> Helper]
  BY <1>1
<1>3. r = [t EXCEPT !.helper = a]
  BY DEF Told
<1> HIDE DEF a, r
<1>4. /\ r \in State /\ r.helper = a /\ r.draining = t.draining /\ r.at = t.at /\ r.current = t.current
      /\ r.next = t.next /\ r.timer = t.timer /\ r.gaveUp = t.gaveUp /\ r.disposed = t.disposed
      /\ r.released = t.released
  BY <1>0, <1>2, <1>3 DEF State
<1>5. InService(r) = InService(t) /\ \A x : Pending(r, x) = Pending(t, x)
  BY <1>4 DEF InService, Pending
<1>6. \A x \in Helpers : Fine(r, x)
  BY <1>1, <1>4, <1>5, FineSame DEF Good
<1>7. Good(r)
  BY <1>4, <1>6 DEF Good, Shape
<1>8. Kept(t, r) /\ Alive(t, r) /\ Planned(t, r) /\ Live(r) = Live(t)
  BY <1>1, <1>4 DEF Kept, Alive, Planned, HasPlan, Live
<1>9. QED
  BY <1>1, <1>4, <1>7, <1>8 DEF r

-----------------------------------------------------------------------------
(* What an event comes to.                                                 *)
Shrinks == s'.disposed = s.disposed /\ \A c \in Calls : s'.at[c] \in {s.at[c], None}
Asked(c) ==
  /\ s.at[c] = None /\ s'.at[c] # None /\ ~s.disposed /\ s'.disposed = s.disposed
  /\ \A d \in Calls \ {c} : s'.at[d] \in {s.at[d], None}
Ends == s'.disposed /\ \A c \in Calls : s'.at[c] = None
Plan == HasPlan(s) /\ ~s'.gaveUp /\ ~s'.disposed => HasPlan(s')
Cures == \A h \in Live(s) \ Live(s') : s.helper[h].retired \/ h \in s.draining => s'.exits <= s.exits
Outcome == IInv' /\ (Shrinks \/ Ends \/ \E c \in Calls : Asked(c)) /\ Plan /\ Cures

(* An event in which nobody goes.                                          *)
LEMMA Turned ==
  ASSUME Good(s'), KnownBut(s', {}), Kept(s, s'), Alive(s, s'), Plan
  PROVE  Outcome
BY DEF Outcome, IInv, Shrinks, Kept, Alive, Cures, Live

(* A helper goes.                                                          *)
LEMMA GoneTurned ==
  ASSUME IInv, NEW h \in Helpers, NEW t, Shape(t), \A x \in Helpers \ {h} : Fine(t, x), s' = Gone(t, h),
         KnownBut(t, {}), Kept(s, t), t.exits = s.exits, t.current = s.current, t.next = s.next, t.timer = s.timer,
         \A x \in Helpers \ {h} : t.helper[x].st = s.helper[x].st,
         (t.helper[h].retired = s.helper[h].retired /\ t.gaveUp = s.gaveUp) \/ (t.helper[h].retired /\ t.gaveUp)
  PROVE  Outcome
<1>0. h = s.current => ~s.helper[h].retired /\ h \notin s.draining
  BY ConstantsAssumption DEF IInv, Good, Fine, Sane, InService
<1>1. /\ Good(s') /\ Kept(t, s') /\ (KnownBut(t, {}) => KnownBut(s', {}))
      /\ \A x \in Helpers \ {h} : s'.helper[x] = t.helper[x]
      /\ Planned(t, s')
      /\ h # t.current \/ t.helper[h].retired => s'.exits = t.exits
  BY <1>0, GoneKeeps
<1>2. IInv'
  BY <1>1 DEF IInv
<1>3. Shrinks
  BY <1>1 DEF Kept, Shrinks
<1>4. Plan
  BY <1>1 DEF Planned, HasPlan, Plan
<1>5. Cures
  <2>1. \A x \in Live(s) \ Live(s') : x = h
    BY <1>1 DEF Live
  <2>2. s.exits \in Nat /\ s.exits <= s.exits
    BY ConstantsAssumption DEF IInv, Good, Shape, State
  <2>3. s.helper[h].retired \/ h \in s.draining => s'.exits = s.exits
    BY <1>0, <1>1
  <2>4. QED
    BY <2>1, <2>2, <2>3 DEF Cures
<1>6. QED
  BY <1>2, <1>3, <1>4, <1>5 DEF Outcome

(* A call is made: answered at once, or with the helper that serves, which *)
(* ends the read before it.                                                *)
LEMMA AskKeeps == ASSUME IInv, NEW c \in Calls, NEW k \in Kinds, Ask(c, k) PROVE Outcome
<1>0. Good(s) /\ KnownBut(s, {}) /\ Live(s) # Helpers /\ s.at[c] = None /\ ~s.disposed
  BY DEF IInv, Ask, Room
<1>1. PICK spawns \in BOOLEAN, due \in BOOLEAN :
       LET t == Usable(s, spawns, due)
           superseded == {d \in Calls : k = "read" /\ t.at[d] = t.current /\ t.kind[d] = "read"}
       IN  s' = IF Serving(t) = {} THEN t
                ELSE [Settled(t, superseded) EXCEPT !.at[c] = t.current, !.kind[c] = k]
  BY DEF Ask
<1> DEFINE t == Usable(s, spawns, due)
           cs == {d \in Calls : k = "read" /\ t.at[d] = t.current /\ t.kind[d] = "read"}
           p == Settled(t, cs)
<1>2. s' = IF Serving(t) = {} THEN t ELSE [p EXCEPT !.at[c] = t.current, !.kind[c] = k]
  BY <1>1
<1>3. /\ Good(t) /\ Kept(s, t) /\ Alive(s, t) /\ Planned(s, t) /\ KnownBut(t, {})
  BY <1>0, UsableKeeps
<1> HIDE DEF t
<1>4. CASE s' = t
  <2>1. Plan
    BY <1>3, <1>4 DEF Planned, Plan
  <2>2. QED
    BY <1>3, <1>4, <2>1, Turned
<1>5. CASE Serving(t) # {} /\ s' = [p EXCEPT !.at[c] = t.current, !.kind[c] = k]
  <2> DEFINE h == t.current
  <2>1. h \in Helpers /\ h # None /\ h \in InService(t) /\ t \in State /\ cs \in SUBSET Calls
    BY <1>3, <1>5 DEF Serving, InService, Good, Shape, State
  <2>2. \A d \in cs : t.at[d] = h
    OBVIOUS
  <2> HIDE DEF cs
  <2>3. /\ p \in State /\ p.helper = t.helper /\ p.current = t.current /\ p.next = t.next
        /\ p.draining = t.draining /\ p.timer = t.timer /\ p.exits = t.exits /\ p.gaveUp = t.gaveUp
        /\ p.disposed = t.disposed /\ p.released = t.released
        /\ \A d \in Calls : p.at[d] = IF d \in cs THEN None ELSE t.at[d]
    BY <2>1, SettledKeeps
  <2> HIDE DEF p, h
  <2>4. /\ s' \in State /\ s'.helper = t.helper /\ s'.current = t.current /\ s'.next = t.next
        /\ s'.draining = t.draining /\ s'.timer = t.timer /\ s'.gaveUp = t.gaveUp
        /\ s'.disposed = t.disposed /\ s'.released = t.released /\ s'.at = [p.at EXCEPT ![c] = h]
    BY <1>5, <2>1, <2>3 DEF State, h
  <2>5. s'.at[c] = h /\ \A d \in Calls \ {c} : s'.at[d] = p.at[d]
    BY <2>3, <2>4 DEF State
  <2>6. t.at[c] = None /\ InService(s') = InService(t)
    BY <1>0, <1>3, <2>4 DEF Kept, InService
  <2>7. \A x \in Helpers \ {h} : Pending(s', x) = Pending(t, x)
    BY <2>1, <2>2, <2>3, <2>5, <2>6, ConstantsAssumption DEF Pending
  <2>8. \A x \in Helpers \ {h} : Fine(s', x)
    BY <1>3, <2>4, <2>6, <2>7, FineSame DEF Good
  <2>9. Fine(s', h)
    BY <1>3, <2>1, <2>4, <2>6 DEF Good, Fine, Sane
  <2>10. ~s'.disposed /\ Shape(s')
    BY <1>0, <1>3, <2>4 DEF Good, Shape, Kept
  <2>11. IInv'
    BY <1>3, <2>4, <2>6, <2>8, <2>9, <2>10 DEF IInv, Good, KnownBut
  <2>12. Asked(c)
    BY <1>0, <1>3, <2>1, <2>3, <2>4, <2>5 DEF Asked, Kept
  <2>13. Plan
    BY <2>1, <2>4 DEF Plan, HasPlan, h
  <2>14. Cures
    BY <1>3, <2>4 DEF Cures, Alive, Live
  <2>15. QED
    BY <2>11, <2>12, <2>13, <2>14 DEF Outcome
<1>6. QED
  BY <1>2, <1>4, <1>5

(* Calls settled at one helper, that leaves with its last one and makes    *)
(* room for its replacement.                                               *)
LEMMA AnsweredKeeps ==
  ASSUME IInv, NEW h \in Helpers, NEW cs \in SUBSET Pending(s, h)
  PROVE  LET t == TryPromote(LeaveIfDrained(Settled(s, cs), h))
         IN  /\ Good(t) /\ KnownBut(t, {}) /\ Kept(s, t) /\ Alive(s, t) /\ Planned(s, t) /\ Live(t) = Live(s)
<1> DEFINE p == Settled(s, cs)
           l == LeaveIfDrained(p, h)
           t == TryPromote(l)
<1>0. s \in State /\ cs \in SUBSET Calls
  BY DEF IInv, Good, Shape, Pending
<1>1. /\ p \in State /\ p.helper = s.helper /\ p.current = s.current /\ p.next = s.next
      /\ p.draining = s.draining /\ p.timer = s.timer /\ p.exits = s.exits /\ p.gaveUp = s.gaveUp
      /\ p.mismatched = s.mismatched /\ p.disposed = s.disposed /\ p.released = s.released
      /\ \A x \in Helpers : Pending(p, x) = Pending(s, x) \ cs
      /\ \A c \in Calls : p.at[c] = IF c \in cs THEN None ELSE s.at[c]
  BY <1>0, SettledKeeps
<1> HIDE DEF p
<1>2. InService(p) = InService(s) /\ \A x \in Helpers \ {h} : Pending(p, x) = Pending(s, x)
  BY <1>1 DEF InService, Pending
<1>3. \A x \in Helpers \ {h} : Fine(p, x)
  BY <1>1, <1>2, FineSame DEF IInv, Good
<1>4. Sane(p, h)
  BY <1>1, <1>2 DEF IInv, Good, Fine, Sane
<1>5. Shape(p) /\ Kept(s, p) /\ Alive(s, p) /\ Planned(s, p) /\ KnownBut(p, {})
  BY <1>1, <1>2 DEF IInv, Good, Shape, Kept, Alive, Planned, HasPlan, KnownBut
<1>6. /\ Good(l) /\ Kept(p, l) /\ Alive(p, l) /\ Planned(p, l)
      /\ KnownBut(l, {}) /\ \A x \in Helpers : l.helper[x].st = p.helper[x].st
  BY <1>3, <1>4, <1>5, LeaveKeeps
<1> HIDE DEF l
<1>7. /\ Good(t) /\ Kept(l, t) /\ Alive(l, t) /\ Planned(l, t)
      /\ KnownBut(t, {}) /\ \A x \in Helpers : t.helper[x].st = l.helper[x].st
  BY <1>6, PromoteKeeps
<1> HIDE DEF t
<1>8. Kept(s, t) /\ Alive(s, t) /\ Planned(s, t)
  <2>1. Kept(s, l) /\ Alive(s, l) /\ Planned(s, l)
    BY <1>5, <1>6, Onward DEF Kept
  <2>2. QED
    BY <1>7, <2>1, Onward DEF Kept
<1>9. Live(t) = Live(s)
  BY <1>1, <1>6, <1>7 DEF Live
<1>10. QED
  BY <1>7, <1>8, <1>9 DEF t, l, p

(* A call is with a helper that is there.                                  *)
LEMMA CallIsAt ==
  ASSUME IInv, NEW c \in Calls, s.at[c] # None
  PROVE  s.at[c] \in Helpers /\ {c} \in SUBSET Pending(s, s.at[c])
BY DEF IInv, Good, Shape, State, Pending

(* An answer, or a line that cannot be read.                               *)
LEMMA AnswersKeep == ASSUME IInv, NEW c \in Calls, Answers(c) PROVE Outcome
<1> DEFINE h == s.at[c]
           t == TryPromote(LeaveIfDrained(Settled(s, {c}), h))
<1>1. h \in Helpers /\ {c} \in SUBSET Pending(s, h)
  BY CallIsAt DEF Answers
<1>2. s' = t \/ (Room /\ \E spawns \in BOOLEAN : s' = Drain(t, h, spawns))
  BY DEF Answers
<1>3. /\ Good(t) /\ KnownBut(t, {}) /\ Kept(s, t) /\ Alive(s, t) /\ Planned(s, t) /\ Live(t) = Live(s)
  BY <1>1, AnsweredKeeps
<1> HIDE DEF t, h
<1>4. CASE s' = t
  BY <1>3, <1>4, Turned DEF Planned, Plan
<1>5. CASE Room /\ \E spawns \in BOOLEAN : s' = Drain(t, h, spawns)
  <2>1. PICK spawns \in BOOLEAN : s' = Drain(t, h, spawns)
    BY <1>5
  <2>2. Live(t) # Helpers
    BY <1>3, <1>5 DEF Room
  <2>3. /\ Good(s') /\ Kept(t, s') /\ Alive(t, s') /\ Planned(t, s') /\ KnownBut(s', {} \ {h})
    BY <1>3, <2>1, <2>2, DrainKeeps
  <2>4. KnownBut(s', {})
    BY <2>3 DEF KnownBut
  <2>5. Kept(s, s') /\ Alive(s, s') /\ Planned(s, s')
    BY <1>3, <2>3, Onward DEF Kept
  <2>6. QED
    BY <2>3, <2>4, <2>5, Turned DEF Planned, Plan
<1>6. QED
  BY <1>2, <1>4, <1>5
(* ... in what it said everything it was asked has failed.                 *)
LEMMA UnreadableKeeps == ASSUME IInv, NEW h \in Helpers, Unreadable(h) PROVE Outcome
<1>1. s' = TryPromote(LeaveIfDrained(Settled(s, Pending(s, h)), h))
  BY DEF Unreadable
<1>2. Pending(s, h) \in SUBSET Pending(s, h)
  OBVIOUS
<1>3. Good(s') /\ KnownBut(s', {}) /\ Kept(s, s') /\ Alive(s, s') /\ Planned(s, s')
  BY <1>1, <1>2, AnsweredKeeps
<1>4. QED
  BY <1>3, Turned DEF Planned, Plan

(* A helper that never answers, exits, or is killed.                       *)
LEMMA WedgedKeeps == ASSUME IInv, NEW c \in Calls, Wedged(c) PROVE Outcome
<1> DEFINE h == s.at[c]
           p == Settled(s, {c})
<1>0. s \in State /\ {c} \in SUBSET Calls
  BY DEF IInv, Good, Shape
<1>1. h \in Helpers /\ s' = Gone(p, h)
  BY CallIsAt DEF Wedged
<1>2. /\ p \in State /\ p.helper = s.helper /\ p.current = s.current /\ p.next = s.next
      /\ p.draining = s.draining /\ p.timer = s.timer /\ p.exits = s.exits /\ p.gaveUp = s.gaveUp
      /\ p.mismatched = s.mismatched /\ p.disposed = s.disposed /\ p.released = s.released
      /\ \A x \in Helpers : Pending(p, x) = Pending(s, x) \ {c}
      /\ \A d \in Calls : p.at[d] = IF d \in {c} THEN None ELSE s.at[d]
  BY <1>0, SettledKeeps
<1> HIDE DEF p
<1>3. InService(p) = InService(s) /\ \A x \in Helpers \ {h} : Pending(p, x) = Pending(s, x)
  BY <1>2 DEF InService, Pending
<1>4. \A x \in Helpers \ {h} : Fine(p, x)
  BY <1>2, <1>3, FineSame DEF IInv, Good
<1>5. Shape(p) /\ Kept(s, p) /\ KnownBut(p, {})
  BY <1>2, <1>3 DEF IInv, Good, Shape, Kept, KnownBut
<1>6. /\ p.exits = s.exits /\ p.current = s.current /\ p.next = s.next /\ p.timer = s.timer
      /\ \A x \in Helpers \ {h} : p.helper[x].st = s.helper[x].st
  BY <1>2
<1>7. (p.helper[h].retired = s.helper[h].retired /\ p.gaveUp = s.gaveUp) \/ (p.helper[h].retired /\ p.gaveUp)
  BY <1>2
<1> HIDE DEF h
<1>8. QED
  BY <1>1, <1>4, <1>5, <1>6, <1>7, GoneTurned
(* ... by itself, or because it was told to.                               *)
LEMMA ExitsKeep == ASSUME IInv, NEW h \in Helpers, s' = Gone(s, h) PROVE Outcome
<1> DEFINE t == s
<1>1. Shape(t) /\ (\A x \in Helpers \ {h} : Fine(t, x)) /\ KnownBut(t, {}) /\ Kept(s, t)
  BY Idle DEF IInv, Good
<1>2. /\ t.exits = s.exits /\ t.current = s.current /\ t.next = s.next /\ t.timer = s.timer
      /\ \A x \in Helpers \ {h} : t.helper[x].st = s.helper[x].st
  OBVIOUS
<1>3. (t.helper[h].retired = s.helper[h].retired /\ t.gaveUp = s.gaveUp) \/ (t.helper[h].retired /\ t.gaveUp)
  OBVIOUS
<1>4. s' = Gone(t, h)
  OBVIOUS
<1> HIDE DEF t
<1>5. QED
  BY <1>1, <1>2, <1>3, <1>4, GoneTurned
(* ... or speaks another protocol: then the client gives up for good.      *)
LEMMA MismatchKeeps == ASSUME IInv, NEW h \in Helpers, Mismatch(h) PROVE Outcome
<1> DEFINE t == [s EXCEPT !.mismatched = TRUE, !.gaveUp = TRUE, !.helper[h].retired = TRUE]
<1>0. s \in State
  BY DEF IInv, Good, Shape
<1>1. s' = Gone(t, h)
  BY DEF Mismatch
<1>2. [s.helper[h] EXCEPT !.retired = TRUE] \in Helper
  <2>1. s.helper[h] \in Helper
    BY <1>0 DEF State
  <2>2. QED
    BY <2>1 DEF Helper
<1>3. /\ t \in State /\ t.helper = [s.helper EXCEPT ![h] = [s.helper[h] EXCEPT !.retired = TRUE]]
      /\ t.current = s.current /\ t.next = s.next /\ t.draining = s.draining /\ t.at = s.at
      /\ t.timer = s.timer /\ t.gaveUp /\ t.disposed = s.disposed /\ t.released = s.released /\ t.exits = s.exits
  BY <1>0, <1>2 DEF State
<1> HIDE DEF t
<1>4. /\ \A x \in Helpers \ {h} : t.helper[x] = s.helper[x]
      /\ t.helper[h].retired /\ t.helper[h].st = s.helper[h].st /\ t.helper[h].told = s.helper[h].told
  BY <1>0, <1>3 DEF State, Helper
<1>5. InService(t) = InService(s) /\ \A x : Pending(t, x) = Pending(s, x)
  BY <1>3 DEF InService, Pending
<1>6. \A x \in Helpers \ {h} : Fine(t, x)
  BY <1>3, <1>4, <1>5, FineSame DEF IInv, Good
<1>7. Shape(t) /\ Kept(s, t)
  BY <1>3 DEF IInv, Good, Shape, Kept
<1>8. KnownBut(t, {})
  <2>1. \A x \in InService(s) : x \in Helpers
    BY <1>0 DEF InService, State
  <2>2. QED
    BY <1>3, <1>4, <1>5, <2>1 DEF IInv, KnownBut
<1>9. QED
  BY <1>1, <1>3, <1>4, <1>6, <1>7, <1>8, GoneTurned

(* A helper is ready, and knows what main last asked for.                  *)
LEMMA ReadyKeeps == ASSUME IInv, NEW h \in Helpers, Ready(h) PROVE Outcome
<1> DEFINE e == [st |-> "ready", retired |-> s.helper[h].retired, told |-> s.released]
           t == [s EXCEPT !.helper[h].st = "ready", !.helper[h].told = s.released]
<1>0. s \in State /\ s.helper[h].st = "starting" /\ s.helper[h] \in Helper
  BY DEF IInv, Good, Shape, State, Ready
<1>1. s' = TryPromote(t)
  BY DEF Ready
<1>2. e \in Helper
  BY <1>0 DEF Helper, State
<1>3. t = [s EXCEPT !.helper = [s.helper EXCEPT ![h] = e]]
  <2> DEFINE o == s.helper[h]
             n == [[o EXCEPT !.st = "ready"] EXCEPT !.told = s.released]
  <2>1. n = e
    <3>1. o \in Helper /\ e \in Helper
      BY <1>0, <1>2
    <3>2. n \in Helper
      BY <1>0, <3>1 DEF Helper, State
    <3>3. n.st = e.st /\ n.retired = e.retired /\ n.told = e.told
      BY <3>1 DEF Helper
    <3> HIDE DEF n, e, o
    <3>4. QED
      BY <3>1, <3>2, <3>3 DEF Helper
  <2>2. t = [s EXCEPT !.helper[h] = n]
    BY <1>0 DEF State
  <2>3. QED
    BY <1>0, <2>1, <2>2 DEF State
<1> HIDE DEF t
<1>4. /\ t \in State /\ t.helper = [s.helper EXCEPT ![h] = e]
      /\ t.current = s.current /\ t.next = s.next /\ t.draining = s.draining /\ t.at = s.at
      /\ t.timer = s.timer /\ t.gaveUp = s.gaveUp /\ t.disposed = s.disposed /\ t.released = s.released
  BY <1>0, <1>2, <1>3 DEF State
<1>5. (\A x \in Helpers \ {h} : t.helper[x] = s.helper[x]) /\ t.helper[h] = e
  BY <1>0, <1>4 DEF State
<1>6. InService(t) = InService(s) /\ \A x : Pending(t, x) = Pending(s, x)
  BY <1>4 DEF InService, Pending
<1>7. \A x \in Helpers \ {h} : Fine(t, x)
  BY <1>4, <1>5, <1>6, FineSame DEF IInv, Good
<1>8. Fine(t, h)
  BY <1>0, <1>4, <1>5, <1>6 DEF IInv, Good, Fine, Sane
<1>9. Good(t)
  BY <1>4, <1>7, <1>8 DEF IInv, Good, Shape
<1>10. Kept(s, t) /\ Alive(s, t) /\ Planned(s, t)
  BY <1>0, <1>4, <1>5 DEF Kept, Alive, Planned, HasPlan
<1>11. KnownBut(t, {})
  <2>1. \A x \in InService(s) : x \in Helpers
    BY <1>0 DEF InService, State
  <2>2. QED
    BY <1>4, <1>5, <1>6, <2>1 DEF IInv, KnownBut
<1>12. /\ Good(s') /\ Kept(t, s') /\ Alive(t, s') /\ Planned(t, s') /\ KnownBut(s', {})
  BY <1>1, <1>9, <1>11, PromoteKeeps
<1>13. Kept(s, s') /\ Alive(s, s') /\ Planned(s, s')
  BY <1>10, <1>12, Onward DEF Kept
<1>14. QED
  BY <1>12, <1>13, Turned DEF Planned, Plan

(* The backoff is over; an exit is forgotten.                              *)
LEMMA TimerKeeps == ASSUME IInv, TimerFires PROVE Outcome
<1> DEFINE t == [s EXCEPT !.timer = FALSE]
<1>1. s \in State /\ Live(s) # Helpers
  BY DEF IInv, Good, Shape, TimerFires, Room
<1>2. PICK spawns \in BOOLEAN : s' = Start(t, spawns)
  BY DEF TimerFires
<1>3. /\ t \in State /\ t.helper = s.helper /\ t.current = s.current /\ t.next = s.next
      /\ t.draining = s.draining /\ t.at = s.at /\ t.disposed = s.disposed /\ t.released = s.released
  BY <1>1 DEF State
<1> HIDE DEF t
<1>4. Good(t) /\ KnownBut(t, {}) /\ Kept(s, t) /\ Alive(s, t)
  BY <1>3, SameIsGood DEF SameSlots, IInv
<1>5. Live(t) # Helpers
  BY <1>1, <1>3 DEF Live
<1>6. Good(s') /\ KnownBut(s', {}) /\ Kept(t, s') /\ Alive(t, s') /\ (~s'.gaveUp /\ ~s'.disposed => HasPlan(s'))
  BY <1>2, <1>4, <1>5, StartKeeps
<1>7. Kept(s, s') /\ Alive(s, s')
  BY <1>4, <1>6, Onward
<1>8. Plan
  BY <1>6 DEF Plan, HasPlan
<1>9. QED
  BY <1>6, <1>7, <1>8, Turned
(* ... which is no cause to do anything.                                   *)
LEMMA ExitAgesKeeps == ASSUME IInv, ExitAges PROVE Outcome
<1>1. s \in State /\ s.exits - 1 \in 0..ExitLimit
  BY ConstantsAssumption DEF IInv, Good, Shape, State, ExitAges
<1>2. s' = [s EXCEPT !.exits = s.exits - 1]
  BY DEF ExitAges
<1>3. /\ s' \in State /\ s'.helper = s.helper /\ s'.current = s.current /\ s'.next = s.next
      /\ s'.draining = s.draining /\ s'.at = s.at /\ s'.disposed = s.disposed /\ s'.released = s.released
      /\ s'.timer = s.timer
  BY <1>1, <1>2 DEF State
<1>4. Good(s') /\ KnownBut(s', {}) /\ Kept(s, s') /\ Alive(s, s')
  BY <1>3, SameIsGood DEF SameSlots, IInv
<1>5. Plan
  BY <1>3 DEF Plan, HasPlan
<1>6. QED
  BY <1>4, <1>5, Turned

(* Capture is switched off: who is in service is told.                     *)
LEMMA ReleaseKeeps == ASSUME IInv, Release PROVE Outcome
<1> DEFINE t == [s EXCEPT !.released = TRUE]
           hs == InService(s)
<1>1. s \in State /\ s' = Told(t, hs)
  BY DEF IInv, Good, Shape, Release
<1>2. /\ t \in State /\ t.helper = s.helper /\ t.current = s.current /\ t.next = s.next
      /\ t.draining = s.draining /\ t.at = s.at /\ t.disposed = s.disposed /\ t.released
      /\ t.timer = s.timer /\ t.gaveUp = s.gaveUp
  BY <1>1 DEF State
<1> HIDE DEF t
<1>3. InService(t) = hs /\ \A x : Pending(t, x) = Pending(s, x)
  BY <1>2 DEF InService, Pending
<1>4. Good(t)
  <2>1. \A x \in Helpers : Fine(t, x)
    BY <1>2, <1>3, FineSame DEF IInv, Good
  <2>2. QED
    BY <1>2, <2>1 DEF IInv, Good, Shape
<1>5. /\ Good(s') /\ Kept(t, s') /\ Alive(t, s') /\ Planned(t, s')
      /\ s'.current = t.current /\ s'.next = t.next /\ s'.released = t.released
      /\ \A x \in Helpers : /\ s'.helper[x].st = t.helper[x].st
                            /\ s'.helper[x].told = (t.helper[x].told \/ (x \in hs /\ t.helper[x].st = "ready"))
  BY <1>1, <1>4, ToldKeeps
<1>6. KnownBut(s', {})
  <2>1. InService(s') = hs /\ hs \in SUBSET Helpers
    BY <1>1, <1>2, <1>5 DEF InService, State
  <2>2. \A x \in hs : s'.helper[x].st = "ready" => s'.helper[x].told /\ s'.released
    BY <1>2, <1>5, <2>1
  <2>3. s' \in State /\ \A x \in Helpers : s'.helper[x].told \in BOOLEAN
    BY <1>5 DEF Good, Shape, State, Helper
  <2>4. s'.released \in BOOLEAN
    BY <2>3 DEF State
  <2>5. QED
    BY <2>1, <2>2, <2>3, <2>4 DEF KnownBut
<1>7. Alive(s, s') /\ Plan
  BY <1>2, <1>5 DEF Alive, Planned, HasPlan, Plan
<1>8. Shrinks
  BY <1>2, <1>5 DEF Kept, Shrinks
<1>9. Cures
  BY <1>7 DEF Cures, Alive, Live
<1>10. QED
  BY <1>5, <1>6, <1>7, <1>8, <1>9 DEF Outcome, IInv

(* ... and on again.                                                       *)
LEMMA GrantKeeps == ASSUME IInv, Grant PROVE Outcome
<1> DEFINE a == [h \in Helpers |-> IF h \in InService(s) THEN [s.helper[h] EXCEPT !.told = FALSE]
                                                         ELSE s.helper[h]]
<1>1. s \in State /\ \A x \in Helpers : s.helper[x] \in Helper
  BY DEF IInv, Good, Shape, State
<1>2. \A x \in Helpers : /\ a[x] \in Helper /\ a[x].st = s.helper[x].st /\ a[x].retired = s.helper[x].retired
                         /\ x \in InService(s) => a[x].told = FALSE
  BY <1>1 DEF Helper
<1>3. a \in [Helpers -> Helper]
  BY <1>2
<1>4. s' = [s EXCEPT !.released = FALSE, !.helper = a]
  BY DEF Grant
<1> HIDE DEF a
<1>5. /\ s' \in State /\ s'.helper = a /\ s'.current = s.current /\ s'.next = s.next
      /\ s'.draining = s.draining /\ s'.at = s.at /\ s'.disposed = s.disposed /\ s'.released = FALSE
      /\ s'.timer = s.timer /\ s'.gaveUp = s.gaveUp
  BY <1>1, <1>3, <1>4 DEF State
<1>6. InService(s') = InService(s) /\ \A x : Pending(s', x) = Pending(s, x)
  BY <1>5 DEF InService, Pending
<1>7. \A x \in Helpers : Fine(s', x)
  BY <1>2, <1>5, <1>6, FineSame DEF IInv, Good
<1>8. Good(s')
  BY <1>5, <1>7 DEF IInv, Good, Shape
<1>9. KnownBut(s', {})
  <2>1. \A x \in InService(s) : x \in Helpers
    BY <1>1 DEF InService, State
  <2>2. QED
    BY <1>2, <1>5, <1>6, <2>1 DEF KnownBut
<1>10. Shrinks
  BY <1>5 DEF Shrinks
<1>11. Plan
  BY <1>5 DEF Plan, HasPlan
<1>12. Cures
  BY <1>2, <1>5 DEF Cures, Live
<1>13. QED
  BY <1>8, <1>9, <1>10, <1>11, <1>12 DEF Outcome, IInv

(* A helper warming up is taken out of service, if there is one.           *)
LEMMA DrainNextKeeps ==
  ASSUME NEW t, Good(t), NEW spawns \in BOOLEAN, Live(t) # Helpers
  PROVE  LET r == Drain(t, t.next, spawns)
         IN  /\ Good(r) /\ Kept(t, r) /\ Alive(t, r) /\ Planned(t, r) /\ Live(r) # Helpers
             /\ \A X : KnownBut(t, X) => KnownBut(r, X \ {t.next})
<1>1. CASE t.next = None
  <2>1. None \notin Live(t)
    BY ConstantsAssumption DEF Live
  <2>2. Drain(t, t.next, spawns) = t
    BY <1>1, <2>1 DEF Drain
  <2>3. \A X : KnownBut(t, X) => KnownBut(t, X \ {t.next})
    BY <1>1 DEF KnownBut, InService
  <2>4. QED
    BY <2>2, <2>3, Idle
<1>2. CASE t.next # None
  <2>1. t.current # None /\ t.next # t.current
    BY <1>2 DEF Good, Shape
  <2>2. QED
    BY <2>1, DrainKeeps
<1>3. QED
  BY <1>1, <1>2
(* The helper in service is, if there is one.                              *)
LEMMA DrainCurrentKeeps ==
  ASSUME NEW t, Good(t), NEW h, NEW spawns \in BOOLEAN, Live(t) # Helpers, KnownBut(t, {h})
  PROVE  LET r == Drain(t, h, spawns)
         IN  Good(r) /\ Kept(t, r) /\ Alive(t, r) /\ Planned(t, r) /\ KnownBut(r, {})
<1>1. {h} \ {h} = {}
  OBVIOUS
<1>2. QED
  BY <1>1, DrainKeeps

(* The helpers are replaced at main's wish.                                *)
LEMMA RestartKeeps == ASSUME IInv, Restart PROVE Outcome
<1>1. PICK spawns \in BOOLEAN : s' = Drain(Drain(s, s.next, spawns), s.current, spawns)
  BY DEF Restart, DrainBoth
<1> DEFINE t == Drain(s, s.next, spawns)
<1>2. Good(s) /\ KnownBut(s, {}) /\ Live(s) # Helpers
  BY DEF IInv, Restart, Room
<1>3. Good(t) /\ Kept(s, t) /\ Alive(s, t) /\ Planned(s, t) /\ Live(t) # Helpers /\ KnownBut(t, {} \ {s.next})
  BY <1>2, DrainNextKeeps
<1>4. s' = Drain(t, s.current, spawns)
  BY <1>1
<1> HIDE DEF t
<1>5. KnownBut(t, {s.current})
  BY <1>3 DEF KnownBut
<1>6. Good(s') /\ Kept(t, s') /\ Alive(t, s') /\ Planned(t, s') /\ KnownBut(s', {})
  BY <1>3, <1>4, <1>5, DrainCurrentKeeps
<1>7. Kept(s, s') /\ Alive(s, s') /\ Planned(s, s')
  BY <1>3, <1>6, Onward DEF Kept
<1>8. QED
  BY <1>6, <1>7, Turned DEF Planned, Plan

(* The user stopped a share: the helpers that did not say so are told, and *)
(* taken out of service.                                                   *)
LEMMA ShareStoppedKeeps == ASSUME IInv, NEW h \in Helpers, ShareStopped(h) PROVE Outcome
<1> DEFINE hs == {o \in InService(s) \cup s.draining : o # h /\ ~s.helper[o].retired}
           t == Told(s, hs)
<1>1. PICK spawns \in BOOLEAN :
        LET u == IF s.next = h THEN t ELSE Drain(t, s.next, spawns)
        IN  s' = IF s.current = h THEN u ELSE Drain(u, s.current, spawns)
  BY DEF ShareStopped
<1> DEFINE u == IF s.next = h THEN t ELSE Drain(t, s.next, spawns)
           X == InService(s) \ {h}
<1>2. s' = IF s.current = h THEN u ELSE Drain(u, s.current, spawns)
  BY <1>1
<1>3. s \in State /\ Good(s) /\ KnownBut(s, {}) /\ Live(s) # Helpers /\ h # None
  BY ConstantsAssumption DEF IInv, Good, Shape, ShareStopped, Room
<1>4. h \notin hs
  OBVIOUS
<1> HIDE DEF hs
<1>5. /\ Good(t) /\ Kept(s, t) /\ Alive(s, t) /\ Planned(s, t) /\ Live(t) = Live(s)
      /\ t.current = s.current /\ t.next = s.next /\ t.released = s.released
      /\ \A x \in Helpers : /\ t.helper[x].st = s.helper[x].st
                            /\ t.helper[x].told = (s.helper[x].told \/ (x \in hs /\ s.helper[x].st = "ready"))
  BY <1>3, ToldKeeps
<1> HIDE DEF t
<1>6. KnownBut(t, X)
  <2>1. InService(t) = InService(s)
    BY <1>5 DEF InService
  <2>2. \A x \in InService(t) \ X : x = h
    BY <2>1
  <2>3. h \in InService(s) /\ t.helper[h].st = "ready" => t.helper[h].told = s.released
    <3>1. h \in InService(s) /\ s.helper[h].st = "ready" => s.helper[h].told = s.released
      BY <1>3 DEF KnownBut
    <3>2. s.helper[h].told \in BOOLEAN
      BY <1>3 DEF State, Helper
    <3>3. t.helper[h].told = s.helper[h].told
      BY <1>4, <1>5, <3>2
    <3>4. QED
      BY <1>5, <3>1, <3>3
  <2>4. QED
    BY <1>5, <2>1, <2>2, <2>3 DEF KnownBut
<1>7. Live(t) # Helpers
  BY <1>3, <1>5
<1>8. /\ Good(u) /\ Kept(t, u) /\ Alive(t, u) /\ Planned(t, u) /\ Live(u) # Helpers
      /\ KnownBut(u, {s.current} \ {h})
  <2>1. CASE s.next = h
    <3>1. u = t
      BY <2>1
    <3>2. s.current # None
      BY <1>3, <2>1 DEF Good, Shape
    <3>3. X = {s.current} \ {h}
      BY <1>3, <2>1, <3>2 DEF InService
    <3>4. KnownBut(t, {s.current} \ {h})
      BY <1>6, <3>3
    <3>5. QED
      BY <1>5, <1>7, <3>1, <3>4, Idle
  <2>2. CASE s.next # h
    <3>1. u = Drain(t, t.next, spawns)
      BY <1>5, <2>2
    <3>2. /\ Good(u) /\ Kept(t, u) /\ Alive(t, u) /\ Planned(t, u) /\ Live(u) # Helpers
          /\ KnownBut(u, X \ {t.next})
      BY <1>5, <1>6, <1>7, <3>1, DrainNextKeeps
    <3>3. X \ {t.next} \in SUBSET ({s.current} \ {h})
      BY <1>5 DEF InService
    <3>4. KnownBut(u, {s.current} \ {h})
      BY <3>2, <3>3 DEF KnownBut
    <3>5. QED
      BY <3>2, <3>4
  <2>3. QED
    BY <2>1, <2>2
<1> HIDE DEF u, X
<1>9. Kept(s, u) /\ Alive(s, u) /\ Planned(s, u)
  BY <1>5, <1>8, Onward DEF Kept
<1>10. CASE s.current = h
  <2>1. s' = u /\ KnownBut(s', {})
    BY <1>2, <1>8, <1>10 DEF KnownBut
  <2>2. QED
    BY <1>8, <1>9, <2>1, Turned DEF Planned, Plan
<1>11. CASE s.current # h
  <2>1. s' = Drain(u, s.current, spawns) /\ KnownBut(u, {s.current})
    BY <1>2, <1>8, <1>11 DEF KnownBut
  <2>2. Good(s') /\ Kept(u, s') /\ Alive(u, s') /\ Planned(u, s') /\ KnownBut(s', {})
    BY <1>8, <2>1, DrainCurrentKeeps
  <2>3. Kept(s, s') /\ Alive(s, s') /\ Planned(s, s')
    BY <1>9, <2>2, Onward DEF Kept
  <2>4. QED
    BY <2>2, <2>3, Turned DEF Planned, Plan
<1>12. QED
  BY <1>10, <1>11

(* "Try again", where the client had given up; a helper where one is       *)
(* missing.                                                                *)
LEMMA SubscribeKeeps == ASSUME IInv, Subscribe PROVE Outcome
<1> DEFINE t == IF s.gaveUp /\ ~s.mismatched /\ s.current = None
                THEN [s EXCEPT !.gaveUp = FALSE, !.exits = 0] ELSE s
<1>1. s \in State /\ Live(s) # Helpers /\ ~s.disposed
  BY DEF IInv, Good, Shape, Subscribe, Room
<1>2. PICK spawns \in BOOLEAN, due \in BOOLEAN : s' = Usable(t, spawns, due)
  BY DEF Subscribe
<1>3. 0 \in 0..ExitLimit
  BY ConstantsAssumption
<1>4. /\ t \in State /\ t.helper = s.helper /\ t.current = s.current /\ t.next = s.next
      /\ t.draining = s.draining /\ t.at = s.at /\ t.disposed = s.disposed /\ t.released = s.released
      /\ t.timer = s.timer
  <2>1. CASE t = s
    BY <1>1, <2>1
  <2>2. CASE t = [s EXCEPT !.gaveUp = FALSE, !.exits = 0]
    <3> HIDE DEF t
    <3>1. QED
      BY <1>1, <1>3, <2>2 DEF State
  <2>3. QED
    BY <2>1, <2>2
<1> HIDE DEF t
<1>5. Good(t) /\ KnownBut(t, {}) /\ Kept(s, t) /\ Alive(s, t)
  BY <1>4, SameIsGood DEF SameSlots, IInv
<1>6. Live(t) # Helpers
  BY <1>1, <1>4 DEF Live
<1>7. Good(s') /\ KnownBut(s', {}) /\ Kept(t, s') /\ Alive(t, s') /\ Planned(t, s')
  BY <1>2, <1>5, <1>6, UsableKeeps
<1>8. Kept(s, s') /\ Alive(s, s')
  BY <1>5, <1>7, Onward
<1>9. Plan
  BY <1>4, <1>7 DEF Plan, Planned, HasPlan
<1>10. QED
  BY <1>7, <1>8, <1>9, Turned

(* The end: everyone is sent away, and nothing waits.                      *)
LEMMA DisposeKeeps == ASSUME IInv, Dispose PROVE Outcome
<1> DEFINE p == Settled(s, Calls)
           a == [h \in Helpers |-> [s.helper[h] EXCEPT !.retired = h \in Live(s)]]
<1>0. s \in State /\ Calls \in SUBSET Calls /\ \A x \in Helpers : s.helper[x] \in Helper
  BY DEF IInv, Good, Shape, State
<1>1. /\ p \in State /\ p.helper = s.helper /\ p.current = s.current /\ p.next = s.next
      /\ p.draining = s.draining /\ p.timer = s.timer /\ p.exits = s.exits /\ p.gaveUp = s.gaveUp
      /\ p.mismatched = s.mismatched /\ p.disposed = s.disposed /\ p.released = s.released
      /\ \A c \in Calls : p.at[c] = IF c \in Calls THEN None ELSE s.at[c]
  BY <1>0, SettledKeeps
<1>2. ASSUME NEW x \in Helpers
      PROVE  a[x] \in Helper /\ a[x].st = s.helper[x].st /\ a[x].retired = (x \in Live(s))
  <2> DEFINE e == s.helper[x]
             b == x \in Live(s)
  <2>1. e \in Helper /\ b \in BOOLEAN
    BY <1>0
  <2>2. a[x] = [e EXCEPT !.retired = b]
    OBVIOUS
  <2> HIDE DEF a, b, e
  <2>3. a[x] \in Helper
    BY <2>1, <2>2 DEF Helper
  <2>4. a[x].st = e.st /\ a[x].retired = b
    BY <2>1, <2>2 DEF Helper
  <2>5. QED
    BY <2>3, <2>4 DEF e, b
<1>3. a \in [Helpers -> Helper]
  BY <1>2
<1>4. s' = [p EXCEPT !.disposed = TRUE, !.timer = FALSE, !.current = None, !.next = None, !.helper = a]
  BY <1>1 DEF Dispose
<1> HIDE DEF a, p
<1>5. /\ s' \in State /\ s'.helper = a /\ s'.current = None /\ s'.next = None /\ s'.draining = s.draining
      /\ s'.at = p.at /\ s'.disposed /\ s'.exits = s.exits
  BY <1>1, <1>3, <1>4 DEF State
<1>6. InService(s') = {} /\ \A c \in Calls : s'.at[c] = None
  BY <1>1, <1>5 DEF InService
<1>7. ASSUME NEW x \in Helpers PROVE Fine(s', x)
  <2>1. Pending(s', x) = {}
    BY <1>6, ConstantsAssumption DEF Pending
  <2>2. s'.helper[x].st # "off" => s'.helper[x].retired
    BY <1>2, <1>5 DEF Live
  <2>3. x \in s'.draining => s'.helper[x].st # "off"
    BY <1>2, <1>5 DEF IInv, Good, Fine, Sane
  <2>4. QED
    BY <1>6, <2>1, <2>2, <2>3 DEF Fine, Sane
<1>8. IInv'
  BY <1>5, <1>6, <1>7 DEF IInv, Good, Shape, KnownBut
<1>9. Ends /\ Plan
  BY <1>5, <1>6 DEF Ends, Plan
<1>10. Cures
  BY <1>2, <1>5 DEF Cures, Live
<1>11. QED
  BY <1>8, <1>9, <1>10 DEF Outcome

-----------------------------------------------------------------------------
(* Every event comes to what Outcome says.                                 *)
LEMMA EventsKeep == ASSUME IInv, Next PROVE Outcome
<1>1. ASSUME NEW c \in Calls, Answers(c) \/ Wedged(c) \/ \E k \in Kinds : Ask(c, k) PROVE Outcome
  BY <1>1, AnswersKeep, WedgedKeeps, AskKeeps
<1>2. ASSUME NEW h \in Helpers, Unreadable(h) \/ Ready(h) \/ Mismatch(h) \/ ShareStopped(h) PROVE Outcome
  BY <1>2, UnreadableKeeps, ReadyKeeps, MismatchKeeps, ShareStoppedKeeps
<1>3. ASSUME NEW h \in Helpers, Exits(h) \/ StartTimesOut(h) \/ Killed(h) PROVE Outcome
  BY <1>3, ExitsKeep DEF Exits, StartTimesOut, Killed
<1>4. CASE TimerFires \/ ExitAges \/ Release \/ Grant \/ Restart \/ Subscribe \/ Dispose
  BY <1>4, TimerKeeps, ExitAgesKeeps, ReleaseKeeps, GrantKeeps, RestartKeeps, SubscribeKeeps, DisposeKeeps
<1>5. QED
  BY <1>1, <1>2, <1>3, <1>4 DEF Next

(* The client starts that way.                                             *)
LEMMA InitGood == Init => IInv
<1> SUFFICES ASSUME Init PROVE IInv
  OBVIOUS
<1>1. [h \in Helpers |-> Off] \in [Helpers -> Helper]
  BY DEF Off, Helper
<1>2. [c \in Calls |-> None] \in [Calls -> Helpers \cup {None}] /\ [c \in Calls |-> "permission"] \in [Calls -> Kinds]
  BY DEF Kinds
<1>3. 0 \in 0..ExitLimit
  BY ConstantsAssumption
<1>4. s \in State
  BY <1>1, <1>2, <1>3 DEF Init, State
<1>5. /\ s.helper = [h \in Helpers |-> Off] /\ s.current = None /\ s.next = None /\ s.draining = {}
      /\ s.at = [c \in Calls |-> None] /\ s.disposed = FALSE
  BY DEF Init
<1>6. InService(s) = {} /\ \A x \in Helpers : Pending(s, x) = {} /\ s.helper[x] = Off
  BY <1>5, ConstantsAssumption DEF InService, Pending
<1>7. QED
  BY <1>4, <1>5, <1>6 DEF IInv, Good, Shape, Fine, Sane, KnownBut, Off

(* The invariant of every run of the client.                               *)
LEMMA Invariance == Spec => []IInv
<1>1. IInv /\ UNCHANGED s => IInv'
  BY DEF IInv, Good, Shape, Fine, Sane, KnownBut, InService, Pending
<1>2. IInv /\ [Next]_s => IInv'
  BY <1>1, EventsKeep DEF Outcome
<1>3. QED
  BY InitGood, <1>2, PTL DEF Spec

(* However restarts, promotions, exits and answers overlap, no helper that *)
(* lives is left behind, no call waits on one that is gone or was told to  *)
(* go, and every ready helper in service knows whether capture is off.     *)
THEOREM NoHelperIsLeftBehind == Spec => []ReaderInv
BY Invariance, InvImplies, PTL

(* What the client does to its helpers itself never makes it give up.      *)
THEOREM OwnCuresDoNotCount == Spec => OwnCuresAreFree
<1>1. IInv /\ [Next]_s => [\A h \in Live(s) \ Live(s)' :
                             s.helper[h].retired \/ h \in s.draining => s'.exits <= s.exits]_s
  <2> SUFFICES ASSUME IInv, Next
               PROVE  \A h \in Live(s) \ Live(s)' :
                        s.helper[h].retired \/ h \in s.draining => s'.exits <= s.exits
    OBVIOUS
  <2>1. Live(s') = Live(s)'
    BY DEF Live
  <2>2. QED
    BY <2>1, EventsKeep DEF Outcome, Cures
<1>2. QED
  BY Invariance, <1>1, PTL DEF Spec, OwnCuresAreFree

(* Once supervision has begun there is always a helper in service or a     *)
(* restart on its way, until the client gives up or ends: the safety half  *)
(* of SupervisionGoesOn.                                                   *)
THEOREM SomeoneServesOrIsPlanned ==
  Spec => [][HasPlan(s) /\ ~s'.gaveUp /\ ~s'.disposed => HasPlan(s')]_s
<1>1. IInv /\ [Next]_s => [HasPlan(s) /\ ~s'.gaveUp /\ ~s'.disposed => HasPlan(s')]_s
  BY EventsKeep DEF Outcome, Plan
<1>2. QED
  BY Invariance, <1>1, PTL DEF Spec

-----------------------------------------------------------------------------
(* Who waits, as main knows it.                                            *)
Waiting == {c \in Calls : s.at[c] # None}

(* Calls that ended in one step were answered.                             *)
LEMMA ShrinksIsAnswered ==
  ASSUME s'.disposed = s.disposed, Waiting' \in SUBSET Waiting, Waiting' # Waiting
  PROVE  \E c \in Calls : Port!Answered(c)
<1>1. PICK c \in Waiting : c \notin Waiting'
  OBVIOUS
<1>2. c \in Calls /\ Waiting' \in SUBSET (Waiting \ {c})
  BY <1>1 DEF Waiting
<1>3. Port!Answered(c)
  BY <1>1, <1>2 DEF Port!Answered, Waiting
<1>4. QED
  BY <1>2, <1>3

(* An event of the client is a step main may see of a reader, or none.     *)
LEMMA PortStep ==
  ASSUME Outcome
  PROVE  [Port!Dispose \/ \E c \in Calls : Port!Call(c) \/ Port!Answered(c)]_(Port!port)
<1>1. CASE Ends
  <2>1. Waiting' = {}
    BY <1>1 DEF Ends, Waiting
  <2>2. s'.disposed = TRUE
    BY <1>1 DEF Ends, Outcome, IInv, Good, Shape, State
  <2>3. QED
    BY <2>1, <2>2 DEF Port!Dispose, Waiting
<1>2. CASE Shrinks
  <2>1. Waiting' \in SUBSET Waiting /\ s'.disposed = s.disposed
    BY <1>2 DEF Shrinks, Waiting
  <2>2. CASE Waiting' = Waiting
    BY <2>1, <2>2 DEF Port!port, Waiting
  <2>3. CASE Waiting' # Waiting
    BY <2>1, <2>3, ShrinksIsAnswered
  <2>4. QED
    BY <2>2, <2>3
<1>3. ASSUME NEW c \in Calls, Asked(c) PROVE Port!Call(c)
  <2>1. c \notin Waiting /\ c \in Waiting' /\ Waiting' \ {c} \in SUBSET Waiting
    BY <1>3 DEF Asked, Waiting
  <2>2. Waiting' = (Waiting' \ {c}) \cup {c}
    BY <2>1
  <2>3. \E w \in SUBSET Waiting : Waiting' = w \cup {c}
    BY <2>1, <2>2
  <2>4. ~s.disposed /\ s'.disposed = s.disposed
    BY <1>3 DEF Asked
  <2>5. QED
    BY <2>1, <2>3, <2>4 DEF Port!Call, Waiting
<1>4. QED
  BY <1>1, <1>2, <1>3 DEF Outcome

(* The client is a reader as main knows it, as far as that is safety: a    *)
(* call ends at most once, at any time, and with dispose at the latest;    *)
(* none is taken after it.                                                 *)
THEOREM ClientIsAReader == Spec => Port!Safety
<1>1. Init => Port!Init
  BY DEF Init, Port!Init
<1>2. IInv /\ [Next]_s => [Port!Dispose \/ \E c \in Calls : Port!Call(c) \/ Port!Answered(c)]_(Port!port)
  <2>1. UNCHANGED s => UNCHANGED Port!port
    BY DEF Port!port
  <2>2. QED
    BY <2>1, EventsKeep, PortStep
<1>3. QED
  BY Invariance, <1>1, <1>2, PTL DEF Spec, Port!Safety
=============================================================================
