---------------------------- MODULE ReaderClient ----------------------------
(***************************************************************************)
(* The supervisor of the native reader                                     *)
(* (app/src/main/reader/readerClient.ts): one helper serves, a second warms*)
(* up to take its place, and those taken out of service finish what they   *)
(* were asked before they are sent away.                                   *)
(*                                                                         *)
(* Each handler of the source runs in one turn and calls others, so the    *)
(* helpers of the source are operators from a state of the client to the   *)
(* next one, and an action is one event. Left to choice: whether a spawn   *)
(* works, whether a planned restart is due, whether a permission answer is *)
(* one that replaces the helper; deadlines may pass at any time. Left out: *)
(* the backoff's length, the contents of answers, and the grant's token -  *)
(* but not whether a helper knows that capture was switched off.           *)
(* Bounds: Helpers alive at once; Calls in flight at once.                 *)
(***************************************************************************)
EXTENDS Naturals, FiniteSets

CONSTANTS Helpers, Calls, None, ExitLimit
ASSUME ConstantsAssumption == None \notin Helpers /\ ExitLimit \in Nat \ {0}

VARIABLE s

(* frontWindow waits as permission does; its answer replaces nobody.       *)
Kinds == {"permission", "read"}
Off   == [st |-> "off", retired |-> FALSE, told |-> FALSE]
Fresh == [st |-> "starting", retired |-> FALSE, told |-> FALSE]

TypeOK ==
  s \in [helper : [Helpers -> [st : {"off", "starting", "ready"}, retired : BOOLEAN, told : BOOLEAN]],
         current : Helpers \cup {None}, next : Helpers \cup {None}, draining : SUBSET Helpers,
         timer : BOOLEAN, exits : 0..ExitLimit, gaveUp : BOOLEAN, mismatched : BOOLEAN,
         disposed : BOOLEAN, released : BOOLEAN,
         at : [Calls -> Helpers \cup {None}], kind : [Calls -> Kinds]]

Init ==
  s = [helper |-> [h \in Helpers |-> Off], current |-> None, next |-> None, draining |-> {},
       timer |-> FALSE, exits |-> 0, gaveUp |-> FALSE, mismatched |-> FALSE, disposed |-> FALSE,
       released |-> FALSE,
       at |-> [c \in Calls |-> None], kind |-> [c \in Calls |-> "permission"]]

-----------------------------------------------------------------------------
Live(t)     == {h \in Helpers : t.helper[h].st # "off"}
Serving(t)  == {h \in {t.current} \ {None} : t.helper[h].st = "ready"}
InService(t) == {t.current, t.next} \ {None}
Pending(t, h) == {c \in Calls : t.at[c] = h}
Settled(t, cs) ==
  [t EXCEPT !.at = [c \in Calls |-> IF c \in cs THEN None ELSE @[c]],
            !.kind = [c \in Calls |-> IF c \in cs THEN "permission" ELSE @[c]]]

(* noteExit, scheduleRestart.                                              *)
NoteEveryExit(t) == [t EXCEPT !.exits = @ + 1]  \* a slip: exits are counted and it never gives up
NoteExit(t) ==
  LET n == t.exits + 1
  IN  IF n < ExitLimit THEN [t EXCEPT !.exits = n]
      ELSE [t EXCEPT !.exits = ExitLimit, !.gaveUp = TRUE, !.timer = @ /\ t.gaveUp]
ScheduleRestart(t) == [t EXCEPT !.timer = @ \/ ~(t.disposed \/ t.gaveUp)]

(* gone: the replacement takes over, ready or not; an exit nobody asked for*)
(* counts if the helper was serving.                                       *)
Gone(t, h) ==
  LET u == [Settled(t, Pending(t, h)) EXCEPT !.helper[h] = Off, !.draining = @ \ {h}]
      v == [u EXCEPT !.current = t.next, !.next = None]
  IN  IF h = t.next THEN [u EXCEPT !.next = None]
      ELSE IF h # t.current THEN u
      ELSE IF t.helper[h].retired THEN v
      ELSE IF t.next # None THEN NoteExit(v) ELSE ScheduleRestart(NoteExit(v))

Retire(t, h) == [Settled(t, Pending(t, h)) EXCEPT !.helper[h].retired = TRUE]

Launched(t, slot) ==
  LET h == CHOOSE x \in Helpers : x \notin Live(t)
  IN  IF slot = "current" THEN [t EXCEPT !.current = h, !.helper[h] = Fresh]
                          ELSE [t EXCEPT !.next = h, !.helper[h] = Fresh]
Start(t, spawns) ==
  IF t.disposed \/ t.gaveUp \/ t.current # None THEN t
  ELSE IF spawns THEN Launched(t, "current") ELSE ScheduleRestart(NoteExit(t))

(* drain: out of service first, then sent away once nothing is pending.    *)
DrainInService(t, h, spawns) ==  \* a slip: the helper leaves its slot only when it goes
  IF h \notin Live(t) \/ t.helper[h].retired THEN t
  ELSE Start(IF Pending(t, h) = {} THEN Retire(t, h) ELSE [t EXCEPT !.draining = @ \cup {h}], spawns)
Drain(t, h, spawns) ==
  IF h \notin Live(t) \/ t.helper[h].retired THEN t
  ELSE LET u == IF h = t.current THEN [t EXCEPT !.current = t.next, !.next = None]
                ELSE IF h = t.next THEN [t EXCEPT !.next = None] ELSE t
       IN  Start(IF Pending(t, h) = {} THEN Retire(u, h) ELSE [u EXCEPT !.draining = @ \cup {h}],
                 spawns)
DrainBoth(t, spawns) == Drain(Drain(t, t.next, spawns), t.current, spawns)

LeaveAtOnce(t, h) == t  \* a slip: a helper taken out of service is forgotten when its call ends
LeaveIfDrained(t, h) ==
  IF h \in t.draining /\ Pending(t, h) = {} THEN Retire([t EXCEPT !.draining = @ \ {h}], h) ELSE t

(* tryPromote: between calls, never under one.                             *)
PromoteUnder(t) ==  \* a slip: a call in flight does not hold the replacement back
  IF t.next = None \/ t.helper[t.next].st # "ready" THEN t
  ELSE LET u == [t EXCEPT !.current = t.next, !.next = None]
       IN  IF t.current = None THEN u ELSE [u EXCEPT !.helper[t.current].retired = TRUE]
TryPromote(t) ==
  IF t.next = None \/ t.helper[t.next].st # "ready" \/ Pending(t, t.current) # {} THEN t
  ELSE LET u == [t EXCEPT !.current = t.next, !.next = None]
       IN  IF t.current = None THEN u ELSE Retire(u, t.current)

(* usable, with maybePlanReplacement.                                      *)
Usable(t, spawns, due) ==
  IF t.disposed THEN t
  ELSE LET u == IF t.current = None /\ ~t.timer THEN Start(t, spawns) ELSE t
       IN  IF due /\ spawns /\ ~u.mismatched /\ Serving(u) # {} /\ u.next = None
           THEN Launched(u, "next") ELSE u

(* Every event that may spawn finds room for one more.                     *)
Room == Live(s) # Helpers

-----------------------------------------------------------------------------
(* permission, frontWindow, read: without a helper that is ready the call  *)
(* is answered at once.  A read settles the read before it.                *)
Ask(c, k) ==
  /\ Room /\ s.at[c] = None /\ ~s.disposed
  /\ \E spawns, due \in BOOLEAN :
       LET t == Usable(s, spawns, due)
           superseded == {d \in Calls : k = "read" /\ t.at[d] = t.current /\ t.kind[d] = "read"}
       IN  s' = IF Serving(t) = {} THEN t
                ELSE [Settled(t, superseded) EXCEPT !.at[c] = t.current, !.kind[c] = k]

(* The helper answers.  After an answer about the permission it may be     *)
(* replaced: denied and old enough, or refused for the first time.         *)
Answers(c) ==
  /\ s.at[c] # None
  /\ LET h == s.at[c]
         t == TryPromote(LeaveIfDrained(Settled(s, {c}), h))
     IN  \/ s' = t
         \/ /\ s.kind[c] = "permission" /\ ~t.gaveUp /\ Room
            /\ \E spawns \in BOOLEAN : s' = Drain(t, h, spawns)
(* It never does: killed.  Or it sends a line that cannot be read: what was*)
(* asked of it has failed.                                                 *)
Wedged(c) == s.at[c] # None /\ s' = Gone(Settled(s, {c}), s.at[c])
Unreadable(h) ==
  h \in Live(s) /\ s' = TryPromote(LeaveIfDrained(Settled(s, Pending(s, h)), h))

(* ready: the helper is told what main last asked for.                     *)
Told(t, hs) == [t EXCEPT !.helper = [h \in Helpers |-> IF h \in hs /\ @[h].st = "ready"
                                      THEN [@[h] EXCEPT !.told = TRUE] ELSE @[h]]]
NotHandedOver(h) ==  \* a slip: a helper that starts later is not told
  s.helper[h].st = "starting" /\ s' = TryPromote([s EXCEPT !.helper[h].st = "ready"])
Ready(h) ==
  /\ s.helper[h].st = "starting"
  /\ s' = TryPromote([s EXCEPT !.helper[h].st = "ready", !.helper[h].told = s.released])
Mismatch(h) ==
  /\ s.helper[h].st = "starting"
  /\ s' = Gone([s EXCEPT !.mismatched = TRUE, !.gaveUp = TRUE, !.helper[h].retired = TRUE], h)

(* A helper goes: by itself, at the end of its start's deadline, or killed *)
(* a moment after it was sent away.                                        *)
Exits(h)         == h \in Live(s) /\ s' = Gone(s, h)
StartTimesOut(h) == s.helper[h].st = "starting" /\ s' = Gone(s, h)
Killed(h)        == s.helper[h].retired /\ s' = Gone(s, h)

TimerFires ==
  /\ Room /\ s.timer
  /\ \E spawns \in BOOLEAN : s' = Start([s EXCEPT !.timer = FALSE], spawns)
(* An exit is forgotten when it is older than the window.                  *)
ExitAges == s.exits > 0 /\ ~s.gaveUp /\ s' = [s EXCEPT !.exits = @ - 1]

(* release, grant; restart and forgetGrant; a share the user stopped, said *)
(* by helper h: the others are sent away.                                  *)
Release == ~s.disposed /\ s' = Told([s EXCEPT !.released = TRUE], InService(s))
Grant ==
  /\ ~s.disposed /\ s.released
  /\ s' = [s EXCEPT !.released = FALSE,
                    !.helper = [h \in Helpers |-> IF h \in InService(s) THEN [@[h] EXCEPT !.told = FALSE]
                                                                       ELSE @[h]]]
Restart == Room /\ ~s.disposed /\ \E spawns \in BOOLEAN : s' = DrainBoth(s, spawns)
ShareStopped(h) ==
  /\ Room /\ s.helper[h].st = "ready" /\ ~s.disposed
  /\ LET t == Told(s, {o \in InService(s) \cup s.draining : o # h /\ ~s.helper[o].retired})
     IN  \E spawns \in BOOLEAN :
           LET u == IF s.next = h THEN t ELSE Drain(t, s.next, spawns)
           IN  s' = IF s.current = h THEN u ELSE Drain(u, s.current, spawns)

(* onFocusChange: the user's "try again".                                  *)
Subscribe ==
  /\ Room /\ ~s.disposed
  /\ LET t == IF s.gaveUp /\ ~s.mismatched /\ s.current = None
              THEN [s EXCEPT !.gaveUp = FALSE, !.exits = 0] ELSE s
     IN  \E spawns, due \in BOOLEAN : s' = Usable(t, spawns, due)
DisposeWaits ==  \* a slip: dispose waits for what the helpers were asked
  /\ ~s.disposed
  /\ s' = [s EXCEPT !.disposed = TRUE, !.timer = FALSE, !.current = None, !.next = None,
                    !.draining = Live(s)]
Dispose ==
  /\ ~s.disposed
  /\ s' = [Settled(s, Calls) EXCEPT
              !.disposed = TRUE, !.timer = FALSE, !.current = None, !.next = None,
              !.helper = [h \in Helpers |-> [@[h] EXCEPT !.retired = h \in Live(s)]]]

Next ==
  \/ \E c \in Calls : Answers(c) \/ Wedged(c) \/ \E k \in Kinds : Ask(c, k)
  \/ \E h \in Helpers : \/ Unreadable(h) \/ Ready(h) \/ Mismatch(h)
                        \/ Exits(h) \/ StartTimesOut(h) \/ Killed(h) \/ ShareStopped(h)
  \/ TimerFires \/ ExitAges \/ Release \/ Grant \/ Restart \/ Subscribe \/ Dispose

Spec == Init /\ [][Next]_s
(* Deadlines pass.                                                         *)
Fairness ==
  /\ \A c \in Calls : WF_s(Wedged(c))
  /\ \A h \in Helpers : WF_s(StartTimesOut(h) \/ Killed(h))
FairSpec == Spec /\ Fairness

-----------------------------------------------------------------------------
(* A helper that lives is in service, or has been sent away and is killed  *)
(* if it does not go, or holds a call whose end will send it away: none is *)
(* left behind, however restarts, promotions and answers overlap.          *)
NobodyIsLeft ==
  \A h \in Live(s) : h \in InService(s) \/ s.helper[h].retired
                     \/ (h \in s.draining /\ Pending(s, h) # {})

(* A call never waits on a helper that is gone or was told to go.          *)
CallsAreHeld == \A c \in Calls : s.at[c] # None => s.at[c] \in Live(s) /\ ~s.helper[s.at[c]].retired

(* While capture is switched off every ready helper in service knows it,   *)
(* one that started since or took over included; and the other way round.  *)
ReleaseIsKnown ==
  \A h \in InService(s) : s.helper[h].st = "ready" => s.helper[h].told = s.released

ReaderInv == TypeOK /\ NobodyIsLeft /\ CallsAreHeld /\ ReleaseIsKnown

(* A helper the client sent away itself, or takes out of service, is never *)
(* counted among the crashes that make the client give up.                 *)
OwnCuresAreFree ==
  [][\A h \in Live(s) \ Live(s)' :
       s.helper[h].retired \/ h \in s.draining => s'.exits <= s.exits]_s

(* Once it has begun, the supervision goes on: there is always a helper in *)
(* service or a restart on its way, until the client gives up or ends; and *)
(* helpers that were taken out of service or sent away do go.              *)
HasPlan(t) == t.current # None \/ t.timer
SupervisionGoesOn ==
  /\ [][HasPlan(s) /\ ~s'.gaveUp /\ ~s'.disposed => HasPlan(s')]_s
  /\ \A h \in Helpers : (h \in Live(s) /\ h \notin InService(s)) ~> h \notin Live(s)

(* The client is a reader as main knows it.                                *)
Port == INSTANCE ReaderPort WITH
          waiting <- {c \in Calls : s.at[c] # None}, disposed <- s.disposed
PortSpec == Port!Spec
=============================================================================
