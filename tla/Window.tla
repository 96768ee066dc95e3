------------------------------- MODULE Window ------------------------------
(***************************************************************************)
(* The window: setting the app up (Setup), then the daily review (Review). *)
(* Bound: the first statement is written once the app is set up, all is at *)
(* rest and MaxTroubles things have gone wrong; what setting up does while *)
(* statements wait is Outbox's.                                            *)
(***************************************************************************)
EXTENDS Setup, Review

AtRest == SetUp /\ granted /\ saves = <<>> /\ ~asking /\ ~testing /\ ~OwnerPending /\ settings.seen = shown /\ busy = "no" /\ ~removing /\ ~disturbed
WindowInit == SetupInit /\ ReviewInit
WindowNext ==
  \/ SetupNext /\ UNCHANGED review
  \/ AtRest /\ troubles = MaxTroubles /\ ReviewNext /\ UNCHANGED all
windowVars == <<all, review>>
WindowSpec == WindowInit /\ [][WindowNext]_windowVars
FairWindow == WindowSpec /\ SetupFairness

(* The window's state is well typed, and the review shows as much as it may*)
(* (ListIsFull), however the app was set up.                               *)
WindowInv == TypeOK /\ ReviewTypeOK /\ ListIsFull
=============================================================================
