--------------------------- MODULE MCSessionStore ---------------------------
(* Small instances of SessionStore. *)
EXTENDS SessionStore, TLC

Symmetry == Permutations(Users) \cup Permutations(Calls)
UserSymmetry == Permutations(Users)
=============================================================================
