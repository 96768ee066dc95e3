------------------------------ MODULE MCOutbox ------------------------------
(* Two accounts, A and B; which statements each of them produces is what a *)
(* run chooses: those of BItems are B's, the others A's.                   *)
EXTENDS Outbox

CONSTANTS A, B, BItems
Owners == [i \in Items |-> IF i \in BItems THEN B ELSE A]
=============================================================================
