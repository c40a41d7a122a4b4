---------------------------- MODULE MCInactivity ----------------------------
(***************************************************************************)
(* Instances of Inactivity with the program's own times, in units of ten   *)
(* seconds: 90 s timeout, 120 s TTL, 10 s scan interval, 12 s job timeout. *)
(***************************************************************************)
EXTENDS Inactivity, TLC

Symmetry == Permutations(Phones)

=============================================================================
