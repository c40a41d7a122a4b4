----------------------------- MODULE MCOutbound -----------------------------
(***************************************************************************)
(* An instance of Outbound with the times of the program in units of two   *)
(* seconds, rounded up, and two of the three buttons.                      *)
(***************************************************************************)
EXTENDS Outbound

MCBackoff == <<1, 1, 1>>

=============================================================================
