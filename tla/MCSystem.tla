------------------------------ MODULE MCSystem ------------------------------
(***************************************************************************)
(* An instance of System with short times in the order of the program's:   *)
(* a scan and a job take less than the timeout, the TTL leaves room for    *)
(* a scan interval and a scan after it.                                    *)
(***************************************************************************)
EXTENDS System, TLC

CONSTANTS pinA, wardX, wardY, repX

MCSoleRepPin  == repX :> pinA
MCSoleRepWard == repX :> wardX

=============================================================================
