--------------------------- MODULE MCConversation ---------------------------
(***************************************************************************)
(* Small instances of Conversation. The directory has one PIN code with    *)
(* two wards, one representative each, and a PIN code nobody serves; or    *)
(* two PIN codes with a ward each, which the citizen may mix up; or a      *)
(* single representative, for the runs with racing workers.                *)
(***************************************************************************)
EXTENDS Conversation, TLC

CONSTANTS pinA, pinB, wardX, wardY, repX, repY

MCRepPin  == (repX :> pinA) @@ (repY :> pinA)
MCRepWard == (repX :> wardX) @@ (repY :> wardY)

MCTwoPinsRepPin == (repX :> pinA) @@ (repY :> pinB)

MCSoleRepPin  == repX :> pinA
MCSoleRepWard == repX :> wardX

Symmetry == Permutations(Workers)

=============================================================================
