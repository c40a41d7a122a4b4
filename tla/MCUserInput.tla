---------------------------- MODULE MCUserInput -----------------------------
(***************************************************************************)
(* An instance of UserInput with one digit in each script, one letter, PIN *)
(* codes of two digits and two wards, one of which has a comma.            *)
(***************************************************************************)
EXTENDS UserInput, TLC

MCDevanagari == "d1" :> "1"

MCCodes == {<<"T">>, <<"T", Comma, "1">>}

=============================================================================
