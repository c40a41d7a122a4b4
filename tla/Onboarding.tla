----------------------------- MODULE Onboarding -----------------------------
(***************************************************************************)
(* What the onboarding flow promises of a citizen's stored session,        *)
(* whatever runs it: language, then PIN code and ward, then corporator,    *)
(* then main menu, one choice at a time, no choice changed unless its step *)
(* was given up first, and a fresh start from anywhere. The flow does not  *)
(* see the directory as it is now: it lets a ward or a PIN code be given   *)
(* up at any time, which the code does when a query finds nothing.         *)
(***************************************************************************)
CONSTANTS Phones, Langs, Pins, Wards, Reps, RepPin, RepWard, LegacyWards, Nil

VARIABLE session

Served(pin, ward) == \E r \in Reps : RepPin[r] = pin /\ RepWard[r] = ward

AtStep(p, step) == session[p] # Nil /\ session[p].step = step

Put(p, s) == session' = [session EXCEPT ![p] = s]

Init == session = [p \in Phones |-> Nil]

ChooseLang(p) ==
    /\ session[p] = Nil
    /\ \E l \in Langs : Put(p, [step |-> "LangChosen", lang |-> l,
                                pin |-> Nil, ward |-> Nil, ns |-> Nil])

EnterPinAndWard(p) ==
    /\ AtStep(p, "LangChosen")
    /\ \E pin \in Pins, ward \in Wards :
          /\ Served(pin, ward)
          /\ Put(p, [session[p] EXCEPT !.pin = pin, !.ward = ward, !.step = "Nagarsevak"])

PickNagarsevak(p) ==
    /\ AtStep(p, "Nagarsevak")
    /\ \E r \in Reps : Put(p, [session[p] EXCEPT !.ns = r, !.step = "MainMenu"])

\* A query found no representative of the ward.
WardWithdrawn(p) ==
    /\ AtStep(p, "Nagarsevak")
    /\ Put(p, [session[p] EXCEPT !.step = "WardChosen"])

PickWard(p) ==
    /\ AtStep(p, "WardChosen")
    /\ \E ward \in LegacyWards :
          Put(p, [session[p] EXCEPT !.ward = ward, !.step = "Nagarsevak"])

\* A query found no ward of the PIN code. The step in between may not have been stored.
PinWithdrawn(p) ==
    /\ AtStep(p, "WardChosen") \/ AtStep(p, "Nagarsevak")
    /\ Put(p, [session[p] EXCEPT !.step = "LangChosen"])

StartOver(p) == Put(p, Nil)

Next == \E p \in Phones :
    \/ ChooseLang(p) \/ EnterPinAndWard(p) \/ PickNagarsevak(p) \/ PickWard(p)
    \/ WardWithdrawn(p) \/ PinWithdrawn(p) \/ StartOver(p)

Spec == Init /\ [][Next]_session

=============================================================================
