----------------------------- MODULE UserInput ------------------------------
(***************************************************************************)
(* How handlePin of internal/bot/handler.go reads the text with which a    *)
(* citizen gives his PIN code and his ward, and what the refusals show him *)
(* of it, its own and those of the prompts that follow: a text he is asked *)
(* to correct and to send again.                                           *)
(*                                                                         *)
(* A text is a sequence of characters.                                     *)
(***************************************************************************)
EXTENDS Naturals, Sequences, FiniteSets, FiniteSetsExt

CONSTANTS
    Digits,      \* 0 .. 9
    Devanagari,  \* the digits U+0966 .. U+096F, each with the digit it stands for
    Letters,     \* all other characters
    Codes,       \* the ward column of the directory, and the wards of old "ward_" rows
    PinLength,   \* 6
    MaxLength,   \* bound on the texts that are tried
    Nil

Comma   == ","
Space   == " "
Newline == "\n"

Blanks == {Space, Newline}

Chars == Digits \cup DOMAIN Devanagari \cup Letters \cup {Comma} \cup Blanks

Texts == UNION {[1 .. n -> Chars] : n \in 0 .. MaxLength}

ASSUME CharsAssumption ==
    /\ \A c \in DOMAIN Devanagari : Devanagari[c] \in Digits
    /\ (Digits \cup Letters) \cap (DOMAIN Devanagari \cup {Comma} \cup Blanks) = {}

\* No code is empty (WardsByPincode), and none has blanks around it.
ASSUME CodesAssumption ==
    \A code \in Codes : /\ code \in Seq(Chars) /\ code # <<>>
                        /\ {code[1], code[Len(code)]} \cap Blanks = {}

VARIABLES
    text,     \* what the citizen sends
    reading,  \* what handlePin makes of it
    before,   \* what it made of the text before
    refusal,  \* the refusal that the citizen sends back
    pc        \* "sent", "read", "resent", "reread"

vars == <<text, reading, before, refusal, pc>>

-----------------------------------------------------------------------------
(* The package strings *)

TrimSpace(s) ==
    LET solid == {i \in DOMAIN s : s[i] \notin Blanks} IN
    IF solid = {} THEN <<>> ELSE SubSeq(s, Min(solid), Max(solid))

Contains(s, c) == \E i \in DOMAIN s : s[i] = c

\* SplitN(s, c, 2): at the first c, if there is one.
SplitInTwo(s, c) ==
    LET at == {i \in DOMAIN s : s[i] = c} IN
    IF at = {} THEN <<s>>
    ELSE <<SubSeq(s, 1, Min(at) - 1), SubSeq(s, Min(at) + 1, Len(s))>>

-----------------------------------------------------------------------------
(* Reading a text *)

\* Faulty variant: only ASCII digits are digits.
NormalizePinNot(s) == TrimSpace(s)

NormalizePin(s) ==
    LET trimmed == TrimSpace(s) IN
    [i \in DOMAIN trimmed |->
        IF trimmed[i] \in DOMAIN Devanagari THEN Devanagari[trimmed[i]] ELSE trimmed[i]]

\* Faulty variant: a ward that is missing is no text.
ParseNoWard(raw) ==
    LET parts == SplitInTwo(raw, IF Contains(raw, Comma) THEN Comma ELSE Space) IN
    [pin  |-> TrimSpace(parts[1]),
     hint |-> IF Len(parts) = 2 THEN TrimSpace(parts[2]) ELSE Nil]

ParseUserInput(raw) ==
    LET parts == SplitInTwo(raw, IF Contains(raw, Comma) THEN Comma ELSE Space) IN
    [pin  |-> TrimSpace(parts[1]),
     hint |-> IF Len(parts) = 2 THEN TrimSpace(parts[2]) ELSE <<>>]

\* The PIN code and the ward to look up, and whether handlePin does so at all.
Read(body) ==
    LET input == ParseUserInput(TrimSpace(body))
        pin   == NormalizePin(input.pin) IN
    [pin |-> pin, hint |-> input.hint,
     valid |-> Len(pin) = PinLength /\ input.hint # <<>>]

-----------------------------------------------------------------------------
(* What the refusals show *)

\* Faulty variant: a blank joins PIN code and ward.
JoinedByBlank(pin, ward) == pin \o <<Space>> \o ward

Joined(pin, ward) == pin \o <<Comma>> \o ward

\* The directory has such a PIN code: it is one word.
Plain(pin) == \A i \in DOMAIN pin : pin[i] \notin Blanks

(***************************************************************************)
(* Who may refuse what was read as r. What handlePin looks up and finds    *)
(* goes on to promptNagarsevak, now or at a later message, with the code   *)
(* in the session: the one that the ward matched, or that of a ward_ row.  *)
(* From there it may go on to promptWard. handleNagarsevakReply refuses in *)
(* the words of promptNagarsevak.                                          *)
(***************************************************************************)
Refusals(r) ==
    {[by |-> "handlePin", code |-> <<>>]} \cup
    (IF r.valid /\ Plain(r.pin)
     THEN [by : {"promptNagarsevak"}, code : Codes] \cup [by : {"promptWard"}, code : {<<>>}]
     ELSE {})

\* The part of formatInvalidPinMessage's text that says what is refused.
Echo(body, r, refused) ==
    CASE refused.by = "handlePin" ->
            IF r.valid THEN Joined(r.pin, r.hint) ELSE TrimSpace(body)
      [] refused.by = "promptNagarsevak" -> Joined(r.pin, refused.code)
      [] refused.by = "promptWard"       -> r.pin

-----------------------------------------------------------------------------

TypeOK ==
    /\ text \in Seq(Chars)
    /\ {reading, before} \subseteq
          [pin : Seq(Chars), hint : Seq(Chars), valid : BOOLEAN] \cup {Nil}
    /\ refusal \in [by : {"handlePin", "promptNagarsevak", "promptWard"},
                    code : Seq(Chars)] \cup {Nil}
    /\ pc \in {"sent", "read", "resent", "reread"}

Init ==
    /\ text \in Texts
    /\ reading = Nil /\ before = Nil /\ refusal = Nil
    /\ pc = "sent"

HandlePin ==
    /\ pc \in {"sent", "resent"}
    /\ reading' = Read(text)
    /\ pc' = IF pc = "sent" THEN "read" ELSE "reread"
    /\ UNCHANGED <<text, before, refusal>>

\* The citizen sends what a refusal showed, unchanged.
SendEcho ==
    /\ pc = "read"
    /\ \E refused \in Refusals(reading) :
          refusal' = refused /\ text' = Echo(text, reading, refused)
    /\ before' = reading
    /\ pc' = "resent"
    /\ UNCHANGED reading

Next == HandlePin \/ SendEcho

Spec == Init /\ [][Next]_vars

-----------------------------------------------------------------------------
(* Properties *)

Between(s, i, j) == {s[k] : k \in i .. j}

(***************************************************************************)
(* The reference: s gives, between blanks, a PIN code in s[a..b] and a     *)
(* ward in s[c..d], set apart by one comma or by blanks with a space among *)
(* them, as in the examples at parseUserInput.                             *)
(***************************************************************************)
Gives(s, a, b, c, d) ==
    /\ 1 <= a /\ a <= b /\ b < c /\ c <= d /\ d <= Len(s)
    /\ Between(s, 1, a - 1) \cup Between(s, d + 1, Len(s)) \subseteq Blanks
    /\ Between(s, a, b) \cap (Blanks \cup {Comma}) = {}
    /\ {s[c], s[d]} \cap Blanks = {}
    /\ \/ /\ Cardinality({k \in b + 1 .. c - 1 : s[k] = Comma}) = 1
          /\ Between(s, b + 1, c - 1) \subseteq Blanks \cup {Comma}
       \/ /\ Space \in Between(s, b + 1, c - 1)
          /\ Between(s, b + 1, c - 1) \subseteq Blanks
          /\ Comma \notin Between(s, c, d)

\* s gives a PIN code in s[a..b], between blanks, and nothing else.
GivesPin(s, a, b) ==
    /\ 1 <= a /\ a <= b /\ b <= Len(s)
    /\ Between(s, 1, a - 1) \cup Between(s, b + 1, Len(s)) \subseteq Blanks
    /\ Between(s, a, b) \cap (Blanks \cup {Comma}) = {}

InAscii(s) == [i \in DOMAIN s |-> IF s[i] \in DOMAIN Devanagari THEN Devanagari[s[i]] ELSE s[i]]

(***************************************************************************)
(* Every text in one of the documented forms (a PIN code alone or followed *)
(* by a ward: "400601", "400601, TES1", "400601,TES1" and "400601 TES1",   *)
(* handler.go), with stray blanks and in either script, is read as the PIN *)
(* code and the ward it gives; both have to be there to be looked up.      *)
(***************************************************************************)
DocumentedFormsAreRead ==
    pc = "read" =>
       \A a, b \in DOMAIN text :
          /\ GivesPin(text, a, b) =>
                reading = [pin |-> InAscii(SubSeq(text, a, b)), hint |-> <<>>, valid |-> FALSE]
          /\ \A c, d \in DOMAIN text :
                Gives(text, a, b, c, d) =>
                   /\ reading.pin = InAscii(SubSeq(text, a, b))
                   /\ reading.hint = SubSeq(text, c, d)
                   /\ reading.valid = (b - a + 1 = PinLength)

(***************************************************************************)
(* "Please re-enter": what a refusal shows, sent once more, is read as     *)
(* what the bot refused. For handlePin that is the citizen's own input;    *)
(* for promptNagarsevak his PIN code with the code of the ward, never one  *)
(* running into the other; promptWard's gives the PIN code alone, so that  *)
(* it cannot succeed before a ward is added (handler.go:288, :293).        *)
(***************************************************************************)
EchoReadsBack ==
    pc = "reread" =>
       reading = CASE refusal.by = "handlePin"        -> before
                   [] refusal.by = "promptNagarsevak" -> [before EXCEPT !.hint = refusal.code]
                   [] refusal.by = "promptWard" ->
                         [pin |-> before.pin, hint |-> <<>>, valid |-> FALSE]

=============================================================================
