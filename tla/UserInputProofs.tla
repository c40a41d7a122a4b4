--------------------------- MODULE UserInputProofs ---------------------------
(***************************************************************************)
(* What is proved of UserInput, for texts and PIN codes of every length.   *)
(* Min, Max and the package strings come first: what they return is said   *)
(* by positions, as the reference Gives says it.                           *)
(***************************************************************************)
EXTENDS UserInput, SequenceTheorems, FiniteSetTheorems, TLAPS

(***************************************************************************)
(* A set of numbers has a least one: that of the smallest interval.        *)
(***************************************************************************)
LEMMA Least ==
    ASSUME NEW S, S \subseteq Nat, S # {}
    PROVE  Min(S) \in S /\ \A y \in S : Min(S) <= y
<1> DEFINE T == {0 .. n : n \in S}
<1>1. T \subseteq FiniteSubsetsOf(Nat) /\ T # {}
  <2>1. ASSUME NEW n \in S PROVE 0 .. n \in FiniteSubsetsOf(Nat)
    <3>1. n \in Int /\ 0 .. n \subseteq Nat
      OBVIOUS
    <3> QED
      BY <3>1, FS_Interval DEF FiniteSubsetsOf
  <2> QED
    BY <2>1
<1>2. PICK U \in T : \A V \in T : ~(<<V, U>> \in StrictSubsetOrdering(Nat))
  <2> HIDE DEF T
  <2> QED
    BY <1>1, FS_StrictSubsetOrderingWellFounded, WFMin
<1>3. PICK x \in S : U = 0 .. x
  BY <1>2
<1>4. ASSUME NEW y \in S, y < x PROVE FALSE
  <2>1. x \in Nat /\ y \in Nat
    OBVIOUS
  <2>2. 0 .. y \in SUBSET Nat /\ 0 .. x \in SUBSET Nat /\ 0 .. y \subseteq 0 .. x
    BY <1>4, <2>1
  <2>3. x \in 0 .. x /\ x \notin 0 .. y
    BY <1>4, <2>1
  <2>4. <<0 .. y, 0 .. x>> \in StrictSubsetOrdering(Nat)
    BY <2>2, <2>3 DEF StrictSubsetOrdering
  <2>5. 0 .. y \in T
    OBVIOUS
  <2> QED
    BY <1>2, <1>3, <2>4, <2>5
<1>5. \A y \in S : x <= y
  BY <1>4
<1> QED
  BY <1>5 DEF Min

LEMMA Greatest ==
    ASSUME NEW n \in Nat, NEW S, S \subseteq 0 .. n, S # {}
    PROVE  Max(S) \in S /\ \A y \in S : Max(S) >= y
<1> DEFINE T == {z \in Nat : n - z \in S}
<1>1. T \subseteq Nat /\ T # {}
  <2>1. PICK y \in S : TRUE
    OBVIOUS
  <2>2. n - y \in Nat /\ n - (n - y) = y
    BY <2>1
  <2> QED
    BY <2>2
<1>2. Min(T) \in T /\ \A z \in T : Min(T) <= z
  <2> HIDE DEF T
  <2> QED
    BY <1>1, Least
<1>3. PICK x \in S : x = n - Min(T)
  BY <1>2
<1>4. ASSUME NEW y \in S PROVE x >= y
  <2>1. n - y \in Nat /\ n - (n - y) = y
    OBVIOUS
  <2>2. n - y \in T
    BY <2>1
  <2>3. Min(T) \in Nat /\ Min(T) <= n - y
    BY <1>2, <2>2
  <2> HIDE DEF T
  <2> QED
    BY <1>3, <2>3
<1> QED
  BY <1>4 DEF Max

-----------------------------------------------------------------------------
(* TrimSpace and SplitN *)

\* A part of a text, by the positions it has there.
LEMMA PartIs ==
    ASSUME NEW s \in Seq(Chars), NEW i \in 1 .. Len(s), NEW j \in i .. Len(s)
    PROVE  /\ SubSeq(s, i, j) \in Seq(Chars) /\ SubSeq(s, i, j) # <<>>
           /\ Len(SubSeq(s, i, j)) = j - i + 1
           /\ \A k \in 1 .. j - i + 1 : SubSeq(s, i, j)[k] = s[i + k - 1]
<1> DEFINE t == SubSeq(s, i, j)
<1>1. Len(s) \in Nat /\ i \in Int /\ j \in Int /\ i <= j
  OBVIOUS
<1>2. \A k \in i .. j : s[k] \in Chars
  <2>1. \A k \in i .. j : k \in 1 .. Len(s)
    BY <1>1
  <2> QED
    BY <2>1, ElementOfSeq
<1>3. /\ t \in Seq(Chars)
      /\ Len(t) = IF i <= j THEN j - i + 1 ELSE 0
      /\ \A k \in 1 .. j - i + 1 : t[k] = s[i + k - 1]
  BY <1>1, <1>2, SubSeqProperties
<1> HIDE DEF t
<1>4. Len(t) = j - i + 1 /\ Len(t) # 0
  BY <1>1, <1>3
<1>5. t # <<>>
  BY <1>4, EmptySeq
<1> QED
  BY <1>3, <1>4, <1>5 DEF t

LEMMA TrimIs ==
    ASSUME NEW s \in Seq(Chars), NEW i \in DOMAIN s, NEW j \in DOMAIN s,
           s[i] \notin Blanks, s[j] \notin Blanks,
           \A k \in DOMAIN s : s[k] \notin Blanks => i <= k /\ k <= j
    PROVE  TrimSpace(s) = SubSeq(s, i, j)
<1> DEFINE solid == {k \in DOMAIN s : s[k] \notin Blanks}
<1>1. /\ solid \subseteq 0 .. Len(s) /\ solid \subseteq Nat /\ Len(s) \in Nat
      /\ i \in solid /\ j \in solid
  OBVIOUS
<1>2. \A k \in solid : i <= k /\ k <= j
  OBVIOUS
<1> HIDE DEF solid
<1>3. Min(solid) \in solid /\ Min(solid) <= i
  BY <1>1, Least
<1>4. Max(solid) \in solid /\ Max(solid) >= j
  BY <1>1, Greatest
<1>5. Min(solid) = i /\ Max(solid) = j
  <2>1. i <= Min(solid) /\ Max(solid) <= j
    BY <1>2, <1>3, <1>4
  <2>2. {i, j, Min(solid), Max(solid)} \subseteq Nat
    BY <1>1, <1>3, <1>4
  <2> QED
    BY <1>3, <1>4, <2>1, <2>2
<1> QED
  BY <1>1, <1>5 DEF TrimSpace, solid

LEMMA TrimEnds ==
    ASSUME NEW s \in Seq(Chars)
    PROVE  \/ TrimSpace(s) = <<>>
           \/ \E i, j \in DOMAIN s :
                 /\ i <= j /\ s[i] \notin Blanks /\ s[j] \notin Blanks
                 /\ TrimSpace(s) = SubSeq(s, i, j)
<1> DEFINE solid == {k \in DOMAIN s : s[k] \notin Blanks}
<1>1. solid \subseteq 0 .. Len(s) /\ solid \subseteq Nat /\ Len(s) \in Nat
  OBVIOUS
<1>2. CASE solid = {}
  BY <1>2 DEF TrimSpace
<1>3. CASE solid # {}
  <2> HIDE DEF solid
  <2>1. Min(solid) \in solid /\ \A k \in solid : Min(solid) <= k
    BY <1>1, <1>3, Least
  <2>2. Max(solid) \in solid
    BY <1>1, <1>3, Greatest
  <2>3. TrimSpace(s) = SubSeq(s, Min(solid), Max(solid))
    BY <1>3 DEF TrimSpace, solid
  <2>4. Min(solid) <= Max(solid)
    BY <2>1, <2>2
  <2>5. \A k \in solid : k \in DOMAIN s /\ s[k] \notin Blanks
    BY DEF solid
  <2> QED
    BY <2>1, <2>2, <2>3, <2>4, <2>5
<1> QED
  BY <1>2, <1>3

Trimmed(t) == t \in Seq(Chars) /\ (t = <<>> \/ (t[1] \notin Blanks /\ t[Len(t)] \notin Blanks))

LEMMA TrimTrims ==
    ASSUME NEW s \in Seq(Chars)
    PROVE  Trimmed(TrimSpace(s)) /\ \A c : ~Contains(s, c) => ~Contains(TrimSpace(s), c)
<1>1. CASE TrimSpace(s) = <<>>
  BY <1>1 DEF Trimmed, Contains
<1>2. CASE \E i, j \in DOMAIN s :
                 /\ i <= j /\ s[i] \notin Blanks /\ s[j] \notin Blanks
                 /\ TrimSpace(s) = SubSeq(s, i, j)
  <2>1. PICK i, j \in DOMAIN s :
                 /\ i <= j /\ s[i] \notin Blanks /\ s[j] \notin Blanks
                 /\ TrimSpace(s) = SubSeq(s, i, j)
    BY <1>2
  <2> DEFINE t == SubSeq(s, i, j)
  <2>2. i \in 1 .. Len(s) /\ j \in 1 .. Len(s) /\ Len(s) \in Nat
    OBVIOUS
  <2>3. j \in i .. Len(s)
    BY <2>1, <2>2
  <2>4. t \in Seq(Chars) /\ Len(t) = j - i + 1 /\ \A k \in 1 .. j - i + 1 : t[k] = s[i + k - 1]
    BY <2>2, <2>3, PartIs
  <2> HIDE DEF t
  <2>5. t[1] = s[i] /\ t[Len(t)] = s[j]
    <3>1. /\ 1 \in 1 .. j - i + 1 /\ j - i + 1 \in 1 .. j - i + 1
          /\ i + 1 - 1 = i /\ i + (j - i + 1) - 1 = j
      BY <2>1, <2>2
    <3>2. t[1] = s[i + 1 - 1] /\ t[j - i + 1] = s[i + (j - i + 1) - 1]
      BY <2>4, <3>1
    <3> QED
      BY <2>4, <3>1, <3>2
  <2>6. \A c : ~Contains(s, c) => ~Contains(t, c)
    <3>1. \A k \in DOMAIN t : k \in 1 .. j - i + 1
      BY <2>2, <2>4
    <3>2. \A k \in DOMAIN t : i + k - 1 \in DOMAIN s /\ t[k] = s[i + k - 1]
      BY <2>2, <2>4, <3>1
    <3> QED
      BY <3>2 DEF Contains
  <2> QED
    BY <2>1, <2>4, <2>5, <2>6 DEF Trimmed, t
<1> QED
  BY <1>1, <1>2, TrimEnds

LEMMA TrimOfTrimmed == ASSUME NEW t, Trimmed(t) PROVE TrimSpace(t) = t
<1>0. t \in Seq(Chars)
  BY DEF Trimmed
<1>1. CASE t = <<>>
  BY <1>1 DEF TrimSpace
<1>2. CASE t # <<>>
  <2>1. /\ Len(t) \in Nat /\ 1 \in DOMAIN t /\ Len(t) \in DOMAIN t
        /\ t[1] \notin Blanks /\ t[Len(t)] \notin Blanks
    BY <1>0, <1>2, EmptySeq, LenProperties DEF Trimmed
  <2>2. \A k \in DOMAIN t : 1 <= k /\ k <= Len(t)
    BY <1>0
  <2>3. TrimSpace(t) = SubSeq(t, 1, Len(t))
    BY <1>0, <2>1, <2>2, TrimIs
  <2> QED
    BY <1>0, <2>3, SubSeqFull
<1> QED
  BY <1>1, <1>2

LEMMA SplitAt ==
    ASSUME NEW s \in Seq(Chars), NEW c, NEW k \in DOMAIN s,
           s[k] = c, \A m \in DOMAIN s : m < k => s[m] # c
    PROVE  SplitInTwo(s, c) = <<SubSeq(s, 1, k - 1), SubSeq(s, k + 1, Len(s))>>
<1> DEFINE at == {i \in DOMAIN s : s[i] = c}
<1>1. at \subseteq Nat /\ k \in at /\ \A m \in at : m >= k
  OBVIOUS
<1> HIDE DEF at
<1>2. Min(at) \in at /\ Min(at) <= k
  BY <1>1, Least
<1>3. Min(at) = k /\ at # {}
  <2>1. k <= Min(at) /\ {k, Min(at)} \subseteq Nat
    BY <1>1, <1>2
  <2> QED
    BY <1>1, <1>2, <2>1
<1>4. SplitInTwo(s, c) = IF at = {} THEN <<s>>
                         ELSE <<SubSeq(s, 1, Min(at) - 1), SubSeq(s, Min(at) + 1, Len(s))>>
  BY DEF SplitInTwo, at
<1> QED
  BY <1>3, <1>4

LEMMA SplitAtNone ==
    ASSUME NEW s, NEW c, ~Contains(s, c) PROVE SplitInTwo(s, c) = <<s>>
  BY DEF SplitInTwo, Contains

LEMMA SplitParts ==
    ASSUME NEW s \in Seq(Chars), NEW c
    PROVE  \/ SplitInTwo(s, c) = <<s>> /\ ~Contains(s, c)
           \/ \E u, v \in Seq(Chars) :
                 /\ SplitInTwo(s, c) = <<u, v>>
                 /\ ~Contains(u, c) /\ \A x : ~Contains(s, x) => ~Contains(u, x)
<1> DEFINE at == {i \in DOMAIN s : s[i] = c}
<1>1. CASE at = {}
  BY <1>1 DEF SplitInTwo, Contains
<1>2. CASE at # {}
  <2>1. at \subseteq Nat
    OBVIOUS
  <2> HIDE DEF at
  <2>2. Min(at) \in at /\ \A m \in at : Min(at) <= m
    BY <1>2, <2>1, Least
  <2> DEFINE k == Min(at)
             u == SubSeq(s, 1, k - 1)
             v == SubSeq(s, k + 1, Len(s))
  <2>3. SplitInTwo(s, c) = <<u, v>>
    BY <1>2 DEF SplitInTwo, at
  <2> HIDE DEF k
  <2>4. k \in DOMAIN s /\ \A m \in DOMAIN s : m < k => s[m] # c
    <3>1. \A m \in at : m \in DOMAIN s /\ k <= m
      BY <2>2 DEF at, k
    <3>2. k \in at
      BY <2>2 DEF k
    <3>3. k \in Nat
      BY <2>1, <3>2
    <3>4. ASSUME NEW m \in DOMAIN s, m < k, s[m] = c PROVE FALSE
      <4>1. m \in at
        BY <3>4 DEF at
      <4> QED
        BY <3>1, <3>3, <3>4, <4>1
    <3> QED
      BY <3>1, <3>2, <3>4
  <2>9. /\ k \in Nat /\ 1 <= k /\ k <= Len(s) /\ Len(s) \in Nat
        /\ \A m \in 1 .. k - 1 : m \in DOMAIN s /\ s[m] # c
    BY <2>4
  <2>5. \A i \in 1 .. Len(s) : s[i] \in Chars
    BY ElementOfSeq
  <2>6. u \in Seq(Chars) /\ Len(u) = k - 1 /\ \A i \in 1 .. k - 1 : u[i] = s[i]
    <3>1. 1 \in Int /\ k - 1 \in Int /\ \A i \in 1 .. k - 1 : s[i] \in Chars
      BY <2>9, <2>5
    <3>2. /\ u \in Seq(Chars)
          /\ Len(u) = IF 1 <= k - 1 THEN k - 1 - 1 + 1 ELSE 0
          /\ \A i \in 1 .. k - 1 - 1 + 1 : u[i] = s[1 + i - 1]
      BY <3>1, SubSeqProperties
    <3> HIDE DEF u
    <3> QED
      BY <2>9, <3>2
  <2>7. v \in Seq(Chars)
    <3>1. k + 1 \in Int /\ Len(s) \in Int /\ \A i \in k + 1 .. Len(s) : s[i] \in Chars
      BY <2>9, <2>5
    <3> QED
      BY <3>1, SubSeqProperties
  <2>8. ~Contains(u, c) /\ \A x : ~Contains(s, x) => ~Contains(u, x)
    <3> HIDE DEF u
    <3>1. \A i \in DOMAIN u : i \in 1 .. k - 1 /\ i \in DOMAIN s /\ u[i] = s[i]
      BY <2>9, <2>6
    <3> QED
      BY <2>9, <3>1 DEF Contains
  <2> QED
    BY <2>3, <2>6, <2>7, <2>8
<1> QED
  BY <1>1, <1>2

-----------------------------------------------------------------------------
(* Reading *)

LEMMA InAsciiText ==
    ASSUME NEW t \in Seq(Chars)
    PROVE  /\ InAscii(t) \in Seq(Chars) /\ Len(InAscii(t)) = Len(t)
           /\ DOMAIN InAscii(t) = DOMAIN t
           /\ \A i \in DOMAIN t : InAscii(t)[i] =
                 IF t[i] \in DOMAIN Devanagari THEN Devanagari[t[i]] ELSE t[i]
<1>1. DOMAIN t = 1 .. Len(t) /\ Len(t) \in Nat /\ \A i \in DOMAIN t : t[i] \in Chars
  BY LenProperties, ElementOfSeq
<1>2. \A i \in DOMAIN t :
         (IF t[i] \in DOMAIN Devanagari THEN Devanagari[t[i]] ELSE t[i]) \in Chars
  BY <1>1, CharsAssumption DEF Chars
<1>3. InAscii(t) \in [1 .. Len(t) -> Chars]
  BY <1>1, <1>2 DEF InAscii
<1>4. InAscii(t) \in Seq(Chars)
  BY <1>1, <1>3
<1>5. DOMAIN InAscii(t) = 1 .. Len(t)
  BY <1>3
<1>6. Len(InAscii(t)) = Len(t)
  BY <1>1, <1>4, <1>5, LenProperties
<1> QED
  BY <1>1, <1>4, <1>5, <1>6 DEF InAscii

LEMMA NormalizeTrimmed == ASSUME NEW t, Trimmed(t) PROVE NormalizePin(t) = InAscii(t)
  BY TrimOfTrimmed DEF NormalizePin, InAscii

\* Normalizing twice changes nothing: a digit of one script is none of the other.
LEMMA AsciiStays ==
    ASSUME NEW t, Trimmed(t)
    PROVE  /\ Trimmed(InAscii(t)) /\ InAscii(InAscii(t)) = InAscii(t)
           /\ ~Contains(t, Comma) => ~Contains(InAscii(t), Comma)
<1> DEFINE u == InAscii(t)
<1>0. t \in Seq(Chars)
  BY DEF Trimmed
<1>1. /\ u \in Seq(Chars) /\ Len(u) = Len(t) /\ DOMAIN u = DOMAIN t
      /\ \A i \in DOMAIN t : u[i] = IF t[i] \in DOMAIN Devanagari THEN Devanagari[t[i]] ELSE t[i]
  BY <1>0, InAsciiText
<1>2. /\ InAscii(u) \in Seq(Chars) /\ Len(InAscii(u)) = Len(u)
      /\ \A i \in DOMAIN u : InAscii(u)[i] =
            IF u[i] \in DOMAIN Devanagari THEN Devanagari[u[i]] ELSE u[i]
  BY <1>1, InAsciiText
<1> HIDE DEF u
<1>3. \A i \in DOMAIN u : u[i] \notin DOMAIN Devanagari
  BY <1>1, CharsAssumption
<1>4. \A i \in DOMAIN u : /\ t[i] \notin Blanks => u[i] \notin Blanks
                          /\ t[i] # Comma => u[i] # Comma
  BY <1>1, CharsAssumption
<1>5. InAscii(u) = u
  <2>1. \A i \in 1 .. Len(u) : InAscii(u)[i] = u[i]
    BY <1>1, <1>2, <1>3, LenProperties
  <2> QED
    BY <1>1, <1>2, <2>1, SeqEqual
<1>6. Trimmed(u)
  <2>1. CASE t = <<>>
    BY <1>1, <2>1, EmptySeq DEF Trimmed
  <2>2. CASE t # <<>>
    <3>1. 1 \in DOMAIN u /\ Len(u) \in DOMAIN u
      BY <1>0, <1>1, <2>2, EmptySeq, LenProperties
    <3> QED
      BY <1>1, <1>4, <2>2, <3>1 DEF Trimmed
  <2> QED
    BY <2>1, <2>2
<1>7. ~Contains(t, Comma) => ~Contains(u, Comma)
  BY <1>1, <1>4 DEF Contains
<1> QED
  BY <1>5, <1>6, <1>7 DEF u

Separator(s) == IF Contains(s, Comma) THEN Comma ELSE Space

\* What is read of a text, from the two parts the separator leaves of it.
LEMMA ReadParts ==
    ASSUME NEW body, NEW u \in Seq(Chars), NEW v \in Seq(Chars),
           SplitInTwo(TrimSpace(body), Separator(TrimSpace(body))) = <<u, v>>
    PROVE  Read(body) = [pin   |-> InAscii(TrimSpace(u)), hint |-> TrimSpace(v),
                         valid |-> Len(TrimSpace(u)) = PinLength /\ TrimSpace(v) # <<>>]
<1>1. ParseUserInput(TrimSpace(body)) = [pin |-> TrimSpace(u), hint |-> TrimSpace(v)]
  BY DEF ParseUserInput, Separator
<1>2. Trimmed(TrimSpace(u))
  BY TrimTrims
<1>3. /\ NormalizePin(TrimSpace(u)) = InAscii(TrimSpace(u))
      /\ Len(InAscii(TrimSpace(u))) = Len(TrimSpace(u))
  BY <1>2, NormalizeTrimmed, InAsciiText DEF Trimmed
<1> QED
  BY <1>1, <1>3 DEF Read

LEMMA ReadAlone ==
    ASSUME NEW body, NEW u \in Seq(Chars),
           SplitInTwo(TrimSpace(body), Separator(TrimSpace(body))) = <<u>>
    PROVE  Read(body) = [pin |-> InAscii(TrimSpace(u)), hint |-> <<>>, valid |-> FALSE]
<1>1. ParseUserInput(TrimSpace(body)) = [pin |-> TrimSpace(u), hint |-> <<>>]
  BY DEF ParseUserInput, Separator
<1>2. Trimmed(TrimSpace(u))
  BY TrimTrims
<1>3. NormalizePin(TrimSpace(u)) = InAscii(TrimSpace(u))
  BY <1>2, NormalizeTrimmed
<1>4. Read(body) = [pin |-> InAscii(TrimSpace(u)), hint |-> <<>>,
                    valid |-> Len(InAscii(TrimSpace(u))) = PinLength /\ <<>> # <<>>]
  BY <1>1, <1>3 DEF Read
<1> QED
  BY <1>4

\* Every reading: a PIN code that is in ASCII already, and a ward, both without
\* blanks around them, and no comma in the PIN code.
GoodReading(r) ==
    /\ r \in [pin : Seq(Chars), hint : Seq(Chars), valid : BOOLEAN]
    /\ Trimmed(r.pin) /\ InAscii(r.pin) = r.pin /\ Trimmed(r.hint)
    /\ r.valid = (Len(r.pin) = PinLength /\ r.hint # <<>>)
    /\ ~Contains(r.pin, Comma)

LEMMA GoodParts ==
    ASSUME NEW t, NEW hint, NEW valid, Trimmed(t), Trimmed(hint), ~Contains(t, Comma),
           valid = (Len(t) = PinLength /\ hint # <<>>)
    PROVE  GoodReading([pin |-> InAscii(t), hint |-> hint, valid |-> valid])
<1> DEFINE r == [pin |-> InAscii(t), hint |-> hint, valid |-> valid]
<1>1. /\ Trimmed(r.pin) /\ InAscii(r.pin) = r.pin /\ ~Contains(r.pin, Comma)
  BY AsciiStays
<1>2. Trimmed(r.hint) /\ r.pin \in Seq(Chars) /\ r.hint \in Seq(Chars)
  BY <1>1 DEF Trimmed
<1>3. Len(InAscii(t)) = Len(t)
  BY InAsciiText DEF Trimmed
<1>4. r.valid = (Len(r.pin) = PinLength /\ r.hint # <<>>)
  BY <1>3
<1>5. r.valid \in BOOLEAN
  OBVIOUS
<1>6. r \in [pin : Seq(Chars), hint : Seq(Chars), valid : BOOLEAN]
  BY <1>2, <1>5
<1> HIDE DEF r
<1>7. GoodReading(r)
  BY <1>1, <1>2, <1>4, <1>6 DEF GoodReading
<1> QED
  BY <1>7 DEF r

LEMMA ReadGood == ASSUME NEW body \in Seq(Chars) PROVE GoodReading(Read(body))
<1> DEFINE s == TrimSpace(body)
<1>1. s \in Seq(Chars)
  BY TrimTrims DEF Trimmed
<1> HIDE DEF s
<1>2. \/ SplitInTwo(s, Separator(s)) = <<s>> /\ ~Contains(s, Separator(s))
      \/ \E u, v \in Seq(Chars) :
            /\ SplitInTwo(s, Separator(s)) = <<u, v>>
            /\ ~Contains(u, Separator(s)) /\ \A x : ~Contains(s, x) => ~Contains(u, x)
  BY <1>1, SplitParts
<1>3. CASE SplitInTwo(s, Separator(s)) = <<s>> /\ ~Contains(s, Separator(s))
  <2>1. Read(body) = [pin |-> InAscii(TrimSpace(s)), hint |-> <<>>, valid |-> FALSE]
    BY <1>1, <1>3, ReadAlone DEF s
  <2>2. Trimmed(TrimSpace(s)) /\ ~Contains(TrimSpace(s), Comma)
    BY <1>1, <1>3, TrimTrims DEF Separator
  <2>3. Trimmed(<<>>)
    BY EmptySeq DEF Trimmed
  <2> QED
    BY <2>1, <2>2, <2>3, GoodParts
<1>4. ASSUME NEW u \in Seq(Chars), NEW v \in Seq(Chars),
             SplitInTwo(s, Separator(s)) = <<u, v>>,
             ~Contains(u, Separator(s)), \A x : ~Contains(s, x) => ~Contains(u, x)
      PROVE  GoodReading(Read(body))
  <2>1. Read(body) = [pin   |-> InAscii(TrimSpace(u)), hint |-> TrimSpace(v),
                      valid |-> Len(TrimSpace(u)) = PinLength /\ TrimSpace(v) # <<>>]
    BY <1>4, ReadParts DEF s
  <2>2. ~Contains(u, Comma)
    BY <1>4 DEF Separator
  <2>3. Trimmed(TrimSpace(u)) /\ Trimmed(TrimSpace(v)) /\ ~Contains(TrimSpace(u), Comma)
    BY <2>2, TrimTrims
  <2> QED
    BY <2>1, <2>3, GoodParts
<1> QED
  BY <1>2, <1>3, <1>4

-----------------------------------------------------------------------------
(* The documented forms *)

\* A part of a part, by its positions in the whole.
LEMMA PartOfPart ==
    ASSUME NEW s \in Seq(Chars), NEW lo \in 1 .. Len(s), NEW hi \in 1 .. Len(s),
           NEW i \in lo .. hi, NEW j \in lo .. hi
    PROVE  SubSeq(SubSeq(s, lo, hi), i - lo + 1, j - lo + 1) = SubSeq(s, i, j)
<1> DEFINE m == i - lo + 1
           n == j - lo + 1
<1>1. m \in 1 .. hi - lo + 1 /\ n \in 1 .. hi - lo + 1 /\ lo + m - 1 = i /\ lo + n - 1 = j
  OBVIOUS
<1>2. SubSeq(SubSeq(s, lo, hi), m, n) = SubSeq(s, lo + m - 1, lo + n - 1)
  <2> HIDE DEF m, n
  <2> QED
    BY <1>1, SubSeqOfSubSeq
<1> QED
  BY <1>1, <1>2

LEMMA TrimPart ==
    ASSUME NEW s \in Seq(Chars),
           NEW lo \in 1 .. Len(s), NEW hi \in 1 .. Len(s), NEW i \in lo .. hi, NEW j \in i .. hi,
           s[i] \notin Blanks, s[j] \notin Blanks,
           \A k \in lo .. hi : s[k] \notin Blanks => i <= k /\ k <= j
    PROVE  TrimSpace(SubSeq(s, lo, hi)) = SubSeq(s, i, j)
<1> DEFINE u == SubSeq(s, lo, hi)
           m == i - lo + 1
           n == j - lo + 1
<1>1. Len(s) \in Nat /\ {lo, hi, i, j} \subseteq Nat /\ lo <= i /\ i <= j /\ j <= hi /\ hi <= Len(s)
  OBVIOUS
<1>2. hi \in lo .. Len(s)
  BY <1>1
<1>3. u \in Seq(Chars) /\ Len(u) = hi - lo + 1 /\ \A k \in 1 .. hi - lo + 1 : u[k] = s[lo + k - 1]
  BY <1>2, PartIs
<1>4. SubSeq(u, m, n) = SubSeq(s, i, j)
  <2>1. i \in lo .. hi /\ j \in lo .. hi
    BY <1>1
  <2> QED
    BY <2>1, PartOfPart
<1>5. m \in DOMAIN u /\ n \in DOMAIN u /\ u[m] = s[i] /\ u[n] = s[j]
  <2>1. /\ m \in 1 .. hi - lo + 1 /\ lo + m - 1 = i
        /\ n \in 1 .. hi - lo + 1 /\ lo + n - 1 = j
    BY <1>1
  <2> HIDE DEF u, m, n
  <2>2. DOMAIN u = 1 .. hi - lo + 1
    BY <1>3, LenProperties
  <2> QED
    BY <1>3, <2>1, <2>2
<1>6. ASSUME NEW k \in DOMAIN u, u[k] \notin Blanks PROVE m <= k /\ k <= n
  <2> HIDE DEF u
  <2>0. k \in 1 .. hi - lo + 1
    BY <1>3, LenProperties
  <2>1. k \in Nat /\ lo + k - 1 \in lo .. hi /\ u[k] = s[lo + k - 1]
    BY <1>1, <1>3, <2>0
  <2>2. i <= lo + k - 1 /\ lo + k - 1 <= j
    BY <1>6, <2>1
  <2> QED
    BY <1>1, <2>1, <2>2
<1>7. TrimSpace(u) = SubSeq(u, m, n)
  <2> HIDE DEF u, m, n
  <2> QED
    BY <1>3, <1>5, <1>6, TrimIs
<1> QED
  BY <1>4, <1>7

\* Its two uses: only the blanks behind, only those in front.
LEMMA TrimBehind ==
    ASSUME NEW s \in Seq(Chars),
           NEW lo \in 1 .. Len(s), NEW hi \in 1 .. Len(s), NEW j \in lo .. hi,
           s[lo] \notin Blanks, s[j] \notin Blanks, \A k \in j + 1 .. hi : s[k] \in Blanks
    PROVE  TrimSpace(SubSeq(s, lo, hi)) = SubSeq(s, lo, j)
<1>1. lo \in lo .. hi /\ j \in lo .. hi
  OBVIOUS
<1>2. \A k \in lo .. hi : s[k] \notin Blanks => lo <= k /\ k <= j
  <2>1. \A k \in lo .. hi : lo <= k /\ (k <= j \/ k \in j + 1 .. hi)
    OBVIOUS
  <2> QED
    BY <2>1
<1> QED
  BY <1>1, <1>2, TrimPart

LEMMA TrimInFront ==
    ASSUME NEW s \in Seq(Chars),
           NEW lo \in 1 .. Len(s), NEW hi \in 1 .. Len(s), NEW i \in lo .. hi,
           s[i] \notin Blanks, s[hi] \notin Blanks, \A k \in lo .. i - 1 : s[k] \in Blanks
    PROVE  TrimSpace(SubSeq(s, lo, hi)) = SubSeq(s, i, hi)
<1>1. i \in lo .. hi /\ hi \in i .. hi
  OBVIOUS
<1>2. \A k \in lo .. hi : s[k] \notin Blanks => i <= k /\ k <= hi
  <2>1. \A k \in lo .. hi : k <= hi /\ (i <= k \/ k \in lo .. i - 1)
    OBVIOUS
  <2> QED
    BY <2>1
<1> QED
  BY <1>1, <1>2, TrimPart

\* Gives, in other words: of the characters between a and d, one sets PIN code
\* and ward apart, the first of its kind, with nothing but blanks around it.
LEMMA GivesSeparator ==
    ASSUME NEW s \in Seq(Chars), NEW a \in DOMAIN s, NEW b \in DOMAIN s, NEW c \in DOMAIN s,
           NEW d \in DOMAIN s, Gives(s, a, b, c, d)
    PROVE  \E k \in b + 1 .. c - 1 :
              /\ s[k] = Separator(SubSeq(s, a, d))
              /\ \A m \in a .. k - 1 : s[m] # s[k]
              /\ \A m \in b + 1 .. c - 1 : m # k => s[m] \in Blanks
<1> DEFINE t == SubSeq(s, a, d)
<1>1. /\ Len(s) \in Nat /\ {a, b, c, d} \subseteq Nat
      /\ 1 <= a /\ a <= b /\ b < c /\ c <= d /\ d <= Len(s)
  BY DEF Gives
<1>2. a \in 1 .. Len(s) /\ d \in a .. Len(s)
  BY <1>1
<1>3. t \in Seq(Chars) /\ Len(t) = d - a + 1 /\ \A k \in 1 .. d - a + 1 : t[k] = s[a + k - 1]
  BY <1>2, PartIs
<1>4. \A k \in a .. d : s[k] = Comma => Contains(t, Comma)
  <2> HIDE DEF t
  <2>1. ASSUME NEW k \in a .. d, s[k] = Comma PROVE Contains(t, Comma)
    <3>1. k - a + 1 \in 1 .. d - a + 1 /\ a + (k - a + 1) - 1 = k
      BY <1>1
    <3>2. k - a + 1 \in DOMAIN t /\ t[k - a + 1] = s[k]
      BY <1>3, <3>1
    <3> QED
      BY <2>1, <3>2 DEF Contains
  <2> QED
    BY <2>1
<1>5. Contains(t, Comma) => \E k \in a .. d : s[k] = Comma
  <2> HIDE DEF t
  <2>1. ASSUME NEW k \in DOMAIN t, t[k] = Comma PROVE \E m \in a .. d : s[m] = Comma
    <3>0. k \in 1 .. d - a + 1
      BY <1>3, LenProperties
    <3>1. a + k - 1 \in a .. d
      BY <1>1, <3>0
    <3> QED
      BY <1>3, <2>1, <3>0, <3>1
  <2> QED
    BY <2>1 DEF Contains
<1> HIDE DEF t
<1>6. \A m \in a .. b : s[m] \notin Blanks /\ s[m] # Comma
  BY DEF Gives, Between
<1>7. Comma \notin Blanks
  BY DEF Comma, Blanks, Space, Newline
<1>8. CASE /\ Cardinality({k \in b + 1 .. c - 1 : s[k] = Comma}) = 1
           /\ Between(s, b + 1, c - 1) \subseteq Blanks \cup {Comma}
  <2> DEFINE commas == {k \in b + 1 .. c - 1 : s[k] = Comma}
  <2>1. IsFiniteSet(commas)
    <3>1. commas \subseteq b + 1 .. c - 1 /\ b + 1 \in Int /\ c - 1 \in Int
      BY <1>1
    <3> HIDE DEF commas
    <3> QED
      BY <3>1, FS_Interval, FS_Subset
  <2>2. \E k : commas = {k}
    <3> HIDE DEF commas
    <3>1. Cardinality(commas) = 1
      BY <1>8 DEF commas
    <3> QED
      BY <2>1, <3>1, FS_Singleton
  <2>3. PICK k : commas = {k}
    BY <2>2
  <2>4. k \in b + 1 .. c - 1 /\ s[k] = Comma
    BY <2>3
  <2>5. \A m \in b + 1 .. c - 1 : m # k => s[m] \in Blanks /\ s[m] # Comma
    BY <1>8, <2>3 DEF Between
  <2>6. k \in a .. d
    BY <1>1, <2>4
  <2>7. Separator(t) = Comma
    BY <1>4, <2>4, <2>6 DEF Separator
  <2>8. \A m \in a .. k - 1 : m \in a .. b \/ (m \in b + 1 .. c - 1 /\ m # k)
    BY <1>1, <2>4
  <2> QED
    BY <1>6, <2>4, <2>5, <2>7, <2>8 DEF t
<1>9. CASE /\ Space \in Between(s, b + 1, c - 1)
           /\ Between(s, b + 1, c - 1) \subseteq Blanks
           /\ Comma \notin Between(s, c, d)
  <2> DEFINE spaces == {k \in b + 1 .. c - 1 : s[k] = Space}
  <2>1. spaces \subseteq Nat /\ spaces # {}
    BY <1>1, <1>9 DEF Between
  <2>2. PICK k \in spaces : \A m \in spaces : k <= m
    <3> HIDE DEF spaces
    <3> QED
      BY <2>1, Least
  <2>3. k \in b + 1 .. c - 1 /\ s[k] = Space
    BY <2>2
  <2>4. \A m \in b + 1 .. c - 1 : s[m] \in Blanks
    BY <1>9 DEF Between
  <2>5. \A m \in c .. d : s[m] # Comma
    BY <1>9 DEF Between
  <2>6. \A m \in a .. d : m \in a .. b \/ m \in b + 1 .. c - 1 \/ m \in c .. d
    BY <1>1
  <2>7. \A m \in a .. d : s[m] # Comma
    BY <1>6, <1>7, <2>4, <2>5, <2>6
  <2>8. Separator(t) = Space
    BY <1>5, <2>7 DEF Separator
  <2>9. ASSUME NEW m \in a .. k - 1 PROVE s[m] # Space
    <3>1. m \in a .. b \/ (m \in b + 1 .. c - 1 /\ m < k)
      BY <1>1, <2>3
    <3>2. CASE m \in a .. b
      BY <1>6, <3>2 DEF Blanks
    <3>3. CASE m \in b + 1 .. c - 1 /\ m < k
      <4>1. s[m] = Space => k <= m
        BY <2>2, <3>3
      <4> QED
        BY <1>1, <2>3, <3>3, <4>1
    <3> QED
      BY <3>1, <3>2, <3>3
  <2> QED
    BY <2>3, <2>4, <2>8, <2>9 DEF t
<1> QED
  BY <1>8, <1>9 DEF Gives

LEMMA ReadGiven ==
    ASSUME NEW s \in Seq(Chars), NEW a \in DOMAIN s, NEW b \in DOMAIN s, NEW c \in DOMAIN s,
           NEW d \in DOMAIN s, Gives(s, a, b, c, d)
    PROVE  /\ Read(s).pin = InAscii(SubSeq(s, a, b))
           /\ Read(s).hint = SubSeq(s, c, d)
           /\ Read(s).valid = (b - a + 1 = PinLength)
<1> DEFINE t == SubSeq(s, a, d)
<1>1. /\ Len(s) \in Nat /\ {a, b, c, d} \subseteq Nat
      /\ 1 <= a /\ a <= b /\ b < c /\ c <= d /\ d <= Len(s)
  BY DEF Gives
<1>2. s[a] \notin Blanks /\ s[b] \notin Blanks /\ s[c] \notin Blanks /\ s[d] \notin Blanks
  BY <1>1 DEF Gives, Between
<1>3. TrimSpace(s) = t
  <2>1. \A k \in DOMAIN s : k \in 1 .. a - 1 \/ k \in a .. d \/ k \in d + 1 .. Len(s)
    BY <1>1
  <2>2. \A k \in 1 .. a - 1 : s[k] \in Blanks
    BY DEF Gives, Between
  <2>3. \A k \in d + 1 .. Len(s) : s[k] \in Blanks
    BY DEF Gives, Between
  <2>4. \A k \in DOMAIN s : s[k] \notin Blanks => a <= k /\ k <= d
    BY <1>1, <2>1, <2>2, <2>3
  <2> QED
    BY <1>2, <2>4, TrimIs
<1>4. PICK k \in b + 1 .. c - 1 :
              /\ s[k] = Separator(t)
              /\ \A m \in a .. k - 1 : s[m] # s[k]
              /\ \A m \in b + 1 .. c - 1 : m # k => s[m] \in Blanks
  BY GivesSeparator
<1>5. k \in Nat /\ b < k /\ k < c
  BY <1>1
<1>6. t \in Seq(Chars) /\ Len(t) = d - a + 1 /\ \A m \in 1 .. d - a + 1 : t[m] = s[a + m - 1]
  <2>1. a \in 1 .. Len(s) /\ d \in a .. Len(s)
    BY <1>1
  <2> QED
    BY <2>1, PartIs
<1> DEFINE n == k - a + 1
<1>7. SplitInTwo(t, Separator(t)) = <<SubSeq(t, 1, n - 1), SubSeq(t, n + 1, Len(t))>>
  <2> HIDE DEF t
  <2>1. n \in DOMAIN t /\ t[n] = Separator(t)
    <3>1. n \in 1 .. d - a + 1 /\ a + n - 1 = k
      BY <1>1, <1>5
    <3> QED
      BY <1>4, <1>6, <3>1
  <2>2. ASSUME NEW m \in DOMAIN t, m < n PROVE t[m] # Separator(t)
    <3>0. m \in 1 .. d - a + 1
      BY <1>6, LenProperties
    <3>1. a + m - 1 \in a .. k - 1
      <4>1. m \in Nat /\ 1 <= m /\ m < k - a + 1 /\ a \in Nat /\ k \in Nat
        BY <1>1, <1>5, <2>2, <3>0
      <4>2. a <= a + m - 1 /\ a + m - 1 <= k - 1
        BY <4>1
      <4> QED
        BY <4>1, <4>2
    <3> QED
      BY <1>4, <1>6, <3>0, <3>1
  <2> HIDE DEF n
  <2> QED
    BY <1>6, <2>1, <2>2, SplitAt
<1>8. SubSeq(t, 1, n - 1) = SubSeq(s, a, k - 1)
  <2>1. a \in 1 .. Len(s) /\ d \in 1 .. Len(s) /\ a \in a .. d /\ k - 1 \in a .. d
    BY <1>1, <1>5
  <2>2. a - a + 1 = 1 /\ (k - 1) - a + 1 = n - 1
    BY <1>1, <1>5
  <2>3. SubSeq(t, a - a + 1, (k - 1) - a + 1) = SubSeq(s, a, k - 1)
    BY <2>1, PartOfPart
  <2> HIDE DEF t, n
  <2> QED
    BY <2>2, <2>3
<1>9. SubSeq(t, n + 1, Len(t)) = SubSeq(s, k + 1, d)
  <2>1. a \in 1 .. Len(s) /\ d \in 1 .. Len(s) /\ k + 1 \in a .. d /\ d \in a .. d
    BY <1>1, <1>5
  <2>2. (k + 1) - a + 1 = n + 1 /\ d - a + 1 = Len(t)
    BY <1>1, <1>5, <1>6
  <2>3. SubSeq(t, (k + 1) - a + 1, d - a + 1) = SubSeq(s, k + 1, d)
    BY <2>1, PartOfPart
  <2> HIDE DEF t, n
  <2> QED
    BY <2>2, <2>3
<1>10. TrimSpace(SubSeq(s, a, k - 1)) = SubSeq(s, a, b)
  <2>1. a \in 1 .. Len(s) /\ k - 1 \in 1 .. Len(s) /\ b \in a .. k - 1
    BY <1>1, <1>5
  <2>2. \A m \in b + 1 .. k - 1 : m \in b + 1 .. c - 1 /\ m # k
    BY <1>1, <1>5
  <2>3. \A m \in b + 1 .. k - 1 : s[m] \in Blanks
    BY <1>4, <2>2
  <2> HIDE DEF t, n
  <2> QED
    BY <1>2, <2>1, <2>3, TrimBehind
<1>11. TrimSpace(SubSeq(s, k + 1, d)) = SubSeq(s, c, d)
  <2>1. k + 1 \in 1 .. Len(s) /\ d \in 1 .. Len(s) /\ c \in k + 1 .. d
    BY <1>1, <1>5
  <2>2. \A m \in k + 1 .. c - 1 : m \in b + 1 .. c - 1 /\ m # k
    BY <1>1, <1>5
  <2>3. \A m \in k + 1 .. c - 1 : s[m] \in Blanks
    BY <1>4, <2>2
  <2> HIDE DEF t, n
  <2> QED
    BY <1>2, <2>1, <2>3, TrimInFront
<1>12. /\ SubSeq(s, a, k - 1) \in Seq(Chars) /\ SubSeq(s, k + 1, d) \in Seq(Chars)
       /\ Len(SubSeq(s, a, b)) = b - a + 1 /\ SubSeq(s, c, d) # <<>>
  <2>1. a \in 1 .. Len(s) /\ k - 1 \in a .. Len(s) /\ b \in a .. Len(s)
    BY <1>1, <1>5
  <2>2. k + 1 \in 1 .. Len(s) /\ d \in k + 1 .. Len(s) /\ c \in 1 .. Len(s) /\ d \in c .. Len(s)
    BY <1>1, <1>5
  <2> QED
    BY <2>1, <2>2, PartIs
<1> DEFINE u == SubSeq(s, a, k - 1)
           v == SubSeq(s, k + 1, d)
           p == SubSeq(s, a, b)
           h == SubSeq(s, c, d)
<1>13. /\ SplitInTwo(TrimSpace(s), Separator(TrimSpace(s))) = <<u, v>>
       /\ TrimSpace(u) = p /\ TrimSpace(v) = h
  <2> HIDE DEF t, n
  <2> QED
    BY <1>3, <1>7, <1>8, <1>9, <1>10, <1>11
<1>14. u \in Seq(Chars) /\ v \in Seq(Chars) /\ Len(p) = b - a + 1 /\ h # <<>>
  BY <1>12
<1> HIDE DEF t, n, u, v, p, h
<1>15. Read(s) = [pin |-> InAscii(p), hint |-> h, valid |-> Len(p) = PinLength /\ h # <<>>]
  BY <1>13, <1>14, ReadParts
<1>16. Read(s).valid = (Len(p) = PinLength /\ h # <<>>)
  BY <1>15
<1>17. Read(s).pin = InAscii(p) /\ Read(s).hint = h
  BY <1>15
<1>18. Read(s).valid = (b - a + 1 = PinLength)
  BY <1>14, <1>16
<1> QED
  BY <1>17, <1>18 DEF p, h

LEMMA ReadPin ==
    ASSUME NEW s \in Seq(Chars), NEW a \in DOMAIN s, NEW b \in DOMAIN s, GivesPin(s, a, b)
    PROVE  Read(s) = [pin |-> InAscii(SubSeq(s, a, b)), hint |-> <<>>, valid |-> FALSE]
<1> DEFINE p == SubSeq(s, a, b)
<1>1. Len(s) \in Nat /\ {a, b} \subseteq Nat /\ 1 <= a /\ a <= b /\ b <= Len(s)
  BY DEF GivesPin
<1>2. \A k \in a .. b : s[k] \notin Blanks /\ s[k] # Comma
  BY DEF GivesPin, Between
<1>3. s[a] \notin Blanks /\ s[b] \notin Blanks
  BY <1>1, <1>2
<1>4. TrimSpace(s) = p
  <2>1. \A k \in DOMAIN s : k \in 1 .. a - 1 \/ k \in a .. b \/ k \in b + 1 .. Len(s)
    BY <1>1
  <2>2. \A k \in 1 .. a - 1 : s[k] \in Blanks
    BY DEF GivesPin, Between
  <2>3. \A k \in b + 1 .. Len(s) : s[k] \in Blanks
    BY DEF GivesPin, Between
  <2>4. \A k \in DOMAIN s : s[k] \notin Blanks => a <= k /\ k <= b
    BY <1>1, <2>1, <2>2, <2>3
  <2> QED
    BY <1>3, <2>4, TrimIs
<1>5. p \in Seq(Chars) /\ Len(p) = b - a + 1 /\ \A k \in 1 .. b - a + 1 : p[k] = s[a + k - 1]
  <2>1. a \in 1 .. Len(s) /\ b \in a .. Len(s)
    BY <1>1
  <2> QED
    BY <2>1, PartIs
<1> HIDE DEF p
<1>6. ~Contains(p, Comma) /\ ~Contains(p, Space)
  <2>1. \A k \in DOMAIN p : k \in 1 .. b - a + 1
    BY <1>1, <1>5, LenProperties
  <2>2. \A k \in 1 .. b - a + 1 : a + k - 1 \in a .. b
    BY <1>1
  <2> QED
    BY <1>2, <1>5, <2>1, <2>2 DEF Contains, Blanks
<1>7. Trimmed(p) /\ TrimSpace(p) = p
  <2>1. Trimmed(p)
    BY <1>4, TrimTrims
  <2> QED
    BY <2>1, TrimOfTrimmed
<1>8. SplitInTwo(p, Separator(p)) = <<p>>
  BY <1>6, SplitAtNone DEF Separator
<1>9. Read(s) = [pin |-> InAscii(TrimSpace(p)), hint |-> <<>>, valid |-> FALSE]
  BY <1>4, <1>5, <1>8, ReadAlone
<1> QED
  BY <1>7, <1>9 DEF p

-----------------------------------------------------------------------------
(* The echo *)

LEMMA JoinedRead ==
    ASSUME NEW r, GoodReading(r), r.valid
    PROVE  Joined(r.pin, r.hint) \in Seq(Chars) /\ Read(Joined(r.pin, r.hint)) = r
<1> DEFINE p == r.pin
           h == r.hint
           e == (p \o <<Comma>>) \o h
           n == Len(p) + 1
<1>1. /\ p \in Seq(Chars) /\ h \in Seq(Chars) /\ Trimmed(p) /\ Trimmed(h) /\ InAscii(p) = p
      /\ ~Contains(p, Comma) /\ h # <<>> /\ Len(p) = PinLength
      /\ r = [pin |-> p, hint |-> h, valid |-> TRUE]
  BY DEF GoodReading
<1>2. Joined(p, h) = e
  BY DEF Joined
<1> HIDE DEF p, h
<1>3. Len(p) \in Nat /\ Len(h) \in Nat /\ Len(h) > 0
  BY <1>1, EmptySeq, LenProperties
<1>4. Comma \notin Blanks /\ Comma \in Chars
  BY DEF Comma, Blanks, Space, Newline, Chars
<1>5. p \o <<Comma>> \in Seq(Chars) /\ Len(p \o <<Comma>>) = n
      /\ \A i \in 1 .. Len(p) : (p \o <<Comma>>)[i] = p[i]
      /\ (p \o <<Comma>>)[n] = Comma
  BY <1>1, <1>3, <1>4
<1>6. /\ e \in Seq(Chars) /\ Len(e) = n + Len(h)
      /\ \A i \in 1 .. n + Len(h) :
            e[i] = IF i <= n THEN (p \o <<Comma>>)[i] ELSE h[i - n]
  <2> DEFINE q == p \o <<Comma>>
  <2>1. q \in Seq(Chars) /\ Len(q) = n /\ h \in Seq(Chars) /\ e = q \o h
    BY <1>1, <1>5 DEF e
  <2> HIDE DEF q, n
  <2>2. /\ q \o h \in Seq(Chars) /\ Len(q \o h) = Len(q) + Len(h)
        /\ \A i \in 1 .. Len(q) + Len(h) :
              (q \o h)[i] = IF i <= Len(q) THEN q[i] ELSE h[i - Len(q)]
    BY <2>1, ConcatProperties
  <2>3. /\ e \in Seq(Chars) /\ Len(e) = n + Len(h)
        /\ \A i \in 1 .. n + Len(h) : e[i] = IF i <= n THEN q[i] ELSE h[i - n]
    BY <2>1, <2>2
  <2> QED
    BY <2>3 DEF q
<1> HIDE DEF e
<1>7. /\ \A i \in 1 .. Len(p) : e[i] = p[i]
      /\ e[n] = Comma
      /\ \A i \in 1 .. Len(h) : e[n + i] = h[i]
  <2>1. \A i \in 1 .. Len(p) : i <= n /\ i \in 1 .. n + Len(h)
    BY <1>3
  <2>2. n <= n /\ n \in 1 .. n + Len(h)
    BY <1>3
  <2>3. \A i \in 1 .. Len(h) : ~(n + i <= n) /\ n + i \in 1 .. n + Len(h) /\ (n + i) - n = i
    BY <1>3
  <2> HIDE DEF n
  <2>4. \A i \in 1 .. Len(h) : e[n + i] = h[i]
    BY <1>6, <2>3
  <2> QED
    BY <1>5, <1>6, <2>1, <2>2, <2>4
<1>8. Trimmed(e)
  <2>1. e[1] \notin Blanks
    <3>1. CASE p = <<>>
      BY <1>3, <1>4, <1>7, <3>1
    <3>2. CASE p # <<>>
      <4>1. Len(p) >= 1
        BY <1>1, <3>2, EmptySeq
      <4> QED
        BY <1>1, <1>3, <1>7, <3>2, <4>1 DEF Trimmed
    <3> QED
      BY <3>1, <3>2
  <2>2. e[Len(e)] \notin Blanks
    <3>1. Len(h) \in 1 .. Len(h)
      BY <1>3
    <3>2. e[n + Len(h)] = h[Len(h)]
      BY <1>7, <3>1
    <3> QED
      BY <1>1, <1>6, <3>2 DEF Trimmed
  <2> QED
    BY <1>6, <2>1, <2>2 DEF Trimmed
<1>9. TrimSpace(e) = e
  BY <1>8, TrimOfTrimmed
<1>10. n \in DOMAIN e /\ n \in Nat /\ Len(e) \in Nat
  BY <1>3, <1>6
<1>11. Separator(e) = Comma
  BY <1>7, <1>10 DEF Separator, Contains
<1>12. \A m \in DOMAIN e : m < n => e[m] # Comma
  <2>1. \A m \in DOMAIN e : m < n => m \in 1 .. Len(p) /\ m \in DOMAIN p
    BY <1>1, <1>3, <1>6
  <2> QED
    BY <1>1, <1>7, <2>1 DEF Contains
<1>13. SplitInTwo(e, Comma) = <<SubSeq(e, 1, n - 1), SubSeq(e, n + 1, Len(e))>>
  <2> HIDE DEF n
  <2> QED
    BY <1>6, <1>7, <1>10, <1>12, SplitAt
<1>14. SubSeq(e, 1, n - 1) = p
  <2>1. n - 1 = Len(p) /\ \A i \in 1 .. Len(p) : e[i] \in Chars
    BY <1>1, <1>3, <1>7, ElementOfSeq
  <2>2. /\ SubSeq(e, 1, Len(p)) \in Seq(Chars)
        /\ Len(SubSeq(e, 1, Len(p))) = IF 1 <= Len(p) THEN Len(p) - 1 + 1 ELSE 0
        /\ \A i \in 1 .. Len(p) - 1 + 1 : SubSeq(e, 1, Len(p))[i] = e[1 + i - 1]
    <3>1. 1 \in Int /\ Len(p) \in Int
      BY <1>3
    <3> QED
      BY <2>1, <3>1, SubSeqProperties
  <2>3. Len(SubSeq(e, 1, Len(p))) = Len(p)
    BY <1>3, <2>2
  <2>4. \A i \in 1 .. Len(p) : SubSeq(e, 1, Len(p))[i] = p[i]
    <3>1. \A i \in 1 .. Len(p) : i \in 1 .. Len(p) - 1 + 1 /\ 1 + i - 1 = i
      BY <1>3
    <3> QED
      BY <1>7, <2>2, <3>1
  <2>5. SubSeq(e, 1, Len(p)) = p
    BY <1>1, <2>2, <2>3, <2>4, SeqEqual
  <2> QED
    BY <2>1, <2>5
<1>15. SubSeq(e, n + 1, Len(e)) = h
  <2> DEFINE v == SubSeq(e, n + 1, Len(e))
  <2>1. /\ v \in Seq(Chars)
        /\ Len(v) = IF n + 1 <= Len(e) THEN Len(e) - (n + 1) + 1 ELSE 0
        /\ \A i \in 1 .. Len(e) - (n + 1) + 1 : v[i] = e[n + 1 + i - 1]
    <3>1. n + 1 \in Int /\ Len(e) \in Int /\ \A i \in n + 1 .. Len(e) : e[i] \in Chars
      BY <1>6, <1>10, ElementOfSeq
    <3> HIDE DEF n
    <3> QED
      BY <3>1, SubSeqProperties
  <2> HIDE DEF v
  <2>2. n + 1 <= Len(e) /\ Len(e) - (n + 1) + 1 = Len(h)
    BY <1>3, <1>6, <1>10
  <2>3. Len(v) = Len(h)
    BY <2>1, <2>2
  <2>4. \A i \in 1 .. Len(h) : v[i] = h[i]
    <3>1. \A i \in 1 .. Len(h) : n + 1 + i - 1 = n + i
      BY <1>10
    <3> HIDE DEF n
    <3> QED
      BY <1>7, <2>1, <2>2, <3>1
  <2>5. v = h
    BY <1>1, <2>1, <2>3, <2>4, SeqEqual
  <2> QED
    BY <2>5 DEF v
<1>16. TrimSpace(p) = p /\ TrimSpace(h) = h
  BY <1>1, TrimOfTrimmed
<1>17. Read(e) = [pin |-> InAscii(p), hint |-> h, valid |-> Len(p) = PinLength /\ h # <<>>]
  <2>1. SplitInTwo(TrimSpace(e), Separator(TrimSpace(e))) = <<p, h>>
    BY <1>9, <1>11, <1>13, <1>14, <1>15
  <2>2. Read(e) = [pin   |-> InAscii(TrimSpace(p)), hint |-> TrimSpace(h),
                   valid |-> Len(TrimSpace(p)) = PinLength /\ TrimSpace(h) # <<>>]
    BY <1>1, <2>1, ReadParts
  <2> QED
    BY <1>16, <2>2
<1>18. (Len(p) = PinLength /\ h # <<>>) = TRUE
  BY <1>1
<1> QED
  BY <1>1, <1>2, <1>6, <1>17, <1>18 DEF p, h

\* A reading with the ward of the directory in place of the typed one.
LEMMA CodeGood ==
    ASSUME NEW r, GoodReading(r), r.valid, NEW code \in Codes
    PROVE  LET coded == [r EXCEPT !.hint = code] IN
           /\ GoodReading(coded) /\ coded.valid
           /\ coded.pin = r.pin /\ coded.hint = code
<1> DEFINE coded == [r EXCEPT !.hint = code]
<1>1. /\ r \in [pin : Seq(Chars), hint : Seq(Chars), valid : BOOLEAN]
      /\ Len(r.pin) = PinLength
  BY DEF GoodReading
<1>2. code \in Seq(Chars) /\ code # <<>> /\ code[1] \notin Blanks /\ code[Len(code)] \notin Blanks
  BY CodesAssumption
<1>3. coded.pin = r.pin /\ coded.hint = code /\ coded.valid = r.valid
  BY <1>1
<1>4. coded \in [pin : Seq(Chars), hint : Seq(Chars), valid : BOOLEAN]
  BY <1>1, <1>2
<1>5. Trimmed(code)
  BY <1>2 DEF Trimmed
<1>6. coded.valid = (Len(coded.pin) = PinLength /\ coded.hint # <<>>)
  BY <1>1, <1>2, <1>3
<1> HIDE DEF coded
<1>7. GoodReading(coded)
  BY <1>3, <1>4, <1>5, <1>6 DEF GoodReading
<1> QED
  BY <1>3, <1>7 DEF coded

\* A text without a separator is a PIN code without a ward.
LEMMA PinRead ==
    ASSUME NEW r, GoodReading(r), r.valid, Plain(r.pin)
    PROVE  /\ r.pin \in Seq(Chars)
           /\ Read(r.pin) = [pin |-> r.pin, hint |-> <<>>, valid |-> FALSE]
<1> DEFINE p == r.pin
<1>1. /\ r \in [pin : Seq(Chars), hint : Seq(Chars), valid : BOOLEAN]
      /\ p \in Seq(Chars) /\ Trimmed(p) /\ InAscii(p) = p /\ ~Contains(p, Comma)
  BY DEF GoodReading
<1>2. ~Contains(p, Space)
  BY DEF Plain, Contains, Blanks
<1> HIDE DEF p
<1>3. TrimSpace(p) = p /\ Separator(p) = Space
  BY <1>1, TrimOfTrimmed DEF Separator
<1>4. SplitInTwo(p, Space) = <<p>>
  BY <1>1, <1>2, SplitAtNone
<1>5. Read(p) = [pin |-> InAscii(TrimSpace(p)), hint |-> <<>>, valid |-> FALSE]
  BY <1>1, <1>3, <1>4, ReadAlone
<1> QED
  BY <1>1, <1>3, <1>5 DEF p

\* What the bot refused: the citizen's input, or what became of it.
Refused(r, refused) ==
    CASE refused.by = "handlePin"        -> r
      [] refused.by = "promptNagarsevak" -> [r EXCEPT !.hint = refused.code]
      [] refused.by = "promptWard"       -> [pin |-> r.pin, hint |-> <<>>, valid |-> FALSE]

LEMMA EchoRead ==
    ASSUME NEW body \in Seq(Chars), NEW refused \in Refusals(Read(body))
    PROVE  LET echo == Echo(body, Read(body), refused) IN
           echo \in Seq(Chars) /\ Read(echo) = Refused(Read(body), refused)
<1> DEFINE r == Read(body)
           echo == Echo(body, r, refused)
<1>1. GoodReading(r)
  BY ReadGood
<1> HIDE DEF r
<1>2. ASSUME refused = [by |-> "handlePin", code |-> <<>>]
      PROVE  echo \in Seq(Chars) /\ Read(echo) = Refused(r, refused)
  <2>1. Refused(r, refused) = r /\ echo = IF r.valid THEN Joined(r.pin, r.hint) ELSE TrimSpace(body)
    BY <1>2 DEF Refused, Echo
  <2>2. CASE r.valid
    BY <1>1, <2>1, <2>2, JoinedRead DEF r
  <2>3. CASE ~r.valid
    <3>1. Trimmed(TrimSpace(body))
      BY TrimTrims
    <3>2. TrimSpace(TrimSpace(body)) = TrimSpace(body)
      BY <3>1, TrimOfTrimmed
    <3>3. Read(TrimSpace(body)) = Read(body)
      BY <3>2 DEF Read
    <3> QED
      BY <2>1, <2>3, <3>1, <3>3 DEF Trimmed, r
  <2> QED
    BY <2>2, <2>3
<1>3. ASSUME NEW code \in Codes, refused = [by |-> "promptNagarsevak", code |-> code], r.valid
      PROVE  echo \in Seq(Chars) /\ Read(echo) = Refused(r, refused)
  <2> DEFINE coded == [r EXCEPT !.hint = code]
  <2>1. Refused(r, refused) = coded /\ echo = Joined(r.pin, code)
    BY <1>3 DEF Refused, Echo
  <2>2. GoodReading(coded) /\ coded.valid /\ coded.pin = r.pin /\ coded.hint = code
    BY <1>1, <1>3, CodeGood
  <2> HIDE DEF coded, echo
  <2> QED
    BY <2>1, <2>2, JoinedRead
<1>4. ASSUME refused = [by |-> "promptWard", code |-> <<>>], r.valid, Plain(r.pin)
      PROVE  echo \in Seq(Chars) /\ Read(echo) = Refused(r, refused)
  <2>1. Refused(r, refused) = [pin |-> r.pin, hint |-> <<>>, valid |-> FALSE] /\ echo = r.pin
    BY <1>4 DEF Refused, Echo
  <2> QED
    BY <1>1, <1>4, <2>1, PinRead
<1>5. \/ refused = [by |-> "handlePin", code |-> <<>>]
      \/ r.valid /\ \E code \in Codes : refused = [by |-> "promptNagarsevak", code |-> code]
      \/ r.valid /\ Plain(r.pin) /\ refused = [by |-> "promptWard", code |-> <<>>]
  BY DEF Refusals, r
<1>6. echo \in Seq(Chars) /\ Read(echo) = Refused(r, refused)
  BY <1>2, <1>3, <1>4, <1>5
<1> QED
  BY <1>6 DEF r

-----------------------------------------------------------------------------
(* The theorems *)

(***************************************************************************)
(* A reading is that of the text it was made of, and an echo sent back is  *)
(* that of a refusal of a text that was read.                              *)
(***************************************************************************)
InputInv ==
    /\ text \in Seq(Chars)
    /\ pc \in {"sent", "read", "resent", "reread"}
    /\ pc = "sent" => reading = Nil /\ before = Nil /\ refusal = Nil
    /\ pc = "read" => reading = Read(text) /\ before = Nil /\ refusal = Nil
    /\ pc \in {"resent", "reread"} =>
          /\ reading = IF pc = "resent" THEN before ELSE Refused(before, refusal)
          /\ \E body \in Seq(Chars) :
                /\ before = Read(body) /\ refusal \in Refusals(before)
                /\ text = Echo(body, before, refusal)

LEMMA InputInit == Init => InputInv
<1>1. Texts \subseteq Seq(Chars)
  BY DEF Texts
<1> QED
  BY <1>1 DEF Init, InputInv

LEMMA InputNext == ASSUME InputInv, [Next]_vars PROVE InputInv'
<1>1. CASE HandlePin
  <2>1. CASE pc = "sent"
    BY <1>1, <2>1 DEF HandlePin, InputInv
  <2>2. CASE pc = "resent"
    <3>1. PICK body \in Seq(Chars) :
                 /\ before = Read(body) /\ refusal \in Refusals(before)
                 /\ text = Echo(body, before, refusal)
      BY <2>2 DEF InputInv
    <3>2. Read(text) = Refused(before, refusal)
      BY <3>1, EchoRead
    <3>3. /\ text' = text /\ before' = before /\ refusal' = refusal
          /\ reading' = Refused(before', refusal') /\ pc' = "reread"
      BY <1>1, <2>2, <3>2 DEF HandlePin
    <3>4. text' \in Seq(Chars)
      BY <3>3 DEF InputInv
    <3> QED
      BY <3>1, <3>3, <3>4 DEF InputInv
  <2> QED
    BY <1>1, <2>1, <2>2 DEF HandlePin
<1>2. CASE SendEcho
  <2>1. reading = Read(text) /\ text \in Seq(Chars)
    BY <1>2 DEF SendEcho, InputInv
  <2>2. /\ refusal' \in Refusals(reading) /\ text' = Echo(text, reading, refusal')
        /\ before' = reading /\ pc' = "resent" /\ reading' = reading
    BY <1>2 DEF SendEcho
  <2>3. text' \in Seq(Chars)
    BY <2>1, <2>2, EchoRead
  <2>4. \E body \in Seq(Chars) : /\ before' = Read(body) /\ refusal' \in Refusals(before')
                                 /\ text' = Echo(body, before', refusal')
    BY <2>1, <2>2
  <2> QED
    BY <2>2, <2>3, <2>4 DEF InputInv
<1>3. CASE UNCHANGED vars
  BY <1>3 DEF vars, InputInv
<1> QED
  BY <1>1, <1>2, <1>3 DEF Next

LEMMA InputInvariance == Spec => []InputInv
  BY InputInit, InputNext, PTL DEF Spec

(***************************************************************************)
(* What parseUserInput and normalizePin return are texts, for every text.  *)
(***************************************************************************)
THEOREM InputTypeCorrect == Spec => []TypeOK
<1>1. InputInv => TypeOK
  <2> SUFFICES ASSUME InputInv PROVE TypeOK
    OBVIOUS
  <2>1. \A body \in Seq(Chars) :
           Read(body) \in [pin : Seq(Chars), hint : Seq(Chars), valid : BOOLEAN]
    BY ReadGood DEF GoodReading
  <2>2. CASE pc \in {"sent", "read"}
    BY <2>1, <2>2 DEF InputInv, TypeOK
  <2>3. CASE pc \in {"resent", "reread"}
    <3>1. PICK body \in Seq(Chars) : /\ before = Read(body) /\ refusal \in Refusals(before)
                                     /\ text = Echo(body, before, refusal)
      BY <2>3 DEF InputInv
    <3>2. refusal \in [by : {"handlePin", "promptNagarsevak", "promptWard"}, code : Seq(Chars)]
      <4>1. \A code \in Codes \cup {<<>>} : code \in Seq(Chars)
        BY CodesAssumption, EmptySeq
      <4>2. \E by \in {"handlePin", "promptNagarsevak", "promptWard"}, code \in Codes \cup {<<>>} :
               refusal = [by |-> by, code |-> code]
        BY <3>1 DEF Refusals
      <4> QED
        BY <4>1, <4>2
    <3>3. Refused(before, refusal) = Read(text)
      BY <3>1, EchoRead
    <3> QED
      BY <2>1, <2>3, <3>1, <3>2, <3>3 DEF InputInv, TypeOK
  <2> QED
    BY <2>2, <2>3 DEF InputInv
<1> QED
  BY <1>1, InputInvariance, PTL

(***************************************************************************)
(* The documented forms are read as the PIN code and the ward they give,   *)
(* or the PIN code alone, for texts and PIN codes of every length, in      *)
(* either script.                                                          *)
(***************************************************************************)
THEOREM FormsAreRead == Spec => []DocumentedFormsAreRead
<1>1. InputInv => DocumentedFormsAreRead
  BY ReadGiven, ReadPin DEF InputInv, DocumentedFormsAreRead
<1> QED
  BY <1>1, InputInvariance, PTL

(***************************************************************************)
(* What any refusal of the bot shows, sent back, is read as what was       *)
(* refused: the citizen's input, whatever it was, his PIN code with the    *)
(* code of the ward, or his PIN code without a ward.                       *)
(***************************************************************************)
THEOREM EchoesReadBack == Spec => []EchoReadsBack
<1>1. InputInv => EchoReadsBack
  BY DEF InputInv, EchoReadsBack, Refused
<1> QED
  BY <1>1, InputInvariance, PTL

=============================================================================
