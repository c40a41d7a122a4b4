--------------------------- MODULE OutboundProofs ---------------------------
(***************************************************************************)
(* What the sends of a job guarantee for every number of attempts, all     *)
(* pauses and time limits, and any number of buttons.                      *)
(***************************************************************************)
EXTENDS Outbound, TLAPS

-----------------------------------------------------------------------------
(* The inductive invariant *)

\* The requests made so far: none for later messages, at most one per attempt for this one.
Counted ==
    \A i \in Posts :
       /\ i > turn => posted[i] = 0
       /\ i = turn => posted[i] <= attempt
       /\ copies[i] + limbo[i] <= posted[i]

\* A substitute is begun only if what it stands in for is not confirmed.
Substitutes ==
    /\ confirmed \subseteq 1 .. turn - 1
    /\ \A i \in plan.alts : i = turn \/ (i \in Posts /\ posted[i] > 0) => i - 1 \notin confirmed

\* The messages behind, and this one once it has failed, were tried while there was time.
Tried ==
    ~Expired =>
       \A i \in Posts :
          i < turn \/ (i = turn /\ attempt > 0) =>
             posted[i] > 0 \/ (i \in plan.alts /\ i - 1 \in confirmed)

(***************************************************************************)
(* Each attempt accounts for one request at most, each request for one     *)
(* copy at most, now or late; and post gives a message up untried only     *)
(* because the context is over, which it then stays.                       *)
(***************************************************************************)
OutboundInv ==
    /\ TypeOK
    /\ NeverOverruns
    /\ pc = "pause" => attempt > 0
    /\ Counted
    /\ Substitutes
    /\ Tried

-----------------------------------------------------------------------------
(* Lemmas about data *)

\* A substitute is a message of the job, and never its first; nor is one that calls precede.
LEMMA PlanShape ==
    ASSUME NEW q \in Plans
    PROVE  /\ q.len \in Nat \ {0}
           /\ q.alts \subseteq 2 .. q.len
           /\ q.calls \subseteq 2 .. q.len
<1> USE RetryAssumption DEF Plan
<1>1. q \in {PinPrompt, PhotoMenu, PlainMenu, TwoPrompts, ThreePrompts, OneMessage}
  BY DEF Plans
<1>2. CASE q = PinPrompt
  BY <1>2 DEF PinPrompt
<1>3. CASE q = PhotoMenu
  BY <1>3 DEF PhotoMenu
<1>4. CASE q = PlainMenu
  BY <1>4 DEF PlainMenu
<1>5. CASE q = TwoPrompts
  BY <1>5 DEF TwoPrompts
<1>6. CASE q = ThreePrompts
  BY <1>6 DEF ThreePrompts
<1>7. CASE q = OneMessage
  BY <1>7 DEF OneMessage
<1> QED
  BY <1>1, <1>2, <1>3, <1>4, <1>5, <1>6, <1>7

\* The same of the plan of this job, with the messages it has.
LEMMA PlanFacts ==
    ASSUME TypeOK
    PROVE  /\ plan.len \in Nat \ {0}
           /\ plan.alts \subseteq Posts
           /\ 1 \notin plan.alts
           /\ plan.calls \subseteq Posts
           /\ Posts = 1 .. plan.len /\ Posts \subseteq Nat
           /\ turn \in Nat /\ turn > 0
  BY PlanShape DEF TypeOK, Posts

-----------------------------------------------------------------------------
(* The initial states *)

LEMMA OutboundInit == Init => OutboundInv
<1> SUFFICES ASSUME Init PROVE OutboundInv
  OBVIOUS
<1>1. /\ plan.len \in Nat \ {0} /\ plan.alts \subseteq 2 .. plan.len
      /\ Deadline \in Nat
  BY PlanShape, RetryAssumption DEF Init
<1>2. TypeOK
  BY <1>1, RetryAssumption DEF Init, TypeOK, Posts
<1> QED
  BY <1>1, <1>2, RetryAssumption
     DEF Init, OutboundInv, NeverOverruns, Counted, Substitutes, Tried, Expired, Posts

-----------------------------------------------------------------------------
(* Steps *)

\* A request that leaves.
LEMMA RequestFacts ==
    ASSUME OutboundInv, Request
    PROVE  /\ turn \in Posts /\ turn \in Nat /\ plan' = plan /\ Posts' = Posts
           /\ ~Expired
           /\ clock' \in Nat /\ clock' <= Deadline
           /\ posted[turn] <= attempt /\ posted[turn] \in Nat
           /\ posted' = [posted EXCEPT ![turn] = @ + 1]
           /\ posted' \in [Posts -> 0 .. MaxRetries]
           /\ copies[turn] + limbo[turn] < MaxRetries
           /\ turn \in plan.alts => turn - 1 \notin confirmed
<1> USE RetryAssumption
<1>1. turn \in Posts /\ plan' = plan /\ Posts' = Posts /\ ~Expired /\ Posts \subseteq Nat
  BY PlanFacts DEF Request, Posts, OutboundInv
<1>2. PICK took \in 0 .. AttemptTime : clock + took <= Deadline /\ clock' = clock + took
  BY DEF Request
<1>3. clock' \in Nat /\ clock' <= Deadline
  BY <1>2 DEF OutboundInv, TypeOK
<1>4. posted[turn] <= attempt /\ posted[turn] \in Nat /\ attempt < MaxRetries
  BY <1>1 DEF OutboundInv, TypeOK, Counted
<1>5. posted' = [posted EXCEPT ![turn] = @ + 1] /\ posted' \in [Posts -> 0 .. MaxRetries]
  <2>1. posted' = [posted EXCEPT ![turn] = @ + 1]
    BY DEF Request
  <2>2. posted[turn] + 1 \in 0 .. MaxRetries
    <3>1. MaxRetries \in Nat /\ attempt \in Nat
      BY DEF OutboundInv, TypeOK
    <3> QED
      BY <1>4, <3>1
  <2>3. posted \in [Posts -> 0 .. MaxRetries]
    BY DEF OutboundInv, TypeOK
  <2> QED
    BY <1>1, <2>1, <2>2, <2>3
<1>6. copies[turn] + limbo[turn] < MaxRetries
  BY <1>1, <1>4 DEF OutboundInv, TypeOK, Counted
<1>7. turn \in plan.alts => turn - 1 \notin confirmed
  BY <1>1 DEF OutboundInv, Substitutes
<1> QED
  BY <1>1, <1>3, <1>4, <1>5, <1>6, <1>7

\* Where the handler goes on when post returns an error.
LEMMA ReturnErrorFacts ==
    ASSUME TypeOK, turn \in Posts, ReturnError
    PROVE  turn' = turn + 1 /\ turn' \in 1 .. plan.len + 1 /\ pc' = "request" /\ attempt' = 0
  BY PlanFacts DEF ReturnError, GoOn

\* What Retry does.
LEMMA RetryFacts ==
    ASSUME TypeOK, turn \in Posts, Retry
    PROVE  \/ /\ turn' = turn /\ pc' = "pause" /\ attempt' = attempt + 1
              /\ attempt' \in 1 .. MaxRetries - 1
           \/ /\ turn' = turn + 1 /\ turn' \in 1 .. plan.len + 1
              /\ pc' = "request" /\ attempt' = 0
<1>1. attempt \in Nat /\ MaxRetries \in Nat
  BY RetryAssumption DEF TypeOK
<1>2. CASE attempt + 1 < MaxRetries
  BY <1>1, <1>2 DEF Retry
<1>3. CASE ~(attempt + 1 < MaxRetries)
  BY <1>3, ReturnErrorFacts DEF Retry
<1> QED
  BY <1>2, <1>3

\* What the API makes of a request: at most one copy, now or late.
AtMostOneMore ==
    /\ copies' \in [Posts -> 0 .. MaxRetries]
    /\ limbo' \in [Posts -> 0 .. MaxRetries]
    /\ \A i \in Posts :
          copies'[i] + limbo'[i] <= copies[i] + limbo[i] + (IF i = turn THEN 1 ELSE 0)

LEMMA OneMoreCopy ==
    ASSUME TypeOK, turn \in Posts, copies[turn] + limbo[turn] < MaxRetries,
           copies' = [copies EXCEPT ![turn] = @ + 1], UNCHANGED limbo
    PROVE  AtMostOneMore
<1>1. MaxRetries \in Nat /\ \A i \in Posts : copies[i] \in 0 .. MaxRetries /\ limbo[i] \in 0 .. MaxRetries
  BY RetryAssumption DEF TypeOK
<1>2. copies[turn] + 1 \in 0 .. MaxRetries
  BY <1>1
<1>3. \A i \in Posts : copies'[i] = IF i = turn THEN copies[i] + 1 ELSE copies[i]
  BY DEF TypeOK
<1>4. copies' \in [Posts -> 0 .. MaxRetries]
  BY <1>2 DEF TypeOK
<1> QED
  BY <1>1, <1>3, <1>4 DEF AtMostOneMore, TypeOK

LEMMA OneMoreLate ==
    ASSUME TypeOK, turn \in Posts, copies[turn] + limbo[turn] < MaxRetries,
           limbo' = [limbo EXCEPT ![turn] = @ + 1], UNCHANGED copies
    PROVE  AtMostOneMore
<1>1. MaxRetries \in Nat /\ \A i \in Posts : copies[i] \in 0 .. MaxRetries /\ limbo[i] \in 0 .. MaxRetries
  BY RetryAssumption DEF TypeOK
<1>2. limbo[turn] + 1 \in 0 .. MaxRetries
  BY <1>1
<1>3. \A i \in Posts : limbo'[i] = IF i = turn THEN limbo[i] + 1 ELSE limbo[i]
  BY DEF TypeOK
<1>4. limbo' \in [Posts -> 0 .. MaxRetries]
  BY <1>2 DEF TypeOK
<1> QED
  BY <1>1, <1>3, <1>4 DEF AtMostOneMore, TypeOK

\* Another attempt, the next message, or the one after a substitute that is not needed.
TurnAfterRequest ==
    \/ /\ turn' = turn /\ pc' = "pause"
       /\ attempt' = attempt + 1 /\ attempt' \in 1 .. MaxRetries - 1
       /\ confirmed' = confirmed
    \/ /\ turn' = turn + 1 /\ pc' = "request" /\ attempt' = 0
       /\ \/ confirmed' = confirmed
          \/ confirmed' = confirmed \cup {turn} /\ turn + 1 \notin plan.alts
    \/ /\ turn' = turn + 2 /\ pc' = "request" /\ attempt' = 0
       /\ confirmed' = confirmed \cup {turn} /\ turn + 1 \in plan.alts

LEMMA RequestKeeps ==
    ASSUME OutboundInv, Request, AtMostOneMore, TurnAfterRequest
    PROVE  OutboundInv'
<1> USE RetryAssumption
<1>1. /\ turn \in Posts /\ turn \in Nat /\ plan' = plan /\ Posts' = Posts
      /\ clock' \in Nat /\ clock' <= Deadline /\ ~Expired
      /\ posted[turn] <= attempt /\ posted[turn] \in Nat
      /\ posted' = [posted EXCEPT ![turn] = @ + 1]
      /\ posted' \in [Posts -> 0 .. MaxRetries]
  BY RequestFacts
<1>2. /\ plan.len \in Nat \ {0} /\ plan.alts \subseteq Posts /\ 1 \notin plan.alts
      /\ Posts = 1 .. plan.len
  BY PlanFacts DEF OutboundInv
<1>0. turn \in Nat /\ 1 <= turn /\ turn <= plan.len /\ plan.len \in Nat
  BY <1>1, <1>2
<1>3. /\ turn' \in 1 .. plan.len + 1 /\ turn' >= turn
      /\ attempt' \in 0 .. MaxRetries - 1 /\ pc' \in {"request", "pause"}
      /\ pc' = "pause" => attempt' > 0
  <2>0. turn' \in {turn, turn + 1} \/ (turn' = turn + 2 /\ turn + 1 \in plan.alts)
    BY DEF TurnAfterRequest
  <2>1. turn' \in 1 .. plan.len + 1 /\ turn' >= turn
    <3>1. turn + 1 \in plan.alts => turn + 1 <= plan.len
      BY <1>1, <1>2
    <3> QED
      BY <1>0, <2>0, <3>1
  <2>2. attempt' \in 0 .. MaxRetries - 1
    BY DEF TurnAfterRequest
  <2>3. pc' \in {"request", "pause"} /\ (pc' = "pause" => attempt' > 0)
    BY DEF TurnAfterRequest
  <2> QED
    BY <2>1, <2>2, <2>3
<1>4. confirmed \subseteq 1 .. turn - 1 /\ confirmed' \subseteq confirmed \cup {turn}
  BY DEF OutboundInv, Substitutes, TurnAfterRequest
<1>5. TypeOK'
  BY <1>1, <1>2, <1>3, <1>4 DEF OutboundInv, TypeOK, AtMostOneMore
<1>6. Counted'
  <2> SUFFICES ASSUME NEW i \in Posts
               PROVE  /\ i > turn' => posted'[i] = 0
                      /\ i = turn' => posted'[i] <= attempt'
                      /\ copies'[i] + limbo'[i] <= posted'[i]
    BY <1>1 DEF Counted
  <2>0. i \in Nat /\ turn' \in Nat
    BY <1>2, <1>3
  <2>1. /\ i > turn => posted[i] = 0
        /\ copies[i] + limbo[i] <= posted[i]
        /\ copies[i] \in Nat /\ limbo[i] \in Nat /\ posted[i] \in Nat
        /\ posted'[i] = IF i = turn THEN posted[i] + 1 ELSE posted[i]
    BY <1>1 DEF OutboundInv, Counted, TypeOK
  <2>2. copies'[i] + limbo'[i] <= posted'[i]
    <3>1. copies'[i] + limbo'[i] <= copies[i] + limbo[i] + (IF i = turn THEN 1 ELSE 0)
          /\ copies'[i] \in Nat /\ limbo'[i] \in Nat
      BY DEF AtMostOneMore
    <3> DEFINE now == copies'[i] + limbo'[i]
               old == copies[i] + limbo[i]
    <3>2. /\ now \in Nat /\ old \in Nat /\ posted[i] \in Nat /\ old <= posted[i]
          /\ i = turn => now <= old + 1 /\ posted'[i] = posted[i] + 1
          /\ i # turn => now <= old /\ posted'[i] = posted[i]
      <4>0. now \in Nat
        BY <3>1
      <4>1. now \in Nat /\ old \in Nat /\ posted[i] \in Nat /\ old <= posted[i]
        BY <2>1, <4>0
      <4>2. CASE i = turn
        BY <2>1, <3>1, <4>1, <4>2
      <4>3. CASE i # turn
        <5>1. now <= old + 0
          BY <3>1, <4>3
        <5> HIDE DEF now, old
        <5>2. now <= old
          BY <4>1, <5>1
        <5> QED
          BY <2>1, <4>1, <4>3, <5>2
      <4> QED
        BY <4>1, <4>2, <4>3
    <3> HIDE DEF now, old
    <3>3. now <= posted'[i]
      BY <3>2
    <3> QED
      BY <3>3 DEF now
  <2>3. i > turn' => posted'[i] = 0
    BY <1>0, <1>3, <2>0, <2>1
  <2>4. i = turn' => posted'[i] <= attempt'
    <3>1. CASE i = turn
      <4>1. turn' = turn => attempt' = attempt + 1
        BY <1>0 DEF TurnAfterRequest
      <4>2. attempt \in Nat
        BY DEF OutboundInv, TypeOK
      <4> QED
        BY <1>1, <2>1, <3>1, <4>1, <4>2
    <3>2. CASE i > turn
      BY <1>3, <2>1, <3>2
    <3>3. CASE i < turn
      BY <1>0, <1>3, <2>0, <3>3
    <3> QED
      BY <1>0, <2>0, <3>1, <3>2, <3>3
  <2> QED
    BY <2>2, <2>3, <2>4
<1>7. Substitutes'
  <2>1. confirmed' \subseteq 1 .. turn' - 1
    <3>1. CASE turn' = turn
      BY <1>1, <1>4, <3>1 DEF TurnAfterRequest
    <3>2. CASE turn' \in {turn + 1, turn + 2}
      <4>1. turn' \in Nat /\ turn' > turn
        BY <1>0, <3>2
      <4>2. turn \in Nat \ {0} /\ turn <= turn' - 1
        <5>1. turn' = turn + 1 \/ turn' = turn + 2
          BY <3>2
        <5>2. turn \in Nat /\ 1 <= turn
          BY <1>0
        <5> QED
          BY <5>1, <5>2
      <4>3. ASSUME NEW i \in confirmed \cup {turn} PROVE i \in 1 .. turn' - 1
        <5>1. i = turn \/ i \in 1 .. turn - 1
          BY <1>4
        <5> QED
          BY <4>1, <4>2, <5>1
      <4> QED
        BY <1>4, <4>3
    <3> QED
      BY <3>1, <3>2 DEF TurnAfterRequest
  <2>2. ASSUME NEW i \in plan.alts, i = turn' \/ (i \in Posts /\ posted'[i] > 0)
        PROVE  i - 1 \notin confirmed'
    <3>1. i \in Posts /\ i \in Nat /\ i > 1
      BY <1>2
    <3>2. CASE i < turn \/ i = turn
      <4>1. i = turn \/ posted[i] > 0
        <5>1. CASE i = turn
          BY <5>1
        <5>2. CASE i < turn
          <6>1. i # turn' /\ posted'[i] = posted[i]
            BY <1>1, <1>3, <3>1, <5>2
          <6> QED
            BY <2>2, <6>1
        <5> QED
          BY <3>2, <5>1, <5>2
      <4>2. i - 1 \notin confirmed
        BY <3>1, <4>1 DEF OutboundInv, Substitutes
      <4> QED
        BY <1>1, <1>4, <3>1, <3>2, <4>2
    <3>3. CASE i > turn
      <4>1. posted'[i] = 0
        BY <1>1, <3>1, <3>3 DEF OutboundInv, Counted
      <4>2. i = turn'
        BY <2>2, <4>1
      <4> QED
        BY <1>1, <1>4, <3>1, <3>3, <4>2 DEF TurnAfterRequest
    <3> QED
      BY <1>1, <3>1, <3>2, <3>3
  <2> QED
    BY <1>1, <2>1, <2>2 DEF Substitutes
<1>8. Tried'
  <2> SUFFICES ASSUME NEW i \in Posts, i < turn' \/ (i = turn' /\ attempt' > 0)
               PROVE  posted'[i] > 0 \/ (i \in plan.alts /\ i - 1 \in confirmed')
    BY <1>1 DEF Tried
  <2>0. i \in Nat /\ turn' \in Nat
    BY <1>2, <1>3
  <2>1. CASE i < turn
    <3>1. posted[i] > 0 \/ (i \in plan.alts /\ i - 1 \in confirmed)
      BY <1>1, <2>1 DEF OutboundInv, Tried
    <3>2. posted'[i] = posted[i] /\ confirmed \subseteq confirmed'
      <4>1. i # turn
        BY <1>0, <2>0, <2>1
      <4> QED
        BY <1>1, <4>1 DEF TurnAfterRequest, OutboundInv, TypeOK
    <3> QED
      BY <3>1, <3>2
  <2>2. CASE i = turn
    BY <1>1, <2>2 DEF OutboundInv, TypeOK
  <2>3. CASE i > turn
    <3>1. i < turn' \/ (i = turn' /\ attempt' > 0)
      OBVIOUS
    <3>2. turn' # turn
      BY <1>0, <2>0, <2>3, <3>1
    <3>3. attempt' = 0 /\ (turn' = turn + 1 \/ turn' = turn + 2)
      BY <3>2 DEF TurnAfterRequest
    <3>4. turn' = turn + 2 /\ i = turn + 1
      BY <1>0, <2>0, <2>3, <3>1, <3>3
    <3>5. i \in plan.alts /\ confirmed' = confirmed \cup {turn} /\ i - 1 = turn
      BY <1>0, <3>4 DEF TurnAfterRequest
    <3> QED
      BY <3>5
  <2> QED
    BY <1>0, <2>0, <2>1, <2>2, <2>3
<1> QED
  BY <1>1, <1>3, <1>5, <1>6, <1>7, <1>8 DEF OutboundInv, NeverOverruns

-----------------------------------------------------------------------------
(* The actions keep the invariant *)

LEMMA AcceptedKeeps == ASSUME OutboundInv, Accepted PROVE OutboundInv'
<1>1. /\ turn \in Posts /\ turn \in Nat
      /\ copies[turn] + limbo[turn] < MaxRetries
  BY RequestFacts DEF Accepted
<1>2. AtMostOneMore
  BY <1>1, OneMoreCopy DEF Accepted, OutboundInv
<1>3. TurnAfterRequest
  BY DEF Accepted, ReturnNil, GoOn, TurnAfterRequest
<1> QED
  BY <1>2, <1>3, RequestKeeps DEF Accepted

LEMMA RefusedKeeps == ASSUME OutboundInv, Refused PROVE OutboundInv'
<1>1. AtMostOneMore
  BY DEF Refused, AtMostOneMore, OutboundInv, TypeOK
<1>2. TurnAfterRequest
  BY DEF Refused, ReturnError, GoOn, TurnAfterRequest
<1> QED
  BY <1>1, <1>2, RequestKeeps DEF Refused

LEMMA FailedKeeps == ASSUME OutboundInv, Failed PROVE OutboundInv'
<1>1. /\ turn \in Posts /\ turn \in Nat
      /\ copies[turn] + limbo[turn] < MaxRetries
  BY RequestFacts DEF Failed
<1>2. AtMostOneMore
  <2>1. CASE UNCHANGED <<copies, limbo>>
    BY <2>1 DEF AtMostOneMore, OutboundInv, TypeOK
  <2>2. CASE copies' = [copies EXCEPT ![turn] = @ + 1] /\ UNCHANGED limbo
    BY <1>1, <2>2, OneMoreCopy DEF OutboundInv
  <2>3. CASE limbo' = [limbo EXCEPT ![turn] = @ + 1] /\ UNCHANGED copies
    BY <1>1, <2>3, OneMoreLate DEF OutboundInv
  <2> QED
    BY <2>1, <2>2, <2>3 DEF Failed
<1>3. TurnAfterRequest
  BY <1>1, RetryFacts DEF Failed, TurnAfterRequest, OutboundInv
<1> QED
  BY <1>2, <1>3, RequestKeeps DEF Failed

(***************************************************************************)
(* A step that makes no request: it may go on to the next message only     *)
(* when the context is over.                                               *)
(***************************************************************************)
LEMMA NoRequestKeeps ==
    ASSUME OutboundInv, turn \in Posts,
           UNCHANGED <<plan, confirmed, posted, copies, limbo>>,
           clock' \in clock .. Deadline,
           pc' \in {"request", "pause"},
           \/ /\ turn' = turn
              /\ attempt' \in attempt .. MaxRetries - 1
              /\ pc' = "pause" => attempt' > 0
              /\ attempt' > 0 => attempt > 0 \/ clock' >= Deadline
           \/ turn' = turn + 1 /\ pc' = "request" /\ attempt' = 0 /\ clock' >= Deadline
    PROVE  OutboundInv'
<1> USE RetryAssumption
<1>1. /\ plan.len \in Nat \ {0} /\ plan.alts \subseteq Posts /\ 1 \notin plan.alts
      /\ Posts = 1 .. plan.len /\ turn \in Nat /\ turn > 0 /\ Posts' = Posts
  BY PlanFacts DEF OutboundInv, Posts
<1>2. TypeOK'
  <2>1. turn' \in 1 .. plan.len + 1
    BY <1>1
  <2>2. attempt' \in 0 .. MaxRetries - 1 /\ clock' \in Nat
    BY DEF OutboundInv, TypeOK
  <2> QED
    BY <1>1, <2>1, <2>2 DEF OutboundInv, TypeOK
<1>3. NeverOverruns' /\ (pc' = "pause" => attempt' > 0)
  BY DEF OutboundInv, TypeOK, NeverOverruns
<1>4. Counted'
  <2> SUFFICES ASSUME NEW i \in Posts
               PROVE  /\ i > turn' => posted[i] = 0
                      /\ i = turn' => posted[i] <= attempt'
                      /\ copies[i] + limbo[i] <= posted[i]
    BY <1>1 DEF Counted
  <2>1. /\ i > turn => posted[i] = 0
        /\ i = turn => posted[i] <= attempt
        /\ copies[i] + limbo[i] <= posted[i]
        /\ posted[i] \in Nat /\ attempt \in Nat
    BY DEF OutboundInv, TypeOK, Counted
  <2>2. CASE turn' = turn /\ attempt' \in attempt .. MaxRetries - 1
    BY <2>1, <2>2
  <2>3. CASE turn' = turn + 1
    <3>1. i \in Nat /\ (i >= turn + 1 => i > turn)
      BY <1>1
    <3> QED
      BY <1>1, <2>1, <2>3, <3>1
  <2> QED
    BY <2>2, <2>3
<1>5. Substitutes'
  <2>1. confirmed' \subseteq 1 .. turn' - 1
    BY <1>1 DEF OutboundInv, Substitutes
  <2>2. ASSUME NEW i \in plan.alts, i = turn' \/ (i \in Posts /\ posted[i] > 0)
        PROVE  i - 1 \notin confirmed
    BY <1>1, <2>2 DEF OutboundInv, Substitutes
  <2> QED
    BY <1>1, <2>1, <2>2 DEF Substitutes
<1>6. ASSUME ~Expired' PROVE Tried'
  <2>1. ~Expired /\ ~(clock' >= Deadline)
    BY <1>6 DEF Expired, OutboundInv, TypeOK
  <2>2. turn' = turn /\ (attempt' > 0 => attempt > 0)
    BY <2>1
  <2> QED
    BY <1>1, <2>1, <2>2 DEF OutboundInv, Tried
<1>7. Tried'
  BY <1>6 DEF Tried
<1> QED
  BY <1>2, <1>3, <1>4, <1>5, <1>7 DEF OutboundInv

LEMMA NotSentKeeps == ASSUME OutboundInv, NotSent PROVE OutboundInv'
<1>1. clock' \in clock .. Deadline /\ clock' >= Deadline
  BY RetryAssumption DEF NotSent, Expired, OutboundInv, TypeOK, NeverOverruns
<1>2. \/ /\ turn' = turn /\ pc' = "pause" /\ attempt' \in attempt .. MaxRetries - 1 /\ attempt' > 0
      \/ turn' = turn + 1 /\ pc' = "request" /\ attempt' = 0
  <2>1. attempt \in Nat /\ MaxRetries \in Nat
    BY RetryAssumption DEF OutboundInv, TypeOK
  <2>2. TypeOK /\ turn \in Posts /\ Retry
    BY DEF NotSent, OutboundInv
  <2>3. CASE /\ turn' = turn /\ pc' = "pause" /\ attempt' = attempt + 1
             /\ attempt' \in 1 .. MaxRetries - 1
    BY <2>1, <2>3
  <2>4. CASE turn' = turn + 1 /\ pc' = "request" /\ attempt' = 0
    BY <2>4
  <2> QED
    BY <2>2, <2>3, <2>4, RetryFacts
<1> QED
  BY <1>1, <1>2, NoRequestKeeps DEF NotSent

LEMMA PauseKeeps == ASSUME OutboundInv, Pause PROVE OutboundInv'
<1>0. attempt \in Nat /\ attempt > 0 /\ attempt < MaxRetries /\ MaxRetries \in Nat /\ clock \in Nat
      /\ Deadline \in Nat /\ clock <= Deadline
  BY RetryAssumption DEF Pause, OutboundInv, TypeOK, NeverOverruns
<1>1. Backoff[attempt] \in Nat
  BY <1>0, RetryAssumption
<1>2. CASE clock + Backoff[attempt] >= Deadline
  <2>1. clock' \in clock .. Deadline /\ clock' >= Deadline
    BY <1>0, <1>2 DEF Pause, Expired
  <2>2. turn' = turn + 1 /\ pc' = "request" /\ attempt' = 0
    BY <1>2, ReturnErrorFacts DEF Pause, OutboundInv
  <2> QED
    BY <2>1, <2>2, NoRequestKeeps DEF Pause
<1>3. CASE ~(clock + Backoff[attempt] >= Deadline)
  <2>1. clock' \in clock .. Deadline
    BY <1>0, <1>1, <1>3 DEF Pause
  <2>2. turn' = turn /\ pc' = "request" /\ attempt' = attempt
        /\ attempt' \in attempt .. MaxRetries - 1
    BY <1>0, <1>3 DEF Pause
  <2> QED
    BY <1>0, <2>1, <2>2, NoRequestKeeps DEF Pause
<1> QED
  BY <1>2, <1>3

LEMMA CallElsewhereKeeps == ASSUME OutboundInv, CallElsewhere PROVE OutboundInv'
<1>1. turn \in Posts
  BY PlanFacts DEF CallElsewhere, OutboundInv
<1>2. clock' \in clock .. Deadline
  BY RetryAssumption DEF CallElsewhere, OutboundInv, TypeOK
<1>3. attempt' \in attempt .. MaxRetries - 1 /\ attempt' = attempt
  BY RetryAssumption DEF CallElsewhere, OutboundInv, TypeOK
<1> QED
  BY <1>1, <1>2, <1>3, NoRequestKeeps DEF CallElsewhere

\* What the API knows of message i when a request for it is still under way.
LEMMA LateFacts ==
    ASSUME OutboundInv, NEW i \in Posts, Late(i)
    PROVE  /\ i <= turn
           /\ copies[i] \in Nat /\ copies[i] < MaxRetries
           /\ i \in plan.alts => i - 1 \notin confirmed
           /\ plan' = plan /\ Posts' = Posts
<1>1. /\ copies[i] + limbo[i] <= posted[i] /\ posted[i] <= MaxRetries /\ limbo[i] > 0
      /\ copies[i] \in Nat /\ limbo[i] \in Nat /\ posted[i] \in Nat /\ MaxRetries \in Nat
      /\ i > turn => posted[i] = 0
  BY RetryAssumption DEF OutboundInv, TypeOK, Counted, Late
<1>2. posted[i] > 0 /\ copies[i] < MaxRetries
  BY <1>1
<1>3. i <= turn
  BY <1>1, <1>2, PlanFacts DEF OutboundInv
<1>4. i \in plan.alts => i - 1 \notin confirmed
  BY <1>2 DEF OutboundInv, Substitutes
<1> QED
  BY <1>1, <1>2, <1>3, <1>4 DEF Late, Posts

LEMMA LateKeeps == ASSUME OutboundInv, NEW i \in Posts, Late(i) PROVE OutboundInv'
<1>0. copies[i] \in Nat /\ copies[i] < MaxRetries /\ limbo[i] \in 0 .. MaxRetries /\ limbo[i] > 0
      /\ MaxRetries \in Nat /\ plan' = plan /\ Posts' = Posts
  BY LateFacts, RetryAssumption DEF OutboundInv, TypeOK, Late
<1>1. copies' \in [Posts -> 0 .. MaxRetries] /\ limbo' \in [Posts -> 0 .. MaxRetries]
  <2>1. copies[i] + 1 \in 0 .. MaxRetries /\ limbo[i] - 1 \in 0 .. MaxRetries
    BY <1>0
  <2> QED
    BY <2>1 DEF OutboundInv, TypeOK, Late
<1>2. \A k \in Posts : copies'[k] + limbo'[k] = copies[k] + limbo[k]
  BY RetryAssumption DEF OutboundInv, TypeOK, Late
<1>3. TypeOK' /\ Counted'
  BY <1>0, <1>1, <1>2 DEF OutboundInv, TypeOK, Counted, Late
<1> QED
  BY <1>0, <1>3 DEF OutboundInv, NeverOverruns, Substitutes, Tried, Expired, Late

LEMMA OutboundNext == OutboundInv /\ [Next]_vars => OutboundInv'
<1> SUFFICES ASSUME OutboundInv, [Next]_vars PROVE OutboundInv'
  OBVIOUS
<1>1. CASE UNCHANGED vars
  BY <1>1 DEF vars, OutboundInv, TypeOK, NeverOverruns, Counted, Substitutes, Tried,
       Expired, Posts
<1> QED
  BY <1>1, AcceptedKeeps, RefusedKeeps, FailedKeeps, NotSentKeeps, PauseKeeps,
     CallElsewhereKeeps, LateKeeps
  DEF Next, Post

LEMMA OutboundInvariance == Spec => []OutboundInv
  BY OutboundInit, OutboundNext, PTL DEF Spec

-----------------------------------------------------------------------------
(* The theorems *)

(***************************************************************************)
(* The counters of attempts, requests and copies keep their bounds: post   *)
(* makes at most maxRetries requests for a message, for every maxRetries.  *)
(***************************************************************************)
THEOREM OutboundTypeCorrect == Spec => []TypeOK
<1>1. OutboundInv => TypeOK
  BY DEF OutboundInv
<1> QED
  BY <1>1, OutboundInvariance, PTL

(***************************************************************************)
(* No send outlives the context of its job, however often it is repeated,  *)
(* however long a request may take by itself, and whatever the pauses.     *)
(***************************************************************************)
THEOREM NoSendOverruns == Spec => []NeverOverruns
<1>1. OutboundInv => NeverOverruns
  BY DEF OutboundInv
<1> QED
  BY <1>1, OutboundInvariance, PTL

(***************************************************************************)
(* A send that fails costs itself only: while there is time, the handler   *)
(* tries every message of its job that is still needed.                    *)
(***************************************************************************)
THEOREM EverySendTried == Spec => []EachSendTried
<1>1. ASSUME OutboundInv PROVE EachSendTried
  <2> SUFFICES ASSUME Done, ~Expired, NEW i \in Posts
               PROVE  posted[i] > 0 \/ (i \in plan.alts /\ i - 1 \in confirmed)
    BY DEF EachSendTried
  <2>1. i < turn
    BY <1>1, PlanFacts DEF Done, OutboundInv
  <2> QED
    BY <1>1, <2>1 DEF OutboundInv, Tried
<1> QED
  BY <1>1, OutboundInvariance, PTL

-----------------------------------------------------------------------------
(* The refinement *)

LEMMA AcceptedConfirms == ASSUME OutboundInv, Accepted PROVE D!Confirm
<1>1. turn \in Posts /\ copies[turn] + limbo[turn] < MaxRetries
  BY RequestFacts DEF Accepted
<1>2. turn \in D!Posts /\ copies[turn] < MaxRetries
  BY <1>1, RetryAssumption DEF D!Posts, Posts, OutboundInv, TypeOK
<1>3. turn' = D!After(turn, confirmed')
  BY DEF Accepted, ReturnNil, GoOn, D!After
<1> QED
  BY <1>2, <1>3 DEF Accepted, Request, D!Confirm, D!CanShow, D!Shown

LEMMA RefusedGivesUp == ASSUME OutboundInv, Refused PROVE D!GiveUp
<1>1. turn \in D!Posts
  BY DEF Refused, Request, D!Posts, Posts
<1> QED
  BY <1>1 DEF Refused, Request, ReturnError, GoOn, D!GiveUp

LEMMA FailedShowsOrGivesUp ==
    ASSUME OutboundInv, Failed
    PROVE  D!Next \/ UNCHANGED <<plan, turn, confirmed, copies>>
<1>1. /\ turn \in Posts /\ turn \in Nat /\ copies[turn] + limbo[turn] < MaxRetries
      /\ turn \in plan.alts => turn - 1 \notin confirmed
  BY RequestFacts DEF Failed
<1>2. turn \in D!Posts /\ copies[turn] < MaxRetries
  BY <1>1, RetryAssumption DEF D!Posts, Posts, OutboundInv, TypeOK
<1>3. UNCHANGED <<plan, confirmed>>
  BY DEF Failed, Request
<1>4. copies' = [copies EXCEPT ![turn] = @ + 1] \/ UNCHANGED copies
  BY DEF Failed
<1>5. CASE turn' = turn
  <2>1. CASE UNCHANGED copies
    BY <1>3, <1>5, <2>1
  <2>2. CASE copies' = [copies EXCEPT ![turn] = @ + 1]
    <3>1. D!Show(turn)
      BY <1>1, <1>2, <1>3, <1>5, <2>2 DEF D!Show, D!CanShow, D!Shown
    <3> QED
      BY <1>2, <3>1 DEF D!Next
  <2> QED
    BY <1>4, <2>1, <2>2
<1>6. CASE turn' = turn + 1
  <2>1. D!GiveUp
    BY <1>2, <1>3, <1>4, <1>6 DEF D!GiveUp, D!CanShow, D!Shown
  <2> QED
    BY <2>1 DEF D!Next
<1> QED
  BY <1>1, <1>5, <1>6, RetryFacts DEF Failed, OutboundInv

\* A step that makes no request shows nothing.
LEMMA NoRequestGivesUp ==
    ASSUME OutboundInv, turn \in Posts, turn' \in {turn, turn + 1},
           UNCHANGED <<plan, confirmed, copies>>
    PROVE  D!Next \/ UNCHANGED <<plan, turn, confirmed, copies>>
  BY DEF D!Next, D!GiveUp, D!Posts, Posts

LEMMA LateShows == ASSUME OutboundInv, NEW i \in Posts, Late(i) PROVE D!Next
<1>1. i \in D!Posts
  BY DEF D!Posts, Posts
<1>2. D!Show(i)
  BY <1>1, LateFacts DEF Late, D!Show, D!CanShow, D!Shown
<1> QED
  BY <1>1, <1>2 DEF D!Next

LEMMA NextDelivers ==
    ASSUME OutboundInv, [Next]_vars
    PROVE  D!Next \/ UNCHANGED <<plan, turn, confirmed, copies>>
<1>1. CASE Accepted
  BY <1>1, AcceptedConfirms DEF D!Next
<1>2. CASE Refused
  BY <1>2, RefusedGivesUp DEF D!Next
<1>3. CASE Failed
  BY <1>3, FailedShowsOrGivesUp
<1>4. CASE NotSent
  BY <1>4, NoRequestGivesUp, RetryFacts DEF NotSent, OutboundInv
<1>5. CASE Pause
  BY <1>5, NoRequestGivesUp, ReturnErrorFacts DEF Pause, OutboundInv
<1>6. CASE CallElsewhere
  BY <1>6 DEF CallElsewhere
<1>7. CASE \E i \in Posts : Late(i)
  BY <1>7, LateShows
<1>8. CASE UNCHANGED vars
  BY <1>8 DEF vars
<1> QED
  BY <1>1, <1>2, <1>3, <1>4, <1>5, <1>6, <1>7, <1>8 DEF Next, Post

(***************************************************************************)
(* What the citizen is shown: messages in their order, no more copies than *)
(* attempts, what is confirmed and no substitute for it, with answers that *)
(* are lost or late, and a context that ends between any two steps.        *)
(***************************************************************************)
THEOREM ImplementsDelivery == Spec => DeliverySpec
<1>1. Init => D!Init
  BY DEF Init, D!Init, D!Posts, Posts
<1>2. OutboundInv /\ [Next]_vars => [D!Next]_<<plan, turn, confirmed, copies>>
  BY NextDelivers
<1> QED
  BY <1>1, <1>2, OutboundInvariance, PTL DEF Spec, DeliverySpec, D!Spec

=============================================================================
