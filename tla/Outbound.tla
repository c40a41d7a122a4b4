------------------------------ MODULE Outbound ------------------------------
(***************************************************************************)
(* The sends of one job: the messages a handler of internal/bot sends one  *)
(* after the other, and Client.post of internal/whatsapp/client.go, which  *)
(* makes up to maxRetries requests for each of them, all under the job's   *)
(* context with its deadline.                                              *)
(*                                                                         *)
(* Time is counted from the start of the job, and a step says how long it  *)
(* took. The other end is Meta's Cloud API: it may show a message to the   *)
(* citizen although the request seemed to fail, at once or later.          *)
(***************************************************************************)
EXTENDS Naturals

CONSTANTS
    MaxRetries,   \* maxRetries: 3
    Backoff,      \* retryBackoff: 200 ms before the 2nd attempt, 600 ms before the 3rd
    AttemptTime,  \* the longest a request takes: 15 s, the Timeout of the http.Client
    Deadline,     \* jobTimeout: 12 s
    Links         \* URL buttons of the main menu: 3

ASSUME RetryAssumption ==
    /\ MaxRetries \in Nat \ {0}
    /\ Backoff \in [1 .. MaxRetries -> Nat \ {0}]
    /\ {AttemptTime, Deadline, Links} \subseteq Nat \ {0}

VARIABLES
    plan,       \* the messages of the job, in order
    turn,       \* the message being sent, plan.len + 1 at the end
    pc,         \* where post is: before a request or before a pause
    attempt,    \* requests made for this message
    clock,      \* time since the job began
    confirmed,  \* the messages whose post returned nil
    posted,     \* requests that left the process, per message
    copies,     \* how often each message was shown to the citizen
    limbo       \* requests given up that may still take effect, per message

vars == <<plan, turn, pc, attempt, clock, confirmed, posted, copies, limbo>>

-----------------------------------------------------------------------------
(* What the handlers send *)

\* Messages 1 .. len; a message in alts is sent only if the one before it failed, and
\* between a message in calls and the one before it the handler makes other calls.
Plan(len, alts, calls) == [len |-> len, alts |-> alts, calls |-> calls]

\* sendPinPromptWithImage: the image, or else the text alone.
PinPrompt == Plan(2, {2}, {})

\* sendMainMenu: the photo, or else the text, then one message per button.
PhotoMenu == Plan(2 + Links, {2}, {})
PlainMenu == Plan(1 + Links, {}, {})

\* A refusal and the prompt of another step, which the handler stores or queries first: as
\* in the fallbacks of promptNagarsevak and handleNagarsevakReply.
TwoPrompts == Plan(2, {}, {2})

\* The fallback of handleNagarsevakReply runs into that of promptNagarsevak.
ThreePrompts == Plan(3, {}, {2, 3})

\* Every other prompt.
OneMessage == Plan(1, {}, {})

Plans == {PinPrompt, PhotoMenu, PlainMenu, TwoPrompts, ThreePrompts, OneMessage}

Posts == 1 .. plan.len

TypeOK ==
    /\ plan \in Plans
    /\ turn \in 1 .. plan.len + 1
    /\ pc \in {"request", "pause"}
    /\ attempt \in 0 .. MaxRetries - 1
    /\ clock \in Nat
    /\ confirmed \subseteq Posts
    /\ posted \in [Posts -> 0 .. MaxRetries]
    /\ copies \in [Posts -> 0 .. MaxRetries]
    /\ limbo \in [Posts -> 0 .. MaxRetries]

\* The handler begins to send at any time: the calls before took some of it.
Init ==
    /\ plan \in Plans
    /\ turn = 1 /\ pc = "request" /\ attempt = 0
    /\ clock \in 0 .. Deadline
    /\ confirmed = {}
    /\ posted = [i \in Posts |-> 0]
    /\ copies = [i \in Posts |-> 0]
    /\ limbo = [i \in Posts |-> 0]

-----------------------------------------------------------------------------
(* Client.post *)

Expired == clock >= Deadline

\* post returns to the handler, which goes on with message i.
GoOn(i) == turn' = i /\ pc' = "request" /\ attempt' = 0

\* Faulty variant: the handler returns at the first error.
StopAtError == GoOn(plan.len + 1)

\* Callers log an error or ignore it, and send what comes next.
ReturnError == GoOn(turn + 1)

\* Faulty variant: the substitute is sent in any case.
ReturnNilAlways == GoOn(turn + 1)

ReturnNil ==
    GoOn(IF turn + 1 \in plan.alts THEN turn + 2 ELSE turn + 1)

\* Faulty variant: one request too many.
RetryOnceMore ==
    IF attempt < MaxRetries
    THEN attempt' = attempt + 1 /\ pc' = "pause" /\ UNCHANGED turn
    ELSE ReturnError

\* `continue`: the loop goes on while there are attempts left.
Retry ==
    IF attempt + 1 < MaxRetries
    THEN attempt' = attempt + 1 /\ pc' = "pause" /\ UNCHANGED turn
    ELSE ReturnError

\* A request leaves, and its answer or its end comes within AttemptTime and the deadline.
Request ==
    /\ turn \in Posts /\ pc = "request" /\ ~Expired
    /\ \E took \in 0 .. AttemptTime :
          clock + took <= Deadline /\ clock' = clock + took
    /\ posted' = [posted EXCEPT ![turn] = @ + 1]
    /\ UNCHANGED plan

\* Status below 400.
Accepted ==
    /\ Request
    /\ copies' = [copies EXCEPT ![turn] = @ + 1]
    /\ confirmed' = confirmed \cup {turn}
    /\ ReturnNil
    /\ UNCHANGED limbo

\* Status 4xx: not repeated.
Refused ==
    /\ Request
    /\ ReturnError
    /\ UNCHANGED <<confirmed, copies, limbo>>

\* Status 5xx, a connection error or a timeout: the message was shown, is lost, or is late.
Failed ==
    /\ Request
    /\ \/ copies' = [copies EXCEPT ![turn] = @ + 1] /\ UNCHANGED limbo
       \/ limbo' = [limbo EXCEPT ![turn] = @ + 1] /\ UNCHANGED copies
       \/ UNCHANGED <<copies, limbo>>
    /\ Retry
    /\ UNCHANGED confirmed

\* Faulty variant: such a failure does not count as an attempt.
NotSentNotCounted ==
    /\ turn \in Posts /\ pc = "request" /\ Expired
    /\ GoOn(turn)
    /\ UNCHANGED <<plan, clock, confirmed, posted, copies, limbo>>

\* With an expired context Do fails at once and nothing leaves.
NotSent ==
    /\ turn \in Posts /\ pc = "request" /\ Expired
    /\ Retry
    /\ UNCHANGED <<plan, clock, confirmed, posted, copies, limbo>>

\* Faulty variant: time.Sleep instead of the select.
PauseDeaf ==
    /\ turn \in Posts /\ pc = "pause"
    /\ clock' = clock + Backoff[attempt]
    /\ IF clock' >= Deadline THEN ReturnError
       ELSE pc' = "request" /\ UNCHANGED <<turn, attempt>>
    /\ UNCHANGED <<plan, confirmed, posted, copies, limbo>>

\* The select between the end of the context and the timer.
Pause ==
    /\ turn \in Posts /\ pc = "pause"
    /\ IF clock + Backoff[attempt] >= Deadline
       THEN clock' = (IF Expired THEN clock ELSE Deadline) /\ ReturnError
       ELSE /\ clock' = clock + Backoff[attempt]
            /\ pc' = "request" /\ UNCHANGED <<turn, attempt>>
    /\ UNCHANGED <<plan, confirmed, posted, copies, limbo>>

\* Before the prompt of another step the handler stores the session or queries the directory.
CallElsewhere ==
    /\ turn \in plan.calls /\ pc = "request" /\ attempt = 0
    /\ ~Expired /\ clock' \in clock + 1 .. Deadline
    /\ UNCHANGED <<plan, turn, pc, attempt, confirmed, posted, copies, limbo>>

\* The API gets to a request that its sender had given up.
Late(i) ==
    /\ limbo[i] > 0
    /\ limbo' = [limbo EXCEPT ![i] = @ - 1]
    /\ copies' = [copies EXCEPT ![i] = @ + 1]
    /\ UNCHANGED <<plan, turn, pc, attempt, clock, confirmed, posted>>

Post == Accepted \/ Refused \/ Failed \/ NotSent \/ Pause

Done == turn > plan.len

Next == Post \/ CallElsewhere \/ \E i \in Posts : Late(i)

Spec == Init /\ [][Next]_vars

\* A goroutine that can go on does; whether late requests take effect is up to the API.
FairSpec == Spec /\ WF_vars(Post)

-----------------------------------------------------------------------------
(* Properties *)

(***************************************************************************)
(* jobTimeout is "the max time a single message may take end-to-end": with *)
(* whatever retries, pauses and substitutes, no send outlives the context. *)
(***************************************************************************)
NeverOverruns == clock <= Deadline

(***************************************************************************)
(* A send that fails costs itself only: unless the deadline has passed,    *)
(* every message of the job has been tried, or was not needed because the  *)
(* message it stands in for was confirmed. A menu without photo still has  *)
(* its text and its buttons.                                               *)
(***************************************************************************)
EachSendTried ==
    Done /\ ~Expired =>
       \A i \in Posts : posted[i] > 0 \/ (i \in plan.alts /\ i - 1 \in confirmed)

(***************************************************************************)
(* The worker is free again: neither retries nor an API that never answers *)
(* keep a job for ever. This is what the fairness of the other modules     *)
(* and their JobTime rest on.                                              *)
(***************************************************************************)
JobEnds == <>Done

(***************************************************************************)
(* The refinement: attempts, pauses, clock and late requests are hidden.   *)
(***************************************************************************)
D == INSTANCE Delivery WITH MaxCopies <- MaxRetries
DeliverySpec == D!Spec

=============================================================================
