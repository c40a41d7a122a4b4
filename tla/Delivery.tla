------------------------------ MODULE Delivery ------------------------------
(***************************************************************************)
(* What a job's outbound messages promise the citizen, whatever happens on *)
(* the way: nothing is shown before its turn, the API's confirmation means *)
(* that the message is there, a message is shown a limited number of       *)
(* times, and the substitute for a message is sent only as long as that    *)
(* message is not confirmed.                                               *)
(***************************************************************************)
EXTENDS Naturals

CONSTANT MaxCopies

VARIABLES
    plan,       \* messages 1 .. len, of which alts stand in for the one before
    turn,       \* the message being sent, len + 1 at the end
    confirmed,  \* the messages the API has confirmed
    copies      \* how often each message has been shown

Posts == 1 .. plan.len

\* The turn after message i, given the messages that are confirmed.
After(i, done) == IF i \in done /\ i + 1 \in plan.alts THEN i + 2 ELSE i + 1

Init ==
    /\ turn = 1
    /\ confirmed = {}
    /\ copies = [i \in Posts |-> 0]

CanShow(i) == i \in Posts /\ copies[i] < MaxCopies

Shown(i) == copies' = [copies EXCEPT ![i] = @ + 1]

\* A message shows up, perhaps again, perhaps long after its turn.
Show(i) ==
    /\ CanShow(i) /\ i <= turn
    /\ ~(i \in plan.alts /\ i - 1 \in confirmed)
    /\ Shown(i)
    /\ UNCHANGED <<plan, turn, confirmed>>

Confirm ==
    /\ CanShow(turn)
    /\ Shown(turn)
    /\ confirmed' = confirmed \cup {turn}
    /\ turn' = After(turn, confirmed')
    /\ UNCHANGED plan

\* The sender turns to the next message; the one given up may have arrived.
GiveUp ==
    /\ turn \in Posts
    /\ turn' = turn + 1
    /\ UNCHANGED copies \/ (CanShow(turn) /\ Shown(turn))
    /\ UNCHANGED <<plan, confirmed>>

Next == (\E i \in Posts : Show(i)) \/ Confirm \/ GiveUp

Spec == Init /\ [][Next]_<<plan, turn, confirmed, copies>>

=============================================================================
