----------------------------- MODULE WorkerPool -----------------------------
(***************************************************************************)
(* From Meta's POST to a worker: the webhook handler of cmd/server that    *)
(* enqueues the messages of a payload, the buffered channel and the worker *)
(* goroutines of internal/worker, and the shutdown of main.go.             *)
(*                                                                         *)
(* A Go channel hands a message to a receiver that is parked on it without *)
(* passing the buffer; a select with a default drops the message when no   *)
(* receiver is parked and the buffer is full. What a worker does with its  *)
(* message is the subject of Conversation.                                 *)
(***************************************************************************)
EXTENDS Naturals, Sequences, Functions

CONSTANTS
    Payloads,   \* webhook payloads that Meta has to deliver
    Messages,   \* the messages in them
    Body,       \* the messages of each payload, in order
    Broken,     \* messages on which the handler panics
    Workers,    \* WORKER_COUNT goroutines
    Depth,      \* QUEUE_DEPTH
    MaxPosts,   \* bound: how often Meta tries to deliver a payload
    Faults,     \* what may go wrong; see FaultKinds
    Nil

(***************************************************************************)
(* body: a payload is cut short or does not parse; ack: the response does  *)
(* not reach Meta; crash: the process dies at once.                        *)
(***************************************************************************)
FaultKinds == {"body", "ack", "crash"}

ASSUME PoolAssumption ==
    /\ Depth \in Nat /\ MaxPosts \in Nat
    /\ Body \in [Payloads -> Seq(Messages)]
    /\ Nil \notin Messages

ASSUME FaultsAssumption == Faults \subseteq FaultKinds

VARIABLES
    phase,     \* the process: up, draining (main is in srv.Shutdown) or down
    request,   \* the POST request of each payload
    posts,     \* how often each payload was posted
    acked,     \* the payloads whose 200 reached Meta
    queue,     \* the buffer of the channel
    worker,    \* the worker goroutines
    accepted,  \* all messages this process took off a request, in that order
    started,   \* all messages its workers received, in that order
    runs       \* how often each message was started, by whatever process

meta    == <<posts, acked>>
channel == <<queue, worker, accepted, started, runs>>
vars    == <<phase, request, posts, acked, queue, worker, accepted, started, runs>>

Request == [pc : {"none", "read", "enqueue"}, todo : Seq(Messages)]
Worker  == [pc : {"ready", "parked", "busy"}, msg : Messages \cup {Nil}]

NoRequest == [pc |-> "none", todo |-> <<>>]
Ready     == [pc |-> "ready", msg |-> Nil]
Parked    == [pc |-> "parked", msg |-> Nil]
Busy(m)   == [pc |-> "busy", msg |-> m]

TypeOK ==
    /\ phase \in {"up", "draining", "down"}
    /\ request \in [Payloads -> Request]
    /\ posts \in [Payloads -> Nat]
    /\ acked \in SUBSET Payloads
    /\ queue \in Seq(Messages) /\ Len(queue) <= Depth
    /\ worker \in [Workers -> Worker]
    /\ accepted \in Seq(Messages)
    /\ started \in Seq(Messages)
    /\ runs \in [Messages -> Nat]

\* Pool.Start launches the goroutines; they are about to receive.
Init ==
    /\ phase = "up"
    /\ request = [b \in Payloads |-> NoRequest]
    /\ posts = [b \in Payloads |-> 0]
    /\ acked = {}
    /\ queue = <<>>
    /\ worker = [w \in Workers |-> Ready]
    /\ accepted = <<>>
    /\ started = <<>>
    /\ runs = [m \in Messages |-> 0]

May(f) == IF f \in Faults THEN BOOLEAN ELSE {FALSE}

-----------------------------------------------------------------------------
(* The channel *)

\* Worker w receives message m.
Start(w, m) ==
    /\ worker' = [worker EXCEPT ![w] = Busy(m)]
    /\ started' = Append(started, m)
    /\ runs' = [runs EXCEPT ![m] = @ + 1]

NoneParked == \A w \in Workers : worker[w] # Parked

\* To a parked receiver, without passing the buffer.
HandOver(m) ==
    /\ \E w \in Workers : worker[w] = Parked /\ Start(w, m)
    /\ accepted' = Append(accepted, m)
    /\ UNCHANGED queue

\* Faulty variant: a queue without a bound.
BufferUnbounded(m) ==
    /\ NoneParked
    /\ queue' = Append(queue, m)
    /\ accepted' = Append(accepted, m)
    /\ UNCHANGED <<worker, started, runs>>

Buffer(m) ==
    /\ NoneParked /\ Len(queue) < Depth
    /\ queue' = Append(queue, m)
    /\ accepted' = Append(accepted, m)
    /\ UNCHANGED <<worker, started, runs>>

\* The default branch of Enqueue: the message is logged and gone.
Drop == NoneParked /\ Len(queue) = Depth /\ UNCHANGED channel

-----------------------------------------------------------------------------
(* The webhook handler *)

\* Meta posts a payload until a 200 arrives.
Post(b) ==
    /\ phase = "up" /\ request[b].pc = "none"
    /\ b \notin acked /\ posts[b] < MaxPosts
    /\ request' = [request EXCEPT ![b] = [pc |-> "read", todo |-> <<>>]]
    /\ posts' = [posts EXCEPT ![b] = @ + 1]
    /\ UNCHANGED <<phase, acked, channel>>

\* receive: an unreadable payload has no messages, and the answer is 200 all the same.
Read(b) ==
    /\ request[b].pc = "read"
    /\ \E failed \in May("body") :
          request' = [request EXCEPT ![b] =
                        [pc |-> "enqueue", todo |-> IF failed THEN <<>> ELSE Body[b]]]
    /\ UNCHANGED <<phase, meta, channel>>

\* Faulty variant: the loop does not go on to the next message.
EnqueueAgain(b) ==
    /\ request[b].pc = "enqueue" /\ request[b].todo # <<>>
    /\ LET m == Head(request[b].todo) IN HandOver(m) \/ Buffer(m) \/ Drop
    /\ UNCHANGED <<phase, request, meta>>

\* One turn of the loop over payload.Messages().
Enqueue(b) ==
    /\ request[b].pc = "enqueue" /\ request[b].todo # <<>>
    /\ LET m == Head(request[b].todo) IN HandOver(m) \/ Buffer(m) \/ Drop
    /\ request' = [request EXCEPT ![b].todo = Tail(@)]
    /\ UNCHANGED <<phase, meta>>

\* The handler returns: only then does net/http send the 200 it wrote at its start.
Respond(b) ==
    /\ request[b].pc = "enqueue" /\ request[b].todo = <<>>
    /\ request' = [request EXCEPT ![b] = NoRequest]
    /\ \E lost \in May("ack") : acked' = IF lost THEN acked ELSE acked \cup {b}
    /\ UNCHANGED <<phase, posts, channel>>

-----------------------------------------------------------------------------
(* The workers: for job := range p.queue *)

\* Faulty variant: the worker takes the newest message.
ReceiveNewest(w) ==
    /\ worker[w] = Ready /\ queue # <<>>
    /\ Start(w, queue[Len(queue)])
    /\ queue' = SubSeq(queue, 1, Len(queue) - 1)
    /\ UNCHANGED <<phase, request, meta, accepted>>

Receive(w) ==
    /\ worker[w] = Ready /\ queue # <<>>
    /\ Start(w, Head(queue))
    /\ queue' = Tail(queue)
    /\ UNCHANGED <<phase, request, meta, accepted>>

Park(w) ==
    /\ worker[w] = Ready /\ queue = <<>>
    /\ worker' = [worker EXCEPT ![w] = Parked]
    /\ UNCHANGED <<phase, request, meta, queue, accepted, started, runs>>

\* The handler returns, at the latest after its job timeout.
Finish(w) ==
    /\ worker[w].pc = "busy" /\ worker[w].msg \notin Broken
    /\ worker' = [worker EXCEPT ![w] = Ready]
    /\ UNCHANGED <<phase, request, meta, queue, accepted, started, runs>>

\* Faulty variant: recover sits outside the loop, so that the worker is gone.
RecoverOnce(w) ==
    /\ worker[w].pc = "busy" /\ worker[w].msg \in Broken
    /\ UNCHANGED vars

\* The handler panics and the closure around it recovers: the worker goes on.
Recover(w) ==
    /\ worker[w].pc = "busy" /\ worker[w].msg \in Broken
    /\ worker' = [worker EXCEPT ![w] = Ready]
    /\ UNCHANGED <<phase, request, meta, queue, accepted, started, runs>>

-----------------------------------------------------------------------------
(* The process *)

\* SIGINT or SIGTERM cancels the context that main waits for.
Signal ==
    /\ phase = "up"
    /\ phase' = "draining"
    /\ UNCHANGED <<request, meta, channel>>

\* The process is gone, and what it had in memory with it.
Gone ==
    /\ phase' = "down"
    /\ request' = [b \in Payloads |-> NoRequest]
    /\ queue' = <<>>
    /\ worker' = [w \in Workers |-> Ready]
    /\ accepted' = <<>>
    /\ started' = <<>>
    /\ UNCHANGED <<posts, acked, runs>>

\* srv.Shutdown returns when no request is left, and main with it.
Exit ==
    /\ phase = "draining"
    /\ \A b \in Payloads : request[b].pc = "none"
    /\ Gone

Crash == "crash" \in Faults /\ phase # "down" /\ Gone

Restart ==
    /\ phase = "down"
    /\ phase' = "up"
    /\ UNCHANGED <<request, meta, channel>>

WorkerStep(w) == phase # "down" /\ (Receive(w) \/ Park(w) \/ Finish(w) \/ Recover(w))

Next ==
    \/ \E b \in Payloads : Post(b) \/ Read(b) \/ Enqueue(b) \/ Respond(b)
    \/ \E w \in Workers : WorkerStep(w)
    \/ Signal \/ Exit \/ Crash \/ Restart

Spec == Init /\ [][Next]_vars

\* The Go scheduler runs every worker that is ready, and every job ends.
FairSpec == Spec /\ \A w \in Workers : WF_vars(WorkerStep(w))

-----------------------------------------------------------------------------
(* Properties *)

(***************************************************************************)
(* Between the webhook and the workers no message is lost, duplicated or   *)
(* overtaken, whether it passes the buffer or is handed to a parked        *)
(* worker: what was accepted is what was started, then what waits.         *)
(***************************************************************************)
KeptInOrder == accepted = started \o queue

(***************************************************************************)
(* The bot has no record of the messages it has seen, so every POST of a   *)
(* payload may start its messages again; nothing else does: not a panic,   *)
(* a restart or the race of two requests for the last slot of the queue.   *)
(***************************************************************************)
StartedOncePerPost ==
    \A b \in Payloads : \A i \in DOMAIN Body[b] : runs[Body[b][i]] <= posts[b]

(***************************************************************************)
(* Every accepted message leaves the queue, which it does to a worker only *)
(* (KeptInOrder) or with the process: a handler's panic costs its own      *)
(* message, never the worker that has to take up the next ones.            *)
(***************************************************************************)
AcceptedIsStarted ==
    \A m \in Messages : m \in Range(queue) ~> m \notin Range(queue)

(***************************************************************************)
(* main.go: on the shutdown signal it logs "draining" and then "server     *)
(* stopped cleanly". No accepted message is abandoned by a clean stop.     *)
(***************************************************************************)
DrainedAtExit ==
    [][Exit => queue = <<>> /\ \A w \in Workers : worker[w].pc # "busy"]_vars

=============================================================================
