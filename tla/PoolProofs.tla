----------------------------- MODULE PoolProofs -----------------------------
(***************************************************************************)
(* What the webhook and the worker pool guarantee for every queue depth,   *)
(* every number of workers and every load.                                 *)
(***************************************************************************)
EXTENDS WorkerPool, FiniteSets, SequenceTheorems, FiniteSetTheorems, TLAPS

-----------------------------------------------------------------------------
(* Sequences *)

\* Moving the head of the second part to the end of the first changes nothing.
LEMMA MoveHead ==
    ASSUME NEW S, NEW s \in Seq(S), NEW t \in Seq(S), t # <<>>
    PROVE  Append(s, Head(t)) \o Tail(t) = s \o t
  OBVIOUS

\* How often x occurs in s.
Positions(s, x) == {i \in 1 .. Len(s) : s[i] = x}
Count(s, x) == Cardinality(Positions(s, x))

LEMMA CountType ==
    ASSUME NEW S, NEW s \in Seq(S), NEW x
    PROVE  IsFiniteSet(Positions(s, x)) /\ Count(s, x) \in Nat
<1>1. IsFiniteSet(1 .. Len(s))
  BY FS_Interval, LenProperties
<1>2. Positions(s, x) \in SUBSET (1 .. Len(s))
  BY DEF Positions
<1>3. IsFiniteSet(Positions(s, x))
  BY <1>1, <1>2, FS_Subset
<1> QED
  BY <1>3, FS_CardinalityType DEF Count

LEMMA CountEmpty == ASSUME NEW x PROVE Count(<<>>, x) = 0
<1>1. Positions(<<>>, x) = {}
  BY DEF Positions
<1> QED
  BY <1>1, FS_EmptySet DEF Count

LEMMA CountAppend ==
    ASSUME NEW S, NEW s \in Seq(S), NEW y \in S, NEW x
    PROVE  Count(Append(s, y), x) = Count(s, x) + (IF x = y THEN 1 ELSE 0)
<1>0. Len(s) \in Nat
  BY LenProperties
<1>1. Len(Append(s, y)) = Len(s) + 1
      /\ \A i \in 1 .. Len(s) + 1 : Append(s, y)[i] = IF i <= Len(s) THEN s[i] ELSE y
  BY <1>0
<1>2. IsFiniteSet(Positions(s, x)) /\ Count(s, x) \in Nat
  BY CountType
<1>3. CASE x = y
  <2>1. Positions(Append(s, y), x) = Positions(s, x) \cup {Len(s) + 1}
    BY <1>0, <1>1, <1>3 DEF Positions
  <2>2. Len(s) + 1 \notin Positions(s, x)
    BY <1>0 DEF Positions
  <2> QED
    BY <1>2, <1>3, <2>1, <2>2, FS_AddElement DEF Count
<1>4. CASE x # y
  <2>1. Positions(Append(s, y), x) = Positions(s, x)
    BY <1>0, <1>1, <1>4 DEF Positions
  <2> QED
    BY <1>2, <1>4, <2>1 DEF Count
<1> QED
  BY <1>3, <1>4

LEMMA CountTail ==
    ASSUME NEW S, NEW s \in Seq(S), s # <<>>, NEW x
    PROVE  Count(Tail(s), x) = Count(s, x) - (IF x = Head(s) THEN 1 ELSE 0)
<1> DEFINE rest  == Positions(s, x) \ {1}
           shift == [i \in rest |-> i - 1]
<1>0. /\ Len(s) \in Nat \ {0} /\ Head(s) = s[1] /\ Tail(s) \in Seq(S)
      /\ Len(Tail(s)) = Len(s) - 1 /\ \A i \in 1 .. Len(s) - 1 : Tail(s)[i] = s[i + 1]
  BY HeadTailProperties, LenProperties, EmptySeq
<1>1. IsFiniteSet(Positions(s, x)) /\ Count(s, x) \in Nat
  BY CountType
<1>2. IsFiniteSet(rest) /\ Cardinality(rest) = Count(s, x) - (IF x = Head(s) THEN 1 ELSE 0)
  <2>1. 1 \in Positions(s, x) <=> x = Head(s)
    BY <1>0 DEF Positions
  <2> QED
    BY <1>1, <2>1, FS_RemoveElement DEF Count
<1>3. shift \in Bijection(rest, Positions(Tail(s), x))
  <2>1. ASSUME NEW i \in rest PROVE i - 1 \in Positions(Tail(s), x)
    BY <1>0 DEF Positions
  <2>2. ASSUME NEW i \in rest, NEW j \in rest, i - 1 = j - 1 PROVE i = j
    BY <1>0, <2>2 DEF Positions
  <2>3. ASSUME NEW k \in Positions(Tail(s), x) PROVE \E i \in rest : k = i - 1
    <3>1. k \in Nat /\ k + 1 \in rest
      BY <1>0 DEF Positions
    <3> QED
      BY <3>1
  <2>4. shift \in [rest -> Positions(Tail(s), x)]
    BY <2>1
  <2>5. shift \in Injection(rest, Positions(Tail(s), x))
    BY <2>2, <2>4 DEF Injection, IsInjective
  <2>6. shift \in Surjection(rest, Positions(Tail(s), x))
    BY <2>3, <2>4 DEF Surjection
  <2> QED
    BY <2>5, <2>6 DEF Bijection
<1> HIDE DEF rest, shift
<1>4. Cardinality(Positions(Tail(s), x)) = Cardinality(rest)
  BY <1>2, <1>3, FS_Bijection DEF ExistsBijection
<1> QED
  BY <1>2, <1>4 DEF Count

-----------------------------------------------------------------------------

\* What the provers need to know of a goroutine that is not parked.
LEMMA States ==
    /\ Ready \in Worker /\ Parked \in Worker /\ Ready # Parked
    /\ \A m \in Messages : Busy(m) \in Worker /\ Busy(m) # Parked
  BY DEF Ready, Parked, Busy, Worker

(***************************************************************************)
(* A message can be handed to a parked worker without overtaking another   *)
(* only because Go's channels park a receiver on an empty buffer alone,    *)
(* and buffer nothing while it stays parked.                               *)
(***************************************************************************)
NoneSleepsOnWork == queue # <<>> => NoneParked

PoolInv == TypeOK /\ KeptInOrder /\ NoneSleepsOnWork

LEMMA PoolInit == Init => PoolInv
<1> SUFFICES ASSUME Init PROVE PoolInv
  OBVIOUS
<1>1. TypeOK
  BY PoolAssumption, States DEF Init, TypeOK, NoRequest, Request
<1> QED
  BY <1>1 DEF Init, PoolInv, KeptInOrder, NoneSleepsOnWork

\* What a message on its way through Enqueue does to the channel.
ChannelTypes ==
    /\ queue \in Seq(Messages) /\ Len(queue) <= Depth
    /\ worker \in [Workers -> Worker]
    /\ accepted \in Seq(Messages)
    /\ started \in Seq(Messages)
    /\ runs \in [Messages -> Nat]

LEMMA StartTypes ==
    ASSUME ChannelTypes, NEW w \in Workers, NEW m \in Messages, Start(w, m)
    PROVE  /\ worker' \in [Workers -> Worker]
           /\ started' \in Seq(Messages)
           /\ runs' \in [Messages -> Nat]
           /\ NoneParked => NoneParked'
<1>1. worker' = [worker EXCEPT ![w] = Busy(m)] /\ Busy(m) \in Worker /\ Busy(m) # Parked
  BY States DEF Start
<1>2. started' \in Seq(Messages)
  BY DEF Start, ChannelTypes
<1>3. runs' \in [Messages -> Nat]
  BY DEF Start, ChannelTypes
<1> QED
  BY <1>1, <1>2, <1>3 DEF ChannelTypes, NoneParked

LEMMA EnqueueKeeps ==
    ASSUME ChannelTypes, KeptInOrder, NoneSleepsOnWork, NEW m \in Messages,
           HandOver(m) \/ Buffer(m) \/ Drop
    PROVE  ChannelTypes' /\ KeptInOrder' /\ NoneSleepsOnWork'
<1>1. CASE HandOver(m)
  <2>1. PICK w \in Workers : worker[w] = Parked /\ Start(w, m)
    BY <1>1 DEF HandOver
  <2>2. queue = <<>> /\ queue' = <<>> /\ accepted' = Append(accepted, m)
    BY <1>1, <2>1 DEF HandOver, NoneSleepsOnWork, NoneParked
  <2>3. ChannelTypes'
    BY <2>1, <2>2, StartTypes DEF ChannelTypes
  <2>4. accepted = started
    BY <2>2, ConcatEmptySeq DEF KeptInOrder, ChannelTypes
  <2>5. started' = Append(started, m)
    BY <2>1 DEF Start
  <2>6. KeptInOrder'
    BY <2>2, <2>3, <2>4, <2>5, ConcatEmptySeq DEF KeptInOrder, ChannelTypes
  <2> QED
    BY <2>2, <2>3, <2>6 DEF NoneSleepsOnWork
<1>2. CASE Buffer(m)
  <2>1. /\ queue' = Append(queue, m) /\ accepted' = Append(accepted, m)
        /\ UNCHANGED <<worker, started, runs>> /\ NoneParked /\ Len(queue) < Depth
    BY <1>2 DEF Buffer
  <2>2. ChannelTypes'
    BY <2>1, PoolAssumption DEF ChannelTypes
  <2>3. accepted' = Append(started \o queue, m) /\ started' \o queue' = started \o Append(queue, m)
    BY <2>1 DEF KeptInOrder
  <2>4. Append(started \o queue, m) = started \o Append(queue, m)
    <3>1. started \in Seq(Messages) /\ queue \in Seq(Messages)
      BY DEF ChannelTypes
    <3> QED
      BY <3>1
  <2> QED
    BY <2>1, <2>2, <2>3, <2>4 DEF KeptInOrder, NoneSleepsOnWork, NoneParked
<1>3. CASE Drop
  BY <1>3 DEF Drop, channel, ChannelTypes, KeptInOrder, NoneSleepsOnWork, NoneParked
<1> QED
  BY <1>1, <1>2, <1>3

LEMMA PoolNext == PoolInv /\ [Next]_vars => PoolInv'
<1> SUFFICES ASSUME PoolInv, [Next]_vars PROVE PoolInv'
  OBVIOUS
<1>0. TypeOK /\ ChannelTypes /\ KeptInOrder /\ NoneSleepsOnWork
  BY DEF PoolInv, TypeOK, ChannelTypes
<1> DEFINE Requests == /\ phase \in {"up", "draining", "down"}
                       /\ request \in [Payloads -> Request]
                       /\ posts \in [Payloads -> Nat]
                       /\ acked \in SUBSET Payloads
<1>00. Requests
  BY <1>0 DEF TypeOK
<1>01. ASSUME Requests', ChannelTypes', KeptInOrder', NoneSleepsOnWork' PROVE PoolInv'
  BY <1>01 DEF PoolInv, TypeOK, ChannelTypes
<1>02. ASSUME UNCHANGED channel PROVE ChannelTypes' /\ KeptInOrder' /\ NoneSleepsOnWork'
  BY <1>0, <1>02 DEF channel, ChannelTypes, KeptInOrder, NoneSleepsOnWork, NoneParked
<1>1. ASSUME NEW b \in Payloads, Post(b) PROVE PoolInv'
  <2>1. Requests'
    BY <1>00, <1>1 DEF Post, Request
  <2> QED
    BY <1>1, <2>1, <1>01, <1>02 DEF Post
<1>2. ASSUME NEW b \in Payloads, Read(b) PROVE PoolInv'
  <2>0. PICK failed \in May("body") :
          request' = [request EXCEPT ![b] =
                        [pc |-> "enqueue", todo |-> IF failed THEN <<>> ELSE Body[b]]]
    BY <1>2 DEF Read
  <2> DEFINE todo == IF failed THEN <<>> ELSE Body[b]
  <2>1. request' = [request EXCEPT ![b] = [pc |-> "enqueue", todo |-> todo]] /\ todo \in Seq(Messages)
    BY <2>0, PoolAssumption
  <2> HIDE DEF todo
  <2>2. [pc |-> "enqueue", todo |-> todo] \in Request
    BY <2>1 DEF Request
  <2>3. Requests'
    BY <1>00, <1>2, <2>1, <2>2 DEF Read, meta
  <2> QED
    BY <1>2, <2>3, <1>01, <1>02 DEF Read
<1>3. ASSUME NEW b \in Payloads, Enqueue(b) PROVE PoolInv'
  <2>1. request[b].todo \in Seq(Messages) /\ request[b].todo # <<>>
    BY <1>00, <1>3 DEF Enqueue, Request
  <2>2. Head(request[b].todo) \in Messages /\ Tail(request[b].todo) \in Seq(Messages)
    BY <2>1, HeadTailProperties
  <2>3. ChannelTypes' /\ KeptInOrder' /\ NoneSleepsOnWork'
    BY <1>0, <1>3, <2>2, EnqueueKeeps DEF Enqueue
  <2>4. [request[b] EXCEPT !.todo = Tail(@)] \in Request
    BY <1>00, <2>2 DEF Request
  <2>5. Requests'
    BY <1>00, <1>3, <2>4 DEF Enqueue, meta
  <2> QED
    BY <2>3, <2>5, <1>01
<1>4. ASSUME NEW b \in Payloads, Respond(b) PROVE PoolInv'
  <2>1. Requests'
    BY <1>00, <1>4 DEF Respond, NoRequest, Request
  <2> QED
    BY <1>4, <2>1, <1>01, <1>02 DEF Respond
<1>5. ASSUME NEW w \in Workers, Receive(w) PROVE PoolInv'
  <2>1. /\ queue # <<>> /\ Start(w, Head(queue)) /\ queue' = Tail(queue)
        /\ UNCHANGED accepted /\ Head(queue) \in Messages
    BY <1>0, <1>5, HeadTailProperties DEF Receive, ChannelTypes
  <2>2. ChannelTypes'
    BY <1>0, <2>1, StartTypes, HeadTailProperties, PoolAssumption DEF ChannelTypes
  <2>3. KeptInOrder'
    BY <1>0, <2>1, MoveHead DEF KeptInOrder, ChannelTypes, Start
  <2>4. NoneSleepsOnWork'
    BY <1>0, <2>1, StartTypes DEF NoneSleepsOnWork
  <2>5. Requests'
    BY <1>00, <1>5 DEF Receive, meta
  <2> QED
    BY <2>2, <2>3, <2>4, <2>5, <1>01
<1>6. ASSUME NEW w \in Workers, Park(w) PROVE PoolInv'
  BY <1>0, <1>00, <1>01, <1>6, States
     DEF Park, meta, ChannelTypes, KeptInOrder, NoneSleepsOnWork
<1>7. ASSUME NEW w \in Workers, Finish(w) \/ Recover(w) PROVE PoolInv'
  BY <1>0, <1>00, <1>01, <1>7, States
     DEF Finish, Recover, meta, ChannelTypes, KeptInOrder, NoneSleepsOnWork, NoneParked
<1>8. CASE Signal \/ Restart
  <2>1. Requests'
    BY <1>00, <1>8 DEF Signal, Restart, meta
  <2> QED
    BY <1>8, <2>1, <1>01, <1>02 DEF Signal, Restart
<1>9. CASE Exit \/ Crash
  <2>1. Gone
    BY <1>9 DEF Exit, Crash
  <2>2. Requests'
    BY <1>00, <2>1 DEF Gone, NoRequest, Request
  <2>3. ChannelTypes'
    BY <1>0, <2>1, States, PoolAssumption DEF Gone, ChannelTypes
  <2>4. KeptInOrder' /\ NoneSleepsOnWork'
    BY <2>1 DEF Gone, KeptInOrder, NoneSleepsOnWork
  <2> QED
    BY <2>2, <2>3, <2>4, <1>01
<1>10. CASE UNCHANGED vars
  <2>1. Requests'
    BY <1>00, <1>10 DEF vars
  <2> QED
    BY <1>10, <2>1, <1>01, <1>02 DEF vars, channel
<1> QED
  BY <1>1, <1>2, <1>3, <1>4, <1>5, <1>6, <1>7, <1>8, <1>9, <1>10 DEF Next, WorkerStep

(***************************************************************************)
(* Type correctness: no load makes the buffer longer than its depth.       *)
(***************************************************************************)
THEOREM PoolTypeCorrect == Spec => []TypeOK
<1>1. PoolInv => TypeOK
  BY DEF PoolInv
<1> QED
  BY <1>1, PoolInit, PoolNext, PTL DEF Spec

(***************************************************************************)
(* No message between webhook and worker is lost, duplicated or overtaken, *)
(* for any depth (0 included), any number of workers (0 included) and any  *)
(* load.                                                                   *)
(***************************************************************************)
THEOREM AlwaysInOrder == Spec => []KeptInOrder
<1>1. PoolInv => KeptInOrder
  BY DEF PoolInv
<1> QED
  BY <1>1, PoolInit, PoolNext, PTL DEF Spec

-----------------------------------------------------------------------------
(* A message is started at most once for each POST of its payload *)

MessagesOf(b) == {Body[b][i] : i \in DOMAIN Body[b]}

(***************************************************************************)
(* A message is the content of one entry of one payload: what a citizen    *)
(* says twice is two messages.                                             *)
(***************************************************************************)
DistinctMessages ==
    \A b, c \in Payloads : \A i \in DOMAIN Body[b], j \in DOMAIN Body[c] :
       Body[b][i] = Body[c][j] => b = c /\ i = j

\* The request at work on payload b may still enqueue message m.
Pending(b, m) ==
    \/ request[b].pc = "read"
    \/ request[b].pc = "enqueue" /\ \E i \in 1 .. Len(request[b].todo) : request[b].todo[i] = m

\* A request works through messages of its own payload, each of them once.
TodoOfPayload ==
    \A b \in Payloads : request[b].pc = "enqueue" =>
       LET todo == request[b].todo IN
       \A i \in 1 .. Len(todo) :
          /\ todo[i] \in MessagesOf(b)
          /\ \A j \in 1 .. Len(todo) : todo[i] = todo[j] => i = j

(***************************************************************************)
(* Every POST lets a message run once: the run is behind it, in the queue, *)
(* still with the request, or lost with a full queue or a dead process.    *)
(***************************************************************************)
PostsCover ==
    \A b \in Payloads : \A m \in MessagesOf(b) :
       runs[m] + Count(queue, m) + (IF Pending(b, m) THEN 1 ELSE 0) <= posts[b]

OnceInv == PoolInv /\ TodoOfPayload /\ PostsCover

LEMMA BodyFacts ==
    ASSUME NEW b \in Payloads
    PROVE  /\ Body[b] \in Seq(Messages) /\ DOMAIN Body[b] = 1 .. Len(Body[b])
           /\ MessagesOf(b) \subseteq Messages
  BY PoolAssumption, LenProperties, ElementOfSeq DEF MessagesOf

LEMMA OnceInit == Init => OnceInv
<1> SUFFICES ASSUME Init PROVE OnceInv
  OBVIOUS
<1>1. PostsCover
  BY BodyFacts, CountEmpty DEF Init, NoRequest, PostsCover, Pending
<1> QED
  BY <1>1, PoolInit DEF Init, NoRequest, OnceInv, TodoOfPayload

\* What becomes of the occurrences of a message when one message is enqueued.
LEMMA EnqueueCounts ==
    ASSUME ChannelTypes, NEW m \in Messages, HandOver(m) \/ Buffer(m) \/ Drop,
           NoneSleepsOnWork, NEW x \in Messages
    PROVE  runs'[x] + Count(queue', x) <= runs[x] + Count(queue, x) + (IF x = m THEN 1 ELSE 0)
<1>0. runs[x] \in Nat /\ Count(queue, x) \in Nat
  BY CountType DEF ChannelTypes
<1>1. CASE HandOver(m)
  <2>1. runs' = [runs EXCEPT ![m] = @ + 1] /\ queue' = queue
    BY <1>1 DEF HandOver, Start
  <2>2. runs'[x] = runs[x] + (IF x = m THEN 1 ELSE 0)
    BY <2>1 DEF ChannelTypes
  <2> QED
    BY <1>0, <2>1, <2>2
<1>2. CASE Buffer(m)
  <2>1. queue' = Append(queue, m) /\ runs' = runs
    BY <1>2 DEF Buffer
  <2>2. Count(queue', x) = Count(queue, x) + (IF x = m THEN 1 ELSE 0)
    BY <2>1, CountAppend DEF ChannelTypes
  <2> QED
    BY <1>0, <2>1, <2>2
<1>3. CASE Drop
  <2>1. queue' = queue /\ runs' = runs
    BY <1>3 DEF Drop, channel
  <2> QED
    BY <1>0, <2>1
<1> QED
  BY <1>1, <1>2, <1>3

LEMMA ReceiveCounts ==
    ASSUME ChannelTypes, NEW w \in Workers, Receive(w), NEW x \in Messages
    PROVE  runs'[x] + Count(queue', x) = runs[x] + Count(queue, x)
<1>0. runs[x] \in Nat /\ Count(queue, x) \in Nat /\ queue \in Seq(Messages) /\ queue # <<>>
  BY CountType DEF ChannelTypes, Receive
<1>1. Head(queue) \in Messages /\ queue' = Tail(queue) /\ runs' = [runs EXCEPT ![Head(queue)] = @ + 1]
  BY <1>0, HeadTailProperties DEF Receive, Start
<1>2. runs'[x] = runs[x] + (IF x = Head(queue) THEN 1 ELSE 0)
  BY <1>0, <1>1 DEF ChannelTypes
<1>3. Count(queue', x) = Count(queue, x) - (IF x = Head(queue) THEN 1 ELSE 0)
  BY <1>0, <1>1, CountTail
<1> QED
  BY <1>0, <1>2, <1>3

LEMMA OnceNext == ASSUME OnceInv, DistinctMessages, [Next]_vars PROVE OnceInv'
<1>0. PoolInv /\ PoolInv' /\ TypeOK /\ TypeOK' /\ ChannelTypes /\ NoneSleepsOnWork
      /\ TodoOfPayload /\ PostsCover
  BY PoolNext DEF OnceInv, PoolInv, TypeOK, ChannelTypes
<1>00. ASSUME NEW b \in Payloads
       PROVE  /\ posts[b] \in Nat /\ request[b] \in Request
              /\ \A m \in Messages : runs[m] + Count(queue, m) \in Nat
              /\ \A m \in Messages : Count(queue', m) \in Nat
              /\ MessagesOf(b) \subseteq Messages
  <2>1. \A m \in Messages : Count(queue, m) \in Nat /\ Count(queue', m) \in Nat
    BY <1>0, CountType DEF TypeOK
  <2> QED
    BY <1>0, <2>1, BodyFacts DEF TypeOK
<1>1. ASSUME UNCHANGED <<request, posts>>,
             \A m \in Messages : runs'[m] + Count(queue', m) <= runs[m] + Count(queue, m)
      PROVE  OnceInv'
  <2>1. TodoOfPayload'
    BY <1>0, <1>1 DEF TodoOfPayload
  <2>2. ASSUME NEW b \in Payloads, NEW m \in MessagesOf(b)
        PROVE  runs'[m] + Count(queue', m) + (IF Pending(b, m)' THEN 1 ELSE 0) <= posts'[b]
    <3>1. m \in Messages /\ (Pending(b, m)' <=> Pending(b, m)) /\ posts'[b] = posts[b]
      BY <1>00, <1>1, <2>2 DEF Pending
    <3>2. /\ posts[b] \in Nat
          /\ runs[m] + Count(queue, m) \in Nat
          /\ runs[m] + Count(queue, m) + (IF Pending(b, m) THEN 1 ELSE 0) <= posts[b]
      BY <1>0, <1>00, <2>2, <3>1 DEF PostsCover
    <3>3. runs'[m] + Count(queue', m) \in Nat
      BY <1>0, <1>00, <3>1 DEF TypeOK
    <3>4. runs'[m] + Count(queue', m) <= runs[m] + Count(queue, m)
      BY <1>1, <3>1
    <3> QED
      BY <3>1, <3>2, <3>3, <3>4
  <2> QED
    BY <1>0, <2>1, <2>2 DEF OnceInv, PostsCover
<1>2. ASSUME NEW b \in Payloads, UNCHANGED <<queue, runs>>, \A c \in Payloads \ {b} : request'[c] = request[c],
             posts'[b] \in Nat, \A c \in Payloads \ {b} : posts'[c] = posts[c],
             \A m \in MessagesOf(b) : Pending(b, m)' => posts'[b] > posts[b] \/ Pending(b, m),
             posts'[b] >= posts[b]
      PROVE  PostsCover'
  <2> SUFFICES ASSUME NEW c \in Payloads, NEW m \in MessagesOf(c)
               PROVE  runs[m] + Count(queue, m) + (IF Pending(c, m)' THEN 1 ELSE 0) <= posts'[c]
    BY <1>2 DEF PostsCover
  <2>1. /\ runs[m] + Count(queue, m) \in Nat /\ posts[c] \in Nat
        /\ runs[m] + Count(queue, m) + (IF Pending(c, m) THEN 1 ELSE 0) <= posts[c]
    BY <1>0, <1>00 DEF PostsCover
  <2>2. CASE c = b
    BY <1>2, <2>1, <2>2
  <2>3. CASE c # b
    <3>1. Pending(c, m)' <=> Pending(c, m)
      BY <1>2, <2>3 DEF Pending
    <3> QED
      BY <1>2, <2>1, <2>3, <3>1
  <2> QED
    BY <2>2, <2>3
<1>3. ASSUME NEW b \in Payloads, Post(b) PROVE OnceInv'
  <2>1. /\ posts' = [posts EXCEPT ![b] = @ + 1] /\ UNCHANGED <<queue, runs>>
        /\ request' = [request EXCEPT ![b] = [pc |-> "read", todo |-> <<>>]]
    BY <1>3 DEF Post, channel
  <2>2. posts'[b] = posts[b] + 1 /\ \A c \in Payloads \ {b} : posts'[c] = posts[c]
    BY <1>0, <2>1 DEF TypeOK
  <2>3. request'[b].pc = "read" /\ \A c \in Payloads \ {b} : request'[c] = request[c]
    BY <1>0, <2>1 DEF TypeOK
  <2>4. posts'[b] \in Nat /\ posts'[b] > posts[b] /\ posts'[b] >= posts[b]
    BY <1>00, <2>2
  <2>5. PostsCover'
    BY <1>2, <2>1, <2>2, <2>3, <2>4
  <2>6. TodoOfPayload'
    BY <1>0, <2>3 DEF TodoOfPayload
  <2> QED
    BY <1>0, <2>5, <2>6 DEF OnceInv
<1>4. ASSUME NEW b \in Payloads, Read(b) PROVE OnceInv'
  <2>0. UNCHANGED <<queue, runs, posts>> /\ request[b].pc = "read"
    BY <1>4 DEF Read, meta, channel
  <2>1. PICK todo \in {<<>>, Body[b]} : request' = [request EXCEPT ![b] = [pc |-> "enqueue", todo |-> todo]]
    BY <1>4 DEF Read
  <2>2. /\ request'[b].todo = todo /\ request'[b].pc = "enqueue"
        /\ \A c \in Payloads \ {b} : request'[c] = request[c]
    BY <1>0, <2>1 DEF TypeOK
  <2>3. ASSUME NEW i \in 1 .. Len(todo)
        PROVE  todo[i] \in MessagesOf(b) /\ \A j \in 1 .. Len(todo) : todo[i] = todo[j] => i = j
    BY BodyFacts DEF MessagesOf, DistinctMessages
  <2>4. TodoOfPayload'
    BY <1>0, <2>2, <2>3 DEF TodoOfPayload
  <2>5. PostsCover'
    BY <1>2, <1>00, <2>0, <2>2 DEF Pending
  <2> QED
    BY <1>0, <2>4, <2>5 DEF OnceInv
<1>5. ASSUME NEW b \in Payloads, Enqueue(b) PROVE OnceInv'
  <2> DEFINE todo == request[b].todo
  <2>0. /\ request[b].pc = "enqueue" /\ todo \in Seq(Messages) /\ todo # <<>> /\ posts' = posts
        /\ request' = [request EXCEPT ![b].todo = Tail(todo)]
    BY <1>00, <1>5 DEF Enqueue, meta, Request
  <2>1. /\ Len(todo) \in Nat \ {0} /\ Head(todo) = todo[1] /\ Head(todo) \in Messages
        /\ Len(Tail(todo)) = Len(todo) - 1
        /\ \A i \in 1 .. Len(todo) - 1 : Tail(todo)[i] = todo[i + 1]
    BY <2>0, HeadTailProperties, LenProperties, EmptySeq
  <2>2. /\ request'[b].todo = Tail(todo) /\ request'[b].pc = "enqueue"
        /\ \A c \in Payloads \ {b} : request'[c] = request[c]
    BY <1>0, <2>0 DEF TypeOK, Request
  <2>3. \A i \in 1 .. Len(todo) : /\ todo[i] \in MessagesOf(b)
                                  /\ \A j \in 1 .. Len(todo) : todo[i] = todo[j] => i = j
    BY <1>0, <2>0 DEF TodoOfPayload
  <2> HIDE DEF todo
  <2>4. \A i \in 1 .. Len(Tail(todo)) :
           /\ i + 1 \in 1 .. Len(todo) /\ i + 1 # 1 /\ Tail(todo)[i] = todo[i + 1]
    BY <2>1
  <2>5. TodoOfPayload'
    <3> SUFFICES ASSUME NEW c \in Payloads, request'[c].pc = "enqueue",
                        NEW i \in 1 .. Len(request'[c].todo)
                 PROVE  /\ request'[c].todo[i] \in MessagesOf(c)
                        /\ \A j \in 1 .. Len(request'[c].todo) :
                              request'[c].todo[i] = request'[c].todo[j] => i = j
      BY DEF TodoOfPayload
    <3>1. CASE c = b
      <4>0. i \in 1 .. Len(Tail(todo))
        BY <2>2, <3>1
      <4>1. Tail(todo)[i] = todo[i + 1] /\ i + 1 \in 1 .. Len(todo) /\ i \in Nat
        BY <2>4, <4>0
      <4>2. ASSUME NEW j \in 1 .. Len(Tail(todo)), Tail(todo)[i] = Tail(todo)[j] PROVE i = j
        <5>1. j + 1 \in 1 .. Len(todo) /\ todo[i + 1] = todo[j + 1] /\ j \in Nat
          BY <2>4, <4>1, <4>2
        <5>2. i + 1 = j + 1
          BY <2>3, <4>1, <5>1
        <5> QED
          BY <4>1, <5>1, <5>2
      <4> QED
        BY <2>2, <2>3, <3>1, <4>1, <4>2
    <3>2. CASE c # b
      BY <1>0, <2>2, <3>2 DEF TodoOfPayload
    <3> QED
      BY <3>1, <3>2
  <2>6. PostsCover'
    <3> SUFFICES ASSUME NEW c \in Payloads, NEW m \in MessagesOf(c)
                 PROVE  runs'[m] + Count(queue', m) + (IF Pending(c, m)' THEN 1 ELSE 0) <= posts[c]
      BY <2>0 DEF PostsCover
    <3>1. /\ m \in Messages /\ runs[m] + Count(queue, m) \in Nat /\ posts[c] \in Nat
          /\ runs'[m] + Count(queue', m) \in Nat
          /\ runs[m] + Count(queue, m) + (IF Pending(c, m) THEN 1 ELSE 0) <= posts[c]
      BY <1>0, <1>00 DEF PostsCover, TypeOK
    <3>2. runs'[m] + Count(queue', m) <= runs[m] + Count(queue, m) + (IF m = Head(todo) THEN 1 ELSE 0)
      BY <1>0, <1>5, <2>1, <3>1, EnqueueCounts DEF Enqueue, todo
    <3>3. Pending(c, m)' => Pending(c, m)
      <4>1. CASE c # b
        BY <2>2, <4>1 DEF Pending
      <4>2. CASE c = b
        BY <2>0, <2>2, <2>4, <4>2 DEF Pending, todo
      <4> QED
        BY <4>1, <4>2
    <3>4. CASE m = Head(todo)
      <4>1. m \in MessagesOf(b) /\ todo[1] = m /\ 1 \in 1 .. Len(todo)
        BY <2>1, <2>3, <3>4
      <4>2. c = b
        BY <4>1 DEF MessagesOf, DistinctMessages
      <4>3. Pending(c, m)
        BY <2>0, <4>1, <4>2 DEF Pending, todo
      <4>4. ~Pending(c, m)'
        BY <2>2, <2>3, <2>4, <4>1, <4>2 DEF Pending
      <4> QED
        BY <3>1, <3>2, <3>4, <4>3, <4>4
    <3>5. CASE m # Head(todo)
      BY <3>1, <3>2, <3>3, <3>5
    <3> QED
      BY <3>4, <3>5
  <2> QED
    BY <1>0, <2>5, <2>6 DEF OnceInv
<1>6. ASSUME NEW b \in Payloads, Respond(b) PROVE OnceInv'
  <2>1. UNCHANGED <<queue, runs, posts>> /\ request' = [request EXCEPT ![b] = NoRequest]
    BY <1>6 DEF Respond, channel
  <2>2. request'[b].pc = "none" /\ \A c \in Payloads \ {b} : request'[c] = request[c]
    BY <1>0, <2>1 DEF TypeOK, NoRequest
  <2>3. PostsCover'
    BY <1>2, <1>00, <2>1, <2>2 DEF Pending
  <2>4. TodoOfPayload'
    BY <1>0, <2>2 DEF TodoOfPayload
  <2> QED
    BY <1>0, <2>3, <2>4 DEF OnceInv
<1>7. ASSUME NEW w \in Workers, Receive(w) PROVE OnceInv'
  <2>1. UNCHANGED <<request, posts>>
    BY <1>7 DEF Receive, meta
  <2>2. \A m \in Messages : runs'[m] + Count(queue', m) = runs[m] + Count(queue, m)
    BY <1>0, <1>7, ReceiveCounts
  <2>3. \A m \in Messages : runs[m] + Count(queue, m) \in Nat
    BY <1>0, CountType DEF TypeOK
  <2>4. \A m \in Messages : runs'[m] + Count(queue', m) <= runs[m] + Count(queue, m)
    BY <2>2, <2>3
  <2> QED
    BY <1>1, <2>1, <2>4
<1>8. ASSUME UNCHANGED <<request, posts, queue, runs>> PROVE OnceInv'
  <2>1. TodoOfPayload'
    BY <1>0, <1>8 DEF TodoOfPayload
  <2>2. PostsCover'
    BY <1>0, <1>8 DEF PostsCover, Pending
  <2> QED
    BY <1>0, <2>1, <2>2 DEF OnceInv
<1>9. CASE Gone
  <2>1. /\ UNCHANGED <<posts, runs>> /\ queue' = <<>>
        /\ \A b \in Payloads : request'[b].pc = "none"
    BY <1>9 DEF Gone, NoRequest
  <2>2. TodoOfPayload'
    BY <2>1 DEF TodoOfPayload
  <2>3. ASSUME NEW b \in Payloads, NEW m \in MessagesOf(b)
        PROVE  runs'[m] + Count(queue', m) + (IF Pending(b, m)' THEN 1 ELSE 0) <= posts'[b]
    <3>1. Count(queue', m) = 0 /\ ~Pending(b, m)' /\ m \in Messages
      BY <1>00, <2>1, CountEmpty DEF Pending
    <3>2. runs[m] \in Nat /\ Count(queue, m) \in Nat /\ posts[b] \in Nat
      BY <1>0, <3>1, CountType DEF TypeOK
    <3>3. runs[m] + Count(queue, m) + (IF Pending(b, m) THEN 1 ELSE 0) <= posts[b]
      BY <1>0 DEF PostsCover
    <3> QED
      BY <2>1, <3>1, <3>2, <3>3
  <2> QED
    BY <1>0, <2>2, <2>3 DEF OnceInv, PostsCover
<1> QED
  BY <1>3, <1>4, <1>5, <1>6, <1>7, <1>8, <1>9
  DEF Next, WorkerStep, Park, Finish, Recover, Signal, Exit, Crash, Restart, meta, channel, vars

(***************************************************************************)
(* Only another POST of its payload starts a message again: not a panic, a *)
(* restart, a full queue or another request, for every depth, number of    *)
(* workers, limit of posts and load of distinct messages.                  *)
(***************************************************************************)
THEOREM StartedOncePerPostAlways ==
    ASSUME DistinctMessages PROVE Spec => []StartedOncePerPost
<1>1. ASSUME OnceInv PROVE StartedOncePerPost
  <2> SUFFICES ASSUME NEW b \in Payloads, NEW m \in MessagesOf(b) PROVE runs[m] <= posts[b]
    BY DEF StartedOncePerPost, MessagesOf
  <2>1. m \in Messages /\ TypeOK
    BY <1>1, BodyFacts DEF OnceInv, PoolInv
  <2>2. runs[m] \in Nat /\ Count(queue, m) \in Nat /\ posts[b] \in Nat
    BY <2>1, CountType DEF TypeOK
  <2>3. runs[m] + Count(queue, m) + (IF Pending(b, m) THEN 1 ELSE 0) <= posts[b]
    BY <1>1 DEF OnceInv, PostsCover
  <2> QED
    BY <2>2, <2>3
<1>2. OnceInv /\ [Next]_vars => OnceInv'
  BY OnceNext
<1> QED
  BY <1>1, <1>2, OnceInit, PTL DEF Spec

=============================================================================
