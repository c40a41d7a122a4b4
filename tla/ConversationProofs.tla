------------------------- MODULE ConversationProofs -------------------------
(***************************************************************************)
(* What Conversation guarantees for any number of citizens and workers,    *)
(* any directory, and all faults, message overlaps included.               *)
(***************************************************************************)
EXTENDS Conversation, TLAPS

-----------------------------------------------------------------------------
(* The inductive invariant *)

\* The places of HandleRaw that are reached at one step of the session only.
StepAt(pc, step) ==
    /\ pc = "lookup" => step = "LangChosen"
    /\ pc \in {"promptNagarsevak", "toWardChosen", "pick"} => step = "Nagarsevak"
    /\ pc \in {"promptWard", "toLangChosen"} => step = "WardChosen"
    /\ pc = "save" => step \in {"LangChosen", "Nagarsevak", "MainMenu"}

\* What a handler may do after a prompt.
Continuations == {"idle", "promptNagarsevak", "toWardChosen", "toLangChosen"}

\* A job under way: `shown` is what its citizen has been offered.
Underway(j, shown) ==
    /\ j.phone \in Phones
    /\ j.msg \in Messages
    /\ j.msg.tag \in {"lang", "rep"} => j.msg \in shown
    /\ j.pc \in {"touch", "get", "dispatch"} => j.wards = Nil
    /\ j.pc = "lookup" => /\ j.msg.tag = "pin"
                          /\ j.wards # Nil => \A d \in j.wards : Known(j.msg.arg.pin, d)
    /\ j.pc = "pick" => j.msg.tag = "rep"
    /\ StepAt(j.pc, j.sess.step)
    /\ j.pc = "say" => /\ j.out \in Outbound
                       /\ j.out.then \in Continuations
                       /\ StepAt(j.out.then, j.sess.step)
    /\ Coherent(j.sess)
    /\ ChosenFrom(j.sess, shown)

GoodJob(j, shown) == IF j.pc = "idle" THEN j = Idle ELSE Underway(j, shown[j.phone])

(***************************************************************************)
(* A session is stored only by a worker, from its local copy, so the copy  *)
(* has to be coherent at each "save" and at the two fallbacks; what the    *)
(* copy needs there is known from the place the worker is at.              *)
(***************************************************************************)
IInv ==
    /\ TypeOK
    /\ \A w \in Workers : GoodJob(job[w], offered)
    /\ SessionCoherent
    /\ EveryChoiceWasOffered

-----------------------------------------------------------------------------
(* Lemmas about data *)

\* What a message of each tag carries.
LEMMA MessageShape ==
    ASSUME NEW m \in Messages
    PROVE  /\ m.tag = "lang" => m.arg \in Langs /\ m = LangButton(m.arg)
           /\ m.tag = "rep"  => m.arg \in Reps  /\ m = RepRow(m.arg)
           /\ m.tag = "ward" => m.arg \in LegacyWards
           /\ m.tag = "pin"  => m.arg.pin \in Pins /\ m.arg.ward \in Wards
  BY DEF Messages, Replies, Texts, LangButton, RepRow, WardRow

\* A fresh session needs nothing and records no choice.
LEMMA FreshSession ==
    /\ Fresh \in Session
    /\ Coherent(Fresh)
    /\ \A shown : ChosenFrom(Fresh, shown)
  BY DEF Fresh, Session, Steps, Coherent, ChosenFrom

\* Wards that a query of the representatives in service returns are known.
LEMMA QueriedWardsKnown ==
    ASSUME TypeOK, NEW pin
    PROVE  /\ WardsByPincode(pin) \in SUBSET Wards
           /\ \A d \in WardsByPincode(pin) : Known(pin, d)
  BY DirectoryAssumption DEF TypeOK, WardsByPincode, Known

\* What was shown is never taken back, so more on the screen keeps a job good.
LEMMA ShownGrows ==
    ASSUME NEW j, NEW shown, NEW more,
           \A p \in Phones : shown[p] \subseteq more[p],
           GoodJob(j, shown)
    PROVE  GoodJob(j, more)
  BY DEF GoodJob, Underway, ChosenFrom

-----------------------------------------------------------------------------
(* Steps that change one job *)

\* The jobs of the other workers stay.
OnlyJob(w, j) == job' = [job EXCEPT ![w] = j]

(***************************************************************************)
(* A step of one worker keeps the invariant when the new job is good, what *)
(* was shown stays shown, and each session it stores is sound.             *)
(***************************************************************************)
LEMMA OneJob ==
    ASSUME IInv, NEW w \in Workers, NEW j \in Job, OnlyJob(w, j),
           GoodJob(j, offered'),
           inService' \in SUBSET Reps,
           active' \in [Phones -> Nat \cup {Nil}],
           screen' \in [Phones -> Prompts \cup {Nil}],
           offered' \in [Phones -> SUBSET Replies],
           \A p \in Phones : offered[p] \subseteq offered'[p],
           session' \in [Phones -> Session \cup {Nil}],
           \A p \in Phones :
              \/ session'[p] \in {session[p], Nil}
              \/ /\ session'[p].step # "Start"
                 /\ Coherent(session'[p])
                 /\ ChosenFrom(session'[p], offered'[p])
    PROVE  IInv'
<1>1. TypeOK'
  BY DEF TypeOK, IInv, OnlyJob
<1>2. \A v \in Workers : GoodJob(job'[v], offered')
  <2> SUFFICES ASSUME NEW v \in Workers PROVE GoodJob(job'[v], offered')
    OBVIOUS
  <2>1. CASE v = w
    BY <2>1 DEF IInv, TypeOK, OnlyJob
  <2>2. CASE v # w
    <3>1. job'[v] = job[v] /\ GoodJob(job[v], offered)
      BY <2>2 DEF IInv, TypeOK, OnlyJob
    <3> QED
      BY <3>1, ShownGrows
  <2> QED
    BY <2>1, <2>2
<1>3. SessionCoherent'
  BY DEF IInv, SessionCoherent
<1>4. EveryChoiceWasOffered'
  BY DEF IInv, EveryChoiceWasOffered, ChosenFrom
<1> QED
  BY <1>1, <1>2, <1>3, <1>4 DEF IInv

\* The step leaves worker w with a good job.
WellPlaced(w) == \E j \in Job : OnlyJob(w, j) /\ GoodJob(j, offered)

\* A step that only moves the worker on.
LEMMA LocalStep ==
    ASSUME IInv, NEW w \in Workers, WellPlaced(w), UNCHANGED <<redis, inService, chat>>
    PROVE  IInv'
<1>1. PICK j \in Job : OnlyJob(w, j) /\ GoodJob(j, offered)
  BY DEF WellPlaced
<1> QED
  BY <1>1, OneJob DEF IInv, TypeOK, redis, chat

\* What may be stored for citizen p.
Storable(p, s) ==
    s = Nil \/ (s \in Session /\ s.step # "Start" /\ Coherent(s) /\ ChosenFrom(s, offered[p]))

\* A step that writes a session, with whatever outcome.
LEMMA WriteStep ==
    ASSUME IInv, NEW w \in Workers, WellPlaced(w),
           NEW p \in Phones, NEW s, Storable(p, s), NEW o, PutSession(p, s, o),
           UNCHANGED <<active, inService, chat>>
    PROVE  IInv'
<1>1. PICK j \in Job : OnlyJob(w, j) /\ GoodJob(j, offered)
  BY DEF WellPlaced
<1> QED
  BY <1>1, OneJob DEF IInv, TypeOK, chat, PutSession, Storable

\* A step that writes an activity key, with whatever outcome.
LEMMA ActiveStep ==
    ASSUME IInv, NEW w \in Workers, WellPlaced(w),
           NEW p \in Phones, NEW age \in {0, Nil}, NEW o, PutActive(p, age, o),
           UNCHANGED <<session, inService, chat>>
    PROVE  IInv'
<1>1. PICK j \in Job : OnlyJob(w, j) /\ GoodJob(j, offered)
  BY DEF WellPlaced
<1> QED
  BY <1>1, OneJob DEF IInv, TypeOK, chat, PutActive

\* What the invariant says of a worker.
LEMMA JobFacts ==
    ASSUME IInv, NEW w \in Workers
    PROVE  /\ job[w] \in Job
           /\ job[w].pc = "idle" => job[w] = Idle
           /\ job[w].pc # "idle" => Underway(job[w], offered[job[w].phone])
  BY DEF IInv, TypeOK, GoodJob

\* The idle job is a good one.
LEMMA IdleJob == Idle \in Job /\ GoodJob(Idle, offered)
  BY FreshSession DEF Idle, Job, PCs, GoodJob

\* The handler returns.
LEMMA ReturnPlaced == ASSUME NEW w \in Workers, Return(w) PROVE WellPlaced(w)
  BY IdleJob DEF WellPlaced, Return, OnlyJob

\* The handler moves on to a place that expects nothing of the message.
LEMMA GoToPlaced ==
    ASSUME IInv, NEW w \in Workers, ~At(w, "idle"),
           NEW pc \in {"del", "cancel", "promptNagarsevak", "promptWard"},
           StepAt(pc, job[w].sess.step), GoTo(w, pc)
    PROVE  WellPlaced(w)
<1> DEFINE j == [job[w] EXCEPT !.pc = pc]
<1>1. job[w] \in Job /\ Underway(job[w], offered[job[w].phone])
  BY JobFacts DEF At
<1>2. j \in Job /\ OnlyJob(w, j)
  BY <1>1 DEF Job, PCs, GoTo, OnlyJob
<1>3. GoodJob(j, offered)
  BY <1>1, <1>2 DEF GoodJob, Underway, Job
<1> QED
  BY <1>2, <1>3 DEF WellPlaced

\* The handler sends a prompt next.
LEMMA SayThenPlaced ==
    ASSUME IInv, NEW w \in Workers, ~At(w, "idle"),
           NEW prompt \in Prompts, NEW rows \in SUBSET Reps, NEW then \in Continuations,
           StepAt(then, job[w].sess.step), SayThen(w, prompt, rows, then)
    PROVE  WellPlaced(w)
<1> DEFINE out == [prompt |-> prompt, rows |-> rows, then |-> then]
           j   == [job[w] EXCEPT !.pc = "say", !.out = out]
<1>1. job[w] \in Job /\ Underway(job[w], offered[job[w].phone])
  BY JobFacts DEF At
<1>2. out \in Outbound
  BY DEF Outbound, Continuations, PCs
<1>3. j \in Job /\ OnlyJob(w, j)
  <2> HIDE DEF out
  <2>1. j \in Job
    BY <1>1, <1>2 DEF Job, PCs
  <2>2. OnlyJob(w, j)
    BY DEF SayThen, OnlyJob, out
  <2> QED
    BY <2>1, <2>2
<1>4. GoodJob(j, offered)
  <2>1. out.then = then
    OBVIOUS
  <2> HIDE DEF out
  <2> QED
    BY <1>1, <1>2, <1>3, <2>1 DEF GoodJob, Underway, Job, StepAt
<1> QED
  BY <1>3, <1>4 DEF WellPlaced

\* A message after which the handler returns may be sent anywhere.
LEMMA SayPlaced ==
    ASSUME IInv, NEW w \in Workers, ~At(w, "idle"), NEW prompt \in Prompts, Say(w, prompt)
    PROVE  WellPlaced(w)
  BY SayThenPlaced DEF Say, Continuations, StepAt

\* The handler stores next a session that may be stored.
LEMMA SaveNextPlaced ==
    ASSUME IInv, NEW w \in Workers, ~At(w, "idle"), NEW s \in Session,
           s.step \in {"LangChosen", "Nagarsevak", "MainMenu"}, Coherent(s),
           ChosenFrom(s, offered[job[w].phone]), SaveNext(w, s)
    PROVE  WellPlaced(w)
<1> DEFINE j == [job[w] EXCEPT !.pc = "save", !.sess = s, !.loc = "pending", !.wards = Nil]
<1>1. job[w] \in Job /\ Underway(job[w], offered[job[w].phone])
  BY JobFacts DEF At
<1>2. j \in Job /\ OnlyJob(w, j)
  BY <1>1 DEF Job, PCs, SaveNext, OnlyJob
<1>3. GoodJob(j, offered)
  BY <1>1, <1>2 DEF GoodJob, Underway, StepAt, Job
<1> QED
  BY <1>2, <1>3 DEF WellPlaced

-----------------------------------------------------------------------------
(* The actions of a worker keep the invariant *)

LEMMA TakeKeeps == ASSUME IInv, NEW w \in Workers, Take(w) PROVE IInv'
<1>0. PICK p \in Phones : \E m \in CanSend(p) :
         job' = [job EXCEPT ![w].pc = "touch", ![w].phone = p, ![w].msg = m]
  BY DEF Take
<1>1. PICK m \in CanSend(p) :
         job' = [job EXCEPT ![w].pc = "touch", ![w].phone = p, ![w].msg = m]
  BY <1>0
<1> DEFINE j == [Idle EXCEPT !.pc = "touch", !.phone = p, !.msg = m]
<1>2. job[w] = Idle
  BY JobFacts DEF Take, At
<1>3. OnlyJob(w, j)
  BY <1>1, <1>2 DEF OnlyJob
<1>4. m \in Messages /\ (m.tag \in {"lang", "rep"} => m \in offered[p])
  <2>1. offered[p] \subseteq Replies
    BY DEF IInv, TypeOK
  <2> QED
    BY <2>1, DirectoryAssumption DEF CanSend, Messages, Replies, Texts, WardRow
<1>5. j \in Job
  BY <1>4, IdleJob DEF Job, PCs, Idle
<1>6. GoodJob(j, offered)
  BY <1>4, FreshSession DEF GoodJob, Underway, Idle, StepAt
<1>7. WellPlaced(w)
  BY <1>3, <1>5, <1>6 DEF WellPlaced
<1> QED
  BY <1>7, LocalStep DEF Take

LEMMA TouchKeeps == ASSUME IInv, NEW w \in Workers, Touch(w) PROVE IInv'
<1> DEFINE j == [job[w] EXCEPT !.pc = "get"]
<1>1. job[w] \in Job /\ Underway(job[w], offered[job[w].phone])
  BY JobFacts DEF Touch, At
<1>2. j \in Job /\ OnlyJob(w, j)
  BY <1>1 DEF Touch, GoTo, OnlyJob, Job, PCs
<1>3. GoodJob(j, offered)
  BY <1>1, <1>2 DEF GoodJob, Underway, StepAt, Touch, At, Job
<1>4. WellPlaced(w)
  BY <1>2, <1>3 DEF WellPlaced
<1>5. PICK o : PutActive(job[w].phone, 0, o)
  BY DEF Touch
<1> QED
  BY <1>1, <1>4, <1>5, ActiveStep DEF Touch, Underway

LEMMA GetSessionKeeps == ASSUME IInv, NEW w \in Workers, GetSession(w) PROVE IInv'
<1> DEFINE p == job[w].phone
           s == IF session[p] = Nil THEN Fresh ELSE session[p]
           j == [job[w] EXCEPT !.pc = "dispatch", !.sess = s]
<1>1. job[w] \in Job /\ Underway(job[w], offered[p])
  BY JobFacts DEF GetSession, At
<1>2. CASE Return(w)
  BY <1>2, ReturnPlaced, LocalStep DEF GetSession
<1>3. CASE OnlyJob(w, j)
  <2>1. s \in Session /\ Coherent(s) /\ ChosenFrom(s, offered[p])
    <3>1. p \in Phones
      BY <1>1 DEF Underway
    <3> QED
      BY <3>1, FreshSession DEF IInv, TypeOK, SessionCoherent, EveryChoiceWasOffered
  <2> HIDE DEF s
  <2>2. j \in Job
    BY <1>1, <2>1 DEF Job, PCs
  <2>3. GoodJob(j, offered)
    BY <1>1, <2>1, <2>2 DEF GoodJob, Underway, StepAt, GetSession, At, Job
  <2>4. WellPlaced(w)
    BY <1>3, <2>2, <2>3 DEF WellPlaced
  <2> QED
    BY <2>4, LocalStep DEF GetSession
<1> QED
  BY <1>2, <1>3 DEF GetSession, OnlyJob

LEMMA PanicKeeps == ASSUME IInv, NEW w \in Workers, Panic(w) PROVE IInv'
  BY ReturnPlaced, LocalStep DEF Panic

LEMMA ResetCommandKeeps == ASSUME IInv, NEW w \in Workers, ResetCommand(w) PROVE IInv'
  BY GoToPlaced, LocalStep DEF ResetCommand, At, StepAt

LEMMA ResetSessionKeeps == ASSUME IInv, NEW w \in Workers, ResetSession(w) PROVE IInv'
<1>1. WellPlaced(w)
  BY GoToPlaced DEF ResetSession, At, StepAt
<1>2. job[w].phone \in Phones
  BY JobFacts DEF ResetSession, At, Underway
<1>3. PICK o : PutSession(job[w].phone, Nil, o)
  BY DEF ResetSession
<1> QED
  BY <1>1, <1>2, <1>3, WriteStep DEF ResetSession, Storable

LEMMA CancelActiveKeeps == ASSUME IInv, NEW w \in Workers, CancelActive(w) PROVE IInv'
<1>1. WellPlaced(w)
  BY SayPlaced DEF CancelActive, At, Prompts
<1>2. job[w].phone \in Phones
  BY JobFacts DEF CancelActive, At, Underway
<1>3. PICK o : PutActive(job[w].phone, Nil, o)
  BY DEF CancelActive
<1> QED
  BY <1>1, <1>2, <1>3, ActiveStep DEF CancelActive

LEMMA AtStartKeeps == ASSUME IInv, NEW w \in Workers, AtStart(w) PROVE IInv'
<1> DEFINE m == job[w].msg
           s == [job[w].sess EXCEPT !.lang = m.arg, !.step = "LangChosen"]
<1>1. job[w] \in Job /\ Underway(job[w], offered[job[w].phone])
  BY JobFacts DEF AtStart, Handling, At
<1>2. CASE m.tag = "lang"
  <2>1. m.arg \in Langs /\ m = LangButton(m.arg) /\ m \in offered[job[w].phone]
    BY <1>1, <1>2, MessageShape DEF Underway
  <2>2. s \in Session
    BY <1>1, <2>1 DEF Job, Session, Steps
  <2>3. Coherent(s) /\ ChosenFrom(s, offered[job[w].phone]) /\ s.step = "LangChosen"
    BY <1>1, <2>1, NilAssumption DEF Job, Session, Underway, Coherent, ChosenFrom
  <2>4. WellPlaced(w)
    BY <1>2, <2>2, <2>3, SaveNextPlaced DEF AtStart, Handling, At
  <2> QED
    BY <2>4, LocalStep DEF AtStart
<1>3. CASE m.tag # "lang"
  BY <1>3, SayPlaced, LocalStep DEF AtStart, Handling, At, Prompts
<1> QED
  BY <1>2, <1>3

LEMMA AtLangChosenKeeps == ASSUME IInv, NEW w \in Workers, AtLangChosen(w) PROVE IInv'
<1> DEFINE j == [job[w] EXCEPT !.pc = "lookup"]
<1>1. job[w] \in Job /\ Underway(job[w], offered[job[w].phone])
  BY JobFacts DEF AtLangChosen, Handling, At
<1>2. CASE job[w].msg.tag = "pin"
  <2>1. j \in Job /\ OnlyJob(w, j)
    BY <1>1, <1>2 DEF Job, PCs, AtLangChosen, GoTo, OnlyJob
  <2>2. GoodJob(j, offered)
    BY <1>1, <1>2, <2>1 DEF GoodJob, Underway, StepAt, AtLangChosen, Handling, At, Job
  <2>3. WellPlaced(w)
    BY <2>1, <2>2 DEF WellPlaced
  <2> QED
    BY <2>3, LocalStep DEF AtLangChosen
<1>3. CASE job[w].msg.tag # "pin"
  <2>1. WellPlaced(w)
    BY <1>3, SayPlaced DEF AtLangChosen, Handling, At, Prompts
  <2> QED
    BY <2>1, LocalStep DEF AtLangChosen
<1> QED
  BY <1>2, <1>3

LEMMA AtWardChosenKeeps == ASSUME IInv, NEW w \in Workers, AtWardChosen(w) PROVE IInv'
<1> DEFINE m == job[w].msg
           s == [job[w].sess EXCEPT !.ward = m.arg, !.step = "Nagarsevak"]
<1>1. job[w] \in Job /\ Underway(job[w], offered[job[w].phone])
  BY JobFacts DEF AtWardChosen, Handling, At
<1>2. CASE m.tag = "ward"
  <2>1. m.arg \in LegacyWards
    BY <1>1, <1>2, MessageShape DEF Underway
  <2>2. s \in Session
    BY <1>1, <2>1, DirectoryAssumption DEF Job, Session, Steps
  <2>3. Coherent(s) /\ ChosenFrom(s, offered[job[w].phone]) /\ s.step = "Nagarsevak"
    BY <1>1, <2>1 DEF Job, Session, Underway, Coherent, ChosenFrom, Known, AtWardChosen, Handling
  <2>4. WellPlaced(w)
    BY <1>2, <2>2, <2>3, SaveNextPlaced DEF AtWardChosen, Handling, At
  <2> QED
    BY <2>4, LocalStep DEF AtWardChosen
<1>3. CASE m.tag # "ward"
  BY <1>3, GoToPlaced, LocalStep DEF AtWardChosen, Handling, At, StepAt
<1> QED
  BY <1>2, <1>3

LEMMA AtNagarsevakKeeps == ASSUME IInv, NEW w \in Workers, AtNagarsevak(w) PROVE IInv'
<1> DEFINE j == [job[w] EXCEPT !.pc = "pick"]
<1>1. job[w] \in Job /\ Underway(job[w], offered[job[w].phone])
  BY JobFacts DEF AtNagarsevak, Handling, At
<1>2. CASE job[w].msg.tag = "rep"
  <2>1. j \in Job /\ OnlyJob(w, j)
    BY <1>1, <1>2 DEF Job, PCs, AtNagarsevak, GoTo, OnlyJob
  <2>2. GoodJob(j, offered)
    BY <1>1, <1>2, <2>1 DEF GoodJob, Underway, StepAt, AtNagarsevak, Handling, At, Job
  <2>3. WellPlaced(w)
    BY <2>1, <2>2 DEF WellPlaced
  <2> QED
    BY <2>3, LocalStep DEF AtNagarsevak
<1>3. CASE job[w].msg.tag # "rep"
  BY <1>3, GoToPlaced, LocalStep DEF AtNagarsevak, Handling, At, StepAt
<1> QED
  BY <1>2, <1>3

LEMMA AtMainMenuKeeps == ASSUME IInv, NEW w \in Workers, AtMainMenu(w) PROVE IInv'
  BY SayPlaced, LocalStep DEF AtMainMenu, Handling, At, Prompts

LEMMA FetchLocationKeeps == ASSUME IInv, NEW w \in Workers, FetchLocation(w) PROVE IInv'
<1>1. job[w] \in Job /\ Underway(job[w], offered[job[w].phone])
  BY JobFacts DEF FetchLocation, At
<1>2. PICK l \in {"found", "none"} : job' = [job EXCEPT ![w].loc = l]
  BY DEF FetchLocation
<1> DEFINE j == [job[w] EXCEPT !.loc = l]
<1>3. j \in Job /\ OnlyJob(w, j)
  BY <1>1, <1>2 DEF Job, OnlyJob
<1>4. GoodJob(j, offered)
  BY <1>1, <1>3 DEF GoodJob, Underway, FetchLocation, At, Job
<1>5. WellPlaced(w)
  BY <1>3, <1>4 DEF WellPlaced
<1> QED
  BY <1>5, LocalStep DEF FetchLocation

LEMMA FetchWardsKeeps == ASSUME IInv, NEW w \in Workers, FetchWards(w) PROVE IInv'
<1> DEFINE pin == job[w].msg.arg.pin
<1>1. job[w] \in Job /\ Underway(job[w], offered[job[w].phone])
  BY JobFacts DEF FetchWards, At
<1>2. PICK found \in {{}, WardsByPincode(pin)} : job' = [job EXCEPT ![w].wards = found]
  BY DEF FetchWards
<1>3. found \in SUBSET Wards /\ \A d \in found : Known(pin, d)
  BY QueriedWardsKnown DEF IInv
<1> DEFINE j == [job[w] EXCEPT !.wards = found]
<1>4. j \in Job /\ OnlyJob(w, j)
  BY <1>1, <1>2, <1>3 DEF Job, OnlyJob
<1>5. GoodJob(j, offered)
  BY <1>1, <1>3, <1>4 DEF GoodJob, Underway, FetchWards, At, Job
<1>6. WellPlaced(w)
  BY <1>4, <1>5 DEF WellPlaced
<1> QED
  BY <1>6, LocalStep DEF FetchWards

LEMMA MatchWardKeeps == ASSUME IInv, NEW w \in Workers, MatchWard(w) PROVE IInv'
<1> DEFINE typed == job[w].msg.arg
           s == Located(job[w].sess, typed)
<1>1. job[w] \in Job /\ Underway(job[w], offered[job[w].phone])
  BY JobFacts DEF MatchWard, At
<1>2. CASE SaveNext(w, s) /\ typed.ward \in job[w].wards
  <2>1. typed.pin \in Pins /\ typed.ward \in Wards /\ Known(typed.pin, typed.ward)
    BY <1>1, <1>2, MessageShape DEF Underway, MatchWard, At
  <2>2. s \in Session
    BY <1>1, <2>1 DEF Job, Session, Steps, Located
  <2>3. Coherent(s) /\ ChosenFrom(s, offered[job[w].phone]) /\ s.step = "Nagarsevak"
    BY <1>1, <2>1
       DEF Job, Session, Underway, StepAt, Coherent, ChosenFrom, MatchWard, At, Located
  <2>4. WellPlaced(w)
    BY <1>2, <2>2, <2>3, SaveNextPlaced DEF MatchWard, At
  <2> QED
    BY <2>4, LocalStep DEF MatchWard
<1>3. CASE Say(w, "invalid")
  BY <1>3, SayPlaced, LocalStep DEF MatchWard, At, Prompts
<1> QED
  BY <1>2, <1>3 DEF MatchWard

LEMMA SaveSessionKeeps == ASSUME IInv, NEW w \in Workers, SaveSession(w) PROVE IInv'
<1>1. job[w] \in Job /\ Underway(job[w], offered[job[w].phone])
  BY JobFacts DEF SaveSession, At
<1>2. job[w].phone \in Phones /\ Storable(job[w].phone, job[w].sess)
  BY <1>1 DEF Underway, StepAt, Storable, SaveSession, At, Job
<1>3. PICK o \in WriteOutcomes :
         /\ PutSession(job[w].phone, job[w].sess, o)
         /\ IF o = "ok" THEN AfterSave(w) ELSE Return(w)
  BY DEF SaveSession
<1>4. WellPlaced(w)
  <2>1. CASE Return(w)
    BY <2>1, ReturnPlaced
  <2>2. CASE AfterSave(w)
    <3>1. job[w].sess.step \in {"LangChosen", "Nagarsevak", "MainMenu"}
      BY <1>1 DEF Underway, StepAt, SaveSession, At
    <3>2. CASE job[w].sess.step = "LangChosen"
      BY <2>2, <3>2, SayPlaced DEF AfterSave, SaveSession, At, Prompts
    <3>3. CASE job[w].sess.step = "Nagarsevak"
      BY <2>2, <3>3, GoToPlaced DEF AfterSave, SaveSession, At, StepAt
    <3>4. CASE job[w].sess.step = "MainMenu"
      BY <2>2, <3>4, SayPlaced DEF AfterSave, SaveSession, At, Prompts
    <3> QED
      BY <3>1, <3>2, <3>3, <3>4
  <2> QED
    BY <1>3, <2>1, <2>2
<1> QED
  BY <1>2, <1>3, <1>4, WriteStep DEF SaveSession

LEMMA PromptNagarsevakKeeps == ASSUME IInv, NEW w \in Workers, PromptNagarsevak(w) PROVE IInv'
<1> DEFINE found == NagarsevaksByWard(job[w].sess.pin, job[w].sess.ward)
<1>1. job[w].sess.step = "Nagarsevak"
  BY JobFacts DEF PromptNagarsevak, At, Underway, StepAt
<1>2. found \in SUBSET Reps
  BY DEF NagarsevaksByWard, IInv, TypeOK
<1> HIDE DEF found
<1>3. \/ Say(w, "invalid")
      \/ SayThen(w, "invalid", {}, "toWardChosen")
      \/ SayThen(w, "list", found, "idle")
  BY DEF PromptNagarsevak, found
<1>4. CASE Say(w, "invalid")
  BY <1>4, SayPlaced, LocalStep DEF PromptNagarsevak, At, Prompts
<1>5. CASE SayThen(w, "invalid", {}, "toWardChosen")
  <2>1. WellPlaced(w)
    BY <1>1, <1>5, SayThenPlaced DEF PromptNagarsevak, At, Prompts, Continuations, StepAt
  <2> QED
    BY <2>1, LocalStep DEF PromptNagarsevak
<1>6. CASE SayThen(w, "list", found, "idle")
  <2>1. WellPlaced(w)
    BY <1>2, <1>6, SayThenPlaced DEF PromptNagarsevak, At, Prompts, Continuations, StepAt
  <2> QED
    BY <2>1, LocalStep DEF PromptNagarsevak
<1> QED
  BY <1>3, <1>4, <1>5, <1>6

LEMMA ToWardChosenKeeps == ASSUME IInv, NEW w \in Workers, ToWardChosen(w) PROVE IInv'
<1> DEFINE s == [job[w].sess EXCEPT !.step = "WardChosen"]
           j == [job[w] EXCEPT !.pc = "promptWard", !.sess = s]
<1>1. job[w] \in Job /\ Underway(job[w], offered[job[w].phone])
  BY JobFacts DEF ToWardChosen, At
<1>2. s \in Session /\ s.step = "WardChosen" /\ Coherent(s)
      /\ ChosenFrom(s, offered[job[w].phone])
  BY <1>1 DEF Job, Session, Steps, Underway, StepAt, Coherent, ChosenFrom, ToWardChosen, At
<1>3. PICK o : PutSession(job[w].phone, s, o)
  BY DEF ToWardChosen, DemoteSession
<1>4. OnlyJob(w, j)
  BY DEF ToWardChosen, DemoteSession, OnlyJob
<1> HIDE DEF s
<1>5. j \in Job
  BY <1>1, <1>2 DEF Job, PCs
<1>6. GoodJob(j, offered)
  BY <1>1, <1>2, <1>5 DEF GoodJob, Underway, StepAt, Job
<1>7. WellPlaced(w)
  BY <1>4, <1>5, <1>6 DEF WellPlaced
<1>8. job[w].phone \in Phones /\ Storable(job[w].phone, s)
  BY <1>1, <1>2 DEF Underway, Storable
<1> QED
  BY <1>3, <1>7, <1>8, WriteStep DEF ToWardChosen, DemoteSession

LEMMA PromptWardKeeps == ASSUME IInv, NEW w \in Workers, PromptWard(w) PROVE IInv'
<1>1. job[w].sess.step = "WardChosen"
  BY JobFacts DEF PromptWard, At, Underway, StepAt
<1>2. \/ Say(w, "invalid") \/ Say(w, "listless")
      \/ SayThen(w, "invalid", {}, "toLangChosen")
  BY DEF PromptWard
<1>3. WellPlaced(w)
  <2>1. CASE Say(w, "invalid") \/ Say(w, "listless")
    BY <2>1, SayPlaced DEF PromptWard, At, Prompts
  <2>2. CASE SayThen(w, "invalid", {}, "toLangChosen")
    BY <1>1, <2>2, SayThenPlaced DEF PromptWard, At, Prompts, Continuations, StepAt
  <2> QED
    BY <1>2, <2>1, <2>2
<1> QED
  BY <1>3, LocalStep DEF PromptWard

LEMMA ToLangChosenKeeps == ASSUME IInv, NEW w \in Workers, ToLangChosen(w) PROVE IInv'
<1> DEFINE s == [job[w].sess EXCEPT !.step = "LangChosen"]
<1>1. job[w] \in Job /\ Underway(job[w], offered[job[w].phone])
  BY JobFacts DEF ToLangChosen, At
<1>2. s \in Session /\ s.step = "LangChosen" /\ Coherent(s)
      /\ ChosenFrom(s, offered[job[w].phone])
  BY <1>1 DEF Job, Session, Steps, Underway, StepAt, Coherent, ChosenFrom, ToLangChosen, At
<1>3. PICK o : PutSession(job[w].phone, s, o)
  BY DEF ToLangChosen, DemoteSession
<1>4. WellPlaced(w)
  BY ReturnPlaced DEF ToLangChosen, DemoteSession
<1> HIDE DEF s
<1>5. job[w].phone \in Phones /\ Storable(job[w].phone, s)
  BY <1>1, <1>2 DEF Underway, Storable
<1> QED
  BY <1>3, <1>4, <1>5, WriteStep DEF ToLangChosen, DemoteSession

LEMMA PickNagarsevakKeeps == ASSUME IInv, NEW w \in Workers, PickNagarsevak(w) PROVE IInv'
<1> DEFINE m == job[w].msg
           s == [job[w].sess EXCEPT !.ns = m.arg, !.step = "MainMenu"]
<1>1. job[w] \in Job /\ Underway(job[w], offered[job[w].phone])
  BY JobFacts DEF PickNagarsevak, At
<1>2. CASE SaveNext(w, s)
  <2>1. m.arg \in Reps /\ m = RepRow(m.arg) /\ m \in offered[job[w].phone]
    BY <1>1, MessageShape DEF Underway, PickNagarsevak, At
  <2>2. s \in Session
    BY <1>1, <2>1 DEF Job, Session, Steps
  <2>3. Coherent(s) /\ ChosenFrom(s, offered[job[w].phone]) /\ s.step = "MainMenu"
    BY <1>1, <2>1, NilAssumption
       DEF Job, Session, Underway, StepAt, Coherent, ChosenFrom, PickNagarsevak, At
  <2>4. WellPlaced(w)
    BY <1>2, <2>2, <2>3, SaveNextPlaced DEF PickNagarsevak, At
  <2> QED
    BY <2>4, LocalStep DEF PickNagarsevak
<1>3. CASE SayThen(w, "invalid", {}, "promptNagarsevak")
  <2>1. WellPlaced(w)
    BY <1>1, <1>3, SayThenPlaced
       DEF PickNagarsevak, At, Prompts, Continuations, StepAt, Underway
  <2> QED
    BY <2>1, LocalStep DEF PickNagarsevak
<1> QED
  BY <1>2, <1>3 DEF PickNagarsevak

LEMMA SendPromptKeeps == ASSUME IInv, NEW w \in Workers, SendPrompt(w) PROVE IInv'
<1> DEFINE p == job[w].phone
           out == job[w].out
           j == IF out.then = "idle" THEN Idle ELSE [job[w] EXCEPT !.pc = out.then, !.out = Nil]
<1>1. job[w] \in Job /\ Underway(job[w], offered[p]) /\ job[w].pc = "say"
  BY JobFacts DEF SendPrompt, At
<1>2. p \in Phones /\ out \in Outbound /\ out.then \in Continuations
      /\ StepAt(out.then, job[w].sess.step)
  BY <1>1 DEF Underway
<1>3. OnlyJob(w, j)
  BY DEF SendPrompt, Return, OnlyJob
<1>4. j \in Job
  <2>1. out.then \in PCs
    BY <1>2 DEF PCs, Continuations
  <2>2. [job[w] EXCEPT !.pc = out.then, !.out = Nil] \in Job
    BY <1>1, <2>1 DEF Job
  <2> QED
    BY <2>2, IdleJob
<1>5. GoodJob(j, offered)
  <2>1. CASE out.then = "idle"
    BY <2>1, IdleJob
  <2>2. CASE out.then # "idle"
    <3>1. j.pc = out.then /\ j.phone = p /\ j.msg = job[w].msg /\ j.sess = job[w].sess
      BY <1>1, <2>2 DEF Job
    <3> HIDE DEF j
    <3> QED
      BY <1>1, <1>2, <2>2, <3>1 DEF GoodJob, Underway, Continuations
  <2> QED
    BY <2>1, <2>2
<1> HIDE DEF j
<1>6. Buttons(out) \subseteq Replies
  BY <1>2 DEF Buttons, Replies, Outbound
<1>7. CASE UNCHANGED chat
  BY <1>3, <1>4, <1>5, <1>7, LocalStep DEF WellPlaced, SendPrompt
<1>8. CASE /\ screen' = [screen EXCEPT ![p] = out.prompt]
           /\ offered' = [offered EXCEPT ![p] = @ \cup Buttons(out)]
  <2>1. screen' \in [Phones -> Prompts \cup {Nil}]
    BY <1>2, <1>8 DEF IInv, TypeOK, Outbound
  <2>2. offered' \in [Phones -> SUBSET Replies] /\ \A q \in Phones : offered[q] \subseteq offered'[q]
    BY <1>2, <1>6, <1>8 DEF IInv, TypeOK
  <2>3. GoodJob(j, offered')
    BY <1>5, <2>2, ShownGrows
  <2> QED
    BY <1>3, <1>4, <2>1, <2>2, <2>3, OneJob DEF SendPrompt, redis, IInv, TypeOK
<1> QED
  BY <1>7, <1>8 DEF SendPrompt

LEMMA StepKeeps == ASSUME IInv, NEW w \in Workers, Step(w) PROVE IInv'
  BY TouchKeeps, GetSessionKeeps, PanicKeeps, ResetCommandKeeps, ResetSessionKeeps,
     CancelActiveKeeps, AtStartKeeps, AtLangChosenKeeps, AtWardChosenKeeps,
     AtNagarsevakKeeps, AtMainMenuKeeps, FetchLocationKeeps, FetchWardsKeeps,
     MatchWardKeeps, SaveSessionKeeps, PromptNagarsevakKeeps, ToWardChosenKeeps,
     PromptWardKeeps, ToLangChosenKeeps, PickNagarsevakKeeps, SendPromptKeeps
  DEF Step

-----------------------------------------------------------------------------
(* The environment keeps the invariant *)

LEMMA EvictKeeps == ASSUME IInv, NEW p \in Phones, Evict(p) PROVE IInv'
  BY DEF IInv, TypeOK, SessionCoherent, EveryChoiceWasOffered, Evict, chat

LEMMA ChangeRosterKeeps == ASSUME IInv, NEW r \in Reps, ChangeRoster(r) PROVE IInv'
  BY DEF IInv, TypeOK, SessionCoherent, EveryChoiceWasOffered, ChangeRoster, redis, chat

LEMMA CrashKeeps == ASSUME IInv, Crash PROVE IInv'
<1>1. job' \in [Workers -> Job] /\ \A w \in Workers : GoodJob(job'[w], offered')
  BY IdleJob DEF Crash, chat
<1> QED
  BY <1>1 DEF IInv, TypeOK, SessionCoherent, EveryChoiceWasOffered, Crash, redis, chat

-----------------------------------------------------------------------------
(* The theorems *)

LEMMA InitGood == Init => IInv
<1> SUFFICES ASSUME Init PROVE IInv
  OBVIOUS
<1>1. \A w \in Workers : job[w] = Idle
  BY DEF Init
<1>2. TypeOK
  BY IdleJob DEF Init, TypeOK
<1> QED
  BY <1>1, <1>2, IdleJob DEF Init, IInv, SessionCoherent, EveryChoiceWasOffered

LEMMA NextKeeps == IInv /\ [Next]_vars => IInv'
<1> SUFFICES ASSUME IInv, [Next]_vars PROVE IInv'
  OBVIOUS
<1>1. CASE \E w \in Workers : Take(w)
  BY <1>1, TakeKeeps
<1>2. CASE \E w \in Workers : Step(w)
  BY <1>2, StepKeeps
<1>3. CASE Environment
  BY <1>3, EvictKeeps, ChangeRosterKeeps, CrashKeeps DEF Environment
<1>4. CASE UNCHANGED vars
  BY <1>4 DEF vars, IInv, TypeOK, SessionCoherent, EveryChoiceWasOffered
<1> QED
  BY <1>1, <1>2, <1>3, <1>4 DEF Next

LEMMA Invariance == Spec => []IInv
  BY InitGood, NextKeeps, PTL DEF Spec

(***************************************************************************)
(* Redis, the chats and the worker goroutines always hold values of the    *)
(* right shape, whatever fails and however many workers run.               *)
(***************************************************************************)
THEOREM TypeCorrect == Spec => []TypeOK
<1>1. IInv => TypeOK
  BY DEF IInv
<1> QED
  BY <1>1, Invariance, PTL

(***************************************************************************)
(* The stored session of a citizen holds everything its step needs, though *)
(* nothing in handler.go serialises the messages of one citizen.           *)
(***************************************************************************)
THEOREM SessionsStayCoherent == Spec => []SessionCoherent
<1>1. IInv => SessionCoherent
  BY DEF IInv
<1> QED
  BY <1>1, Invariance, PTL

(***************************************************************************)
(* No citizen reaches a step without the buttons and the list of the steps *)
(* before it: what a session records was offered to that citizen.          *)
(***************************************************************************)
THEOREM ChoicesWereOffered == Spec => []EveryChoiceWasOffered
<1>1. IInv => EveryChoiceWasOffered
  BY DEF IInv
<1> QED
  BY <1>1, Invariance, PTL

=============================================================================
