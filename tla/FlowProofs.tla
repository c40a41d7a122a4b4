----------------------------- MODULE FlowProofs -----------------------------
(***************************************************************************)
(* When the messages of a citizen are handled one at a time and no session *)
(* vanishes while one is, Conversation implements Onboarding: whatever     *)
(* fails besides, the stored sessions walk through the onboarding flow.    *)
(***************************************************************************)
EXTENDS ConversationProofs

-----------------------------------------------------------------------------
(* The inductive invariant *)

\* Session t is one choice of the citizen ahead of the stored session s.
Onward(s, t) ==
    \/ /\ s = Nil
       /\ \E l \in Langs : t = [step |-> "LangChosen", lang |-> l,
                                pin |-> Nil, ward |-> Nil, ns |-> Nil]
    \/ /\ s # Nil /\ s.step = "LangChosen"
       /\ \E pin \in Pins, ward \in Wards :
             /\ Flow!Served(pin, ward)
             /\ t = [s EXCEPT !.pin = pin, !.ward = ward, !.step = "Nagarsevak"]
    \/ /\ s # Nil /\ s.step = "WardChosen"
       /\ \E ward \in LegacyWards : t = [s EXCEPT !.ward = ward, !.step = "Nagarsevak"]
    \/ /\ s # Nil /\ s.step = "Nagarsevak"
       /\ \E r \in Reps : t = [s EXCEPT !.ns = r, !.step = "MainMenu"]

\* How the copy `sess` of a worker at `pc` relates to the stored session s.
Synced(pc, sess, s) ==
    /\ pc \in {"dispatch", "lookup"} => sess = IF s = Nil THEN Fresh ELSE s
    /\ pc = "save" => Onward(s, sess)
    /\ pc \in {"promptNagarsevak", "toWardChosen", "pick"} => s # Nil /\ sess = s
    /\ pc \in {"promptWard", "toLangChosen"} =>
          /\ s # Nil
          /\ s.step \in {"WardChosen", "Nagarsevak"}
          /\ sess = [s EXCEPT !.step = "WardChosen"]

InStep(j, stored) ==
    /\ Synced(j.pc, j.sess, stored[j.phone])
    /\ j.pc = "say" => Synced(j.out.then, j.sess, stored[j.phone])
    /\ j.pc = "lookup" /\ j.wards # Nil => \A d \in j.wards : Flow!Served(j.msg.arg.pin, d)

\* No two workers handle messages of the same citizen.
OneAtATime ==
    \A v, w \in Workers : v # w /\ job[v].phone # Nil => job[w].phone # job[v].phone

(***************************************************************************)
(* A handler decides from its copy of the session. That the copy agrees    *)
(* with Redis at each place is what makes its next Save a step of the      *)
(* flow; after a fallback whose Save failed the copy is one step behind.   *)
(***************************************************************************)
FlowInv ==
    /\ IInv
    /\ OneAtATime
    /\ \A w \in Workers : InStep(job[w], session)

Serial == {"overlap", "evict"} \cap Faults = {}

\* A stored session is not an absent one.
LEMMA NotNil == ASSUME NEW s \in Session PROVE s # Nil
  BY NilAssumption

\* A session is what its fields are.
LEMMA SameSession ==
    ASSUME NEW s \in Session, NEW t \in Session,
           s.step = t.step, s.lang = t.lang, s.pin = t.pin, s.ward = t.ward, s.ns = t.ns
    PROVE  s = t
  BY DEF Session

-----------------------------------------------------------------------------
(* Steps of one worker *)

\* A step that changes at most the session of its own citizen.
LEMMA OwnStep ==
    ASSUME FlowInv, IInv', NEW w \in Workers, NEW j, OnlyJob(w, j),
           j.phone \in {job[w].phone, Nil},
           \A p \in Phones : p # job[w].phone => session'[p] = session[p],
           InStep(j, session')
    PROVE  FlowInv'
<1>1. \A v \in Workers : job'[v] = IF v = w THEN j ELSE job[v]
  BY DEF OnlyJob, FlowInv, IInv, TypeOK
<1>2. OneAtATime'
  BY <1>1 DEF FlowInv, OneAtATime
<1>3. ASSUME NEW v \in Workers PROVE InStep(job'[v], session')
  <2>1. CASE v = w
    BY <1>1, <2>1
  <2>2. CASE v # w /\ job[v].pc = "idle"
    <3>1. job'[v] = Idle
      BY <1>1, <2>2, JobFacts DEF FlowInv
    <3> QED
      BY <3>1 DEF InStep, Synced, Idle
  <2>3. CASE v # w /\ job[v].pc # "idle"
    <3>1. job[v].phone \in Phones /\ job[v].phone # Nil
      BY <2>3, JobFacts, NilAssumption DEF FlowInv, Underway
    <3>2. session'[job[v].phone] = session[job[v].phone]
      BY <2>3, <3>1 DEF FlowInv, OneAtATime
    <3>3. job'[v] = job[v] /\ InStep(job[v], session)
      BY <1>1, <2>3 DEF FlowInv
    <3> QED
      BY <3>2, <3>3 DEF InStep
  <2> QED
    BY <2>1, <2>2, <2>3
<1> QED
  BY <1>2, <1>3 DEF FlowInv

\* The session stays and the new job is in step with it.
InStepAgain(w) ==
    /\ UNCHANGED session
    /\ \E j \in Job : /\ OnlyJob(w, j)
                      /\ j.phone \in {job[w].phone, Nil}
                      /\ InStep(j, session)

LEMMA QuietStep ==
    ASSUME FlowInv, NEW w \in Workers, Step(w), InStepAgain(w)
    PROVE  FlowInv' /\ UNCHANGED session
<1>1. IInv'
  BY StepKeeps DEF FlowInv
<1> QED
  BY <1>1, OwnStep DEF InStepAgain

\* The handler returns.
LEMMA ReturnInStep ==
    ASSUME NEW w \in Workers, Return(w), UNCHANGED session PROVE InStepAgain(w)
  BY IdleJob DEF Return, InStepAgain, OnlyJob, InStep, Synced, Idle

\* The handler sends a prompt and goes on from where its copy is in step.
LEMMA SayInStep ==
    ASSUME FlowInv, NEW w \in Workers, ~At(w, "idle"),
           NEW prompt \in Prompts, NEW rows \in SUBSET Reps, NEW then \in Continuations,
           SayThen(w, prompt, rows, then), UNCHANGED session,
           Synced(then, job[w].sess, session[job[w].phone])
    PROVE  InStepAgain(w)
<1> DEFINE out == [prompt |-> prompt, rows |-> rows, then |-> then]
           j   == [job[w] EXCEPT !.pc = "say", !.out = out]
<1>1. job[w] \in Job
  BY JobFacts DEF FlowInv
<1>2. out \in Outbound /\ out.then = then
  BY DEF Outbound, Continuations, PCs
<1>3. OnlyJob(w, j)
  BY DEF SayThen, OnlyJob
<1> HIDE DEF out
<1>4. j \in Job
  BY <1>1, <1>2 DEF Job, PCs
<1>5. InStep(j, session)
  BY <1>1, <1>2, <1>4 DEF InStep, Synced, Job
<1>6. j.phone = job[w].phone
  BY <1>1 DEF Job
<1> QED
  BY <1>3, <1>4, <1>5, <1>6 DEF InStepAgain

LEMMA LastSayInStep ==
    ASSUME FlowInv, NEW w \in Workers, ~At(w, "idle"), NEW prompt \in Prompts,
           Say(w, prompt), UNCHANGED session
    PROVE  InStepAgain(w)
<1>1. Synced("idle", job[w].sess, session[job[w].phone])
  BY DEF Synced
<1> QED
  BY <1>1, SayInStep DEF Say, Continuations

\* The handler moves on to a place its copy is in step with.
LEMMA GoToInStep ==
    ASSUME FlowInv, NEW w \in Workers, NEW pc \in PCs \ {"say"}, GoTo(w, pc),
           pc = "lookup" => job[w].wards = Nil, UNCHANGED session,
           Synced(pc, job[w].sess, session[job[w].phone])
    PROVE  InStepAgain(w)
<1> DEFINE j == [job[w] EXCEPT !.pc = pc]
<1>1. job[w] \in Job
  BY JobFacts DEF FlowInv
<1>2. j \in Job /\ OnlyJob(w, j)
  BY <1>1 DEF Job, PCs, GoTo, OnlyJob
<1>3. InStep(j, session) /\ j.phone = job[w].phone
  BY <1>1, <1>2 DEF InStep, Job
<1> QED
  BY <1>2, <1>3 DEF InStepAgain

\* The handler stores next a session one choice ahead.
LEMMA SaveNextInStep ==
    ASSUME FlowInv, NEW w \in Workers, NEW s \in Session, SaveNext(w, s),
           Onward(session[job[w].phone], s), UNCHANGED session
    PROVE  InStepAgain(w)
<1> DEFINE j == [job[w] EXCEPT !.pc = "save", !.sess = s, !.loc = "pending", !.wards = Nil]
<1>1. job[w] \in Job
  BY JobFacts DEF FlowInv
<1>2. j \in Job /\ OnlyJob(w, j)
  BY <1>1 DEF Job, PCs, SaveNext, OnlyJob
<1>3. InStep(j, session) /\ j.phone = job[w].phone
  BY <1>1, <1>2 DEF InStep, Synced, Job
<1> QED
  BY <1>2, <1>3 DEF InStepAgain

-----------------------------------------------------------------------------
(* The actions that store nothing *)

LEMMA TouchInStep == ASSUME FlowInv, NEW w \in Workers, Touch(w) PROVE InStepAgain(w)
  BY GoToInStep DEF Touch, PCs, Synced

LEMMA GetSessionInStep ==
    ASSUME FlowInv, NEW w \in Workers, GetSession(w) PROVE InStepAgain(w)
<1> DEFINE p == job[w].phone
           s == IF session[p] = Nil THEN Fresh ELSE session[p]
           j == [job[w] EXCEPT !.pc = "dispatch", !.sess = s]
<1>1. job[w] \in Job /\ p \in Phones
  BY JobFacts DEF GetSession, At, FlowInv, Underway
<1>2. CASE Return(w)
  BY <1>2, ReturnInStep DEF GetSession, redis
<1>3. CASE OnlyJob(w, j)
  <2>1. s \in Session
    BY <1>1, FreshSession DEF FlowInv, IInv, TypeOK
  <2>2. Synced("dispatch", s, session[p])
    BY DEF Synced
  <2> HIDE DEF s
  <2>3. j \in Job
    BY <1>1, <2>1 DEF Job, PCs
  <2>4. InStep(j, session) /\ j.phone = p
    BY <1>1, <2>2, <2>3 DEF InStep, Job
  <2> QED
    BY <1>3, <2>3, <2>4 DEF InStepAgain, GetSession, redis
<1> QED
  BY <1>2, <1>3 DEF GetSession, OnlyJob

LEMMA PanicInStep == ASSUME FlowInv, NEW w \in Workers, Panic(w) PROVE InStepAgain(w)
  BY ReturnInStep DEF Panic, redis

LEMMA ResetCommandInStep ==
    ASSUME FlowInv, NEW w \in Workers, ResetCommand(w) PROVE InStepAgain(w)
  BY GoToInStep DEF ResetCommand, PCs, Synced, redis

LEMMA CancelActiveInStep ==
    ASSUME FlowInv, NEW w \in Workers, CancelActive(w) PROVE InStepAgain(w)
  BY LastSayInStep DEF CancelActive, At, Prompts

\* At "dispatch" the copy is what GetSession returned.
LEMMA HandlingFacts ==
    ASSUME FlowInv, NEW w \in Workers, NEW step \in Steps, Handling(w, step)
    PROVE  /\ job[w] \in Job
           /\ job[w].wards = Nil
           /\ job[w].phone \in Phones
           /\ job[w].msg \in Messages
           /\ step = "Start" => session[job[w].phone] = Nil /\ job[w].sess = Fresh
           /\ step # "Start" =>
                 session[job[w].phone] # Nil /\ job[w].sess = session[job[w].phone]
<1>1. job[w] \in Job /\ Underway(job[w], offered[job[w].phone]) /\ job[w].sess.step = step
  BY JobFacts DEF Handling, At, FlowInv
<1>2. Synced("dispatch", job[w].sess, session[job[w].phone])
  BY DEF Handling, At, FlowInv, InStep
<1>3. session[job[w].phone] # Nil => session[job[w].phone].step # "Start"
  BY <1>1 DEF FlowInv, IInv, SessionCoherent, Underway
<1>4. Fresh.step = "Start"
  BY DEF Fresh
<1> QED
  BY <1>1, <1>2, <1>3, <1>4 DEF Synced, Underway, Handling, At

LEMMA AtStartInStep == ASSUME FlowInv, NEW w \in Workers, AtStart(w) PROVE InStepAgain(w)
<1> DEFINE m == job[w].msg
           s == [job[w].sess EXCEPT !.lang = m.arg, !.step = "LangChosen"]
<1>1. session[job[w].phone] = Nil /\ job[w].sess = Fresh /\ m \in Messages
  BY HandlingFacts DEF AtStart, Steps
<1>2. CASE m.tag = "lang"
  <2>1. m.arg \in Langs
    BY <1>1, <1>2, MessageShape
  <2> DEFINE t == [step |-> "LangChosen", lang |-> m.arg, pin |-> Nil, ward |-> Nil, ns |-> Nil]
  <2>2. s \in Session /\ t \in Session
    BY <1>1, <2>1, FreshSession DEF Session, Steps
  <2>3. s = t
    <3>1. /\ s.step = t.step /\ s.lang = t.lang
          /\ s.pin = t.pin /\ s.ward = t.ward /\ s.ns = t.ns
      BY <1>1, FreshSession DEF Fresh, Session
    <3> QED
      BY <2>2, <3>1, SameSession
  <2>4. Onward(session[job[w].phone], t)
    BY <1>1, <2>1 DEF Onward
  <2> QED
    BY <1>2, <2>2, <2>3, <2>4, SaveNextInStep DEF AtStart, redis
<1>3. CASE m.tag # "lang"
  BY <1>3, LastSayInStep DEF AtStart, Handling, At, Prompts, redis
<1> QED
  BY <1>2, <1>3

LEMMA AtLangChosenInStep ==
    ASSUME FlowInv, NEW w \in Workers, AtLangChosen(w) PROVE InStepAgain(w)
<1>1. CASE GoTo(w, "lookup")
  <2>1. job[w].wards = Nil /\ Synced("lookup", job[w].sess, session[job[w].phone])
    BY HandlingFacts DEF AtLangChosen, Steps, Synced
  <2> QED
    BY <1>1, <2>1, GoToInStep DEF AtLangChosen, PCs, redis
<1>2. CASE Say(w, "invalid") \/ Say(w, "pin")
  BY <1>2, LastSayInStep DEF AtLangChosen, Handling, At, Prompts, redis
<1> QED
  BY <1>1, <1>2 DEF AtLangChosen

LEMMA AtWardChosenInStep ==
    ASSUME FlowInv, NEW w \in Workers, AtWardChosen(w) PROVE InStepAgain(w)
<1> DEFINE m == job[w].msg
           s == [job[w].sess EXCEPT !.ward = m.arg, !.step = "Nagarsevak"]
<1>1. /\ session[job[w].phone] # Nil /\ job[w].sess = session[job[w].phone]
      /\ job[w].sess.step = "WardChosen" /\ job[w].sess \in Session /\ m \in Messages
  BY HandlingFacts DEF AtWardChosen, Handling, Steps, Job
<1>2. CASE m.tag = "ward"
  <2>1. m.arg \in LegacyWards
    BY <1>1, <1>2, MessageShape
  <2>2. s \in Session /\ Onward(session[job[w].phone], s)
    BY <1>1, <2>1, DirectoryAssumption DEF Session, Steps, Onward
  <2> QED
    BY <1>2, <2>2, SaveNextInStep DEF AtWardChosen, redis
<1>3. CASE m.tag # "ward"
  <2>1. Synced("promptWard", job[w].sess, session[job[w].phone])
    BY <1>1 DEF Synced, Session
  <2> QED
    BY <1>3, <2>1, GoToInStep DEF AtWardChosen, PCs, redis
<1> QED
  BY <1>2, <1>3

LEMMA AtNagarsevakInStep ==
    ASSUME FlowInv, NEW w \in Workers, AtNagarsevak(w) PROVE InStepAgain(w)
<1>1. PICK pc \in {"pick", "promptNagarsevak"} : GoTo(w, pc)
  BY DEF AtNagarsevak
<1>2. Synced(pc, job[w].sess, session[job[w].phone])
  BY HandlingFacts DEF AtNagarsevak, Steps, Synced
<1> QED
  BY <1>1, <1>2, GoToInStep DEF AtNagarsevak, PCs, redis

LEMMA AtMainMenuInStep ==
    ASSUME FlowInv, NEW w \in Workers, AtMainMenu(w) PROVE InStepAgain(w)
  BY LastSayInStep DEF AtMainMenu, Handling, At, Prompts, redis

\* The two queries leave the copy as it is.
LEMMA FetchLocationInStep ==
    ASSUME FlowInv, NEW w \in Workers, FetchLocation(w) PROVE InStepAgain(w)
<1>1. job[w] \in Job /\ InStep(job[w], session)
  BY JobFacts DEF FlowInv
<1>2. PICK l \in {"found", "none"} : job' = [job EXCEPT ![w].loc = l]
  BY DEF FetchLocation
<1> DEFINE j == [job[w] EXCEPT !.loc = l]
<1>3. j \in Job /\ OnlyJob(w, j)
  BY <1>1, <1>2 DEF Job, OnlyJob
<1>4. InStep(j, session) /\ j.phone = job[w].phone
  BY <1>1, <1>3 DEF InStep, Job
<1> QED
  BY <1>3, <1>4 DEF InStepAgain, FetchLocation, redis

LEMMA FetchWardsInStep ==
    ASSUME FlowInv, NEW w \in Workers, FetchWards(w) PROVE InStepAgain(w)
<1> DEFINE pin == job[w].msg.arg.pin
<1>1. job[w] \in Job /\ InStep(job[w], session)
  BY JobFacts DEF FlowInv
<1>2. PICK found \in {{}, WardsByPincode(pin)} : job' = [job EXCEPT ![w].wards = found]
  BY DEF FetchWards
<1>3. found \in SUBSET Wards /\ \A d \in found : Flow!Served(pin, d)
  BY DirectoryAssumption DEF FlowInv, IInv, TypeOK, WardsByPincode, Flow!Served
<1> DEFINE j == [job[w] EXCEPT !.wards = found]
<1>4. j \in Job /\ OnlyJob(w, j)
  BY <1>1, <1>2, <1>3 DEF Job, OnlyJob
<1>5. InStep(j, session) /\ j.phone = job[w].phone
  BY <1>1, <1>3, <1>4 DEF InStep, Job
<1> QED
  BY <1>4, <1>5 DEF InStepAgain, FetchWards, redis

LEMMA MatchWardInStep ==
    ASSUME FlowInv, NEW w \in Workers, MatchWard(w) PROVE InStepAgain(w)
<1> DEFINE typed == job[w].msg.arg
           s == Located(job[w].sess, typed)
<1>1. /\ job[w] \in Job
      /\ Underway(job[w], offered[job[w].phone])
      /\ InStep(job[w], session)
  BY JobFacts DEF MatchWard, At, FlowInv
<1>2. CASE SaveNext(w, s) /\ typed.ward \in job[w].wards
  <2>1. typed.pin \in Pins /\ typed.ward \in Wards /\ Flow!Served(typed.pin, typed.ward)
    BY <1>1, <1>2, MessageShape DEF Underway, InStep, MatchWard, At
  <2>2. /\ session[job[w].phone] # Nil /\ job[w].sess = session[job[w].phone]
        /\ job[w].sess.step = "LangChosen" /\ job[w].sess \in Session
    BY <1>1 DEF MatchWard, At, InStep, Synced, Underway, StepAt, Job, Fresh
  <2>3. s \in Session
    BY <2>1, <2>2 DEF Session, Steps, Located
  <2>4. Onward(session[job[w].phone], s)
    BY <2>1, <2>2 DEF Located, Onward
  <2> QED
    BY <1>2, <2>3, <2>4, SaveNextInStep DEF MatchWard, redis
<1>3. CASE Say(w, "invalid")
  BY <1>3, LastSayInStep DEF MatchWard, At, Prompts, redis
<1> QED
  BY <1>2, <1>3 DEF MatchWard

LEMMA PromptNagarsevakInStep ==
    ASSUME FlowInv, NEW w \in Workers, PromptNagarsevak(w) PROVE InStepAgain(w)
<1> DEFINE found == NagarsevaksByWard(job[w].sess.pin, job[w].sess.ward)
<1>1. Synced("promptNagarsevak", job[w].sess, session[job[w].phone])
  BY DEF PromptNagarsevak, At, FlowInv, InStep
<1>2. /\ Synced("toWardChosen", job[w].sess, session[job[w].phone])
      /\ Synced("idle", job[w].sess, session[job[w].phone])
  BY <1>1 DEF Synced
<1>3. found \in SUBSET Reps
  BY DEF NagarsevaksByWard, FlowInv, IInv, TypeOK
<1> HIDE DEF found
<1>4. \/ Say(w, "invalid")
      \/ SayThen(w, "invalid", {}, "toWardChosen")
      \/ SayThen(w, "list", found, "idle")
  BY DEF PromptNagarsevak, found
<1> QED
  BY <1>2, <1>3, <1>4, LastSayInStep, SayInStep
     DEF PromptNagarsevak, At, Prompts, Continuations, redis

LEMMA PromptWardInStep ==
    ASSUME FlowInv, NEW w \in Workers, PromptWard(w) PROVE InStepAgain(w)
<1>1. Synced("promptWard", job[w].sess, session[job[w].phone])
  BY DEF PromptWard, At, FlowInv, InStep
<1>2. Synced("toLangChosen", job[w].sess, session[job[w].phone])
  BY <1>1 DEF Synced
<1>3. \/ Say(w, "invalid") \/ Say(w, "listless")
      \/ SayThen(w, "invalid", {}, "toLangChosen")
  BY DEF PromptWard
<1> QED
  BY <1>2, <1>3, LastSayInStep, SayInStep DEF PromptWard, At, Prompts, Continuations, redis

LEMMA PickNagarsevakInStep ==
    ASSUME FlowInv, NEW w \in Workers, PickNagarsevak(w) PROVE InStepAgain(w)
<1> DEFINE m == job[w].msg
           s == [job[w].sess EXCEPT !.ns = m.arg, !.step = "MainMenu"]
<1>1. /\ job[w] \in Job
      /\ Underway(job[w], offered[job[w].phone])
      /\ Synced("pick", job[w].sess, session[job[w].phone])
  BY JobFacts DEF PickNagarsevak, At, FlowInv, InStep
<1>2. CASE SaveNext(w, s)
  <2>1. m.arg \in Reps
    BY <1>1, MessageShape DEF Underway, PickNagarsevak, At
  <2>2. job[w].sess \in Session /\ job[w].sess.step = "Nagarsevak"
    BY <1>1 DEF Job, Underway, StepAt, PickNagarsevak, At
  <2>3. s \in Session /\ Onward(session[job[w].phone], s)
    BY <1>1, <2>1, <2>2 DEF Session, Steps, Onward, Synced
  <2> QED
    BY <1>2, <2>3, SaveNextInStep DEF PickNagarsevak, redis
<1>3. CASE SayThen(w, "invalid", {}, "promptNagarsevak")
  <2>1. Synced("promptNagarsevak", job[w].sess, session[job[w].phone])
    BY <1>1 DEF Synced
  <2> QED
    BY <1>3, <2>1, SayInStep DEF PickNagarsevak, At, Prompts, Continuations, redis
<1> QED
  BY <1>2, <1>3 DEF PickNagarsevak

LEMMA SendPromptInStep ==
    ASSUME FlowInv, NEW w \in Workers, SendPrompt(w) PROVE InStepAgain(w)
<1> DEFINE out == job[w].out
           j == [job[w] EXCEPT !.pc = out.then, !.out = Nil]
<1>1. job[w] \in Job /\ Underway(job[w], offered[job[w].phone]) /\ job[w].pc = "say"
  BY JobFacts DEF SendPrompt, At, FlowInv
<1>2. CASE Return(w)
  BY <1>2, ReturnInStep DEF SendPrompt, redis
<1>3. CASE OnlyJob(w, j)
  <2>1. out.then \in Continuations /\ Synced(out.then, job[w].sess, session[job[w].phone])
    BY <1>1 DEF Underway, FlowInv, InStep
  <2>2. j \in Job /\ j.phone = job[w].phone
    BY <1>1, <2>1 DEF Job, PCs, Continuations
  <2>3. InStep(j, session)
    BY <1>1, <2>1, <2>2 DEF InStep, Continuations, Job
  <2> QED
    BY <1>3, <2>2, <2>3 DEF InStepAgain, SendPrompt, redis
<1> QED
  BY <1>2, <1>3 DEF SendPrompt, OnlyJob

-----------------------------------------------------------------------------
(* The actions that store, and the step of the flow each is *)

\* A worker that is done with the session, whatever it becomes.
LEMMA ResetSessionFlows ==
    ASSUME FlowInv, NEW w \in Workers, ResetSession(w)
    PROVE  FlowInv' /\ [Flow!Next]_session
<1> DEFINE p == job[w].phone
           j == [job[w] EXCEPT !.pc = "cancel"]
<1>1. job[w] \in Job /\ p \in Phones
  BY JobFacts DEF ResetSession, At, FlowInv, Underway
<1>2. PICK o : PutSession(p, Nil, o)
  BY DEF ResetSession
<1>3. OnlyJob(w, j) /\ j.phone = p /\ InStep(j, session')
  BY <1>1 DEF ResetSession, GoTo, OnlyJob, InStep, Synced, Job
<1>4. IInv'
  BY ResetSessionKeeps DEF FlowInv
<1>5. \A q \in Phones : q # p => session'[q] = session[q]
  BY <1>2 DEF PutSession, FlowInv, IInv, TypeOK
<1>6. FlowInv'
  BY <1>3, <1>4, <1>5, OwnStep
<1>7. [Flow!Next]_session
  BY <1>1, <1>2 DEF PutSession, Flow!Next, Flow!StartOver, Flow!Put
<1> QED
  BY <1>6, <1>7

\* To store a session one choice ahead is a step of the flow.
LEMMA OnwardFlows ==
    ASSUME NEW p \in Phones, NEW t, Onward(session[p], t), Flow!Put(p, t)
    PROVE  Flow!Next
<1>1. CASE session[p] = Nil
  <2>1. Flow!ChooseLang(p)
    BY <1>1 DEF Onward, Flow!ChooseLang
  <2> QED
    BY <2>1 DEF Flow!Next
<1>2. CASE session[p] # Nil /\ session[p].step = "LangChosen"
  <2>1. Flow!EnterPinAndWard(p)
    BY <1>2 DEF Onward, Flow!EnterPinAndWard, Flow!AtStep
  <2> QED
    BY <2>1 DEF Flow!Next
<1>3. CASE session[p] # Nil /\ session[p].step = "WardChosen"
  <2>1. Flow!PickWard(p)
    BY <1>3 DEF Onward, Flow!PickWard, Flow!AtStep
  <2> QED
    BY <2>1 DEF Flow!Next
<1>4. CASE session[p] # Nil /\ session[p].step = "Nagarsevak"
  <2>1. Flow!PickNagarsevak(p)
    BY <1>4 DEF Onward, Flow!PickNagarsevak, Flow!AtStep
  <2> QED
    BY <2>1 DEF Flow!Next
<1> QED
  BY <1>1, <1>2, <1>3, <1>4 DEF Onward

LEMMA SaveSessionFlows ==
    ASSUME FlowInv, NEW w \in Workers, SaveSession(w)
    PROVE  FlowInv' /\ [Flow!Next]_session
<1> DEFINE p == job[w].phone
           s == job[w].sess
<1>1. job[w] \in Job /\ p \in Phones /\ Onward(session[p], s)
  BY JobFacts DEF SaveSession, At, FlowInv, Underway, InStep, Synced
<1>2. PICK o : /\ PutSession(p, s, o)
               /\ IF o = "ok" THEN AfterSave(w) ELSE Return(w)
  BY DEF SaveSession
<1>3. \A q \in Phones : q # p => session'[q] = session[q]
  BY <1>2 DEF PutSession, FlowInv, IInv, TypeOK
<1>4. IInv'
  BY SaveSessionKeeps DEF FlowInv
<1>5. s.step \in {"LangChosen", "Nagarsevak", "MainMenu"}
  BY JobFacts DEF SaveSession, At, FlowInv, Underway, StepAt
<1>6. FlowInv'
  <2>1. CASE Return(w)
    <3>1. OnlyJob(w, Idle) /\ Idle.phone = Nil /\ InStep(Idle, session')
      BY <2>1 DEF Return, OnlyJob, InStep, Synced, Idle
    <3> QED
      BY <1>3, <1>4, <3>1, OwnStep
  <2>2. CASE o = "ok" /\ GoTo(w, "promptNagarsevak")
    <3> DEFINE j == [job[w] EXCEPT !.pc = "promptNagarsevak"]
    <3>1. OnlyJob(w, j) /\ j.phone = p /\ j.sess = s /\ j.pc = "promptNagarsevak"
      BY <1>1, <2>2 DEF GoTo, OnlyJob, Job
    <3>2. session'[p] = s /\ s # Nil
      <4>1. session'[p] = s
        BY <1>1, <1>2, <2>2 DEF PutSession, FlowInv, IInv, TypeOK
      <4>2. SessionCoherent' /\ TypeOK'
        BY <1>4 DEF IInv
      <4>3. session'[p] # Nil
        BY <1>1, <1>4, <4>1, NotNil DEF Job
      <4> QED
        BY <4>1, <4>3
    <3>3. InStep(j, session')
      BY <3>1, <3>2 DEF InStep, Synced
    <3> QED
      BY <1>3, <1>4, <3>1, <3>3, OwnStep
  <2>3. ASSUME NEW prompt \in Prompts, Say(w, prompt) PROVE FlowInv'
    <3> DEFINE out == [prompt |-> prompt, rows |-> {}, then |-> "idle"]
               j == [job[w] EXCEPT !.pc = "say", !.out = out]
    <3>1. OnlyJob(w, j) /\ j.phone = p /\ j.pc = "say" /\ j.out.then = "idle"
      BY <1>1, <2>3 DEF Say, SayThen, OnlyJob, Job
    <3>2. InStep(j, session')
      BY <3>1 DEF InStep, Synced
    <3> QED
      BY <1>3, <1>4, <3>1, <3>2, OwnStep
  <2>4. \/ Return(w) \/ (o = "ok" /\ GoTo(w, "promptNagarsevak"))
        \/ Say(w, "pin") \/ Say(w, "menu")
    BY <1>2, <1>5 DEF AfterSave
  <2> QED
    BY <2>1, <2>2, <2>3, <2>4 DEF Prompts
<1>7. [Flow!Next]_session
  BY <1>1, <1>2, OnwardFlows DEF PutSession, Flow!Put
<1> QED
  BY <1>6, <1>7

LEMMA ToWardChosenFlows ==
    ASSUME FlowInv, NEW w \in Workers, ToWardChosen(w)
    PROVE  FlowInv' /\ [Flow!Next]_session
<1> DEFINE p == job[w].phone
           s == [job[w].sess EXCEPT !.step = "WardChosen"]
           j == [job[w] EXCEPT !.pc = "promptWard", !.sess = s]
<1>1. /\ job[w] \in Job /\ p \in Phones
      /\ job[w].sess \in Session /\ job[w].sess.step = "Nagarsevak"
      /\ session[p] # Nil /\ job[w].sess = session[p]
  BY JobFacts DEF ToWardChosen, At, FlowInv, Underway, StepAt, InStep, Synced, Job
<1>2. PICK o : PutSession(p, s, o)
  BY DEF ToWardChosen, DemoteSession
<1>3. s \in Session /\ s # Nil /\ s.step = "WardChosen"
      /\ s = [s EXCEPT !.step = "WardChosen"]
  <2>1. s \in Session /\ s.step = "WardChosen"
    BY <1>1 DEF Session, Steps
  <2>2. [s EXCEPT !.step = "WardChosen"] \in Session
    BY <2>1 DEF Session, Steps
  <2> QED
    BY <2>1, <2>2, NotNil DEF Session
<1>4. OnlyJob(w, j)
  BY DEF ToWardChosen, DemoteSession, OnlyJob
<1>5. session'[p] \in {s, session[p]}
  BY <1>1, <1>2 DEF PutSession, FlowInv, IInv, TypeOK
<1>6. Synced("promptWard", s, session'[p])
  BY <1>1, <1>3, <1>5 DEF Synced
<1>7. [Flow!Next]_session
  BY <1>1, <1>2 DEF PutSession, Flow!Next, Flow!WardWithdrawn, Flow!AtStep, Flow!Put
<1>8. \A q \in Phones : q # p => session'[q] = session[q]
  BY <1>2 DEF PutSession, FlowInv, IInv, TypeOK
<1> HIDE DEF s
<1>9. j.phone = p /\ InStep(j, session')
  BY <1>1, <1>6 DEF InStep, Job
<1>10. IInv'
  BY ToWardChosenKeeps DEF FlowInv
<1>11. FlowInv'
  BY <1>4, <1>8, <1>9, <1>10, OwnStep
<1> QED
  BY <1>7, <1>11

LEMMA ToLangChosenFlows ==
    ASSUME FlowInv, NEW w \in Workers, ToLangChosen(w)
    PROVE  FlowInv' /\ [Flow!Next]_session
<1> DEFINE p == job[w].phone
           s == [job[w].sess EXCEPT !.step = "LangChosen"]
<1>1. /\ job[w] \in Job /\ p \in Phones
      /\ session[p] # Nil /\ session[p].step \in {"WardChosen", "Nagarsevak"}
      /\ session[p] \in Session
      /\ job[w].sess = [session[p] EXCEPT !.step = "WardChosen"]
  BY JobFacts DEF ToLangChosen, At, FlowInv, IInv, TypeOK, Underway, InStep, Synced
<1>2. PICK o : PutSession(p, s, o)
  BY DEF ToLangChosen, DemoteSession
<1>3. s = [session[p] EXCEPT !.step = "LangChosen"]
  BY <1>1 DEF Session
<1> HIDE DEF s
<1>4. [Flow!Next]_session
  BY <1>1, <1>2, <1>3 DEF PutSession, Flow!Next, Flow!PinWithdrawn, Flow!AtStep, Flow!Put
<1>5. \A q \in Phones : q # p => session'[q] = session[q]
  BY <1>2 DEF PutSession, FlowInv, IInv, TypeOK
<1>6. OnlyJob(w, Idle) /\ Idle.phone = Nil /\ InStep(Idle, session')
  BY DEF ToLangChosen, DemoteSession, Return, OnlyJob, InStep, Synced, Idle
<1>7. IInv'
  BY ToLangChosenKeeps DEF FlowInv
<1>8. FlowInv'
  BY <1>5, <1>6, <1>7, OwnStep
<1> QED
  BY <1>4, <1>8

-----------------------------------------------------------------------------
(* The theorems *)

LEMMA TakeFlows ==
    ASSUME FlowInv, "overlap" \notin Faults, NEW w \in Workers, Take(w)
    PROVE  FlowInv' /\ UNCHANGED session
<1>1. PICK p \in Phones :
         /\ Quiet(p)
         /\ \E m \in CanSend(p) :
               job' = [job EXCEPT ![w].pc = "touch", ![w].phone = p, ![w].msg = m]
  BY DEF Take
<1>2. PICK m \in CanSend(p) :
         job' = [job EXCEPT ![w].pc = "touch", ![w].phone = p, ![w].msg = m]
  BY <1>1
<1>3. UNCHANGED session /\ IInv'
  BY TakeKeeps DEF FlowInv, Take, redis
<1> DEFINE j == [job[w] EXCEPT !.pc = "touch", !.phone = p, !.msg = m]
<1>4. job[w] \in Job /\ OnlyJob(w, j)
  BY <1>2, JobFacts DEF FlowInv, OnlyJob
<1>5. \A v \in Workers : job'[v] = IF v = w THEN j ELSE job[v]
  BY <1>4 DEF OnlyJob, FlowInv, IInv, TypeOK
<1>6. j.phone = p /\ InStep(j, session')
  BY <1>4 DEF InStep, Synced, Job
<1>7. OneAtATime'
  BY <1>1, <1>5, <1>6 DEF FlowInv, OneAtATime, Quiet
<1> QED
  BY <1>3, <1>5, <1>6, <1>7 DEF FlowInv

LEMMA StepFlows ==
    ASSUME FlowInv, NEW w \in Workers, Step(w)
    PROVE  FlowInv' /\ [Flow!Next]_session
<1>1. CASE ResetSession(w)
  BY <1>1, ResetSessionFlows
<1>2. CASE SaveSession(w)
  BY <1>2, SaveSessionFlows
<1>3. CASE ToWardChosen(w)
  BY <1>3, ToWardChosenFlows
<1>4. CASE ToLangChosen(w)
  BY <1>4, ToLangChosenFlows
<1>5. CASE InStepAgain(w)
  BY <1>5, QuietStep
<1> QED
  BY <1>1, <1>2, <1>3, <1>4, <1>5, TouchInStep, GetSessionInStep, PanicInStep,
     ResetCommandInStep, CancelActiveInStep, AtStartInStep, AtLangChosenInStep,
     AtWardChosenInStep, AtNagarsevakInStep, AtMainMenuInStep, FetchLocationInStep,
     FetchWardsInStep, MatchWardInStep, PromptNagarsevakInStep, PromptWardInStep,
     PickNagarsevakInStep, SendPromptInStep
  DEF Step

LEMMA EnvironmentFlows ==
    ASSUME FlowInv, Serial, Environment PROVE FlowInv' /\ UNCHANGED session
<1>1. IInv' /\ UNCHANGED session
  BY EvictKeeps, ChangeRosterKeeps, CrashKeeps
     DEF FlowInv, Environment, Serial, Evict, ChangeRoster, Crash, redis
<1>2. CASE UNCHANGED job
  BY <1>1, <1>2 DEF FlowInv, OneAtATime
<1>3. CASE Crash
  BY <1>1, <1>3 DEF FlowInv, OneAtATime, Crash, InStep, Synced, Idle
<1> QED
  BY <1>1, <1>2, <1>3 DEF Environment, Evict, ChangeRoster, Serial

LEMMA NextFlows ==
    ASSUME FlowInv, Serial, [Next]_vars PROVE FlowInv' /\ [Flow!Next]_session
<1>1. CASE \E w \in Workers : Take(w)
  BY <1>1, TakeFlows DEF Serial
<1>2. CASE \E w \in Workers : Step(w)
  BY <1>2, StepFlows
<1>3. CASE Environment
  BY <1>3, EnvironmentFlows
<1>4. CASE UNCHANGED vars
  <2>1. IInv'
    BY <1>4, NextKeeps DEF FlowInv
  <2> QED
    BY <1>4, <2>1 DEF vars, FlowInv, OneAtATime
<1> QED
  BY <1>1, <1>2, <1>3, <1>4 DEF Next

LEMMA InitFlows == Init => FlowInv /\ Flow!Init
<1> SUFFICES ASSUME Init PROVE FlowInv /\ Flow!Init
  OBVIOUS
<1>1. \A w \in Workers : job[w] = Idle
  BY DEF Init
<1>2. FlowInv
  BY <1>1, InitGood DEF FlowInv, OneAtATime, InStep, Synced, Idle
<1> QED
  BY <1>2 DEF Init, Flow!Init

(***************************************************************************)
(* What the handlers store is a walk through the onboarding flow: each     *)
(* Save of handler.go is one choice, a way back or a fresh start, also     *)
(* when writes fail half-way, queries fail, prompts get lost and the       *)
(* process crashes between any two calls.                                  *)
(***************************************************************************)
THEOREM ImplementsFlow == ASSUME Serial PROVE Spec => FlowSpec
<1>1. FlowInv /\ [Next]_vars => FlowInv' /\ [Flow!Next]_session
  BY NextFlows
<1> QED
  BY <1>1, InitFlows, PTL DEF Spec, FlowSpec, Flow!Spec

\* The flow enters a conversation by the choice of a language only.
LEMMA EntersByLanguage ==
    ASSUME FlowInv, Flow!Next
    PROVE  \A p \in Phones :
              session[p] = Nil /\ session'[p] # Nil => session'[p].step = "LangChosen"
<1> SUFFICES ASSUME NEW p \in Phones, session[p] = Nil, session'[p] # Nil
             PROVE  session'[p].step = "LangChosen"
  OBVIOUS
<1>1. session \in [Phones -> Session \cup {Nil}]
  BY DEF FlowInv, IInv, TypeOK
<1>2. PICK q \in Phones :
         \/ Flow!ChooseLang(q) \/ Flow!EnterPinAndWard(q) \/ Flow!PickNagarsevak(q)
         \/ Flow!PickWard(q) \/ Flow!WardWithdrawn(q) \/ Flow!PinWithdrawn(q)
         \/ Flow!StartOver(q)
  BY DEF Flow!Next
<1>3. q = p
  BY <1>1, <1>2 DEF Flow!ChooseLang, Flow!EnterPinAndWard, Flow!PickNagarsevak, Flow!PickWard,
       Flow!WardWithdrawn, Flow!PinWithdrawn, Flow!StartOver, Flow!Put
<1>4. Flow!ChooseLang(p)
  BY <1>1, <1>2, <1>3 DEF Flow!EnterPinAndWard, Flow!PickNagarsevak, Flow!PickWard,
       Flow!WardWithdrawn, Flow!PinWithdrawn, Flow!StartOver, Flow!Put, Flow!AtStep
<1> QED
  BY <1>1, <1>4 DEF Flow!ChooseLang, Flow!Put

(***************************************************************************)
(* After a reset a citizen starts from the choice of a language: no write  *)
(* of a handler brings back a session that was cleared.                    *)
(***************************************************************************)
THEOREM ResetRestarts == ASSUME Serial PROVE Spec => RestartsFromLanguage
<1> DEFINE Restarts == \A p \in Phones :
              session[p] = Nil /\ session'[p] # Nil => session'[p].step = "LangChosen"
<1>1. ASSUME FlowInv, Flow!Next PROVE Restarts
  BY <1>1, EntersByLanguage
<1>2. FlowInv /\ [Next]_vars => FlowInv' /\ [Restarts]_vars
  BY <1>1, NextFlows DEF vars
<1>3. Init => FlowInv
  BY InitFlows
<1> QED
  BY <1>2, <1>3, PTL DEF Spec, RestartsFromLanguage

=============================================================================
