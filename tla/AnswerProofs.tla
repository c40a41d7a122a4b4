---------------------------- MODULE AnswerProofs ----------------------------
(***************************************************************************)
(* What a citizen finds when the handler of his message has returned: his  *)
(* session has its activity key, and the last prompt is the one of its     *)
(* step. Both need his messages handled one at a time and Redis to answer; *)
(* the second that nothing fails besides.                                  *)
(***************************************************************************)
EXTENDS FlowProofs

-----------------------------------------------------------------------------
(* What a step of a worker leaves alone *)

\* The job of worker w after the usual ends of a step.
LEMMA JobAfter ==
    ASSUME IInv, NEW w \in Workers
    PROVE  /\ Return(w) => job'[w] = Idle
           /\ \A pc \in PCs : GoTo(w, pc) =>
                 /\ job'[w].pc = pc
                 /\ job'[w].phone = job[w].phone /\ job'[w].msg = job[w].msg
           /\ \A s : SaveNext(w, s) =>
                 /\ job'[w].pc = "save"
                 /\ job'[w].phone = job[w].phone /\ job'[w].msg = job[w].msg
           /\ \A prompt, rows, then : SayThen(w, prompt, rows, then) =>
                 /\ job'[w].pc = "say"
                 /\ job'[w].phone = job[w].phone /\ job'[w].msg = job[w].msg
                 /\ job'[w].out.prompt = prompt /\ job'[w].out.then = then
<1>1. job \in [Workers -> Job] /\ job[w] \in Job
  BY DEF IInv, TypeOK
<1>2. Return(w) => job'[w] = Idle
  BY <1>1 DEF Return
<1>3. ASSUME NEW pc \in PCs, GoTo(w, pc)
      PROVE  job'[w].pc = pc /\ job'[w].phone = job[w].phone /\ job'[w].msg = job[w].msg
  BY <1>1, <1>3 DEF GoTo, Job
<1>4. ASSUME NEW s, SaveNext(w, s)
      PROVE  job'[w].pc = "save" /\ job'[w].phone = job[w].phone /\ job'[w].msg = job[w].msg
  BY <1>1, <1>4 DEF SaveNext, Job
<1>5. ASSUME NEW prompt, NEW rows, NEW then, SayThen(w, prompt, rows, then)
      PROVE  /\ job'[w].pc = "say" /\ job'[w].phone = job[w].phone /\ job'[w].msg = job[w].msg
             /\ job'[w].out.prompt = prompt /\ job'[w].out.then = then
  <2> DEFINE out == [prompt |-> prompt, rows |-> rows, then |-> then]
  <2>1. job' = [job EXCEPT ![w].pc = "say", ![w].out = out]
    BY <1>5 DEF SayThen
  <2> HIDE DEF out
  <2>2. /\ job'[w].pc = "say" /\ job'[w].out = out
        /\ job'[w].phone = job[w].phone /\ job'[w].msg = job[w].msg
    BY <1>1, <2>1 DEF Job
  <2> QED
    BY <2>2 DEF out
<1> QED
  BY <1>2, <1>3, <1>4, <1>5

\* A step of worker w changes no other job.
LEMMA OthersStay ==
    ASSUME IInv, NEW w \in Workers, Step(w), NEW v \in Workers, v # w
    PROVE  job'[v] = job[v]
<1>1. job \in [Workers -> Job]
  BY DEF IInv, TypeOK
<1>2. CASE Touch(w) \/ GetSession(w) \/ Panic(w) \/ ResetCommand(w) \/ ResetSession(w)
           \/ CancelActive(w)
  BY <1>1, <1>2 DEF Touch, GetSession, Panic, ResetCommand, ResetSession, CancelActive, GoTo,
     Return, Say, SayThen
<1>3. CASE AtStart(w) \/ AtLangChosen(w) \/ AtWardChosen(w) \/ AtNagarsevak(w) \/ AtMainMenu(w)
  BY <1>1, <1>3 DEF AtStart, AtLangChosen, AtWardChosen, AtNagarsevak, AtMainMenu, GoTo, Say,
     SayThen, SaveNext
<1>4. CASE FetchLocation(w) \/ FetchWards(w) \/ MatchWard(w) \/ SaveSession(w)
  <2>1. CASE FetchLocation(w) \/ FetchWards(w)
    BY <1>1, <2>1 DEF FetchLocation, FetchWards
  <2>2. CASE MatchWard(w)
    BY <1>1, <2>2 DEF MatchWard, Say, SayThen, SaveNext
  <2>3. CASE SaveSession(w)
    <3>1. job[w].sess.step \in {"LangChosen", "Nagarsevak", "MainMenu"}
      BY <2>3, JobFacts DEF SaveSession, At, Underway, StepAt
    <3> QED
      BY <1>1, <2>3, <3>1 DEF SaveSession, AfterSave, GoTo, Return, Say, SayThen
  <2> QED
    BY <1>4, <2>1, <2>2, <2>3
<1>5. CASE PromptNagarsevak(w) \/ PromptWard(w)
  BY <1>1, <1>5 DEF PromptNagarsevak, PromptWard, Say, SayThen
<1>6. CASE ToWardChosen(w) \/ ToLangChosen(w)
  BY <1>1, <1>6 DEF ToWardChosen, ToLangChosen, DemoteSession, Return
<1>7. CASE PickNagarsevak(w) \/ SendPrompt(w)
  BY <1>1, <1>7 DEF PickNagarsevak, SendPrompt, SayThen, SaveNext, Return
<1> QED
  BY <1>2, <1>3, <1>4, <1>5, <1>6, <1>7 DEF Step

\* A step of worker w is about the citizen whose message it handles, and him only.
LEMMA OwnCitizen ==
    ASSUME IInv, NEW w \in Workers, Step(w)
    PROVE  /\ job[w].pc # "idle" /\ job[w].phone \in Phones
           /\ \A q \in Phones \ {job[w].phone} : /\ session'[q] = session[q]
                                                 /\ active'[q] = active[q]
                                                 /\ screen'[q] = screen[q]
<1>1. job[w].pc # "idle"
  BY DEF Step, Touch, GetSession, Panic, ResetCommand, ResetSession, CancelActive, AtStart,
     AtLangChosen, AtWardChosen, AtNagarsevak, AtMainMenu, Handling, FetchLocation, FetchWards,
     MatchWard, SaveSession, PromptNagarsevak, ToWardChosen, PromptWard, ToLangChosen,
     PickNagarsevak, SendPrompt, At
<1>2. job[w].phone \in Phones
  BY <1>1, JobFacts DEF Underway
<1>3. ASSUME NEW q \in Phones \ {job[w].phone}
      PROVE  session'[q] = session[q] /\ active'[q] = active[q] /\ screen'[q] = screen[q]
  <2> USE DEF IInv, TypeOK, redis, chat
  <2>1. CASE Touch(w) \/ CancelActive(w)
    BY <2>1 DEF Touch, CancelActive, PutActive
  <2>2. CASE ResetSession(w) \/ SaveSession(w) \/ ToWardChosen(w) \/ ToLangChosen(w)
    BY <2>2 DEF ResetSession, SaveSession, ToWardChosen, ToLangChosen, DemoteSession, PutSession
  <2>3. CASE SendPrompt(w)
    BY <2>3 DEF SendPrompt
  <2>4. CASE UNCHANGED <<redis, chat>>
    BY <2>4
  <2> QED
    BY <2>1, <2>2, <2>3, <2>4
    DEF Step, GetSession, Panic, ResetCommand, AtStart, AtLangChosen, AtWardChosen, AtNagarsevak,
        AtMainMenu, FetchLocation, FetchWards, MatchWard, PromptNagarsevak, PromptWard,
        PickNagarsevak
<1> QED
  BY <1>1, <1>2, <1>3

\* After a step the worker is still with its citizen and his message, or idle.
LEMMA SameCitizen ==
    ASSUME IInv, NEW w \in Workers, Step(w)
    PROVE  \/ job'[w] = Idle
           \/ job'[w].phone = job[w].phone /\ job'[w].msg = job[w].msg
<1>1. job \in [Workers -> Job] /\ job[w] \in Job
  BY DEF IInv, TypeOK
<1>2. CASE Touch(w) \/ ResetCommand(w) \/ ResetSession(w) \/ CancelActive(w) \/ Panic(w)
  BY <1>2, JobAfter
  DEF Touch, ResetCommand, ResetSession, CancelActive, Panic, Say, PCs
<1>3. CASE AtLangChosen(w) \/ AtNagarsevak(w) \/ AtMainMenu(w)
  BY <1>3, JobAfter DEF AtLangChosen, AtNagarsevak, AtMainMenu, Say, PCs
<1>4. CASE AtStart(w) \/ AtWardChosen(w) \/ MatchWard(w) \/ PickNagarsevak(w)
  <2>1. CASE AtStart(w) \/ MatchWard(w)
    BY <2>1, JobAfter DEF AtStart, MatchWard, Say
  <2>2. CASE AtWardChosen(w)
    BY <2>2, JobAfter DEF AtWardChosen, PCs
  <2>3. CASE PickNagarsevak(w)
    BY <2>3, JobAfter DEF PickNagarsevak
  <2> QED
    BY <1>4, <2>1, <2>2, <2>3
<1>5. CASE GetSession(w) \/ FetchLocation(w) \/ FetchWards(w)
  BY <1>1, <1>5, JobAfter DEF GetSession, FetchLocation, FetchWards, Job
<1>6. CASE SaveSession(w)
  <2>1. job[w].sess.step \in {"LangChosen", "Nagarsevak", "MainMenu"}
    BY <1>6, JobFacts DEF SaveSession, At, Underway, StepAt
  <2> QED
    BY <1>6, <2>1, JobAfter DEF SaveSession, AfterSave, Say, PCs
<1>7. CASE PromptNagarsevak(w) \/ PromptWard(w)
  BY <1>7, JobAfter DEF PromptNagarsevak, PromptWard, Say
<1>8. CASE ToWardChosen(w) \/ ToLangChosen(w)
  BY <1>1, <1>8, JobAfter DEF ToWardChosen, ToLangChosen, DemoteSession, Job
<1>9. CASE SendPrompt(w)
  BY <1>1, <1>9, JobAfter DEF SendPrompt, Job
<1> QED
  BY <1>2, <1>3, <1>4, <1>5, <1>6, <1>7, <1>8, <1>9 DEF Step

-----------------------------------------------------------------------------
(* Every session is watched *)

\* No message overlaps another of its citizen, and Redis neither fails nor drops a key.
Reliable == {"redis", "evict", "overlap"} \cap Faults = {}

\* The handler is between Touch and its last call, on a path that may still store.
Touched(j) ==
    j.pc \notin {"idle", "touch", "cancel"} /\ (j.pc = "say" => j.out.then # "idle")

WatchedJob(j) ==
    /\ Touched(j) => active[j.phone] # Nil
    /\ j.pc = "cancel" => session[j.phone] = Nil

(***************************************************************************)
(* A handler that may still store a session has touched the activity key,  *)
(* and only reset deletes that key again, after the session.               *)
(***************************************************************************)
WatchInv ==
    /\ FlowInv
    /\ \A w \in Workers : WatchedJob(job[w])
    /\ EverySessionWatched

LEMMA WatchInit == Init => WatchInv
<1> SUFFICES ASSUME Init PROVE WatchInv
  OBVIOUS
<1>1. \A w \in Workers : job[w].pc = "idle"
  BY DEF Init, Idle
<1> QED
  BY <1>1, InitFlows DEF Init, WatchInv, WatchedJob, Touched, EverySessionWatched

\* Nothing but Take gives a worker a citizen, and only one without another handler.
LEMMA TakeFacts ==
    ASSUME IInv, "overlap" \notin Faults, NEW w \in Workers, Take(w)
    PROVE  /\ UNCHANGED <<session, active, screen>>
           /\ \A v \in Workers : v # w => job'[v] = job[v]
           /\ job[w] = Idle /\ job'[w].pc = "touch" /\ job'[w].phone \in Phones
           /\ Quiet(job'[w].phone)
<1>1. PICK p \in Phones : \E m \in CanSend(p) :
         /\ Quiet(p)
         /\ job' = [job EXCEPT ![w].pc = "touch", ![w].phone = p, ![w].msg = m]
  BY DEF Take
<1>2. PICK m \in CanSend(p) :
         job' = [job EXCEPT ![w].pc = "touch", ![w].phone = p, ![w].msg = m]
  BY <1>1
<1>3. job \in [Workers -> Job] /\ job[w] \in Job /\ job[w] = Idle
  BY JobFacts DEF IInv, TypeOK, Take, At
<1>4. job'[w].pc = "touch" /\ job'[w].phone = p
  BY <1>2, <1>3 DEF Job
<1>5. \A v \in Workers : v # w => job'[v] = job[v]
  BY <1>2, <1>3
<1> QED
  BY <1>1, <1>3, <1>4, <1>5 DEF Take, redis, chat

\* What one step of a handler does to the two keys of its citizen.
LEMMA WatchStep ==
    ASSUME WatchInv, Reliable, NEW w \in Workers, Step(w)
    PROVE  /\ session'[job[w].phone] # Nil => active'[job[w].phone] # Nil
           /\ Touched(job'[w]) => active'[job[w].phone] # Nil
           /\ job'[w].pc = "cancel" => session'[job[w].phone] = Nil
<1> DEFINE p == job[w].phone
           Goal == /\ session'[p] # Nil => active'[p] # Nil
                   /\ Touched(job'[w]) => active'[p] # Nil
                   /\ job'[w].pc = "cancel" => session'[p] = Nil
<1>0. /\ IInv /\ p \in Phones /\ job \in [Workers -> Job] /\ job[w] \in Job
      /\ session \in [Phones -> Session \cup {Nil}] /\ active \in [Phones -> Nat \cup {Nil}]
      /\ (session[p] # Nil => active[p] # Nil) /\ WatchedJob(job[w])
      /\ WriteOutcomes = {"ok"}
  BY OwnCitizen DEF WatchInv, FlowInv, IInv, TypeOK, EverySessionWatched, Reliable, WriteOutcomes
<1>1. CASE Touch(w)
  <2>1. active'[p] = 0 /\ 0 # Nil
    BY <1>0, <1>1, NilAssumption DEF Touch, PutActive
  <2> QED
    BY <1>0, <1>1, <2>1, JobAfter DEF Touch, PCs
<1>2. CASE ResetSession(w)
  <2>1. session'[p] = Nil /\ active'[p] = active[p] /\ Touched(job[w])
    BY <1>0, <1>2 DEF ResetSession, PutSession, At, Touched
  <2> QED
    BY <1>0, <2>1 DEF WatchedJob
<1>3. CASE CancelActive(w)
  <2>1. session'[p] = Nil /\ job'[w].pc = "say" /\ job'[w].out.then = "idle"
    <3>1. session'[p] = Nil
      BY <1>0, <1>3 DEF CancelActive, WatchedJob, At
    <3>2. SayThen(w, "resetAck", {}, "idle")
      BY <1>3 DEF CancelActive, Say
    <3>3. job'[w].pc = "say" /\ job'[w].out.then = "idle"
      BY <1>0, <3>2, JobAfter
    <3> QED
      BY <3>1, <3>3
  <2> QED
    BY <2>1 DEF Touched
<1>4. CASE SendPrompt(w) /\ job'[w] = Idle
  BY <1>0, <1>4 DEF SendPrompt, redis, Idle, Touched
<1>5. ASSUME Touched(job[w]), UNCHANGED active, job'[w].pc # "cancel" PROVE Goal
  BY <1>0, <1>5 DEF WatchedJob
<1>6. CASE SendPrompt(w) /\ job'[w] # Idle
  <2>1. job[w].pc = "say" /\ job[w].out.then # "idle" /\ job'[w].pc = job[w].out.then
    BY <1>0, <1>6 DEF SendPrompt, Return, At, Job
  <2>2. job[w].out.then \in Continuations
    BY <1>0, <2>1, JobFacts DEF Underway
  <2> QED
    BY <1>5, <1>6, <2>1, <2>2 DEF Touched, Continuations, SendPrompt, redis
<1>7. CASE GetSession(w) \/ Panic(w) \/ ResetCommand(w)
  <2>1. job'[w].pc \in {"idle", "dispatch", "del"}
    BY <1>0, <1>7, JobAfter DEF GetSession, Panic, ResetCommand, Idle, Job, PCs
  <2>2. Touched(job[w]) /\ UNCHANGED active
    BY <1>7 DEF GetSession, Panic, ResetCommand, At, Touched, redis
  <2> QED
    BY <1>5, <2>1, <2>2
<1>8. CASE AtStart(w) \/ AtLangChosen(w) \/ AtWardChosen(w) \/ AtNagarsevak(w) \/ AtMainMenu(w)
  <2>1. job'[w].pc # "cancel"
    <3>1. CASE AtStart(w) \/ AtMainMenu(w)
      BY <1>0, <3>1, JobAfter DEF AtStart, AtMainMenu, Say
    <3>2. CASE AtLangChosen(w)
      BY <1>0, <3>2, JobAfter DEF AtLangChosen, Say, PCs
    <3>3. CASE AtWardChosen(w) \/ AtNagarsevak(w)
      BY <1>0, <3>3, JobAfter DEF AtWardChosen, AtNagarsevak, PCs
    <3> QED
      BY <1>8, <3>1, <3>2, <3>3
  <2>2. Touched(job[w]) /\ UNCHANGED active
    BY <1>8 DEF AtStart, AtLangChosen, AtWardChosen, AtNagarsevak, AtMainMenu, Handling, At,
       Touched, redis
  <2> QED
    BY <1>5, <2>1, <2>2
<1>9. CASE FetchLocation(w) \/ FetchWards(w) \/ MatchWard(w)
  <2>1. job'[w].pc # "cancel"
    <3>1. CASE FetchLocation(w) \/ FetchWards(w)
      BY <1>0, <3>1 DEF FetchLocation, FetchWards, At, Job
    <3>2. CASE MatchWard(w)
      BY <1>0, <3>2, JobAfter DEF MatchWard, Say
    <3> QED
      BY <1>9, <3>1, <3>2
  <2>2. Touched(job[w]) /\ UNCHANGED active
    BY <1>9 DEF FetchLocation, FetchWards, MatchWard, At, Touched, redis
  <2> QED
    BY <1>5, <2>1, <2>2
<1>10. CASE SaveSession(w) \/ ToWardChosen(w) \/ ToLangChosen(w)
  <2>1. job'[w].pc # "cancel"
    <3>1. CASE SaveSession(w)
      <4>1. job[w].sess.step \in {"LangChosen", "Nagarsevak", "MainMenu"}
        BY <1>0, <3>1, JobFacts DEF SaveSession, At, Underway, StepAt
      <4> QED
        BY <1>0, <3>1, <4>1, JobAfter DEF SaveSession, AfterSave, Say, PCs, Idle
    <3>2. CASE ToWardChosen(w) \/ ToLangChosen(w)
      BY <1>0, <3>2, JobAfter DEF ToWardChosen, ToLangChosen, DemoteSession, Idle, Job
    <3> QED
      BY <1>10, <3>1, <3>2
  <2>2. Touched(job[w]) /\ UNCHANGED active
    BY <1>10 DEF SaveSession, ToWardChosen, ToLangChosen, DemoteSession, At, Touched
  <2> QED
    BY <1>5, <2>1, <2>2
<1>11. CASE PromptNagarsevak(w) \/ PromptWard(w) \/ PickNagarsevak(w)
  <2>1. job'[w].pc # "cancel"
    <3>1. CASE PromptNagarsevak(w)
      BY <1>0, <3>1, JobAfter DEF PromptNagarsevak, Say
    <3>2. CASE PromptWard(w)
      BY <1>0, <3>2, JobAfter DEF PromptWard, Say
    <3>3. CASE PickNagarsevak(w)
      BY <1>0, <3>3, JobAfter DEF PickNagarsevak, Say
    <3> QED
      BY <1>11, <3>1, <3>2, <3>3
  <2>2. Touched(job[w]) /\ UNCHANGED active
    BY <1>11 DEF PromptNagarsevak, PromptWard, PickNagarsevak, At, Touched, redis
  <2> QED
    BY <1>5, <2>1, <2>2
<1> QED
  BY <1>1, <1>2, <1>3, <1>4, <1>6, <1>7, <1>8, <1>9, <1>10, <1>11 DEF Step

LEMMA WatchNext == ASSUME WatchInv, Reliable, [Next]_vars PROVE WatchInv'
<1>0. Serial /\ FlowInv /\ FlowInv' /\ IInv
  BY NextFlows DEF WatchInv, FlowInv, Reliable, Serial
<1>1. ASSUME NEW w \in Workers, Step(w) PROVE WatchInv'
  <2> DEFINE p == job[w].phone
  <2>1. EverySessionWatched'
    BY <1>0, <1>1, OwnCitizen, WatchStep DEF WatchInv, EverySessionWatched
  <2>2. ASSUME NEW v \in Workers PROVE WatchedJob(job[v])'
    <3>1. CASE v = w
      <4>1. CASE job'[w] = Idle
        BY <3>1, <4>1 DEF WatchedJob, Touched, Idle
      <4>2. CASE job'[w].phone = p
        BY <1>1, <3>1, <4>2, WatchStep DEF WatchedJob, Touched
      <4> QED
        BY <1>0, <1>1, <4>1, <4>2, SameCitizen
    <3>2. CASE v # w /\ job[v].pc = "idle"
      BY <1>0, <1>1, <3>2, OthersStay DEF WatchedJob, Touched
    <3>3. CASE v # w /\ job[v].pc # "idle"
      <4>1. job'[v] = job[v] /\ job[v].phone \in Phones \ {p}
        <5>1. job[v].phone \in Phones /\ p \in Phones
          BY <1>0, <1>1, <3>3, JobFacts, OwnCitizen DEF Underway
        <5> QED
          BY <1>0, <1>1, <3>3, <5>1, OthersStay, NilAssumption DEF FlowInv, OneAtATime
      <4>2. session'[job[v].phone] = session[job[v].phone] /\ active'[job[v].phone] = active[job[v].phone]
        BY <1>0, <1>1, <4>1, OwnCitizen
      <4> QED
        BY <4>1, <4>2 DEF WatchInv, WatchedJob, Touched
    <3> QED
      BY <3>1, <3>2, <3>3
  <2> QED
    BY <1>0, <2>1, <2>2 DEF WatchInv
<1>2. ASSUME NEW w \in Workers, Take(w) PROVE WatchInv'
  <2>1. ASSUME NEW v \in Workers PROVE WatchedJob(job[v])'
    <3>1. CASE v = w
      BY <1>0, <1>2, <3>1, TakeFacts DEF Serial, WatchedJob, Touched
    <3>2. CASE v # w
      BY <1>0, <1>2, <3>2, TakeFacts DEF Serial, WatchInv, WatchedJob, Touched
    <3> QED
      BY <3>1, <3>2
  <2> QED
    BY <1>0, <1>2, <2>1, TakeFacts DEF Serial, WatchInv, EverySessionWatched
<1>3. CASE Environment
  <2>1. UNCHANGED <<session, active>> /\ (UNCHANGED job \/ Crash)
    BY <1>3 DEF Environment, Evict, ChangeRoster, Crash, redis, Reliable
  <2>2. CASE UNCHANGED job
    BY <1>0, <2>1, <2>2 DEF WatchInv, WatchedJob, Touched, EverySessionWatched
  <2>3. CASE Crash
    BY <1>0, <2>1, <2>3 DEF Crash, Idle, WatchInv, WatchedJob, Touched, EverySessionWatched
  <2> QED
    BY <2>1, <2>2, <2>3
<1>4. CASE UNCHANGED vars
  BY <1>0, <1>4 DEF vars, WatchInv, WatchedJob, Touched, EverySessionWatched
<1> QED
  BY <1>1, <1>2, <1>3, <1>4 DEF Next

(***************************************************************************)
(* No session is out of the inactivity monitor's sight: whatever prompts   *)
(* get lost, whatever queries fail and between whichever calls the process *)
(* crashes, a stored session has its wa:active key.                        *)
(***************************************************************************)
THEOREM SessionsAreWatched == ASSUME Reliable PROVE Spec => []EverySessionWatched
<1>1. WatchInv => EverySessionWatched
  BY DEF WatchInv
<1>2. WatchInv /\ [Next]_vars => WatchInv'
  BY WatchNext
<1> QED
  BY <1>1, <1>2, WatchInit, PTL DEF Spec

-----------------------------------------------------------------------------
(* The screen asks for what the session waits for *)

\* Representatives may come and go; otherwise nothing goes wrong.
NothingFails == Faults \subseteq {"roster"}

PromptedJob(j) ==
    LET stored == session[j.phone]
        seen   == screen[j.phone] IN
    /\ j.pc \in {"touch", "get", "dispatch"} => seen \in PromptsFor(stored)
    /\ j.pc = "cancel" => stored = Nil
    /\ j.pc \in {"promptWard", "toLangChosen"} => stored.step = "WardChosen"
    /\ j.pc = "toLangChosen" => seen = "invalid"
    /\ j.pc = "say" /\ j.out.then = "idle" => j.out.prompt \in PromptsFor(stored)
    /\ j.pc = "say" /\ j.out.then = "toLangChosen" =>
          j.out.prompt = "invalid" /\ stored.step = "WardChosen"

(***************************************************************************)
(* The last prompt of every path fits the session as it then is. A handler *)
(* that still has something to say may leave the two apart; one that has   *)
(* decided nothing yet may also return in silence, and does not.           *)
(***************************************************************************)
ScreenInv ==
    /\ FlowInv
    /\ \A w \in Workers : PromptedJob(job[w])
    /\ ScreenMatchesSession

LEMMA ScreenInit == Init => ScreenInv
<1> SUFFICES ASSUME Init PROVE ScreenInv
  OBVIOUS
<1>1. \A w \in Workers : job[w].pc = "idle"
  BY DEF Init, Idle
<1> QED
  BY <1>1, InitFlows DEF Init, ScreenInv, PromptedJob, ScreenMatchesSession, PromptsFor

LEMMA PromptsAtStep ==
    ASSUME NEW s \in Session
    PROVE  /\ s.step = "LangChosen" => PromptsFor(s) = {"pin", "invalid"}
           /\ s.step = "WardChosen" => PromptsFor(s) = {"listless"}
           /\ s.step = "Nagarsevak" => PromptsFor(s) = {"list"}
           /\ s.step = "MainMenu"   => PromptsFor(s) = {"menu"}
  BY NotNil DEF PromptsFor

\* The handler of p's message has a job that fits, or has returned to a screen that does.
Fits(w, p) ==
    \/ job'[w] = Idle /\ screen'[p] \in PromptsFor(session'[p])
    \/ job'[w].phone = p /\ PromptedJob(job[w])'

\* At these places of the handler anything may be on the screen.
LEMMA FreePlace ==
    ASSUME NEW w, NEW p, job'[w].phone = p,
           job'[w].pc \in {"del", "lookup", "save", "pick", "promptNagarsevak", "toWardChosen"}
    PROVE  Fits(w, p)
  BY DEF Fits, PromptedJob

\* A last prompt fits the session.
LEMMA LastPrompt ==
    ASSUME IInv, NEW w \in Workers, NEW prompt, Say(w, prompt),
           prompt \in PromptsFor(session'[job[w].phone])
    PROVE  Fits(w, job[w].phone)
<1>1. /\ job'[w].pc = "say" /\ job'[w].phone = job[w].phone
      /\ job'[w].out.prompt = prompt /\ job'[w].out.then = "idle"
  BY JobAfter DEF Say
<1> QED
  BY <1>1 DEF Fits, PromptedJob

LEMMA ScreenStep ==
    ASSUME ScreenInv, NothingFails, NEW w \in Workers, Step(w)
    PROVE  Fits(w, job[w].phone)
<1> DEFINE p == job[w].phone
<1>0. /\ FlowInv /\ IInv /\ p \in Phones /\ job \in [Workers -> Job] /\ job[w] \in Job
      /\ session \in [Phones -> Session \cup {Nil}] /\ PromptedJob(job[w])
      /\ screen \in [Phones -> Prompts \cup {Nil}]
  BY OwnCitizen DEF ScreenInv, FlowInv, IInv, TypeOK
<1>00. WriteOutcomes = {"ok"} /\ May("redis") = {FALSE} /\ May("db") = {FALSE} /\ May("wa") = {FALSE}
  BY DEF NothingFails, WriteOutcomes, May
<1>1. CASE Touch(w)
  BY <1>0, <1>1, JobAfter DEF Touch, PCs, Fits, PromptedJob, At, chat
<1>2. CASE GetSession(w)
  <2>1. job'[w].pc = "dispatch" /\ job'[w].phone = p
    <3>1. PICK s : job' = [job EXCEPT ![w].pc = "dispatch", ![w].sess = s]
      BY <1>00, <1>2 DEF GetSession
    <3> QED
      BY <1>0, <3>1 DEF Job
  <2> QED
    BY <1>0, <1>2, <2>1 DEF Fits, PromptedJob, GetSession, At, redis, chat
<1>3. CASE Panic(w)
  BY <1>0, <1>3, JobAfter DEF Panic, Fits, PromptedJob, At, redis, chat
<1>4. CASE ResetCommand(w)
  BY <1>0, <1>4, JobAfter, FreePlace DEF ResetCommand, PCs
<1>5. CASE ResetSession(w)
  <2>1. session'[p] = Nil
    BY <1>0, <1>00, <1>5 DEF ResetSession, PutSession
  <2>2. job'[w].pc = "cancel" /\ job'[w].phone = p
    BY <1>0, <1>5, JobAfter DEF ResetSession, PCs
  <2> QED
    BY <2>1, <2>2 DEF Fits, PromptedJob
<1>6. CASE CancelActive(w)
  <2>1. session'[p] = Nil /\ Say(w, "resetAck")
    BY <1>0, <1>6 DEF CancelActive, PromptedJob, At
  <2> QED
    BY <1>0, <2>1, LastPrompt DEF PromptsFor
<1>7. CASE AtStart(w)
  <2>1. session'[p] = Nil
    BY <1>0, <1>7, HandlingFacts DEF AtStart, Steps, redis
  <2>2. CASE Say(w, "picker")
    BY <1>0, <2>1, <2>2, LastPrompt DEF PromptsFor
  <2>3. CASE job[w].msg.tag = "lang"
    BY <1>0, <1>7, <2>3, JobAfter, FreePlace DEF AtStart
  <2> QED
    BY <1>7, <2>2, <2>3 DEF AtStart
<1>8. CASE AtLangChosen(w)
  <2>1. session'[p] \in Session /\ session'[p].step = "LangChosen"
    BY <1>0, <1>8, HandlingFacts DEF AtLangChosen, Handling, Steps, redis
  <2>2. CASE Say(w, "pin") \/ Say(w, "invalid")
    BY <1>0, <2>1, <2>2, LastPrompt, PromptsAtStep
  <2>3. CASE GoTo(w, "lookup")
    BY <1>0, <2>3, JobAfter, FreePlace DEF PCs
  <2> QED
    BY <1>8, <2>2, <2>3 DEF AtLangChosen
<1>9. CASE AtWardChosen(w)
  <2>1. session'[p] = job[w].sess /\ job[w].sess.step = "WardChosen"
    BY <1>0, <1>9, HandlingFacts DEF AtWardChosen, Handling, Steps, redis
  <2>2. CASE GoTo(w, "promptWard")
    <3>1. job'[w].pc = "promptWard" /\ job'[w].phone = p
      BY <1>0, <2>2, JobAfter DEF PCs
    <3> QED
      BY <2>1, <3>1 DEF Fits, PromptedJob
  <2>3. CASE job[w].msg.tag = "ward"
    BY <1>0, <1>9, <2>3, JobAfter, FreePlace DEF AtWardChosen
  <2> QED
    BY <1>9, <2>2, <2>3 DEF AtWardChosen
<1>10. CASE AtNagarsevak(w)
  BY <1>0, <1>10, JobAfter, FreePlace DEF AtNagarsevak, PCs
<1>11. CASE AtMainMenu(w)
  <2>1. session'[p] \in Session /\ session'[p].step = "MainMenu" /\ Say(w, "menu")
    BY <1>0, <1>11, HandlingFacts DEF AtMainMenu, Handling, Steps, redis
  <2> QED
    BY <1>0, <2>1, LastPrompt, PromptsAtStep
<1>12. CASE FetchLocation(w) \/ FetchWards(w)
  <2>1. job'[w].pc = "lookup" /\ job'[w].phone = p
    BY <1>0, <1>12 DEF FetchLocation, FetchWards, At, Job
  <2> QED
    BY <2>1, FreePlace
<1>13. CASE MatchWard(w)
  <2>1. job[w].sess.step = "LangChosen" /\ Synced("lookup", job[w].sess, session[p])
    BY <1>0, <1>13, JobFacts DEF MatchWard, At, Underway, StepAt, FlowInv, InStep
  <2>2. session'[p] \in Session /\ session'[p].step = "LangChosen"
    BY <1>0, <1>13, <2>1 DEF MatchWard, Synced, Fresh, redis
  <2>3. CASE Say(w, "invalid")
    BY <1>0, <2>2, <2>3, LastPrompt, PromptsAtStep
  <2>4. CASE SaveNext(w, Located(job[w].sess, job[w].msg.arg))
    BY <1>0, <2>4, JobAfter, FreePlace
  <2> QED
    BY <1>13, <2>3, <2>4 DEF MatchWard
<1>14. CASE SaveSession(w)
  <2>1. session'[p] = job[w].sess /\ AfterSave(w) /\ job[w].sess \in Session
    BY <1>0, <1>00, <1>14 DEF SaveSession, PutSession, Job
  <2>2. job[w].sess.step \in {"LangChosen", "Nagarsevak", "MainMenu"}
    BY <1>0, <1>14, JobFacts DEF SaveSession, At, Underway, StepAt
  <2>3. CASE job[w].sess.step = "Nagarsevak"
    <3>1. GoTo(w, "promptNagarsevak")
      BY <2>1, <2>3 DEF AfterSave
    <3> QED
      BY <1>0, <3>1, JobAfter, FreePlace DEF PCs
  <2>4. CASE job[w].sess.step = "LangChosen"
    <3>1. Say(w, "pin")
      BY <2>1, <2>4 DEF AfterSave
    <3> QED
      BY <1>0, <2>1, <2>4, <3>1, LastPrompt, PromptsAtStep
  <2>5. CASE job[w].sess.step = "MainMenu"
    <3>1. Say(w, "menu")
      BY <2>1, <2>5 DEF AfterSave
    <3> QED
      BY <1>0, <2>1, <2>5, <3>1, LastPrompt, PromptsAtStep
  <2> QED
    BY <2>2, <2>3, <2>4, <2>5
<1>15. CASE PromptNagarsevak(w)
  <2>1. job[w].sess.step = "Nagarsevak" /\ Synced("promptNagarsevak", job[w].sess, session[p])
    BY <1>0, <1>15, JobFacts DEF PromptNagarsevak, At, Underway, StepAt, FlowInv, InStep
  <2>2. session'[p] \in Session /\ session'[p].step = "Nagarsevak"
    BY <1>0, <1>15, <2>1 DEF PromptNagarsevak, Synced, redis
  <2>3. PICK rows : SayThen(w, "invalid", {}, "toWardChosen") \/ SayThen(w, "list", rows, "idle")
    BY <1>00, <1>15 DEF PromptNagarsevak
  <2>4. CASE SayThen(w, "invalid", {}, "toWardChosen")
    <3>1. job'[w].pc = "say" /\ job'[w].phone = p /\ job'[w].out.then = "toWardChosen"
      BY <1>0, <2>4, JobAfter
    <3> QED
      BY <3>1 DEF Fits, PromptedJob
  <2>5. CASE SayThen(w, "list", rows, "idle")
    <3>1. /\ job'[w].pc = "say" /\ job'[w].phone = p
          /\ job'[w].out.then = "idle" /\ job'[w].out.prompt = "list"
      BY <1>0, <2>5, JobAfter
    <3> QED
      BY <2>2, <3>1, PromptsAtStep DEF Fits, PromptedJob
  <2> QED
    BY <2>3, <2>4, <2>5
<1>16. CASE ToWardChosen(w)
  <2>1. session'[p] = [job[w].sess EXCEPT !.step = "WardChosen"] /\ job[w].sess \in Session
    BY <1>0, <1>00, <1>16 DEF ToWardChosen, DemoteSession, PutSession, Job
  <2>2. job'[w].pc = "promptWard" /\ job'[w].phone = p
    BY <1>0, <1>16 DEF ToWardChosen, DemoteSession, Job
  <2>3. session'[p].step = "WardChosen"
    BY <2>1 DEF Session
  <2> QED
    BY <2>2, <2>3 DEF Fits, PromptedJob
<1>17. CASE PromptWard(w)
  <2>1. session'[p] \in Session /\ session'[p].step = "WardChosen"
    <3>1. Synced("promptWard", job[w].sess, session[p])
      BY <1>17 DEF PromptWard, At, ScreenInv, FlowInv, InStep
    <3> QED
      BY <1>0, <1>17, <3>1 DEF PromptWard, At, PromptedJob, Synced, redis
  <2>2. CASE Say(w, "listless")
    BY <1>0, <2>1, <2>2, LastPrompt, PromptsAtStep
  <2>3. CASE SayThen(w, "invalid", {}, "toLangChosen")
    <3>1. /\ job'[w].pc = "say" /\ job'[w].phone = p
          /\ job'[w].out.then = "toLangChosen" /\ job'[w].out.prompt = "invalid"
      BY <1>0, <2>3, JobAfter
    <3> QED
      BY <2>1, <3>1 DEF Fits, PromptedJob
  <2> QED
    BY <1>00, <1>17, <2>2, <2>3 DEF PromptWard
<1>18. CASE ToLangChosen(w)
  <2>1. session'[p] = [job[w].sess EXCEPT !.step = "LangChosen"] /\ job[w].sess \in Session
    BY <1>0, <1>00, <1>18 DEF ToLangChosen, DemoteSession, PutSession, Job
  <2>2. session'[p] \in Session /\ session'[p].step = "LangChosen"
    BY <2>1 DEF Session, Steps
  <2>3. job'[w] = Idle /\ screen'[p] = "invalid"
    BY <1>0, <1>18, JobAfter DEF ToLangChosen, DemoteSession, At, PromptedJob, chat
  <2> QED
    BY <2>2, <2>3, PromptsAtStep DEF Fits
<1>19. CASE PickNagarsevak(w)
  <2>1. CASE SayThen(w, "invalid", {}, "promptNagarsevak")
    <3>1. job'[w].pc = "say" /\ job'[w].phone = p /\ job'[w].out.then = "promptNagarsevak"
      BY <1>0, <2>1, JobAfter
    <3> QED
      BY <3>1 DEF Fits, PromptedJob
  <2>2. CASE job'[w].pc = "save" /\ job'[w].phone = p
    BY <2>2, FreePlace
  <2> QED
    BY <1>0, <1>19, <2>1, <2>2, JobAfter DEF PickNagarsevak
<1>20. CASE SendPrompt(w)
  <2>1. /\ screen'[p] = job[w].out.prompt /\ session' = session /\ job[w].pc = "say"
        /\ job[w].out.then \in Continuations
    BY <1>0, <1>00, <1>20, JobFacts DEF SendPrompt, At, Underway, redis
  <2>2. CASE job[w].out.then = "idle"
    <3>1. job'[w] = Idle
      BY <1>0, <1>20, <2>2, JobAfter DEF SendPrompt
    <3> QED
      BY <1>0, <2>1, <2>2, <3>1 DEF Fits, PromptedJob
  <2>3. CASE job[w].out.then # "idle"
    <3>1. job'[w].pc = job[w].out.then /\ job'[w].phone = p
      BY <1>0, <1>20, <2>3 DEF SendPrompt, Job
    <3>2. CASE job[w].out.then = "toLangChosen"
      BY <1>0, <2>1, <3>1, <3>2 DEF Fits, PromptedJob
    <3>3. CASE job[w].out.then # "toLangChosen"
      BY <2>1, <2>3, <3>1, <3>3, FreePlace DEF Continuations
    <3> QED
      BY <3>2, <3>3
  <2> QED
    BY <2>2, <2>3
<1> QED
  BY <1>1, <1>2, <1>3, <1>4, <1>5, <1>6, <1>7, <1>8, <1>9, <1>10, <1>11, <1>12, <1>13, <1>14,
     <1>15, <1>16, <1>17, <1>18, <1>19, <1>20 DEF Step

LEMMA ScreenNext == ASSUME ScreenInv, NothingFails, [Next]_vars PROVE ScreenInv'
<1>0. Serial /\ FlowInv /\ FlowInv' /\ IInv
  BY NextFlows DEF ScreenInv, FlowInv, NothingFails, Serial
<1>1. ASSUME NEW w \in Workers, Step(w) PROVE ScreenInv'
  <2> DEFINE p == job[w].phone
  <2>0. p \in Phones /\ Fits(w, p) /\ p # Nil
    BY <1>0, <1>1, OwnCitizen, ScreenStep, NilAssumption
  <2>1. ASSUME NEW v \in Workers PROVE PromptedJob(job[v])'
    <3>1. CASE v = w
      BY <2>0, <3>1 DEF Fits, PromptedJob, Idle
    <3>2. CASE v # w /\ job[v].pc = "idle"
      BY <1>0, <1>1, <3>2, OthersStay DEF PromptedJob
    <3>3. CASE v # w /\ job[v].pc # "idle"
      <4>1. job'[v] = job[v] /\ job[v].phone \in Phones \ {p}
        <5>1. job[v].phone \in Phones
          BY <1>0, <3>3, JobFacts DEF Underway
        <5> QED
          BY <1>0, <1>1, <2>0, <3>3, <5>1, OthersStay DEF FlowInv, OneAtATime
      <4>2. session'[job[v].phone] = session[job[v].phone] /\ screen'[job[v].phone] = screen[job[v].phone]
        BY <1>0, <1>1, <4>1, OwnCitizen
      <4> QED
        BY <4>1, <4>2 DEF ScreenInv, PromptedJob
    <3> QED
      BY <3>1, <3>2, <3>3
  <2>2. ASSUME NEW q \in Phones, Quiet(q)' PROVE screen'[q] \in PromptsFor(session'[q])
    <3>1. CASE q = p
      <4>1. job'[w].phone # p
        BY <2>2, <3>1 DEF Quiet
      <4> QED
        BY <2>0, <3>1, <4>1 DEF Fits
    <3>2. CASE q # p
      <4>1. Quiet(q)
        BY <1>0, <1>1, <2>2, <3>2, OthersStay DEF Quiet
      <4>2. session'[q] = session[q] /\ screen'[q] = screen[q]
        BY <1>0, <1>1, <3>2, OwnCitizen
      <4> QED
        BY <4>1, <4>2 DEF ScreenInv, ScreenMatchesSession
    <3> QED
      BY <3>1, <3>2
  <2>3. ScreenMatchesSession'
    BY <2>2 DEF ScreenMatchesSession
  <2> QED
    BY <1>0, <2>1, <2>3 DEF ScreenInv
<1>2. ASSUME NEW w \in Workers, Take(w) PROVE ScreenInv'
  <2> DEFINE p == job'[w].phone
  <2>0. /\ UNCHANGED <<session, screen>> /\ \A v \in Workers : v # w => job'[v] = job[v]
        /\ job[w] = Idle /\ job'[w].pc = "touch" /\ p \in Phones /\ Quiet(p)
    BY <1>0, <1>2, TakeFacts DEF Serial
  <2>1. ASSUME NEW v \in Workers PROVE PromptedJob(job[v])'
    <3>1. CASE v = w
      BY <2>0, <3>1 DEF ScreenInv, ScreenMatchesSession, PromptedJob
    <3>2. CASE v # w
      BY <2>0, <3>2 DEF ScreenInv, PromptedJob
    <3> QED
      BY <3>1, <3>2
  <2>2. \A q \in Phones : Quiet(q)' => Quiet(q)
    BY <2>0, NilAssumption DEF Quiet, Idle
  <2>3. ScreenMatchesSession'
    BY <2>0, <2>2 DEF ScreenInv, ScreenMatchesSession
  <2> QED
    BY <1>0, <2>1, <2>3 DEF ScreenInv
<1>3. CASE Environment \/ UNCHANGED vars
  <2>1. UNCHANGED <<session, screen, job>>
    BY <1>3 DEF Environment, Evict, ChangeRoster, Crash, redis, chat, vars, NothingFails
  <2>2. (\A w \in Workers : PromptedJob(job[w])') /\ ScreenMatchesSession'
    BY <2>1 DEF ScreenInv, PromptedJob, ScreenMatchesSession, Quiet
  <2> QED
    BY <1>0, <2>2 DEF ScreenInv
<1> QED
  BY <1>1, <1>2, <1>3 DEF Next

(***************************************************************************)
(* When the citizen's turn has come, the prompt on his screen asks for     *)
(* what the bot waits for, along every path of handler.go, although wards  *)
(* lose and regain their representatives in the middle of it; the prompt   *)
(* without its list is what he sees at WardChosen, and only there.         *)
(***************************************************************************)
THEOREM ScreenAlwaysMatches == ASSUME NothingFails PROVE Spec => []ScreenMatchesSession
<1>1. ScreenInv => ScreenMatchesSession
  BY DEF ScreenInv
<1>2. ScreenInv /\ [Next]_vars => ScreenInv'
  BY ScreenNext
<1> QED
  BY <1>1, <1>2, ScreenInit, PTL DEF Spec

=============================================================================
