---------------------------- MODULE SystemProofs ----------------------------
(***************************************************************************)
(* What holds of the handlers and the monitor together: each keeps to what *)
(* the model of the other assumes of it, so that the theorems about the    *)
(* parts are theorems about the whole.                                     *)
(***************************************************************************)
EXTENDS System, AnswerProofs

\* The monitor's theorems, about the citizens and handlers of System.
MP == INSTANCE InactivityProofs WITH
        sessions <- Stored,
        handler  <- [p \in Phones |-> Doing(p)],
        Faults   <- MonitorFaults

-----------------------------------------------------------------------------
(* The monitor of System and the monitor of the theorems are the same *)

LEMMA MonitorAssumptions == MP!TimingAssumption /\ MP!FaultsAssumption /\ MP!NilAssumption
<1>1. MP!TimingAssumption
  BY ConstantsAssumption DEF M!TimingAssumption, MP!TimingAssumption
<1>2. MP!FaultsAssumption
  BY ConstantsAssumption DEF M!FaultsAssumption, MP!FaultsAssumption, M!FaultKinds, MP!FaultKinds
<1>3. MP!NilAssumption
  BY NilAssumption DEF MP!NilAssumption
<1> QED
  BY <1>1, <1>2, <1>3

LEMMA SameMonitor ==
    /\ M!TypeOK <=> MP!TypeOK
    /\ M!Init <=> MP!Init
    /\ M!Next <=> MP!Next
    /\ UNCHANGED M!vars <=> UNCHANGED MP!vars
<1>1. M!TypeOK <=> MP!TypeOK
  BY DEF M!TypeOK, MP!TypeOK, M!Monitor, MP!Monitor
<1>2. M!Init <=> MP!Init
  BY DEF M!Init, MP!Init, M!Waiting, MP!Waiting
<1>3. M!Next <=> MP!Next
  BY DEF M!Next, MP!Next, M!Touch, MP!Touch, M!Save, MP!Save, M!Answer, MP!Answer,
     M!Reset, MP!Reset, M!Cancel, MP!Cancel, M!StartScan, MP!StartScan, M!EndScan, MP!EndScan,
     M!CheckKey, MP!CheckKey, M!DelActive, MP!DelActive, M!DelSession, MP!DelSession,
     M!Fire, MP!Fire, M!Tick, MP!Tick, M!Signal, MP!Signal, M!Gone, MP!Gone, M!Exit, MP!Exit,
     M!Crash, MP!Crash, M!Restart, MP!Restart, M!Expiring, MP!Expiring, M!Fails, MP!Fails,
     M!Due, MP!Due, M!Punctual, MP!Punctual, M!Waiting, MP!Waiting, M!keys, MP!keys
<1>4. UNCHANGED M!vars <=> UNCHANGED MP!vars
  BY DEF M!vars, MP!vars
<1> QED
  BY <1>1, <1>2, <1>3, <1>4

-----------------------------------------------------------------------------
(* The handler of one citizen, seen from the monitor *)

\* What a job may still do to the two keys of its citizen.
JobDoing(j) ==
    IF j.pc \in {"idle", "touch"} \/ (j.pc = "say" /\ j.msg.tag = "reset") THEN "idle"
    ELSE IF j.pc = "cancel" THEN "cancel" ELSE "store"

\* Reset is a path of its own, which ends with its acknowledgement.
ResetPath(j) ==
    /\ j.pc \in {"del", "cancel"} => j.msg.tag = "reset"
    /\ j.msg.tag = "reset" => j.pc \in {"idle", "touch", "get", "dispatch", "del", "cancel", "say"}
    /\ j.msg.tag = "reset" /\ j.pc = "say" => j.out.then = "idle"

\* The worker of a citizen does what his handler does.
LEMMA DoingOfJob ==
    ASSUME NEW w \in Workers, NEW p \in Phones, job[w].phone = p, job[w].pc # "idle",
           \A v \in Workers : v # w => job[v].phone # p
    PROVE  Doing(p) = JobDoing(job[w])
<1>1. Handled(p) = IF job[w].pc = "touch" THEN {} ELSE {w}
  BY DEF Handled, At
<1> QED
  BY <1>1 DEF Doing, JobDoing, Acknowledging, At

\* A step of worker w changes what the handler of its own citizen does, and no other.
LEMMA DoingAfter ==
    ASSUME IInv, OneAtATime, NEW w \in Workers, Step(w)
    PROVE  LET p == job[w].phone IN
           /\ Doing(p) = JobDoing(job[w])
           /\ [q \in Phones |-> Doing(q)]' =
                 [[q \in Phones |-> Doing(q)] EXCEPT ![p] = JobDoing(job'[w])]
<1>0. PICK p \in Phones : job[w].phone = p
  BY OwnCitizen
<1>1. /\ job[w].pc # "idle"
      /\ \A v \in Workers : v # w => job[v].phone # p /\ job'[v] = job[v]
  BY <1>0, OwnCitizen, OthersStay, NilAssumption DEF OneAtATime
<1>2. job'[w] = Idle \/ job'[w].phone = p
  BY <1>0, SameCitizen
<1>3. Doing(p) = JobDoing(job[w])
  BY <1>0, <1>1, DoingOfJob
<1>4. Doing(p)' = JobDoing(job'[w])
  <2>1. CASE job'[w] = Idle
    <3>1. Handled(p)' = {}
      BY <1>1, <2>1, NilAssumption DEF Handled, At, Idle
    <3> QED
      BY <2>1, <3>1 DEF Doing, JobDoing, Idle
  <2>2. CASE job'[w].phone = p
    <3>1. Handled(p)' = IF job'[w].pc = "touch" THEN {} ELSE {w}
      BY <1>1, <2>2 DEF Handled, At
    <3>2. job'[w].pc # "idle"
      BY <2>2, StepKeeps, NilAssumption DEF IInv, GoodJob, Idle
    <3> QED
      BY <3>1, <3>2 DEF Doing, JobDoing, Acknowledging, At
  <2> QED
    BY <1>2, <2>1, <2>2
<1>5. ASSUME NEW q \in Phones, q # p PROVE Doing(q)' = Doing(q)
  <2>1. job[w].phone # q /\ job'[w].phone # q
    BY <1>0, <1>2, <1>5, NilAssumption DEF Idle
  <2>2. Handled(q)' = Handled(q) /\ \A v \in Handled(q) : job'[v] = job[v]
    BY <1>1, <2>1 DEF Handled, At
  <2> QED
    BY <2>2 DEF Doing, Acknowledging, At
<1> QED
  BY <1>0, <1>3, <1>4, <1>5

-----------------------------------------------------------------------------
(* What one step of a handler does to the two keys *)

\* The step of worker w, with its writes, is one that the monitor reckons with.
Moves(w) ==
    LET p == job[w].phone
        before == JobDoing(job[w])
        after  == JobDoing(job'[w]) IN
    \/ /\ job[w].pc = "touch" /\ after = "store"
       /\ active' = [active EXCEPT ![p] = 0] /\ UNCHANGED session
    \/ /\ before = "cancel" /\ after = "idle"
       /\ active' = [active EXCEPT ![p] = Nil] /\ UNCHANGED session
    \/ before = after /\ UNCHANGED redis
    \/ before = "store" /\ after = "idle" /\ UNCHANGED redis
    \/ before = "store" /\ after = "cancel" /\ session'[p] = Nil /\ UNCHANGED active
    \/ before = "store" /\ after \in {"store", "idle"} /\ session'[p] # Nil /\ UNCHANGED active

\* The places at which a handler may still save, whatever its message.
StorePlaces == PCs \ {"idle", "touch", "cancel", "say", "del"}

LEMMA StoringJob ==
    ASSUME NEW j
    PROVE  /\ j.pc \in StorePlaces \cup {"del"} => JobDoing(j) = "store"
           /\ j.pc = "say" /\ j.msg.tag # "reset" => JobDoing(j) = "store"
           /\ j.pc \in StorePlaces /\ j.msg.tag # "reset" => ResetPath(j)
           /\ j.pc = "say" /\ j.msg.tag # "reset" => ResetPath(j)
  BY DEF StorePlaces, JobDoing, ResetPath

LEMMA IdleRests == JobDoing(Idle) = "idle" /\ ResetPath(Idle)
  BY DEF JobDoing, ResetPath, Idle

\* A step that leaves Redis alone and goes on with a message that is no reset.
LEMMA Onwards ==
    ASSUME NEW w \in Workers, JobDoing(job[w]) = "store", UNCHANGED redis,
           \/ job'[w] = Idle
           \/ job'[w].pc \in StorePlaces \cup {"say"} /\ job'[w].msg.tag # "reset"
    PROVE  Moves(w) /\ ResetPath(job'[w])
<1>1. CASE job'[w] = Idle
  BY <1>1, IdleRests DEF Moves
<1>2. CASE job'[w].pc \in StorePlaces \cup {"say"} /\ job'[w].msg.tag # "reset"
  <2>1. JobDoing(job'[w]) = "store" /\ ResetPath(job'[w])
    BY <1>2, StoringJob
  <2> QED
    BY <2>1 DEF Moves
<1> QED
  BY <1>1, <1>2

LEMMA HandlerMoves ==
    ASSUME IInv, "redis" \notin Faults, NEW w \in Workers, ResetPath(job[w]), Step(w)
    PROVE  Moves(w) /\ ResetPath(job'[w])
<1> DEFINE p == job[w].phone
           Goal == Moves(w) /\ ResetPath(job'[w])
<1>0. /\ p \in Phones /\ job \in [Workers -> Job] /\ job[w] \in Job
      /\ session \in [Phones -> Session \cup {Nil}] /\ active \in [Phones -> Nat \cup {Nil}]
      /\ WriteOutcomes = {"ok"}
  BY OwnCitizen DEF IInv, TypeOK, WriteOutcomes
<1>1. CASE Touch(w)
  <2>1. active' = [active EXCEPT ![p] = 0] /\ UNCHANGED session /\ job[w].pc = "touch"
    BY <1>0, <1>1 DEF Touch, PutActive, At
  <2>2. job'[w].pc = "get"
    BY <1>1, JobAfter DEF Touch, PCs
  <2> QED
    BY <2>1, <2>2 DEF Moves, JobDoing, ResetPath
<1>2. CASE GetSession(w)
  <2>1. job[w].pc = "get" /\ UNCHANGED redis
    BY <1>2 DEF GetSession, At
  <2>2. job'[w].pc = "dispatch"
    BY <1>0, <1>2 DEF GetSession, May, Job
  <2> QED
    BY <2>1, <2>2 DEF Moves, JobDoing, ResetPath
<1>3. CASE Panic(w)
  BY <1>3, JobAfter, Onwards DEF Panic, At, JobDoing
<1>4. CASE ResetCommand(w)
  <2>1. job[w].pc = "dispatch" /\ job[w].msg.tag = "reset" /\ UNCHANGED redis
    BY <1>4 DEF ResetCommand, At
  <2>2. job'[w].pc = "del" /\ job'[w].msg = job[w].msg
    BY <1>4, JobAfter DEF ResetCommand, PCs
  <2> QED
    BY <2>1, <2>2 DEF Moves, JobDoing, ResetPath
<1>5. CASE ResetSession(w)
  <2>1. job[w].pc = "del" /\ session'[p] = Nil /\ UNCHANGED active
    BY <1>0, <1>5 DEF ResetSession, PutSession, At
  <2>2. job'[w].pc = "cancel" /\ job'[w].msg = job[w].msg
    BY <1>5, JobAfter DEF ResetSession, PCs
  <2> QED
    BY <2>1, <2>2 DEF Moves, JobDoing, ResetPath
<1>6. CASE CancelActive(w)
  <2>1. job[w].pc = "cancel" /\ active' = [active EXCEPT ![p] = Nil] /\ UNCHANGED session
    BY <1>0, <1>6 DEF CancelActive, PutActive, At
  <2>2. SayThen(w, "resetAck", {}, "idle")
    BY <1>6 DEF CancelActive, Say
  <2>3. job'[w].pc = "say" /\ job'[w].msg = job[w].msg /\ job'[w].out.then = "idle"
    BY <2>2, JobAfter
  <2> QED
    BY <2>1, <2>3 DEF Moves, JobDoing, ResetPath
<1>7. ASSUME NEW step, Handling(w, step) PROVE JobDoing(job[w]) = "store" /\ job[w].msg.tag # "reset"
  BY <1>7 DEF Handling, At, JobDoing
<1>8. CASE AtStart(w) \/ AtLangChosen(w) \/ AtWardChosen(w) \/ AtNagarsevak(w) \/ AtMainMenu(w)
  <2>1. job'[w].pc \in StorePlaces \cup {"say"} /\ job'[w].msg = job[w].msg
    <3>1. CASE AtStart(w) \/ AtMainMenu(w)
      BY <3>1, JobAfter DEF AtStart, AtMainMenu, Say, StorePlaces, PCs
    <3>2. CASE AtLangChosen(w)
      BY <3>2, JobAfter DEF AtLangChosen, Say, StorePlaces, PCs
    <3>3. CASE AtWardChosen(w) \/ AtNagarsevak(w)
      BY <3>3, JobAfter DEF AtWardChosen, AtNagarsevak, StorePlaces, PCs
    <3> QED
      BY <1>8, <3>1, <3>2, <3>3
  <2>2. JobDoing(job[w]) = "store" /\ job[w].msg.tag # "reset" /\ UNCHANGED redis
    BY <1>7, <1>8 DEF AtStart, AtLangChosen, AtWardChosen, AtNagarsevak, AtMainMenu, redis
  <2> QED
    BY <2>1, <2>2, Onwards
<1>9. ASSUME job[w].pc \in StorePlaces \ {"get", "dispatch"}
      PROVE  JobDoing(job[w]) = "store" /\ job[w].msg.tag # "reset"
  BY <1>9 DEF StorePlaces, JobDoing, ResetPath
<1>10. CASE FetchLocation(w) \/ FetchWards(w) \/ MatchWard(w)
  <2>1. job[w].pc = "lookup" /\ UNCHANGED redis
    BY <1>10 DEF FetchLocation, FetchWards, MatchWard, At, redis
  <2>2. job'[w].pc \in StorePlaces \cup {"say"} /\ job'[w].msg = job[w].msg
    <3>1. CASE FetchLocation(w) \/ FetchWards(w)
      BY <1>0, <2>1, <3>1 DEF FetchLocation, FetchWards, Job, StorePlaces, PCs
    <3>2. CASE MatchWard(w)
      BY <3>2, JobAfter DEF MatchWard, Say, StorePlaces, PCs
    <3> QED
      BY <1>10, <3>1, <3>2
  <2> QED
    BY <1>9, <2>1, <2>2, Onwards DEF StorePlaces, PCs
<1>11. CASE PromptNagarsevak(w) \/ PromptWard(w) \/ PickNagarsevak(w)
  <2>1. job[w].pc \in {"promptNagarsevak", "promptWard", "pick"} /\ UNCHANGED redis
    BY <1>11 DEF PromptNagarsevak, PromptWard, PickNagarsevak, At, redis
  <2>2. job'[w].pc \in StorePlaces \cup {"say"} /\ job'[w].msg = job[w].msg
    <3>1. CASE PromptNagarsevak(w)
      BY <3>1, JobAfter DEF PromptNagarsevak, Say
    <3>2. CASE PromptWard(w)
      BY <3>2, JobAfter DEF PromptWard, Say
    <3>3. CASE PickNagarsevak(w)
      BY <3>3, JobAfter DEF PickNagarsevak, StorePlaces, PCs
    <3> QED
      BY <1>11, <3>1, <3>2, <3>3
  <2> QED
    BY <1>9, <2>1, <2>2, Onwards DEF StorePlaces, PCs
<1>12. ASSUME job[w].pc \in StorePlaces \ {"get", "dispatch"},
              session'[p] # Nil, UNCHANGED active,
              \/ job'[w] = Idle
              \/ job'[w].pc \in StorePlaces \cup {"say"} /\ job'[w].msg = job[w].msg
       PROVE  Goal
  <2>1. JobDoing(job[w]) = "store" /\ job[w].msg.tag # "reset"
    BY <1>9, <1>12
  <2>2. JobDoing(job'[w]) \in {"store", "idle"} /\ ResetPath(job'[w])
    BY <1>12, <2>1, StoringJob, IdleRests
  <2> QED
    BY <1>12, <2>1, <2>2 DEF Moves
<1>13. CASE SaveSession(w)
  <2>1. job[w].pc = "save" /\ session'[p] = job[w].sess /\ UNCHANGED active /\ AfterSave(w)
    BY <1>0, <1>13 DEF SaveSession, PutSession, At
  <2>2. session'[p] # Nil
    BY <1>0, <2>1, NotNil DEF Job
  <2>3. job[w].sess.step \in {"LangChosen", "Nagarsevak", "MainMenu"}
    BY <1>13, JobFacts DEF SaveSession, At, Underway, StepAt
  <2>4. job'[w].pc \in StorePlaces \cup {"say"} /\ job'[w].msg = job[w].msg
    BY <2>1, <2>3, JobAfter DEF AfterSave, Say, StorePlaces, PCs
  <2> QED
    BY <1>12, <2>1, <2>2, <2>4 DEF StorePlaces, PCs
<1>14. CASE ToWardChosen(w) \/ ToLangChosen(w)
  <2>1. PICK step \in {"WardChosen", "LangChosen"}, pc \in {"promptWard", "idle"} :
           DemoteSession(w, step, pc)
    BY <1>14 DEF ToWardChosen, ToLangChosen
  <2> DEFINE demoted == [job[w].sess EXCEPT !.step = step]
  <2>2. demoted \in Session
    BY <1>0 DEF Job, Session, Steps
  <2>3. demoted # Nil
    BY <2>2, NotNil
  <2>4. session'[p] = demoted /\ UNCHANGED active
    BY <1>0, <2>1 DEF DemoteSession, PutSession
  <2>5. \/ job'[w] = Idle
        \/ job'[w].pc = "promptWard" /\ job'[w].msg = job[w].msg
    BY <1>0, <2>1, JobAfter DEF DemoteSession, Job
  <2>6. job[w].pc \in {"toWardChosen", "toLangChosen"}
    BY <1>14 DEF ToWardChosen, ToLangChosen, At
  <2> HIDE DEF demoted
  <2> QED
    BY <1>12, <2>3, <2>4, <2>5, <2>6 DEF StorePlaces, PCs
<1>15. CASE SendPrompt(w)
  <2>1. job[w].pc = "say" /\ UNCHANGED redis
    BY <1>15 DEF SendPrompt, At, redis
  <2>2. CASE job[w].out.then = "idle"
    <3>1. job'[w] = Idle
      BY <1>15, <2>2, JobAfter DEF SendPrompt
    <3> QED
      BY <2>1, <3>1, IdleRests DEF Moves, JobDoing
  <2>3. CASE job[w].out.then # "idle"
    <3>1. job'[w].pc = job[w].out.then /\ job'[w].msg = job[w].msg
      BY <1>0, <1>15, <2>3 DEF SendPrompt, Job
    <3>2. job[w].msg.tag # "reset" /\ job[w].out.then \in StorePlaces
      BY <2>1, <2>3, JobFacts DEF Underway, Continuations, StorePlaces, PCs, ResetPath
    <3> QED
      BY <2>1, <3>1, <3>2, StoringJob, Onwards
  <2> QED
    BY <2>2, <2>3
<1> QED
  BY <1>1, <1>2, <1>3, <1>4, <1>5, <1>6, <1>8, <1>10, <1>11, <1>13, <1>14, <1>15 DEF Step

-----------------------------------------------------------------------------
(* The handlers keep to what the monitor assumes *)

\* Redis answers, and messages of one citizen do not overlap.
Orderly == {"redis", "overlap"} \cap Faults = {}

(***************************************************************************)
(* Nobody handles a message in a process that does not run, nobody handles *)
(* two of one citizen, and a reset stays on its path.                      *)
(***************************************************************************)
WiredInv ==
    /\ IInv
    /\ OneAtATime
    /\ \A w \in Workers : ResetPath(job[w])
    /\ phase = "down" => \A w \in Workers : job[w] = Idle

\* Who has a session after a step that concerns citizen p only.
LEMMA StoredAfter ==
    ASSUME NEW p \in Phones, \A q \in Phones : q # p => session'[q] = session[q]
    PROVE  /\ session'[p] # Nil => Stored' = Stored \cup {p}
           /\ session'[p] = Nil => Stored' = Stored \ {p}
           /\ session' = session => Stored' = Stored
  BY DEF Stored

\* The monitor's own steps cannot harm what the handlers rely on.
LEMMA MonitorKeeps ==
    ASSUME IInv, UNCHANGED <<inService, offered, screen, job>>,
           active' \in [Phones -> Nat \cup {Nil}],
           \/ UNCHANGED session
           \/ \E p : session' = [session EXCEPT ![p] = Nil]
    PROVE  IInv'
  BY DEF IInv, TypeOK, SessionCoherent, EveryChoiceWasOffered

LEMMA SystemKeeps == IInv /\ [SystemNext]_systemVars => IInv'
<1> SUFFICES ASSUME IInv, [SystemNext]_systemVars PROVE IInv'
  OBVIOUS
<1>0. active \in [Phones -> Nat \cup {Nil}]
  BY DEF IInv, TypeOK
<1>1. ASSUME NEW w \in Workers, TakeUp(w) PROVE IInv'
  BY <1>1, TakeKeeps DEF TakeUp
<1>2. ASSUME NEW w \in Workers, BeginHandling(w) \/ Handle(w) PROVE IInv'
  BY <1>2, StepKeeps DEF BeginHandling, Handle, Step
<1>3. CASE Watch
  <2>1. active' \in [Phones -> Nat \cup {Nil}]
    <3>1. \/ UNCHANGED active
          \/ active' = [active EXCEPT ![monitor.phone] = Nil]
      BY <1>3 DEF Watch, M!StartScan, M!EndScan, M!CheckKey, M!DelActive, M!Fire, M!keys
    <3> QED
      BY <1>0, <3>1
  <2> QED
    BY <1>3, <2>1, MonitorKeeps DEF Watch, conversation
<1>4. CASE TimeOut
  <2>1. UNCHANGED active
    BY <1>4 DEF TimeOut, M!DelSession
  <2> QED
    BY <1>0, <1>4, <2>1, MonitorKeeps DEF TimeOut
<1>5. CASE Tick
  <2>1. active' \in [Phones -> Nat \cup {Nil}]
    BY <1>0, <1>5, NilAssumption DEF Tick, M!Tick
  <2> QED
    BY <1>5, <2>1, MonitorKeeps DEF Tick, conversation
<1>6. CASE RosterChanges
  BY <1>6, ChangeRosterKeeps DEF RosterChanges
<1>7. CASE ProcessEnds
  BY <1>7, CrashKeeps DEF ProcessEnds
<1>8. CASE Signal \/ Restart \/ UNCHANGED systemVars
  <2>1. UNCHANGED <<conversation, active>>
    BY <1>8 DEF Signal, Restart, M!Signal, M!Restart, M!keys, systemVars
  <2> QED
    BY <1>0, <2>1, MonitorKeeps DEF conversation
<1> QED
  BY <1>1, <1>2, <1>3, <1>4, <1>5, <1>6, <1>7, <1>8 DEF SystemNext

\* A step of a handler, seen from the monitor.
LEMMA HandlerSteps ==
    ASSUME WiredInv, Orderly, NEW w \in Workers, BeginHandling(w) \/ Handle(w)
    PROVE  [M!Next]_(M!vars)
<1>1. Step(w) /\ IInv /\ OneAtATime /\ "redis" \notin Faults
  BY DEF BeginHandling, Handle, Step, WiredInv, Orderly
<1>2. PICK p \in Phones : job[w].phone = p
  BY <1>1, OwnCitizen
<1> DEFINE handler == [q \in Phones |-> Doing(q)]
           before  == JobDoing(job[w])
           after   == JobDoing(job'[w])
<1>3. Moves(w)
  BY <1>1, HandlerMoves DEF WiredInv
<1>4. handler[p] = before /\ handler' = [handler EXCEPT ![p] = after]
  BY <1>1, <1>2, DoingAfter
<1>5. handler \in [Phones -> {"idle", "cancel", "store"}]
  BY DEF Doing
<1>6. /\ session'[p] # Nil => Stored' = Stored \cup {p}
      /\ session'[p] = Nil => Stored' = Stored \ {p}
      /\ session' = session => Stored' = Stored
  BY <1>1, <1>2, OwnCitizen, StoredAfter
<1>7. phase # "down"
  <2>1. job[w] # Idle
    BY <1>1, OwnCitizen DEF Idle
  <2> QED
    BY <2>1 DEF WiredInv
<1>8. CASE BeginHandling(w)
  <2>1. job[w].pc = "touch" /\ job'[w].pc = "get"
    BY <1>1, <1>8, JobAfter DEF BeginHandling, Touch, At, PCs
  <2>2. /\ before = "idle" /\ after = "store"
        /\ active' = [active EXCEPT ![p] = 0] /\ Stored' = Stored
    BY <1>2, <1>3, <1>6, <2>1 DEF Moves, JobDoing
  <2> HIDE DEF handler, before, after
  <2>3. M!Touch(p)
    BY <1>2, <1>4, <1>7, <1>8, <2>2 DEF BeginHandling, M!Touch, handler
  <2> QED
    BY <2>3 DEF M!Next
<1>9. CASE Handle(w)
  <2>1. UNCHANGED <<silence, monitor, sinceTick, fired, cut, phase>> /\ job[w].pc # "touch"
    BY <1>9 DEF Handle, clockwork, At
  <2>2. CASE before = "cancel" /\ after = "idle" /\ active' = [active EXCEPT ![p] = Nil]
             /\ UNCHANGED session
    <3> HIDE DEF handler, before, after
    <3>1. M!Cancel(p)
      BY <1>4, <1>6, <2>1, <2>2 DEF M!Cancel, handler
    <3> QED
      BY <3>1 DEF M!Next
  <2>3. CASE before = after /\ UNCHANGED redis
    <3> HIDE DEF handler, before, after
    <3>1. handler' = handler
      BY <1>4, <1>5, <2>3
    <3> QED
      BY <1>6, <2>1, <2>3, <3>1 DEF M!vars, redis, handler
  <2>4. CASE before = "store" /\ after = "idle" /\ UNCHANGED active
             /\ (UNCHANGED session \/ session'[p] # Nil)
    <3> HIDE DEF handler, before, after
    <3>1. M!Answer(p)
      BY <1>4, <1>6, <2>1, <2>4 DEF M!Answer, handler
    <3> QED
      BY <3>1 DEF M!Next
  <2>5. CASE before = "store" /\ after = "cancel" /\ session'[p] = Nil /\ UNCHANGED active
    <3> HIDE DEF handler, before, after
    <3>1. M!Reset(p)
      BY <1>4, <1>6, <2>1, <2>5 DEF M!Reset, handler
    <3> QED
      BY <3>1 DEF M!Next
  <2>6. CASE before = "store" /\ after = "store" /\ session'[p] # Nil /\ UNCHANGED active
    <3> HIDE DEF handler, before, after
    <3>1. handler' = handler
      BY <1>4, <1>5, <2>6
    <3>2. M!Save(p)
      BY <1>4, <1>6, <2>1, <2>6, <3>1 DEF M!Save, handler
    <3> QED
      BY <3>2 DEF M!Next
  <2> QED
    BY <1>2, <1>3, <2>1, <2>2, <2>3, <2>4, <2>5, <2>6 DEF Moves, redis
<1> QED
  BY <1>8, <1>9

LEMMA WiredInit == SystemInit => WiredInv /\ M!Init
<1> SUFFICES ASSUME SystemInit PROVE WiredInv /\ M!Init
  OBVIOUS
<1>1. IInv /\ phase = "up" /\ (\A w \in Workers : job[w] = Idle) /\ session = [p \in Phones |-> Nil]
  BY InitGood DEF SystemInit, Init
<1>2. WiredInv
  BY <1>1, IdleRests, NilAssumption DEF WiredInv, OneAtATime, Idle
<1>3. Stored = {} /\ \A p \in Phones : Handled(p) = {}
  BY <1>1, NilAssumption DEF Stored, Handled, Idle
<1>4. [p \in Phones |-> Doing(p)] = [p \in Phones |-> "idle"]
  BY <1>3 DEF Doing
<1> QED
  BY <1>2, <1>3, <1>4 DEF M!Init, SystemInit, Init

\* When all sessions and jobs stay, the monitor sees no change.
LEMMA SameView ==
    ASSUME UNCHANGED <<session, job>>
    PROVE  UNCHANGED <<Stored, [p \in Phones |-> Doing(p)]>>
  BY DEF Stored, Doing, Handled, Acknowledging, At

LEMMA WiredNext ==
    ASSUME WiredInv, Orderly, [SystemNext]_systemVars
    PROVE  WiredInv' /\ [M!Next]_(M!vars)
<1>0. IInv /\ IInv' /\ job \in [Workers -> Job] /\ "overlap" \notin Faults /\ "redis" \notin Faults
  BY SystemKeeps DEF WiredInv, IInv, TypeOK, Orderly
<1>1. ASSUME NEW w \in Workers, TakeUp(w) PROVE WiredInv' /\ [M!Next]_(M!vars)
  <2>1. /\ UNCHANGED <<session, active>>
        /\ \A v \in Workers : v # w => job'[v] = job[v]
        /\ job[w] = Idle /\ job'[w].pc = "touch" /\ job'[w].phone \in Phones
        /\ \A v \in Workers : job[v].phone # job'[w].phone
    BY <1>0, <1>1, TakeFacts DEF TakeUp, Quiet
  <2>2. phase # "down" /\ UNCHANGED clockwork
    BY <1>1 DEF TakeUp
  <2>3. OneAtATime'
    BY <2>1, NilAssumption DEF WiredInv, OneAtATime, Idle
  <2>4. \A v \in Workers : ResetPath(job'[v])
    BY <2>1 DEF WiredInv, ResetPath
  <2>5. Stored' = Stored
    BY <2>1 DEF Stored
  <2>6. ASSUME NEW q \in Phones PROVE Doing(q)' = Doing(q)
    <3>1. Handled(q)' = Handled(q) /\ w \notin Handled(q)
      BY <2>1, NilAssumption DEF Handled, At, Idle
    <3>2. \A v \in Handled(q) : job'[v] = job[v]
      BY <2>1, <3>1 DEF Handled
    <3> QED
      BY <3>1, <3>2 DEF Doing, Acknowledging, At
  <2>7. UNCHANGED M!vars
    BY <2>1, <2>2, <2>5, <2>6 DEF M!vars, clockwork
  <2> QED
    BY <1>0, <2>2, <2>3, <2>4, <2>7 DEF WiredInv, clockwork
<1>2. ASSUME NEW w \in Workers, BeginHandling(w) \/ Handle(w)
      PROVE  WiredInv' /\ [M!Next]_(M!vars)
  <2>1. Step(w) /\ UNCHANGED phase
    BY <1>2 DEF BeginHandling, Handle, Step, clockwork
  <2>2. job[w].pc # "idle" /\ job[w].phone \in Phones
    BY <1>0, <2>1, OwnCitizen
  <2>3. phase' # "down"
    BY <2>1, <2>2 DEF WiredInv, Idle
  <2>4. job'[w] = Idle \/ job'[w].phone = job[w].phone
    BY <1>0, <2>1, SameCitizen
  <2>5. \A v \in Workers : v # w => job'[v] = job[v]
    BY <1>0, <2>1, OthersStay
  <2>6. OneAtATime'
    BY <2>2, <2>4, <2>5, NilAssumption DEF WiredInv, OneAtATime, Idle
  <2>7. ResetPath(job'[w])
    BY <1>0, <2>1, HandlerMoves DEF WiredInv
  <2> QED
    BY <1>0, <1>2, <2>3, <2>5, <2>6, <2>7, HandlerSteps DEF WiredInv
<1>3. ASSUME UNCHANGED <<job, phase>> PROVE WiredInv'
  BY <1>0, <1>3 DEF WiredInv, OneAtATime
<1>4. CASE Watch
  <2>1. UNCHANGED job /\ UNCHANGED phase
    BY <1>4 DEF Watch, conversation, M!StartScan, M!EndScan, M!CheckKey, M!DelActive, M!Fire
  <2>2. M!Next
    BY <1>4 DEF Watch, M!Next
  <2> QED
    BY <1>3, <2>1, <2>2
<1>5. CASE TimeOut
  <2>1. UNCHANGED job /\ UNCHANGED phase /\ M!DelSession
    BY <1>5 DEF TimeOut, M!DelSession
  <2> QED
    BY <1>3, <2>1 DEF M!Next
<1>6. CASE Tick
  <2>1. UNCHANGED job /\ UNCHANGED phase /\ M!Tick
    BY <1>6 DEF Tick, M!Tick, conversation
  <2> QED
    BY <1>3, <2>1 DEF M!Next
<1>7. CASE RosterChanges
  <2>1. UNCHANGED <<session, active, job>> /\ UNCHANGED clockwork
    BY <1>7 DEF RosterChanges, ChangeRoster, redis
  <2>2. UNCHANGED M!vars
    BY <2>1, SameView DEF M!vars, clockwork
  <2> QED
    BY <1>3, <2>1, <2>2 DEF clockwork
<1>8. CASE ProcessEnds
  <2>1. (M!Exit \/ M!Crash) /\ \A w \in Workers : job'[w] = Idle
    BY <1>8 DEF ProcessEnds, Crash
  <2> QED
    BY <1>0, <2>1, IdleRests, NilAssumption DEF WiredInv, OneAtATime, Idle, M!Next
<1>9. CASE Signal
  <2>1. UNCHANGED job /\ phase' = "draining" /\ M!Signal
    BY <1>9 DEF Signal, M!Signal, conversation
  <2> QED
    BY <1>0, <2>1 DEF WiredInv, OneAtATime, M!Next
<1>10. CASE Restart
  <2>1. UNCHANGED job /\ phase = "down" /\ M!Restart
    BY <1>10 DEF Restart, M!Restart, conversation
  <2> QED
    BY <1>0, <2>1 DEF WiredInv, OneAtATime, M!Next
<1>11. CASE UNCHANGED systemVars
  <2>1. UNCHANGED <<session, active, job>> /\ UNCHANGED clockwork
    BY <1>11 DEF systemVars, conversation
  <2>2. UNCHANGED M!vars
    BY <2>1, SameView DEF M!vars, clockwork
  <2> QED
    BY <1>3, <2>1, <2>2 DEF clockwork
<1> QED
  BY <1>1, <1>2, <1>4, <1>5, <1>6, <1>7, <1>8, <1>9, <1>10, <1>11 DEF SystemNext

(***************************************************************************)
(* The handlers keep to the model that the monitor's theorems are about,   *)
(* also when messages race with a timeout: HandleRaw touches before it     *)
(* does anything else, saves only after that, and its reset deletes the    *)
(* session, then the key, then nothing.                                    *)
(***************************************************************************)
THEOREM HandlersFitMonitor == ASSUME Orderly PROVE SystemSpec => MonitorSpec
<1>1. WiredInv /\ [SystemNext]_systemVars => WiredInv' /\ [M!Next]_(M!vars)
  BY WiredNext
<1> QED
  BY <1>1, WiredInit, PTL DEF SystemSpec, MonitorSpec, M!Spec

-----------------------------------------------------------------------------
(* Types *)

\* What the handlers do to the activity keys.
LEMMA ActiveAfter ==
    ASSUME NEW w \in Workers, Step(w)
    PROVE  \/ UNCHANGED active
           \/ \E age \in {0, Nil} : active' = [active EXCEPT ![job[w].phone] = age]
<1>1. CASE Touch(w) \/ CancelActive(w)
  BY <1>1 DEF Touch, CancelActive, PutActive
<1>2. CASE ResetSession(w) \/ SaveSession(w) \/ ToWardChosen(w) \/ ToLangChosen(w)
  BY <1>2 DEF ResetSession, SaveSession, ToWardChosen, ToLangChosen, DemoteSession
<1>3. CASE UNCHANGED redis
  BY <1>3 DEF redis
<1> QED
  BY <1>1, <1>2, <1>3
  DEF Step, GetSession, Panic, ResetCommand, AtStart, AtLangChosen, AtWardChosen, AtNagarsevak,
      AtMainMenu, FetchLocation, FetchWards, MatchWard, PromptNagarsevak, PromptWard,
      PickNagarsevak, SendPrompt

LEMMA SystemTypesKept ==
    ASSUME IInv, M!TypeOK, [SystemNext]_systemVars PROVE M!TypeOK'
<1>1. ASSUME M!Next PROVE M!TypeOK'
  <2>1. MP!TypeOK /\ [MP!Next]_(MP!vars) => MP!TypeOK'
    BY MonitorAssumptions, MP!TypesKept
    DEF MP!TimingAssumption, MP!FaultsAssumption, MP!NilAssumption
  <2>2. M!TypeOK' <=> MP!TypeOK'
    BY DEF M!TypeOK, MP!TypeOK, M!Monitor, MP!Monitor
  <2> QED
    BY <1>1, <2>1, <2>2, SameMonitor
<1>2. /\ Stored' \in SUBSET Phones
      /\ [p \in Phones |-> Doing(p)]' \in [Phones -> {"idle", "store", "cancel"}]
  BY DEF Stored, Doing
<1>3. /\ 0 \in 0 .. TTL - 1 /\ 0 \in 0 .. Horizon /\ 0 \in 0 .. 2
      /\ active \in [Phones -> (0 .. TTL - 1) \cup {Nil}]
      /\ silence \in [Phones -> 0 .. Horizon] /\ fired \in [Phones -> 0 .. 2]
      /\ monitor \in M!Monitor /\ sinceTick \in 0 .. ScanInterval + Lag
      /\ cut \in SUBSET Phones /\ phase \in {"up", "draining", "down"}
  BY ConstantsAssumption DEF M!TypeOK, M!TimingAssumption
<1>4. ASSUME active' \in [Phones -> (0 .. TTL - 1) \cup {Nil}],
             silence' \in [Phones -> 0 .. Horizon], fired' \in [Phones -> 0 .. 2],
             cut' \in SUBSET Phones, UNCHANGED <<monitor, sinceTick, phase>>
      PROVE  M!TypeOK'
  BY <1>2, <1>3, <1>4 DEF M!TypeOK, M!Monitor
<1>5. ASSUME NEW w \in Workers, BeginHandling(w) \/ Handle(w) PROVE M!TypeOK'
  <2>1. active' \in [Phones -> (0 .. TTL - 1) \cup {Nil}]
    BY <1>3, <1>5, ActiveAfter DEF BeginHandling, Handle, Step
  <2>2. CASE BeginHandling(w)
    BY <1>3, <1>4, <2>1, <2>2 DEF BeginHandling
  <2>3. CASE Handle(w)
    BY <1>3, <1>4, <2>1, <2>3 DEF Handle, clockwork
  <2> QED
    BY <1>5, <2>2, <2>3
<1>6. CASE UNCHANGED <<active, clockwork>>
  BY <1>3, <1>4, <1>6 DEF clockwork
<1>7. CASE \/ Watch \/ TimeOut \/ Tick \/ Signal \/ ProcessEnds \/ Restart
  BY <1>1, <1>7 DEF Watch, TimeOut, Tick, Signal, ProcessEnds, Restart, M!Next
<1> QED
  BY <1>5, <1>6, <1>7
  DEF SystemNext, TakeUp, Take, RosterChanges, ChangeRoster, redis, systemVars

(***************************************************************************)
(* Handlers and monitor together, with all faults of both, keep every key, *)
(* age and job among its values: no session of the wrong form gets into    *)
(* Redis, and no activity key outlives its TTL.                            *)
(***************************************************************************)
THEOREM SystemTypeCorrect == SystemSpec => []SystemTypeOK
<1>1. SystemInit => IInv /\ M!TypeOK
  <2> SUFFICES ASSUME SystemInit PROVE IInv /\ M!TypeOK
    OBVIOUS
  <2>1. IInv
    BY InitGood DEF SystemInit
  <2>2. /\ Stored \in SUBSET Phones
        /\ [p \in Phones |-> Doing(p)] \in [Phones -> {"idle", "store", "cancel"}]
    BY DEF Stored, Doing
  <2>3. M!TypeOK
    BY <2>2, ConstantsAssumption
    DEF SystemInit, Init, M!TypeOK, M!TimingAssumption, M!Monitor, M!Waiting
  <2> QED
    BY <2>1, <2>3
<1>2. IInv /\ M!TypeOK /\ [SystemNext]_systemVars => (IInv /\ M!TypeOK)'
  BY SystemKeeps, SystemTypesKept
<1>3. IInv /\ M!TypeOK => SystemTypeOK
  BY DEF IInv, SystemTypeOK
<1> QED
  BY <1>1, <1>2, <1>3, PTL DEF SystemSpec

(***************************************************************************)
(* No session in Redis lacks what its step needs, and no stage of the      *)
(* onboarding is skipped, with the monitor deleting sessions at any time:  *)
(* also of citizens who are writing, also when overlapping handlers store  *)
(* again what it deleted.                                                  *)
(***************************************************************************)
THEOREM SessionsStaySound == SystemSpec => [](SessionCoherent /\ EveryChoiceWasOffered)
<1>1. SystemInit => IInv
  BY InitGood DEF SystemInit
<1>2. IInv => SessionCoherent /\ EveryChoiceWasOffered
  BY DEF IInv
<1> QED
  BY <1>1, <1>2, SystemKeeps, PTL DEF SystemSpec

-----------------------------------------------------------------------------
(* The monitor leaves conversations whole *)

(***************************************************************************)
(* The link between the halves is in MP!IdleInv: a handler that may still  *)
(* store is young, a citizen whom the monitor is timing out has long been  *)
(* silent. So no copy of a session in a job is one the monitor deletes.    *)
(***************************************************************************)
ClockInv == WiredInv /\ FlowInv /\ MP!IdleInv

\* The invariant of the monitor, kept by every step of the system.
LEMMA IdleKept ==
    ASSUME WiredInv, Orderly, "race" \notin MonitorFaults, MP!IdleInv, [SystemNext]_systemVars
    PROVE  MP!IdleInv'
<1>1. [MP!Next]_(MP!vars)
  BY WiredNext, SameMonitor
<1> QED
  BY <1>1, MonitorAssumptions, MP!IdleNext
  DEF MP!TimingAssumption, MP!FaultsAssumption, MP!NilAssumption

\* What does not concern sessions and jobs keeps every copy in step.
LEMMA StillFlows ==
    ASSUME FlowInv, IInv', UNCHANGED <<session, job>> PROVE FlowInv' /\ [Flow!Next]_session
  BY DEF FlowInv, OneAtATime

\* The monitor deletes a session of which no handler has a copy.
LEMMA TimeOutFlows ==
    ASSUME ClockInv, IInv', TimeOut PROVE FlowInv' /\ [Flow!Next]_session
<1>1. CASE UNCHANGED session
  BY <1>1, StillFlows DEF TimeOut, ClockInv
<1>2. CASE session' = [session EXCEPT ![monitor.phone] = Nil]
  <2>1. PICK p \in Phones : monitor.phone = p /\ silence[p] >= Timeout
    BY DEF TimeOut, ClockInv, MP!IdleInv, MP!MonitorPlace, MP!Expiring
  <2>2. [Flow!Next]_session
    BY <1>2, <2>1 DEF Flow!Next, Flow!StartOver, Flow!Put
  <2>3. ASSUME NEW w \in Workers PROVE InStep(job[w], session')
    <3>1. InStep(job[w], session)
      BY DEF ClockInv, FlowInv
    <3>2. CASE job[w].phone # p
      <4>1. CASE job[w].pc = "idle"
        BY <4>1 DEF InStep, Synced
      <4>2. CASE job[w].pc # "idle"
        <5>1. job[w].phone \in Phones
          BY <4>2, JobFacts DEF ClockInv, WiredInv, Underway
        <5>2. session'[job[w].phone] = session[job[w].phone]
          BY <1>2, <2>1, <3>2, <5>1 DEF ClockInv, WiredInv, IInv, TypeOK
        <5> QED
          BY <3>1, <5>2 DEF InStep
      <4> QED
        BY <4>1, <4>2
    <3>3. CASE job[w].phone = p
      <4>1. job[w].pc # "idle" /\ \A v \in Workers : v # w => job[v].phone # p
        BY <3>3, NilAssumption DEF ClockInv, WiredInv, IInv, GoodJob, Idle, OneAtATime
      <4>2. Doing(p) = "idle"
        <5>1. Doing(p) # "idle" => silence[p] <= JobTime
          BY DEF ClockInv, MP!IdleInv, MP!TimesAgree
        <5>2. JobTime < Timeout /\ JobTime \in Nat /\ Timeout \in Nat /\ silence[p] \in Nat
          BY ConstantsAssumption
          DEF M!TimingAssumption, ClockInv, MP!IdleInv, MP!TypeOK
        <5> QED
          BY <2>1, <5>1, <5>2
      <4>3. JobDoing(job[w]) = "idle"
        BY <3>3, <4>1, <4>2, DoingOfJob
      <4>4. \/ job[w].pc = "touch"
            \/ job[w].pc = "say" /\ job[w].out.then = "idle"
        BY <4>1, <4>3 DEF JobDoing, ClockInv, WiredInv, ResetPath
      <4> QED
        BY <4>4 DEF InStep, Synced
    <3> QED
      BY <3>2, <3>3
  <2>4. UNCHANGED job
    BY DEF TimeOut
  <2> QED
    BY <2>2, <2>3, <2>4 DEF ClockInv, FlowInv, OneAtATime
<1> QED
  BY <1>1, <1>2 DEF TimeOut

LEMMA ClockInit == SystemInit => ClockInv /\ Flow!Init
<1> SUFFICES ASSUME SystemInit PROVE ClockInv /\ Flow!Init
  OBVIOUS
<1>1. WiredInv /\ MP!Init
  BY WiredInit, SameMonitor
<1>2. FlowInv /\ Flow!Init
  BY InitFlows DEF SystemInit
<1>3. MP!IdleInv
  BY <1>1, MonitorAssumptions, MP!IdleInit
  DEF MP!TimingAssumption, MP!FaultsAssumption, MP!NilAssumption
<1> QED
  BY <1>1, <1>2, <1>3 DEF ClockInv

LEMMA ClockNext ==
    ASSUME ClockInv, Orderly, "race" \notin MonitorFaults, [SystemNext]_systemVars
    PROVE  ClockInv' /\ [Flow!Next]_session
<1>0. /\ WiredInv' /\ MP!IdleInv' /\ IInv' /\ FlowInv /\ "overlap" \notin Faults
  BY WiredNext, IdleKept DEF ClockInv, WiredInv, Orderly
<1> SUFFICES FlowInv' /\ [Flow!Next]_session
  BY <1>0 DEF ClockInv
<1>1. ASSUME NEW w \in Workers, TakeUp(w) PROVE FlowInv' /\ [Flow!Next]_session
  BY <1>0, <1>1, TakeFlows DEF TakeUp
<1>2. ASSUME NEW w \in Workers, BeginHandling(w) \/ Handle(w)
      PROVE  FlowInv' /\ [Flow!Next]_session
  BY <1>0, <1>2, StepFlows DEF BeginHandling, Handle, Step
<1>3. CASE TimeOut
  BY <1>0, <1>3, TimeOutFlows
<1>4. CASE UNCHANGED <<session, job>>
  BY <1>0, <1>4, StillFlows
<1>5. CASE ProcessEnds
  <2>1. UNCHANGED session /\ \A w \in Workers : job'[w] = Idle
    BY <1>5 DEF ProcessEnds, Crash, redis
  <2> QED
    BY <1>0, <2>1 DEF WiredInv, FlowInv, InStep, Synced, Idle
<1> QED
  BY <1>1, <1>2, <1>3, <1>4, <1>5
  DEF SystemNext, Watch, Tick, RosterChanges, ChangeRoster, Signal, Restart, redis,
      conversation, systemVars

(***************************************************************************)
(* The monitor never breaks a conversation, whatever queries fail, prompts *)
(* get lost and between whichever calls the process dies: time alone keeps *)
(* it away from the sessions that a handler has read.                      *)
(***************************************************************************)
THEOREM ConversationsStayWhole ==
    ASSUME Orderly, "race" \notin MonitorFaults PROVE SystemSpec => FlowUnbroken
<1>1. ClockInv /\ [SystemNext]_systemVars => ClockInv' /\ [Flow!Next]_session
  BY ClockNext
<1> QED
  BY <1>1, ClockInit, PTL DEF SystemSpec, FlowUnbroken, FlowSpec, Flow!Spec

(***************************************************************************)
(* A citizen whose session was cleared, by himself or by the monitor,      *)
(* starts again from the choice of a language.                             *)
(***************************************************************************)
THEOREM ClearedRestarts ==
    ASSUME Orderly, "race" \notin MonitorFaults PROVE SystemSpec => RestartsFromLanguage
<1> DEFINE Restarts == \A p \in Phones :
              session[p] = Nil /\ session'[p] # Nil => session'[p].step = "LangChosen"
<1>1. ASSUME ClockInv, Flow!Next PROVE Restarts
  BY <1>1, EntersByLanguage DEF ClockInv
<1>2. ClockInv /\ [SystemNext]_systemVars => ClockInv' /\ [Restarts]_vars
  BY <1>1, ClockNext DEF vars
<1>3. SystemInit => ClockInv
  BY ClockInit
<1> QED
  BY <1>2, <1>3, PTL DEF SystemSpec, RestartsFromLanguage

-----------------------------------------------------------------------------
(* The monitor's theorems hold of the program *)

LEMMA MonitorCarriesOver == MonitorSpec => MP!Spec
<1>1. [M!Next]_(M!vars) => [MP!Next]_(MP!vars)
  BY SameMonitor
<1> QED
  BY <1>1, SameMonitor, PTL DEF MonitorSpec, M!Spec, MP!Spec

(***************************************************************************)
(* With the real handlers at work, the monitor deletes the sessions of     *)
(* silent citizens only, and calls back once and after the deletion, but   *)
(* for the timeout that a shutdown cuts short. The process may die or be   *)
(* shut down anywhere, the database and the delivery may fail at will.     *)
(***************************************************************************)
THEOREM OnlySilentAreTimedOut ==
    ASSUME Orderly, {"redis", "race"} \cap MonitorFaults = {}
    PROVE  SystemSpec => M!OnlyIdleCleared /\ []M!FiresOnce /\ []M!FireMeansCleared
<1>1. MP!Spec => MP!OnlyIdleCleared
  BY MonitorAssumptions, MP!IdleOnly
  DEF MP!TimingAssumption, MP!FaultsAssumption, MP!NilAssumption
<1>2. MP!Spec => []MP!FiresOnce
  BY MonitorAssumptions, MP!FiresOnceAlways
  DEF MP!TimingAssumption, MP!FaultsAssumption, MP!NilAssumption
<1>3. MP!Spec => []MP!FireMeansCleared
  BY MonitorAssumptions, MP!ClearedBeforeFire
  DEF MP!TimingAssumption, MP!FaultsAssumption, MP!NilAssumption
<1>4. SystemSpec => MP!Spec
  BY HandlersFitMonitor, MonitorCarriesOver
<1>5. MP!FiresOnce => M!FiresOnce
  BY DEF MP!FiresOnce, M!FiresOnce
<1>6. MP!FireMeansCleared => M!FireMeansCleared
  BY DEF MP!FireMeansCleared, M!FireMeansCleared
<1>7. MP!OnlyIdleCleared => M!OnlyIdleCleared
  BY SameMonitor, PTL DEF MP!OnlyIdleCleared, M!OnlyIdleCleared, MP!vars, M!vars
<1> QED
  BY <1>1, <1>2, <1>3, <1>4, <1>5, <1>6, <1>7, PTL

(***************************************************************************)
(* As long as the process runs and Redis answers the monitor, every stored *)
(* session is within the monitor's sight and gone in time after its        *)
(* citizen fell silent, whatever the handlers did meanwhile.               *)
(***************************************************************************)
THEOREM SilentAreTimedOut ==
    ASSUME Orderly, MP!Calm
    PROVE  SystemSpec => []M!EverySessionWatched /\ []M!ClearedInTime
<1>1. MP!Spec => []MP!EverySessionWatched
  BY MonitorAssumptions, MP!WatchedAlways
  DEF MP!TimingAssumption, MP!FaultsAssumption, MP!NilAssumption
<1>2. MP!Spec => []MP!ClearedInTime
  BY MonitorAssumptions, MP!ClearedInTimeAlways
  DEF MP!TimingAssumption, MP!FaultsAssumption, MP!NilAssumption
<1>3. SystemSpec => MP!Spec
  BY HandlersFitMonitor, MonitorCarriesOver
<1>4. MP!EverySessionWatched => M!EverySessionWatched
  BY DEF MP!EverySessionWatched, M!EverySessionWatched
<1>5. MP!ClearedInTime => M!ClearedInTime
  BY DEF MP!ClearedInTime, M!ClearedInTime
<1> QED
  BY <1>1, <1>2, <1>3, <1>4, <1>5, PTL

=============================================================================
