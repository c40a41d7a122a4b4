------------------------------- MODULE System -------------------------------
(***************************************************************************)
(* The bot as cmd/server/main.go wires it: the handlers of Conversation    *)
(* and the monitor of Inactivity over the same Redis keys, with time and   *)
(* the life of the process. Inactivity stands for the handlers with four   *)
(* actions of its own, and Conversation for the monitor with a session     *)
(* that vanishes at any moment; here each meets the other as it is.        *)
(***************************************************************************)
EXTENDS Conversation

CONSTANTS
    Timeout, TTL, ScanInterval, JobTime, Lag, Horizon,  \* see Inactivity
    MonitorFaults   \* what may go wrong with the monitor

VARIABLES silence, monitor, sinceTick, fired, cut, phase   \* see Inactivity

(***************************************************************************)
(* What the monitor can tell of the handlers: who has a session, and what  *)
(* the handler of a citizen's message may still do to the two keys. Until  *)
(* Touch, and once only the acknowledgement of a reset is left, nothing.   *)
(***************************************************************************)
Stored == {p \in Phones : session[p] # Nil}

Handled(p) == {w \in Workers : job[w].phone = p /\ ~At(w, "touch")}

Acknowledging(w) == At(w, "say") /\ job[w].msg.tag = "reset"

Doing(p) ==
    CASE \A w \in Handled(p) : Acknowledging(w) -> "idle"
      [] \E w \in Handled(p) : At(w, "cancel")  -> "cancel"
      [] OTHER                                  -> "store"

M == INSTANCE Inactivity WITH
        sessions <- Stored,
        handler  <- [p \in Phones |-> Doing(p)],
        Faults   <- MonitorFaults

conversation == <<session, inService, offered, screen, job>>
clockwork    == <<silence, monitor, sinceTick, fired, cut, phase>>
systemVars   == <<conversation, active, clockwork>>

\* To the handlers the end of a shutdown is a crash, and times are those the monitor can
\* work with.
ASSUME ConstantsAssumption ==
    /\ "crash" \in Faults <=> MonitorFaults \cap {"crash", "signal"} # {}
    /\ M!FaultsAssumption
    /\ M!TimingAssumption

SystemTypeOK == TypeOK /\ M!TypeOK

SystemInit ==
    /\ Init
    /\ silence = [p \in Phones |-> Horizon]
    /\ monitor = M!Waiting
    /\ sinceTick = 0
    /\ fired = [p \in Phones |-> 0]
    /\ cut = {}
    /\ phase = "up"

-----------------------------------------------------------------------------
(* The steps of the handlers, of the monitor, and of both *)

\* In a shutdown the workers go on with the queue.
TakeUp(w) == phase # "down" /\ Take(w) /\ UNCHANGED clockwork

\* Monitor.Touch, the first call of every handler: the citizen's silence ends. Without
\* "race", no message arrives while the monitor is timing its citizen out.
BeginHandling(w) ==
    /\ Touch(w)
    /\ "race" \in MonitorFaults \/ monitor.phone # job[w].phone
    /\ silence' = [silence EXCEPT ![job[w].phone] = 0]
    /\ fired' = [fired EXCEPT ![job[w].phone] = 0]
    /\ cut' = cut \ {job[w].phone}
    /\ UNCHANGED <<monitor, sinceTick, phase>>

\* Any other step of a handler.
Handle(w) ==
    /\ ~At(w, "touch")
    /\ Step(w)
    /\ UNCHANGED clockwork

\* Steps of the monitor that leave the session keys alone.
Watch ==
    /\ UNCHANGED conversation
    /\ M!StartScan \/ M!EndScan \/ (\E p \in Phones : M!CheckKey(p)) \/ M!DelActive \/ M!Fire

\* The monitor deletes the session that it found idle, if it can.
TimeOut ==
    /\ monitor.pc = "delSession"
    /\ session' \in {session, [session EXCEPT ![monitor.phone] = Nil]}
    /\ UNCHANGED <<inService, offered, screen, job>>
    /\ M!DelSession

\* No job outlives its context.
Tick == UNCHANGED conversation /\ M!Tick

RosterChanges == (\E r \in Reps : ChangeRoster(r)) /\ UNCHANGED clockwork

\* A shutdown begins: the monitor's context is cancelled, those of the jobs are not.
Signal == UNCHANGED conversation /\ M!Signal

\* main returns or the process dies, and all goroutines with it.
ProcessEnds == Crash /\ (M!Exit \/ M!Crash)

Restart == UNCHANGED conversation /\ M!Restart

SystemNext ==
    \/ \E w \in Workers : TakeUp(w) \/ BeginHandling(w) \/ Handle(w)
    \/ Watch \/ TimeOut \/ Tick
    \/ RosterChanges \/ Signal \/ ProcessEnds \/ Restart

SystemSpec == SystemInit /\ [][SystemNext]_systemVars

-----------------------------------------------------------------------------
(* Properties *)

(***************************************************************************)
(* The handlers of handler.go keep to what Inactivity assumes of them, in  *)
(* all their paths: they touch first, save only after that, delete the     *)
(* session before the key on reset, and end with their context. What holds *)
(* of Inactivity!Spec thus holds of the program.                           *)
(***************************************************************************)
MonitorSpec == M!Spec

(***************************************************************************)
(* The monitor never breaks a conversation: the sessions that handlers and *)
(* monitor leave in Redis together are a walk through the onboarding flow, *)
(* so no session vanishes between the Get and the Save of a handler and is *)
(* stored again half-way. It is timing that excludes it, in place of the   *)
(* missing lock: a job ends (jobTimeout) long before its citizen is idle   *)
(* (InactivityTimeout). Messages that arrive during the timeout itself are *)
(* the exception that the fault "race" stands for.                         *)
(***************************************************************************)
FlowUnbroken == FlowSpec

=============================================================================
