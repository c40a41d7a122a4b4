----------------------------- MODULE Inactivity -----------------------------
(***************************************************************************)
(* The inactivity monitor of internal/inactivity/monitor.go: a goroutine   *)
(* that scans the wa:active:<phone> keys and deletes the session of every  *)
(* citizen who has been silent for InactivityTimeout, next to the handlers *)
(* (internal/bot) that write both keys.                                    *)
(*                                                                         *)
(* Time passes in units of ten seconds. A stored timestamp is represented  *)
(* by its age, and every Redis call of the monitor that decides or changes *)
(* something is a step of its own. The language it reads for the callback  *)
(* is left out: main.go's callback is empty.                               *)
(***************************************************************************)
EXTENDS Naturals

CONSTANTS
    Phones,        \* citizens
    Timeout,       \* InactivityTimeout: 9 units
    TTL,           \* activeTTL, the life of an untouched wa:active key: 12 units
    ScanInterval,  \* 1 unit
    JobTime,       \* jobTimeout, the longest a handler runs: 2 units
    Lag,           \* the longest a scan over all keys takes
    Horizon,       \* silence is counted up to here
    Faults,        \* what may go wrong; see FaultKinds
    Nil

(***************************************************************************)
(* redis: a Redis call of the monitor fails without effect; crash: the     *)
(* process dies at once; signal: main's context is cancelled, and the      *)
(* process ends some time later; race: a citizen writes while the monitor  *)
(* is timing him out. A process that is gone is started again.             *)
(***************************************************************************)
FaultKinds == {"redis", "crash", "signal", "race"}

ASSUME TimingAssumption ==
    /\ {Timeout, TTL, ScanInterval, JobTime, Lag, Horizon} \subseteq Nat
    /\ 0 < ScanInterval /\ ScanInterval < Timeout
    /\ JobTime < Timeout /\ Timeout < TTL /\ TTL <= Horizon

ASSUME FaultsAssumption == Faults \subseteq FaultKinds

ASSUME NilAssumption == Nil \notin Phones \cup Nat

VARIABLES
    sessions,   \* the citizens with a wa:session key
    active,     \* the age of each citizen's wa:active timestamp
    silence,    \* how long ago each citizen's last message was taken up
    handler,    \* what the handler of each citizen's message does next
    monitor,    \* where the monitor goroutine is, in which scan, with whom
    sinceTick,  \* time since the monitor last received from its ticker
    fired,      \* callbacks since each citizen's last message
    cut,        \* history: whose timeout a shutdown cut short since then
    phase       \* the process: up, draining (main's context is cancelled) or down

keys == <<sessions, active>>
vars == <<sessions, active, silence, handler, monitor, sinceTick, fired, cut, phase>>

Waiting == [pc |-> "wait", todo |-> {}, phone |-> Nil]

Monitor == [pc : {"wait", "next", "delActive", "delSession", "fire"},
            todo : SUBSET Phones,
            phone : Phones \cup {Nil}]

TypeOK ==
    /\ sessions \in SUBSET Phones
    /\ active \in [Phones -> (0 .. TTL - 1) \cup {Nil}]
    /\ silence \in [Phones -> 0 .. Horizon]
    /\ handler \in [Phones -> {"idle", "store", "cancel"}]
    /\ monitor \in Monitor
    /\ sinceTick \in 0 .. ScanInterval + Lag
    /\ fired \in [Phones -> 0 .. 2]
    /\ cut \in SUBSET Phones
    /\ phase \in {"up", "draining", "down"}

Init ==
    /\ sessions = {}
    /\ active = [p \in Phones |-> Nil]
    /\ silence = [p \in Phones |-> Horizon]
    /\ handler = [p \in Phones |-> "idle"]
    /\ monitor = Waiting
    /\ sinceTick = 0
    /\ fired = [p \in Phones |-> 0]
    /\ cut = {}
    /\ phase = "up"

\* Whether a call of the monitor to Redis fails: with a cancelled context each does.
Fails ==
    IF phase = "draining" THEN {TRUE}
    ELSE IF "redis" \in Faults THEN BOOLEAN ELSE {FALSE}

-----------------------------------------------------------------------------
(* The handlers. Messages of one citizen are handled one at a time here; *)
(* Conversation shows what their overlap does.                            *)

\* Faulty variant: the key holds the deadline instead of the time of the message.
TouchDeadline(p) ==
    /\ phase # "down" /\ handler[p] = "idle"
    /\ "race" \in Faults \/ monitor.phone # p
    /\ active' = [active EXCEPT ![p] = TTL]
    /\ silence' = [silence EXCEPT ![p] = 0]
    /\ fired' = [fired EXCEPT ![p] = 0]
    /\ cut' = cut \ {p}
    /\ handler' = [handler EXCEPT ![p] = "store"]
    /\ UNCHANGED <<sessions, monitor, sinceTick, phase>>

\* HandleRaw starts with Monitor.Touch.
Touch(p) ==
    /\ phase # "down" /\ handler[p] = "idle"
    /\ "race" \in Faults \/ monitor.phone # p
    /\ active' = [active EXCEPT ![p] = 0]
    /\ silence' = [silence EXCEPT ![p] = 0]
    /\ fired' = [fired EXCEPT ![p] = 0]
    /\ cut' = cut \ {p}
    /\ handler' = [handler EXCEPT ![p] = "store"]
    /\ UNCHANGED <<sessions, monitor, sinceTick, phase>>

\* Store.Save: on some paths more than once, on others never.
Save(p) ==
    /\ handler[p] = "store"
    /\ sessions' = sessions \cup {p}
    /\ UNCHANGED <<active, silence, handler, monitor, sinceTick, fired, cut, phase>>

\* HandleRaw returns, after a last Save or without one.
Answer(p) ==
    /\ handler[p] = "store"
    /\ sessions' \in {sessions, sessions \cup {p}}
    /\ handler' = [handler EXCEPT ![p] = "idle"]
    /\ UNCHANGED <<active, silence, monitor, sinceTick, fired, cut, phase>>

\* Faulty variant: reset forgets the session of the citizen.
ResetForgotten(p) ==
    /\ handler[p] = "store"
    /\ handler' = [handler EXCEPT ![p] = "cancel"]
    /\ UNCHANGED <<keys, silence, monitor, sinceTick, fired, cut, phase>>

\* Store.Reset
Reset(p) ==
    /\ handler[p] = "store"
    /\ sessions' = sessions \ {p}
    /\ handler' = [handler EXCEPT ![p] = "cancel"]
    /\ UNCHANGED <<active, silence, monitor, sinceTick, fired, cut, phase>>

\* Monitor.Cancel
Cancel(p) ==
    /\ handler[p] = "cancel"
    /\ active' = [active EXCEPT ![p] = Nil]
    /\ handler' = [handler EXCEPT ![p] = "idle"]
    /\ UNCHANGED <<sessions, silence, monitor, sinceTick, fired, cut, phase>>

-----------------------------------------------------------------------------
(* The monitor *)

\* The ticker fires and SCAN returns the keys there are; an error ends the scan. With a
\* cancelled context the loop returns, or begins a scan whose SCAN fails.
StartScan ==
    /\ phase = "up" /\ monitor.pc = "wait" /\ sinceTick >= ScanInterval
    /\ sinceTick' = 0
    /\ \E failed \in Fails :
          monitor' = IF failed THEN monitor
                     ELSE [Waiting EXCEPT !.pc = "next",
                                          !.todo = {p \in Phones : active[p] # Nil}]
    /\ UNCHANGED <<keys, silence, handler, fired, cut, phase>>

EndScan ==
    /\ monitor.pc = "next" /\ monitor.todo = {}
    /\ monitor' = Waiting
    /\ UNCHANGED <<keys, silence, handler, sinceTick, fired, cut, phase>>

\* Faulty variant: a key is due when Redis is about to drop it.
DueAtTTL(p) == active[p] # Nil /\ active[p] >= TTL

\* Faulty variant: a citizen at work on his first message is timed out, too.
DueEarly(p) == active[p] # Nil

\* elapsed >= InactivityTimeout
Due(p) == active[p] # Nil /\ active[p] >= Timeout

\* GET: a key that is gone or recent needs nothing. No writer leaves a value that does not
\* parse, for which the code would delete the key.
CheckKey(p) ==
    /\ monitor.pc = "next" /\ p \in monitor.todo
    /\ \E failed \in Fails :
          monitor' = IF ~failed /\ Due(p)
                     THEN [monitor EXCEPT !.pc = "delActive", !.phone = p]
                     ELSE [monitor EXCEPT !.todo = @ \ {p}]
    /\ UNCHANGED <<keys, silence, handler, sinceTick, fired, cut, phase>>

\* Faulty variant: the activity key is left to its TTL.
DelActiveSkipped ==
    /\ monitor.pc = "delActive"
    /\ monitor' = [monitor EXCEPT !.pc = "delSession"]
    /\ UNCHANGED <<keys, silence, handler, sinceTick, fired, cut, phase>>

\* DEL of the activity key: an error is not even looked at.
DelActive ==
    /\ monitor.pc = "delActive"
    /\ \E failed \in Fails :
          active' = IF failed THEN active ELSE [active EXCEPT ![monitor.phone] = Nil]
    /\ monitor' = [monitor EXCEPT !.pc = "delSession"]
    /\ UNCHANGED <<sessions, silence, handler, sinceTick, fired, cut, phase>>

\* Faulty variant: the callback runs before the session is deleted.
DelSessionLate ==
    /\ monitor.pc = "delSession"
    /\ monitor' = [monitor EXCEPT !.pc = "fire"]
    /\ UNCHANGED <<keys, silence, handler, sinceTick, fired, cut, phase>>

\* DEL of the session: an error is logged.
DelSession ==
    /\ monitor.pc = "delSession"
    /\ \E failed \in Fails :
          sessions' = IF failed THEN sessions ELSE sessions \ {monitor.phone}
    /\ monitor' = [monitor EXCEPT !.pc = "fire"]
    /\ UNCHANGED <<active, silence, handler, sinceTick, fired, cut, phase>>

\* The callback, then the next key. More than two calls are counted as two.
Fire ==
    /\ monitor.pc = "fire"
    /\ fired' = [fired EXCEPT ![monitor.phone] = IF @ < 2 THEN @ + 1 ELSE @]
    /\ monitor' = [monitor EXCEPT !.pc = "next", !.phone = Nil,
                                  !.todo = @ \ {monitor.phone}]
    /\ UNCHANGED <<keys, silence, handler, sinceTick, cut, phase>>

-----------------------------------------------------------------------------
(* Time and the process *)

(***************************************************************************)
(* No timer is overdue: the scan starts when its ticker fires and ends     *)
(* within Lag, and a handler ends with its context after JobTime. What is  *)
(* left of a scan when the context is cancelled has no deadline.           *)
(***************************************************************************)
Punctual ==
    /\ phase = "up" => sinceTick < IF monitor.pc = "wait" THEN ScanInterval ELSE Lag
    /\ \A p \in Phones : handler[p] # "idle" => silence[p] < JobTime

\* Keys that reach their TTL are dropped by Redis.
Tick ==
    /\ Punctual
    /\ active' = [p \in Phones |-> IF active[p] = Nil \/ active[p] + 1 >= TTL
                                   THEN Nil ELSE active[p] + 1]
    /\ silence' = [p \in Phones |-> IF silence[p] < Horizon THEN silence[p] + 1
                                    ELSE silence[p]]
    /\ sinceTick' = IF phase = "up" THEN sinceTick + 1 ELSE sinceTick
    /\ UNCHANGED <<sessions, handler, monitor, fired, cut, phase>>

\* The monitor has found that p is due, and has not yet deleted both keys.
Expiring(p) == monitor.pc \in {"delActive", "delSession"} /\ monitor.phone = p

\* SIGINT or SIGTERM cancels the context that main gave to the monitor. A checkKey under way
\* goes on without Redis, up to its callback; the handlers' contexts are their own.
Signal ==
    /\ "signal" \in Faults /\ phase = "up"
    /\ phase' = "draining"
    /\ cut' = cut \cup {p \in Phones : Expiring(p)}
    /\ UNCHANGED <<keys, silence, handler, monitor, sinceTick, fired>>

\* The goroutines end wherever they are.
Gone ==
    /\ phase' = "down"
    /\ monitor' = Waiting
    /\ handler' = [p \in Phones |-> "idle"]
    /\ UNCHANGED <<keys, silence, sinceTick, fired, cut>>

\* srv.Shutdown returns, and main with it.
Exit == phase = "draining" /\ Gone

Crash == "crash" \in Faults /\ phase # "down" /\ Gone

Restart ==
    /\ phase = "down"
    /\ phase' = "up"
    /\ sinceTick' = 0
    /\ UNCHANGED <<keys, silence, handler, monitor, fired, cut>>

Next ==
    \/ \E p \in Phones : Touch(p) \/ Save(p) \/ Answer(p) \/ Reset(p) \/ Cancel(p)
    \/ StartScan \/ EndScan \/ \E p \in Phones : CheckKey(p)
    \/ DelActive \/ DelSession \/ Fire
    \/ Tick \/ Signal \/ Exit \/ Crash \/ Restart

Spec == Init /\ [][Next]_vars

-----------------------------------------------------------------------------
(* Properties *)

(***************************************************************************)
(* The monitor's accuracy: "10 s gives +-10 s accuracy" (monitor.go). The  *)
(* session of a silent citizen is gone within one scan interval after the  *)
(* timeout, and the time a scan takes.                                     *)
(***************************************************************************)
ClearedInTime == \A p \in sessions : silence[p] < Timeout + ScanInterval + Lag

(***************************************************************************)
(* No session is lost to the monitor: it has its wa:active key until the   *)
(* monitor is about to delete it, never running out its TTL before a scan. *)
(***************************************************************************)
EverySessionWatched ==
    \A p \in sessions :
       active[p] # Nil \/ (monitor.pc = "delSession" /\ monitor.phone = p)

(***************************************************************************)
(* main.go: the session is deleted "when a user is idle for 90 seconds". A *)
(* session that the citizen does not reset is deleted after that only.     *)
(***************************************************************************)
OnlyIdleCleared ==
    [][\A p \in sessions \ sessions' : handler'[p] = handler[p] => silence[p] >= Timeout]_vars

(***************************************************************************)
(* monitor.go: the activity key is deleted first "so we don't double-fire":*)
(* a citizen is timed out once per silence, whenever the process dies and  *)
(* is started again. One whose timeout a shutdown cut short is excepted:   *)
(* the deletions fail with the cancelled context, the callback runs, and   *)
(* the next process finds the key and calls back again.                    *)
(***************************************************************************)
FiresOnce == \A p \in Phones \ cut : fired[p] <= 1

(***************************************************************************)
(* main.go, in the callback: "Session has already been cleared by the      *)
(* monitor", so that the next message starts fresh. The same exception: a  *)
(* shutdown in the middle of a timeout.                                    *)
(***************************************************************************)
FireMeansCleared ==
    monitor.pc = "fire" /\ monitor.phone \notin cut => monitor.phone \notin sessions

=============================================================================
