-------------------------- MODULE InactivityProofs --------------------------
(***************************************************************************)
(* What the inactivity monitor guarantees for all times and any number of  *)
(* citizens.                                                               *)
(***************************************************************************)
EXTENDS Inactivity, TLAPS

-----------------------------------------------------------------------------
(* Types *)

LEMMA TypesKept == TypeOK /\ [Next]_vars => TypeOK'
<1> SUFFICES ASSUME TypeOK, [Next]_vars PROVE TypeOK'
  OBVIOUS
<1> USE TimingAssumption DEF TypeOK, Monitor, Waiting, keys
<1>1. ASSUME NEW p \in Phones, Touch(p) \/ Save(p) \/ Answer(p) \/ Reset(p) \/ Cancel(p)
      PROVE  TypeOK'
  BY <1>1 DEF Touch, Save, Answer, Reset, Cancel
<1>2. CASE StartScan
  <2>0. UNCHANGED <<sessions, active, silence, handler, fired, cut, phase>> /\ sinceTick' = 0
    BY <1>2 DEF StartScan
  <2>1. CASE monitor' = [Waiting EXCEPT !.pc = "next",
                                        !.todo = {p \in Phones : active[p] # Nil}]
    <3>1. monitor' = [pc |-> "next", todo |-> {p \in Phones : active[p] # Nil}, phone |-> Nil]
      BY <2>1
    <3>2. monitor' \in Monitor
      BY <3>1
    <3> QED
      BY <2>0, <3>2
  <2>2. CASE monitor' = monitor
    BY <2>0, <2>2
  <2> QED
    BY <1>2, <2>1, <2>2 DEF StartScan
<1>3. CASE EndScan
  BY <1>3 DEF EndScan
<1>4. ASSUME NEW p \in Phones, CheckKey(p) PROVE TypeOK'
  <2>1. \/ monitor' = [monitor EXCEPT !.pc = "delActive", !.phone = p]
        \/ monitor' = [monitor EXCEPT !.todo = @ \ {p}]
    BY <1>4 DEF CheckKey
  <2>2. monitor' \in Monitor
    <3>1. CASE monitor' = [monitor EXCEPT !.pc = "delActive", !.phone = p]
      BY <3>1
    <3>2. CASE monitor' = [monitor EXCEPT !.todo = @ \ {p}]
      BY <3>2
    <3> QED
      BY <2>1, <3>1, <3>2
  <2> QED
    BY <1>4, <2>2 DEF CheckKey
<1>5. CASE DelActive
  BY <1>5 DEF DelActive
<1>6. CASE DelSession
  BY <1>6 DEF DelSession
<1>7. CASE Fire
  <2>1. monitor' \in Monitor
    BY <1>7 DEF Fire
  <2>2. \A k \in 0 .. 2 : (IF k < 2 THEN k + 1 ELSE k) \in 0 .. 2
    OBVIOUS
  <2>3. fired' \in [Phones -> 0 .. 2]
    BY <1>7, <2>2 DEF Fire
  <2> QED
    BY <1>7, <2>1, <2>3 DEF Fire
<1>8. CASE Tick
  <2>1. sinceTick' \in 0 .. ScanInterval + Lag
    BY <1>8 DEF Tick, Punctual
  <2>2. active' \in [Phones -> (0 .. TTL - 1) \cup {Nil}]
    BY <1>8 DEF Tick
  <2>3. silence' \in [Phones -> 0 .. Horizon]
    BY <1>8 DEF Tick
  <2> QED
    BY <1>8, <2>1, <2>2, <2>3 DEF Tick
<1>9. CASE Signal
  BY <1>9 DEF Signal
<1>10. CASE Exit \/ Crash \/ Restart
  BY <1>10 DEF Exit, Crash, Gone, Restart
<1>11. CASE UNCHANGED vars
  BY <1>11 DEF vars
<1> QED
  BY <1>1, <1>2, <1>3, <1>4, <1>5, <1>6, <1>7, <1>8, <1>9, <1>10, <1>11 DEF Next

(***************************************************************************)
(* Type correctness, whatever goes wrong: also when messages race with the *)
(* monitor, no age reaches its TTL and no scan outlasts its bound.         *)
(***************************************************************************)
THEOREM MonitorTypeCorrect == Spec => []TypeOK
<1>1. Init => TypeOK
  BY TimingAssumption DEF Init, TypeOK, Monitor, Waiting
<1> QED
  BY <1>1, TypesKept, PTL DEF Spec

-----------------------------------------------------------------------------
(* Sessions are deleted from the silent only *)

\* A key says how long its citizen has been silent, and a handler is young.
TimesAgree ==
    \A p \in Phones :
       /\ active[p] # Nil => active[p] = silence[p]
       /\ handler[p] # "idle" => silence[p] <= JobTime

\* Whom the monitor is timing out has been silent long enough.
MonitorPlace ==
    /\ monitor.pc \in {"delActive", "delSession", "fire"} => monitor.phone \in Phones
    /\ \A p \in Phones : Expiring(p) => silence[p] >= Timeout

\* A process that does not run has no goroutines.
Stopped == phase = "down" => monitor = Waiting /\ \A p \in Phones : handler[p] = "idle"

(***************************************************************************)
(* Without messages in the middle of a timeout, what CheckKey read stays   *)
(* true until DelSession acts on it: time only makes the silence longer.   *)
(***************************************************************************)
IdleInv == TypeOK /\ TimesAgree /\ MonitorPlace /\ Stopped

LEMMA IdleInit == Init => IdleInv
  BY TimingAssumption, NilAssumption
     DEF Init, IdleInv, TypeOK, TimesAgree, MonitorPlace, Stopped, Expiring, Monitor, Waiting

LEMMA IdleNext ==
    ASSUME IdleInv, "race" \notin Faults, [Next]_vars PROVE IdleInv'
<1> USE TimingAssumption, NilAssumption
    DEF IdleInv, TypeOK, TimesAgree, MonitorPlace, Stopped, Expiring, Monitor, Waiting
<1>1. ASSUME NEW p \in Phones, Touch(p) PROVE IdleInv'
  BY <1>1 DEF Touch
<1>2. ASSUME NEW p \in Phones, Save(p) \/ Answer(p) PROVE IdleInv'
  BY <1>2 DEF Save, Answer
<1>3. ASSUME NEW p \in Phones, Reset(p) PROVE IdleInv'
  BY <1>3 DEF Reset
<1>4. ASSUME NEW p \in Phones, Cancel(p) PROVE IdleInv'
  BY <1>4 DEF Cancel
<1>5. CASE StartScan
  <2>0. /\ UNCHANGED <<sessions, active, silence, handler, fired, cut, phase>>
        /\ sinceTick' = 0 /\ phase = "up"
    BY <1>5 DEF StartScan, keys
  <2>1. CASE monitor' = monitor
    BY <2>0, <2>1
  <2>2. CASE monitor' = [Waiting EXCEPT !.pc = "next",
                                        !.todo = {p \in Phones : active[p] # Nil}]
    <3>1. monitor' = [pc |-> "next", todo |-> {p \in Phones : active[p] # Nil}, phone |-> Nil]
      BY <2>2
    <3>2. monitor' \in Monitor /\ monitor'.pc = "next"
      BY <3>1
    <3> QED
      BY <2>0, <3>2
  <2> QED
    BY <1>5, <2>1, <2>2 DEF StartScan
<1>6. CASE EndScan
  BY <1>6 DEF EndScan, keys
<1>7. ASSUME NEW p \in Phones, CheckKey(p) PROVE IdleInv'
  <2>1. CASE Due(p) /\ monitor' = [monitor EXCEPT !.pc = "delActive", !.phone = p]
    <3>1. monitor' \in Monitor /\ monitor'.pc = "delActive" /\ monitor'.phone = p
      BY <2>1
    <3> QED
      BY <1>7, <2>1, <3>1 DEF CheckKey, Due, keys
  <2>2. CASE monitor' = [monitor EXCEPT !.todo = @ \ {p}]
    <3>1. monitor' \in Monitor /\ monitor'.pc = "next"
      BY <1>7, <2>2 DEF CheckKey
    <3> QED
      BY <1>7, <3>1 DEF CheckKey, keys
  <2> QED
    BY <1>7, <2>1, <2>2 DEF CheckKey
<1>8. CASE DelActive
  BY <1>8 DEF DelActive
<1>9. CASE DelSession
  BY <1>9 DEF DelSession
<1>10. CASE Fire
  <2>1. monitor' \in Monitor /\ monitor'.pc = "next"
    BY <1>10 DEF Fire
  <2>2. fired' \in [Phones -> 0 .. 2]
    BY <1>10 DEF Fire
  <2> QED
    BY <1>10, <2>1, <2>2 DEF Fire, keys
<1>11. CASE Tick
  <2>1. sinceTick' \in 0 .. ScanInterval + Lag
    BY <1>11 DEF Tick, Punctual
  <2>2. active' \in [Phones -> (0 .. TTL - 1) \cup {Nil}]
    BY <1>11 DEF Tick
  <2>3. silence' \in [Phones -> 0 .. Horizon]
    BY <1>11 DEF Tick
  <2>4. \A p \in Phones : active'[p] # Nil => active'[p] = silence'[p]
    BY <1>11 DEF Tick
  <2>5. \A p \in Phones : handler[p] # "idle" => silence'[p] <= JobTime
    BY <1>11 DEF Tick, Punctual
  <2>6. \A p \in Phones : Expiring(p) => silence'[p] >= Timeout
    BY <1>11 DEF Tick
  <2> QED
    BY <1>11, <2>1, <2>2, <2>3, <2>4, <2>5, <2>6 DEF Tick
<1>12. CASE Signal
  BY <1>12 DEF Signal, keys
<1>13. CASE Exit \/ Crash \/ Restart
  BY <1>13 DEF Exit, Crash, Gone, Restart, keys
<1>14. CASE UNCHANGED vars
  BY <1>14 DEF vars, keys
<1> QED
  BY <1>1, <1>2, <1>3, <1>4, <1>5, <1>6, <1>7, <1>8, <1>9, <1>10, <1>11, <1>12, <1>13, <1>14
  DEF Next

(***************************************************************************)
(* As long as no message arrives in the middle of a timeout, the monitor   *)
(* deletes the sessions of silent citizens only, even if Redis fails and   *)
(* the process crashes between two calls of checkKey.                      *)
(***************************************************************************)
THEOREM IdleOnly == ASSUME "race" \notin Faults PROVE Spec => OnlyIdleCleared
<1> DEFINE Kept == \A p \in sessions \ sessions' : handler'[p] = handler[p] => silence[p] >= Timeout
<1>1. ASSUME IdleInv, Next PROVE Kept
  <2> SUFFICES ASSUME NEW p \in sessions, p \notin sessions', handler'[p] = handler[p]
               PROVE  silence[p] >= Timeout
    OBVIOUS
  <2>1. p \in Phones
    BY <1>1 DEF IdleInv, TypeOK
  <2>2. ~ \E q \in Phones : Reset(q)
    BY <1>1, <2>1 DEF Reset, IdleInv, TypeOK
  <2>3. DelSession
    BY <1>1, <2>2 DEF Next, Touch, Save, Answer, Cancel, StartScan, EndScan, CheckKey, DelActive,
         Fire, Tick, Signal, Exit, Crash, Gone, Restart, keys
  <2> QED
    BY <1>1, <2>1, <2>3 DEF DelSession, IdleInv, MonitorPlace, Expiring
<1>2. IdleInv /\ [Next]_vars => IdleInv' /\ [Kept]_vars
  BY <1>1, IdleNext DEF vars, keys
<1> QED
  BY <1>2, IdleInit, PTL DEF Spec, OnlyIdleCleared

-----------------------------------------------------------------------------
(* A citizen is timed out once, and completely *)

\* As long as there is a key to act on, the callback has not run since the last message,
\* unless in a shutdown.
NotYetFired == \A p \in Phones \ cut : active[p] # Nil => fired[p] = 0

(***************************************************************************)
(* The timeout of one citizen, step by step: no handler of his is at work, *)
(* then his key is gone, then his session, and only then runs the callback.*)
(***************************************************************************)
OrderKept ==
    LET p == monitor.phone IN
    /\ monitor.pc \in {"delActive", "delSession", "fire"} => handler[p] = "idle"
    /\ p \notin cut =>
         /\ monitor.pc \in {"delActive", "delSession", "fire"} => fired[p] = 0
         /\ monitor.pc \in {"delSession", "fire"} => active[p] = Nil
         /\ monitor.pc = "fire" => p \notin sessions

\* Whoever has something left to delete in a shutdown is known to be cut short.
CutKnown == phase = "draining" => \A p \in Phones : Expiring(p) => p \in cut

(***************************************************************************)
(* What makes the order of the two deletions work: the key is what a scan  *)
(* starts from, so that a citizen whose callback ran is not found again by *)
(* the next scan, nor by one after a crash. A shutdown breaks exactly this *)
(* for the citizen it finds the monitor at, and for no other.              *)
(***************************************************************************)
OnceInv == IdleInv /\ NotYetFired /\ OrderKept /\ CutKnown /\ FiresOnce

LEMMA OnceInit == Init => OnceInv
  BY IdleInit DEF Init, OnceInv, NotYetFired, OrderKept, CutKnown, FiresOnce, Waiting

LEMMA OnceNext ==
    ASSUME OnceInv, Faults \cap {"redis", "race"} = {}, [Next]_vars PROVE OnceInv'
<1> USE TimingAssumption, NilAssumption
    DEF OnceInv, NotYetFired, OrderKept, CutKnown, FiresOnce, Expiring
<1>0. IdleInv' /\ IdleInv /\ "race" \notin Faults
      /\ Fails = (IF phase = "draining" THEN {TRUE} ELSE {FALSE})
  BY IdleNext DEF Fails
<1> USE DEF IdleInv, TypeOK
<1>1. ASSUME NEW p \in Phones, Touch(p) PROVE OnceInv'
  BY <1>0, <1>1 DEF Touch
<1>2. ASSUME NEW p \in Phones, Save(p) \/ Answer(p) \/ Reset(p) \/ Cancel(p) PROVE OnceInv'
  <2>1. handler[p] # "idle" /\ UNCHANGED <<monitor, fired, cut, phase>>
    BY <1>2 DEF Save, Answer, Reset, Cancel
  <2>2. \A q \in Phones \ {p} : /\ handler'[q] = handler[q] /\ active'[q] = active[q]
                                /\ q \in sessions' <=> q \in sessions
    BY <1>2 DEF Save, Answer, Reset, Cancel
  <2>3. active'[p] \in {active[p], Nil}
    BY <1>2 DEF Save, Answer, Reset, Cancel
  <2>4. monitor.pc \in {"delActive", "delSession", "fire"} => monitor.phone \in Phones \ {p}
    BY <1>0, <2>1 DEF MonitorPlace
  <2> QED
    BY <1>0, <2>1, <2>2, <2>3, <2>4
<1>3. CASE StartScan \/ EndScan
  <2>1. monitor' = Waiting \/ monitor' = [Waiting EXCEPT !.pc = "next",
                                        !.todo = {p \in Phones : active[p] # Nil}]
    BY <1>0, <1>3 DEF StartScan, EndScan
  <2>2. monitor'.pc \in {"next", "wait"}
    <3>1. CASE monitor' = Waiting
      BY <3>1 DEF Waiting
    <3>2. CASE monitor' = [Waiting EXCEPT !.pc = "next",
                                          !.todo = {p \in Phones : active[p] # Nil}]
      <4>1. monitor' = [pc |-> "next", todo |-> {p \in Phones : active[p] # Nil}, phone |-> Nil]
        BY <3>2 DEF Waiting
      <4> QED
        BY <4>1
    <3> QED
      BY <2>1, <3>1, <3>2
  <2>3. UNCHANGED <<sessions, active, handler, fired, cut, phase>>
    BY <1>3 DEF StartScan, EndScan, keys
  <2> QED
    BY <1>0, <2>2, <2>3
<1>4. ASSUME NEW p \in Phones, CheckKey(p) PROVE OnceInv'
  <2>1. UNCHANGED <<sessions, active, handler, fired, cut, phase>>
    BY <1>4 DEF CheckKey, keys
  <2>2. CASE /\ Due(p) /\ phase # "draining"
             /\ monitor' = [monitor EXCEPT !.pc = "delActive", !.phone = p]
    <3>1. monitor'.pc = "delActive" /\ monitor'.phone = p
      BY <1>0, <2>2 DEF Monitor
    <3>2. handler[p] = "idle" /\ (p \notin cut => fired[p] = 0)
      BY <1>0, <2>2 DEF Due, TimesAgree
    <3> QED
      BY <1>0, <2>1, <2>2, <3>1, <3>2
  <2>3. CASE monitor' = [monitor EXCEPT !.todo = @ \ {p}]
    <3>1. monitor'.pc = "next"
      BY <1>0, <1>4, <2>3 DEF CheckKey, Monitor
    <3> QED
      BY <1>0, <2>1, <3>1
  <2> QED
    BY <1>0, <1>4, <2>2, <2>3 DEF CheckKey
<1>5. CASE DelActive
  <2>1. monitor.phone \in Phones /\ monitor.pc = "delActive"
    BY <1>0, <1>5 DEF DelActive, MonitorPlace
  <2>2. monitor'.pc = "delSession" /\ monitor'.phone = monitor.phone
    BY <1>0, <1>5 DEF DelActive, Monitor
  <2>3. UNCHANGED <<sessions, handler, fired, cut, phase>>
    BY <1>5 DEF DelActive
  <2>4. CASE phase = "draining"
    <3>1. active' = active /\ monitor.phone \in cut
      BY <1>0, <1>5, <2>1, <2>4 DEF DelActive
    <3> QED
      BY <1>0, <2>1, <2>2, <2>3, <3>1
  <2>5. CASE phase # "draining"
    <3>1. active' = [active EXCEPT ![monitor.phone] = Nil]
      BY <1>0, <1>5, <2>5 DEF DelActive
    <3> QED
      BY <1>0, <2>1, <2>2, <2>3, <2>5, <3>1
  <2> QED
    BY <2>4, <2>5
<1>6. CASE DelSession
  <2>1. monitor.phone \in Phones /\ monitor.pc = "delSession"
    BY <1>0, <1>6 DEF DelSession, MonitorPlace
  <2>2. monitor'.pc = "fire" /\ monitor'.phone = monitor.phone
    BY <1>0, <1>6 DEF DelSession, Monitor
  <2>3. UNCHANGED <<active, handler, fired, cut, phase>>
    BY <1>6 DEF DelSession
  <2>4. monitor.phone \notin cut => sessions' = sessions \ {monitor.phone}
    BY <1>0, <1>6, <2>1 DEF DelSession
  <2> QED
    BY <1>0, <2>1, <2>2, <2>3, <2>4
<1>7. CASE Fire
  <2>1. monitor'.pc = "next" /\ UNCHANGED <<sessions, active, handler, cut, phase>>
    BY <1>0, <1>7 DEF Fire, Monitor, keys
  <2>2. /\ monitor.phone \in Phones
        /\ monitor.phone \notin cut => active[monitor.phone] = Nil /\ fired[monitor.phone] = 0
    BY <1>0, <1>7 DEF Fire, MonitorPlace
  <2>3. /\ \A q \in Phones \ {monitor.phone} : fired'[q] = fired[q]
        /\ monitor.phone \notin cut => fired'[monitor.phone] = 1
    BY <1>7, <2>2 DEF Fire
  <2> QED
    BY <1>0, <2>1, <2>2, <2>3
<1>8. CASE Tick
  <2>1. \A p \in Phones : active[p] = Nil => active'[p] = Nil
    BY <1>8 DEF Tick
  <2> QED
    BY <1>0, <1>8, <2>1 DEF Tick, MonitorPlace
<1>9. CASE Signal
  <2>1. UNCHANGED <<sessions, active, handler, monitor, fired>>
    BY <1>9 DEF Signal, keys
  <2>2. cut \subseteq cut' /\ \A p \in Phones : Expiring(p) => p \in cut'
    BY <1>9 DEF Signal
  <2> QED
    BY <1>0, <2>1, <2>2
<1>10. CASE Exit \/ Crash \/ Restart
  BY <1>0, <1>10 DEF Exit, Crash, Gone, Restart, Waiting, keys
<1>11. CASE UNCHANGED vars
  BY <1>0, <1>11 DEF vars
<1> QED
  BY <1>1, <1>2, <1>3, <1>4, <1>5, <1>6, <1>7, <1>8, <1>9, <1>10, <1>11 DEF Next

(***************************************************************************)
(* The key is deleted first "so we don't double-fire": while Redis answers *)
(* a process that is not being shut down, and no message arrives in the    *)
(* middle of a timeout, the callback runs once per silence, across any     *)
(* number of crashes, shutdowns and restarts, for every citizen whose      *)
(* timeout no shutdown cuts short.                                         *)
(***************************************************************************)
THEOREM FiresOnceAlways ==
    ASSUME Faults \cap {"redis", "race"} = {} PROVE Spec => []FiresOnce
<1>1. OnceInv => FiresOnce
  BY DEF OnceInv
<1>2. OnceInv /\ [Next]_vars => OnceInv'
  BY OnceNext
<1> QED
  BY <1>1, <1>2, OnceInit, PTL DEF Spec

(***************************************************************************)
(* "Session has already been cleared by the monitor" when the callback     *)
(* runs, under the same assumption: no handler can have stored it again.   *)
(***************************************************************************)
THEOREM ClearedBeforeFire ==
    ASSUME Faults \cap {"redis", "race"} = {} PROVE Spec => []FireMeansCleared
<1>1. OnceInv => FireMeansCleared
  BY DEF OnceInv, OrderKept, FireMeansCleared
<1>2. OnceInv /\ [Next]_vars => OnceInv'
  BY OnceNext
<1> QED
  BY <1>1, <1>2, OnceInit, PTL DEF Spec

-----------------------------------------------------------------------------
(* Every session is watched, and cleared in time *)

\* Nothing fails, scans are no slower than their interval, and the TTL leaves room for one.
Calm ==
    /\ Faults = {}
    /\ Lag <= ScanInterval
    /\ Timeout + ScanInterval + Lag <= TTL

\* The longest a key's age can be when the monitor has yet to look at it in this scan.
Unchecked(p) == monitor.pc # "wait" /\ p \in monitor.todo

AgesBounded ==
    \A p \in Phones : active[p] # Nil =>
       IF Unchecked(p) THEN active[p] < Timeout + ScanInterval + sinceTick
                       ELSE active[p] < Timeout + sinceTick

\* A session has its key, up to the step between the two deletions.
Watched ==
    \A p \in sessions :
       \/ active[p] # Nil
       \/ /\ monitor.pc = "delSession" /\ monitor.phone = p
          /\ silence[p] < Timeout + ScanInterval + sinceTick

\* A handler's key is there when it stores the session, and reset deletes that first.
HandlersTouched ==
    \A p \in Phones :
       /\ handler[p] = "store" => active[p] # Nil
       /\ handler[p] = "cancel" => p \notin sessions
       /\ handler[p] # "idle" => monitor.phone # p

InTime == sinceTick <= ScanInterval /\ (monitor.pc # "wait" => sinceTick <= Lag)

MonitorBusy ==
    /\ monitor.pc \in {"delActive", "delSession", "fire"} => monitor.phone \in monitor.todo
    /\ monitor.pc \in {"wait", "next"} => monitor.phone = Nil
    /\ monitor.pc \in {"delSession", "fire"} => active[monitor.phone] = Nil
    /\ monitor.pc = "fire" => monitor.phone \notin sessions

(***************************************************************************)
(* A key that a scan finds too young is at most Timeout - 1 old then, and  *)
(* the next scan looks at it one interval and one scan later: that is      *)
(* within the TTL, so no key runs out before the monitor has deleted its   *)
(* session.                                                                *)
(***************************************************************************)
CalmInv ==
    IdleInv /\ phase = "up" /\ AgesBounded /\ Watched /\ HandlersTouched /\ InTime /\ MonitorBusy

LEMMA CalmInit == Init => CalmInv
  BY IdleInit, TimingAssumption
     DEF Init, CalmInv, AgesBounded, Watched, HandlersTouched, InTime, MonitorBusy, Waiting

LEMMA CalmNext ==
    ASSUME CalmInv, Calm, [Next]_vars PROVE CalmInv'
<1> USE TimingAssumption, NilAssumption
    DEF CalmInv, AgesBounded, Watched, HandlersTouched, InTime, MonitorBusy, Unchecked
<1>0. IdleInv' /\ IdleInv
  BY IdleNext DEF Calm
<1> USE DEF IdleInv, TypeOK, TimesAgree
<1>1. ASSUME NEW p \in Phones, Touch(p) PROVE CalmInv'
  BY <1>0, <1>1 DEF Touch, Calm
<1>2. ASSUME NEW p \in Phones, Save(p) \/ Answer(p) PROVE CalmInv'
  <2>1. CASE Save(p)
    BY <1>0, <2>1 DEF Save
  <2>2. CASE Answer(p)
    BY <1>0, <2>2 DEF Answer
  <2> QED
    BY <1>2, <2>1, <2>2
<1>3. ASSUME NEW p \in Phones, Reset(p) PROVE CalmInv'
  BY <1>0, <1>3 DEF Reset
<1>4. ASSUME NEW p \in Phones, Cancel(p) PROVE CalmInv'
  BY <1>0, <1>4 DEF Cancel
<1>5. CASE StartScan
  BY <1>0, <1>5 DEF StartScan, Waiting, keys, Fails, Calm
<1>6. CASE EndScan
  BY <1>0, <1>6 DEF EndScan, Waiting, keys
<1>7. ASSUME NEW p \in Phones, CheckKey(p) PROVE CalmInv'
  BY <1>0, <1>7 DEF CheckKey, Due, keys, Fails, Calm
<1>8. CASE DelActive
  BY <1>0, <1>8 DEF DelActive, Fails, Calm
<1>9. CASE DelSession
  BY <1>0, <1>9 DEF DelSession, Fails, Calm
<1>10. CASE Fire
  <2>1. /\ monitor'.pc = "next" /\ monitor'.phone = Nil
        /\ monitor'.todo = monitor.todo \ {monitor.phone}
    BY <1>0, <1>10 DEF Fire, Monitor
  <2> QED
    BY <1>0, <1>10, <2>1 DEF Fire, keys
<1>11. CASE Tick
  <2>1. /\ sinceTick' = sinceTick + 1 /\ Punctual
        /\ UNCHANGED <<sessions, handler, monitor, fired, cut, phase>>
    BY <1>11 DEF Tick
  <2>2. InTime'
    BY <2>1 DEF Punctual, Calm
  <2>3. \A p \in Phones : active[p] # Nil => active[p] < Timeout + ScanInterval + sinceTick
    OBVIOUS
  <2>4. \A p \in Phones : active[p] # Nil => active'[p] = active[p] + 1
    <3> SUFFICES ASSUME NEW p \in Phones, active[p] # Nil PROVE active[p] + 1 < TTL
      BY <1>11 DEF Tick
    <3> QED
      BY <2>1, <2>3 DEF Punctual, Calm
  <2>5. \A p \in Phones : active[p] = Nil => active'[p] = Nil
    BY <1>11 DEF Tick
  <2>6. AgesBounded'
    BY <2>1, <2>4, <2>5
  <2>7. Watched'
    BY <1>11, <2>1, <2>4 DEF Tick
  <2>8. HandlersTouched'
    BY <2>1, <2>4
  <2>9. MonitorBusy'
    BY <2>1, <2>5 DEF MonitorPlace
  <2> QED
    BY <1>0, <2>1, <2>2, <2>6, <2>7, <2>8, <2>9
<1>12. CASE UNCHANGED vars
  BY <1>0, <1>12 DEF vars, keys
<1> QED
  BY <1>0, <1>1, <1>2, <1>3, <1>4, <1>5, <1>6, <1>7, <1>8, <1>9, <1>10, <1>11, <1>12
  DEF Next, Signal, Exit, Crash, Restart, Calm

(***************************************************************************)
(* No session outlives its wa:active key, whatever the number of citizens: *)
(* the monitor sees every session in time to delete it.                    *)
(***************************************************************************)
THEOREM WatchedAlways == ASSUME Calm PROVE Spec => []EverySessionWatched
<1>1. CalmInv => EverySessionWatched
  BY DEF CalmInv, Watched, EverySessionWatched
<1>2. CalmInv /\ [Next]_vars => CalmInv'
  BY CalmNext
<1> QED
  BY <1>1, <1>2, CalmInit, PTL DEF Spec

(***************************************************************************)
(* The monitor's accuracy, for all times for which the TTL leaves room for *)
(* one scan interval and one scan after the timeout: a silent citizen's    *)
(* session is gone by then.                                                *)
(***************************************************************************)
THEOREM ClearedInTimeAlways == ASSUME Calm PROVE Spec => []ClearedInTime
<1>1. ASSUME CalmInv PROVE ClearedInTime
  <2> SUFFICES ASSUME NEW p \in sessions PROVE silence[p] < Timeout + ScanInterval + Lag
    BY DEF ClearedInTime
  <2>0. p \in Phones
    BY <1>1 DEF CalmInv, IdleInv, TypeOK
  <2>1. CASE monitor.pc = "delSession" /\ monitor.phone = p
    BY <1>1, <2>0, <2>1, TimingAssumption
       DEF CalmInv, IdleInv, TypeOK, TimesAgree, AgesBounded, Watched, InTime, Unchecked, MonitorBusy
  <2>2. CASE active[p] # Nil
    BY <1>1, <2>0, <2>2, TimingAssumption
       DEF CalmInv, IdleInv, TypeOK, TimesAgree, AgesBounded, InTime, Unchecked
  <2> QED
    BY <1>1, <2>1, <2>2 DEF CalmInv, Watched
<1>2. CalmInv /\ [Next]_vars => CalmInv'
  BY CalmNext
<1> QED
  BY <1>1, <1>2, CalmInit, PTL DEF Spec

=============================================================================
