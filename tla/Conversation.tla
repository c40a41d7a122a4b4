---------------------------- MODULE Conversation ----------------------------
(***************************************************************************)
(* The onboarding conversation of internal/bot/handler.go: the worker      *)
(* goroutines that run HandleRaw, one inbound message each, over the       *)
(* session that internal/store keeps in Redis and the table that           *)
(* internal/db reads from PostgreSQL.                                      *)
(*                                                                         *)
(* A step of a worker is one call that leaves the process (Redis,          *)
(* PostgreSQL, the WhatsApp API) with the local computation around it, so  *)
(* workers that handle messages of the same citizen interleave between any *)
(* two calls, as they do in the program: nothing in it serialises the      *)
(* messages of one phone.                                                  *)
(***************************************************************************)
EXTENDS Naturals

CONSTANTS
    Phones,       \* citizens
    Workers,      \* goroutines of the worker pool (WORKER_COUNT of them)
    Langs,        \* languages of the picker: en, mr, hi
    Pins,         \* well-formed PIN codes a citizen may type
    Wards,        \* ward codes a citizen may type
    Reps,         \* rows of political_users
    RepPin,       \* the pincode column
    RepWard,      \* the ward column
    LegacyWards,  \* wards of "ward_" list rows citizens hold from older deployments
    Faults,       \* what may go wrong; see FaultKinds
    Nil           \* an absent key, an empty string, a nil pointer

(***************************************************************************)
(* redis: a Redis call fails (its effect applied or not); db: a query      *)
(* fails; wa: a message is not delivered; evict: a session key disappears  *)
(* by itself (24-hour TTL, inactivity monitor); roster: is_active changes; *)
(* crash: the process dies and is started again; overlap: a message of a   *)
(* citizen is taken up while an earlier one is still being handled (a      *)
(* double tap, a second thought, a webhook delivered twice).               *)
(***************************************************************************)
FaultKinds == {"redis", "db", "wa", "evict", "roster", "crash", "overlap"}

ASSUME DirectoryAssumption ==
    /\ RepPin \in [Reps -> Pins]
    /\ RepWard \in [Reps -> Wards]
    /\ LegacyWards \subseteq Wards

ASSUME FaultsAssumption == Faults \subseteq FaultKinds

VARIABLES
    session,    \* wa:session:<phone> in Redis
    active,     \* wa:active:<phone> in Redis: the age of its timestamp, 0 when just set
    inService,  \* the rows with is_active = true
    offered,    \* the buttons and list rows that reached each citizen
    screen,     \* the last prompt that reached each citizen
    job         \* what each worker goroutine is doing

redis == <<session, active>>
chat  == <<offered, screen>>
vars  == <<session, active, inService, offered, screen, job>>

-----------------------------------------------------------------------------
(* Data *)

Steps == {"Start", "LangChosen", "WardChosen", "Nagarsevak", "MainMenu"}

Session == [step : Steps,
            lang : Langs \cup {Nil},
            pin  : Pins \cup {Nil},
            ward : Wards \cup {Nil},
            ns   : Reps \cup {Nil}]

ASSUME NilAssumption ==
    /\ Nil \notin Phones \cup Langs \cup Pins \cup Wards \cup Reps \cup Nat
    /\ Nil \notin Session

Fresh == [step |-> "Start", lang |-> Nil, pin |-> Nil, ward |-> Nil, ns |-> Nil]

LangButton(l) == [tag |-> "lang", arg |-> l]
RepRow(r)     == [tag |-> "rep",  arg |-> r]
WardRow(d)    == [tag |-> "ward", arg |-> d]

(***************************************************************************)
(* What a citizen may send. "pin" is a text with six characters before the *)
(* comma or space and something after it, "junk" any other text, "broken"  *)
(* a message of type text without its text object, "other" an image, a     *)
(* sticker and the like, or an interactive message without its reply.      *)
(***************************************************************************)
Replies  == {LangButton(l) : l \in Langs} \cup {RepRow(r) : r \in Reps}
                \cup {WardRow(d) : d \in LegacyWards}
Texts    == [tag : {"reset", "junk", "broken"}, arg : {Nil}]
                \cup [tag : {"pin"}, arg : [pin : Pins, ward : Wards]]
Messages == Replies \cup Texts \cup [tag : {"other"}, arg : {Nil}]

\* A citizen types anything but taps only what is on the screen.
CanSend(p) == Texts \cup [tag : {"other"}, arg : {Nil}]
                  \cup offered[p] \cup {WardRow(d) : d \in LegacyWards}

\* "list" and "listless" are the same text, which asks for a corporator "from the list
\* below": with the list of the ward's representatives, and without any.
Prompts == {"picker", "pin", "invalid", "listless", "list", "menu", "resetAck"}

PCs == {"idle", "touch", "get", "dispatch", "del", "cancel", "lookup", "save",
        "promptNagarsevak", "toWardChosen", "promptWard", "toLangChosen", "pick", "say"}

\* A pending message to the citizen, with the rows it lists and what HandleRaw does next.
Outbound == [prompt : Prompts, rows : SUBSET Reps, then : PCs]

Job == [pc : PCs, phone : Phones \cup {Nil}, msg : Messages \cup {Nil}, sess : Session,
        loc : {"pending", "found", "none"}, wards : (SUBSET Wards) \cup {Nil},
        out : Outbound \cup {Nil}]

Idle == [pc |-> "idle", phone |-> Nil, msg |-> Nil, sess |-> Fresh,
         loc |-> "pending", wards |-> Nil, out |-> Nil]

TypeOK ==
    /\ session \in [Phones -> Session \cup {Nil}]
    /\ active \in [Phones -> Nat \cup {Nil}]
    /\ inService \in SUBSET Reps
    /\ offered \in [Phones -> SUBSET Replies]
    /\ screen \in [Phones -> Prompts \cup {Nil}]
    /\ job \in [Workers -> Job]

Init ==
    /\ session = [p \in Phones |-> Nil]
    /\ active = [p \in Phones |-> Nil]
    /\ inService = Reps
    /\ offered = [p \in Phones |-> {}]
    /\ screen = [p \in Phones |-> Nil]
    /\ job = [w \in Workers |-> Idle]

-----------------------------------------------------------------------------
(* What the program calls *)

\* Whether a fault of kind f happens at this call.
May(f) == IF f \in Faults THEN BOOLEAN ELSE {FALSE}

\* A Redis write is applied and confirmed, fails without effect, or is applied although
\* the caller gets an error (a timeout on the reply).
WriteOutcomes == {"ok"} \cup (IF "redis" \in Faults THEN {"lost", "unsure"} ELSE {})

PutSession(p, value, outcome) ==
    session' = IF outcome = "lost" THEN session ELSE [session EXCEPT ![p] = value]

PutActive(p, value, outcome) ==
    active' = IF outcome = "lost" THEN active ELSE [active EXCEPT ![p] = value]

\* The queries of internal/db, over the rows that are active when the query runs.
LocationByPincode(pin) == \E r \in inService : RepPin[r] = pin

WardsByPincode(pin) == {RepWard[r] : r \in {q \in inService : RepPin[q] = pin}}

NagarsevaksByWard(pin, ward) ==
    {r \in inService : RepPin[r] = pin /\ RepWard[r] = ward}

\* The only query that does not look at is_active.
NagarsevakByID(id) == {r \in Reps : r = id}

-----------------------------------------------------------------------------
(* Control of one worker *)

At(w, pc) == job[w].pc = pc

GoTo(w, pc) == job' = [job EXCEPT ![w].pc = pc]

Return(w) == job' = [job EXCEPT ![w] = Idle]

\* Send `prompt` next, then continue at `then`.
SayThen(w, prompt, rows, then) ==
    job' = [job EXCEPT ![w].pc = "say",
                       ![w].out = [prompt |-> prompt, rows |-> rows, then |-> then]]

Say(w, prompt) == SayThen(w, prompt, {}, "idle")

\* Store the session as `s` next; what the queries of handlePin returned goes out of scope.
SaveNext(w, s) ==
    job' = [job EXCEPT ![w].pc = "save", ![w].sess = s, ![w].loc = "pending", ![w].wards = Nil]

\* No worker is handling a message of citizen p.
Quiet(p) == \A w \in Workers : job[w].phone # p

\* A worker receives a job: a message of some citizen.
Take(w) ==
    /\ At(w, "idle")
    /\ \E p \in Phones : \E m \in CanSend(p) :
          /\ "overlap" \in Faults \/ Quiet(p)
          /\ job' = [job EXCEPT ![w].pc = "touch", ![w].phone = p, ![w].msg = m]
    /\ UNCHANGED <<redis, inService, chat>>

\* Monitor.Touch: the error is logged and otherwise ignored.
Touch(w) ==
    /\ At(w, "touch")
    /\ \E o \in WriteOutcomes : PutActive(job[w].phone, 0, o)
    /\ GoTo(w, "get")
    /\ UNCHANGED <<session, inService, chat>>

\* Faulty variant: a missing session is not replaced by a fresh one.
GetSessionMissing(w) ==
    /\ At(w, "get")
    /\ job' = [job EXCEPT ![w].pc = "dispatch", ![w].sess = session[job[w].phone]]
    /\ UNCHANGED <<redis, inService, chat>>

\* Store.Get: a citizen without a session gets a fresh one, not yet written.
GetSession(w) ==
    /\ At(w, "get")
    /\ LET stored == session[job[w].phone] IN
       \E failed \in May("redis") :
          IF failed THEN Return(w)
          ELSE job' = [job EXCEPT ![w].pc = "dispatch",
                                  ![w].sess = IF stored = Nil THEN Fresh ELSE stored]
    /\ UNCHANGED <<redis, inService, chat>>

\* msg.Text is nil: HandleRaw panics and the worker recovers.
Panic(w) ==
    /\ At(w, "dispatch")
    /\ job[w].msg.tag = "broken"
    /\ Return(w)
    /\ UNCHANGED <<redis, inService, chat>>

-----------------------------------------------------------------------------
(* The reset command *)

ResetCommand(w) ==
    /\ At(w, "dispatch")
    /\ job[w].msg.tag = "reset"
    /\ GoTo(w, "del")
    /\ UNCHANGED <<redis, inService, chat>>

\* Faulty variant: only the activity key is removed.
ResetSessionForgotten(w) ==
    /\ At(w, "del")
    /\ GoTo(w, "cancel")
    /\ UNCHANGED <<redis, inService, chat>>

\* Store.Reset: a failure is logged and the command goes on.
ResetSession(w) ==
    /\ At(w, "del")
    /\ \E o \in WriteOutcomes : PutSession(job[w].phone, Nil, o)
    /\ GoTo(w, "cancel")
    /\ UNCHANGED <<active, inService, chat>>

\* Monitor.Cancel, then the acknowledgement.
CancelActive(w) ==
    /\ At(w, "cancel")
    /\ \E o \in WriteOutcomes : PutActive(job[w].phone, Nil, o)
    /\ Say(w, "resetAck")
    /\ UNCHANGED <<session, inService, chat>>

-----------------------------------------------------------------------------
(* The switch over the step of the session *)

\* The message is handled by the case of the switch for `step`.
Handling(w, step) ==
    /\ At(w, "dispatch")
    /\ job[w].msg.tag \notin {"broken", "reset"}
    /\ job[w].sess.step = step

\* Faulty variant: a PIN code is accepted before a language is chosen.
AtStartTakesPin(w) ==
    /\ Handling(w, "Start")
    /\ IF job[w].msg.tag = "pin" THEN GoTo(w, "lookup") ELSE Say(w, "picker")
    /\ UNCHANGED <<redis, inService, chat>>

AtStart(w) ==
    /\ Handling(w, "Start")
    /\ IF job[w].msg.tag = "lang"
       THEN SaveNext(w, [job[w].sess EXCEPT !.lang = job[w].msg.arg, !.step = "LangChosen"])
       ELSE Say(w, "picker")
    /\ UNCHANGED <<redis, inService, chat>>

\* A well-formed text starts the two queries of handlePin; another is refused.
AtLangChosen(w) ==
    /\ Handling(w, "LangChosen")
    /\ CASE job[w].msg.tag = "pin"  -> GoTo(w, "lookup")
         [] job[w].msg.tag = "junk" -> Say(w, "invalid")
         [] OTHER                   -> Say(w, "pin")
    /\ UNCHANGED <<redis, inService, chat>>

\* handleWardReply takes the ward of the row as it is.
AtWardChosen(w) ==
    /\ Handling(w, "WardChosen")
    /\ IF job[w].msg.tag = "ward"
       THEN SaveNext(w, [job[w].sess EXCEPT !.ward = job[w].msg.arg, !.step = "Nagarsevak"])
       ELSE GoTo(w, "promptWard")
    /\ UNCHANGED <<redis, inService, chat>>

AtNagarsevak(w) ==
    /\ Handling(w, "Nagarsevak")
    /\ GoTo(w, IF job[w].msg.tag = "rep" THEN "pick" ELSE "promptNagarsevak")
    /\ UNCHANGED <<redis, inService, chat>>

\* Faulty variant: a menu of URL buttons expects no reply, so none is answered.
AtMainMenuSilent(w) ==
    /\ Handling(w, "MainMenu")
    /\ Return(w)
    /\ UNCHANGED <<redis, inService, chat>>

\* Whatever is sent here shows the main menu again.
AtMainMenu(w) ==
    /\ Handling(w, "MainMenu")
    /\ Say(w, "menu")
    /\ UNCHANGED <<redis, inService, chat>>

-----------------------------------------------------------------------------
(* handlePin: two goroutines query in parallel, then the ward is matched *)

FetchLocation(w) ==
    /\ At(w, "lookup") /\ job[w].loc = "pending"
    /\ \E failed \in May("db") :
          job' = [job EXCEPT ![w].loc =
                    IF ~failed /\ LocationByPincode(job[w].msg.arg.pin) THEN "found" ELSE "none"]
    /\ UNCHANGED <<redis, inService, chat>>

\* An error and an empty result are treated alike.
FetchWards(w) ==
    /\ At(w, "lookup") /\ job[w].wards = Nil
    /\ \E failed \in May("db") :
          job' = [job EXCEPT ![w].wards =
                    IF failed THEN {} ELSE WardsByPincode(job[w].msg.arg.pin)]
    /\ UNCHANGED <<redis, inService, chat>>

\* The session with the PIN code and the ward that were typed.
Located(sess, typed) ==
    [sess EXCEPT !.pin = typed.pin, !.ward = typed.ward, !.step = "Nagarsevak"]

\* Faulty variant: the location decides alone, the ward is taken as typed.
MatchWardAsTyped(w) ==
    /\ At(w, "lookup") /\ job[w].loc # "pending" /\ job[w].wards # Nil
    /\ IF job[w].loc = "found"
       THEN SaveNext(w, Located(job[w].sess, job[w].msg.arg))
       ELSE Say(w, "invalid")
    /\ UNCHANGED <<redis, inService, chat>>

MatchWard(w) ==
    /\ At(w, "lookup") /\ job[w].loc # "pending" /\ job[w].wards # Nil
    /\ IF job[w].loc = "found" /\ job[w].msg.arg.ward \in job[w].wards
       THEN SaveNext(w, Located(job[w].sess, job[w].msg.arg))
       ELSE Say(w, "invalid")
    /\ UNCHANGED <<redis, inService, chat>>

-----------------------------------------------------------------------------
(* Saving and the prompt that follows *)

AfterSave(w) ==
    CASE job[w].sess.step = "LangChosen" -> Say(w, "pin")
      [] job[w].sess.step = "Nagarsevak" -> GoTo(w, "promptNagarsevak")
      [] job[w].sess.step = "MainMenu"   -> Say(w, "menu")

\* Store.Save writes the whole session; when it fails the handler gives up.
SaveSession(w) ==
    /\ At(w, "save")
    /\ \E o \in WriteOutcomes :
          /\ PutSession(job[w].phone, job[w].sess, o)
          /\ IF o = "ok" THEN AfterSave(w) ELSE Return(w)
    /\ UNCHANGED <<active, inService, chat>>

\* Faulty variant: a sole representative is chosen for the citizen.
PromptNagarsevakSole(w) ==
    /\ At(w, "promptNagarsevak")
    /\ \E r \in NagarsevaksByWard(job[w].sess.pin, job[w].sess.ward) :
          SaveNext(w, [job[w].sess EXCEPT !.ns = r, !.step = "MainMenu"])
    /\ UNCHANGED <<redis, inService, chat>>

\* Without representatives the citizen is told so and goes back to choosing a ward.
PromptNagarsevak(w) ==
    /\ At(w, "promptNagarsevak")
    /\ LET found == NagarsevaksByWard(job[w].sess.pin, job[w].sess.ward) IN
       \E failed \in May("db") :
          CASE failed                    -> Say(w, "invalid")
            [] ~failed /\ found = {}     -> SayThen(w, "invalid", {}, "toWardChosen")
            [] ~failed /\ found # {}     -> SayThen(w, "list", found, "idle")
    /\ UNCHANGED <<redis, inService, chat>>

\* A Save whose error is ignored.
DemoteSession(w, step, pc) ==
    LET demoted == [job[w].sess EXCEPT !.step = step] IN
    /\ \E o \in WriteOutcomes : PutSession(job[w].phone, demoted, o)
    /\ IF pc = "idle" THEN Return(w)
       ELSE job' = [job EXCEPT ![w].pc = pc, ![w].sess = demoted]
    /\ UNCHANGED <<active, inService, chat>>

\* Faulty variant: the fallback leaves the citizen without the next prompt.
ToWardChosenOnly(w) == At(w, "toWardChosen") /\ DemoteSession(w, "WardChosen", "idle")

ToWardChosen(w) == At(w, "toWardChosen") /\ DemoteSession(w, "WardChosen", "promptWard")

\* The wards that were found are not listed.
PromptWard(w) ==
    /\ At(w, "promptWard")
    /\ \E failed \in May("db") :
          CASE failed -> Say(w, "invalid")
            [] ~failed /\ WardsByPincode(job[w].sess.pin) = {} ->
                   SayThen(w, "invalid", {}, "toLangChosen")
            [] ~failed /\ WardsByPincode(job[w].sess.pin) # {} -> Say(w, "listless")
    /\ UNCHANGED <<redis, inService, chat>>

ToLangChosen(w) == At(w, "toLangChosen") /\ DemoteSession(w, "LangChosen", "idle")

\* handleNagarsevakReply: the row is looked up by its id alone.
PickNagarsevak(w) ==
    /\ At(w, "pick")
    /\ \E failed \in May("db") :
          IF failed \/ NagarsevakByID(job[w].msg.arg) = {}
          THEN SayThen(w, "invalid", {}, "promptNagarsevak")
          ELSE SaveNext(w, [job[w].sess EXCEPT !.ns = job[w].msg.arg, !.step = "MainMenu"])
    /\ UNCHANGED <<redis, inService, chat>>

-----------------------------------------------------------------------------
(* Sending to the citizen *)

Buttons(out) ==
    CASE out.prompt = "picker" -> {LangButton(l) : l \in Langs}
      [] out.prompt = "list"   -> {RepRow(r) : r \in out.rows}
      [] OTHER                 -> {}

\* No caller looks at whether the message arrived.
SendPrompt(w) ==
    /\ At(w, "say")
    /\ LET p == job[w].phone
           out == job[w].out IN
       /\ \E failed \in May("wa") :
             IF failed THEN UNCHANGED chat
             ELSE /\ screen' = [screen EXCEPT ![p] = out.prompt]
                  /\ offered' = [offered EXCEPT ![p] = @ \cup Buttons(out)]
       /\ IF out.then = "idle" THEN Return(w)
          ELSE job' = [job EXCEPT ![w].pc = out.then, ![w].out = Nil]
    /\ UNCHANGED <<redis, inService>>

-----------------------------------------------------------------------------
(* The environment *)

\* A key goes: the session's 24-hour TTL, the monitor's DEL, or the active key's TTL.
Evict(p) ==
    /\ "evict" \in Faults
    /\ \/ session' = [session EXCEPT ![p] = Nil] /\ UNCHANGED active
       \/ active' = [active EXCEPT ![p] = Nil] /\ UNCHANGED session
    /\ UNCHANGED <<inService, chat, job>>

\* The administration activates or deactivates a representative.
ChangeRoster(r) ==
    /\ "roster" \in Faults
    /\ inService' = IF r \in inService THEN inService \ {r} ELSE inService \cup {r}
    /\ UNCHANGED <<redis, chat, job>>

\* The process dies: every job is gone, Redis and the chats stay.
Crash ==
    /\ "crash" \in Faults
    /\ job' = [w \in Workers |-> Idle]
    /\ UNCHANGED <<redis, inService, chat>>

-----------------------------------------------------------------------------

\* One step of HandleRaw.
Step(w) ==
    \/ Touch(w) \/ GetSession(w) \/ Panic(w)
    \/ ResetCommand(w) \/ ResetSession(w) \/ CancelActive(w)
    \/ AtStart(w) \/ AtLangChosen(w) \/ AtWardChosen(w) \/ AtNagarsevak(w) \/ AtMainMenu(w)
    \/ FetchLocation(w) \/ FetchWards(w) \/ MatchWard(w)
    \/ SaveSession(w) \/ PromptNagarsevak(w) \/ ToWardChosen(w)
    \/ PromptWard(w) \/ ToLangChosen(w) \/ PickNagarsevak(w)
    \/ SendPrompt(w)

Environment ==
    \/ \E p \in Phones : Evict(p)
    \/ \E r \in Reps : ChangeRoster(r)
    \/ Crash

Next ==
    \/ \E w \in Workers : Take(w)
    \/ \E w \in Workers : Step(w)
    \/ Environment

Spec == Init /\ [][Next]_vars

\* The Go scheduler runs every ready goroutine, and every call a worker makes ends, at
\* the latest with the job's context after 12 seconds. Citizens owe nothing.
FairSpec == Spec /\ \A w \in Workers : WF_vars(Step(w))

-----------------------------------------------------------------------------
(* Properties that hold however many workers run and whatever goes wrong *)

\* The ward belongs to the PIN code, or was tapped on a row of an older deployment.
Known(pin, ward) ==
    \E r \in Reps : RepPin[r] = pin /\ (RepWard[r] = ward \/ ward \in LegacyWards)

Coherent(s) ==
    /\ s.step # "Start" => s.lang # Nil
    /\ s.step \in {"WardChosen", "Nagarsevak", "MainMenu"} => Known(s.pin, s.ward)
    /\ s.step = "MainMenu" => s.ns # Nil

(***************************************************************************)
(* A stored session holds everything its step needs (a language, a ward of *)
(* its PIN code, a corporator), although racing workers overwrite each     *)
(* other's sessions, writes fail and rows come and go: Save writes the     *)
(* whole session (store.go) and each handler fills the fields of its step  *)
(* before it changes the step (handler.go).                                *)
(***************************************************************************)
SessionCoherent ==
    \A p \in Phones : session[p] # Nil => session[p].step # "Start" /\ Coherent(session[p])

\* The choices recorded in session s are among the buttons and rows `shown`.
ChosenFrom(s, shown) ==
    /\ s.lang # Nil => LangButton(s.lang) \in shown
    /\ s.ns # Nil => RepRow(s.ns) \in shown

(***************************************************************************)
(* No stage of the onboarding is skipped: the language and the corporator  *)
(* of a stored session were offered to that citizen by the language picker *)
(* and by a corporator list, so a citizen at the main menu has been        *)
(* through both, under every interleaving, lost message and restart.       *)
(***************************************************************************)
EveryChoiceWasOffered == \A p \in Phones : session[p] # Nil => ChosenFrom(session[p], offered[p])

-----------------------------------------------------------------------------
(* Properties that need one message of a citizen to be handled at a time *)

(***************************************************************************)
(* README: typing reset at any point clears the session and restarts the   *)
(* flow. A session that was cleared comes back at the first step only,     *)
(* with the choice of a language; it is never resurrected further on.      *)
(***************************************************************************)
RestartsFromLanguage ==
    [][\A p \in Phones :
          session[p] = Nil /\ session'[p] # Nil => session'[p].step = "LangChosen"]_vars

(***************************************************************************)
(* Every stored session has its wa:active key, without which the           *)
(* inactivity monitor never finds it: HandleRaw touches before it saves,   *)
(* and reset removes the session before the key.                           *)
(***************************************************************************)
EverySessionWatched == \A p \in Phones : session[p] # Nil => active[p] # Nil

\* The prompts that ask for what the step of the stored session waits for; but at WardChosen,
\* where only a ward_ row is taken, promptWard asks for a corporator and lists nothing.
PromptsFor(s) ==
    IF s = Nil THEN {Nil, "picker", "resetAck"}
    ELSE CASE s.step = "LangChosen" -> {"pin", "invalid"}
           [] s.step = "WardChosen" -> {"listless"}
           [] s.step = "Nagarsevak" -> {"list"}
           [] s.step = "MainMenu"   -> {"menu"}

(***************************************************************************)
(* Between two messages the citizen looks at a prompt that asks for what   *)
(* the bot waits for: every path of handler.go that changes the step ends  *)
(* with the right prompt, also when a ward lost its representatives in the *)
(* middle of it. Except at WardChosen, where he is asked for a choice from *)
(* a list that is not there: that prompt is shown at this step, always,    *)
(* and never at another, where it would strand him too.                    *)
(***************************************************************************)
ScreenMatchesSession == \A p \in Phones : Quiet(p) => screen[p] \in PromptsFor(session[p])

(***************************************************************************)
(* Every message with a readable body is answered: no path through the     *)
(* handler returns in silence when nothing fails.                          *)
(***************************************************************************)
EveryMessageAnswered ==
    \A w \in Workers :
       (At(w, "touch") /\ job[w].msg.tag # "broken") ~> At(w, "say")

(***************************************************************************)
(* The refinement: what handler.go stores, write by write, is a walk       *)
(* through the onboarding flow. It holds as long as the messages of one    *)
(* citizen are handled one at a time and no session vanishes under a       *)
(* handler, with whatever failures of Redis, database, delivery, process.  *)
(***************************************************************************)
Flow == INSTANCE Onboarding
FlowSpec == Flow!Spec

=============================================================================
