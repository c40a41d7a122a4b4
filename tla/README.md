# A TLA+ model of the Ataljanseva WhatsApp bot

The bot walks a citizen through an onboarding: a language, a PIN code with a
ward, a corporator (nagarsevak), then a main menu of links. Meta posts the
citizen's messages to a webhook; a pool of goroutines handles them; the state
of each conversation is one JSON value in Redis; a background goroutine deletes
the conversations of citizens who fall silent. The directory of representatives
is a PostgreSQL table that the bot only reads.

All paths below are relative to `src/`.

## Inventory

| Component | Code | State it keeps | Operations |
|---|---|---|---|
| Webhook endpoint | `cmd/server/webhook.go`, `internal/whatsapp/payload.go` | none beyond the open request | `verify`, `receive` (200, read, parse, enqueue one by one) |
| Worker pool | `internal/worker/pool.go` | the buffered channel, the goroutines | `Start`, `Enqueue` (drops when full), `run` (receive, handle, recover) |
| Bot handlers | `internal/bot/handler.go` | none of their own: a copy of the session per job | `HandleRaw`, and one handler and one prompt per step |
| Session store | `internal/store/store.go` | `wa:session:<phone>`, 24 h TTL | `Get`, `Save`, `Reset` |
| Inactivity monitor | `internal/inactivity/monitor.go` | `wa:active:<phone>`, 120 s TTL | `Touch`, `Cancel`, `scan`, `checkKey` |
| Representative directory | `internal/db/repo.go` | none (reads `political_users`) | four queries |
| WhatsApp client | `internal/whatsapp/client.go` | none | sends, each with up to three attempts |
| Process | `cmd/server/main.go` | the context cancelled by a signal | start-up, `srv.Shutdown`, exit |
| Configuration | `config/config.go` | constants | `Load` |
| Texts | `internal/bot/i18n.go` | constants | lookup |

They interact in this way. `receive` calls `Pool.Enqueue` for every message of
a payload. A worker calls `HandleRaw`, which calls `Monitor.Touch`, `Store.Get`,
then by the step of the session the directory, `Store.Save` and the WhatsApp
client. The monitor shares the two Redis keys with the handlers and nothing
else: no lock, transaction or version connects them. Neither does anything
connect two workers on messages of the same citizen.

What is hard here, and which property watches it (`PROJECT.json` has the full
list, with lines):

* messages of one citizen handled by two workers at once, one of them from a
  stale copy of the session: `SessionCoherent`, `EveryChoiceWasOffered`,
  `RestartsFromLanguage`;
* Redis, database and delivery failing one by one, and the process dying,
  between any two calls of a handler: `FlowSpec`, `SessionCoherent`;
* representatives that come and go between two queries of the same handler:
  `ScreenMatchesSession`;
* the monitor's read-then-delete, its TTL, and a process that dies or is shut
  down between two of its calls: `OnlyIdleCleared`, `ClearedInTime`, `EverySessionWatched`,
  `FiresOnce`, `FireMeansCleared`;
* the monitor and the handlers on the same keys, with only timing between them:
  `MonitorSpec`, `FlowUnbroken`;
* retries, late and lost answers, substitutes and the deadline of a job:
  `DeliverySpec`, `EachSendTried`, `NeverOverruns`, `JobEnds`;
* what a citizen types and sees of it again: `DocumentedFormsAreRead`,
  `EchoReadsBack`;
* a queue at its limit, panics, repeated deliveries and a shutdown with work
  left: `KeptInOrder`, `StartedOncePerPost`, `AcceptedIsStarted`,
  `DrainedAtExit`.

## Modules

| Module | What it is |
|---|---|
| `Conversation` | the handlers, the session store and the directory, seen from the workers |
| `Onboarding` | the abstract flow: what may happen to one citizen's stored session |
| `ConversationProofs` | theorems of `Conversation` for all constants |
| `FlowProofs` | the theorem that `Conversation` implements `Onboarding` |
| `AnswerProofs` | theorems of `Conversation` about what the citizen sees and what the monitor watches |
| `Inactivity` | the monitor, next to handlers that write its keys, with time |
| `InactivityProofs` | theorems of `Inactivity` |
| `WorkerPool` | webhook, channel, workers, shutdown |
| `PoolProofs` | theorems of `WorkerPool` |
| `System` | the composition of `Conversation` and `Inactivity`: handlers and monitor over the same Redis keys |
| `SystemProofs` | theorems of `System`: its halves fit, so the theorems about them hold of the whole |
| `Outbound` | the sends of one job: `Client.post` with attempts, pauses and the deadline |
| `Delivery` | the abstract specification of `Outbound`: what the citizen is shown |
| `OutboundProofs` | theorems of `Outbound`, and that it implements `Delivery` |
| `UserInput` | how a typed PIN code and ward are read |
| `UserInputProofs` | theorems of `UserInput`, for texts of any length |
| `MCConversation`, `MCInactivity`, `MCWorkerPool`, `MCSystem`, `MCOutbound`, `MCUserInput` | the values of the constants for TLC |

A definition whose comment begins "Faulty variant" is not part of a
specification: it is a plausible mistake in the definition that follows it,
kept to show that the property next to it would notice.

### Conversation

A worker is a record `job[w]`: where it is in the code (`pc`), the citizen, the
message, its copy of the session (`sess`), what the two goroutines of
`handlePin` have returned (`loc`, `wards`) and the message it is about to send
(`out`). Every call that leaves the process is a step of its own: `Touch`,
`GetSession`, `ResetSession`, `CancelActive`, `FetchLocation`, `FetchWards`,
`SaveSession`, `PromptNagarsevak`, `PromptWard`, `PickNagarsevak`, the two
fallbacks `ToWardChosen` and `ToLangChosen`, `SendPrompt`. The decisions
between them (`AtStart`, `AtLangChosen`, ..., `MatchWard`) are the cases of the
switch in `HandleRaw` and the early returns of `handlePin`.

`session` and `active` are the two Redis keys of each citizen. A Redis write
has three outcomes: applied, failed without effect, or applied although the
caller gets an error. `inService` is the set of rows with `is_active = true`;
queries read it at the moment they run. `offered` and `screen` are the
citizen's side: the buttons and rows that ever reached him, which he may tap at
any later time, and the last prompt.

Abstracted: a text is `pin` (well-formed, with a PIN code and a ward), `junk`
(any other text), `reset` or `broken` (type text without a text object, on
which `HandleRaw` panics). A main menu is one message, although it is sent as
four; a row of the table has one PIN code and one ward, in one script. The
query that `sendMainMenu` makes for the photograph changes wording only and is
left out. Rows of the form `ward_...` are no longer sent by this code, but
`handleWardReply` still accepts them; `LegacyWards` are the wards of such rows
that citizens have kept from an older deployment. The two texts that ask for a
corporator have a tag each: `list` is the one with rows, `listless` the one of
`promptWard`, which reads the same ("from the list below") and attaches no list.

`Faults` selects what may go wrong in a run; the comment at `FaultKinds` says
what each kind means. A proof that needs one of them absent says so in its
ASSUME.

### Inactivity

Time passes in `Tick`s of ten seconds; a stored timestamp is represented by its
age. `StartScan`, `CheckKey`, `DelActive`, `DelSession`, `Fire` and `EndScan`
are the monitor goroutine, one Redis call each. `Touch`, `Save`, `Reset` and `Cancel`
are the handler's writes to the same keys, and `Answer` is its end. `Punctual` bounds what the
scheduler may delay: a scan starts when its ticker fires and ends within `Lag`,
a handler ends with its 12-second context (`JobTime`, two units, rounded up).
Without such a bound no timing property holds of any program. `silence` is
history: the time since the citizen's last message was taken up, counted up to
`Horizon`. `fired` counts callbacks since then.

`phase` is the process. A `Signal` cancels the context of the monitor and not
those of the handlers: while the process is `"draining"`, handlers run on, no
scan begins, and what the monitor was in the middle of goes on with every Redis
call failing (`Fails`), up to and including the callback. `Exit`, when
`srv.Shutdown` has returned, or a `Crash` ends all goroutines wherever they are.
No time bound is put on the draining. `cut` is history: the citizens in the
middle of whose timeout a signal came, until their next message.

### WorkerPool

`request[b]` is the POST of payload `b`: read, enqueue message by message,
respond. The 200 is the first line of `receive`, but `net/http` sends it when
the handler returns; so a process that dies in between has accepted messages
that Meta will post again. `HandOver`, `Buffer` and `Drop` are the three ways a
Go `select` with a default can go, `Receive` and `Park` the two ways of a
receive. `accepted` and `started` are histories of the running process, `runs`
one over all restarts. `Exit` is `main` returning after `srv.Shutdown`: it
waits for requests, not for the queue.

### System

`main.go` gives handlers and monitor the same Redis client. `Inactivity`
replaces the handlers by four writes and an end, `Conversation` the monitor by
the fault `evict`. `System` has both: it extends `Conversation` and adds the
monitor's state and that of the process. A step of a worker is the action of
`Conversation` with the monitor standing still, a step of the monitor is the
action of `Inactivity`, and `BeginHandling` (the handler's `Touch`), `TimeOut`,
`Tick` and `ProcessEnds` concern both. `Signal` stops the monitor's Redis calls only. Two refinements say that the halves were cut in the right place:

* `MonitorSpec == M!Spec`, with `sessions <- Stored` and `handler <- Doing`:
  every path of the handlers is one that `Inactivity` allows. `Stored` is the
  set of citizens with a session; `Doing(p)` is derived from the program
  counters of the workers on `p`: nothing before `Touch`, `"cancel"` between the
  two deletions of a reset, else `"store"`.
* `FlowUnbroken == FlowSpec`: with the real monitor in place of `evict`, and one
  message of a citizen at a time, the sessions are a walk through `Onboarding`.
  This is the assumption of `FlowProofs` that no session vanishes under a
  handler, here a consequence of the times: a job lives for 12 s, and only a
  session whose timestamp is 90 s old is deleted.

### Outbound and Delivery

`plan` is the sequence of messages that one path of a handler sends: a prompt
alone, the image with its substitute text, a refusal and the prompt of another
step, two refusals and such a prompt (where the fallback of
`handleNagarsevakReply` runs into that of `promptNagarsevak`), or a main menu with or without photo and one message per button. `alts`
are the messages sent only if the one before failed, `calls` those before which
the handler queries or stores. `Accepted`, `Refused`
(4xx, not repeated), `Failed` (5xx, connection, timeout) and `NotSent` (the
context has expired) are the ways a request ends; `Pause` is the `select` with
the backoff. A failed request may have been shown, may be lost, or may be shown
later (`limbo`, `Late`). The clock runs within a request, a pause, and, between
two messages of such a path, in the calls to Redis and the database (`CallElsewhere`).

`Delivery` hides attempts, pauses, clock and late requests
(`INSTANCE Delivery WITH MaxCopies <- MaxRetries`) and says what remains for
the citizen: messages in order, at most three copies of each, a confirmed one
present, a substitute never begun after a confirmation. In `Conversation` a
prompt is one step that arrives or not. The duplicates that `Outbound` adds
show the citizen nothing he was not offered before; a late one can put an older
prompt under a newer one, which `Conversation` covers as a tap on an old row.

### UserInput

`ParseUserInput`, `NormalizePin` and the two length checks at the top of
`handlePin`, over all short texts. `Gives` and `GivesPin` are the reference: the
forms in the comment at `parseUserInput`, the PIN code alone among them, stated
by positions and not by splitting. `Refusals` are the calls of
`formatInvalidPinMessage` that an input can lead to, and `Echo` what each shows:
`handlePin` the raw text or the normalized PIN code and the ward as typed,
`promptNagarsevak` and `handleNagarsevakReply` the PIN code and the ward code
of the session (one of `Codes`: of the directory, or of an old ward row),
`promptWard` the PIN code alone. `SendEcho` is a citizen who sends that back.
`EchoReadsBack` is about how `handlePin` reads it, whether or not the step he is
at still reads a PIN code.
`Conversation` takes the result as the tags `pin` and `junk`.

## Runs

| Run | Question | Instance |
|---|---|---|
| `conv_patient` | Does the prompt on the screen fit the stored step, is every session watched, every message answered, for a citizen who waits for each answer? | 1 citizen, 2 workers, 2 languages, 2 PIN codes, 2 wards, 2 rows that come and go |
| `conv_serial` | Do the handlers implement `Onboarding`, and does a cleared session restart at the language, with failures and crashes anywhere? | 1 citizen, 1 worker, 2 languages, 2 PIN codes with a ward and a row each; faults redis, db, wa, roster, crash |
| `conv_racing` | Are stored sessions coherent, and is no stage skipped, when two workers race and everything fails? | 1 citizen, 2 workers, 1 row, 2 wards, all faults |
| `monitor_patient` | Is every session watched, and cleared in time? | 2 citizens, the program's own times |
| `monitor_crashing` | Are only silent citizens' sessions deleted, once each, and before the callback, across crashes and shutdowns? | the same, with crashes and signals |
| `pool` | Does the channel keep what it accepts in order, with no double start, and every message taken up? | 2 payloads of 2 and 1 messages, posted up to twice, 2 workers, depth 2, all faults |
| `system` | Do the handlers keep to what the monitor's model assumes, and does the monitor leave conversations whole? | 1 citizen, 1 worker, 1 language, 1 row, 2 wards, short times; faults db, wa, roster, crash, signal |
| `outbound` | Does a job end with its deadline, does a failing send cost itself only, and is the citizen shown what `Delivery` promises? | six plans begun at any time, 3 attempts, units of two seconds |
| `input` | Are the documented forms read as such, and what a refusal shows as what was refused? | all texts of up to 6 characters, two ward codes |
| `conv_reset_race` | Violation: a reset that a racing handler undoes | 2 workers, fault overlap |
| `monitor_race` | Violation: the session of a citizen who is writing is deleted | fault race |
| `pool_drain` | Violation: a clean stop abandons messages that were acknowledged | no fault |

**Bounds.** Citizens share nothing in `Conversation` but the directory, so one
citizen with two workers shows all interference of two handlers; the proofs
cover any number. In `conv_patient` two wards of one PIN code, one representative each,
and a second PIN code that nobody serves make every query succeed and come back
empty; in `conv_serial` each PIN code has one of the wards, so that a citizen
can type a pair that does not match; in `conv_racing` the typed ward may still
be one that no row has. `Inactivity` is run with the real ratios of its
times; two citizens make a scan look at one while the other one writes, and
`Horizon` lies beyond the largest deadline. In `WorkerPool` a queue of two, two
workers and two payloads posted twice fill the queue, hand messages over and
drop them, and two panicking copies of one message occupy both workers;
`MaxPosts` bounds the retries of Meta.

`system` has one worker, as more would be idle without `overlap`, and short
times in the order of the program's: `Timeout` 3 > `JobTime` 2, `TTL` 6 >=
`Timeout + ScanInterval + Lag` with room for one more, so that a job can end
just before the timeout and a scan fall anywhere in it. `outbound` counts in
units of two seconds: a deadline of 6, a request of up to 8 (the client's own
15 s limit is longer than the deadline, so the context always wins) and pauses
of 1, all rounded up; a job may start to send at any time, also when its
context has expired. Two of the three buttons are enough for one to fail before,
and one after, another. In `input` a PIN code has two characters and an alphabet
of one digit in both scripts, a letter, the comma, a space and a line break: six
characters hold the longest documented form with two blanks too many. Of the two
ward codes one has a comma.

**Fairness.** `conv_patient` and `pool` assume weak fairness of each worker:
the Go scheduler runs every goroutine that is ready, and every call a handler
makes ends, at the latest with the 12-second context of its job. Nothing is
assumed of citizens, of Meta, of administrators, or of failures. That a job
ends is not only assumed: `JobEnds` in `outbound` shows it of its sends, from
the fairness of `Post` alone, which is that a goroutine goes on when its request
has ended or its timer has run out; no answer of Meta is assumed. `system`
checks safety and assumes nothing.

**Deadlock** is checked in every run but two: in `outbound` the job, in `input`
the reading ends.

## What the runs found

* A reset can be undone by a handler that read the session before it
  (`conv_reset_race`); the README promises that `reset` clears the session at
  any point.
* The monitor can delete the session of a citizen who has just written
  (`monitor_race`): `checkKey` reads and deletes in separate calls.
* "draining…" in `main.go` does not drain the queue (`pool_drain`).

More divergences were met while modelling. No run is about them, and no
property claims the contrary:

* A reset is acknowledged although Redis refused it: `HandleRaw` ignores the
  error of `Reset`.
* When the query for representatives fails, the citizen is asked to type the
  PIN code again at a step that reads none. He is answered with the list once
  the database is back.
* When a ward has lost its representatives the citizen is at `WardChosen` and is
  asked to choose a corporator from a list that is not attached
  (`internal/bot/handler.go:312`), while only a ward row is understood.
  `README.md:18` promises a list of wards there. `ScreenMatchesSession` says that
  this prompt and this step belong together, not that it can be answered.
* `README.md:15-22` still describes a PIN code and then a ward as two steps; the
  code takes both in one message and has the ward step for the fallback only.
* A shutdown in the middle of a timeout: both deletions fail with the cancelled
  context, the callback runs all the same with the session in place, contrary to
  `cmd/server/main.go:88` ("Session has already been cleared by the monitor"),
  and the next process finds the key and calls back again, contrary to
  `internal/inactivity/monitor.go:152` ("so we don't double-fire"). The callback
  is empty today. `FiresOnce` and `FireMeansCleared` except such a citizen, by
  name (`cut`), and nobody else.
* The refusals of `promptWard` ("Please re-enter", `handler.go:288` and `:293`)
  show the PIN code alone; sent again as shown, it is refused for want of a ward.

## What is proved

`tlapm` checks every theorem for all values of the constants that satisfy the
named assumptions of the modules.

**ConversationProofs.** `TypeCorrect`, `SessionsStayCoherent`,
`ChoicesWereOffered`: no assumption on faults or on the number of workers.
Neither property is inductive on the stored sessions alone, because a session
is stored from a worker's copy, read long before. The inductive invariant
`IInv` says the same of the copy in every job (a copy keeps satisfying it while
others write, since it speaks only of the directory and of what was ever
offered, which grows), of the message a worker holds (it was offered when it was
taken up), and of the wards a query returned. From it `Save` is safe whenever
it happens; that is why racing handlers can lose updates but not make a session
that lacks what its step needs.

**FlowProofs.** `ImplementsFlow` and `ResetRestarts` assume `Serial`: messages
of one citizen are handled one at a time and no session vanishes under a
handler. The invariant says that the copy of the worker that handles a citizen
is the stored session, or differs from it by exactly the change the next write
makes. A fallback that was not stored is the one delicate case: the abstract
flow lets `PinWithdrawn` start from two steps. Both theorems fail without
`Serial`, as `conv_reset_race` shows.

**AnswerProofs.** `SessionsAreWatched` assumes that Redis neither fails nor
drops a key, and that messages of one citizen do not overlap; the database and
the delivery may fail and the process may die anywhere.
`WatchInv` follows the pairs of calls whose order decides it: a handler that may
still store has left the key in `Touch`, and between the two deletions of a reset
the session is gone already. `ScreenAlwaysMatches` is about a citizen who waits for each
answer while nothing fails, and an administrator who may do as he likes. Its
invariant, `ScreenInv`, says what the message a worker is about to send has to
do with the session it has just stored: the two agree before the send, or the
fallback that will make them agree is still ahead. It stands on the invariants of
`ConversationProofs` and `FlowProofs`.

**InactivityProofs.** `MonitorTypeCorrect` holds under all faults. `IdleOnly`
assumes that no message arrives in the middle of a timeout, and allows failing
Redis calls and crashes: what `CheckKey` read stays true until `DelSession`
because silence only grows. `WatchedAlways` and
`ClearedInTimeAlways` assume that nothing fails, that a scan takes no longer
than its interval, and `Timeout + ScanInterval + Lag <= TTL` (90 + 10 + 10 <=
120 in the program). The invariant `AgesBounded` says how old a key can be
before and after the current scan has looked at it. `FiresOnceAlways` and
`ClearedBeforeFire` allow crashes but neither Redis failures (a key that was not
deleted is found by the next scan, and its citizen called back again) nor the
race (a handler can store a session before the callback runs). Their invariant `OnceInv` is
the order of the three calls: a citizen who has been called back has no key from
which a scan could find him again, and the callback comes when key and session
are gone. It speaks of the citizens outside `cut`; that a signal puts the one
who is being timed out into `cut`, and that nobody else's deletions can fail, is
part of the proof.

**PoolProofs.** `AlwaysInOrder`, for every depth, also 0, every number of
workers, also 0, and every load. The order alone is not inductive: a message may
be handed to a parked worker without overtaking one only because a parked worker
implies an empty queue, which the invariant `PoolInv` therefore says too. (That
is Go's channel at work, not a promise of `pool.go`, so no run is about it.) `StartedOncePerPostAlways` counts: a
message in the queue or at a parked worker is one that was accepted and not
started, and a payload enqueues a message once per post. It assumes that Meta puts
a message into one payload only, and once.

**OutboundProofs.** No assumption but the one on the number of attempts. The
invariant keeps accounts: the attempts made of the current send account for the
requests, and the requests for the copies that the citizen has or may still get.
From the accounts it follows that no job sends after its deadline, that a send which
fails takes nothing from those after it, and that every step is one of
`Delivery` or a stutter: of `Late`, because a copy out of `limbo` was counted
when its request was made.

**UserInputProofs.** For texts of any length, and PIN codes of any length: every
form the comment at `parseUserInput` lists is read as it says, and what a
refusal shows is read as what was refused. Of a ward code it is assumed
(`CodesAssumption`) that it is not empty and has no blanks around it, of a
PIN code in the directory (`Plain`) that it is one word. The reading is a matter of where the first
separator is; induction over a text is not available, so the lemma `Least`
provides the first position instead (a nonempty set of naturals has a minimum,
from the library's well-foundedness of strict inclusion on finite sets). From
there on the lemmas follow the code: what `Trim` leaves, where a split falls,
that trimming twice is trimming once.

**SystemProofs.** `SystemTypeCorrect` and `SessionsStaySound` assume nothing: the
monitor can take a session away at the worst moment and leave none that is
incoherent. `HandlersFitMonitor`, the
refinement `MonitorSpec`, assumes that Redis answers the handlers and that messages of
one citizen do not overlap (`Orderly`); messages may race with the monitor. Its
invariant `WiredInv` needs little of the handlers: one job per citizen, none in a
process that does not run, and a reset that stays on its path to the
acknowledgement. `HandlerMoves` then says of every step of every handler which of
the monitor's handler actions it is. `ConversationsStayWhole`, the refinement
`FlowUnbroken`, joins the invariants of `FlowProofs` and `InactivityProofs`
(`ClockInv`), shutdowns included. The link is a matter of time: a handler that may still store is younger than `JobTime`, a citizen
whom the monitor is timing out has been silent for `Timeout`, so no job holds a
copy of a session that is deleted under it. Here `"race"` is excluded. From
the same invariant follows `ClearedRestarts`. Through
`HandlersFitMonitor` the theorems about `Inactivity` become theorems about the
program with its real handlers: `OnlySilentAreTimedOut` and `SilentAreTimedOut`.

Only model-checked: `EveryMessageAnswered`, `AcceptedIsStarted` and `JobEnds`, as
liveness under fairness is beyond the prover. Every other property of a passing run
is a theorem, for every value of the constants and under assumptions on the faults
that are at least as weak as the run's.

## What is not modelled

* **Start-up** in `main.go`: a sequence of calls, each of which ends the process
  when it fails, before the first request is accepted. Its end, after the
  signal, is in `WorkerPool`, `Inactivity` and `System`; the 15 s after which `srv.Shutdown` gives up are
  longer than any request can last and are left out.
* **Configuration, texts, health endpoint, static files, the GET verification,
  the container image**: constants and stateless answers.
* **The wording and the JSON of messages**, and the columns of the table that
  only fill them, NULL or not.
* **A citizen with the same ward code in two spellings.**
* **The pool together with the conversation.** `Conversation` lets any citizen's
  message be taken up by any worker at any time, in any order and any number of
  times (`overlap`), which is all that the pool can do to it.
* **Overlapping jobs next to the monitor.** `Inactivity` knows one handler per
  citizen. With two, and with the fault `race`, a session can be stored whose
  activity key the monitor has just deleted; it lives until the citizen's next
  message or for its 24 hours.

## Plan

What bounds the liveness run of `Outbound`, as safety: a measure that every step
of a job lowers or that time lowers for it, so that `JobEnds` needs no more than the
fairness of `Post`.
