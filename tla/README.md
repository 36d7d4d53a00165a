# Diya: a verification development

Diya is a personal assistant for one person: a Python program that talks to a local model, keeps what it knows in one
SQLite file, and may act on the person's accounts when the person approves. The repository also holds the agent
runtime Diya is to run on, a copy of DeepSeek's harness in TypeScript (`harness/`, docs/DSH_PLAN.md). This directory
holds TLA+ models of the parts of both that are hard to test, the TLC configurations that check them on small
instances, and theorems about them that TLAPS checks for every size.

Words and layouts of the chat are not modelled. What is modelled is who may change which row when, what
was read before and is stale by then, what a crash leaves behind, and what must happen in the end.

1. The system
2. Inventory of components
3. Modules, and how they correspond to the code
4. Runs: what each checks and shows, and its bounds
5. Fairness
6. Proofs
7. Where the code and its documentation differ
8. Mutants
9. What is only model-checked, and what is not modelled
10. Plan

## 1. The system

All state that outlives a process is in the SQLite file (`diya_db.Store`; each call opens and closes its own
connection) and a few small files next to it. These processes share it:

* the **web service** (`diya_web.py`), whose requests run in threads, with the chat agent (`diya.py`),
* the **command line** (`diya_actions_cli.py`, `diya_chat.py`),
* the **notifier** (`diya_notify.py`), started every five minutes by the system's scheduler,
* **Dreaming** (`dreaming.py`), started every half hour,
* the **Telegram bridge** (`diya_telegram.py`), the **MCP server** (`diya_mcp.py`) and the **launcher**
  (`diya_run.py`) that restarts the others.

They talk through rows. The stores for actions, memory and the schedule write inside `BEGIN IMMEDIATE`, so a
write is one atomic step; most other writers use one statement per transaction. Whatever is read before a
write transaction begins may be stale inside it, any process can die between two calls, and a person presses
buttons on pages that are out of date. That is what the models are about.

## 2. Inventory of components

| Component | State | Operations | Hard behaviour | Correct when |
|---|---|---|---|---|
| **Approval gate** `diya_actions.py`, `diya_autoapprove.py`, `diya_pause.py`, the button, the command line | `actions` rows: status, arguments, their hash, expiry, who approved; the pause and the "do straight away" switches | propose, approve, reject, run, resolve, expire, reconcile; pause, resume | two flows run one action; a crash between the call and its record; a slow run called cut off; a stale page | an action is done at most once, as shown, approved, on a look at the clock from before its day was over; decisions stand |
| **Saga** `diya_saga.py` | the steps done, in memory | run, roll back | an undo that fails | what was done is undone or reported |
| **Repeating reminders** `diya_schedule.py`, `diya_repeat.py` | `reminder_series`, `reminders`, `schedule_events` | create, pause, resume, skip, stop, materialize; add, complete, snooze | two lookers, a machine asleep for a week, a busy database, a button whose clock is old when it writes | one reminder per fall, one open per series, every fall answered for |
| **Notifier** `diya_notify.py`, `diya_events.py` | `reminders.notified_at`, what a pass has read | run_once | a pass that dies between showing and recording; a notification that fails after it came on the screen; a reminder pushed back meanwhile; a flood | told, never zero times and never early, twice only after such a mishap, never a flood |
| **Dreaming** `dreaming.py`, the reader in `diya_web.py` | `messages`, `capture_queue`, `memory_captures`, `dream_state.json`, `dream_pending.jsonl` | a pass; capture of one message; the lock of the reader | crash between record and checkpoint; a batch that is no longer the one staged; two readers at the lock | nothing the person said is skipped, no batch is staged twice, the queue tells the truth |
| **Automations** `diya_automations.py` | `automations` rows, their next time | create, claim, run, pause | minutes between the claim and the answer, the owner's buttons meanwhile; neither the claim nor a resume is conditional | each fall runs at most once, and who is due has a turn |
| **Writing first** `diya_proactive.py` | the keys of what was said, what was seen | plan, post, show, mark | a message first and its key after; a shown message first and its mark after | each thing is said once, never more than the day's cap |
| **Web Push** `diya_push.py` | subscriptions, deliveries, failures | deliver, subscribe | accepted and not recorded; rate; gone | told once, within the rate |
| **Memory of facts** `diya_memory*.py`, `diya_forget.py`, `diya_fade.py`, `diya_review.py` | facts with their status, links and events; the staged file | ingest, accept, reject, reword, supersede, undo, fade, forget | two ingests at once, a look before a transaction, forgetting while the file is written | a line is one fact; what is known is said once and fits; the file tells the truth |
| **Autonomy lanes** `diya_autonomy.py`, `diya_checks.py` | none of their own | the lane of a fact | a model's answer as a guard | only harmless facts are kept unasked |
| **Questions** `diya_questions.py` | open questions | refill, answer, dismiss | two refills at once | at most three open, two new a day |
| **Store and migrations** `diya_db.py` | the file, its version | migrate, messages, threads | two processes on an old file | each migration once |
| **Telegram bridge** `diya_telegram.py` | offset, pairing | poll, handle, pair | offset saved before handling | at most once, by the paired person |
| **Launcher** `diya_run.py` | children, failures, stop files | start, restart, stop | quick failures | restarted, not in a tight loop |
| **Backup and data move** `diya_backup.py`, `diya_data.py` | copies | copy, verify, switch | crash inside a move | one whole copy at all times |
| **Harness: agent loop** `agent-loop/src/agent.ts`, `inbox.ts`, `index.ts` | the phase of the driver (idle, maintenance, running), its abort and its latched wake; the inbox, a fold of the log | followup, steer, inject, remove, cancel, maintenance, teardown, resume; turns and steps | a message or a cancel at any await; a wake that meets an abort; teardown while tools run | no message is lost or used twice, no waking sender is left waiting, an abort admits nothing more, everything cancelled ends |
| **Harness: tool-call scheduling** `agent-loop/src/tool-calls.ts`, `core/tools` | slots, the pool, what was committed | start, prepare, dispatch, commit, drain | bodies that settle in any order, a call reclassified while the pool runs, a failure of the scheduler itself | bounded, exclusive calls alone, every call answered once, in order, truly |
| **Harness: session log and recovery** `session/src/repair.ts`, `agent/src/consumed-work.ts`, `session-checkpoint-policy`, `session-persistence-jsonl` | the log in memory, its durable prefix, the events in between | append, flush, close, repair on resume | a crash between an effect and its record, a repair that is cut off too | the log is balanced after any crash, and what it says of a call is true |

Of the harness the list in `PROJECT.json` names the other packages in four groups. Of Diya it has the others (thin HTTP
handlers, clients of outside services, parsers, benches, the front end). Each has the reason it is left out.

How they interact: the chat turn proposes actions, adds reminders, saves messages, and starts a reader; the
page and the command line approve and run; a page, a chat tool and the notifier all call `make_due_repeats`;
the notifier also tells what Automations and Questions leave; Dreaming and the reader both feed memory, and
memory feeds Questions. The pause switch stops actions and automations.

## 3. Modules, and how they correspond to the code

`map` in `PROJECT.json` names the lines of every definition; this is the way to read them.

**ActionGate** is the abstract promise of `docs/ACTIONS_DESIGN.md` (D1-D4): seven phases and a count of calls.
**Actions** is the code. A *flow* is a request thread or a process; its record (`flow[f]`) is what the Python
function keeps in local variables: the step it is at, the action, the hash that was shown, the time it read.
A transaction of `diya_actions.Actions` is one action (`ProposeInsert`, `Approve`, `RunTake`, `RunFinish`,
`Reconcile`, ...); a read before it is another (`ProposeBegin`, `RunBegin`, ...), so that anything may come
between. `Effect` is the call to the service, `Crash` ends a flow anywhere. `EditRow` is the arguments changed
in the database, which `_cannot_run` exists to notice. The typed "yes" of the chat is a `ShowOnPage` followed
by a `PressButton` with more guards, so it adds no behaviour. `run` reads the clock before it waits for the write
lock and stamps the row with what it read: `RunBegin` reads, `RunTake` takes with that time, and the clock may have
moved between. `GateSpec` instantiates ActionGate with the
phase computed from a row.

**Schedule** is `diya_schedule.py` with the reminders table. A looker reads the clock and the due series
(`Look`) and makes what is due in a later transaction that asks again (`Materialize`); in between come other
lookers and the owner's buttons. A button, too, reads the clock before its transaction: what it writes is worked out
from any earlier time (`Moments`), and a resume that a fall overtook in between (`Overtaken`) puts its series back to
falls that may have been made. `late` counts those. A rule falls every `Every` ticks; `NextAfter` and `Before` are the two
operations of `diya_repeat.Repeat` the store uses. The count of missed falls is a division in the model and a
loop up to `MAX_CATCH_UP` in the code. The trail is kept as how many falls it records since the series was set going.

**Telling** EXTENDS Schedule with the notifier's pass: it makes what is due, reads what was not told, shows
each (`TellOne`, or `FailOne`) and records it (`MarkOne`), and tells the rest of a flood as one. What is shown
on the screen is external: the models keep when and how often. A notification that fails (`NotifyError`) was not shown,
or it was: the process that shows it may run into its time limit after the notification is on the screen (`Failed`).
The latter is a mishap, as is a pass that dies. `pushed` are the reminders pushed back while a pass held them.
Everything Schedule allows happens in between.

**Dreaming** is `dream_cycle`, `capture_message` and `read_for_facts` over one table of messages. `pass` is
what a pass has in local variables, `reader[i]` what a call of `read_for_facts` has. A message is one of four
kinds: worth reading live, not, only asking, and Diya's reply. `live`, `nothing` and `staged` say what became of
its words; `captured`, `queue` and `checkpoint` what the code *recorded* of that, and the properties compare
the two. `PassOpen` and `PassWrite` are the two steps of writing the checkpoint file. The retry count and
giving a message up are one step: only the reader that holds the lock touches either.

**WritingFirst** is `diya_proactive` and the part of the notifier that puts its messages on the desktop. A message
goes into the chat and its key into the table in two steps, and it is shown and marked in two steps; `said` and
`shown` count what happened, `posts` and `untold` are what the table says. A notification that fails may have been
shown here, too (`NotifyFails`). What makes a greeting due is a free choice;
that its key was not there when the pass planned it is not. **Automations** EXTENDS it with the table of automations:
the notifier's pass runs one that is due, the one that fell first, after it moved its row on (`Claim`), and posts what
the agent answers; the page makes, pauses, resumes, deletes and runs by hand meanwhile. A resume reads the row and the
clock (`ResumeLooks`) and writes later without looking again (`ResumeWrites`). `served`, `ahead` (who was run since
another became due) and `late` (whom a resume that a fall overtook put back) are history.

**Push** is a pass of `diya_push.deliver` with the table of devices beside it. An event is a set of items, told by one
message to each device; `told` is the table of deliveries, `taken` counts what each device was sent and took. Every
answer of the push service is possible, and it may be lost on its way back (`AnswerLost`). Requests of the page come
in between.

**Memory** is the facts table and the staged file. Each change of a fact is one transaction that looks again (`Moves`,
`Edit`, `Add`, `Supersede`, `Forget`); what spans several is a flow: an ingest of the file (`TakeBegin`, `TakeOne`), a
run of the lanes over the candidates it read (`LanesBegin`, `LanesOne`), a retiring of what has faded or what the
person asked to forget (`RetireBegin`), an undo, and the rewriting of the file after a fact was forgotten for good
(`CleanRead`, `CleanReplace`). A flow may stop anywhere. `from` and `said` keep which line a fact came from and what
it said, which the code gives up when a fact is forgotten; `exposed` and `struck` are the lines appended while the
file was being rewritten, and the ones struck while nothing else rewrote it.

**ToolCalls** is `executeToolCalls` and `runGroup`. `sched` is where the one asynchronous function stands: about to
classify the next group, preparing a call, at the loop that commits and fills the pool, draining after its own failure,
or over. `call[i]` is the stage of a call, which moves beside the scheduler once it is dispatched (`EnterBody`, `NoBody`,
`BodyEnds`). `started` and `committed` are the two cursors over the calls in the model's order. A result that settles
after `commitReady` looked waits for the next round, so `NothingToCommit` excuses a ready result that is still in the
pool. Every action that reads the abort signal takes it as a parameter; the module knows nothing of the agent.

**SessionLog** has no state: a log is the record its events fold to (both inbox lists, the fate of every message, the
open turn or step, the last request for tools and its answers), `Apply` is one event, and the rest is what the code
computes from it: the splices of `clear`, `claim` and `remove`, the recovery results, the closers.

**AgentLoop** EXTENDS both. One action is the code between two awaits of `kick`, `turn`, `preStep` and `step`, and
`at` names the await. `abort`, `wake`, `stepped`, `turnEnds` are the fields and local variables of the same names;
`log` is the session in memory, `disk` its durable prefix, `buffer` the write-behind buffer between them. `Send`,
`CancelWith` and `Dispose` may come at any await. The checkpoint policy is part of the actions it wraps: a flush
before a pre-step ends (`FlushThenWrite`), before the model is called (`StreamOpens`) and before a tool's body
(`BodyStarts`). In the code the flush is the first await of the pre-step and in the model it comes with its last;
between the two a crash may leave any prefix of the buffer on disk in either, so the same disks result. A pre-step may
add a message about the runtime context, which is enough to enter a step when a hook left nothing of the input
(`PreStepEnters(entered, context)`); of that message only its presence is kept. A crash throws
away all that lives in memory and keeps such a prefix; `Resume` folds the disk, closes what is open and starts the
setup of the agent (`initializeAgent` runs it as maintenance); a setup that fails is a `Dispose` in that maintenance.
`dropped`, `shown`, `owed` and `ran` are history the code does not keep.

`MC*` modules add the symmetry and the fairness TLC needs. `*Proofs` modules hold the theorems.

## 4. Runs: what each checks and shows, and its bounds

| Run | Bounds | Shows |
|---|---|---|
| `actions_one` | 1 action, 2 flows, 2 arguments, clock to 1, 1 edit | the gate's safety, `DecisionsStand`, that it implements ActionGate, and that no action stays executing and no offer open, whoever dies |
| `actions_limits` | 3 actions, 3 arguments, 2 flows, limits 2, clock to 1; only proposals and what takes them off the list | `WithinLimits` when two flows propose at once: the limits hold, and nothing waits twice |
| `actions_resume` | 1 action, 1 flow, no crash | *violation*: an approval refused by the pause is run by nothing later (section 7) |
| `schedule_safe` | 2 series, 1 may be active, 2 reminders, 2 lookers, clock to 2, 1 resume of a series overtaken by a fall | one reminder per fall, one open per series, the trail, the limit, and only running series make |
| `telling` | 1 series, 2 reminders, 2 lookers, catch-up 1, 1 message a pass, clock to 1, 1 mishap | told means shown, and at its time; once but for a mishap; no flood; what is due is made and told in the end |
| `telling_pushback` | a rule that falls every 2 ticks, clock to 3 | *violation*: recorded as told for its new time (section 7) |
| `dreaming` | 2 messages of the person's and their answers, at most 4 messages, answers and deaths together, 2 readers, batches of 2, 2 tries; a pass and the service may each die once | nothing lost, staged once, the queue true, answered messages tried, everything read in the end |
| `dreaming_torn` | 1 reader, batches of 1, and a pass may die inside its write of the checkpoint | *violation* (section 7) |
| `automations` | 2 automations that fall together at every tick, 1 reminder, a day of 2 greetings and room for 1, clock to 2, 1 request, 1 mishap | one run per fall, fair turns, no nagging |
| `push` | 2 devices, 3 items, 1 message an hour, clock to 2, 3 requests, 1 mishap | told once, the rate held |
| `memory` | 3 words, 1 staged with a person's name, room for 2 facts, 2 flows, 2 lines, 3 rows, 2 requests | a line is one fact, what is known is said once and fits, the file tells the truth |
| `agent_loop` | 2 messages, 1 assistant message with up to 2 tool calls, a pool of 2, 1 stop of the process | the harness's agent: log whole and true, messages accounted for, nothing forgotten, no stranded wake, the pool, aborts final, and everything cancelled ends |

Why they are enough. What goes wrong in this code goes wrong between two parties over one row: two flows on one
action, two lookers on one series, a pass and a reader on one message. So each run has two parties and few rows, and
lets every step of one fall between any two of the other. A second row matters for the limits (`actions_limits`, the
second series of `schedule_safe`, a flood of two where one message is allowed, the third item
and the third word beside room for less) and for batches: two messages and an answer with batches of two make a staged
batch, a message after it that the next pass may see as part of it, and a batch that is computed anew after a crash or
of which nothing is left. Two lines of the staged file are one that is struck and one that is appended meanwhile. The clock
runs far enough to pass an expiry and a reconcile age, and for a series to be two falls behind. One crash of a pass is
the crash between two of its steps; one mishap is that, or one notification that failed and was shown. One resume that a
fall overtook is enough for a fall to be made twice; `telling` has none (`MaxLate` is 0), for `schedule_safe` has them
and the theorems about the notifier hold with any number. Crashes of flows in Actions and stops of flows in Memory are not bounded. The
theorems of section 6 remove the bounds where they hold.

For the agent two calls are the fewest that can settle out of order, run beside each other, or be a barrier and what
waits behind it; two messages are one that is being worked on and one that arrives meanwhile. `MaxAsks` is spent by
either an assistant message that asks for tools or a stop of the process (`asks + crashes < MaxAsks` guards the
former), so a run sees a step with tools that is cut off by a crash, repaired, and worked on without tools, or tools
without a crash before them. A request is tried again once in a step. What these bounds never reach: a third message,
hence the branch of `PreStepEnters` in which a turn that is over, with its batch rewritten to nothing, finds another
message pending (`GoesOn`). With two calls and a pool of two the limit of the pool cannot be passed; that it cannot be
for any sizes is proved (section 6).

`CHECK_DEADLOCK FALSE` is set where the system may really stop: in Schedule, Telling, Dreaming, Automations and Push
the clock, the messages, the requests and the rows are bounded, and when all is done nothing is left to do; an idle
agent in AgentLoop waits for the next message, and messages are bounded.

The named bounds: `MaxCalls`, `MaxAsks`, `MaxCrashes` of AgentLoop, `MaxClock`, `MaxEdits`, `MaxLate`,
`MaxMessages`, `MaxSaid`, `MaxPassDeaths`, `MaxWebDeaths`, `MaxRequests`, `MaxAsked`, `MaxMishaps`, `MaxLines`, `MaxFacts`, and
the sizes of `Id`, `Series`, `Reminder`, `Automation`, `Device` and `Item` (rows that can be inserted). The type and
inductive invariants take no run: they are proved (section 6), after TLC had checked them. `EveryFallAccounted` is
about a series that no look found more than `MAX_CATCH_UP` falls behind: beyond it the loop stops and the jump to the
next fall is not counted, by design. That the loop stops there is modelled (`Count`), and what it leaves uncounted is
left out of the property, not checked.

## 5. Fairness

* A **flow** that is alive goes on: its steps follow one another in one Python function. Nothing is assumed of a crash
  or of the owner. The lists that expire and reconcile are opened again and again (`pending()` and `reconcile()` run
  on every look at the actions), and time passes. `actions_one` keeps crashes. `Automations`, `Push` and `Memory` are
  checked for safety only.
* The **notifier** is started again every five minutes (docs/reminders.md:45), one instance at a time, and a pass that
  does not die goes on. Strong fairness of `Materialize`, `TellOne` and `TellRest` says that a database that is tried
  again and again is not always busy, and that a notification tried again and again is shown; both may fail any number
  of times before.
* **Dreaming** is started every half hour and goes on; a model asked again and again answers, a file written again and
  again is written. Nothing is assumed of the **readers**: what they never get to, a pass reads.
* The **agent** of the harness: only while something is cancelled or being torn down is anything assumed (`WF(Winding
  /\ Work)`): every await in the driver, a tool or a flush ends some time, well or badly. The code awaits a started
  body to its end and has no other bound on it (`dispatchToolBody`: "Cancellation never abandons the body"). Nothing
  is assumed of the owner, of messages, or of a live turn: a turn that is not cancelled may go on for ever.

## 6. Proofs

Each component has a module of theorems: `ActionsProofs`, `ScheduleProofs`, `TellingProofs`, `DreamingProofs`,
`AutomationsProofs` (with WritingFirst), `PushProofs`, `MemoryProofs` and `AgentLoopProofs` (with ToolCalls); `tlapm`
checks every obligation. Liveness under fairness is beyond the prover and stays with TLC.

**Actions.** For any number of actions (a finite set), flows, messages and crashes, any limits, and any expiry of at
least one tick. None of the safety properties is inductive: that a call happens once depends on there being
one caller. `IInv` adds what the properties need:

* `RowsSound`: a row that was taken has the time that was read for it, which is before its day was over, and who
  approved it;
* `FlowsSound`: what a flow may rely on between two of its transactions. In particular a flow past its check
  of the day holds a row that is either still good at the time it read, or no longer open;
* `OneCaller`: at most one flow is in the call, or in recording it, for each action. `RunTake` finds `approved` and
  leaves `executing` in one transaction, and nothing leads back to `approved`;
* `CallsSound`: the count is at most one, and above zero only for a row that was taken, with the words of its description.

Type correctness comes first (`TypeCorrect`), then one step per action for the rest (`RestStep`). Many actions disturb
nothing a flow relies on; they share the lemma `MildStep`. `DecisionsAreFinal` and `ImplementsGate` follow from the
invariant, action by action: each maps to one action of ActionGate or to a stutter. `LimitsHold` counts: every step
but an insertion only settles rows, so the sets that `Refused` counts can only shrink, and an insertion adds one row
to sets that were below their limit, of words that no open row has. `TakenOnALookInTime` says what the code promises of
the day and no more: the look at the clock is in time, the taking may come later (section 7).

**Schedule.** For any series, reminders, lookers and interval between falls. First the rule, which needs facts on
division: `FallsAhead`, `LastFall`, and that no fall lies between the last and the next (`FallsUpTo`). `Wrote` says
row by row what `Materialize` does, for all the series it makes reminders of at once. The invariant is the types,
`ScheduleSound`, `AtMostOneOpen` (one open per series, said without counting) and `OncePerFall`: a new reminder is of
a later fall than every row of its series, because the row of the series is looked at again in the transaction and
moved past the fall. A resume that a fall overtook breaks exactly that, so the invariant counts: the falls from `next` on
were made at most as often as resumes of the series were overtaken (`SeriesSound`), and one fall once more than that
(`MadeFor`). With none overtaken a fall is made once. On top of it `PausedSeriesAreSilent`, `ActiveSeriesLimited` (with the cardinality of the active
series) and `TrailAnswersForEveryFall`: a series is behind by less than a look passes, or was left behind by a look
that came too late.

**Telling.** The notifier's own steps keep Schedule's invariant (`TellingKeepsSchedule`). `TInv` adds that told rows
exist, `PassSound` (the messages sent, the single ones left and the one for the rest are together at most
`MaxNotifications`), and facts that tie the pass to the screen: what it holds had come due by the time it read, or was
pushed back since; what it holds for recording was shown, at that time or later; and a reminder was shown at most once
more than there were mishaps (`ShownOnceUnlessMishap`).

**Dreaming.** For any number of messages, readers, tries, deaths, and any batch of at least one message, torn
writes included: safety holds even where liveness does not. The argument:

* `BatchesAreRead`: whatever is staged was read, and lies behind the checkpoint or is exactly the next batch, and then
  it still fits a batch. So if a pass died between record and checkpoint, the next pass, which may see more messages,
  begins at the same message and computes a batch at least as long (`FitsOne`, `FitsStays`, and that `BatchEnds` is
  the longest that fits). It finds the record by that first message;
* `PassIsTrue`: what a pass knows at each step. Before it asks, no record begins at its first message; once it goes to
  save, all of its batch is accounted for, whether read, found, or left out;
* `MarksAreTrue`: a message marked as read live was put in memory before, so leaving it out loses nothing, and only
  the person's messages are in the queue.

`NothingLost` follows when `PassWrite` moves the checkpoint over such a batch; `StagedOnce` when `PassStage` adds a
record past all others; `QueueIsTrue` from `MarksAreTrue` when a reader settles. `ChatKeeps` says once that nothing
the chat or a reader does disturbs the pass. `AnsweredMessagesAreTried` holds while no more messages wait than the
reader looks at: whoever leaves the lock looks again, and a reader that has not tried a message is still to come to
it.

**Automations and WritingFirst.** For any automations, reminders, kinds, limits and mishaps. `TInv`: the types, and
what each flow knows fits what it is doing. `AInv` is about order: an automation was run for falls before its next one
only, one that was passed over falls later than the one chosen, and the one chosen is the first; each of them but for
automations in `late`, which a resume put back. From it `RunOncePerFall` and `TurnsAreFair`, as action properties.
`WInv` counts: a message is shown as often as there were mishaps, and once more when it is no longer owed; said as often as there were mishaps, and once more when its key is
settled; and what is said or planned for a day is within the cap but for those that were said and not recorded, of
which every mishap makes one. A notification that failed and was shown is a mishap like the others. `SheDoesNotNag`
follows.

**Push.** For any devices, items, limits, deaths and lost answers. `PInv`: what the pass still has to tell was not
told and its events are apart (`PassSound`), what is told or about to be was taken by a device (`Backed`), and a
device took an item that is not told once for each mishap at most (`Counted`). `RateIsHeld` needs an argument about
windows: the batches of any hour that ends later are among those of the hour the pass looked at, and the one it adds.

**Memory.** For any words, flows, room, lines and rows. `MemoryInv` is `RowsSound` (a row keeps the line it came from
until it is forgotten for good, no two rows have one line), `FlowsSound` (what a flow means to write into the file
would be as true as what is there) and the properties. Every step is one of three kinds for what is known: it takes
from it (`Fewer`), adds one fact that fits beside the rest (`OneMore`: an accept, a restore, a replacement, an undo),
or leaves it alone; and most steps leave the file alone (`Mild`). `RecordedOnlyOnce`, `KnownFactsHold` and
`LinesStayTrue` follow. A line appended during a rewrite may be missing from what a flow is about to write, which is
why `exposed` is in the invariant.

**ToolCalls.** For any number of calls and any size of the pool, and an abort signal that may change at every step.
`ToolInv` says what the two cursors split: calls up to `committed` are settled and out of doubt, those up to `started`
are in some stage, the rest planned (`StagesOK`); all that is dispatched and not settled is in the pool, the pool has
room whenever a call is being prepared, and a group that is exclusive is one call (`PoolOK`); a verdict agrees with
whether the body was entered (`BodiesOK`). `ThePoolIsBounded` (`SchedulerOK`), `VerdictsAreAlwaysTrue` and
`ReturningAnswersAll` follow.

**AgentLoop.** For any messages, calls, asks and stops. `LoopImplementsTools`: every step of the agent is a step of
ToolCalls' specification or leaves its variables alone, so what is proved of the scheduler alone holds in the agent,
under any cancel, teardown or crash. `DriverInv` ties the scheduler to the place of the driver; from it
`IdleIsAlwaysAtRest` (no abort, no latched wake and no call in flight outlives an activity). `LoopTypes` needs that a
step that is done has one of three results.

**The log**, in the same module, is a fold over events, and none of its properties is inductive: that a resumed log is
whole depends on what every prefix of the write-behind buffer leaves on disk. The argument has three layers.

* *The fold.* `After(l, events)` is the function from every k to the log after k events. The prover has no induction
  over an operator, so its value is proved by least counterexample (`AfterUnique`, `UpTo`): of two functions that begin
  alike and take the same steps there is no first place where they differ. From it the fold of a concatenation and of
  any prefix.
* *Sound logs.* `LogSound(l, w)` says of a log and what happened outside it (`w`: the bodies that ran, the asks, what
  was dropped and shown): its types; a message is in one list, once, or has a fate that fits the open turn; the calls of
  the last step are answered in order, all of them once the step is closed; what it says is true of `w`. Each event has
  a lemma: under the conditions in which the code appends it, a sound log stays sound. `Runs(l, events, w, r)` says that
  events lead from `l` to `r` and *every prefix* of them is sound; what the agent writes in one go (a claim, the
  skipped pairs of an aborted step, the recovery results and closers, the clearing of the inbox) is shown to be a run.
* *The invariant.* `LogInv` is `RecordsOK` (the buffer is a run from disk to memory, so a crash may cut it anywhere),
  `PlaceOK` (the log has open what the driver is in, and in the tools what the scheduler has started and committed),
  `BatchOK` (what the driver holds is claimed, and what is claimed is held or was rewritten away) and `OwedOK` (what is
  owed is pending, and a driver that is not cancelled, or a latched wake, will take it). One lemma per action shows that
  it is kept (`StepsKeep`). TLC checked it on every state of `agent_loop` before it was proved.

`LogIsAlwaysWhole`, `AnswersAlwaysStayTrue`, `NothingIsForgotten`, `EveryMessageIsAccounted` and `NoWakeIsStranded`
follow from it state by state, and `AbortIsAlwaysFinal` from the same lemmas: each action that can be taken after an
abort admits nothing and opens no step (`Calm`).

To be reasoned about, `Fold` is a recursive function and no library fold, the recovery results pick the unanswered calls
by their rank, and the skipped pairs are written as one sequence; a pre-step enters with any of its messages in any
order, for a hook may return them so.

Assumptions are those of the modules' `ASSUME`s: the limits are numbers, `None` is none of the values.
TLC evaluates them in every run.

## 7. Where the code and its documentation differ

Checked by a run:

* **An approval refused by the pause is run by nothing after resume** (`actions_resume`). `approve` takes only a pending
  action and every caller of `run` calls `approve` first. docs/PAUSE_DESIGN.md:9 says it "runs once after resume".
* **A reminder pushed back while it is being told is not told at its new time** (`telling_pushback`).
  `mark_notified` does not look at the time the reminder was read with. docs/SCHEDULE_DESIGN.md:60.
* **A torn checkpoint stops Dreaming** (`dreaming_torn`). The file is emptied and then written; a pass that dies in
  between leaves a file every later pass fails to read. docs/AUDIT_2026-10-10.md:252 calls it crash-safe.

Read in the code while modelling, and allowed by the models, without a run of their own:

* `run()` reads the pause switch on its own connection and takes the action in a later transaction that does not read
  it again: a pause in between does not stop that action (diya_pause.py:4 and :9). `RunBegin` and `RunTake` are two
  steps.
* `run()` reads the clock before it waits for the write lock (diya_actions.py:581-596), so an action can be taken after
  its day was over, where diya_actions.py:582 says that "an approval that outlived its proposal is `expired`".
  `LookedInTime` is what holds, and says which clock it is about.
* `Schedule.resume` reads the clock before its transaction (diya_schedule.py:220-222). If a fall comes before it writes,
  the series is set to that fall and makes it, although "nothing is made for the time it was paused"
  (diya_schedule.py:244-245); and if a second resume, a look and a pause came in between, it makes it again, where
  `materialize` says that "two callers cannot both make the same one". `OncePerFall` allows one more for each such resume.
  `Automations.resume` does the same without a transaction (diya_automations.py:188-192), and an automation can be run
  twice for a fall ("At most once for each time the rule falls", `claim`) and out of turn: `late` in `OneRunPerFall` and
  `FairTurns`. Without `late` TLC finds both properties violated in `automations`.
* A notification that runs into its time limit after it came on the screen is a failure (diya_notify.py:82-83) and is
  tried again, by the pass over the reminders and by `tell_proactive`: it is shown twice, although no pass died between
  showing it and recording it. `OnceUnlessMishap` and `NoNagging` count it as a mishap.
* A message can be read twice, live and by a pass: a pass asks what was read live before it asks the model, and marks
  nothing itself (docs/AUTO_MEMORY_DESIGN.md:349). `NothingLost` is the half that holds.
* Only an answered turn starts a reader; the start of the service does not (docs/MEMORY_DURABILITY_DESIGN.md:9). The
  scheduled pass still reads what waits, which is why `EverythingIsRead` holds although the service may die.
* In the harness, agent.ts:216-218 says that "disposal never latches, so teardown waits on no model turn". If a user's
  cancel came first, its cause stays (the first one wins), and a wake sent after the disposal is latched and opens a
  turn inside the teardown. `Latches` says what the code does; `Converges` shows that the teardown still ends.
* agent.ts:209 says a latched wake is not replayed when the queue no longer holds "the wake"; the code asks whether
  anything is pending (`Replays`).
* agent.ts:217 says "Live drivers claim queued work themselves". Between the end of a driver's last turn and the
  moment it is idle a waking message is neither claimed nor latched and stays parked until the next wake. `Unowed`
  names that window; `NoStrandedWake` is said without it. The same holds for a message that arrives while a hook
  rewrites a turn's first batch to nothing: that exit does not look at the queue (`Parks`).
* docs/subsystems/core.md:330 of the harness runs `agent/request-error` "after a failed model step closes"; the code
  runs it inside the open step (`StreamErrs`, `Retry`).
* The reader looks at the oldest fifty waiting messages and stops when it has tried those. `AnsweredIsTried` is
  checked and proved with fewer waiting than that.

Of what Diya tells:

* `claim` does not look at the row's state again: an automation paused between `due()` and the claim still runs once
  (diya_automations_api.py:5, "stop it running until it is resumed").
* `create` counts in one transaction and inserts in another, so two at once pass `MAX_AUTOMATIONS`;
  `Subscriptions.add` of the push does the same with its limit. Neither count is stated as a property.
* An automation deleted while it runs makes `finish` raise, and the rest of that stage of the notifier is skipped
  until the next pass.
* With `DIYA_PROACTIVE=0` what a failed notification left untold is told only after another automation ran.
* The key of a reminder is its id: one pushed back is neither said nor pushed again at its new time.
* `DAILY_CAP` is six and Diya has three kinds of message of her own, so the cap cannot bind; the model gives it less
  room.
* "Run now" in the same second as another run has the same key, and its answer is dropped.

Of the memory:

* `ingest_queue` says that "a fact already recorded is never recorded twice, whatever has happened to it since"
  (diya_memory.py:1221). `purge` clears the slot it is known by, so the next ingest of a line that is still in the
  file records it again: as a candidate "(forgotten for good)" once the line is struck, and **with the words that were
  forgotten** if the process stopped between `purge` and `_staged_clean`, if the fact had been reworded, or if the
  line ends with a person's name, for then it does not compare equal. docs/FORGET_DESIGN.md:14 says that the line is
  removed or replaced. `RecordedOnce` leaves out facts that were forgotten, and `Tagged` is the words whose lines are
  not struck.
* `_staged_clean` reads the file, writes a copy and replaces the file: a record Dreaming appends meanwhile is lost
  (`exposed`), and two cleanings at once can undo each other's marks (`struck` says when they cannot). They also share
  one `.part` file, which the model, where the rewrite is one step, does not show.
* `replaced` returns a fact that was restored and later retired for another reason ("still retired for it",
  diya_memory.py:812), so an undo may bring that back. A fact that was forgotten for good may be reopened as a
  candidate.
* `fade_due` does not ask again whether the owner said to keep a fact after the list was made
  (docs/FADING_DESIGN.md:37, "ends the fading for good").
* Two runs of the lanes at once may pass `DAILY_AUTO_LIMIT`, and `settle` is not held to it. A fact decided by the
  owner meanwhile ends the run.

## 8. Mutants

An operator whose name ends in `Broken` or `Late` is the one after it with a plausible mistake: a dropped guard, an
off-by-one, a record written before the fact. No specification uses it. Putting it in place of the real one makes
the property named in `PROJECT.json` fail under the same configuration, which shows that the property can tell.

## 9. What is only model-checked, and what is not modelled

Only model-checked: all liveness (`Converges`, `EverythingIsRead` and the others of section 5), which is out of the
prover's reach. Every safety property of the runs that pass is proved. `AnsweredIsTried` says nothing when more messages wait than `CAPTURE_BATCH`.

Abstracted in the modelled parts: the kinds of action and their arguments (one value; hash and description are
injective); the event trail of actions, written in the same transaction as the change; a clock that goes backwards;
calendar arithmetic and the night the clocks change; the order of notifications within a pass; the length of messages
(each costs one of a batch) and of facts (each takes one of the room); an import that fails inside the reader; what
the reader records of a message, which has no line in the staged file; flags, mentions, people, keeping and the trail
of a fact; which lane a fact is put in and how many a day; forgetting a message, and the imports. In the
harness: contents, the request and its prompt, usage,
what a hook decides and why, listeners that call back into the agent from its own synchronous sections, a replaced
pending message, appends that are rejected, torn lines of the file, leases and forks.

Not modelled: see the list of components with their reasons in `PROJECT.json`. Races that belong to them and are not
covered: two processes that start on an old database (`diya_db.apply_migrations`), two refills of the questions at
once, the offset Telegram's bridge saves before it handles a message. In modelled parts: an action taken although the
pause came after its check, fifty messages that cannot be read in front of one that can, a message that arrives
between the end of an agent's driver and its being idle (all in section 7). The answers of the model and of outside
services are free choices everywhere.

## 10. Plan

| Step | Modules | Abstract specification | Theorems |
|---|---|---|---|
| 1, done | Actions, ActionGate | the gate, refined | safety, inductive invariant, refinement |
| 2, done | Schedule, Telling (extends Schedule) | | type, `ScheduleInv`, the trail, `NeverUnshown`, `OnceUnlessMishap`, `NoFlood` |
| 3, done | Dreaming | | safety, inductive invariant |
| 4, done | SessionLog, ToolCalls, AgentLoop (extends both) | ToolCalls, which AgentLoop implements | `ToolInv`, refinement, the driver, `LogInv` and the log |
| 5, done | WritingFirst, Automations (extends it), Push | | once per fall, fair turns, no nagging, told once, the rate |
| 6, done | Memory | | `MemoryInv`, one fact a line, what is known, the file |
| 7 | Questions (the pace), Telegram (offset and pairing) | | limits |
| 8 | Forgetting a message, keeping and mentions, as part of Memory | a fact is in force or not | forgotten stays forgotten |
| 9 | Saga, Migrations, Launcher, the move of the data | all or nothing | rollback order |

Questions belong to the process of Telling and to the facts of Memory, and would compose with both. Of the harness the
next part is the store of sessions (leases, torn lines, forks) below SessionLog.
