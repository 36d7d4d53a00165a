------------------------------- MODULE AgentLoop -------------------------------
(* The harness's agent: an inbox, one driver that runs turns and steps over it,   *)
(* and a session log written behind it (agent-loop/agent.ts, its teardown and      *)
(* resume in agent-loop/index.ts, session-checkpoint-policy, and the write-behind   *)
(* buffer of session-persistence-jsonl). ToolCalls schedules a step's tool calls;   *)
(* SessionLog is what the log says.                                                 *)
(* One action is the code between two awaits. Messages may be sent, removed and     *)
(* cancelled between any two of them; the process may stop at any of them, and      *)
(* then any suffix of what was not yet made durable is lost.                        *)
(* Abstracted: contents, the request, the system prompt and context, usage, what    *)
(* a hook decides and why; listeners that call back into the agent from inside one  *)
(* of its own synchronous sections.                                                 *)
EXTENDS ToolCalls, SessionLog

CONSTANTS MaxAsks,      \* bound: assistant messages that ask for tools, one fewer for every stop
          MaxCrashes    \* bound: times the process stops

ASSUME LoopAssumption == MaxAsks \in Nat /\ MaxCrashes \in Nat

VARIABLES life,       \* the agent: live, being torn down, closed, or its process down
          at,         \* where the driver stands; idle and maintenance are phases of their own
          abort,      \* why the current activity was cancelled, if it was
          wake,       \* wakeRequested: a wake latched for when the activity ends
          stepped,    \* phase.step > 0: this turn entered a step
          turnEnds,   \* how the turn is to end, if its last step ended it
          batch,      \* the messages claimed for the step and not yet admitted
          result,     \* how the step returned; retried: a request of it was tried again
          log,        \* the session's log, folded
          disk,       \* the fold of its durable prefix
          buffer,     \* the events in between
          dropped,    \* history: messages a hook rewrote away
          shown,      \* history: messages a model request carried out of the process
          owed,       \* history: messages sent with a wake-up that are owed a turn
          asks, crashes    \* for the bounds

driver == <<at, abort, wake, stepped, turnEnds, batch, result>>
records == <<log, disk, buffer>>
history == <<dropped, shown, owed>>
bounds == <<asks, crashes>>
loopVars == <<toolVars, life, driver, records, history, bounds>>

Place == {"idle", "maintenance", "start", "preStep", "request", "opening", "stream",
          "retry", "tools", "stepDone", "stopping", "unwind"}
InTurn == Place \ {"idle", "maintenance", "start", "unwind"}
InStep == {"request", "opening", "stream", "retry", "tools", "stepDone"}

\* (The log, the disk and the messages in the driver's hands are the properties' matter.)
LoopTypeOK == /\ life \in {"live", "closing", "closed", "down"} /\ at \in Place
              /\ abort \in {"none", "user", "disposed"} /\ wake \in BOOLEAN /\ stepped \in BOOLEAN
              /\ turnEnds \in {"none", "completed", "maxTokens"}
              /\ result \in {"none", "retried", "completed", "maxTokens", "failed"}
              /\ asks \in Nat /\ crashes \in Nat

LoopInit == /\ ToolInit
            /\ life = "live" /\ at = "maintenance" /\ abort = "none" /\ wake = FALSE
            /\ stepped = FALSE /\ turnEnds = "none" /\ batch = <<>> /\ result = "none"
            /\ log = EmptyLog /\ disk = EmptyLog /\ buffer = <<>>
            /\ dropped = {} /\ shown = {} /\ owed = {}
            /\ asks = 0 /\ crashes = 0

-------------------------------------------------------------------------------
(* Writing. *)

\* Session.append, routed into the write-behind buffer.
Write(events) == /\ log' = Fold(log, events)
                 /\ buffer' = buffer \o events
                 /\ UNCHANGED disk

\* sessions.flush: everything logged so far is durable.
Flush == disk' = log /\ buffer' = <<>> /\ UNCHANGED log

FlushThenWrite(events) == disk' = log /\ buffer' = events /\ log' = Fold(log, events)

HasPending == Pending(log) # {}

\* turn/start, and the claim of the first step's batch, right after events.
OpenTurn(events) ==
  LET l == Fold(log, events)
  IN /\ Write(events \o <<TurnStart>> \o Claim(l, "nextTurn"))
     /\ batch' = ClaimedBy(l, "nextTurn") /\ owed' = owed \ ToSet(batch')
     /\ at' = "preStep" /\ abort' = "none" /\ wake' = FALSE
     /\ stepped' = FALSE /\ turnEnds' = "none" /\ result' = "none"

\* The next step's batch, right after events.
ClaimsNext(events) == /\ Write(events \o Claim(log, "nextStep"))
                      /\ batch' = ClaimedBy(log, "nextStep") /\ owed' = owed \ ToSet(batch')
                      /\ at' = "preStep"

Forget == stepped' = FALSE /\ turnEnds' = "none" /\ batch' = <<>> /\ result' = "none"

-------------------------------------------------------------------------------
(* What the agent's owner and others do: followup (next turn, wakes), steer (next *)
(* step, wakes), inject (next step, does not wake).                               *)

\* Waking input cannot join an aborted activity: it is queued for a turn of its own.
WakingAfterAbort(waking) == waking /\ at # "idle" /\ abort # "none"
LatchesBroken(waking) == waking /\ abort = "user"
Latches(waking) == waking /\ abort # "disposed" /\ (at = "maintenance" \/ abort # "none")

\* A driver that has ended its last turn, but not yet become idle, takes no more
\* work, and a wake sent to it is not latched either: nothing is owed for it.
Unowed == at = "unwind" /\ abort = "none"

\* Any identity not yet in the log; always the same one, they are alike.
Unsent == Msgs \ Known(log)
Fresh == CHOOSE m \in Unsent : TRUE

Send(m, target, waking) ==
  /\ life = "live" \/ (life = "closing" /\ at # "idle")
  /\ Unsent # {} /\ m = Fresh
  /\ LET resolved == IF WakingAfterAbort(waking) THEN "nextTurn" ELSE target
         insert   == <<Splice(resolved, Len(log[resolved]), 0, <<m>>, "none")>>
     IN IF waking /\ at = "idle" THEN OpenTurn(insert)
        ELSE /\ Write(insert)
             /\ wake' = (wake \/ Latches(waking))
             /\ owed' = IF waking /\ ~Unowed /\ abort # "disposed" THEN owed \cup {m} ELSE owed
             /\ UNCHANGED <<at, abort, stepped, turnEnds, batch, result>>
  /\ UNCHANGED <<toolVars, life, dropped, shown, bounds>>

Followup(m) == Send(m, "nextTurn", TRUE)
Steer(m) == Send(m, "nextStep", TRUE)
Inject(m) == Send(m, "nextStep", FALSE)

\* A pending message is taken back.
TakeBack(m) ==
  /\ life = "live" /\ m \in Pending(log)
  /\ Write(Removal(log, m)) /\ owed' = owed \ {m}
  /\ UNCHANGED <<toolVars, life, driver, dropped, shown, bounds>>

\* cancel: the first cause wins; on an idle agent there is nothing to abort. Work
\* that is kept stays parked until the next wake.
CancelWith(cause, keepInbox) ==
  /\ IF keepInbox THEN UNCHANGED <<records, wake>> ELSE Write(Clear(log)) /\ wake' = FALSE
  /\ owed' = {}
  /\ abort' = IF at # "idle" /\ abort = "none" THEN cause ELSE abort
  /\ UNCHANGED <<toolVars, at, stepped, turnEnds, batch, result, dropped, shown, bounds>>

Cancel(keepInbox) == life = "live" /\ CancelWith("user", keepInbox) /\ UNCHANGED life
Dispose == life = "live" /\ CancelWith("disposed", FALSE) /\ life' = "closing"

\* runMaintenance: only an idle agent; a wake in between waits for its end.
StartMaintenance ==
  /\ life = "live" /\ at = "idle" /\ at' = "maintenance"
  /\ UNCHANGED <<toolVars, life, abort, wake, stepped, turnEnds, batch, result, records, history, bounds>>

-------------------------------------------------------------------------------
(* The driver. *)

\* Idle, or at once a new turn if a wake was latched and there is work.
Replays == wake /\ HasPending
Rest == IF Replays THEN OpenTurn(<<>>)
        ELSE /\ at' = "idle" /\ abort' = "none" /\ wake' = FALSE /\ Forget
             /\ UNCHANGED <<records, owed>>

EndMaintenance ==
  /\ life \in {"live", "closing"} /\ at = "maintenance"
  /\ IF abort = "disposed" THEN /\ at' = "idle" /\ abort' = "none" /\ wake' = FALSE
                                /\ Forget /\ UNCHANGED <<records, owed>>
     ELSE Rest
  /\ UNCHANGED <<toolVars, life, dropped, shown, bounds>>

Unwind == /\ at = "unwind" /\ Rest /\ UNCHANGED <<toolVars, life, dropped, shown, bounds>>

\* A turn after another of the same driver. Cancelled in between, it does not open.
StartTurn ==
  /\ at = "start"
  /\ IF abort # "none" THEN /\ at' = "unwind"
                            /\ UNCHANGED <<abort, wake, stepped, turnEnds, batch, result, records, owed>>
     ELSE OpenTurn(<<>>)
  /\ UNCHANGED <<toolVars, life, dropped, shown, bounds>>

\* The turn ends for a reason that leaves what is pending parked.
EndTurn(reason, events) ==
  /\ Write(events \o <<TurnEnd(reason)>>)
  /\ at' = "unwind" /\ Forget /\ UNCHANGED <<abort, wake>>

Parks == owed' = {}
Fails(events) == /\ EndTurn(IF abort # "none" THEN "aborted" ELSE "error", events)
                 /\ IF abort # "none" THEN UNCHANGED owed ELSE Parks

\* The turn has run its course: the driver goes on if there is work, with a fresh
\* signal that makes a latched wake stale.
GoesOn == HasPending
Completes(events) ==
  /\ Write(events \o <<TurnEnd(turnEnds)>>) /\ Forget
  /\ IF GoesOn THEN at' = "start" /\ abort' = "none" /\ wake' = FALSE
     ELSE at' = "unwind" /\ UNCHANGED <<abort, wake>>

\* preStep's awaits end: cancelled, or failed (a hook, or the flush before it).
PreStepFails ==
  /\ at = "preStep" /\ Fails(<<>>)
  /\ UNCHANGED <<toolVars, life, dropped, shown, bounds>>

\* The claimed input is rejected.
PreStepRejects ==
  /\ at = "preStep" /\ abort = "none"
  /\ FlushThenWrite(<<TurnEnd("blocked")>>)
  /\ at' = "unwind" /\ Forget /\ Parks
  /\ UNCHANGED <<toolVars, life, abort, wake, dropped, shown, bounds>>

\* It enters as the hooks leave it: any of it, in any order, and with a context message
\* when the runtime context has changed (it carries none of the input, and is no part of
\* the batch here). With nothing at all left a turn that was over ends, and a turn that
\* entered no step ends too; the context alone is enough for a step.
PreStepEnters(entered, context) ==
  /\ at = "preStep" /\ abort = "none" /\ entered \in SetToAllKPermutations(ToSet(batch))
  /\ dropped' = dropped \cup (ToSet(batch) \ ToSet(entered))
  /\ CASE entered = <<>> /\ ~context /\ turnEnds # "none" ->
            /\ FlushThenWrite(<<TurnEnd(turnEnds)>>) /\ Forget
            /\ IF GoesOn THEN at' = "start" /\ wake' = FALSE ELSE at' = "unwind" /\ UNCHANGED wake
            /\ UNCHANGED <<abort, owed>>
       [] entered = <<>> /\ ~context /\ turnEnds = "none" /\ ~stepped ->
            /\ FlushThenWrite(<<TurnEnd("completed")>>)
            /\ at' = "unwind" /\ Forget /\ Parks /\ UNCHANGED <<abort, wake>>
       [] OTHER ->
            /\ FlushThenWrite(<<StepStart>>)
            /\ at' = "request" /\ stepped' = TRUE
            /\ batch' = entered
            /\ UNCHANGED <<abort, wake, turnEnds, result, owed>>
  /\ UNCHANGED <<toolVars, life, shown, bounds>>

\* The step threw; what it owes is written when the driver takes it up.
StepFails == /\ at' = "stepDone" /\ result' = "failed"
             /\ UNCHANGED <<toolVars, life, abort, wake, stepped, turnEnds, batch, history>>

\* prepareRequest ended: cancelled or failed, nothing was admitted.
RequestFails == at = "request" /\ StepFails /\ UNCHANGED <<records, bounds>>

\* The batch enters the conversation, once: a retry finds it admitted.
MayAdmitBroken == TRUE
MayAdmit == abort = "none"
RequestReady ==
  /\ at = "request" /\ MayAdmit
  /\ Write([i \in DOMAIN batch |-> UserMessage(batch[i])])
  /\ batch' = <<>> /\ at' = "opening"
  /\ UNCHANGED <<toolVars, life, abort, wake, stepped, turnEnds, result, history, bounds>>

\* Before the adapter is called the logged request is made durable.
DurableRequestBroken == UNCHANGED records
DurableRequest == Flush
StreamOpens ==
  /\ at = "opening" /\ DurableRequest
  /\ shown' = shown \cup {m \in Msgs : log.fate[m] = "admitted"}
  /\ at' = "stream"
  /\ UNCHANGED <<toolVars, life, abort, wake, stepped, turnEnds, batch, result, dropped, owed, bounds>>

\* The flush fails, the stream breaks, or it was cancelled: the attempt is recorded,
\* with no tool call in it.
StreamFails == at \in {"opening", "stream"} /\ StepFails /\ UNCHANGED <<records, bounds>>

StreamEnds(how) ==
  /\ at = "stream" /\ abort = "none" /\ how \in {"completed", "maxTokens"}
  /\ at' = "stepDone" /\ result' = how
  /\ UNCHANGED <<toolVars, life, abort, wake, stepped, turnEnds, batch, records, history, bounds>>

StreamAsks(n) ==
  /\ at = "stream" /\ abort = "none" /\ asks + crashes < MaxAsks
  /\ Ask(n) /\ asks' = asks + 1
  /\ Write(<<Asks(asks + 1, n)>>)
  /\ at' = "tools" /\ result' = "none"
  /\ UNCHANGED <<life, abort, wake, stepped, turnEnds, batch, history, crashes>>

\* The model reports a failure: a hook decides whether to try again.
StreamErrs ==
  /\ at = "stream" /\ abort = "none" /\ at' = "retry"
  /\ UNCHANGED <<toolVars, life, abort, wake, stepped, turnEnds, batch, result, records, history, bounds>>
Retry ==
  /\ at = "retry" /\ abort = "none" /\ result # "retried"   \* bound: once in a step
  /\ result' = "retried" /\ at' = "request"
  /\ UNCHANGED <<toolVars, life, abort, wake, stepped, turnEnds, batch, records, history, bounds>>
GiveUp == at = "retry" /\ StepFails /\ UNCHANGED <<records, bounds>>

-------------------------------------------------------------------------------
(* The step's tool calls: ToolCalls, and what it writes. *)

Aborted == abort # "none"
DuringTools(events) == /\ at = "tools" /\ Write(events)
                       /\ UNCHANGED <<life, driver, history, bounds>>

Says(v) == IF v \in Ran THEN "ran" ELSE "neverRan"
RecordOfCall == <<ToolCall(started + 1)>>
SkippedPairs == [k \in 1..2 * (asked - started) |->
                   LET i == started + (k + 1) \div 2
                   IN IF k % 2 = 1 THEN ToolCall(i) ELSE ToolResult(i, "neverRan")]
ContextOf(m) == <<Splice("nextStep", Len(log.nextStep), 0, <<m>>, "none")>>

GroupOpens(kind) == /\ NextGroup(kind, Aborted)
                    /\ DuringTools(IF Aborted THEN SkippedPairs ELSE RecordOfCall)
CallStarts(kind) == StartNext(kind, Aborted) /\ DuringTools(RecordOfCall)
GroupCloses(kind) == /\ GroupEnds(kind, Aborted)
                     /\ DuringTools(IF Aborted THEN SkippedPairs ELSE <<>>)
CallPrepared == /\ PrepareDispatches(Aborted) \/ PrepareSettles \/ PrepareFails
                /\ DuringTools(<<>>)
PoolMoves(i, kind) == Race(i, kind, Aborted) /\ DuringTools(<<>>)
ToolsFail == CommitFails /\ DuringTools(<<>>)
ToolsDrained == DrainDone /\ DuringTools(<<>>)

\* A result is committed, perhaps with context for the next step.
ResultOf(v) == <<ToolResult(NextResult, Says(v))>>
ResultCommitted(v, ends) == Commit(v, ends, Aborted) /\ DuringTools(ResultOf(v))
ResultBringsContext(v, m) ==
  /\ Unsent # {} /\ m = Fresh /\ Commit(v, FALSE, Aborted) /\ DuringTools(ResultOf(v) \o ContextOf(m))
ResultBringsTrouble(v) == ContextFails(v, Aborted) /\ DuringTools(ResultOf(v))

\* Before a tool's body the record of its call is made durable.
BodyStarts(i) == /\ at = "tools" /\ EnterBody(i, Aborted) /\ Flush
                 /\ UNCHANGED <<life, driver, history, bounds>>
BodySettles(i) == (BodyEnds(i) \/ NoBody(i)) /\ DuringTools(<<>>)

ToolsStep ==
  \/ \E kind \in Mode : \/ GroupOpens(kind) \/ CallStarts(kind) \/ GroupCloses(kind)
                        \/ \E i \in Call : PoolMoves(i, kind)
  \/ CallPrepared \/ ToolsFail \/ ToolsDrained
  \/ \E v \in Verdict : \/ ResultBringsTrouble(v) \/ \E m \in Msgs : ResultBringsContext(v, m)
                         \/ \E ends \in BOOLEAN : ResultCommitted(v, ends)
  \/ \E i \in Call : BodyStarts(i) \/ BodySettles(i)

-------------------------------------------------------------------------------
(* The end of a step, and of the turn. *)

StepReturned == at = "stepDone" \/ (at = "tools" /\ sched \in {"returned", "threw"})
Threw == result = "failed" \/ sched = "threw"
CloseTools == IF at = "tools" THEN Close ELSE UNCHANGED toolVars

\* max-tokens is kept; a step that called tools and concluded nothing ends no turn.
TurnEndsAfter == CASE turnEnds = "maxTokens" -> turnEnds
                   [] turnEnds # "maxTokens" /\ at = "tools" -> IF concluded THEN "completed" ELSE "none"
                   [] turnEnds # "maxTokens" /\ at = "stepDone" -> result

StepThrows ==
  /\ StepReturned /\ Threw /\ CloseTools
  /\ Fails(RecoveryResults(log) \o <<StepEnd>>)
  /\ UNCHANGED <<life, dropped, shown, bounds>>

StepCancelled ==
  /\ StepReturned /\ ~Threw /\ Aborted /\ CloseTools
  /\ EndTurn("aborted", <<StepEnd>>)
  /\ UNCHANGED <<life, history, bounds>>

\* The next step takes what waits for it; a turn that is over and has nothing
\* waiting may be kept going by a hook.
StepCloses ==
  /\ StepReturned /\ ~Threw /\ ~Aborted /\ CloseTools
  /\ turnEnds' = TurnEndsAfter /\ result' = "none"
  /\ IF turnEnds' # "none" /\ log.nextStep = <<>>
     THEN Write(<<StepEnd>>) /\ at' = "stopping" /\ UNCHANGED <<batch, owed>>
     ELSE ClaimsNext(<<StepEnd>>)
  /\ UNCHANGED <<life, abort, wake, stepped, dropped, shown, bounds>>

StoppingFails ==
  /\ at = "stopping" /\ Fails(<<>>)
  /\ UNCHANGED <<toolVars, life, dropped, shown, bounds>>

TurnStops ==
  /\ at = "stopping" /\ ~Aborted /\ log.nextStep = <<>> /\ Completes(<<>>)
  /\ UNCHANGED <<toolVars, life, history, bounds>>

TurnContinues ==
  /\ at = "stopping" /\ ~Aborted /\ log.nextStep # <<>>
  /\ ClaimsNext(<<>>)
  /\ UNCHANGED <<toolVars, life, abort, wake, stepped, turnEnds, result, dropped, shown, bounds>>

-------------------------------------------------------------------------------
(* Teardown, crash, resume. *)

\* Once the driver is idle the log is drained and the agent leaves its registries,
\* also when the drain fails and what was buffered is lost.
DrainFails == log' = disk /\ buffer' = <<>> /\ UNCHANGED disk
CloseSession ==
  /\ life = "closing" /\ at = "idle" /\ life' = "closed"
  /\ Flush \/ DrainFails
  /\ owed' = {}
  /\ UNCHANGED <<toolVars, driver, dropped, shown, bounds>>

\* The process stops: some prefix of what was buffered had reached the disk.
Crash(k) ==
  /\ life \in {"live", "closing"} /\ crashes < MaxCrashes /\ crashes' = crashes + 1
  /\ k \in 0..Len(buffer)
  /\ log' = After(disk, buffer)[k] /\ disk' = log' /\ buffer' = <<>>
  /\ life' = "down" /\ ToolCrash
  /\ at' = "idle" /\ abort' = "none" /\ wake' = FALSE /\ Forget
  /\ owed' = {}
  /\ UNCHANGED <<dropped, shown, asks>>

\* resumeWith: what the log says of its last turn is closed, durably, before an
\* agent is built over it; what is pending waits for a wake.
Resume ==
  /\ life \in {"closed", "down"} /\ life' = "live" /\ at' = "maintenance"
  /\ log' = Fold(disk, Closers(disk)) /\ disk' = log'
  /\ UNCHANGED <<toolVars, abort, wake, stepped, turnEnds, batch, result, buffer, history, bounds>>

\* It stops again while that is written.
ResumeTorn(k) ==
  /\ life = "down" /\ k \in 1..Len(Closers(disk)) - 1
  /\ log' = After(disk, Closers(disk))[k] /\ disk' = log'
  /\ UNCHANGED <<toolVars, life, driver, buffer, history, bounds>>

-------------------------------------------------------------------------------
Others == \/ \E m \in Msgs : Followup(m) \/ Steer(m) \/ Inject(m) \/ TakeBack(m)
          \/ \E keepInbox \in BOOLEAN : Cancel(keepInbox)
          \/ Dispose \/ StartMaintenance \/ Resume
          \/ \E k \in 0..Len(buffer) : Crash(k)
          \/ \E k \in 1..Len(Closers(disk)) : ResumeTorn(k)

Work == \/ EndMaintenance \/ Unwind \/ StartTurn
        \/ PreStepFails \/ PreStepRejects
        \/ \E entered \in SetToAllKPermutations(ToSet(batch)), context \in BOOLEAN :
             PreStepEnters(entered, context)
        \/ RequestFails \/ RequestReady
        \/ StreamOpens \/ StreamFails \/ StreamErrs \/ Retry \/ GiveUp
        \/ \E how \in {"completed", "maxTokens"} : StreamEnds(how)
        \/ \E n \in Call : StreamAsks(n)
        \/ (at = "tools" /\ ToolsStep)
        \/ StepThrows \/ StepCancelled \/ StepCloses
        \/ StoppingFails \/ TurnStops \/ TurnContinues
        \/ CloseSession

LoopNext == Others \/ Work
LoopSpec == LoopInit /\ [][LoopNext]_loopVars

-------------------------------------------------------------------------------
\* The log is whole. A step that is closed left no tool call unanswered, and none was
\* answered twice or out of the model's order, in memory and on disk: whatever settled
\* first, was cancelled, failed, or was cut off and repaired, even if the repair was cut
\* off too. And what the log has open is what the driver is in: an idle agent's log is
\* balanced, also one that was resumed from any prefix of it.
LogIsWhole ==
  /\ \A l \in {log, disk} : /\ \A k \in DOMAIN l.results : l.results[k].callId = k
                            /\ l.open # "step" => Len(l.results) = l.asked /\ l.pending = {}
  /\ life \in {"live", "closing"} =>
       log.open = IF at \in InStep THEN "step" ELSE IF at \in InTurn THEN "turn" ELSE "none"

\* What the log says of a call is true, also after a crash: a call answered as
\* refused, cancelled before dispatch or not started never entered its body, and a
\* call answered as done or aborted did. (Only "unknown" may be either.)
AnswersStayTrue ==
  log.ask = asks => \A r \in ToSet(log.results) :
                      /\ r.answer = "neverRan" => r.callId \notin ran
                      /\ r.answer = "ran" => r.callId \in ran

\* Nothing takes effect outside before its record is durable: a body that was entered
\* has its call on disk, and a message a model was shown is on disk as admitted, so
\* that no crash makes the agent forget it and run it a second time.
NothingForgotten ==
  /\ ran # {} => disk.ask = asks /\ (disk.asked # 0 => ran \subseteq disk.called)
  /\ \A m \in shown : disk.fate[m] = "admitted"

\* A message is pending, or it has one fate: never both, never twice in the inbox,
\* never in the conversation twice. While the agent runs, what its open turn claimed is
\* still in the driver's hands, and only what a hook rewrote away is spent unseen.
EveryMessageAccounted ==
  /\ \A m \in Pending(log) : log.fate[m] = "none"
  /\ Len(log.nextTurn) + Len(log.nextStep) = Cardinality(Pending(log))
  /\ \A m \in Msgs :
       /\ log.fate[m] # "stray"
       /\ log.fate[m] = "spent" => m \in dropped
       /\ log.fate[m] = "claimed" /\ life \in {"live", "closing"} =>
            log.open # "none" /\ m \in ToSet(batch) \cup dropped

\* An idle agent has no message whose sender woke it and is still owed a turn. Nothing
\* is owed once a turn was rejected, failed or came to nothing while the message
\* waited, or its owner cancelled and kept the inbox: it is parked until the next wake.
NoStrandedWake == life = "live" /\ at = "idle" => owed \cap Pending(log) = {}

\* Once an activity is cancelled it admits no message, enters no step and no tool body.
AbortIsFinal ==
  [][abort # "none" /\ abort' = abort =>
       /\ ran' = ran /\ asks' = asks
       /\ \A m \in Msgs : log'.fate[m] = "admitted" => log.fate[m] = "admitted"
       /\ log'.open = "step" => log.open = "step"]_loopVars
===============================================================================
