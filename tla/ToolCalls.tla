------------------------------- MODULE ToolCalls -------------------------------
(* How one assistant step's tool calls are scheduled (agent-loop/tool-calls.ts,  *)
(* executeToolCalls and runGroup, with what the tool registry does for a call).  *)
(* Calls start in the model's order. A call that may run beside others joins a    *)
(* bounded pool; any other is a barrier and runs alone. Before its body a call is *)
(* prepared (policy, guards) and its record is made durable. Results are committed*)
(* in the model's order, whatever order the bodies settle in. An abort stops new   *)
(* starts, drains what runs and answers the rest; a failure of the scheduler       *)
(* itself drains and throws, and the step answers what is left.                    *)
(* Every action that reads the step's abort signal takes it as a parameter.       *)
(* Abstracted: names, arguments and contents; the policies behind prepare.         *)
EXTENDS Integers, FiniteSets

CONSTANTS MaxCalls,      \* bound: tool calls in one assistant message
          MaxParallel    \* maxParallelToolCalls

ASSUME ToolAssumption == MaxCalls \in Nat \ {0} /\ MaxParallel \in Nat \ {0}

VARIABLES asked,      \* how many calls the assistant message holds
          sched,      \* where the scheduler stands
          call,       \* each call's stage
          verdict,    \* what a settled call is to be answered with
          inFlight,   \* the dispatched calls the scheduler still waits for
          mode,       \* how the current group was classified
          started,    \* calls 1..started have a tool/call record
          committed,  \* calls 1..committed have their result
          concluded,  \* a committed result ended the turn
          ran         \* history: the calls whose body was entered

toolVars == <<asked, sched, call, verdict, inFlight, mode, started, committed, concluded, ran>>

Call == 1..MaxCalls
Mode == {"parallel", "exclusive"}
Stage == {"planned", "preparing", "checkpoint", "body", "settled"}
\* neverRan: denied, no such tool, failed or cancelled before its body. done: with the
\* tool's own result or error. aborted: it had succeeded when the abort was seen.
Ran == {"done", "aborted"}
Verdict == {"neverRan"} \cup Ran

ToolTypeOK == /\ asked \in 0..MaxCalls
              /\ sched \in {"off", "classify", "prepare", "commit", "drain", "returned", "threw"}
              /\ call \in [Call -> Stage]
              /\ verdict \in [Call -> Verdict \cup {"none"}]
              /\ inFlight \in SUBSET Call
              /\ mode \in Mode
              /\ started \in 0..MaxCalls /\ committed \in 0..MaxCalls
              /\ concluded \in BOOLEAN
              /\ ran \in SUBSET Call

\* What the scheduler keeps lives as long as it runs.
Forgotten == /\ asked' = 0
             /\ call' = [i \in Call |-> "planned"]
             /\ verdict' = [i \in Call |-> "none"]
             /\ inFlight' = {} /\ mode' = "parallel"
             /\ started' = 0 /\ committed' = 0 /\ concluded' = FALSE
ToolClear == sched' = "off" /\ Forgotten

ToolInit == /\ sched = "off" /\ asked = 0
            /\ call = [i \in Call |-> "planned"]
            /\ verdict = [i \in Call |-> "none"]
            /\ inFlight = {} /\ mode = "parallel"
            /\ started = 0 /\ committed = 0 /\ concluded = FALSE
            /\ ran = {}

-------------------------------------------------------------------------------
\* An assistant message that asks for n calls.
Ask(n) ==
  /\ sched = "off" /\ n \in Call
  /\ asked' = n /\ sched' = "classify"
  /\ call' = [i \in Call |-> "planned"]
  /\ verdict' = [i \in Call |-> "none"]
  /\ inFlight' = {} /\ mode' = "parallel"
  /\ started' = 0 /\ committed' = 0 /\ concluded' = FALSE /\ ran' = {}

\* startCall: the record of the call is written and its preparation begins.
Start(i) == /\ call' = [call EXCEPT ![i] = "preparing"]
            /\ started' = i /\ sched' = "prepare"
            /\ UNCHANGED <<asked, verdict, inFlight, committed, concluded, ran>>

\* appendSkippedToolCall for every call that was not started: a record and an answer.
SkipRest == /\ started' = asked /\ committed' = asked
            /\ call' = [i \in Call |-> IF i \in started + 1..asked THEN "settled" ELSE call[i]]
            /\ verdict' = [i \in Call |-> IF i \in started + 1..asked THEN "neverRan" ELSE verdict[i]]
            /\ sched' = "returned"
            /\ UNCHANGED <<asked, inFlight, concluded, ran>>

\* executeToolCalls: the first call that is left decides the kind of the next group.
NextGroup(kind, aborted) ==
  /\ sched = "classify" /\ kind \in Mode
  /\ IF aborted THEN SkipRest /\ UNCHANGED mode
     ELSE /\ Start(started + 1)
          /\ mode' = kind

\* The call passes policy and guards and is dispatched; its body is not entered yet.
PrepareDispatches(aborted) ==
  /\ sched = "prepare" /\ ~aborted
  /\ call' = [call EXCEPT ![started] = "checkpoint"]
  /\ inFlight' = inFlight \cup {started}
  /\ sched' = "commit"
  /\ UNCHANGED <<asked, verdict, mode, started, committed, concluded, ran>>

\* It is answered without a dispatch: refused, or cancelled before its policy let it go.
PrepareSettles ==
  /\ sched = "prepare"
  /\ call' = [call EXCEPT ![started] = "settled"]
  /\ verdict' = [verdict EXCEPT ![started] = "neverRan"]
  /\ sched' = "commit"
  /\ UNCHANGED <<asked, inFlight, mode, started, committed, concluded, ran>>

\* The scheduler fails at preparation: it drains what it dispatched.
PrepareFails ==
  /\ sched = "prepare" /\ sched' = "drain"
  /\ UNCHANGED <<asked, call, verdict, inFlight, mode, started, committed, concluded, ran>>

-------------------------------------------------------------------------------
\* Dispatched calls go on beside the scheduler, and beside each other.
Settle(i, v) == /\ call' = [call EXCEPT ![i] = "settled"]
                /\ verdict' = [verdict EXCEPT ![i] = v]
                /\ UNCHANGED <<asked, sched, inFlight, mode, started, committed, concluded, ran>>

\* The call's record is durable and nobody cancelled: the body is entered.
EnterBody(i, aborted) ==
  /\ i \in Call /\ call[i] = "checkpoint" /\ ~aborted
  /\ call' = [call EXCEPT ![i] = "body"]
  /\ ran' = ran \cup {i}
  /\ UNCHANGED <<asked, sched, verdict, inFlight, mode, started, committed, concluded>>

\* Cancelled by then, or the record cannot be made durable, or no such tool.
NoBody(i) == i \in Call /\ call[i] = "checkpoint" /\ Settle(i, "neverRan")

\* A body that was entered is awaited to its end, cancelled or not.
BodyEnds(i) == i \in Call /\ call[i] = "body" /\ Settle(i, "done")

-------------------------------------------------------------------------------
NextResult == committed + 1
ResultReady == committed < started /\ call[NextResult] = "settled"

\* commitReady: the next result in the model's order. One that succeeded before
\* the abort is answered as aborted; a tool's own error is kept.
CommitAs(v, ends, aborted) ==
  /\ sched = "commit" /\ ResultReady
  /\ v = verdict[NextResult] \/ (v = "aborted" /\ aborted /\ verdict[NextResult] = "done")
  /\ verdict' = [verdict EXCEPT ![NextResult] = v]
  /\ committed' = NextResult
  /\ (ends => v = "done") /\ concluded' = (concluded \/ ends)

Commit(v, ends, aborted) ==
  /\ CommitAs(v, ends, aborted)
  /\ UNCHANGED <<asked, sched, call, inFlight, mode, started, ran>>

\* The scheduler fails: a dispatch rejects, or a commit fails before its result is
\* recorded or after it (the context it brings cannot be accepted).
CommitFails ==
  /\ sched = "commit" /\ sched' = "drain"
  /\ ResultReady \/ \E i \in inFlight : call[i] = "settled"
  /\ UNCHANGED <<asked, call, verdict, inFlight, mode, started, committed, concluded, ran>>

ContextFails(v, aborted) ==
  /\ CommitAs(v, FALSE, aborted) /\ sched' = "drain"
  /\ UNCHANGED <<asked, call, inFlight, mode, started, ran>>

\* fillPool and the loop around it, when no result is left to commit. (A result
\* that settles after commitReady looked waits for the next round.) kind is the
\* fresh classification of the next call.
HasRoom == Cardinality(inFlight) < MaxParallel
NothingToCommit == ~(ResultReady /\ NextResult \notin inFlight)
MayStart(kind, aborted) == /\ ~aborted /\ started < asked /\ HasRoom
                           /\ mode = "parallel" /\ kind = "parallel"
DrainedBroken == TRUE
Drained == inFlight = {}

StartNext(kind, aborted) ==
  /\ sched = "commit" /\ NothingToCommit /\ MayStart(kind, aborted)
  /\ Start(started + 1)
  /\ UNCHANGED <<mode>>

\* Promise.race: with nothing to start, one of the settled calls leaves the pool.
Race(i, kind, aborted) ==
  /\ sched = "commit" /\ NothingToCommit /\ ~MayStart(kind, aborted)
  /\ i \in inFlight /\ call[i] = "settled"
  /\ inFlight' = inFlight \ {i}
  /\ UNCHANGED <<asked, sched, call, verdict, mode, started, committed, concluded, ran>>

GroupEnds(kind, aborted) ==
  /\ sched = "commit" /\ NothingToCommit /\ ~MayStart(kind, aborted) /\ Drained
  /\ mode' = "parallel"
  /\ IF aborted THEN SkipRest
     ELSE /\ sched' = IF started < asked THEN "classify" ELSE "returned"
          /\ UNCHANGED <<asked, call, verdict, inFlight, started, committed, concluded, ran>>

\* Every dispatched call has settled: the failure leaves the scheduler.
AllSettledBroken == \A i \in 1..started : call[i] = "settled"
AllSettled == \A i \in inFlight : call[i] = "settled"
DrainDone ==
  /\ sched = "drain" /\ AllSettled
  /\ sched' = "threw" /\ Forgotten /\ UNCHANGED ran

\* The step closes: it answers what a throw left behind, and the scheduler is gone.
Close == sched \in {"returned", "threw"} /\ ToolClear /\ UNCHANGED ran

\* The process stops: what the scheduler held is gone, what ran has run.
ToolCrash == ToolClear /\ UNCHANGED ran

Scheduler(aborted) ==
  \/ \E kind \in Mode : NextGroup(kind, aborted) \/ StartNext(kind, aborted)
                        \/ GroupEnds(kind, aborted) \/ \E i \in Call : Race(i, kind, aborted)
  \/ PrepareDispatches(aborted) \/ PrepareSettles \/ PrepareFails
  \/ \E v \in Verdict : \/ ContextFails(v, aborted)
                         \/ \E ends \in BOOLEAN : Commit(v, ends, aborted)
  \/ CommitFails \/ DrainDone

Bodies(aborted) == \E i \in Call : EnterBody(i, aborted) \/ NoBody(i) \/ BodyEnds(i)

ToolNext == \/ \E n \in Call : Ask(n)
            \/ \E aborted \in BOOLEAN : Scheduler(aborted) \/ Bodies(aborted)
            \/ Close \/ ToolCrash

ToolSpec == ToolInit /\ [][ToolNext]_toolVars

-------------------------------------------------------------------------------
Running == {i \in Call : call[i] \in {"checkpoint", "body"}}

\* No more calls are in flight than the pool allows. A call that may not run beside
\* others has nothing in flight next to it, and one group of calls is over before the
\* next is classified. (runGroup: the pool's size is read before each start, and an
\* exclusive call waits for the pool to drain even when it turned exclusive only after
\* the group began.)
SchedulerOK == /\ Running \subseteq inFlight /\ Cardinality(inFlight) <= MaxParallel
               /\ mode = "exclusive" => inFlight \subseteq {started}
               /\ sched \in {"classify", "returned"} => inFlight = {}

\* What a call is to be answered with is true of it: one that is refused or cancelled
\* before dispatch never entered its body, and one that is done or aborted did.
VerdictsAreTrue == \A i \in Call : /\ verdict[i] = "neverRan" => i \notin ran
                                  /\ verdict[i] \in Ran => i \in ran

\* When the scheduler returns, aborted or not, every call has its result.
AllAnswered == sched = "returned" => committed = asked /\ \A i \in 1..asked : verdict[i] # "none"
===============================================================================
