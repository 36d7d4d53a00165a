---------------------------- MODULE AgentLoopProofs ----------------------------
(* Theorems about the scheduler of tool calls (ToolCalls), for every number of    *)
(* calls and every size of the pool, and about the agent that uses it (AgentLoop)  *)
(* and its log (SessionLog), for every number of messages, calls, asks and stops.  *)
(* The agent uses the scheduler as its specification allows: what is proved of     *)
(* ToolCalls holds inside the agent, whatever happens around it. The log is sound   *)
(* at every point where the process may stop, in memory and on disk.                *)
EXTENDS AgentLoop, FiniteSetTheorems, SequenceTheorems, WellFoundedInduction, TLAPS

-------------------------------------------------------------------------------
(* The scheduler.                                                              *)

(* The inductive invariant, in four parts. *)

\* Records and results are a prefix of the calls, in the model's order.
CountsOK == /\ committed <= started /\ started <= asked
            /\ sched = "classify" => started < asked /\ committed = started
            /\ sched = "returned" => started = asked /\ committed = asked
            /\ sched = "prepare" => started > 0

\* A call has left "planned" once it has a record; only the last one is being
\* prepared; what is committed had settled; and a verdict is a settled call's.
StagesOK == /\ \A i \in Call : call[i] = "planned" <=> i > started
            /\ \A i \in Call : call[i] = "preparing" => i = started /\ sched \in {"prepare", "drain"}
            /\ \A i \in Call : i <= committed => call[i] = "settled"
            /\ \A i \in Call : verdict[i] = "none" <=> call[i] # "settled"
            /\ sched = "prepare" => call[started] = "preparing"

\* The pool holds dispatched calls only, and there is room for the one in preparation.
PoolOK == /\ Running \subseteq inFlight /\ IsFiniteSet(inFlight)
          /\ \A i \in inFlight : call[i] \in {"checkpoint", "body", "settled"}
          /\ sched \in {"classify", "returned"} => inFlight = {}
          /\ mode = "exclusive" => inFlight \subseteq {started}
          /\ Cardinality(inFlight) <= MaxParallel
          /\ sched = "prepare" => Cardinality(inFlight) < MaxParallel

\* While the scheduler holds a step's calls, the bodies that were entered are known
\* by their calls' stage and verdict.
BodiesOK == /\ \A i \in Call : call[i] = "body" => i \in ran
            /\ \A i \in Call : verdict[i] \in Ran => i \in ran
            /\ \A i \in Call : verdict[i] = "neverRan" => i \notin ran
            /\ sched \notin {"off", "threw"} =>
                 \A i \in Call : call[i] \in {"planned", "preparing", "checkpoint"} => i \notin ran
            /\ sched \in {"off", "threw"} => started = 0

ToolInv == ToolTypeOK /\ CountsOK /\ StagesOK /\ PoolOK /\ BodiesOK
\* The empty pool, and the calls before any has a record.
LEMMA EmptyPool == IsFiniteSet({}) /\ Cardinality({}) = 0
  BY FS_EmptySet

LEMMA PlannedTypes ==
  /\ [i \in Call |-> "planned"] \in [Call -> Stage]
  /\ [i \in Call |-> "none"] \in [Call -> Verdict \cup {"none"}]
  BY DEF Stage

LEMMA ForgottenKeeps ==
  ASSUME ToolInv, Forgotten, sched' \in {"off", "threw"}, ran' = ran
  PROVE  ToolInv'
  <1> USE ToolAssumption DEF ToolInv, Forgotten
  <1>1. ToolTypeOK'
    <2>1. call' \in [Call -> Stage] /\ verdict' \in [Call -> Verdict \cup {"none"}]
      BY PlannedTypes, Zenon
    <2>2. asked' \in 0..MaxCalls /\ started' \in 0..MaxCalls /\ committed' \in 0..MaxCalls
      BY DEF Call
    <2>3. inFlight' \in SUBSET Call /\ ran' \in SUBSET Call /\ concluded' \in BOOLEAN /\ mode' \in Mode
      BY DEF ToolTypeOK, Mode
    <2>4. sched' \in {"off", "classify", "prepare", "commit", "drain", "returned", "threw"}
      OBVIOUS
    <2>5. QED BY <2>1, <2>2, <2>3, <2>4, Zenon DEF ToolTypeOK
  <1>2. CountsOK'
    BY DEF CountsOK
  <1>3. StagesOK'
    BY DEF StagesOK, Call
  <1>4. PoolOK'
    BY EmptyPool DEF PoolOK, Running
  <1>5. BodiesOK'
    BY DEF BodiesOK, Ran
  <1>6. QED BY <1>1, <1>2, <1>3, <1>4, <1>5

LEMMA AskKeeps ==
  ASSUME ToolInv, NEW n \in Call, Ask(n)
  PROVE  ToolInv'
  <1> USE ToolAssumption DEF ToolInv, Ask
  <1>1. ToolTypeOK'
    <2>1. call' \in [Call -> Stage] /\ verdict' \in [Call -> Verdict \cup {"none"}]
      BY PlannedTypes, Zenon
    <2>2. asked' \in 0..MaxCalls /\ started' \in 0..MaxCalls /\ committed' \in 0..MaxCalls
      BY DEF Call
    <2>3. inFlight' \in SUBSET Call /\ ran' \in SUBSET Call /\ concluded' \in BOOLEAN /\ mode' \in Mode
      BY DEF ToolTypeOK, Mode
    <2>4. sched' \in {"off", "classify", "prepare", "commit", "drain", "returned", "threw"}
      OBVIOUS
    <2>5. QED BY <2>1, <2>2, <2>3, <2>4, Zenon DEF ToolTypeOK
  <1>2. CountsOK'
    BY DEF ToolTypeOK, CountsOK, Call, Mode, Stage, StagesOK, PoolOK, Running
  <1>3. StagesOK'
    BY DEF ToolTypeOK, CountsOK, StagesOK, Call, Stage, Verdict, Ran, PoolOK, Running
  <1>4. PoolOK'
    BY EmptyPool DEF PoolOK, Running
  <1>5. BodiesOK'
    BY DEF ToolTypeOK, CountsOK, StagesOK, PoolOK, Running, BodiesOK, Call, Stage, Verdict, Ran
  <1>6. QED BY <1>1, <1>2, <1>3, <1>4, <1>5

\* The calls that are left are answered, once all that has a record is answered.
LEMMA SkipRestKeeps ==
  ASSUME ToolInv, SkipRest, inFlight = {}, committed = started,
         mode' = mode \/ mode' = "parallel", sched \in {"classify", "commit"}
  PROVE  ToolInv'
  <1> USE ToolAssumption DEF ToolInv, SkipRest
  <1>1. ToolTypeOK'
    <2>1. call' \in [Call -> Stage]
      BY DEF ToolTypeOK, Stage
    <2>2. verdict' \in [Call -> Verdict \cup {"none"}]
      BY DEF ToolTypeOK, Verdict
    <2>3. QED BY <2>1, <2>2 DEF ToolTypeOK, Mode
  <1>2. CountsOK'
    BY DEF ToolTypeOK, CountsOK
  <1>3. StagesOK'
    BY DEF ToolTypeOK, CountsOK, StagesOK, Call, Stage, Verdict, Ran
  <1>4. PoolOK'
    BY DEF ToolTypeOK, CountsOK, StagesOK, PoolOK, Running, Call
  <1>5. BodiesOK'
    BY DEF ToolTypeOK, CountsOK, StagesOK, PoolOK, Running, BodiesOK, Call, Stage, Verdict, Ran
  <1>6. QED BY <1>1, <1>2, <1>3, <1>4, <1>5

LEMMA NextGroupKeeps ==
  ASSUME ToolInv, NEW kind \in Mode, NEW aborted \in BOOLEAN, NextGroup(kind, aborted)
  PROVE  ToolInv'
  <1> USE ToolAssumption DEF ToolInv, NextGroup
  <1>1. CASE aborted
    BY <1>1, SkipRestKeeps DEF CountsOK, PoolOK
  <1>2. CASE ~aborted
    <2> USE <1>2 DEF Start
    <2>1. ToolTypeOK'
      <3>1. call' \in [Call -> Stage]
        BY DEF ToolTypeOK, Stage
      <3>2. QED BY <3>1 DEF ToolTypeOK, CountsOK
    <2>2. CountsOK'
      BY DEF ToolTypeOK, CountsOK
    <2>3. StagesOK'
      BY DEF ToolTypeOK, CountsOK, StagesOK, Call
    <2>4. PoolOK'
      <3>1. inFlight = {} /\ inFlight' = {}
        BY DEF PoolOK
      <3>2. Running' = {}
        <4>1. \A i \in Call : call[i] \notin {"checkpoint", "body"}
          BY <3>1 DEF PoolOK, Running
        <4>2. QED BY <4>1 DEF Running, ToolTypeOK
      <3>3. QED BY <3>1, <3>2, EmptyPool DEF PoolOK
    <2>5. BodiesOK'
      BY DEF ToolTypeOK, CountsOK, StagesOK, BodiesOK, Call
    <2>6. QED BY <2>1, <2>2, <2>3, <2>4, <2>5
  <1>3. QED BY <1>1, <1>2

LEMMA PrepareDispatchesKeeps ==
  ASSUME ToolInv, NEW aborted \in BOOLEAN, PrepareDispatches(aborted)
  PROVE  ToolInv'
  <1> USE ToolAssumption DEF ToolInv, PrepareDispatches
  <1>1. ToolTypeOK'
    BY DEF ToolTypeOK, CountsOK, Call, Mode, Stage, Verdict, Ran
  <1>2. CountsOK'
    BY DEF ToolTypeOK, CountsOK, Call, Mode, Stage, StagesOK, PoolOK, Running
  <1>3. StagesOK'
    BY DEF ToolTypeOK, CountsOK, StagesOK, Call, Stage, Verdict, Ran, PoolOK, Running
  <1>4. PoolOK'
    <2>1. started \in Call /\ started \notin inFlight
      BY DEF ToolTypeOK, CountsOK, StagesOK, PoolOK, Call
    <2>2. IsFiniteSet(inFlight \cup {started}) /\ Cardinality(inFlight \cup {started}) = Cardinality(inFlight) + 1
      BY <2>1, FS_AddElement DEF PoolOK
    <2>3. QED BY <2>1, <2>2, FS_CardinalityType DEF ToolTypeOK, StagesOK, PoolOK, Running, Call, Stage, Mode
  <1>5. BodiesOK'
    BY DEF ToolTypeOK, CountsOK, StagesOK, PoolOK, Running, BodiesOK, Call, Stage, Verdict, Ran
  <1>6. QED BY <1>1, <1>2, <1>3, <1>4, <1>5

LEMMA PrepareSettlesKeeps ==
  ASSUME ToolInv, PrepareSettles
  PROVE  ToolInv'
  <1> USE ToolAssumption DEF ToolInv, PrepareSettles
  <1>1. ToolTypeOK'
    BY DEF ToolTypeOK, CountsOK, Call, Mode, Stage, Verdict, Ran
  <1>2. CountsOK'
    BY DEF ToolTypeOK, CountsOK, Call, Mode, Stage, StagesOK, PoolOK, Running
  <1>3. StagesOK'
    BY DEF ToolTypeOK, CountsOK, StagesOK, Call, Stage, Verdict, Ran, PoolOK, Running
  <1>4. PoolOK'
    BY DEF ToolTypeOK, CountsOK, StagesOK, PoolOK, Running, Call, Stage, Mode
  <1>5. BodiesOK'
    BY DEF ToolTypeOK, CountsOK, StagesOK, PoolOK, Running, BodiesOK, Call, Stage, Verdict, Ran
  <1>6. QED BY <1>1, <1>2, <1>3, <1>4, <1>5

LEMMA PrepareFailsKeeps ==
  ASSUME ToolInv, PrepareFails
  PROVE  ToolInv'
  <1> USE ToolAssumption DEF ToolInv, PrepareFails
  <1>1. ToolTypeOK'
    BY DEF ToolTypeOK, CountsOK, Call, Mode, Stage, Verdict, Ran
  <1>2. CountsOK'
    BY DEF ToolTypeOK, CountsOK, Call, Mode, Stage, StagesOK, PoolOK, Running
  <1>3. StagesOK'
    BY DEF ToolTypeOK, CountsOK, StagesOK, Call, Stage, Verdict, Ran, PoolOK, Running
  <1>4. PoolOK'
    BY DEF ToolTypeOK, CountsOK, StagesOK, PoolOK, Running, Call, Stage, Mode
  <1>5. BodiesOK'
    BY DEF ToolTypeOK, CountsOK, StagesOK, PoolOK, Running, BodiesOK, Call, Stage, Verdict, Ran
  <1>6. QED BY <1>1, <1>2, <1>3, <1>4, <1>5

LEMMA EnterBodyKeeps ==
  ASSUME ToolInv, NEW aborted \in BOOLEAN, NEW i \in Call, EnterBody(i, aborted)
  PROVE  ToolInv'
  <1> USE ToolAssumption DEF ToolInv, EnterBody
  <1>1. ToolTypeOK'
    BY DEF ToolTypeOK, CountsOK, Call, Mode, Stage, Verdict, Ran
  <1>2. CountsOK'
    BY DEF ToolTypeOK, CountsOK, Call, Mode, Stage, StagesOK, PoolOK, Running
  <1>3. StagesOK'
    BY DEF ToolTypeOK, CountsOK, StagesOK, Call, Stage, Verdict, Ran, PoolOK, Running
  <1>4. PoolOK'
    BY DEF ToolTypeOK, CountsOK, StagesOK, PoolOK, Running, Call, Stage, Mode
  <1>5. BodiesOK'
    BY DEF ToolTypeOK, CountsOK, StagesOK, PoolOK, Running, BodiesOK, Call, Stage, Verdict, Ran
  <1>6. QED BY <1>1, <1>2, <1>3, <1>4, <1>5

LEMMA NoBodyKeeps ==
  ASSUME ToolInv, NEW i \in Call, NoBody(i)
  PROVE  ToolInv'
  <1> USE ToolAssumption DEF ToolInv, NoBody, Settle
  <1>1. ToolTypeOK'
    BY DEF ToolTypeOK, CountsOK, Call, Mode, Stage, Verdict, Ran
  <1>2. CountsOK'
    BY DEF ToolTypeOK, CountsOK, Call, Mode, Stage, StagesOK, PoolOK, Running
  <1>3. StagesOK'
    BY DEF ToolTypeOK, CountsOK, StagesOK, Call, Stage, Verdict, Ran, PoolOK, Running
  <1>4. PoolOK'
    BY DEF ToolTypeOK, CountsOK, StagesOK, PoolOK, Running, Call, Stage, Mode
  <1>5. BodiesOK'
    BY DEF ToolTypeOK, CountsOK, StagesOK, PoolOK, Running, BodiesOK, Call, Stage, Verdict, Ran
  <1>6. QED BY <1>1, <1>2, <1>3, <1>4, <1>5

LEMMA BodyEndsKeeps ==
  ASSUME ToolInv, NEW i \in Call, BodyEnds(i)
  PROVE  ToolInv'
  <1> USE ToolAssumption DEF ToolInv, BodyEnds, Settle
  <1>1. ToolTypeOK'
    BY DEF ToolTypeOK, CountsOK, Call, Mode, Stage, Verdict, Ran
  <1>2. CountsOK'
    BY DEF ToolTypeOK, CountsOK, Call, Mode, Stage, StagesOK, PoolOK, Running
  <1>3. StagesOK'
    BY DEF ToolTypeOK, CountsOK, StagesOK, Call, Stage, Verdict, Ran, PoolOK, Running
  <1>4. PoolOK'
    BY DEF ToolTypeOK, CountsOK, StagesOK, PoolOK, Running, Call, Stage, Mode
  <1>5. BodiesOK'
    BY DEF ToolTypeOK, CountsOK, StagesOK, PoolOK, Running, BodiesOK, Call, Stage, Verdict, Ran
  <1>6. QED BY <1>1, <1>2, <1>3, <1>4, <1>5

LEMMA CommitKeeps ==
  ASSUME ToolInv, NEW v \in Verdict, NEW ends \in BOOLEAN, NEW aborted \in BOOLEAN, Commit(v, ends, aborted)
  PROVE  ToolInv'
  <1> USE ToolAssumption DEF ToolInv, Commit, CommitAs, NextResult, ResultReady
  <1>1. ToolTypeOK'
    BY DEF ToolTypeOK, CountsOK, Call, Mode, Stage, Verdict, Ran
  <1>2. CountsOK'
    BY DEF ToolTypeOK, CountsOK, Call, Mode, Stage, StagesOK, PoolOK, Running
  <1>3. StagesOK'
    BY DEF ToolTypeOK, CountsOK, StagesOK, Call, Stage, Verdict, Ran, PoolOK, Running
  <1>4. PoolOK'
    BY DEF ToolTypeOK, CountsOK, StagesOK, PoolOK, Running, Call, Stage, Mode
  <1>5. BodiesOK'
    BY DEF ToolTypeOK, CountsOK, StagesOK, PoolOK, Running, BodiesOK, Call, Stage, Verdict, Ran
  <1>6. QED BY <1>1, <1>2, <1>3, <1>4, <1>5

LEMMA CommitFailsKeeps ==
  ASSUME ToolInv, CommitFails
  PROVE  ToolInv'
  <1> USE ToolAssumption DEF ToolInv, CommitFails
  <1>1. ToolTypeOK'
    BY DEF ToolTypeOK, CountsOK, Call, Mode, Stage, Verdict, Ran
  <1>2. CountsOK'
    BY DEF ToolTypeOK, CountsOK, Call, Mode, Stage, StagesOK, PoolOK, Running
  <1>3. StagesOK'
    BY DEF ToolTypeOK, CountsOK, StagesOK, Call, Stage, Verdict, Ran, PoolOK, Running
  <1>4. PoolOK'
    BY DEF ToolTypeOK, CountsOK, StagesOK, PoolOK, Running, Call, Stage, Mode
  <1>5. BodiesOK'
    BY DEF ToolTypeOK, CountsOK, StagesOK, PoolOK, Running, BodiesOK, Call, Stage, Verdict, Ran
  <1>6. QED BY <1>1, <1>2, <1>3, <1>4, <1>5

LEMMA ContextFailsKeeps ==
  ASSUME ToolInv, NEW v \in Verdict, NEW aborted \in BOOLEAN, ContextFails(v, aborted)
  PROVE  ToolInv'
  <1> USE ToolAssumption DEF ToolInv, ContextFails, CommitAs, NextResult, ResultReady
  <1>1. ToolTypeOK'
    BY DEF ToolTypeOK, CountsOK, Call, Mode, Stage, Verdict, Ran
  <1>2. CountsOK'
    BY DEF ToolTypeOK, CountsOK, Call, Mode, Stage, StagesOK, PoolOK, Running
  <1>3. StagesOK'
    BY DEF ToolTypeOK, CountsOK, StagesOK, Call, Stage, Verdict, Ran, PoolOK, Running
  <1>4. PoolOK'
    BY DEF ToolTypeOK, CountsOK, StagesOK, PoolOK, Running, Call, Stage, Mode
  <1>5. BodiesOK'
    BY DEF ToolTypeOK, CountsOK, StagesOK, PoolOK, Running, BodiesOK, Call, Stage, Verdict, Ran
  <1>6. QED BY <1>1, <1>2, <1>3, <1>4, <1>5

LEMMA StartNextKeeps ==
  ASSUME ToolInv, NEW kind \in Mode, NEW aborted \in BOOLEAN, StartNext(kind, aborted)
  PROVE  ToolInv'
  <1> USE ToolAssumption DEF ToolInv, StartNext, Start, MayStart, HasRoom
  <1>1. ToolTypeOK'
    BY DEF ToolTypeOK, CountsOK, Call, Mode, Stage, Verdict, Ran
  <1>2. CountsOK'
    BY DEF ToolTypeOK, CountsOK, Call, Mode, Stage, StagesOK, PoolOK, Running
  <1>3. StagesOK'
    BY DEF ToolTypeOK, CountsOK, StagesOK, Call, Stage, Verdict, Ran, PoolOK, Running
  <1>4. PoolOK'
    BY DEF ToolTypeOK, CountsOK, StagesOK, PoolOK, Running, Call, Stage, Mode
  <1>5. BodiesOK'
    BY DEF ToolTypeOK, CountsOK, StagesOK, PoolOK, Running, BodiesOK, Call, Stage, Verdict, Ran
  <1>6. QED BY <1>1, <1>2, <1>3, <1>4, <1>5

LEMMA RaceKeeps ==
  ASSUME ToolInv, NEW i \in Call, NEW kind \in Mode, NEW aborted \in BOOLEAN, Race(i, kind, aborted)
  PROVE  ToolInv'
  <1> USE ToolAssumption DEF ToolInv, Race
  <1>1. ToolTypeOK'
    BY DEF ToolTypeOK, CountsOK, Call, Mode, Stage, Verdict, Ran
  <1>2. CountsOK'
    BY DEF ToolTypeOK, CountsOK, Call, Mode, Stage, StagesOK, PoolOK, Running
  <1>3. StagesOK'
    BY DEF ToolTypeOK, CountsOK, StagesOK, Call, Stage, Verdict, Ran, PoolOK, Running
  <1>4. PoolOK'
    <2>1. IsFiniteSet(inFlight \ {i}) /\ Cardinality(inFlight \ {i}) <= Cardinality(inFlight)
      BY FS_Subset, FS_RemoveElement, FS_CardinalityType DEF PoolOK
    <2>2. QED BY <2>1, FS_CardinalityType DEF ToolTypeOK, CountsOK, StagesOK, PoolOK, Running, Call, Stage, Mode
  <1>5. BodiesOK'
    BY DEF ToolTypeOK, CountsOK, StagesOK, PoolOK, Running, BodiesOK, Call, Stage, Verdict, Ran
  <1>6. QED BY <1>1, <1>2, <1>3, <1>4, <1>5

LEMMA GroupEndsKeeps ==
  ASSUME ToolInv, NEW kind \in Mode, NEW aborted \in BOOLEAN, GroupEnds(kind, aborted)
  PROVE  ToolInv'
  <1> USE ToolAssumption DEF ToolInv, GroupEnds
  <1>1. inFlight = {} /\ committed = started /\ sched = "commit"
    BY DEF Drained, NothingToCommit, ResultReady, NextResult, ToolTypeOK, CountsOK, StagesOK,
           PoolOK, Running, Call, Stage
  <1>2. CASE aborted
    BY <1>1, <1>2, SkipRestKeeps DEF CountsOK, StagesOK
  <1>3. CASE ~aborted
    <2>1. ToolTypeOK'
      BY <1>3 DEF ToolTypeOK, Mode
    <2>2. CountsOK'
      BY <1>1, <1>3 DEF CountsOK, ToolTypeOK
    <2>3. StagesOK'
      BY <1>1, <1>3 DEF StagesOK
    <2>4. PoolOK'
      BY <1>1, <1>3, EmptyPool DEF PoolOK, Running
    <2>5. BodiesOK'
      BY <1>1, <1>3 DEF BodiesOK
    <2>6. QED BY <2>1, <2>2, <2>3, <2>4, <2>5
  <1>4. QED BY <1>2, <1>3

LEMMA DrainDoneKeeps ==
  ASSUME ToolInv, DrainDone
  PROVE  ToolInv'
  BY ForgottenKeeps DEF DrainDone

LEMMA CloseKeeps ==
  ASSUME ToolInv, Close
  PROVE  ToolInv'
  BY ForgottenKeeps DEF Close, ToolClear

LEMMA ToolCrashKeeps ==
  ASSUME ToolInv, ToolCrash
  PROVE  ToolInv'
  BY ForgottenKeeps DEF ToolCrash, ToolClear

-------------------------------------------------------------------------------
(* The theorems. *)

LEMMA ToolInitOK == ToolInit => ToolInv
  <1> SUFFICES ASSUME ToolInit PROVE ToolInv
    OBVIOUS
  <1> USE ToolAssumption DEF ToolInit, ToolInv
  <1>1. ToolTypeOK
    <2>1. call \in [Call -> Stage] /\ verdict \in [Call -> Verdict \cup {"none"}]
      BY PlannedTypes, Zenon
    <2>2. asked \in 0..MaxCalls /\ started \in 0..MaxCalls /\ committed \in 0..MaxCalls
      BY DEF Call
    <2>3. inFlight \in SUBSET Call /\ ran \in SUBSET Call /\ concluded \in BOOLEAN /\ mode \in Mode
      BY DEF ToolTypeOK, Mode
    <2>4. sched \in {"off", "classify", "prepare", "commit", "drain", "returned", "threw"}
      OBVIOUS
    <2>5. QED BY <2>1, <2>2, <2>3, <2>4, Zenon DEF ToolTypeOK
  <1>2. CountsOK /\ StagesOK /\ BodiesOK
    BY DEF CountsOK, StagesOK, BodiesOK, Call, Ran
  <1>3. PoolOK
    BY EmptyPool DEF PoolOK, Running
  <1>4. QED BY <1>1, <1>2, <1>3

LEMMA ToolNextKeeps == ToolInv /\ [ToolNext]_toolVars => ToolInv'
  <1> SUFFICES ASSUME ToolInv, [ToolNext]_toolVars PROVE ToolInv'
    OBVIOUS
  <1>1. ASSUME NEW n \in Call, Ask(n) PROVE ToolInv'
    BY <1>1, AskKeeps
  <1>2. ASSUME NEW aborted \in BOOLEAN, Scheduler(aborted) PROVE ToolInv'
    BY <1>2, NextGroupKeeps, StartNextKeeps, GroupEndsKeeps, RaceKeeps, PrepareDispatchesKeeps,
       PrepareSettlesKeeps, PrepareFailsKeeps, ContextFailsKeeps, CommitKeeps, CommitFailsKeeps,
       DrainDoneKeeps, Zenon DEF Scheduler
  <1>3. ASSUME NEW aborted \in BOOLEAN, Bodies(aborted) PROVE ToolInv'
    BY <1>3, EnterBodyKeeps, NoBodyKeeps, BodyEndsKeeps, Zenon DEF Bodies
  <1>4. CASE Close \/ ToolCrash
    BY <1>4, CloseKeeps, ToolCrashKeeps
  <1>5. CASE UNCHANGED toolVars
    BY <1>5, Zenon DEF toolVars, ToolInv, ToolTypeOK, CountsOK, StagesOK, PoolOK, BodiesOK, Running
  <1>6. QED BY <1>1, <1>2, <1>3, <1>4, <1>5 DEF ToolNext

\* The inductive invariant holds of every number of calls and every size of the pool.
THEOREM ToolInvariant == ToolSpec => []ToolInv
  BY ToolInitOK, ToolNextKeeps, PTL DEF ToolSpec

\* The scheduler's variables keep their types.
THEOREM ToolTypes == ToolSpec => []ToolTypeOK
  BY ToolInvariant, PTL DEF ToolInv

\* The pool is never over its size, an exclusive call runs alone, and a group is over
\* before the next is classified.
LEMMA ToolInvScheduler == ToolInv => SchedulerOK
  BY DEF ToolInv, PoolOK, SchedulerOK

\* So it is in every reachable state, whatever fails and whenever the signal changes.
THEOREM ThePoolIsBounded == ToolSpec => []SchedulerOK
  BY ToolInvariant, ToolInvScheduler, PTL

\* No call that entered its body is answered as never run, and none that is answered
\* as run did not.
LEMMA ToolInvVerdicts == ToolInv => VerdictsAreTrue
  BY DEF ToolInv, BodiesOK, VerdictsAreTrue

\* So an answer can be believed, also after an abort or a failure of the scheduler itself.
THEOREM VerdictsAreAlwaysTrue == ToolSpec => []VerdictsAreTrue
  BY ToolInvariant, ToolInvVerdicts, PTL

\* A scheduler that returns has answered every call.
LEMMA ToolInvAnswers == ToolInv => AllAnswered
  <1> SUFFICES ASSUME ToolInv, sched = "returned" PROVE committed = asked /\ \A i \in 1..asked : verdict[i] # "none"
    BY DEF AllAnswered
  <1>1. committed = asked /\ asked \in 0..MaxCalls
    BY DEF ToolInv, ToolTypeOK, CountsOK
  <1>2. \A i \in 1..asked : i \in Call /\ call[i] = "settled"
    BY <1>1, ToolAssumption DEF ToolInv, StagesOK, Call
  <1>3. QED BY <1>1, <1>2 DEF ToolInv, StagesOK

\* So the step's answers are complete whenever the scheduler returns, aborted or not.
THEOREM ReturningAnswersAll == ToolSpec => []AllAnswered
  BY ToolInvariant, ToolInvAnswers, PTL

-------------------------------------------------------------------------------
(* The agent.                                                                  *)

\* What leaves the scheduler alone, one action at a time.
LEMMA OthersLeaveTools ==
  ASSUME \/ \E m \in Msgs : Followup(m) \/ Steer(m) \/ Inject(m) \/ TakeBack(m)
         \/ \E keepInbox \in BOOLEAN : Cancel(keepInbox)
         \/ Dispose \/ StartMaintenance \/ Resume
         \/ \E k \in 1..Len(Closers(disk)) : ResumeTorn(k)
  PROVE  UNCHANGED toolVars
  BY Zenon DEF Followup, Steer, Inject, Send, TakeBack, Cancel, CancelWith, Dispose, StartMaintenance,
            Resume, ResumeTorn

LEMMA TurnsLeaveTools ==
  ASSUME \/ EndMaintenance \/ Unwind \/ StartTurn
         \/ PreStepFails \/ PreStepRejects
         \/ \E entered \in SetToAllKPermutations(ToSet(batch)), context \in BOOLEAN : PreStepEnters(entered, context)
         \/ StoppingFails \/ TurnStops \/ TurnContinues \/ CloseSession
  PROVE  UNCHANGED toolVars
  BY Zenon DEF EndMaintenance, Unwind, StartTurn, PreStepFails, PreStepRejects, PreStepEnters,
            StoppingFails, TurnStops, TurnContinues, CloseSession

LEMMA RequestsLeaveTools ==
  ASSUME \/ RequestFails \/ RequestReady
         \/ StreamOpens \/ StreamFails \/ StreamErrs \/ Retry \/ GiveUp
         \/ \E how \in {"completed", "maxTokens"} : StreamEnds(how)
  PROVE  UNCHANGED toolVars
  BY Zenon DEF RequestFails, RequestReady, StreamOpens, StreamFails, StreamErrs, Retry, GiveUp,
            StreamEnds, StepFails

\* What moves it, moves it as ToolCalls says.
LEMMA ToolsStepFollowsAbort ==
  ASSUME ToolsStep PROVE Scheduler(Aborted) \/ Bodies(Aborted)
  BY Zenon DEF ToolsStep, GroupOpens, CallStarts, GroupCloses, PoolMoves, CallPrepared, ToolsFail, ToolsDrained,
            ResultBringsTrouble, ResultBringsContext, ResultCommitted, BodyStarts, BodySettles,
            Scheduler, Bodies

LEMMA ToolsStepIsScheduled ==
  ASSUME ToolsStep PROVE \E aborted \in BOOLEAN : Scheduler(aborted) \/ Bodies(aborted)
  <1>1. Aborted \in BOOLEAN
    BY DEF Aborted
  <1>2. QED BY <1>1, ToolsStepFollowsAbort, Zenon

LEMMA StepEndsAreToolNext ==
  ASSUME StepThrows \/ StepCancelled \/ StepCloses PROVE [ToolNext]_toolVars
  <1>1. CloseTools
    BY Zenon DEF StepThrows, StepCancelled, StepCloses
  <1>2. QED BY <1>1, Zenon DEF CloseTools, ToolNext

LEMMA LoopNextIsToolNext == [LoopNext]_loopVars => [ToolNext]_toolVars
  <1> SUFFICES ASSUME [LoopNext]_loopVars PROVE [ToolNext]_toolVars
    OBVIOUS
  <1>1. CASE Others
    <2>1. CASE \E k \in 0..Len(buffer) : Crash(k)
      BY <2>1, Zenon DEF Crash, ToolNext
    <2>2. CASE ~\E k \in 0..Len(buffer) : Crash(k)
      BY <1>1, <2>2, OthersLeaveTools, Zenon DEF Others
    <2>3. QED BY <2>1, <2>2
  <1>2. CASE Work
    <2>1. CASE \E n \in Call : StreamAsks(n)
      BY <2>1, Zenon DEF StreamAsks, ToolNext
    <2>2. CASE at = "tools" /\ ToolsStep
      BY <2>2, ToolsStepIsScheduled, Zenon DEF ToolNext
    <2>3. CASE StepThrows \/ StepCancelled \/ StepCloses
      BY <2>3, StepEndsAreToolNext
    <2>4. QED BY <1>2, <2>1, <2>2, <2>3, TurnsLeaveTools, RequestsLeaveTools, Zenon DEF Work
  <1>3. CASE UNCHANGED loopVars
    BY <1>3 DEF loopVars
  <1>4. QED BY <1>1, <1>2, <1>3 DEF LoopNext

\* The agent implements the scheduler's specification.
THEOREM LoopImplementsTools == LoopSpec => ToolSpec
  <1>1. LoopInit => ToolInit
    BY DEF LoopInit
  <1>2. QED BY <1>1, LoopNextIsToolNext, PTL DEF LoopSpec, ToolSpec

\* Inside the agent too, under any cancellation, teardown or crash: the pool is
\* bounded, an exclusive call runs alone and groups do not overlap.
THEOREM ThePoolIsBoundedInTheLoop == LoopSpec => []SchedulerOK
  BY LoopImplementsTools, ThePoolIsBounded, PTL

\* And what a step's calls are answered with is true of them, and complete.
THEOREM VerdictsAreTrueInTheLoop == LoopSpec => [](VerdictsAreTrue /\ AllAnswered)
  BY LoopImplementsTools, VerdictsAreAlwaysTrue, ReturningAnswersAll, PTL

-------------------------------------------------------------------------------
(* The driver and what it holds. *)

\* The scheduler works only in a step that called tools; an idle agent has no abort
\* and no latched wake left, and only a live or closing agent has a driver at work.
DriverInv == /\ sched # "off" <=> at = "tools"
             /\ at = "idle" => abort = "none" /\ wake = FALSE
             /\ abort = "disposed" => life = "closing"
             /\ life \in {"closed", "down"} => at = "idle"

\* A step in which neither the scheduler nor the place of the driver is touched.
LEMMA OthersKeepDriver ==
  ASSUME DriverInv, Others
  PROVE  DriverInv'
  <1> USE DEF DriverInv, toolVars
  <1>1. CASE \E m \in Msgs : Followup(m) \/ Steer(m) \/ Inject(m)
    <2>1. PICK m \in Msgs, target \in {"nextTurn", "nextStep"}, waking \in BOOLEAN : Send(m, target, waking)
      BY <1>1, Zenon DEF Followup, Steer, Inject
    <2>2. CASE waking /\ at = "idle"
      BY <2>1, <2>2 DEF Send, OpenTurn
    <2>3. CASE ~(waking /\ at = "idle")
      BY <2>1, <2>3 DEF Send, Latches
    <2>4. QED BY <2>2, <2>3
  <1>2. CASE \E m \in Msgs : TakeBack(m)
    BY <1>2 DEF TakeBack, driver
  <1>3. CASE (\E keepInbox \in BOOLEAN : Cancel(keepInbox)) \/ Dispose
    <2>1. PICK keepInbox \in BOOLEAN, cause \in {"user", "disposed"} :
            /\ CancelWith(cause, keepInbox) /\ life = "live"
            /\ life' = IF cause = "user" THEN life ELSE "closing"
      BY <1>3 DEF Cancel, Dispose
    <2>2. QED BY <2>1 DEF CancelWith
  <1>4. CASE StartMaintenance \/ Resume
    BY <1>4 DEF StartMaintenance, Resume
  <1>5. CASE \E k \in 0..Len(buffer) : Crash(k)
    BY <1>5 DEF Crash, ToolCrash, ToolClear
  <1>6. CASE \E k \in 1..Len(Closers(disk)) : ResumeTorn(k)
    BY <1>6 DEF ResumeTorn, driver
  <1>7. QED BY <1>1, <1>2, <1>3, <1>4, <1>5, <1>6, Zenon DEF Others

\* Idle, or at once a new turn.
LEMMA RestKeepsDriver ==
  ASSUME DriverInv, Rest, at \notin {"tools", "idle"}, UNCHANGED <<toolVars, life>>
  PROVE  DriverInv'
  BY DEF DriverInv, Rest, OpenTurn, toolVars

LEMMA TurnsKeepDriver ==
  ASSUME DriverInv,
         \/ EndMaintenance \/ Unwind \/ StartTurn
         \/ PreStepFails \/ PreStepRejects
         \/ \E entered \in SetToAllKPermutations(ToSet(batch)), context \in BOOLEAN : PreStepEnters(entered, context)
         \/ StoppingFails \/ TurnStops \/ TurnContinues \/ CloseSession
  PROVE  DriverInv'
  <1> USE DEF DriverInv, toolVars
  <1>1. CASE EndMaintenance
    BY <1>1, RestKeepsDriver DEF EndMaintenance
  <1>2. CASE Unwind
    BY <1>2, RestKeepsDriver DEF Unwind
  <1>3. CASE StartTurn
    BY <1>3 DEF StartTurn, OpenTurn
  <1>4. CASE PreStepFails \/ StoppingFails
    BY <1>4 DEF PreStepFails, StoppingFails, Fails, EndTurn
  <1>5. CASE PreStepRejects
    BY <1>5 DEF PreStepRejects
  <1>6. CASE \E entered \in SetToAllKPermutations(ToSet(batch)), context \in BOOLEAN : PreStepEnters(entered, context)
    BY <1>6 DEF PreStepEnters
  <1>7. CASE TurnStops
    BY <1>7 DEF TurnStops, Completes
  <1>8. CASE TurnContinues
    BY <1>8 DEF TurnContinues, ClaimsNext
  <1>9. CASE CloseSession
    BY <1>9 DEF CloseSession, driver
  <1>10. QED BY <1>1, <1>2, <1>3, <1>4, <1>5, <1>6, <1>7, <1>8, <1>9

LEMMA RequestsKeepDriver ==
  ASSUME DriverInv,
         \/ RequestFails \/ RequestReady
         \/ StreamOpens \/ StreamFails \/ StreamErrs \/ Retry \/ GiveUp
         \/ \E how \in {"completed", "maxTokens"} : StreamEnds(how)
  PROVE  DriverInv'
  BY DEF DriverInv, toolVars, RequestFails, RequestReady, StreamOpens, StreamFails, StreamErrs, Retry,
         GiveUp, StreamEnds, StepFails

LEMMA ToolsStepKeepsDriver ==
  ASSUME ToolsStep PROVE UNCHANGED <<life, driver, bounds>>
  BY Zenon DEF ToolsStep, GroupOpens, CallStarts, GroupCloses, PoolMoves, CallPrepared, ToolsFail,
     ToolsDrained, ResultBringsTrouble, ResultBringsContext, ResultCommitted, BodyStarts, BodySettles,
     DuringTools

LEMMA ToolsKeepDriver ==
  ASSUME DriverInv, (\E n \in Call : StreamAsks(n)) \/ (at = "tools" /\ ToolsStep)
  PROVE  DriverInv'
  <1>1. CASE \E n \in Call : StreamAsks(n)
    BY <1>1 DEF StreamAsks, Ask, DriverInv
  <1>2. CASE at = "tools" /\ ToolsStep
    <2>1. UNCHANGED <<life, driver>>
      BY <1>2, ToolsStepKeepsDriver
    <2>2. sched # "off" => sched' # "off"
      <3>1. PICK aborted \in BOOLEAN : Scheduler(aborted) \/ Bodies(aborted)
        BY <1>2, ToolsStepIsScheduled, Zenon
      <3>2. CASE Scheduler(aborted)
        BY <3>2 DEF Scheduler, NextGroup, StartNext, Start, SkipRest, GroupEnds, Race, PrepareDispatches,
             PrepareSettles, PrepareFails, ContextFails, Commit, CommitFails, DrainDone
      <3>3. CASE Bodies(aborted)
        BY <3>3 DEF Bodies, EnterBody, NoBody, BodyEnds, Settle
      <3>4. QED BY <3>1, <3>2, <3>3
    <2>3. QED BY <1>2, <2>1, <2>2 DEF DriverInv, driver
  <1>3. QED BY <1>1, <1>2

LEMMA StepEndsKeepDriver ==
  ASSUME DriverInv, StepThrows \/ StepCancelled \/ StepCloses
  PROVE  DriverInv'
  <1> USE DEF DriverInv
  <1>1. sched' = "off" /\ at # "idle"
    <2>1. StepReturned /\ CloseTools
      BY Zenon DEF StepThrows, StepCancelled, StepCloses
    <2>2. QED BY <2>1 DEF StepReturned, CloseTools, Close, ToolClear, toolVars
  <1>2. CASE StepThrows
    BY <1>1, <1>2 DEF StepThrows, Fails, EndTurn
  <1>3. CASE StepCancelled
    BY <1>1, <1>3 DEF StepCancelled, EndTurn
  <1>4. CASE StepCloses
    BY <1>1, <1>4 DEF StepCloses, ClaimsNext
  <1>5. QED BY <1>2, <1>3, <1>4

LEMMA DriverInvHolds == LoopSpec => []DriverInv
  <1>1. LoopInit => DriverInv
    BY DEF LoopInit, ToolInit, DriverInv
  <1>2. DriverInv /\ [LoopNext]_loopVars => DriverInv'
    <2> SUFFICES ASSUME DriverInv, [LoopNext]_loopVars PROVE DriverInv'
      OBVIOUS
    <2>1. CASE Others
      BY <2>1, OthersKeepDriver
    <2>2. CASE Work
      BY <2>2, TurnsKeepDriver, RequestsKeepDriver, ToolsKeepDriver, StepEndsKeepDriver, Zenon DEF Work
    <2>3. CASE UNCHANGED loopVars
      BY <2>3 DEF loopVars, toolVars, driver, DriverInv
    <2>4. QED BY <2>1, <2>2, <2>3 DEF LoopNext
  <1>3. QED BY <1>1, <1>2, PTL DEF LoopSpec

\* A step that is done has returned in one of three ways, which is what the type of
\* turnEnds rests on. Every action keeps the driver's variables in their types.
StepHasResult == at = "stepDone" => result \in {"completed", "maxTokens", "failed"}
LoopTypesInv == LoopTypeOK /\ StepHasResult

LEMMA OthersKeepTypes ==
  ASSUME LoopTypesInv, Others
  PROVE  LoopTypesInv'
  <1> USE DEF LoopTypesInv, StepHasResult, LoopTypeOK, bounds
  <1>1. CASE \E m \in Msgs : Followup(m) \/ Steer(m) \/ Inject(m)
    <2>1. PICK m \in Msgs, target \in {"nextTurn", "nextStep"}, waking \in BOOLEAN : Send(m, target, waking)
      BY <1>1, Zenon DEF Followup, Steer, Inject
    <2>2. CASE waking /\ at = "idle"
      BY <2>1, <2>2 DEF Send, OpenTurn, Place
    <2>3. CASE ~(waking /\ at = "idle")
      <3>1. wake' \in BOOLEAN
        BY <2>1, <2>3, Zenon DEF Send, Latches
      <3>2. QED BY <2>1, <2>3, <3>1, Zenon DEF Send
    <2>4. QED BY <2>2, <2>3
  <1>2. CASE \E m \in Msgs : TakeBack(m)
    BY <1>2 DEF TakeBack, driver
  <1>3. CASE (\E keepInbox \in BOOLEAN : Cancel(keepInbox)) \/ Dispose
    <2>1. PICK keepInbox \in BOOLEAN, cause \in {"user", "disposed"} :
            CancelWith(cause, keepInbox) /\ life' \in {"live", "closing"}
      BY <1>3 DEF Cancel, Dispose
    <2>2. /\ at' = at /\ stepped' = stepped /\ turnEnds' = turnEnds /\ result' = result
          /\ asks' = asks /\ crashes' = crashes /\ (wake' = wake \/ wake' = FALSE)
          /\ (abort' = cause \/ abort' = abort)
      BY <2>1, Zenon DEF CancelWith
    <2>3. QED BY <2>1, <2>2
  <1>4. CASE StartMaintenance \/ Resume
    BY <1>4 DEF StartMaintenance, Resume, Place
  <1>5. CASE \E k \in 0..Len(buffer) : Crash(k)
    <2>1. /\ life' = "down" /\ at' = "idle" /\ abort' = "none" /\ wake' = FALSE /\ Forget
          /\ asks' = asks /\ crashes' = crashes + 1
      BY <1>5, Zenon DEF Crash
    <2>2. asks' \in Nat /\ crashes' \in Nat
      BY <2>1
    <2>3. QED BY <2>1, <2>2, Zenon DEF Forget, Place
  <1>6. CASE \E k \in 1..Len(Closers(disk)) : ResumeTorn(k)
    BY <1>6 DEF ResumeTorn, driver
  <1>7. QED BY <1>1, <1>2, <1>3, <1>4, <1>5, <1>6, Zenon DEF Others

LEMMA TurnsKeepTypes ==
  ASSUME LoopTypesInv,
         \/ EndMaintenance \/ Unwind \/ StartTurn
         \/ PreStepFails \/ PreStepRejects
         \/ \E entered \in SetToAllKPermutations(ToSet(batch)), context \in BOOLEAN : PreStepEnters(entered, context)
         \/ StoppingFails \/ TurnStops \/ TurnContinues \/ CloseSession
  PROVE  LoopTypesInv'
  <1> USE DEF LoopTypesInv, StepHasResult, LoopTypeOK, bounds, Place
  <1>1. CASE EndMaintenance \/ Unwind \/ StartTurn
    BY <1>1 DEF EndMaintenance, Unwind, StartTurn, Rest, Forget, OpenTurn
  <1>2. CASE PreStepFails \/ StoppingFails
    BY <1>2 DEF PreStepFails, StoppingFails, Fails, EndTurn, Forget
  <1>3. CASE PreStepRejects
    BY <1>3 DEF PreStepRejects, Forget
  <1>4. CASE \E entered \in SetToAllKPermutations(ToSet(batch)), context \in BOOLEAN : PreStepEnters(entered, context)
    <2>1. PICK entered \in SetToAllKPermutations(ToSet(batch)), context \in BOOLEAN : PreStepEnters(entered, context)
      BY <1>4, Zenon
    <2>2. life' = life /\ asks' = asks /\ crashes' = crashes
      BY <2>1, Zenon DEF PreStepEnters
    <2>3. CASE at' = "request"
      BY <2>1, <2>2, <2>3 DEF PreStepEnters, Forget
    <2>4. CASE at' # "request"
      BY <2>1, <2>2, <2>4 DEF PreStepEnters, Forget
    <2>5. QED BY <2>3, <2>4
  <1>5. CASE TurnStops
    BY <1>5 DEF TurnStops, Completes, Forget
  <1>6. CASE TurnContinues
    BY <1>6 DEF TurnContinues, ClaimsNext
  <1>7. CASE CloseSession
    BY <1>7 DEF CloseSession, driver
  <1>8. QED BY <1>1, <1>2, <1>3, <1>4, <1>5, <1>6, <1>7

LEMMA StepsKeepTypes ==
  ASSUME LoopTypesInv,
         \/ RequestFails \/ RequestReady
         \/ StreamOpens \/ StreamFails \/ StreamErrs \/ Retry \/ GiveUp
         \/ \E how \in {"completed", "maxTokens"} : StreamEnds(how)
         \/ \E n \in Call : StreamAsks(n)
         \/ StepThrows \/ StepCancelled \/ StepCloses
  PROVE  LoopTypesInv'
  <1> USE DEF LoopTypesInv, StepHasResult, LoopTypeOK, bounds, Place
  <1>1. CASE StepThrows
    BY <1>1 DEF StepThrows, Fails, EndTurn, Forget
  <1>2. CASE StepCancelled
    BY <1>2 DEF StepCancelled, EndTurn, Forget
  <1>3. CASE StepCloses
    <2>1. StepReturned /\ ~Threw
      BY <1>3 DEF StepCloses
    <2>2. turnEnds' = TurnEndsAfter /\ result' = "none" /\ at' \in {"stopping", "preStep"}
          /\ UNCHANGED <<life, abort, wake, stepped, bounds>>
      BY <1>3 DEF StepCloses, ClaimsNext
    <2>3. QED BY <2>1, <2>2 DEF TurnEndsAfter, StepReturned, Threw
  <1>4. CASE \E n \in Call : StreamAsks(n)
    BY <1>4 DEF StreamAsks
  <1>5. CASE \/ RequestFails \/ RequestReady
             \/ StreamOpens \/ StreamFails \/ StreamErrs \/ Retry \/ GiveUp
             \/ \E how \in {"completed", "maxTokens"} : StreamEnds(how)
    BY <1>5 DEF RequestFails, RequestReady, StreamOpens, StreamFails, StreamErrs, Retry, GiveUp, StreamEnds, StepFails
  <1>6. QED BY <1>1, <1>2, <1>3, <1>4, <1>5

LEMMA LoopTypesInvHolds == LoopSpec => []LoopTypesInv
  <1>1. LoopInit => LoopTypesInv
    <2> SUFFICES ASSUME LoopInit PROVE LoopTypesInv
      OBVIOUS
    <2>1. /\ life = "live" /\ at = "maintenance" /\ abort = "none" /\ wake = FALSE /\ stepped = FALSE
          /\ turnEnds = "none" /\ result = "none" /\ asks = 0 /\ crashes = 0
      BY Zenon DEF LoopInit
    <2>2. QED BY <2>1 DEF LoopTypesInv, LoopTypeOK, StepHasResult, Place
  <1>2. LoopTypesInv /\ [LoopNext]_loopVars => LoopTypesInv'
    <2> SUFFICES ASSUME LoopTypesInv, [LoopNext]_loopVars PROVE LoopTypesInv'
      OBVIOUS
    <2>1. CASE Others
      BY <2>1, OthersKeepTypes
    <2>2. CASE ToolsStep
      BY <2>2, ToolsStepKeepsDriver DEF LoopTypesInv, StepHasResult, LoopTypeOK, driver, bounds
    <2>3. CASE Work /\ ~ToolsStep
      BY <2>3, TurnsKeepTypes, StepsKeepTypes, Zenon DEF Work
    <2>4. CASE UNCHANGED loopVars
      BY <2>4 DEF loopVars, driver, bounds, LoopTypesInv, StepHasResult, LoopTypeOK
    <2>5. QED BY <2>1, <2>2, <2>3, <2>4 DEF LoopNext
  <1>3. QED BY <1>1, <1>2, PTL DEF LoopSpec

\* The agent's phases, flags and counters keep their types.
THEOREM LoopTypes == LoopSpec => []LoopTypeOK
  <1>1. LoopTypesInv => LoopTypeOK
    BY DEF LoopTypesInv
  <1>2. QED BY <1>1, LoopTypesInvHolds, PTL

\* An idle agent is at rest: nothing of the activity before it is left that could act
\* on the next one, neither its abort, nor a latched wake, nor a call in flight.
IdleIsAtRest == at = "idle" => abort = "none" /\ wake = FALSE /\ inFlight = {}

\* It holds in every reachable state, after any cancel, failure or teardown.
THEOREM IdleIsAlwaysAtRest == LoopSpec => []IdleIsAtRest
  <1>1. ToolInv /\ DriverInv => IdleIsAtRest
    BY ToolAssumption DEF ToolInv, ToolTypeOK, BodiesOK, StagesOK, PoolOK, DriverInv, IdleIsAtRest, Call
  <1>2. QED BY <1>1, LoopImplementsTools, ToolInvariant, DriverInvHolds, PTL

\* Once an activity is cancelled no tool body is entered and no assistant message asks
\* for more: what AbortIsFinal says of the tools.
AbortStopsTools == [][abort # "none" /\ abort' = abort => ran' = ran /\ asks' = asks]_loopVars

LEMMA AbortAlwaysStopsTools == LoopSpec => AbortStopsTools
  <1>1. ASSUME [LoopNext]_loopVars, abort # "none", abort' = abort PROVE ran' = ran /\ asks' = asks
    <2>1. CASE Others
      <3>1. CASE \E k \in 0..Len(buffer) : Crash(k)
        BY <1>1, <3>1 DEF Crash
      <3>2. CASE ~\E k \in 0..Len(buffer) : Crash(k)
        <4>1. UNCHANGED toolVars
          BY <2>1, <3>2, OthersLeaveTools, Zenon DEF Others
        <4>2. UNCHANGED asks
          BY <2>1, <3>2, Zenon DEF Others, Followup, Steer, Inject, Send, TakeBack, Cancel, CancelWith,
             Dispose, StartMaintenance, Resume, ResumeTorn, bounds
        <4>3. QED BY <4>1, <4>2 DEF toolVars
      <3>3. QED BY <3>1, <3>2
    <2>2. CASE Work
      <3>1. asks' = asks
        BY <1>1, <2>2, Zenon DEF Work, EndMaintenance, Unwind, StartTurn, PreStepFails, PreStepRejects,
           PreStepEnters, StoppingFails, TurnStops, TurnContinues, CloseSession, RequestFails, RequestReady,
           StreamOpens, StreamFails, StreamErrs, Retry, GiveUp, StreamEnds, StepFails, StreamAsks,
           ToolsStep, GroupOpens, CallStarts, GroupCloses, PoolMoves, CallPrepared, ToolsFail, ToolsDrained,
           ResultBringsTrouble, ResultBringsContext, ResultCommitted, BodyStarts, BodySettles, DuringTools,
           StepThrows, StepCancelled, StepCloses, bounds
      <3>2. CASE ToolsStep
        <4>1. Scheduler(TRUE) \/ Bodies(TRUE)
          <5>1. Aborted = TRUE
            BY <1>1 DEF Aborted
          <5>2. Scheduler(Aborted) \/ Bodies(Aborted)
            BY <3>2, ToolsStepFollowsAbort
          <5>3. QED BY <5>1, <5>2
        <4>2. ran' = ran
          BY <4>1, Zenon DEF Scheduler, NextGroup, StartNext, Start, SkipRest, GroupEnds, Race, PrepareDispatches,
             PrepareSettles, PrepareFails, ContextFails, Commit, CommitFails, DrainDone, Bodies, EnterBody,
             NoBody, BodyEnds, Settle
        <4>3. QED BY <3>1, <4>2
      <3>3. CASE StepThrows \/ StepCancelled \/ StepCloses
        <4>1. CloseTools
          BY <3>3, Zenon DEF StepThrows, StepCancelled, StepCloses
        <4>2. QED BY <3>1, <4>1 DEF CloseTools, Close, toolVars
      <3>4. CASE ~(ToolsStep \/ StepThrows \/ StepCancelled \/ StepCloses)
        <4>1. ~\E n \in Call : StreamAsks(n)
          BY <1>1 DEF StreamAsks
        <4>2. UNCHANGED toolVars
          BY <2>2, <3>4, <4>1, TurnsLeaveTools, RequestsLeaveTools, Zenon DEF Work
        <4>3. QED BY <3>1, <4>2 DEF toolVars
      <3>5. QED BY <3>2, <3>3, <3>4
    <2>3. CASE UNCHANGED loopVars
      BY <2>3 DEF loopVars, toolVars, bounds
    <2>4. QED BY <1>1, <2>1, <2>2, <2>3 DEF LoopNext
  <1>2. QED BY <1>1, PTL DEF LoopSpec, AbortStopsTools

-------------------------------------------------------------------------------
(* The fold of a log's events, for logs of any length. Its value is proved event   *)
(* by event, with the least number for which it would fail.                        *)

\* A set of numbers that is not empty has a least one.
LEMMA LeastNatural ==
  ASSUME NEW T \in SUBSET Nat, T # {}
  PROVE  \E m \in T : \A n \in T : m <= n
  <1>1. PICK m \in T : \A n \in T : ~(<<n, m>> \in OpToRel(<, Nat))
    BY NatLessThanWellFounded, WFMin, Zenon
  <1>2. \A n \in T : ~(n < m)
    BY <1>1 DEF OpToRel
  <1>3. QED BY <1>2

\* g[k] is the log after the first k of the events.
IsAfter(g, l, events, n) ==
  g = [k \in 0..n |-> IF k = 0 THEN l ELSE Apply(g[k - 1], events[k])]

LEMMA AfterExists ==
  ASSUME NEW l, NEW events, NEW N \in Nat
  PROVE  \E g : IsAfter(g, l, events, N)
  <1> DEFINE Missing == {n \in Nat : ~\E g : IsAfter(g, l, events, n)}
  <1> SUFFICES ASSUME Missing # {} PROVE FALSE
    OBVIOUS
  <1>1. PICK m \in Missing : \A n \in Missing : m <= n
    BY LeastNatural
  <1>2. m # 0
    <2> DEFINE g == [k \in 0..0 |-> l]
    <2>1. g = [k \in 0..0 |-> IF k = 0 THEN l ELSE Apply(g[k - 1], events[k])]
      OBVIOUS
    <2>2. QED BY <2>1 DEF IsAfter
  <1>3. m - 1 \in Nat /\ m - 1 \notin Missing
    BY <1>1, <1>2
  <1>4. PICK g : IsAfter(g, l, events, m - 1)
    BY <1>3
  <1> DEFINE h == [k \in 0..m |-> IF k < m THEN g[k] ELSE Apply(g[m - 1], events[m])]
  <1>5. \A k \in 0..(m - 1) : g[k] = IF k = 0 THEN l ELSE Apply(g[k - 1], events[k])
    BY <1>4 DEF IsAfter
  <1>6. h = [k \in 0..m |-> IF k = 0 THEN l ELSE Apply(h[k - 1], events[k])]
    <2>1. \A k \in 0..m : h[k] = IF k = 0 THEN l ELSE Apply(h[k - 1], events[k])
      <3> SUFFICES ASSUME NEW k \in 0..m PROVE h[k] = IF k = 0 THEN l ELSE Apply(h[k - 1], events[k])
        OBVIOUS
      <3>1. CASE k = 0
        BY <1>2, <1>5, <3>1
      <3>2. CASE k # 0
        <4>1. k - 1 \in 0..m /\ k - 1 < m /\ h[k - 1] = g[k - 1]
          BY <3>2
        <4>2. CASE k < m
          BY <1>5, <3>2, <4>1, <4>2
        <4>3. CASE k = m
          BY <3>2, <4>1, <4>3
        <4>4. QED BY <4>2, <4>3
      <3>3. QED BY <3>1, <3>2
    <2>2. QED BY <2>1
  <1>7. QED BY <1>1, <1>6 DEF IsAfter

\* What After says, event by event.
LEMMA AfterSteps ==
  ASSUME NEW l, NEW events, Len(events) \in Nat
  PROVE  /\ After(l, events)[0] = l
         /\ \A k \in 1..Len(events) : After(l, events)[k] = Apply(After(l, events)[k - 1], events[k])
  <1>1. IsAfter(After(l, events), l, events, Len(events))
    BY AfterExists DEF After, IsAfter
  <1> DEFINE g == After(l, events)
  <1> HIDE DEF g
  <1>2. g = [k \in 0..Len(events) |-> IF k = 0 THEN l ELSE Apply(g[k - 1], events[k])]
    BY <1>1 DEF IsAfter, g
  <1>3. \A k \in 0..Len(events) : g[k] = IF k = 0 THEN l ELSE Apply(g[k - 1], events[k])
    BY <1>2
  <1>4. QED BY <1>3 DEF g

\* There is no other such function.
LEMMA AfterUnique ==
  ASSUME NEW l, NEW events, Len(events) \in Nat, NEW g,
         g[0] = l, \A k \in 1..Len(events) : g[k] = Apply(g[k - 1], events[k])
  PROVE  \A k \in 0..Len(events) : After(l, events)[k] = g[k]
  <1> DEFINE Differ == {k \in 0..Len(events) : After(l, events)[k] # g[k]}
  <1> SUFFICES ASSUME Differ # {} PROVE FALSE
    OBVIOUS
  <1>1. PICK m \in Differ : \A n \in Differ : m <= n
    <2>1. Differ \in SUBSET Nat
      OBVIOUS
    <2>2. QED BY <2>1, LeastNatural
  <1>2. CASE m = 0
    BY <1>2, AfterSteps
  <1>3. CASE m # 0
    <2>1. m \in 1..Len(events) /\ m - 1 \in 0..Len(events) /\ m - 1 \notin Differ
      BY <1>1, <1>3
    <2>2. After(l, events)[m - 1] = g[m - 1]
      BY <2>1
    <2>3. QED BY <2>1, <2>2, AfterSteps
  <1>4. QED BY <1>2, <1>3

LEMMA AfterConcat ==
  ASSUME NEW S, NEW s \in Seq(S), NEW t \in Seq(S), NEW l
  PROVE  /\ Fold(l, s \o t) = Fold(Fold(l, s), t)
         /\ \A k \in 0..Len(s) : After(l, s \o t)[k] = After(l, s)[k]
         /\ \A k \in 0..Len(t) : After(l, s \o t)[Len(s) + k] = After(Fold(l, s), t)[k]
  <1> DEFINE a == After(l, s)
             b == After(Fold(l, s), t)
  <1>1. Len(s) \in Nat /\ Len(t) \in Nat /\ Len(s \o t) = Len(s) + Len(t)
    OBVIOUS
  <1>2. a[0] = l /\ \A k \in 1..Len(s) : a[k] = Apply(a[k - 1], s[k])
    BY <1>1, AfterSteps
  <1>3. b[0] = a[Len(s)] /\ \A k \in 1..Len(t) : b[k] = Apply(b[k - 1], t[k])
    BY <1>1, AfterSteps DEF Fold
  <1>4. Fold(l, s) = a[Len(s)] /\ Fold(Fold(l, s), t) = b[Len(t)]
    BY DEF Fold
  <1> HIDE DEF a, b
  <1> DEFINE g == [k \in 0..Len(s) + Len(t) |-> IF k <= Len(s) THEN a[k] ELSE b[k - Len(s)]]
  <1>5. ASSUME NEW k \in 1..Len(s \o t) PROVE g[k] = Apply(g[k - 1], (s \o t)[k])
    <2>1. CASE k <= Len(s)
      <3>1. (s \o t)[k] = s[k] /\ k \in 1..Len(s) /\ g[k] = a[k] /\ g[k - 1] = a[k - 1]
        BY <1>1, <2>1
      <3>2. QED BY <1>2, <3>1
    <2>2. CASE k = Len(s) + 1
      <3>1. (s \o t)[k] = t[1] /\ 1 \in 1..Len(t) /\ g[k] = b[1] /\ g[k - 1] = a[Len(s)]
        BY <1>1, <2>2
      <3>2. b[1] = Apply(b[0], t[1])
        BY <1>3, <3>1
      <3>3. QED BY <1>3, <3>1, <3>2
    <2>3. CASE k > Len(s) + 1
      <3>1. PICK j \in 1..Len(t) : k = Len(s) + j /\ j > 1
        <4>1. k - Len(s) \in 1..Len(t) /\ k = Len(s) + (k - Len(s)) /\ k - Len(s) > 1
          BY <1>1, <2>3
        <4>2. QED BY <4>1, Zenon
      <3>2. (s \o t)[k] = t[j] /\ g[k] = b[j] /\ g[k - 1] = b[j - 1]
        BY <1>1, <3>1
      <3>3. QED BY <1>3, <3>1, <3>2
    <2>4. QED BY <1>1, <2>1, <2>2, <2>3
  <1>6. g[0] = l
    BY <1>1, <1>2
  <1>7. /\ \A k \in 0..Len(s) : g[k] = a[k]
        /\ \A k \in 0..Len(t) : g[Len(s) + k] = b[k]
    <2>1. ASSUME NEW k \in 0..Len(t) PROVE g[Len(s) + k] = b[k]
      <3>1. CASE k = 0
        BY <1>1, <1>3, <3>1
      <3>2. CASE k # 0
        BY <1>1, <3>2
      <3>3. QED BY <3>1, <3>2
    <2>2. QED BY <1>1, <2>1
  <1> HIDE DEF g
  <1>8. \A k \in 0..Len(s \o t) : After(l, s \o t)[k] = g[k]
    <2>1. Len(s \o t) \in Nat /\ \A k \in 1..Len(s \o t) : g[k] = Apply(g[k - 1], (s \o t)[k])
      BY <1>1, <1>5
    <2> DEFINE e == s \o t
    <2>2. Len(e) \in Nat /\ g[0] = l /\ \A k \in 1..Len(e) : g[k] = Apply(g[k - 1], e[k])
      BY <1>6, <2>1
    <2> HIDE DEF e
    <2>3. \A k \in 0..Len(e) : After(l, e)[k] = g[k]
      BY <2>2, AfterUnique
    <2>4. QED BY <2>3 DEF e
  <1>9. /\ \A k \in 0..Len(s) : After(l, s \o t)[k] = a[k]
        /\ \A k \in 0..Len(t) : After(l, s \o t)[Len(s) + k] = b[k]
    <2>1. /\ \A k \in 0..Len(s) : k \in 0..Len(s \o t)
          /\ \A k \in 0..Len(t) : Len(s) + k \in 0..Len(s \o t)
      BY <1>1
    <2>2. QED BY <1>7, <1>8, <2>1, Zenon
  <1>10. Fold(l, s \o t) = b[Len(t)]
    BY <1>1, <1>9 DEF Fold
  <1>11. QED BY <1>4, <1>9, <1>10 DEF a, b

-------------------------------------------------------------------------------
(* What a sound log is.                                                        *)

\* What happened outside the log, and a log may not contradict.
Outside == [ran |-> ran, asks |-> asks, dropped |-> dropped, shown |-> shown]
\* A log, a list without repetition, and the three ways in which a log is sound: a
\* message is where its fate says; the calls of the last step are answered in order,
\* all of them once the step is closed; and what it says agrees with what happened.
LogType == [nextTurn : Seq(Msgs), nextStep : Seq(Msgs), fate : [Msgs -> Fate],
            open : {"none", "turn", "step"}, ask : Nat, asked : Nat, called : SUBSET Nat,
            pending : SUBSET Nat, results : Seq([callId : Nat, answer : Answer])]
Distinct(s) == \A i, j \in DOMAIN s : s[i] = s[j] => i = j
InboxSound(l) == /\ Distinct(l.nextTurn) /\ Distinct(l.nextStep)
                 /\ ToSet(l.nextTurn) \cap ToSet(l.nextStep) = {}
                 /\ \A m \in Pending(l) : l.fate[m] = "none"
                 /\ \A m \in Msgs : l.fate[m] # "stray"
                 /\ l.open = "none" => \A m \in Msgs : l.fate[m] # "claimed"
CallsSound(l) == /\ \A k \in DOMAIN l.results : l.results[k].callId = k
                 /\ Len(l.results) <= l.asked
                 /\ l.called \subseteq 1..l.asked
                 /\ l.open = "step" => l.pending = Len(l.results) + 1 .. l.asked
                 /\ l.open # "step" => l.pending = {} /\ Len(l.results) = l.asked
TrueOf(l, w) == /\ \A m \in Msgs : l.fate[m] = "spent" => m \in w.dropped
                /\ \A m \in Msgs : m \in w.shown => l.fate[m] = "admitted"
                /\ l.ask <= w.asks
                /\ l.ask = w.asks => \A r \in ToSet(l.results) :
                      /\ r.answer = "neverRan" => r.callId \notin w.ran
                      /\ r.answer = "ran" => r.callId \in w.ran
                /\ w.ran # {} => l.ask = w.asks /\ (l.asked # 0 => w.ran \subseteq l.called)
\* A run of events is sound if the log is, after each of them: the process may stop there.
LogSound(l, w) == l \in LogType /\ InboxSound(l) /\ CallsSound(l) /\ TrueOf(l, w)
Sound(l, events, w) == \A k \in 0..Len(events) : LogSound(After(l, events)[k], w)

\* The events, and what a turn may end for.
Reason == {"completed", "maxTokens", "blocked", "aborted", "error", "interrupted"}
Event == [type : {"agent/inbox/spliced"}, target : Target, start : Nat, removed : Nat,
          inserted : Seq(Msgs), outcome : Fate]
         \cup [type : {"turn/start", "step/start", "step/end"}]
         \cup [type : {"turn/end"}, reason : Reason]
         \cup [type : {"user/message"}, message : Msgs]
         \cup [type : {"assistant/message"}, ask : Nat, calls : Nat]
         \cup [type : {"tool/call"}, callId : Nat]
         \cup [type : {"tool/result"}, callId : Nat, answer : Answer]

LEMMA EventTypes ==
  /\ \A target \in Target, start \in Nat, removed \in Nat, inserted \in Seq(Msgs), outcome \in Fate :
       Splice(target, start, removed, inserted, outcome) \in Event
  /\ TurnStart \in Event /\ StepStart \in Event /\ StepEnd \in Event
  /\ \A reason \in Reason : TurnEnd(reason) \in Event
  /\ \A m \in Msgs : UserMessage(m) \in Event
  /\ \A ask, n \in Nat : Asks(ask, n) \in Event
  /\ \A i \in Nat : ToolCall(i) \in Event
  /\ \A i \in Nat, answer \in Answer : ToolResult(i, answer) \in Event
  BY DEF Event, Splice, TurnStart, StepStart, StepEnd, TurnEnd, UserMessage, Asks, ToolCall, ToolResult

LEMMA SoundNone ==
  ASSUME NEW l, NEW w, LogSound(l, w)
  PROVE  Sound(l, <<>>, w) /\ Fold(l, <<>>) = l
  <1>1. Len(<<>>) = 0 /\ After(l, <<>>)[0] = l
    BY AfterSteps
  <1>2. QED BY <1>1 DEF Sound, Fold

LEMMA SoundOne ==
  ASSUME NEW l, NEW e, NEW w, LogSound(l, w), LogSound(Apply(l, e), w)
  PROVE  Sound(l, <<e>>, w) /\ Fold(l, <<e>>) = Apply(l, e)
  <1>1. Len(<<e>>) = 1 /\ <<e>>[1] = e
    OBVIOUS
  <1>2. After(l, <<e>>)[0] = l /\ After(l, <<e>>)[1] = Apply(l, e)
    <2>1. After(l, <<e>>)[1] = Apply(After(l, <<e>>)[1 - 1], <<e>>[1])
      BY <1>1, AfterSteps
    <2>2. QED BY <1>1, <2>1, AfterSteps
  <1>3. QED BY <1>1, <1>2 DEF Sound, Fold

LEMMA SoundConcat ==
  ASSUME NEW l, NEW w, NEW s \in Seq(Event), NEW t \in Seq(Event),
         Sound(l, s, w), Sound(Fold(l, s), t, w)
  PROVE  Sound(l, s \o t, w) /\ Fold(l, s \o t) = Fold(Fold(l, s), t)
  <1>1. Len(s) \in Nat /\ Len(t) \in Nat /\ Len(s \o t) = Len(s) + Len(t)
    OBVIOUS
  <1>2. Fold(l, s \o t) = Fold(Fold(l, s), t)
    BY AfterConcat
  <1>3. ASSUME NEW k \in 0..Len(s \o t) PROVE LogSound(After(l, s \o t)[k], w)
    <2>1. CASE k <= Len(s)
      BY <1>1, <2>1, AfterConcat DEF Sound
    <2>2. CASE k > Len(s)
      <3>1. k - Len(s) \in 0..Len(t) /\ Len(s) + (k - Len(s)) = k
        BY <1>1, <2>2
      <3>2. After(l, s \o t)[k] = After(Fold(l, s), t)[k - Len(s)]
        <4>1. \A j \in 0..Len(t) : After(l, s \o t)[Len(s) + j] = After(Fold(l, s), t)[j]
          BY AfterConcat
        <4>2. QED BY <3>1, <4>1
      <3>3. QED BY <3>1, <3>2 DEF Sound
    <2>3. QED BY <1>1, <2>1, <2>2
  <1>4. QED BY <1>2, <1>3 DEF Sound

\* The fold of the whole is sound too, and so is where it starts.
LEMMA SoundEnds ==
  ASSUME NEW l, NEW w, NEW s \in Seq(Event), Sound(l, s, w)
  PROVE  LogSound(l, w) /\ LogSound(Fold(l, s), w)
  <1>1. Len(s) \in Nat /\ After(l, s)[0] = l
    BY AfterSteps
  <1>2. QED BY <1>1 DEF Sound, Fold

-------------------------------------------------------------------------------
(* What each event does to a sound log.                                        *)

LEMMA NoElements == ToSet(<<>>) = {}
  BY DEF ToSet

\* What opens and closes turns and steps leaves the inbox alone.
LEMMA OpensEvent ==
  ASSUME NEW l, NEW w, LogSound(l, w), NEW e \in {TurnStart, StepStart}
  PROVE  LET r == Apply(l, e)
         IN /\ LogSound(r, w)
            /\ r.open = (IF e = TurnStart THEN "turn" ELSE "step")
            /\ r.asked = 0 /\ r.fate = l.fate
            /\ r.nextTurn = l.nextTurn /\ r.nextStep = l.nextStep
  <1> DEFINE opened == IF e = TurnStart THEN "turn" ELSE "step"
             r == [l EXCEPT !.asked = 0, !.called = {}, !.pending = {}, !.results = <<>>, !.open = opened]
  <1>1. Apply(l, e) = r
    <2>1. CASE e = TurnStart
      BY <2>1 DEF Apply, TurnStart, Uncalled
    <2>2. CASE e = StepStart
      <3>1. e # TurnStart
        BY <2>2 DEF StepStart, TurnStart
      <3>2. Apply(l, StepStart) = [Uncalled(l) EXCEPT !.open = "step"]
        BY DEF Apply, StepStart
      <3>3. QED BY <2>2, <3>1, <3>2 DEF Uncalled
    <2>3. QED BY <2>1, <2>2
  <1>8. opened \in {"turn", "step"}
    OBVIOUS
  <1> HIDE DEF opened
  <1>2. l \in LogType
    BY DEF LogSound
  <1>3. /\ r \in LogType
        /\ r.open = opened /\ r.asked = 0 /\ r.called = {} /\ r.pending = {} /\ r.results = <<>>
        /\ r.fate = l.fate /\ r.nextTurn = l.nextTurn /\ r.nextStep = l.nextStep /\ r.ask = l.ask
    <2>1. opened \in {"none", "turn", "step"}
      BY <1>8
    <2>2. <<>> \in Seq([callId : Nat, answer : Answer])
      OBVIOUS
    <2>3. QED BY <1>2, <2>1, <2>2 DEF LogType
  <1> HIDE DEF r
  <1>4. InboxSound(r)
    BY <1>3, <1>8 DEF LogSound, InboxSound, Pending
  <1>5. CallsSound(r)
    <2>1. Len(r.results) = 0 /\ DOMAIN r.results = {} /\ 0 + 1..0 = {}
      BY <1>3
    <2>2. QED BY <1>3, <2>1 DEF CallsSound
  <1>6. TrueOf(r, w)
    BY <1>3, NoElements DEF LogSound, TrueOf
  <1>7. QED BY <1>1, <1>3, <1>4, <1>5, <1>6 DEF LogSound, opened

LEMMA CloseStepEvent ==
  ASSUME NEW l, NEW w, LogSound(l, w), Len(l.results) = l.asked
  PROVE  LET r == Apply(l, StepEnd)
         IN /\ LogSound(r, w)
            /\ r.open = "turn" /\ r.fate = l.fate
            /\ r.nextTurn = l.nextTurn /\ r.nextStep = l.nextStep
  <1> DEFINE r == [l EXCEPT !.open = "turn", !.pending = {}]
  <1>1. Apply(l, StepEnd) = r
    BY DEF Apply, StepEnd
  <1>2. l \in LogType
    BY DEF LogSound
  <1>3. /\ r \in LogType
        /\ r.open = "turn" /\ r.pending = {}
        /\ r.asked = l.asked /\ r.called = l.called /\ r.results = l.results
        /\ r.fate = l.fate /\ r.nextTurn = l.nextTurn /\ r.nextStep = l.nextStep /\ r.ask = l.ask
    BY <1>2 DEF LogType
  <1> HIDE DEF r
  <1>4. InboxSound(r)
    BY <1>3 DEF LogSound, InboxSound, Pending
  <1>5. CallsSound(r)
    BY <1>3 DEF LogSound, CallsSound
  <1>6. TrueOf(r, w)
    BY <1>3 DEF LogSound, TrueOf, ToSet
  <1>7. QED BY <1>1, <1>3, <1>4, <1>5, <1>6 DEF LogSound

\* A turn's end that does not account for what was claimed may end it only if a hook
\* rewrote all of it away.
ClaimsAccounted(l, reason, w) == AccountsForClaim(reason) \/ \A m \in Msgs : l.fate[m] = "claimed" => m \in w.dropped
LEMMA CloseTurnEvent ==
  ASSUME NEW l, NEW w, NEW reason, LogSound(l, w), l.open # "step", ClaimsAccounted(l, reason, w)
  PROVE  LET r == Apply(l, TurnEnd(reason))
         IN /\ LogSound(r, w)
            /\ r.open = "none" /\ r.nextTurn = l.nextTurn /\ r.nextStep = l.nextStep
            /\ \A m \in Msgs : r.fate[m] # "claimed" /\ (r.fate[m] = "admitted" => l.fate[m] = "admitted")
  <1> DEFINE f == [m \in Msgs |-> IF l.fate[m] # "claimed" THEN l.fate[m]
                                  ELSE IF AccountsForClaim(reason) THEN "reported" ELSE "spent"]
             r == [l EXCEPT !.open = "none", !.pending = {}, !.fate = f]
  <1>1. Apply(l, TurnEnd(reason)) = r
    BY DEF Apply, TurnEnd, Ended
  <1>2. l \in LogType
    BY DEF LogSound
  <1>3. f \in [Msgs -> Fate]
    BY <1>2 DEF LogType, Fate
  <1>4. \A m \in Msgs : f[m] = IF l.fate[m] # "claimed" THEN l.fate[m]
                               ELSE IF AccountsForClaim(reason) THEN "reported" ELSE "spent"
    OBVIOUS
  <1> HIDE DEF f
  <1>5. /\ r \in LogType
        /\ r.open = "none" /\ r.pending = {}
        /\ r.asked = l.asked /\ r.called = l.called /\ r.results = l.results
        /\ r.fate = f /\ r.nextTurn = l.nextTurn /\ r.nextStep = l.nextStep /\ r.ask = l.ask
    BY <1>2, <1>3 DEF LogType
  <1> HIDE DEF r
  <1>6. InboxSound(r)
    <2>1. ToSet(l.nextTurn) \subseteq Msgs /\ ToSet(l.nextStep) \subseteq Msgs
      BY <1>2 DEF LogType, ToSet
    <2>2. QED BY <1>4, <1>5, <2>1 DEF LogSound, InboxSound, Pending
  <1>7. CallsSound(r)
    BY <1>5 DEF LogSound, CallsSound
  <1>8. TrueOf(r, w)
    <2>1. \A m \in Msgs : r.fate[m] = "spent" => m \in w.dropped
      BY <1>4, <1>5 DEF LogSound, TrueOf, ClaimsAccounted
    <2>2. \A m \in Msgs : l.fate[m] = "admitted" => r.fate[m] = "admitted"
      BY <1>4, <1>5
    <2>3. \A m \in Msgs : m \in w.shown => r.fate[m] = "admitted"
      BY <1>4, <1>5 DEF LogSound, TrueOf
    <2>4. QED BY <1>5, <2>1, <2>3 DEF LogSound, TrueOf, ToSet
  <1>9. QED BY <1>1, <1>4, <1>5, <1>6, <1>7, <1>8 DEF LogSound

\* A claimed message enters the conversation.
LEMMA AdmitEvent ==
  ASSUME NEW l, NEW w, LogSound(l, w), NEW m \in Msgs, l.fate[m] = "claimed"
  PROVE  LET r == Apply(l, UserMessage(m))
         IN /\ LogSound(r, w)
            /\ r = [l EXCEPT !.fate[m] = "admitted"]
  <1> DEFINE f == [l.fate EXCEPT ![m] = "admitted"]
             r == [l EXCEPT !.fate = f]
  <1>1. l \in LogType
    BY DEF LogSound
  <1>2. Apply(l, UserMessage(m)) = r /\ r = [l EXCEPT !.fate[m] = "admitted"]
    <2>1. Apply(l, UserMessage(m)) = [l EXCEPT !.fate[m] = IF @ = "claimed" THEN "admitted" ELSE "stray"]
      BY DEF Apply, UserMessage
    <2>2. QED BY <2>1, <1>1 DEF LogType
  <1>3. f \in [Msgs -> Fate] /\ \A x \in Msgs : f[x] = IF x = m THEN "admitted" ELSE l.fate[x]
    BY <1>1 DEF LogType, Fate
  <1> HIDE DEF f
  <1>4. /\ r \in LogType
        /\ r.open = l.open /\ r.pending = l.pending
        /\ r.asked = l.asked /\ r.called = l.called /\ r.results = l.results
        /\ r.fate = f /\ r.nextTurn = l.nextTurn /\ r.nextStep = l.nextStep /\ r.ask = l.ask
    BY <1>1, <1>3 DEF LogType
  <1> HIDE DEF r
  <1>5. InboxSound(r)
    <2>1. ToSet(l.nextTurn) \subseteq Msgs /\ ToSet(l.nextStep) \subseteq Msgs
      BY <1>1 DEF LogType, ToSet
    <2>2. QED BY <1>3, <1>4, <2>1 DEF LogSound, InboxSound, Pending
  <1>6. CallsSound(r)
    BY <1>4 DEF LogSound, CallsSound
  <1>7. TrueOf(r, w)
    BY <1>3, <1>4 DEF LogSound, TrueOf
  <1>8. QED BY <1>2, <1>4, <1>5, <1>6, <1>7 DEF LogSound

\* An assistant message asks for n calls, none of which has run.
Asked(r, l, w, n) == /\ r.open = "step" /\ r.ask = w.asks /\ r.asked = n /\ r.called = {} /\ r.results = <<>>
                     /\ r.fate = l.fate /\ r.nextTurn = l.nextTurn /\ r.nextStep = l.nextStep
LEMMA AsksEvent ==
  ASSUME NEW l, NEW w, LogSound(l, w), NEW n \in Nat, w.asks \in Nat, w.ran = {}, l.open = "step",
         NEW q, q = Apply(l, Asks(w.asks, n))
  PROVE  LogSound(q, w) /\ Asked(q, l, w, n)
  <1> DEFINE r == [l EXCEPT !.ask = w.asks, !.asked = n, !.called = {}, !.pending = 1..n, !.results = <<>>]
  <1>1. l \in LogType
    BY DEF LogSound
  <1>2. Apply(l, Asks(w.asks, n)) = r
    BY DEF Apply, Asks
  <1>3. /\ r \in LogType
        /\ r.open = "step" /\ r.pending = 1..n
        /\ r.asked = n /\ r.called = {} /\ r.results = <<>>
        /\ r.fate = l.fate /\ r.nextTurn = l.nextTurn /\ r.nextStep = l.nextStep /\ r.ask = w.asks
    <2>1. 1..n \in SUBSET Nat /\ {} \in SUBSET Nat /\ <<>> \in Seq([callId : Nat, answer : Answer])
      OBVIOUS
    <2>2. QED BY <1>1, <2>1 DEF LogType
  <1> HIDE DEF r
  <1>4. InboxSound(r)
    BY <1>3 DEF LogSound, InboxSound, Pending
  <1>5. CallsSound(r)
    <2>1. Len(r.results) = 0 /\ DOMAIN r.results = {}
      BY <1>3
    <2>2. QED BY <1>3, <2>1 DEF CallsSound
  <1>6. TrueOf(r, w)
    BY <1>3, NoElements DEF LogSound, TrueOf
  <1>7. QED BY <1>2, <1>3, <1>4, <1>5, <1>6 DEF LogSound, Asked

\* A call of the step gets its record.
LEMMA CallEvent ==
  ASSUME NEW l, NEW w, LogSound(l, w), NEW i \in 1..l.asked
  PROVE  LET r == Apply(l, ToolCall(i))
         IN LogSound(r, w) /\ r = [l EXCEPT !.called = @ \cup {i}]
  <1> DEFINE c == l.called \cup {i}
             r == [l EXCEPT !.called = c]
  <1>1. l \in LogType /\ i \in Nat
    BY DEF LogSound, LogType
  <1>2. Apply(l, ToolCall(i)) = r /\ r = [l EXCEPT !.called = @ \cup {i}]
    BY DEF Apply, ToolCall
  <1>3. c \in SUBSET Nat /\ l.called \subseteq c /\ (l.called \subseteq 1..l.asked => c \subseteq 1..l.asked)
    BY <1>1 DEF LogType
  <1> HIDE DEF c
  <1>4. /\ r \in LogType
        /\ r.open = l.open /\ r.pending = l.pending
        /\ r.asked = l.asked /\ r.called = c /\ r.results = l.results
        /\ r.fate = l.fate /\ r.nextTurn = l.nextTurn /\ r.nextStep = l.nextStep /\ r.ask = l.ask
    BY <1>1, <1>3 DEF LogType
  <1> HIDE DEF r
  <1>5. InboxSound(r)
    BY <1>4 DEF LogSound, InboxSound, Pending
  <1>6. CallsSound(r)
    BY <1>3, <1>4 DEF LogSound, CallsSound
  <1>7. TrueOf(r, w)
    BY <1>3, <1>4 DEF LogSound, TrueOf
  <1>8. QED BY <1>2, <1>4, <1>5, <1>6, <1>7 DEF LogSound

\* The next call of the step is answered, and truly.
TrueAnswer(i, answer, w) == /\ answer = "neverRan" => i \notin w.ran
                            /\ answer = "ran" => i \in w.ran
LEMMA ResultEvent ==
  ASSUME NEW l, NEW w, LogSound(l, w), l.open = "step", Len(l.results) < l.asked,
         NEW answer \in Answer, l.ask = w.asks => TrueAnswer(Len(l.results) + 1, answer, w)
  PROVE  LET i == Len(l.results) + 1
             r == Apply(l, ToolResult(i, answer))
         IN /\ LogSound(r, w) /\ Len(r.results) = i
            /\ r.open = l.open /\ r.asked = l.asked /\ r.called = l.called /\ r.ask = l.ask
            /\ r.fate = l.fate /\ r.nextTurn = l.nextTurn /\ r.nextStep = l.nextStep
  <1> DEFINE i == Len(l.results) + 1
             new == [callId |-> i, answer |-> answer]
             s == Append(l.results, new)
             p == l.pending \ {i}
             r == [l EXCEPT !.pending = p, !.results = s]
  <1>1. l \in LogType /\ l.results \in Seq([callId : Nat, answer : Answer]) /\ i \in Nat
    BY DEF LogSound, LogType
  <1>2. Apply(l, ToolResult(i, answer)) = r
    BY DEF Apply, ToolResult
  <1>3. new \in [callId : Nat, answer : Answer] /\ new.callId = i /\ new.answer = answer
    BY <1>1
  <1>4. CallsSound(l) /\ TrueOf(l, w) /\ l.asked \in Nat
    BY <1>1 DEF LogSound, LogType
  <1> HIDE DEF new
  <1>5. /\ s \in Seq([callId : Nat, answer : Answer]) /\ Len(s) = i /\ DOMAIN s = 1..i
        /\ DOMAIN l.results = 1..(i - 1)
        /\ \A k \in 1..i : s[k] = IF k = i THEN new ELSE l.results[k]
    BY <1>1, <1>3
  <1>6. p \in SUBSET Nat /\ p = i + 1..l.asked
    <2>1. l.pending = i..l.asked
      BY <1>4 DEF CallsSound
    <2>2. QED BY <1>1, <1>4, <2>1
  <1> HIDE DEF s, p
  <1>7. /\ r \in LogType
        /\ r.open = "step" /\ r.pending = p
        /\ r.asked = l.asked /\ r.called = l.called /\ r.results = s
        /\ r.fate = l.fate /\ r.nextTurn = l.nextTurn /\ r.nextStep = l.nextStep /\ r.ask = l.ask
    BY <1>1, <1>5, <1>6 DEF LogType
  <1> HIDE DEF r
  <1>8. InboxSound(r)
    BY <1>7 DEF LogSound, InboxSound, Pending
  <1>9. CallsSound(r)
    <2>1. \A k \in 1..(i - 1) : l.results[k].callId = k
      BY <1>4, <1>5 DEF CallsSound
    <2>2. \A k \in 1..i : s[k].callId = k
      <3> SUFFICES ASSUME NEW k \in 1..i PROVE s[k].callId = k
        OBVIOUS
      <3>1. CASE k = i
        BY <1>3, <1>5, <3>1
      <3>2. CASE k # i
        <4>1. k \in 1..(i - 1)
          BY <1>1, <3>2
        <4>2. s[k] = l.results[k]
          BY <1>5, <3>2, Zenon
        <4>3. QED BY <2>1, <4>1, <4>2, Zenon
      <3>3. QED BY <3>1, <3>2
    <2>3. \A k \in DOMAIN r.results : r.results[k].callId = k
      BY <1>5, <1>7, <2>2
    <2>4. Len(r.results) <= r.asked /\ Len(r.results) = i /\ r.called \subseteq 1..r.asked
      BY <1>1, <1>4, <1>5, <1>7 DEF CallsSound
    <2>5. r.pending = Len(r.results) + 1 .. r.asked
      BY <1>6, <1>7, <2>4
    <2>6. QED BY <1>7, <2>3, <2>4, <2>5, Zenon DEF CallsSound
  <1>10. TrueOf(r, w)
    <2>1. ASSUME l.ask = w.asks, NEW k \in 1..i PROVE TrueAnswer(s[k].callId, s[k].answer, w)
      <3>1. CASE k = i
        BY <1>3, <1>5, <2>1, <3>1
      <3>2. CASE k # i
        <4>1. k \in 1..(i - 1)
          BY <1>1, <3>2
        <4>2. k \in DOMAIN l.results /\ s[k] = l.results[k]
          BY <1>5, <3>2, <4>1
        <4>3. l.results[k] \in ToSet(l.results)
          BY <4>2 DEF ToSet
        <4>4. QED BY <1>4, <2>1, <4>2, <4>3 DEF TrueOf, TrueAnswer
      <3>3. QED BY <3>1, <3>2
    <2>2. l.ask = w.asks => \A x \in ToSet(r.results) :
                              /\ x.answer = "neverRan" => x.callId \notin w.ran
                              /\ x.answer = "ran" => x.callId \in w.ran
      <3>1. ASSUME l.ask = w.asks, NEW x \in ToSet(s) PROVE TrueAnswer(x.callId, x.answer, w)
        <4>1. PICK k \in 1..i : x = s[k]
          BY <1>5, <3>1 DEF ToSet
        <4>2. QED BY <2>1, <3>1, <4>1
      <3>2. QED BY <1>7, <3>1 DEF TrueAnswer
    <2>3. QED BY <1>4, <1>7, <2>2 DEF TrueOf
  <1>11. QED BY <1>2, <1>5, <1>7, <1>8, <1>9, <1>10 DEF LogSound

\* A list of the inbox changes: some messages leave it, and get their fate; others,
\* unknown so far, join it.
Other(target) == IF target = "nextTurn" THEN "nextStep" ELSE "nextTurn"

WithBox(l, target, box, gone, outcome) ==
  [l EXCEPT ![target] = box, !.fate = [m \in Msgs |-> IF m \in gone THEN outcome ELSE l.fate[m]]]

BoxChange(l, target, box, gone, new, outcome) ==
  /\ target \in Target /\ box \in Seq(Msgs) /\ Distinct(box)
  /\ gone \subseteq ToSet(l[target]) /\ new \subseteq Msgs \ Known(l)
  /\ ToSet(box) = (ToSet(l[target]) \ gone) \cup new
  /\ outcome \in {"none", "reported", "claimed"} /\ (outcome = "claimed" => l.open # "none")

\* What a run of events leaves alone when it only touches the inbox.
SameCalls(r, l) == /\ r.open = l.open /\ r.ask = l.ask /\ r.asked = l.asked /\ r.called = l.called
                   /\ r.pending = l.pending /\ r.results = l.results
SameInbox(r, l) == r.fate = l.fate /\ r.nextTurn = l.nextTurn /\ r.nextStep = l.nextStep

\* The log r is l after such a change.
BoxChanged(l, w, target, box, gone, new, outcome, r) ==
  /\ LogSound(r, w) /\ SameCalls(r, l)
  /\ r.nextTurn = (IF target = "nextTurn" THEN box ELSE l.nextTurn)
  /\ r.nextStep = (IF target = "nextStep" THEN box ELSE l.nextStep)
  /\ \A m \in Msgs : r.fate[m] = IF m \in gone THEN outcome ELSE l.fate[m]
  /\ \A m \in gone : l.fate[m] = "none"
  /\ Pending(r) = (Pending(l) \ gone) \cup new

LEMMA InboxChange ==
  ASSUME NEW l, NEW w, NEW target, NEW box, NEW gone, NEW new, NEW outcome, NEW r, LogSound(l, w),
         BoxChange(l, target, box, gone, new, outcome), r = WithBox(l, target, box, gone, outcome)
  PROVE  BoxChanged(l, w, target, box, gone, new, outcome, r)
  <1> DEFINE f == [m \in Msgs |-> IF m \in gone THEN outcome ELSE l.fate[m]]
  <1>13. /\ target \in Target /\ box \in Seq(Msgs) /\ Distinct(box)
         /\ gone \subseteq ToSet(l[target]) /\ new \subseteq Msgs \ Known(l)
         /\ ToSet(box) = (ToSet(l[target]) \ gone) \cup new
         /\ outcome \in {"none", "reported", "claimed"} /\ (outcome = "claimed" => l.open # "none")
    BY DEF BoxChange
  <1>0. r = [l EXCEPT ![target] = box, !.fate = f]
    BY DEF WithBox
  <1>1. l \in LogType /\ InboxSound(l) /\ CallsSound(l) /\ TrueOf(l, w)
    BY DEF LogSound
  <1>2. l[target] \in Seq(Msgs) /\ l[Other(target)] \in Seq(Msgs) /\ gone \subseteq Msgs
    <2>1. l[target] \in Seq(Msgs) /\ l[Other(target)] \in Seq(Msgs)
      BY <1>1, <1>13 DEF LogType, Target, Other
    <2>2. QED BY <1>13, <2>1 DEF ToSet
  <1>3. f \in [Msgs -> Fate] /\ \A m \in Msgs : f[m] = IF m \in gone THEN outcome ELSE l.fate[m]
    BY <1>1, <1>13 DEF LogType, Fate
  <1> HIDE DEF f
  <1>4. /\ r \in LogType
        /\ r[target] = box /\ r[Other(target)] = l[Other(target)] /\ r.fate = f
        /\ r.open = l.open /\ r.ask = l.ask /\ r.asked = l.asked /\ r.called = l.called
        /\ r.pending = l.pending /\ r.results = l.results
    <2>1. CASE target = "nextTurn"
      <3>1. r = [l EXCEPT !.nextTurn = box, !.fate = f]
        BY <1>0, <2>1
      <3>2. QED BY <1>1, <1>3, <1>13, <2>1, <3>1 DEF LogType, Other
    <2>2. CASE target = "nextStep"
      <3>1. r = [l EXCEPT !.nextStep = box, !.fate = f]
        BY <1>0, <2>2
      <3>2. QED BY <1>1, <1>3, <1>13, <2>2, <3>1 DEF LogType, Other
    <2>3. QED BY <1>13, <2>1, <2>2 DEF Target
  <1>5. /\ Pending(l) = ToSet(l[target]) \cup ToSet(l[Other(target)])
        /\ Pending(r) = ToSet(r[target]) \cup ToSet(r[Other(target)])
        /\ ToSet(l[target]) \cap ToSet(l[Other(target)]) = {}
    BY <1>1, <1>13 DEF Pending, Target, Other, InboxSound
  <1>6. new \cap Pending(l) = {} /\ \A m \in new : l.fate[m] = "none"
    BY <1>13 DEF Known
  <1>7. Pending(r) = (Pending(l) \ gone) \cup new
    BY <1>4, <1>5, <1>13
  <1>8. \A m \in gone : l.fate[m] = "none" /\ m \in Pending(l)
    BY <1>1, <1>5, <1>13 DEF InboxSound
  <1>9. InboxSound(r)
    <2>1. Distinct(r[target]) /\ Distinct(r[Other(target)])
      BY <1>1, <1>4, <1>13 DEF InboxSound, Target, Other
    <2>2. ToSet(r[target]) \cap ToSet(r[Other(target)]) = {}
      BY <1>4, <1>5, <1>6, <1>13
    <2>3. Distinct(r.nextTurn) /\ Distinct(r.nextStep) /\ ToSet(r.nextTurn) \cap ToSet(r.nextStep) = {}
      BY <1>13, <2>1, <2>2 DEF Target, Other
    <2>4. \A m \in Pending(r) : r.fate[m] = "none"
      <3>1. \A m \in Pending(r) : m \notin gone /\ m \in Msgs /\ l.fate[m] = "none"
        <4>1. ToSet(l[target]) \subseteq Msgs /\ ToSet(l[Other(target)]) \subseteq Msgs
          BY <1>2 DEF ToSet
        <4>2. \A m \in Pending(l) : l.fate[m] = "none" /\ m \in Msgs
          BY <1>1, <1>5, <4>1 DEF InboxSound
        <4>3. QED BY <1>6, <1>7, <1>8, <1>13, <4>2
      <3>2. QED BY <1>3, <1>4, <3>1
    <2>5. /\ \A m \in Msgs : r.fate[m] # "stray"
          /\ r.open = "none" => \A m \in Msgs : r.fate[m] # "claimed"
      BY <1>1, <1>3, <1>4, <1>13 DEF InboxSound
    <2>6. QED BY <2>3, <2>4, <2>5 DEF InboxSound
  <1>10. CallsSound(r)
    BY <1>1, <1>4 DEF CallsSound
  <1>11. TrueOf(r, w)
    BY <1>1, <1>3, <1>4, <1>8, <1>13 DEF TrueOf
  <1>12. /\ r.nextTurn = (IF target = "nextTurn" THEN box ELSE l.nextTurn)
         /\ r.nextStep = (IF target = "nextStep" THEN box ELSE l.nextStep)
    BY <1>4, <1>13 DEF Target, Other
  <1>14. LogSound(r, w)
    BY <1>4, <1>9, <1>10, <1>11 DEF LogSound
  <1>15. SameCalls(r, l)
    BY <1>4 DEF SameCalls
  <1>16. \A m \in Msgs : r.fate[m] = IF m \in gone THEN outcome ELSE l.fate[m]
    BY <1>3, <1>4
  <1>17. QED BY <1>7, <1>8, <1>12, <1>14, <1>15, <1>16 DEF BoxChanged

\* One more element, at the end of a list.
Longer(S, s, m, b) == s \in Seq(S) /\ Distinct(s) /\ m \in S /\ m \notin ToSet(s) /\ b = Append(s, m)

LEMMA WithLast ==
  ASSUME NEW S, NEW s, NEW m, NEW b, Longer(S, s, m, b)
  PROVE  b \in Seq(S) /\ Distinct(b) /\ ToSet(b) = ToSet(s) \cup {m}
  <1> DEFINE n == Len(s)
  <1>0. s \in Seq(S) /\ Distinct(s) /\ m \in S /\ m \notin ToSet(s) /\ b = Append(s, m)
    BY DEF Longer
  <1>1. n \in Nat /\ DOMAIN s = 1..n
    BY <1>0, LenProperties
  <1>2. b \in Seq(S) /\ Len(b) = n + 1 /\ (\A i \in 1..n : b[i] = s[i]) /\ b[n + 1] = m
    BY <1>0, AppendProperties
  <1> HIDE DEF n
  <1>3. DOMAIN b = 1..n + 1
    BY <1>2, LenProperties
  <1>4. 1..n + 1 = 1..n \cup {n + 1} /\ n + 1 \notin 1..n
    BY <1>1
  <1>5. DOMAIN b = DOMAIN s \cup {n + 1} /\ n + 1 \notin DOMAIN s /\ \A i \in DOMAIN s : b[i] = s[i]
    BY <1>1, <1>2, <1>3, <1>4
  <1>6. ToSet(b) = ToSet(s) \cup {m}
    BY <1>2, <1>5 DEF ToSet
  <1>7. \A i \in DOMAIN s : s[i] # m
    BY <1>0 DEF ToSet
  <1>8. ASSUME NEW i \in DOMAIN b, NEW j \in DOMAIN b, b[i] = b[j] PROVE i = j
    <2>1. CASE i \in DOMAIN s /\ j \in DOMAIN s
      BY <1>0, <1>5, <1>8, <2>1, Zenon DEF Distinct
    <2>2. CASE i = n + 1 \/ j = n + 1
      BY <1>2, <1>5, <1>7, <1>8, <2>2, Zenon
    <2>3. QED BY <1>5, <2>1, <2>2, Zenon
  <1>9. Distinct(b)
    BY <1>8, Zenon DEF Distinct
  <1>10. QED BY <1>2, <1>6, <1>9

LEMMA InsertEvent ==
  ASSUME NEW l, NEW w, LogSound(l, w), NEW target \in Target, NEW m \in Msgs \ Known(l)
  PROVE  LET r == Apply(l, Splice(target, Len(l[target]), 0, <<m>>, "none"))
         IN /\ LogSound(r, w)
            /\ r.fate = l.fate /\ Pending(r) = Pending(l) \cup {m} /\ SameCalls(r, l)
  <1> DEFINE box == Append(l[target], m)
             e == Splice(target, Len(l[target]), 0, <<m>>, "none")
             r == WithBox(l, target, box, {}, "none")
  <1>1. l \in LogType /\ InboxSound(l) /\ l[target] \in Seq(Msgs)
    BY DEF LogSound, LogType, Target
  <1>2. Len(l[target]) \in Nat
    BY <1>1
  <1>3. SubSeq(l[target], Len(l[target]) + 0 + 1, Len(l[target])) = <<>>
        /\ SubSeq(l[target], Len(l[target]) + 1, Len(l[target]) + 0) = <<>>
    BY <1>1, <1>2
  <1>4. SubSeq(l[target], 1, Len(l[target])) = l[target]
    BY <1>1, SubSeqFull
  <1>5. l[target] \o <<m>> \o <<>> = box
    BY <1>1
  <1>6. Apply(l, e) = r
    <2>1. Apply(l, e) = Spliced(l, e)
      BY DEF Apply, Splice
    <2>2. Spliced(l, e) = [l EXCEPT ![target] = l[target] \o <<m>> \o <<>>,
                                    !.fate = [x \in Msgs |-> IF x \in ToSet(<<>>) THEN "none" ELSE @[x]]]
      BY <1>3, <1>4, Zenon DEF Spliced, Splice
    <2>3. QED BY <1>5, <2>1, <2>2, NoElements DEF WithBox
  <1>7. box \in Seq(Msgs) /\ ToSet(box) = (ToSet(l[target]) \ {}) \cup {m} /\ Distinct(box)
    <2>1. m \notin ToSet(l[target])
      BY DEF Known, Pending, Target
    <2>2. Distinct(l[target])
      BY <1>1 DEF InboxSound, Target
    <2> HIDE DEF box
    <2>3. box \in Seq(Msgs) /\ ToSet(box) = ToSet(l[target]) \cup {m} /\ Distinct(box)
      <3> DEFINE old == l[target]
      <3>1. Longer(Msgs, old, m, box)
        BY <1>1, <2>1, <2>2 DEF Longer, box
      <3> HIDE DEF old
      <3>2. box \in Seq(Msgs) /\ Distinct(box) /\ ToSet(box) = ToSet(old) \cup {m}
        BY <3>1, WithLast
      <3>3. QED BY <3>2 DEF old
    <2>4. QED BY <2>3
  <1>9. LogSound(r, w) /\ Pending(r) = (Pending(l) \ {}) \cup {m} /\ SameCalls(r, l)
        /\ \A x \in Msgs : r.fate[x] = IF x \in {} THEN "none" ELSE l.fate[x]
    <2> DEFINE gone == {}
               new == {m}
               outcome == "none"
    <2>1. BoxChange(l, target, box, gone, new, outcome)
      <3> HIDE DEF box
      <3>1. QED BY <1>7 DEF BoxChange
    <2>2. r = WithBox(l, target, box, gone, outcome)
      OBVIOUS
    <2> HIDE DEF box, r, gone, new, outcome
    <2>3. BoxChanged(l, w, target, box, gone, new, outcome, r)
      BY <2>1, <2>2, InboxChange
    <2>4. QED BY <2>3 DEF BoxChanged, gone, new, outcome
  <1> HIDE DEF r
  <1>10. r.fate = l.fate
    <2>1. r.fate \in [Msgs -> Fate] /\ l.fate \in [Msgs -> Fate]
      BY <1>1, <1>9 DEF LogSound, LogType
    <2>2. QED BY <1>9, <2>1
  <1>11. QED BY <1>6, <1>9, <1>10 DEF r

\* One element less: what comes after it moves one place forward.
LEMMA WithoutOne ==
  ASSUME NEW S, NEW s \in Seq(S), Distinct(s), NEW p \in 1..Len(s)
  PROVE  LET r == SubSeq(s, 1, p - 1) \o <<>> \o SubSeq(s, p + 1, Len(s))
         IN r \in Seq(S) /\ Distinct(r) /\ ToSet(r) = ToSet(s) \ {s[p]}
  <1> DEFINE n == Len(s)
             a == SubSeq(s, 1, p - 1)
             b == SubSeq(s, p + 1, n)
             r == a \o <<>> \o b
             place(i) == IF i < p THEN i ELSE i + 1
  <1>1. n \in Nat /\ DOMAIN s = 1..n /\ p \in Nat /\ p >= 1 /\ p <= n /\ p \in 1..n
    BY LenProperties
  <1>2. \A i \in 1..n : s[i] \in S
    BY ElementOfSeq
  <1>3. a \in Seq(S) /\ Len(a) = p - 1 /\ \A i \in 1..p - 1 : a[i] = s[i]
    <2>1. 1 \in Int /\ p - 1 \in Int /\ p - 1 - 1 + 1 = p - 1 /\ \A i \in 1..p - 1 : i \in 1..n /\ 1 + i - 1 = i
      BY <1>1
    <2>2. /\ a \in Seq(S) /\ Len(a) = IF 1 <= p - 1 THEN p - 1 - 1 + 1 ELSE 0
          /\ \A i \in 1..p - 1 - 1 + 1 : a[i] = s[1 + i - 1]
      BY <1>2, <2>1, SubSeqProperties
    <2> HIDE DEF a, n
    <2>3. Len(a) = p - 1
      BY <1>1, <2>2
    <2>4. QED BY <2>1, <2>2, <2>3
  <1>4. b \in Seq(S) /\ Len(b) = n - p /\ \A i \in 1..n - p : b[i] = s[i + p]
    <2>1. /\ p + 1 \in Int /\ n \in Int /\ n - (p + 1) + 1 = n - p
          /\ \A i \in 1..n - p : (p + 1) + i - 1 = i + p
          /\ \A i \in p + 1..n : i \in 1..n
      BY <1>1
    <2>2. \A i \in p + 1..n : s[i] \in S
      BY <1>2, <2>1
    <2>3. /\ b \in Seq(S) /\ Len(b) = IF p + 1 <= n THEN n - (p + 1) + 1 ELSE 0
          /\ \A i \in 1..n - (p + 1) + 1 : b[i] = s[(p + 1) + i - 1]
      BY <2>1, <2>2, SubSeqProperties
    <2> HIDE DEF b, n
    <2>4. Len(b) = n - p
      BY <1>1, <2>3
    <2>5. QED BY <2>1, <2>3, <2>4
  <1> HIDE DEF a, b
  <1>5. r = a \o b
    BY <1>3, ConcatEmptySeq
  <1> HIDE DEF n, r
  <1>6. /\ r \in Seq(S) /\ Len(r) = Len(a) + Len(b)
        /\ \A i \in 1..Len(a) + Len(b) : r[i] = IF i <= Len(a) THEN a[i] ELSE b[i - Len(a)]
    <2>1. a \in Seq(S) /\ b \in Seq(S)
      BY <1>3, <1>4
    <2>2. /\ a \o b \in Seq(S) /\ Len(a \o b) = Len(a) + Len(b)
          /\ \A i \in 1..Len(a) + Len(b) : (a \o b)[i] = IF i <= Len(a) THEN a[i] ELSE b[i - Len(a)]
      BY <2>1, ConcatProperties
    <2>3. QED BY <1>5, <2>2, Zenon
  <1>7. Len(a) + Len(b) = n - 1
    BY <1>1, <1>3, <1>4
  <1>8. DOMAIN r = 1..n - 1
    BY <1>6, <1>7, LenProperties
  <1>9. \A i \in 1..n - 1 : r[i] = IF i <= p - 1 THEN a[i] ELSE b[i - (p - 1)]
    BY <1>3, <1>6, <1>7, Zenon
  <1>10. ASSUME NEW i \in 1..n - 1 PROVE r[i] = s[place(i)]
    <2>1. CASE i < p
      <3>1. i <= p - 1 /\ i \in 1..p - 1
        BY <1>1, <2>1
      <3>2. QED BY <1>3, <1>9, <2>1, <3>1
    <2>2. CASE ~(i < p)
      <3>1. ~(i <= p - 1) /\ i - (p - 1) \in 1..n - p /\ i - (p - 1) + p = i + 1
        BY <1>1, <2>2
      <3>2. r[i] = b[i - (p - 1)]
        BY <1>9, <3>1
      <3>3. b[i - (p - 1)] = s[i - (p - 1) + p]
        BY <1>4, <3>1
      <3>4. QED BY <2>2, <3>1, <3>2, <3>3
    <2>3. QED BY <2>1, <2>2
  <1>11. \A i \in 1..n - 1 : place(i) \in 1..n /\ place(i) # p
    BY <1>1
  <1>12. \A i, j \in 1..n - 1 : place(i) = place(j) => i = j
    BY <1>1
  <1>13. ASSUME NEW k \in 1..n, k # p PROVE \E i \in 1..n - 1 : place(i) = k
    <2>1. CASE k < p
      <3>1. k \in 1..n - 1 /\ place(k) = k
        BY <1>1, <2>1
      <3>2. QED BY <3>1
    <2>2. CASE k > p
      <3>1. k - 1 \in 1..n - 1 /\ place(k - 1) = k
        BY <1>1, <2>2
      <3>2. QED BY <3>1
    <2>3. QED BY <1>1, <1>13, <2>1, <2>2
  <1> HIDE DEF place
  <1>14. ASSUME NEW i \in DOMAIN r, NEW j \in DOMAIN r, r[i] = r[j] PROVE i = j
    <2>1. s[place(i)] = s[place(j)] /\ place(i) \in DOMAIN s /\ place(j) \in DOMAIN s
      BY <1>1, <1>8, <1>10, <1>11, <1>14
    <2>2. place(i) = place(j)
      BY <2>1, Zenon DEF Distinct
    <2>3. QED BY <1>8, <1>12, <2>2
  <1>15. Distinct(r)
    BY <1>14, Zenon DEF Distinct
  <1>16. ASSUME NEW i \in DOMAIN r PROVE r[i] \in ToSet(s) /\ r[i] # s[p]
    <2>1. r[i] = s[place(i)] /\ place(i) \in DOMAIN s /\ p \in DOMAIN s /\ place(i) # p
      BY <1>1, <1>8, <1>10, <1>11
    <2>2. s[place(i)] # s[p]
      BY <2>1, Zenon DEF Distinct
    <2>3. QED BY <2>1, <2>2 DEF ToSet
  <1>17. ASSUME NEW k \in DOMAIN s, s[k] # s[p] PROVE s[k] \in ToSet(r)
    <2>1. k \in 1..n /\ k # p
      BY <1>1, <1>17
    <2>2. PICK i \in 1..n - 1 : place(i) = k
      BY <1>13, <2>1
    <2>3. i \in DOMAIN r /\ r[i] = s[k]
      BY <1>8, <1>10, <2>2
    <2>4. QED BY <2>3 DEF ToSet
  <1>18. ToSet(r) \subseteq ToSet(s) \ {s[p]}
    BY <1>16 DEF ToSet
  <1>19. ToSet(s) \ {s[p]} \subseteq ToSet(r)
    BY <1>17 DEF ToSet
  <1>20. ToSet(r) = ToSet(s) \ {s[p]}
    BY <1>18, <1>19
  <1>21. QED BY <1>6, <1>15, <1>20 DEF r, a, b, n

\* A list of the inbox, by name.
ListOf(l, target) == l[target]

\* A list of one.
LEMMA JustOne ==
  ASSUME NEW S, NEW s \in Seq(S), NEW p \in 1..Len(s)
  PROVE  ToSet(SubSeq(s, p, p)) = {s[p]}
  <1> DEFINE one == SubSeq(s, p, p)
  <1>1. p \in Int /\ p <= p /\ p - p + 1 = 1 /\ p + 1 - 1 = p
    BY LenProperties
  <1>2. \A i \in p..p : s[i] \in S
    BY <1>1, ElementOfSeq
  <1>3. /\ one \in Seq(S) /\ Len(one) = IF p <= p THEN p - p + 1 ELSE 0
        /\ \A i \in 1..p - p + 1 : one[i] = s[p + i - 1]
    BY <1>1, <1>2, SubSeqProperties
  <1> HIDE DEF one
  <1>4. Len(one) = 1 /\ 1 \in 1..p - p + 1
    BY <1>1, <1>3
  <1>5. one[1] = s[p]
    BY <1>1, <1>3, <1>4
  <1>6. DOMAIN one = 1..1 /\ 1..1 = {1}
    BY <1>3, <1>4, LenProperties
  <1>7. ToSet(one) = {s[p]}
    BY <1>5, <1>6 DEF ToSet
  <1>8. QED BY <1>7 DEF one

\* One message is taken out of a list: it is claimed, or cancelled where it stands.
MayTake(l, target, p, outcome, m) ==
  /\ target \in Target /\ p \in 1..Len(ListOf(l, target)) /\ m = ListOf(l, target)[p]
  /\ outcome \in {"reported", "claimed"} /\ (outcome = "claimed" => l.open # "none")

MessageTaken(l, w, target, outcome, m, r) ==
  /\ LogSound(r, w) /\ SameCalls(r, l)
  /\ Pending(r) = Pending(l) \ {m} /\ l.fate[m] = "none" /\ m \in Msgs
  /\ \A x \in Msgs : r.fate[x] = IF x = m THEN outcome ELSE l.fate[x]
  /\ target = "nextTurn" => r.nextStep = l.nextStep

LEMMA TakeEvent ==
  ASSUME NEW l, NEW w, LogSound(l, w), NEW target, NEW p, NEW outcome, NEW m, MayTake(l, target, p, outcome, m),
         NEW r, r = Apply(l, Splice(target, p - 1, 1, <<>>, outcome))
  PROVE  MessageTaken(l, w, target, outcome, m, r)
  <1> DEFINE s == ListOf(l, target)
             box == SubSeq(s, 1, p - 1) \o <<>> \o SubSeq(s, p + 1, Len(s))
             gone == {m}
             new == {}
  <1>0. /\ target \in Target /\ p \in 1..Len(s) /\ m = s[p]
        /\ outcome \in {"reported", "claimed"} /\ (outcome = "claimed" => l.open # "none")
    BY DEF MayTake
  <1>1. l \in LogType /\ InboxSound(l) /\ s \in Seq(Msgs) /\ Distinct(s)
    BY <1>0 DEF LogSound, LogType, Target, InboxSound, ListOf
  <1>2. Len(s) \in Nat /\ p \in Nat /\ m \in Msgs /\ m \in ToSet(s)
    <2> HIDE DEF s
    <2>1. Len(s) \in Nat /\ DOMAIN s = 1..Len(s)
      BY <1>1, LenProperties
    <2>2. m \in Msgs
      BY <1>0, <1>1, ElementOfSeq
    <2>3. QED BY <1>0, <2>1, <2>2 DEF ToSet
  <1>3. box \in Seq(Msgs) /\ Distinct(box) /\ ToSet(box) = ToSet(s) \ {m}
    <2> HIDE DEF s
    <2>1. QED BY <1>0, <1>1, WithoutOne DEF s
  <1>4. ToSet(SubSeq(s, p, p)) = gone
    <2> HIDE DEF s
    <2>1. QED BY <1>0, <1>1, JustOne
  <1>5. r = WithBox(l, target, box, gone, outcome)
    <2>1. p - 1 + 1 = p /\ p - 1 + 1 + 1 = p + 1
      BY <1>2
    <2>2. r = Spliced(l, Splice(target, p - 1, 1, <<>>, outcome))
      BY DEF Apply, Splice
    <2>3. r = [l EXCEPT ![target] = SubSeq(s, 1, p - 1) \o <<>> \o SubSeq(s, p + 1, Len(s)),
                        !.fate = [x \in Msgs |-> IF x \in ToSet(SubSeq(s, p, p)) THEN outcome ELSE @[x]]]
      BY <2>1, <2>2 DEF Spliced, Splice, ListOf
    <2>4. QED BY <1>4, <2>3 DEF WithBox, ListOf
  <1>6. BoxChange(l, target, box, gone, new, outcome)
    <2> HIDE DEF box
    <2>1. QED BY <1>0, <1>2, <1>3 DEF BoxChange, ListOf
  <1> HIDE DEF box, gone, new
  <1>7. BoxChanged(l, w, target, box, gone, new, outcome, r)
    BY <1>5, <1>6, InboxChange
  <1>8. QED BY <1>2, <1>7 DEF BoxChanged, MessageTaken, gone, new

\* A whole list is taken.
MayTakeAll(l, target, outcome, all) ==
  /\ target \in Target /\ all = ToSet(ListOf(l, target))
  /\ outcome \in {"reported", "claimed"} /\ (outcome = "claimed" => l.open # "none")

ListEmptied(l, w, target, outcome, all, r) ==
  /\ LogSound(r, w) /\ SameCalls(r, l)
  /\ Pending(r) = Pending(l) \ all /\ \A x \in all : l.fate[x] = "none"
  /\ \A x \in Msgs : r.fate[x] = IF x \in all THEN outcome ELSE l.fate[x]
  /\ r.nextTurn = (IF target = "nextTurn" THEN <<>> ELSE l.nextTurn)
  /\ r.nextStep = (IF target = "nextStep" THEN <<>> ELSE l.nextStep)

LEMMA TakeAllEvent ==
  ASSUME NEW l, NEW w, LogSound(l, w), NEW target, NEW outcome, NEW all, MayTakeAll(l, target, outcome, all),
         NEW r, r = Apply(l, Splice(target, 0, Len(ListOf(l, target)), <<>>, outcome))
  PROVE  ListEmptied(l, w, target, outcome, all, r)
  <1> DEFINE s == ListOf(l, target)
             box == <<>>
             new == {}
  <1>0. /\ target \in Target /\ all = ToSet(s)
        /\ outcome \in {"reported", "claimed"} /\ (outcome = "claimed" => l.open # "none")
    BY DEF MayTakeAll
  <1>1. l \in LogType /\ InboxSound(l) /\ s \in Seq(Msgs)
    BY <1>0 DEF LogSound, LogType, Target, ListOf
  <1>2. Len(s) \in Nat
    BY <1>1
  <1>3. r = WithBox(l, target, box, all, outcome)
    <2>1. 0 + Len(s) = Len(s) /\ 0 + 1 = 1
      BY <1>2
    <2>2. r = Spliced(l, Splice(target, 0, Len(s), <<>>, outcome))
      BY DEF Apply, Splice
    <2>3. r = [l EXCEPT ![target] = SubSeq(s, 1, 0) \o <<>> \o SubSeq(s, Len(s) + 1, Len(s)),
                        !.fate = [x \in Msgs |-> IF x \in ToSet(SubSeq(s, 1, Len(s))) THEN outcome ELSE @[x]]]
      BY <2>1, <2>2 DEF Spliced, Splice, ListOf
    <2> HIDE DEF s
    <2>4. SubSeq(s, 1, 0) = <<>> /\ SubSeq(s, Len(s) + 1, Len(s)) = <<>>
      BY <1>1, <1>2
    <2>5. SubSeq(s, 1, Len(s)) = s
      BY <1>1, SubSeqFull
    <2>6. <<>> \o <<>> \o <<>> = <<>>
      OBVIOUS
    <2>7. r = [l EXCEPT ![target] = <<>>,
                        !.fate = [x \in Msgs |-> IF x \in ToSet(s) THEN outcome ELSE @[x]]]
      BY <2>3, <2>4, <2>5, <2>6
    <2>8. QED BY <1>0, <2>7 DEF WithBox
  <1>4. BoxChange(l, target, box, all, new, outcome)
    <2>1. Distinct(<<>>) /\ <<>> \in Seq(Msgs)
      BY DEF Distinct
    <2>2. QED BY <1>0, <2>1, NoElements DEF BoxChange, ListOf
  <1> HIDE DEF new
  <1>5. BoxChanged(l, w, target, box, all, new, outcome, r)
    BY <1>3, <1>4, InboxChange
  <1>6. QED BY <1>5 DEF BoxChanged, ListEmptied, new

-------------------------------------------------------------------------------
(* What the agent writes, as runs of events.                                   *)

\* A run: events that take a log to another, sound wherever it is cut.
Runs(l, s, w, r) == s \in Seq(Event) /\ Sound(l, s, w) /\ r = Fold(l, s)

LEMMA RunEnds ==
  ASSUME NEW l, NEW s, NEW w, NEW r, Runs(l, s, w, r)
  PROVE  LogSound(l, w) /\ LogSound(r, w)
  BY SoundEnds DEF Runs

LEMMA RunNone ==
  ASSUME NEW l, NEW w, LogSound(l, w)
  PROVE  Runs(l, <<>>, w, l)
  BY SoundNone DEF Runs

LEMMA RunOne ==
  ASSUME NEW l, NEW e \in Event, NEW w, NEW r, LogSound(l, w), r = Apply(l, e), LogSound(r, w)
  PROVE  Runs(l, <<e>>, w, r)
  BY SoundOne DEF Runs

LEMMA RunThen ==
  ASSUME NEW l, NEW s, NEW q, NEW t, NEW w, NEW r, Runs(l, s, w, q), Runs(q, t, w, r)
  PROVE  Runs(l, s \o t, w, r)
  <1>1. s \in Seq(Event) /\ t \in Seq(Event) /\ q = Fold(l, s) /\ Sound(l, s, w) /\ Sound(Fold(l, s), t, w)
        /\ r = Fold(q, t)
    BY DEF Runs
  <1>2. Sound(l, s \o t, w) /\ Fold(l, s \o t) = Fold(Fold(l, s), t)
    BY <1>1, SoundConcat
  <1>3. s \o t \in Seq(Event)
    BY <1>1, ConcatProperties
  <1>4. QED BY <1>1, <1>2, <1>3 DEF Runs

\* What is sound in one world is sound in another in which all that is sound stays so.
LEMMA RunElsewhere ==
  ASSUME NEW l, NEW s, NEW w, NEW v, NEW r, Runs(l, s, w, r),
         \A x : LogSound(x, w) => LogSound(x, v)
  PROVE  Runs(l, s, v, r)
  BY DEF Runs, Sound

\* A list is taken, if there is anything in it.
TakesAll(l, target, outcome, all, s) ==
  /\ MayTakeAll(l, target, outcome, all)
  /\ s = IF ListOf(l, target) = <<>> THEN <<>>
         ELSE <<Splice(target, 0, Len(ListOf(l, target)), <<>>, outcome)>>

LEMMA ListTaken ==
  ASSUME NEW l, NEW w, LogSound(l, w), NEW target, NEW outcome, NEW all, NEW s,
         TakesAll(l, target, outcome, all, s), NEW r, r = Fold(l, s)
  PROVE  Runs(l, s, w, r) /\ ListEmptied(l, w, target, outcome, all, r)
  <1> DEFINE e == Splice(target, 0, Len(ListOf(l, target)), <<>>, outcome)
             q == Apply(l, e)
  <1>1. MayTakeAll(l, target, outcome, all) /\ s = IF ListOf(l, target) = <<>> THEN <<>> ELSE <<e>>
    BY DEF TakesAll
  <1>2. target \in Target /\ all = ToSet(ListOf(l, target)) /\ outcome \in {"reported", "claimed"}
    BY <1>1 DEF MayTakeAll
  <1>3. CASE ListOf(l, target) = <<>>
    <2>1. s = <<>> /\ all = {}
      BY <1>1, <1>2, <1>3, NoElements
    <2>2. Runs(l, s, w, l) /\ r = l
      BY <2>1, SoundNone, RunNone
    <2>3. /\ target = "nextTurn" => l.nextTurn = <<>>
          /\ target = "nextStep" => l.nextStep = <<>>
      BY <1>3 DEF ListOf
    <2>4. ListEmptied(l, w, target, outcome, all, l)
      BY <2>1, <2>3 DEF ListEmptied, SameCalls
    <2>5. QED BY <2>2, <2>4
  <1>4. CASE ListOf(l, target) # <<>>
    <2>1. e \in Event
      <3>1. Len(ListOf(l, target)) \in Nat /\ <<>> \in Seq(Msgs) /\ 0 \in Nat /\ outcome \in Fate
        BY <1>2 DEF LogSound, LogType, Target, ListOf, Fate
      <3>2. QED BY <1>2, <3>1, EventTypes
    <2>2. q = Apply(l, Splice(target, 0, Len(ListOf(l, target)), <<>>, outcome)) /\ q = Apply(l, e)
      OBVIOUS
    <2> HIDE DEF q
    <2>3. ListEmptied(l, w, target, outcome, all, q)
      BY <1>1, <2>2, TakeAllEvent
    <2> HIDE DEF e
    <2>4. Runs(l, <<e>>, w, q)
      BY <2>1, <2>2, <2>3, RunOne DEF ListEmptied
    <2>5. s = <<e>> /\ r = q
      BY <1>1, <1>4, <2>4 DEF Runs
    <2>6. QED BY <2>3, <2>4, <2>5
  <1>5. QED BY <1>3, <1>4

\* One message leaves a list.
Leaves(l, target, p, outcome, s, m) ==
  MayTake(l, target, p, outcome, m) /\ s = <<Splice(target, p - 1, 1, <<>>, outcome)>>

LEMMA OneLeaves ==
  ASSUME NEW l, NEW w, LogSound(l, w), NEW target, NEW p, NEW outcome, NEW s, NEW m,
         Leaves(l, target, p, outcome, s, m), NEW r, r = Fold(l, s)
  PROVE  Runs(l, s, w, r) /\ MessageTaken(l, w, target, outcome, m, r)
  <1> DEFINE e == Splice(target, p - 1, 1, <<>>, outcome)
             q == Apply(l, e)
  <1>1. MayTake(l, target, p, outcome, m) /\ s = <<e>>
    BY DEF Leaves
  <1>2. target \in Target /\ p \in 1..Len(ListOf(l, target)) /\ outcome \in {"reported", "claimed"}
    BY <1>1 DEF MayTake
  <1>3. e \in Event
    <2>1. p - 1 \in Nat /\ <<>> \in Seq(Msgs) /\ 1 \in Nat /\ outcome \in Fate
      BY <1>2 DEF Fate
    <2>2. QED BY <1>2, <2>1, EventTypes
  <1>4. q = Apply(l, Splice(target, p - 1, 1, <<>>, outcome)) /\ q = Apply(l, e)
    OBVIOUS
  <1> HIDE DEF q
  <1>5. MessageTaken(l, w, target, outcome, m, q)
    BY <1>1, <1>4, TakeEvent
  <1> HIDE DEF e
  <1>6. Runs(l, <<e>>, w, q)
    BY <1>3, <1>4, <1>5, RunOne DEF MessageTaken
  <1>7. r = q
    BY <1>1, <1>6 DEF Runs
  <1>8. QED BY <1>1, <1>5, <1>6, <1>7

\* The oldest queued turn is claimed, if there is one.
LEMMA HeadTaken ==
  ASSUME NEW l, NEW w, LogSound(l, w), l.open # "none", l.nextTurn # <<>>,
         NEW s, s = <<Splice("nextTurn", 0, 1, <<>>, "claimed")>>, NEW r, r = Fold(l, s),
         NEW m, m = Head(l.nextTurn)
  PROVE  Runs(l, s, w, r) /\ MessageTaken(l, w, "nextTurn", "claimed", m, r)
  <1> DEFINE target == "nextTurn"
             p == 1
             outcome == "claimed"
  <1>1. ListOf(l, "nextTurn") = l.nextTurn /\ l.nextTurn \in Seq(Msgs) /\ 1 \in 1..Len(l.nextTurn) /\ 1 - 1 = 0
    BY DEF LogSound, LogType, ListOf
  <1>2. m = ListOf(l, target)[p] /\ p \in 1..Len(ListOf(l, target))
    BY <1>1
  <1>3. s = <<Splice(target, p - 1, 1, <<>>, outcome)>>
    BY <1>1
  <1>4. target \in Target /\ outcome \in {"reported", "claimed"} /\ target = "nextTurn" /\ outcome = "claimed"
    BY DEF Target
  <1> HIDE DEF target, p, outcome
  <1>5. Leaves(l, target, p, outcome, s, m)
    BY <1>2, <1>3, <1>4 DEF Leaves, MayTake
  <1>6. Runs(l, s, w, r) /\ MessageTaken(l, w, target, outcome, m, r)
    BY <1>5, OneLeaves
  <1>7. QED BY <1>4, <1>6

\* What a turn or a step claims: all that waits for a step, and for a turn the oldest
\* queued one.
LEMMA ClaimRuns ==
  ASSUME NEW l, NEW w, LogSound(l, w), l.open # "none", NEW target \in Target,
         NEW s, s = Claim(l, target), NEW r, r = Fold(l, s), NEW b, b = ClaimedBy(l, target)
  PROVE  /\ Runs(l, s, w, r) /\ LogSound(r, w) /\ SameCalls(r, l)
         /\ b \in Seq(Msgs) /\ Distinct(b) /\ Pending(r) = Pending(l) \ ToSet(b)
         /\ \A x \in ToSet(b) : l.fate[x] = "none"
         /\ \A x \in Msgs : r.fate[x] = IF x \in ToSet(b) THEN "claimed" ELSE l.fate[x]
  <1> DEFINE s1 == IF l.nextStep = <<>> THEN <<>>
                   ELSE <<Splice("nextStep", 0, Len(l.nextStep), <<>>, "claimed")>>
             takes == ~(target # "nextTurn" \/ l.nextTurn = <<>>)
             s2 == IF ~takes THEN <<>> ELSE <<Splice("nextTurn", 0, 1, <<>>, "claimed")>>
             m == Head(l.nextTurn)
             q == Fold(l, s1)
             all == ToSet(l.nextStep)
  <1>1. s = s1 \o s2 /\ b = l.nextStep \o (IF ~takes THEN <<>> ELSE <<m>>)
    BY DEF Claim, ClaimedBy
  <1>2. /\ l.nextStep \in Seq(Msgs) /\ l.nextTurn \in Seq(Msgs)
        /\ Distinct(l.nextStep) /\ all \cap ToSet(l.nextTurn) = {}
    BY DEF LogSound, LogType, InboxSound
  <1>3. /\ Runs(l, s1, w, q) /\ LogSound(q, w) /\ SameCalls(q, l)
        /\ Pending(q) = Pending(l) \ all /\ \A x \in all : l.fate[x] = "none"
        /\ \A x \in Msgs : q.fate[x] = IF x \in all THEN "claimed" ELSE l.fate[x]
        /\ q.nextTurn = l.nextTurn
    <2> DEFINE steps == "nextStep"
               outcome == "claimed"
    <2>1. ListOf(l, "nextStep") = l.nextStep
      BY DEF ListOf
    <2> HIDE DEF q
    <2>2. TakesAll(l, steps, outcome, all, s1) /\ q = Fold(l, s1)
      BY <2>1 DEF q, TakesAll, MayTakeAll, Target
    <2>3. steps # "nextTurn" /\ outcome = "claimed"
      OBVIOUS
    <2> HIDE DEF s1, all, steps, outcome
    <2>4. Runs(l, s1, w, q) /\ ListEmptied(l, w, steps, outcome, all, q)
      BY <2>2, ListTaken
    <2>5. QED BY <2>3, <2>4 DEF ListEmptied
  <1> HIDE DEF s1, q, all
  <1>4. CASE ~takes
    <2>1. s2 = <<>> /\ b = l.nextStep
      <3>1. b = l.nextStep \o <<>>
        BY <1>1, <1>4
      <3>2. QED BY <1>2, <1>4, <3>1, ConcatEmptySeq
    <2>2. s = s1 /\ r = q
      <3>1. s = s1
        BY <1>1, <1>3, <2>1, ConcatEmptySeq DEF Runs
      <3>2. QED BY <3>1 DEF q
    <2>3. QED BY <1>2, <1>3, <2>1, <2>2 DEF all
  <1>5. CASE takes
    <2> DEFINE p == Fold(q, s2)
    <2>1. s2 = <<Splice("nextTurn", 0, 1, <<>>, "claimed")>> /\ m = Head(q.nextTurn)
          /\ q.open # "none" /\ q.nextTurn # <<>>
      BY <1>3, <1>5 DEF SameCalls
    <2> HIDE DEF s2, p, m
    <2>0. Runs(q, s2, w, p) /\ MessageTaken(q, w, "nextTurn", "claimed", m, p)
      BY <1>3, <2>1, HeadTaken DEF p
    <2>2. /\ LogSound(p, w) /\ SameCalls(p, q)
          /\ Pending(p) = Pending(q) \ {m} /\ q.fate[m] = "none" /\ m \in Msgs
          /\ \A x \in Msgs : p.fate[x] = IF x = m THEN "claimed" ELSE q.fate[x]
      BY <2>0 DEF MessageTaken
    <2>3. Runs(l, s, w, p) /\ r = p
      <3>1. Runs(l, s, w, p)
        BY <1>1, <1>3, <2>0, RunThen
      <3>2. QED BY <3>1 DEF Runs
    <2>4. b = Append(l.nextStep, m) /\ b \in Seq(Msgs)
      BY <1>1, <1>2, <1>5, <2>2
    <2>5. m \notin all /\ l.fate[m] = "none"
      BY <1>3, <2>2
    <2>6. ToSet(b) = all \cup {m} /\ Distinct(b)
      <3> DEFINE old == l.nextStep
      <3>1. Longer(Msgs, old, m, b)
        BY <1>2, <2>2, <2>4, <2>5 DEF Longer, all
      <3> HIDE DEF old
      <3>2. ToSet(b) = ToSet(old) \cup {m} /\ Distinct(b)
        BY <3>1, WithLast
      <3>3. QED BY <3>2 DEF old, all
    <2>7. QED BY <1>3, <2>2, <2>3, <2>4, <2>5, <2>6 DEF SameCalls
  <1>6. QED BY <1>4, <1>5

\* A message nobody knew is queued.
LEMMA InsertRuns ==
  ASSUME NEW l, NEW w, LogSound(l, w), NEW target \in Target, NEW m \in Msgs \ Known(l),
         NEW s, s = <<Splice(target, Len(ListOf(l, target)), 0, <<m>>, "none")>>, NEW r, r = Fold(l, s)
  PROVE  /\ Runs(l, s, w, r) /\ SameCalls(r, l) /\ r.fate = l.fate
         /\ Pending(r) = Pending(l) \cup {m} /\ l.fate[m] = "none"
  <1> DEFINE e == Splice(target, Len(ListOf(l, target)), 0, <<m>>, "none")
             q == Apply(l, e)
  <1>1. q = Apply(l, Splice(target, Len(l[target]), 0, <<m>>, "none")) /\ q = Apply(l, e)
    BY DEF ListOf
  <1>2. e \in Event
    <2>1. Len(ListOf(l, target)) \in Nat /\ <<m>> \in Seq(Msgs) /\ 0 \in Nat /\ "none" \in Fate
      BY DEF LogSound, LogType, Target, ListOf, Fate
    <2>2. QED BY <2>1, EventTypes
  <1> HIDE DEF q
  <1>3. LogSound(q, w) /\ q.fate = l.fate /\ Pending(q) = Pending(l) \cup {m} /\ SameCalls(q, l)
    BY <1>1, InsertEvent
  <1> HIDE DEF e
  <1>4. Runs(l, <<e>>, w, q)
    BY <1>1, <1>2, <1>3, RunOne
  <1>5. s = <<e>> /\ r = q
    BY <1>4 DEF e, Runs
  <1>6. l.fate[m] = "none"
    BY DEF Known
  <1>7. QED BY <1>3, <1>4, <1>5, <1>6

\* A pending message is taken back.
LEMMA RemovalRuns ==
  ASSUME NEW l, NEW w, LogSound(l, w), NEW m \in Pending(l),
         NEW s, s = Removal(l, m), NEW r, r = Fold(l, s)
  PROVE  /\ Runs(l, s, w, r) /\ SameCalls(r, l)
         /\ Pending(r) = Pending(l) \ {m}
         /\ \A x \in Msgs : r.fate[x] = IF x = m THEN "reported" ELSE l.fate[x]
  <1> DEFINE target == IF m \in ToSet(l.nextTurn) THEN "nextTurn" ELSE "nextStep"
             p == CHOOSE i \in DOMAIN ListOf(l, target) : ListOf(l, target)[i] = m
             outcome == "reported"
  <1>1. target \in Target /\ m \in ToSet(ListOf(l, target))
    BY DEF Target, Pending, ListOf
  <1>2. ListOf(l, target) \in Seq(Msgs)
    BY <1>1 DEF LogSound, LogType, Target, ListOf
  <1>3. s = <<Splice(target, p - 1, 1, <<>>, outcome)>>
    BY DEF Removal, ListOf
  <1>4. outcome \in {"reported", "claimed"} /\ outcome # "claimed"
    OBVIOUS
  <1> HIDE DEF target, outcome
  <1>5. p \in DOMAIN ListOf(l, target) /\ ListOf(l, target)[p] = m
    BY <1>1 DEF ToSet
  <1> HIDE DEF p
  <1>6. Leaves(l, target, p, outcome, s, m)
    BY <1>1, <1>2, <1>3, <1>4, <1>5, LenProperties DEF Leaves, MayTake
  <1>7. Runs(l, s, w, r) /\ MessageTaken(l, w, target, outcome, m, r)
    BY <1>6, OneLeaves
  <1>8. QED BY <1>7 DEF MessageTaken, outcome

\* The inbox is cleared.
LEMMA ClearRuns ==
  ASSUME NEW l, NEW w, LogSound(l, w), NEW s, s = Clear(l), NEW r, r = Fold(l, s)
  PROVE  /\ Runs(l, s, w, r) /\ SameCalls(r, l) /\ Pending(r) = {}
         /\ \A x \in Msgs : r.fate[x] = IF x \in Pending(l) THEN "reported" ELSE l.fate[x]
  <1> DEFINE steps == "nextStep"
             turns == "nextTurn"
             outcome == "reported"
             s1 == IF ListOf(l, steps) = <<>> THEN <<>>
                   ELSE <<Splice(steps, 0, Len(ListOf(l, steps)), <<>>, outcome)>>
             q == Fold(l, s1)
             s2 == IF ListOf(q, turns) = <<>> THEN <<>>
                   ELSE <<Splice(turns, 0, Len(ListOf(q, turns)), <<>>, outcome)>>
             p == Fold(q, s2)
             a1 == ToSet(ListOf(l, steps))
             a2 == ToSet(ListOf(q, turns))
  <1>1. steps = "nextStep" /\ turns = "nextTurn" /\ steps \in Target /\ turns \in Target
        /\ outcome \in {"reported", "claimed"} /\ outcome # "claimed" /\ outcome = "reported"
    BY DEF Target
  <1>2. s = s1 \o (IF ListOf(l, turns) = <<>> THEN <<>>
                   ELSE <<Splice(turns, 0, Len(ListOf(l, turns)), <<>>, outcome)>>)
    BY DEF Clear, ListOf
  <1> HIDE DEF steps, turns, outcome, q, a1
  <1>3. Runs(l, s1, w, q) /\ ListEmptied(l, w, steps, outcome, a1, q)
    <2>1. TakesAll(l, steps, outcome, a1, s1) /\ q = Fold(l, s1)
      BY <1>1 DEF q, a1, TakesAll, MayTakeAll
    <2> HIDE DEF s1
    <2>2. QED BY <2>1, ListTaken
  <1>4. LogSound(q, w) /\ SameCalls(q, l) /\ ListOf(q, turns) = ListOf(l, turns)
    BY <1>1, <1>3 DEF ListOf, ListEmptied
  <1> HIDE DEF p, a2
  <1>5. Runs(q, s2, w, p) /\ ListEmptied(q, w, turns, outcome, a2, p)
    <2>1. TakesAll(q, turns, outcome, a2, s2) /\ p = Fold(q, s2)
      BY <1>1 DEF p, a2, TakesAll, MayTakeAll
    <2> HIDE DEF s2
    <2>2. QED BY <1>4, <2>1, ListTaken
  <1>6. s = s1 \o s2
    BY <1>2, <1>4
  <1>7. Pending(l) = a1 \cup a2
    BY <1>1, <1>4 DEF Pending, ListOf, a1, a2
  <1> HIDE DEF s1, s2
  <1>8. Runs(l, s, w, p)
    BY <1>3, <1>5, <1>6, RunThen
  <1>9. r = p
    BY <1>8 DEF Runs
  <1>10. /\ SameCalls(q, l) /\ SameCalls(p, q)
         /\ Pending(q) = Pending(l) \ a1 /\ Pending(p) = Pending(q) \ a2
         /\ \A x \in Msgs : q.fate[x] = IF x \in a1 THEN outcome ELSE l.fate[x]
         /\ \A x \in Msgs : p.fate[x] = IF x \in a2 THEN outcome ELSE q.fate[x]
    BY <1>3, <1>5 DEF ListEmptied
  <1>11. QED BY <1>1, <1>7, <1>8, <1>9, <1>10 DEF SameCalls

\* What holds of 0, and of k when it holds of k - 1, holds up to n.
LEMMA UpTo ==
  ASSUME NEW n \in Nat, NEW S, 0 \in S, \A k \in 1..n : k - 1 \in S => k \in S
  PROVE  \A k \in 0..n : k \in S
  <1> DEFINE T == {k \in 0..n : k \notin S}
  <1> SUFFICES ASSUME T # {} PROVE FALSE
    OBVIOUS
  <1>1. T \in SUBSET Nat
    OBVIOUS
  <1>2. PICK m \in T : \A k \in T : m <= k
    BY <1>1, LeastNatural
  <1>3. m \in 1..n /\ m - 1 \in 0..n /\ m - 1 \notin T
    BY <1>2
  <1>4. QED BY <1>2, <1>3

\* After what opens a turn or closes a step, what waits for the next step is claimed.
ThenClaim(x, events, w, q, l, target, s, b) ==
  /\ Runs(x, events, w, q) /\ q.open # "none" /\ SameInbox(q, l)
  /\ target \in Target /\ s = events \o Claim(l, target) /\ b = ClaimedBy(l, target)
LEMMA ClaimsAfter ==
  ASSUME NEW x, NEW events, NEW w, NEW q, NEW l, NEW target, NEW s, NEW b,
         ThenClaim(x, events, w, q, l, target, s, b), NEW r, r = Fold(x, s)
  PROVE  /\ Runs(x, s, w, r) /\ r.open = q.open
         /\ b \in Seq(Msgs) /\ Distinct(b) /\ Pending(r) = Pending(l) \ ToSet(b)
         /\ \A m \in Msgs : r.fate[m] = IF m \in ToSet(b) THEN "claimed" ELSE l.fate[m]
  <1> DEFINE t == Claim(q, target)
             p == Fold(q, t)
  <1>0. /\ Runs(x, events, w, q) /\ q.open # "none" /\ SameInbox(q, l)
        /\ target \in Target /\ s = events \o Claim(l, target) /\ b = ClaimedBy(l, target)
    BY DEF ThenClaim
  <1>1. t = Claim(l, target) /\ b = ClaimedBy(q, target) /\ LogSound(q, w)
    BY <1>0, RunEnds DEF SameInbox, Claim, ClaimedBy
  <1> HIDE DEF t, p
  <1>2. /\ Runs(q, t, w, p) /\ SameCalls(p, q)
        /\ b \in Seq(Msgs) /\ Distinct(b) /\ Pending(p) = Pending(q) \ ToSet(b)
        /\ \A m \in Msgs : p.fate[m] = IF m \in ToSet(b) THEN "claimed" ELSE q.fate[m]
    BY <1>0, <1>1, ClaimRuns DEF t, p
  <1>4. Runs(x, s, w, p)
    BY <1>0, <1>1, <1>2, RunThen
  <1>5. r = p
    BY <1>4 DEF Runs
  <1>6. Pending(q) = Pending(l) /\ q.fate = l.fate
    BY <1>0 DEF SameInbox, Pending
  <1>7. QED BY <1>2, <1>4, <1>5, <1>6 DEF SameCalls

\* A turn opens.
LEMMA TurnOpenRuns ==
  ASSUME NEW l, NEW w, LogSound(l, w), NEW r, r = Fold(l, <<TurnStart>>)
  PROVE  Runs(l, <<TurnStart>>, w, r) /\ SameInbox(r, l) /\ r.open = "turn"
  <1> DEFINE q == Apply(l, TurnStart)
  <1>1. LogSound(q, w) /\ SameInbox(q, l) /\ q.open = "turn"
    BY OpensEvent DEF SameInbox
  <1> HIDE DEF q
  <1>2. Runs(l, <<TurnStart>>, w, q)
    BY <1>1, EventTypes, RunOne DEF q
  <1>3. r = q
    BY <1>2 DEF Runs
  <1>4. QED BY <1>1, <1>2, <1>3

\* Claimed messages enter the conversation, one after the other.
LEMMA AdmitRuns ==
  ASSUME NEW l, NEW w, LogSound(l, w), NEW b \in Seq(Msgs), Distinct(b),
         \A m \in ToSet(b) : l.fate[m] = "claimed",
         NEW s, s = [i \in DOMAIN b |-> UserMessage(b[i])], NEW r, r = Fold(l, s)
  PROVE  /\ Runs(l, s, w, r) /\ SameCalls(r, l) /\ Pending(r) = Pending(l)
         /\ \A x \in Msgs : r.fate[x] = IF x \in ToSet(b) THEN "admitted" ELSE l.fate[x]
  <1> DEFINE n == Len(b)
             g == After(l, s)
             Admitted(k) == {b[i] : i \in 1..k}
             OK(k) == /\ LogSound(g[k], w) /\ SameCalls(g[k], l)
                      /\ g[k].nextTurn = l.nextTurn /\ g[k].nextStep = l.nextStep
                      /\ \A x \in Msgs : g[k].fate[x] = IF x \in Admitted(k) THEN "admitted" ELSE l.fate[x]
             S == {k \in 0..n : OK(k)}
  <1>1. n \in Nat /\ DOMAIN b = 1..n /\ \A i \in 1..n : b[i] \in Msgs
    BY LenProperties, ElementOfSeq
  <1>2. s \in Seq(Event) /\ Len(s) = n /\ \A i \in 1..n : s[i] = UserMessage(b[i])
    BY <1>1, EventTypes
  <1>3. g[0] = l /\ \A k \in 1..n : g[k] = Apply(g[k - 1], s[k])
    BY <1>1, <1>2, AfterSteps
  <1> HIDE DEF n, g
  <1>4. 0 \in S
    <2>1. Admitted(0) = {}
      OBVIOUS
    <2>2. QED BY <1>1, <1>3, <2>1 DEF SameCalls
  <1>5. ASSUME NEW k \in 1..n, k - 1 \in S PROVE k \in S
    <2> DEFINE q == g[k - 1]
               m == b[k]
               p == g[k]
    <2>1. OK(k - 1) /\ k - 1 \in 0..n /\ k \in Nat
      BY <1>1, <1>5
    <2>2. m \in Msgs /\ m \in ToSet(b) /\ m \notin Admitted(k - 1)
      BY <1>1 DEF ToSet, Distinct
    <2>3. q.fate[m] = "claimed" /\ LogSound(q, w)
      BY <2>1, <2>2
    <2>4. p = Apply(q, UserMessage(m))
      BY <1>2, <1>3
    <2>5. Admitted(k) = Admitted(k - 1) \cup {m}
      <3>1. 1..k = (1..(k - 1)) \cup {k}
        BY <2>1
      <3>2. QED BY <3>1
    <2> HIDE DEF q, p, m, Admitted
    <2>6. LogSound(p, w) /\ p = [q EXCEPT !.fate[m] = "admitted"]
      BY <2>2, <2>3, <2>4, AdmitEvent
    <2>7. q \in LogType
      BY <2>3 DEF LogSound
    <2>8. /\ p.nextTurn = q.nextTurn /\ p.nextStep = q.nextStep /\ SameCalls(p, q)
          /\ \A x \in Msgs : p.fate[x] = IF x = m THEN "admitted" ELSE q.fate[x]
      BY <2>6, <2>7 DEF LogType, SameCalls
    <2>9. OK(k)
      BY <2>1, <2>5, <2>6, <2>8 DEF q, p, SameCalls
    <2>10. QED BY <1>1, <2>1, <2>9
  <1> HIDE DEF OK
  <1>6. \A k \in 0..n : k \in S
    <2> HIDE DEF S
    <2>1. QED BY <1>1, <1>4, <1>5, UpTo
  <1>7. n \in 0..n /\ \A k \in 0..n : OK(k)
    BY <1>1, <1>6
  <1>8. Sound(l, s, w) /\ r = g[n]
    BY <1>2, <1>7 DEF Sound, OK, g, Fold
  <1>9. Admitted(n) = ToSet(b)
    BY <1>1 DEF ToSet
  <1> HIDE DEF Admitted
  <1>10. OK(n)
    BY <1>7
  <1>11. QED BY <1>2, <1>8, <1>9, <1>10 DEF OK, Runs, Pending

\* Twos and halves.
LEMMA Halves == \A j \in Nat : (2 * j) \div 2 = j /\ (2 * j + 1) \div 2 = j /\ (2 * j) % 2 = 0 /\ (2 * j + 1) % 2 = 1
  OBVIOUS
LEMMA EvenOrOdd == \A k \in Nat : \E j \in Nat : k = 2 * j \/ k = 2 * j + 1
  <1> SUFFICES ASSUME NEW k \in Nat PROVE \E j \in Nat : k = 2 * j \/ k = 2 * j + 1
    OBVIOUS
  <1>1. k \div 2 \in Nat /\ (k = 2 * (k \div 2) \/ k = 2 * (k \div 2) + 1)
    OBVIOUS
  <1>2. QED BY <1>1, Zenon

\* A record and an answer for each of the calls a + 1..a + d.
Pairs(s, a, d) == /\ s \in Seq(Event) /\ Len(s) = 2 * d
                  /\ \A j \in 0..d - 1 : /\ s[2 * j + 1] = ToolCall(a + j + 1)
                                         /\ s[2 * j + 2] = ToolResult(a + j + 1, "neverRan")
LEMMA SkippedArePairs ==
  ASSUME NEW a \in Nat, NEW d \in Nat,
         NEW s, s = [k \in 1..2 * d |->
                       LET i == a + (k + 1) \div 2
                       IN IF k % 2 = 1 THEN ToolCall(i) ELSE ToolResult(i, "neverRan")]
  PROVE  Pairs(s, a, d)
  <1>1. ASSUME NEW j \in Nat, j < d
        PROVE  /\ s[2 * j + 1] = ToolCall(a + j + 1)
               /\ s[2 * j + 2] = ToolResult(a + j + 1, "neverRan")
    <2>1. 2 * j + 1 \in 1..2 * d /\ 2 * j + 2 \in 1..2 * d /\ j + 1 \in Nat
          /\ 2 * j + 1 + 1 = 2 * (j + 1) /\ 2 * j + 2 + 1 = 2 * (j + 1) + 1 /\ 2 * j + 2 = 2 * (j + 1)
      BY <1>1
    <2>2. (2 * j + 1 + 1) \div 2 = j + 1 /\ (2 * j + 2 + 1) \div 2 = j + 1
          /\ (2 * j + 1) % 2 = 1 /\ (2 * j + 2) % 2 = 0
      BY <2>1, Halves
    <2>3. s[2 * j + 1] = ToolCall(a + (j + 1))
      BY <2>1, <2>2
    <2>4. s[2 * j + 2] = ToolResult(a + (j + 1), "neverRan")
      BY <2>1, <2>2
    <2>5. a + (j + 1) = a + j + 1
      OBVIOUS
    <2>6. QED BY <2>3, <2>4, <2>5
  <1>2. ASSUME NEW k \in 1..2 * d PROVE s[k] \in Event
    <2>1. PICK j \in Nat : k - 1 = 2 * j \/ k - 1 = 2 * j + 1
      <3>1. k - 1 \in Nat
        OBVIOUS
      <3>2. QED BY <3>1, EvenOrOdd, Zenon
    <2>2. j < d /\ (k = 2 * j + 1 \/ k = 2 * j + 2) /\ a + j + 1 \in Nat
      BY <2>1
    <2>3. ToolCall(a + j + 1) \in Event /\ ToolResult(a + j + 1, "neverRan") \in Event
      BY <2>2, EventTypes DEF Answer
    <2>4. QED BY <1>1, <2>2, <2>3
  <1>4. DOMAIN s = 1..2 * d /\ 2 * d \in Nat /\ s = [k \in 1..2 * d |-> s[k]]
    OBVIOUS
  <1>5. s \in Seq(Event) /\ Len(s) = 2 * d
    <2> DEFINE n == 2 * d
    <2>1. n \in Nat /\ s = [k \in 1..n |-> s[k]] /\ \A k \in 1..n : s[k] \in Event
      BY <1>2, <1>4
    <2>2. s \in [1..n -> Event]
      BY <2>1, Zenon
    <2>3. s \in Seq(Event) /\ Len(s) = n
      BY <2>1, <2>2
    <2>4. QED BY <2>3
  <1>6. \A j \in 0..d - 1 : j \in Nat /\ j < d
    OBVIOUS
  <1>7. QED BY <1>1, <1>5, <1>6, Zenon DEF Pairs

\* An abort answers the calls that were not started: a record and an answer for each.
UpToCall(l, q, i) == /\ SameInbox(q, l) /\ q.open = "step" /\ q.asked = l.asked /\ q.ask = l.ask
                     /\ q.called = 1..i /\ Len(q.results) = i
LEMMA SkipsOne ==
  ASSUME NEW l, NEW w, NEW q, NEW i \in Nat, LogSound(q, w), UpToCall(l, q, i), i < l.asked, i + 1 \notin w.ran,
         NEW x, x = Apply(q, ToolCall(i + 1)), NEW p, p = Apply(x, ToolResult(i + 1, "neverRan"))
  PROVE  LogSound(x, w) /\ LogSound(p, w) /\ UpToCall(l, p, i + 1)
  <1> DEFINE n == i + 1
             answer == "neverRan"
  <1>0. q.asked = l.asked /\ q.asked \in Nat /\ n \in Nat /\ n \in 1..q.asked
    BY DEF LogSound, LogType, UpToCall
  <1>1. x = Apply(q, ToolCall(n))
    OBVIOUS
  <1> HIDE DEF n
  <1>2. LogSound(x, w) /\ x = [q EXCEPT !.called = @ \cup {n}]
    <2>1. n \in 1..q.asked
      BY <1>0
    <2>2. LogSound(Apply(q, ToolCall(n)), w)
      BY <2>1, CallEvent
    <2>3. Apply(q, ToolCall(n)) = [q EXCEPT !.called = @ \cup {n}]
      BY <2>1, CallEvent
    <2>4. QED BY <1>1, <2>2, <2>3
  <1>3. (1..i) \cup {n} = 1..n
    BY <1>0 DEF n
  <1>4. /\ SameInbox(x, q) /\ x.open = "step" /\ x.asked = q.asked /\ x.ask = q.ask
        /\ x.called = 1..n /\ x.results = q.results
    <2>1. q \in LogType
      BY DEF LogSound
    <2>2. QED BY <1>2, <1>3, <2>1 DEF LogType, SameInbox, UpToCall
  <1>5. Len(x.results) + 1 = n /\ Len(x.results) < x.asked
    BY <1>0, <1>4 DEF UpToCall, n
  <1>6. answer \in Answer /\ p = Apply(x, ToolResult(Len(x.results) + 1, answer)) /\ TrueAnswer(Len(x.results) + 1, answer, w)
    BY <1>5 DEF Answer, TrueAnswer, n
  <1> HIDE DEF answer
  <1>7. /\ LogSound(p, w) /\ Len(p.results) = Len(x.results) + 1
        /\ p.open = x.open /\ p.asked = x.asked /\ p.called = x.called /\ p.ask = x.ask
        /\ p.fate = x.fate /\ p.nextTurn = x.nextTurn /\ p.nextStep = x.nextStep
    BY <1>2, <1>4, <1>5, <1>6, ResultEvent
  <1>8. UpToCall(l, p, n)
    BY <1>4, <1>5, <1>7 DEF UpToCall, SameInbox
  <1>9. QED BY <1>2, <1>7, <1>8 DEF n

LEMMA PairsRun ==
  ASSUME NEW l, NEW w, NEW a \in Nat, NEW d \in Nat, LogSound(l, w), UpToCall(l, l, a), l.asked = a + d,
         \A i \in a + 1..a + d : i \notin w.ran,
         NEW s, Pairs(s, a, d), NEW r, r = Fold(l, s)
  PROVE  Runs(l, s, w, r) /\ UpToCall(l, r, a + d)
  <1> DEFINE g == After(l, s)
             OK(j) == /\ LogSound(g[2 * j], w) /\ UpToCall(l, g[2 * j], a + j)
                      /\ j > 0 => LogSound(g[2 * j - 1], w)
             S == {j \in 0..d : OK(j)}
  <1>1. s \in Seq(Event) /\ Len(s) = 2 * d /\ Len(s) \in Nat
    BY DEF Pairs
  <1>2. g[0] = l /\ \A k \in 1..2 * d : g[k] = Apply(g[k - 1], s[k])
    BY <1>1, AfterSteps
  <1> HIDE DEF g
  <1>3. 0 \in S
    BY <1>2
  <1>4. ASSUME NEW k \in 1..d, k - 1 \in S PROVE k \in S
    <2> DEFINE j == k - 1
               i == a + j
               q == g[2 * j]
               x == g[2 * j + 1]
               p == g[2 * j + 2]
    <2>1. j \in Nat /\ j \in 0..d - 1 /\ i \in Nat /\ k = j + 1 /\ OK(j)
          /\ 2 * j + 1 \in 1..2 * d /\ 2 * j + 2 \in 1..2 * d /\ 2 * j + 1 - 1 = 2 * j /\ 2 * j + 2 - 1 = 2 * j + 1
      BY <1>4
    <2>2. s[2 * j + 1] = ToolCall(i + 1) /\ s[2 * j + 2] = ToolResult(i + 1, "neverRan")
      BY <2>1 DEF Pairs
    <2>3. x = Apply(q, ToolCall(i + 1)) /\ p = Apply(x, ToolResult(i + 1, "neverRan"))
      BY <1>2, <2>1, <2>2
    <2>4. i < l.asked /\ i + 1 \notin w.ran /\ LogSound(q, w) /\ UpToCall(l, q, i)
      BY <2>1
    <2> HIDE DEF i, q, x, p
    <2>5. LogSound(x, w) /\ LogSound(p, w) /\ UpToCall(l, p, i + 1)
      BY <2>1, <2>3, <2>4, SkipsOne
    <2>6. 2 * k = 2 * j + 2 /\ 2 * k - 1 = 2 * j + 1 /\ a + k = i + 1 /\ k \in 0..d
      BY <2>1 DEF i
    <2>7. OK(k)
      BY <2>5, <2>6 DEF p, x
    <2>8. QED BY <2>6, <2>7
  <1> HIDE DEF OK
  <1>5. \A j \in 0..d : j \in S
    <2> HIDE DEF S
    <2>1. QED BY <1>3, <1>4, UpTo
  <1>6. \A j \in 0..d : OK(j)
    BY <1>5
  <1>7. ASSUME NEW k \in 0..2 * d PROVE LogSound(g[k], w)
    <2>1. k \in Nat
      OBVIOUS
    <2>2. PICK j \in Nat : k = 2 * j \/ k = 2 * j + 1
      BY <2>1, EvenOrOdd, Zenon
    <2>3. CASE k = 2 * j
      <3>1. j \in 0..d
        BY <2>3
      <3>2. QED BY <1>6, <2>3, <3>1 DEF OK
    <2>4. CASE k = 2 * j + 1
      <3>1. j + 1 \in 0..d /\ j + 1 > 0 /\ 2 * (j + 1) - 1 = k
        BY <2>4
      <3>2. QED BY <1>6, <3>1 DEF OK
    <2>5. QED BY <2>2, <2>3, <2>4
  <1>8. Sound(l, s, w) /\ r = g[2 * d]
    BY <1>1, <1>7 DEF Sound, g, Fold
  <1>9. OK(d)
    BY <1>6
  <1>10. QED BY <1>1, <1>8, <1>9 DEF OK, Runs

\* The calls that are unanswered are the last ones, and Unanswered counts them off.
LEMMA UnansweredInOrder ==
  ASSUME NEW l, NEW a \in Nat, NEW n \in Nat, a <= n, l.pending = a + 1..n
  PROVE  Cardinality(l.pending) = n - a /\ \A k \in 1..n - a : Unanswered(l, k) = a + k
  <1>1. Cardinality(a + 1..n) = n - a
    <2>1. Cardinality(a + 1..n) = IF a + 1 > n THEN 0 ELSE n - (a + 1) + 1
      BY FS_Interval
    <2>2. QED BY <2>1
  <1>2. ASSUME NEW i \in a + 1..n PROVE Cardinality({j \in a + 1..n : j <= i}) = i - a
    <2>1. {j \in a + 1..n : j <= i} = a + 1..i /\ i \in Nat /\ a + 1 <= i
      OBVIOUS
    <2>2. Cardinality(a + 1..i) = IF a + 1 > i THEN 0 ELSE i - (a + 1) + 1
      BY <2>1, FS_Interval
    <2>3. ~(a + 1 > i) /\ i - (a + 1) + 1 = i - a
      BY <2>1
    <2>4. Cardinality(a + 1..i) = i - a
      BY <2>2, <2>3, Zenon
    <2>5. QED BY <2>1, <2>4, Zenon
  <1>3. ASSUME NEW k \in 1..n - a PROVE Unanswered(l, k) = a + k
    <2> DEFINE P(i) == i \in l.pending /\ Cardinality({j \in l.pending : j <= i}) = k
    <2>1. a + k \in a + 1..n
      OBVIOUS
    <2>2. P(a + k)
      BY <1>2, <2>1
    <2>3. \A i \in l.pending : P(i) => i = a + k
      BY <1>2
    <2>4. Unanswered(l, k) = CHOOSE i \in l.pending : P(i)
      BY DEF Unanswered
    <2> HIDE DEF P
    <2>5. a + k \in l.pending
      BY <2>1
    <2>6. QED BY <2>2, <2>3, <2>4, <2>5
  <1>4. QED BY <1>1, <1>3

\* What recovery answers is what the log can know of each call, and true of it.
TrueAnswers(l, s, w) ==
  /\ s \in Seq(Event) /\ Len(l.results) + Len(s) = l.asked
  /\ \A k \in 1..Len(s) : \E answer \in Answer :
       /\ s[k] = ToolResult(Len(l.results) + k, answer)
       /\ l.ask = w.asks => TrueAnswer(Len(l.results) + k, answer, w)
LEMMA RecoveryIsTrue ==
  ASSUME NEW l, NEW w, LogSound(l, w), NEW s, s = RecoveryResults(l)
  PROVE  TrueAnswers(l, s, w)
  <1> DEFINE a == Len(l.results)
             n == l.asked
  <1>1. a \in Nat /\ n \in Nat /\ a <= n
    BY DEF LogSound, LogType, CallsSound
  <1>2. l.pending = a + 1..n
    <2>1. CASE l.open = "step"
      BY <2>1 DEF LogSound, CallsSound
    <2>2. CASE l.open # "step"
      <3>1. l.pending = {} /\ a = n
        BY <2>2 DEF LogSound, CallsSound
      <3>2. a + 1..n = {}
        BY <1>1, <3>1
      <3>3. QED BY <3>1, <3>2
    <2>3. QED BY <2>1, <2>2
  <1>3. Cardinality(l.pending) = n - a /\ \A k \in 1..n - a : Unanswered(l, k) = a + k
    <2> HIDE DEF a, n
    <2>1. QED BY <1>1, <1>2, UnansweredInOrder
  <1>4. s = [k \in 1..n - a |-> ToolResult(Unanswered(l, k), RecoveryAnswer(l, Unanswered(l, k)))]
    BY <1>3 DEF RecoveryResults
  <1> HIDE DEF a, n
  <1>5. ASSUME NEW k \in 1..n - a
        PROVE  LET answer == RecoveryAnswer(l, a + k)
               IN /\ s[k] = ToolResult(a + k, answer) /\ answer \in Answer /\ a + k \in Nat
                  /\ l.ask = w.asks => TrueAnswer(a + k, answer, w)
    <2>1. s[k] = ToolResult(a + k, RecoveryAnswer(l, a + k)) /\ a + k \in Nat
      BY <1>1, <1>3, <1>4
    <2>2. RecoveryAnswer(l, a + k) \in {"unknown", "neverRan"}
          /\ (RecoveryAnswer(l, a + k) = "neverRan" => a + k \notin l.called)
      BY DEF RecoveryAnswer
    <2>3. l.ask = w.asks /\ a + k \notin l.called => a + k \notin w.ran
      <3>1. n # 0
        BY <1>1
      <3>2. QED BY <3>1 DEF LogSound, TrueOf, n
    <2>4. QED BY <2>1, <2>2, <2>3 DEF Answer, TrueAnswer
  <1>6. s \in Seq(Event) /\ Len(s) = n - a
    <2> DEFINE d == n - a
    <2>1. d \in Nat /\ s = [k \in 1..d |-> s[k]] /\ \A k \in 1..d : s[k] \in Event
      <3>1. \A k \in 1..d : s[k] \in Event
        BY <1>5, EventTypes
      <3>2. d \in Nat
        BY <1>1
      <3>3. QED BY <1>4, <3>1, <3>2
    <2> HIDE DEF d
    <2>2. s \in [1..d -> Event]
      BY <2>1, Zenon
    <2>3. s \in Seq(Event) /\ Len(s) = d
      BY <2>1, <2>2
    <2>4. QED BY <2>3 DEF d
  <1>7. a + Len(s) = n
    BY <1>1, <1>6
  <1>8. QED BY <1>5, <1>6, <1>7 DEF TrueAnswers, a, n

LEMMA AnswersRun ==
  ASSUME NEW l, NEW w, LogSound(l, w), l.open = "step", NEW s, TrueAnswers(l, s, w), NEW r, r = Fold(l, s)
  PROVE  /\ Runs(l, s, w, r) /\ SameInbox(r, l) /\ r.open = "step" /\ r.asked = l.asked
         /\ Len(r.results) = r.asked
  <1> DEFINE a == Len(l.results)
             d == Len(s)
             g == After(l, s)
             OK(k) == /\ LogSound(g[k], w) /\ SameInbox(g[k], l) /\ g[k].open = "step"
                      /\ g[k].asked = l.asked /\ g[k].ask = l.ask /\ Len(g[k].results) = a + k
             S == {k \in 0..d : OK(k)}
  <1>1. a \in Nat /\ d \in Nat /\ a + d = l.asked /\ s \in Seq(Event)
    BY DEF LogSound, LogType, TrueAnswers
  <1>2. g[0] = l /\ \A k \in 1..d : g[k] = Apply(g[k - 1], s[k])
    BY <1>1, AfterSteps
  <1>3. ASSUME NEW k \in 1..d
        PROVE  \E answer \in Answer : /\ s[k] = ToolResult(a + k, answer)
                                      /\ l.ask = w.asks => TrueAnswer(a + k, answer, w)
    BY DEF TrueAnswers
  <1> HIDE DEF a, d, g
  <1>4. 0 \in S
    BY <1>1, <1>2 DEF SameInbox, a
  <1>5. ASSUME NEW k \in 1..d, k - 1 \in S PROVE k \in S
    <2> DEFINE q == g[k - 1]
               p == g[k]
    <2>1. OK(k - 1) /\ k \in 0..d /\ a + (k - 1) + 1 = a + k /\ a + (k - 1) < l.asked
      BY <1>1, <1>5
    <2>2. PICK answer \in Answer : s[k] = ToolResult(a + k, answer) /\ (l.ask = w.asks => TrueAnswer(a + k, answer, w))
      BY <1>3
    <2>3. p = Apply(q, ToolResult(Len(q.results) + 1, answer))
      BY <1>2, <2>1, <2>2
    <2>4. LogSound(q, w) /\ q.open = "step" /\ Len(q.results) < q.asked
          /\ (q.ask = w.asks => TrueAnswer(Len(q.results) + 1, answer, w))
      BY <2>1, <2>2
    <2> HIDE DEF q, p
    <2>5. /\ LogSound(p, w) /\ Len(p.results) = Len(q.results) + 1
          /\ p.open = q.open /\ p.asked = q.asked /\ p.called = q.called /\ p.ask = q.ask
          /\ p.fate = q.fate /\ p.nextTurn = q.nextTurn /\ p.nextStep = q.nextStep
      BY <2>3, <2>4, ResultEvent
    <2>6. OK(k)
      BY <2>1, <2>5 DEF q, p, SameInbox
    <2>7. QED BY <2>1, <2>6
  <1> HIDE DEF OK
  <1>6. \A k \in 0..d : k \in S
    <2> HIDE DEF S
    <2>1. QED BY <1>1, <1>4, <1>5, UpTo
  <1>7. d \in 0..d /\ \A k \in 0..d : OK(k)
    BY <1>1, <1>6
  <1>8. Sound(l, s, w) /\ r = g[d]
    BY <1>1, <1>7 DEF Sound, OK, g, d, Fold
  <1>9. OK(d)
    BY <1>7
  <1>10. QED BY <1>1, <1>8, <1>9 DEF OK, Runs

\* The step is closed once all its calls are answered.
LEMMA StepCloseRuns ==
  ASSUME NEW l, NEW w, LogSound(l, w), Len(l.results) = l.asked, NEW r, r = Fold(l, <<StepEnd>>)
  PROVE  Runs(l, <<StepEnd>>, w, r) /\ SameInbox(r, l) /\ r.open = "turn"
  <1> DEFINE q == Apply(l, StepEnd)
  <1>1. LogSound(q, w) /\ SameInbox(q, l) /\ q.open = "turn"
    BY CloseStepEvent DEF SameInbox
  <1> HIDE DEF q
  <1>2. Runs(l, <<StepEnd>>, w, q)
    BY <1>1, EventTypes, RunOne DEF q
  <1>3. r = q
    BY <1>2 DEF Runs
  <1>4. QED BY <1>1, <1>2, <1>3

LEMMA StepOpenRuns ==
  ASSUME NEW l, NEW w, LogSound(l, w), NEW r, r = Fold(l, <<StepStart>>)
  PROVE  Runs(l, <<StepStart>>, w, r) /\ SameInbox(r, l) /\ r.open = "step" /\ r.asked = 0
  <1> DEFINE q == Apply(l, StepStart)
  <1>0. StepStart # TurnStart
    BY DEF StepStart, TurnStart
  <1>1. LogSound(q, w) /\ SameInbox(q, l) /\ q.open = "step" /\ q.asked = 0
    BY <1>0, OpensEvent DEF SameInbox
  <1> HIDE DEF q
  <1>2. Runs(l, <<StepStart>>, w, q)
    BY <1>1, EventTypes, RunOne DEF q
  <1>3. r = q
    BY <1>2 DEF Runs
  <1>4. QED BY <1>1, <1>2, <1>3

\* What a turn's end leaves: nothing claimed, nothing more admitted, the inbox as it was.
Over(r, l) == /\ r.open = "none" /\ r.nextTurn = l.nextTurn /\ r.nextStep = l.nextStep
              /\ \A m \in Msgs : r.fate[m] # "claimed" /\ (r.fate[m] = "admitted" => l.fate[m] = "admitted")
LEMMA TurnCloseRuns ==
  ASSUME NEW l, NEW w, LogSound(l, w), l.open # "step", NEW reason \in Reason, ClaimsAccounted(l, reason, w),
         NEW s, s = <<TurnEnd(reason)>>, NEW r, r = Fold(l, s)
  PROVE  Runs(l, s, w, r) /\ Over(r, l)
  <1> DEFINE q == Apply(l, TurnEnd(reason))
             e == TurnEnd(reason)
  <1>1. LogSound(q, w) /\ Over(q, l)
    <2>1. /\ LogSound(q, w)
          /\ q.open = "none" /\ q.nextTurn = l.nextTurn /\ q.nextStep = l.nextStep
          /\ \A m \in Msgs : q.fate[m] # "claimed" /\ (q.fate[m] = "admitted" => l.fate[m] = "admitted")
      BY CloseTurnEvent
    <2>2. QED BY <2>1 DEF Over
  <1>2. e \in Event /\ q = Apply(l, e)
    BY EventTypes
  <1> HIDE DEF q, e
  <1>3. Runs(l, <<e>>, w, q)
    BY <1>1, <1>2, RunOne
  <1>4. s = <<e>> /\ r = q
    BY <1>3 DEF Runs, e
  <1>5. QED BY <1>1, <1>3, <1>4

\* A step that is cut off or failed: its answers, its end.
LEMMA StepRepairRuns ==
  ASSUME NEW l, NEW w, LogSound(l, w), l.open = "step",
         NEW s, s = RecoveryResults(l) \o <<StepEnd>>, NEW r, r = Fold(l, s)
  PROVE  Runs(l, s, w, r) /\ SameInbox(r, l) /\ r.open = "turn"
  <1> DEFINE t == RecoveryResults(l)
             q == Fold(l, t)
             p == Fold(q, <<StepEnd>>)
  <1> HIDE DEF t, q, p
  <1>1. TrueAnswers(l, t, w)
    BY RecoveryIsTrue DEF t
  <1>2. Runs(l, t, w, q) /\ SameInbox(q, l) /\ q.open = "step" /\ Len(q.results) = q.asked
    BY <1>1, AnswersRun DEF q
  <1>3. LogSound(q, w)
    BY <1>2, RunEnds
  <1>4. Runs(q, <<StepEnd>>, w, p) /\ SameInbox(p, q) /\ p.open = "turn"
    BY <1>2, <1>3, StepCloseRuns DEF p
  <1>5. s = t \o <<StepEnd>>
    BY DEF t
  <1>6. Runs(l, s, w, p)
    BY <1>2, <1>4, <1>5, RunThen
  <1>7. r = p
    BY <1>6 DEF Runs
  <1>8. QED BY <1>2, <1>4, <1>6, <1>7 DEF SameInbox

\* interruptedTurnClosers: the log is balanced again, wherever the writing of it stops.
LEMMA ClosersRun ==
  ASSUME NEW l, NEW w, LogSound(l, w), NEW s, s = Closers(l), NEW r, r = Fold(l, s)
  PROVE  Runs(l, s, w, r) /\ r.open = "none" /\ Pending(r) = Pending(l)
  <1> DEFINE reason == "interrupted"
  <1>0. reason \in Reason /\ \A q : ClaimsAccounted(q, reason, w)
    <2>1. reason \in Reason /\ reason # "completed" /\ reason # "maxTokens"
      BY DEF Reason
    <2>2. AccountsForClaim(reason)
      BY <2>1 DEF AccountsForClaim
    <2>3. QED BY <2>1, <2>2, Zenon DEF ClaimsAccounted
  <1>1. CASE l.open = "none"
    <2>1. s = <<>>
      BY <1>1 DEF Closers
    <2>2. Runs(l, s, w, l)
      BY <2>1, RunNone
    <2>3. r = l
      BY <2>2 DEF Runs
    <2>4. QED BY <1>1, <2>2, <2>3
  <1>2. CASE l.open = "step"
    <2> DEFINE t == RecoveryResults(l) \o <<StepEnd>>
               q == Fold(l, t)
               u == <<TurnEnd(reason)>>
               p == Fold(q, u)
    <2>1. s = t \o u
      BY <1>2 DEF Closers
    <2> HIDE DEF q, p
    <2>2. Runs(l, t, w, q) /\ SameInbox(q, l) /\ q.open = "turn"
      BY <1>2, StepRepairRuns DEF q
    <2> HIDE DEF t, u
    <2>3. LogSound(q, w)
      BY <2>2, RunEnds
    <2>4. Runs(q, u, w, p) /\ Over(p, q)
      <3> HIDE DEF reason
      <3>1. QED BY <1>0, <2>2, <2>3, TurnCloseRuns DEF p, u
    <2>5. Runs(l, s, w, p)
      BY <2>1, <2>2, <2>4, RunThen
    <2>6. r = p
      BY <2>5 DEF Runs
    <2>7. QED BY <2>2, <2>4, <2>5, <2>6 DEF Over, SameInbox, Pending
  <1>3. CASE l.open = "turn"
    <2> DEFINE u == <<TurnEnd(reason)>>
               p == Fold(l, u)
    <2>1. s = u
      <3>1. RecoveryResults(l) = <<>>
        <4>1. TrueAnswers(l, RecoveryResults(l), w)
          BY RecoveryIsTrue
        <4>2. Len(l.results) = l.asked /\ l.asked \in Nat
          BY <1>3 DEF LogSound, LogType, CallsSound
        <4>3. RecoveryResults(l) \in Seq(Event) /\ Len(RecoveryResults(l)) = 0
          BY <4>1, <4>2 DEF TrueAnswers
        <4>4. QED BY <4>3, EmptySeq
      <3>2. s = <<>> \o <<>> \o u
        BY <1>3, <3>1 DEF Closers
      <3>3. QED BY <3>2
    <2> HIDE DEF u, p
    <2>2. Runs(l, u, w, p) /\ Over(p, l)
      <3> HIDE DEF reason
      <3>1. QED BY <1>0, <1>3, TurnCloseRuns DEF p, u
    <2>3. r = p
      BY <2>1, <2>2 DEF Runs
    <2>4. QED BY <2>1, <2>2, <2>3 DEF Over, Pending
  <1>4. QED BY <1>1, <1>2, <1>3 DEF LogSound, LogType

-------------------------------------------------------------------------------
(* What happens outside, and what it leaves of the logs before. *)

\* A hook rewrites messages away; an assistant message asks, and none of its calls ran.
LEMMA MoreDropped ==
  ASSUME NEW w, NEW v, w.dropped \subseteq v.dropped, v.ran = w.ran, v.asks = w.asks, v.shown = w.shown
  PROVE  \A l : LogSound(l, w) => LogSound(l, v)
  BY DEF LogSound, TrueOf
LEMMA MoreAsked ==
  ASSUME NEW w, NEW v, w.asks \in Nat, v.dropped = w.dropped, v.ran = {}, v.asks = w.asks + 1, v.shown = w.shown
  PROVE  \A l : LogSound(l, w) => LogSound(l, v)
  <1> SUFFICES ASSUME NEW l, LogSound(l, w) PROVE LogSound(l, v)
    OBVIOUS
  <1>1. l.ask <= v.asks /\ l.ask # v.asks
    BY DEF LogSound, LogType, TrueOf
  <1>2. TrueOf(l, v)
    BY <1>1 DEF LogSound, TrueOf
  <1>3. QED BY <1>2 DEF LogSound

\* The log as it is, of which a model is shown what is admitted, or a body is entered
\* whose call is on record and has no answer yet.
LEMMA MoreShown ==
  ASSUME NEW w, NEW v, NEW l, LogSound(l, w), v.dropped = w.dropped, v.ran = w.ran, v.asks = w.asks,
         v.shown = w.shown \cup {m \in Msgs : l.fate[m] = "admitted"}
  PROVE  LogSound(l, v)
  BY DEF LogSound, TrueOf
LEMMA MoreRan ==
  ASSUME NEW w, NEW v, NEW l, LogSound(l, w), v.dropped = w.dropped, v.asks = w.asks, v.shown = w.shown,
         NEW i, v.ran = w.ran \cup {i}, l.ask = w.asks, i \in l.called, i > Len(l.results)
  PROVE  LogSound(l, v)
  <1>1. l \in LogType /\ InboxSound(l) /\ CallsSound(l) /\ TrueOf(l, w)
    BY DEF LogSound
  <1>2. i \in Nat /\ Len(l.results) \in Nat /\ DOMAIN l.results = 1..Len(l.results)
    BY <1>1 DEF LogType
  <1>3. \A r \in ToSet(l.results) : r.callId # i
    BY <1>1, <1>2 DEF ToSet, CallsSound
  <1>4. TrueOf(l, v)
    BY <1>1, <1>3 DEF TrueOf
  <1>5. QED BY <1>1, <1>4 DEF LogSound

-------------------------------------------------------------------------------
(* The agent and its log. *)

(* The inductive invariant of the log, in four parts, beside those above. *)

\* What is in memory is what is on disk and the events in between, and wherever the
\* process stops between them, what it leaves is sound.
RecordsOK == /\ Runs(disk, buffer, Outside, log)
             /\ life \in {"closed", "down"} => buffer = <<>>
             /\ shown \subseteq Msgs

\* The log has open what the driver is in, and knows what the scheduler did.
OpenOf(place) == IF place \in InStep THEN "step" ELSE IF place \in InTurn THEN "turn" ELSE "none"
PlaceOK == /\ life \in {"live", "closing"} => log.open = OpenOf(at)
           /\ at \in InStep \ {"tools"} => log.asked = 0
           /\ at = "tools" /\ sched # "threw" =>
                /\ log.ask = asks /\ log.asked = asked
                /\ Len(log.results) = committed /\ log.called = 1..started
           /\ at = "stopping" => turnEnds # "none"

\* What the driver holds is claimed until it is admitted, and what is claimed is held
\* or was rewritten away.
BatchOK == /\ batch \in Seq(Msgs) /\ Distinct(batch)
           /\ at \in {"preStep", "request"} \/ (at = "stepDone" /\ result = "failed") \/ batch = <<>>
           /\ at \in {"preStep", "request"} => \A m \in ToSet(batch) : log.fate[m] = "claimed"
           /\ life \in {"live", "closing"} =>
                \A m \in Msgs : log.fate[m] = "claimed" => m \in ToSet(batch) \cup dropped

\* What is owed waits in the inbox, and something is at work or latched that will take it.
OwedOK == /\ owed \subseteq Pending(log)
          /\ life \in {"closed", "down"} => owed = {}
          /\ life = "live" => \/ owed = {}
                              \/ at \in InTurn \cup {"start"} /\ abort = "none"
                              \/ wake /\ at # "idle"

LogInv == RecordsOK /\ PlaceOK /\ BatchOK /\ OwedOK
BaseInv == ToolInv /\ DriverInv /\ LoopTypesInv

\* What an aborted activity may do to the log: admit nothing, enter no step.
Calm == /\ \A m \in Msgs : log'.fate[m] = "admitted" => log.fate[m] = "admitted"
        /\ log'.open = "step" => log.open = "step"

WorldStays == UNCHANGED <<ran, asks, dropped, shown>>
LEMMA SameWorld == WorldStays => Outside' = Outside
  BY DEF WorldStays, Outside

LEMMA Written ==
  ASSUME NEW w, NEW events, NEW r, Runs(disk, buffer, w, log), Write(events), r = Fold(log, events),
         Runs(log, events, w, r)
  PROVE  Runs(disk', buffer', w, log') /\ log' = r
  <1>1. log' = r /\ buffer' = buffer \o events /\ disk' = disk
    BY DEF Write
  <1>2. Runs(disk, buffer \o events, w, r)
    BY RunThen
  <1>3. QED BY <1>1, <1>2

LEMMA Flushed ==
  ASSUME NEW w, LogSound(log, w), Flush
  PROVE  Runs(disk', buffer', w, log') /\ log' = log
  BY RunNone DEF Flush

LEMMA FlushedThenWritten ==
  ASSUME NEW w, NEW events, NEW r, FlushThenWrite(events), r = Fold(log, events), Runs(log, events, w, r)
  PROVE  Runs(disk', buffer', w, log') /\ log' = r
  BY DEF FlushThenWrite

\* The log is sound, and so is what is on disk.
LEMMA RecordsSound ==
  ASSUME RecordsOK PROVE LogSound(log, Outside) /\ LogSound(disk, Outside)
  BY RunEnds DEF RecordsOK
LEMMA RecordsTypes ==
  ASSUME RecordsOK PROVE log \in LogType /\ Outside.asks = asks /\ Outside.ran = ran /\ Outside.dropped = dropped /\ Outside.shown = shown
  BY RecordsSound DEF LogSound, Outside

\* A turn opens over a log that has none open.
LEMMA OpensTurn ==
  ASSUME LogInv, NEW events, NEW l, l = Fold(log, events), Runs(log, events, Outside, l), l.open = "none",
         owed \subseteq Pending(l), OpenTurn(events), WorldStays, life' = life, life \in {"live", "closing"}
  PROVE  LogInv'
  <1> DEFINE w == Outside
             q == Fold(l, <<TurnStart>>)
             opening == events \o <<TurnStart>>
             s == opening \o Claim(l, "nextTurn")
             target == "nextTurn"
             r == Fold(log, s)
             b == ClaimedBy(l, target)
  <1>1. LogSound(l, w)
    BY RunEnds
  <1>2. Runs(l, <<TurnStart>>, w, q) /\ SameInbox(q, l) /\ q.open = "turn"
    <2> HIDE DEF w, q
    <2>1. QED BY <1>1, TurnOpenRuns DEF q
  <1>3. Runs(log, opening, w, q)
    <2> HIDE DEF w, q
    <2>1. QED BY <1>2, RunThen DEF w
  <1>4. target \in Target /\ s = opening \o Claim(l, target)
    BY DEF Target
  <1>5. /\ Write(s) /\ batch' = b /\ owed' = owed \ ToSet(b)
        /\ at' = "preStep" /\ abort' = "none" /\ wake' = FALSE
        /\ stepped' = FALSE /\ turnEnds' = "none" /\ result' = "none"
    BY DEF OpenTurn
  <1> HIDE DEF w, q, opening, s, target, r, b
  <1>6. /\ Runs(log, s, w, r) /\ r.open = q.open
        /\ b \in Seq(Msgs) /\ Distinct(b) /\ Pending(r) = Pending(l) \ ToSet(b)
        /\ \A m \in Msgs : r.fate[m] = IF m \in ToSet(b) THEN "claimed" ELSE l.fate[m]
    <2>1. ThenClaim(log, opening, w, q, l, target, s, b)
      BY <1>2, <1>3, <1>4 DEF ThenClaim, b
    <2>2. QED BY <2>1, ClaimsAfter DEF r
  <1>7. Runs(disk', buffer', w, log') /\ log' = r
    BY <1>5, <1>6, Written DEF LogInv, RecordsOK, w, r
  <1>8. RecordsOK'
    BY <1>7, SameWorld DEF RecordsOK, LogInv, WorldStays, w
  <1>9. PlaceOK'
    BY <1>2, <1>5, <1>6, <1>7 DEF PlaceOK, OpenOf, InStep, InTurn, Place
  <1>10. BatchOK'
    <2>1. \A m \in Msgs : l.fate[m] # "claimed"
      BY <1>1 DEF LogSound, InboxSound
    <2>2. \A m \in ToSet(b) : m \in Msgs
      BY <1>6 DEF ToSet
    <2>3. QED BY <1>5, <1>6, <1>7, <2>1, <2>2 DEF BatchOK
  <1>11. OwedOK'
    BY <1>5, <1>6, <1>7 DEF OwedOK, LogInv, InTurn, Place
  <1>12. QED BY <1>8, <1>9, <1>10, <1>11 DEF LogInv

\* What every action is shown to keep.
Keeps == LogInv' /\ (abort # "none" /\ abort' = abort => Calm)

LEMMA FreshIsUnsent == Unsent # {} => Fresh \in Msgs \ Known(log)
  BY DEF Unsent, Fresh

LEMMA SendKeeps ==
  ASSUME BaseInv, LogInv, NEW m \in Msgs, NEW target \in Target, NEW waking \in BOOLEAN, Send(m, target, waking)
  PROVE  Keeps
  <1> DEFINE w == Outside
             resolved == IF WakingAfterAbort(waking) THEN "nextTurn" ELSE target
             insert == <<Splice(resolved, Len(ListOf(log, resolved)), 0, <<m>>, "none")>>
             r == Fold(log, insert)
  <1>1. LogSound(log, w) /\ resolved \in Target /\ m \in Msgs \ Known(log)
    BY RecordsSound, FreshIsUnsent DEF LogInv, Send, Target
  <1>2. /\ IF waking /\ at = "idle" THEN OpenTurn(insert)
           ELSE /\ Write(insert)
                /\ wake' = (wake \/ Latches(waking))
                /\ owed' = IF waking /\ ~Unowed /\ abort # "disposed" THEN owed \cup {m} ELSE owed
                /\ UNCHANGED <<at, abort, stepped, turnEnds, batch, result>>
        /\ life \in {"live", "closing"} /\ (at = "idle" => life = "live")
        /\ UNCHANGED <<toolVars, life, dropped, shown, bounds>>
    BY DEF Send, ListOf
  <1>3. WorldStays /\ life' = life
    BY <1>2 DEF WorldStays, toolVars, bounds
  <1> HIDE DEF w, resolved, r
  <1>4. /\ Runs(log, insert, w, r) /\ SameCalls(r, log) /\ r.fate = log.fate
        /\ Pending(r) = Pending(log) \cup {m}
    <2> HIDE DEF insert
    <2>1. insert = <<Splice(resolved, Len(ListOf(log, resolved)), 0, <<m>>, "none")>>
      BY DEF insert
    <2>2. QED BY <1>1, <2>1, InsertRuns DEF r
  <1> HIDE DEF insert
  <1>5. CASE waking /\ at = "idle"
    <2>1. r.open = "none"
      BY <1>2, <1>4, <1>5 DEF LogInv, PlaceOK, OpenOf, SameCalls, InStep, InTurn, Place
    <2>2. owed \subseteq Pending(r)
      BY <1>4 DEF LogInv, OwedOK
    <2>3. LogInv'
      BY <1>2, <1>3, <1>4, <1>5, <2>1, <2>2, OpensTurn DEF w, r
    <2>4. abort = "none"
      BY <1>5 DEF BaseInv, DriverInv
    <2>5. QED BY <2>3, <2>4 DEF Keeps
  <1>6. CASE ~(waking /\ at = "idle")
    <2>1. /\ Write(insert) /\ wake' = (wake \/ Latches(waking))
          /\ owed' = IF waking /\ ~Unowed /\ abort # "disposed" THEN owed \cup {m} ELSE owed
          /\ at' = at /\ abort' = abort /\ turnEnds' = turnEnds /\ batch' = batch /\ result' = result
          /\ asks' = asks /\ dropped' = dropped /\ shown' = shown /\ UNCHANGED toolVars
      BY <1>2, <1>6 DEF bounds
    <2>2. Runs(disk', buffer', w, log') /\ log' = r
      BY <1>4, <2>1, Written DEF LogInv, RecordsOK, w, r
    <2>3. RecordsOK'
      BY <1>2, <1>3, <2>1, <2>2, SameWorld DEF RecordsOK, LogInv, w
    <2>4. PlaceOK'
      BY <1>3, <1>4, <2>1, <2>2 DEF PlaceOK, OpenOf, LogInv, SameCalls, toolVars
    <2>5. BatchOK'
      BY <1>3, <1>4, <2>1, <2>2 DEF BatchOK, LogInv
    <2>6. OwedOK'
      <3>1. owed' \subseteq Pending(log')
        BY <1>4, <2>1, <2>2 DEF OwedOK, LogInv
      <3>2. life = "live" => \/ owed' = {}
                             \/ at \in InTurn \cup {"start"} /\ abort = "none"
                             \/ (wake \/ Latches(waking)) /\ at # "idle"
        <4>1. CASE waking /\ ~Unowed /\ abort # "disposed"
          BY <1>6, <4>1 DEF OwedOK, LogInv, Unowed, Latches, BaseInv, LoopTypesInv, LoopTypeOK, InTurn, Place
        <4>2. CASE ~(waking /\ ~Unowed /\ abort # "disposed")
          BY <2>1, <4>2 DEF OwedOK, LogInv
        <4>3. QED BY <4>1, <4>2
      <3>3. QED BY <1>2, <1>3, <2>1, <3>1, <3>2 DEF OwedOK
    <2>7. Calm
      BY <1>4, <2>2 DEF Calm, SameCalls
    <2>8. QED BY <2>3, <2>4, <2>5, <2>6, <2>7 DEF LogInv, Keeps
  <1>7. QED BY <1>5, <1>6

LEMMA TakeBackKeeps ==
  ASSUME BaseInv, LogInv, NEW m \in Msgs, TakeBack(m)
  PROVE  Keeps
  <1> DEFINE w == Outside
             s == Removal(log, m)
             r == Fold(log, s)
  <1>1. LogSound(log, w) /\ m \in Pending(log) /\ log.fate[m] = "none"
    BY RecordsSound DEF LogInv, TakeBack, LogSound, InboxSound
  <1>2. /\ Write(s) /\ owed' = owed \ {m} /\ life = "live" /\ life' = life
        /\ at' = at /\ abort' = abort /\ wake' = wake /\ turnEnds' = turnEnds /\ batch' = batch /\ result' = result
        /\ asks' = asks /\ dropped' = dropped /\ shown' = shown /\ UNCHANGED toolVars
    BY DEF TakeBack, driver, bounds
  <1>3. WorldStays
    BY <1>2 DEF WorldStays, toolVars
  <1> HIDE DEF w, s, r
  <1>4. /\ Runs(log, s, w, r) /\ SameCalls(r, log)
        /\ Pending(r) = Pending(log) \ {m}
        /\ \A x \in Msgs : r.fate[x] = IF x = m THEN "reported" ELSE log.fate[x]
    BY <1>1, RemovalRuns DEF s, r
  <1>5. Runs(disk', buffer', w, log') /\ log' = r
    BY <1>2, <1>4, Written DEF LogInv, RecordsOK, w, r
  <1>6. RecordsOK'
    BY <1>2, <1>3, <1>5, SameWorld DEF RecordsOK, LogInv, w
  <1>7. PlaceOK'
    BY <1>2, <1>4, <1>5 DEF PlaceOK, OpenOf, LogInv, SameCalls, toolVars
  <1>8. BatchOK'
    <2>1. \A x \in ToSet(batch) : x \in Msgs
      BY DEF LogInv, BatchOK, ToSet
    <2>2. QED BY <1>1, <1>2, <1>4, <1>5, <2>1 DEF BatchOK, LogInv
  <1>9. OwedOK'
    BY <1>2, <1>4, <1>5 DEF OwedOK, LogInv
  <1>10. Calm
    BY <1>4, <1>5 DEF Calm, SameCalls
  <1>11. QED BY <1>6, <1>7, <1>8, <1>9, <1>10 DEF LogInv, Keeps

LEMMA CancelWithKeeps ==
  ASSUME BaseInv, LogInv, NEW cause \in {"user", "disposed"}, NEW keepInbox \in BOOLEAN, CancelWith(cause, keepInbox),
         life = "live", life' \in {"live", "closing"}
  PROVE  Keeps
  <1> DEFINE w == Outside
             s == IF keepInbox THEN <<>> ELSE Clear(log)
             r == Fold(log, s)
  <1>1. LogSound(log, w)
    BY RecordsSound DEF LogInv
  <1>2. /\ IF keepInbox THEN UNCHANGED <<records, wake>> ELSE Write(Clear(log)) /\ wake' = FALSE
        /\ owed' = {} /\ at' = at /\ turnEnds' = turnEnds /\ batch' = batch /\ result' = result
        /\ asks' = asks /\ dropped' = dropped /\ shown' = shown /\ UNCHANGED toolVars
    BY DEF CancelWith, bounds
  <1>3. WorldStays
    BY <1>2 DEF WorldStays, toolVars
  <1> HIDE DEF w
  <1>4. /\ Runs(disk', buffer', w, log') /\ SameCalls(log', log)
        /\ \A x \in Msgs : log'.fate[x] = log.fate[x] \/ (x \in Pending(log) /\ log'.fate[x] = "reported")
    <2>1. CASE keepInbox
      BY <1>2, <2>1 DEF records, LogInv, RecordsOK, SameCalls, w
    <2>2. CASE ~keepInbox
      <3>1. Write(s)
        BY <1>2, <2>2
      <3>2. s = Clear(log)
        BY <2>2
      <3> HIDE DEF s, r
      <3>3. /\ Runs(log, s, w, r) /\ SameCalls(r, log)
            /\ \A x \in Msgs : r.fate[x] = IF x \in Pending(log) THEN "reported" ELSE log.fate[x]
        BY <1>1, <3>2, ClearRuns DEF r
      <3>4. Runs(disk', buffer', w, log') /\ log' = r
        BY <3>1, <3>3, Written DEF LogInv, RecordsOK, w, r
      <3>5. QED BY <3>3, <3>4
    <2>3. QED BY <2>1, <2>2
  <1>5. RecordsOK'
    BY <1>2, <1>3, <1>4, SameWorld DEF RecordsOK, LogInv, w
  <1>6. PlaceOK'
    BY <1>2, <1>4 DEF PlaceOK, OpenOf, LogInv, SameCalls, toolVars
  <1>7. BatchOK'
    <2>1. \A x \in ToSet(batch) : x \in Msgs
      BY DEF LogInv, BatchOK, ToSet
    <2>2. \A x \in Pending(log) : log.fate[x] = "none"
      BY <1>1 DEF LogSound, InboxSound
    <2>3. QED BY <1>2, <1>4, <2>1, <2>2 DEF BatchOK, LogInv
  <1>8. OwedOK'
    BY <1>2 DEF OwedOK
  <1>9. Calm
    BY <1>4 DEF Calm, SameCalls
  <1>10. QED BY <1>5, <1>6, <1>7, <1>8, <1>9 DEF LogInv, Keeps

LEMMA AtWork == BaseInv /\ at # "idle" => life \in {"live", "closing"}
  BY DEF BaseInv, DriverInv, LoopTypesInv, LoopTypeOK

\* Where no turn is open, nothing claimed is left over.
LEMMA RestKeeps ==
  ASSUME BaseInv, LogInv, Rest, at \in {"maintenance", "unwind"}, UNCHANGED <<toolVars, life, dropped, shown, bounds>>
  PROVE  Keeps
  <1>1. life \in {"live", "closing"} /\ life' = life /\ WorldStays /\ abort' = "none"
    BY AtWork DEF Rest, OpenTurn, WorldStays, toolVars, bounds
  <1>2. log.open = "none"
    BY <1>1 DEF LogInv, PlaceOK, OpenOf, InStep, InTurn, Place
  <1>3. CASE Replays
    <2>1. OpenTurn(<<>>)
      BY <1>3 DEF Rest
    <2>2. Runs(log, <<>>, Outside, log) /\ log = Fold(log, <<>>)
      BY RecordsSound, RunNone DEF LogInv, Runs
    <2>3. owed \subseteq Pending(log)
      BY DEF LogInv, OwedOK
    <2>4. LogInv'
      BY <1>1, <1>2, <2>1, <2>2, <2>3, OpensTurn
    <2>5. QED BY <1>1, <2>4 DEF Keeps
  <1>4. CASE ~Replays
    <2>1. at' = "idle" /\ wake' = FALSE /\ batch' = <<>> /\ UNCHANGED <<log, disk, buffer, owed>>
      BY <1>4 DEF Rest, Forget, records
    <2>2. RecordsOK'
      BY <1>1, <2>1, SameWorld DEF LogInv, RecordsOK, WorldStays
    <2>3. PlaceOK'
      BY <1>2, <2>1 DEF PlaceOK, OpenOf, InStep, InTurn, Place
    <2>4. BatchOK'
      <3>1. \A m \in Msgs : log.fate[m] # "claimed"
        BY <1>2, RecordsSound DEF LogInv, LogSound, InboxSound
      <3>2. <<>> \in Seq(Msgs) /\ Distinct(<<>>)
        BY DEF Distinct
      <3>3. QED BY <2>1, <3>1, <3>2 DEF BatchOK
    <2>5. OwedOK'
      BY <1>1, <1>4, <2>1 DEF LogInv, OwedOK, Replays, HasPending, InTurn, Place
    <2>6. QED BY <1>1, <2>2, <2>3, <2>4, <2>5 DEF LogInv, Keeps
  <1>5. QED BY <1>3, <1>4

LEMMA UnwindKeeps ==
  ASSUME BaseInv, LogInv, Unwind PROVE Keeps
  BY RestKeeps DEF Unwind

LEMMA EndMaintenanceKeeps ==
  ASSUME BaseInv, LogInv, EndMaintenance PROVE Keeps
  <1>1. CASE abort = "disposed"
    <2>1. /\ life = "closing" /\ life' = life /\ WorldStays /\ abort' = "none"
          /\ at' = "idle" /\ batch' = <<>> /\ UNCHANGED <<log, disk, buffer, owed>>
      BY <1>1 DEF EndMaintenance, Forget, records, WorldStays, toolVars, bounds, BaseInv, DriverInv
    <2>2. log.open = "none"
      BY <2>1 DEF EndMaintenance, LogInv, PlaceOK, OpenOf, InStep, InTurn, Place
    <2>3. RecordsOK'
      BY <2>1, SameWorld DEF LogInv, RecordsOK, WorldStays
    <2>4. PlaceOK'
      BY <2>1, <2>2 DEF PlaceOK, OpenOf, InStep, InTurn, Place
    <2>5. BatchOK'
      <3>1. \A m \in Msgs : log.fate[m] # "claimed"
        BY <2>2, RecordsSound DEF LogInv, LogSound, InboxSound
      <3>2. <<>> \in Seq(Msgs) /\ Distinct(<<>>)
        BY DEF Distinct
      <3>3. QED BY <2>1, <3>1, <3>2 DEF BatchOK
    <2>6. OwedOK'
      BY <2>1 DEF LogInv, OwedOK
    <2>7. QED BY <1>1, <2>1, <2>3, <2>4, <2>5, <2>6 DEF LogInv, Keeps
  <1>2. CASE abort # "disposed"
    BY <1>2, RestKeeps DEF EndMaintenance
  <1>3. QED BY <1>1, <1>2

LEMMA StartTurnKeeps ==
  ASSUME BaseInv, LogInv, StartTurn PROVE Keeps
  <1>1. /\ life \in {"live", "closing"} /\ life' = life /\ WorldStays /\ at = "start"
        /\ IF abort # "none" THEN /\ at' = "unwind"
                                  /\ UNCHANGED <<abort, wake, stepped, turnEnds, batch, result, records, owed>>
           ELSE OpenTurn(<<>>)
    BY AtWork DEF StartTurn, WorldStays, toolVars, bounds
  <1>2. log.open = "none"
    BY <1>1 DEF LogInv, PlaceOK, OpenOf, InStep, InTurn, Place
  <1>3. CASE abort = "none"
    <2>1. Runs(log, <<>>, Outside, log) /\ log = Fold(log, <<>>)
      BY RecordsSound, RunNone DEF LogInv, Runs
    <2>2. owed \subseteq Pending(log)
      BY DEF LogInv, OwedOK
    <2>3. LogInv'
      BY <1>1, <1>2, <1>3, <2>1, <2>2, OpensTurn
    <2>4. QED BY <1>3, <2>3 DEF Keeps
  <1>4. CASE abort # "none"
    <2>1. at' = "unwind" /\ UNCHANGED <<abort, wake, batch, result, turnEnds, log, disk, buffer, owed>>
      BY <1>1, <1>4 DEF records
    <2>2. RecordsOK'
      BY <1>1, <2>1, SameWorld DEF LogInv, RecordsOK, WorldStays
    <2>3. PlaceOK'
      BY <1>2, <2>1 DEF PlaceOK, OpenOf, InStep, InTurn, Place
    <2>4. BatchOK'
      BY <1>1, <1>2, <2>1, RecordsSound DEF LogInv, BatchOK, LogSound, InboxSound
    <2>5. OwedOK'
      BY <1>1, <1>4, <2>1 DEF LogInv, OwedOK
    <2>6. Calm
      BY <2>1 DEF Calm
    <2>7. QED BY <2>2, <2>3, <2>4, <2>5, <2>6 DEF LogInv, Keeps
  <1>5. QED BY <1>3, <1>4

LEMMA StartMaintenanceKeeps ==
  ASSUME BaseInv, LogInv, StartMaintenance PROVE Keeps
  <1>1. /\ life = "live" /\ life' = life /\ WorldStays /\ at = "idle" /\ at' = "maintenance" /\ abort = "none"
        /\ UNCHANGED <<batch, result, wake, log, disk, buffer, owed, dropped, turnEnds>>
    BY DEF StartMaintenance, records, WorldStays, toolVars, bounds, history, BaseInv, DriverInv
  <1>2. RecordsOK'
    BY <1>1, SameWorld DEF LogInv, RecordsOK, WorldStays
  <1>3. PlaceOK'
    BY <1>1 DEF LogInv, PlaceOK, OpenOf, InStep, InTurn, Place
  <1>4. BatchOK'
    BY <1>1 DEF LogInv, BatchOK
  <1>5. OwedOK'
    BY <1>1 DEF LogInv, OwedOK, InTurn, Place
  <1>6. QED BY <1>1, <1>2, <1>3, <1>4, <1>5 DEF LogInv, Keeps

\* What is left when a turn is over, whatever ended it.
LEMMA OverKeeps ==
  ASSUME LogInv, Runs(disk', buffer', Outside', log'), Over(log', log), at' \in {"unwind", "start"}, batch' = <<>>,
         life \in {"live", "closing"}, life' = life, shown' \subseteq Msgs
  PROVE  RecordsOK' /\ PlaceOK' /\ BatchOK' /\ Calm /\ Pending(log') = Pending(log)
  <1>1. RecordsOK'
    BY DEF RecordsOK
  <1>2. PlaceOK'
    BY DEF Over, PlaceOK, OpenOf, InStep, InTurn, Place
  <1>3. BatchOK'
    <2>1. <<>> \in Seq(Msgs) /\ Distinct(<<>>) /\ ToSet(<<>>) = {}
      BY DEF Distinct, ToSet
    <2>2. QED BY <2>1 DEF BatchOK, Over
  <1>4. Calm /\ Pending(log') = Pending(log)
    BY DEF Calm, Over, Pending
  <1>5. QED BY <1>1, <1>2, <1>3, <1>4

\* A turn end after what closes its step.
LEMMA TurnEndsAfterEvents ==
  ASSUME LogInv, NEW events, NEW q, NEW reason \in Reason, Runs(log, events, Outside, q), SameInbox(q, log),
         q.open # "step", ClaimsAccounted(q, reason, Outside), Write(events \o <<TurnEnd(reason)>>), WorldStays
  PROVE  Runs(disk', buffer', Outside', log') /\ Over(log', log) /\ shown' \subseteq Msgs
  <1> DEFINE w == Outside
             t == <<TurnEnd(reason)>>
             s == events \o t
             r == Fold(q, t)
             p == Fold(log, s)
  <1>1. Runs(log, events, w, q) /\ LogSound(q, w) /\ ClaimsAccounted(q, reason, w) /\ Write(s)
    BY RunEnds
  <1>2. w = Outside'
    BY SameWorld
  <1> HIDE DEF w
  <1>3. Runs(q, t, w, r) /\ Over(r, q)
    <2> HIDE DEF r
    <2>1. t = <<TurnEnd(reason)>> /\ r = Fold(q, t)
      BY DEF r
    <2> HIDE DEF t
    <2>2. QED BY <1>1, <2>1, TurnCloseRuns
  <1> HIDE DEF t, r
  <1>4. Runs(log, s, w, r)
    BY <1>1, <1>3, RunThen
  <1> HIDE DEF s
  <1>5. r = p
    BY <1>4 DEF Runs
  <1>6. Runs(disk', buffer', w, log') /\ log' = p
    <2> HIDE DEF p
    <2>1. p = Fold(log, s)
      BY DEF p
    <2>2. Runs(log, s, w, p) /\ Runs(disk, buffer, w, log)
      BY <1>4, <1>5 DEF LogInv, RecordsOK, w
    <2>3. QED BY <1>1, <2>1, <2>2, Written
  <1>7. Over(log', log)
    BY <1>3, <1>5, <1>6 DEF Over, SameInbox
  <1>8. QED BY <1>2, <1>6, <1>7 DEF LogInv, RecordsOK, WorldStays

\* A turn that ends for a reason that leaves what is pending parked.
LEMMA ParkedKeeps ==
  ASSUME BaseInv, LogInv, NEW events, NEW q, NEW reason \in Reason, Runs(log, events, Outside, q), SameInbox(q, log),
         q.open # "step", ClaimsAccounted(q, reason, Outside), EndTurn(reason, events), WorldStays,
         at # "idle", life' = life, owed' = {} \/ (abort # "none" /\ owed' = owed)
  PROVE  Keeps
  <1>1. /\ Write(events \o <<TurnEnd(reason)>>) /\ at' = "unwind" /\ batch' = <<>> /\ abort' = abort /\ wake' = wake
        /\ life \in {"live", "closing"}
    BY AtWork DEF EndTurn, Forget
  <1>2. Runs(disk', buffer', Outside', log') /\ Over(log', log) /\ shown' \subseteq Msgs
    BY <1>1, TurnEndsAfterEvents
  <1>3. RecordsOK' /\ PlaceOK' /\ BatchOK' /\ Calm /\ Pending(log') = Pending(log)
    BY <1>1, <1>2, OverKeeps
  <1>4. OwedOK'
    BY <1>1, <1>3 DEF LogInv, OwedOK
  <1>5. QED BY <1>3, <1>4 DEF Keeps, LogInv

LEMMA AccountsForAll ==
  /\ \A q, w : ClaimsAccounted(q, "aborted", w) /\ ClaimsAccounted(q, "error", w) /\ ClaimsAccounted(q, "blocked", w)
  /\ "aborted" \in Reason /\ "error" \in Reason /\ "blocked" \in Reason
  BY DEF ClaimsAccounted, AccountsForClaim, Reason

LEMMA FailsKeeps ==
  ASSUME BaseInv, LogInv, NEW events, NEW q, Runs(log, events, Outside, q), SameInbox(q, log),
         q.open # "step", Fails(events), WorldStays, at # "idle", life' = life
  PROVE  Keeps
  <1>1. CASE abort # "none"
    <2>1. EndTurn("aborted", events) /\ owed' = owed
      BY <1>1 DEF Fails
    <2>2. QED BY <1>1, <2>1, AccountsForAll, ParkedKeeps
  <1>2. CASE abort = "none"
    <2>1. EndTurn("error", events) /\ owed' = {}
      BY <1>2 DEF Fails, Parks
    <2>2. QED BY <1>2, <2>1, AccountsForAll, ParkedKeeps
  <1>3. QED BY <1>1, <1>2

LEMMA NothingWritten == LogInv => Runs(log, <<>>, Outside, log) /\ SameInbox(log, log)
  BY RecordsSound, RunNone DEF LogInv, SameInbox

LEMMA HookFailureKeeps ==
  ASSUME BaseInv, LogInv, PreStepFails \/ StoppingFails PROVE Keeps
  <1>1. Fails(<<>>) /\ at \in {"preStep", "stopping"} /\ life' = life /\ WorldStays
    BY DEF PreStepFails, StoppingFails, WorldStays, toolVars, bounds
  <1>2. log.open # "step"
    BY <1>1, AtWork DEF LogInv, PlaceOK, OpenOf, InStep, InTurn, Place
  <1>3. QED BY <1>1, <1>2, NothingWritten, FailsKeeps

LEMMA StepIsOpen ==
  ASSUME BaseInv, LogInv, StepReturned, CloseTools, bounds' = bounds, UNCHANGED <<dropped, shown>>
  PROVE  /\ log.open = "step" /\ LogSound(log, Outside) /\ WorldStays /\ at # "idle"
         /\ ~Threw => Len(log.results) = log.asked /\ batch = <<>>
  <1>1. at \in {"stepDone", "tools"} /\ (at = "tools" => sched \in {"returned", "threw"})
    BY DEF StepReturned
  <1>2. log.open = "step"
    BY <1>1, AtWork DEF LogInv, PlaceOK, OpenOf, InStep
  <1>3. LogSound(log, Outside)
    BY RecordsSound DEF LogInv
  <1>4. WorldStays
    BY DEF WorldStays, CloseTools, Close, toolVars, bounds
  <1>5. ASSUME ~Threw PROVE Len(log.results) = log.asked /\ batch = <<>>
    <2>1. CASE at = "stepDone"
      <3>1. log.asked = 0 /\ Len(log.results) <= log.asked /\ Len(log.results) \in Nat
        BY <1>3, <2>1 DEF LogInv, PlaceOK, InStep, LogSound, CallsSound, LogType
      <3>2. QED BY <1>5, <2>1, <3>1 DEF LogInv, BatchOK, Threw
    <2>2. CASE at = "tools"
      BY <1>1, <1>5, <2>2 DEF LogInv, PlaceOK, BatchOK, Threw, BaseInv, ToolInv, CountsOK
    <2>3. QED BY <1>1, <2>1, <2>2
  <1>6. QED BY <1>1, <1>2, <1>3, <1>4, <1>5

LEMMA StepThrowsKeeps ==
  ASSUME BaseInv, LogInv, StepThrows PROVE Keeps
  <1> DEFINE s == RecoveryResults(log) \o <<StepEnd>>
             q == Fold(log, s)
  <1>1. StepReturned /\ CloseTools /\ Fails(s) /\ bounds' = bounds /\ UNCHANGED <<dropped, shown>> /\ life' = life
    BY DEF StepThrows
  <1>2. log.open = "step" /\ LogSound(log, Outside) /\ WorldStays /\ at # "idle"
    BY <1>1, StepIsOpen
  <1>3. Runs(log, s, Outside, q) /\ SameInbox(q, log) /\ q.open = "turn"
    BY <1>2, StepRepairRuns
  <1> HIDE DEF s, q
  <1>4. QED BY <1>1, <1>2, <1>3, FailsKeeps

LEMMA StepCancelledKeeps ==
  ASSUME BaseInv, LogInv, StepCancelled PROVE Keeps
  <1> DEFINE s == <<StepEnd>>
             q == Fold(log, s)
  <1>1. StepReturned /\ CloseTools /\ EndTurn("aborted", s) /\ bounds' = bounds /\ UNCHANGED <<dropped, shown>> /\ life' = life
        /\ ~Threw /\ abort # "none" /\ owed' = owed
    BY DEF StepCancelled, history, Aborted
  <1>2. LogSound(log, Outside) /\ WorldStays /\ at # "idle" /\ Len(log.results) = log.asked
    BY <1>1, StepIsOpen
  <1>3. Runs(log, s, Outside, q) /\ SameInbox(q, log) /\ q.open = "turn"
    BY <1>2, StepCloseRuns
  <1> HIDE DEF s, q
  <1>4. QED BY <1>1, <1>2, <1>3, AccountsForAll, ParkedKeeps

LEMMA TurnStopsKeeps ==
  ASSUME BaseInv, LogInv, TurnStops PROVE Keeps
  <1>1. /\ at = "stopping" /\ Write(<<>> \o <<TurnEnd(turnEnds)>>) /\ batch' = <<>>
        /\ IF GoesOn THEN at' = "start" /\ abort' = "none" /\ wake' = FALSE ELSE at' = "unwind" /\ UNCHANGED <<abort, wake>>
        /\ life \in {"live", "closing"} /\ life' = life /\ WorldStays /\ owed' = owed
    BY AtWork DEF TurnStops, Completes, Forget, WorldStays, toolVars, bounds, history
  <1>2. log.open # "step"
    BY <1>1 DEF LogInv, PlaceOK, OpenOf, InStep, InTurn, Place
  <1>3. turnEnds \in Reason
    BY <1>1 DEF LogInv, PlaceOK, BaseInv, LoopTypesInv, LoopTypeOK, Reason
  <1>4. ClaimsAccounted(log, turnEnds, Outside)
    <2>1. batch = <<>>
      BY <1>1 DEF LogInv, BatchOK
    <2>2. ToSet(<<>>) = {}
      BY DEF ToSet
    <2>3. \A m \in Msgs : log.fate[m] = "claimed" => m \in dropped
      BY <1>1, <2>1, <2>2 DEF LogInv, BatchOK
    <2>4. Outside.dropped = dropped
      BY DEF Outside
    <2>5. QED BY <2>3, <2>4 DEF ClaimsAccounted
  <1>5. Runs(disk', buffer', Outside', log') /\ Over(log', log) /\ shown' \subseteq Msgs
    BY <1>1, <1>2, <1>3, <1>4, NothingWritten, TurnEndsAfterEvents
  <1>6. RecordsOK' /\ PlaceOK' /\ BatchOK' /\ Calm /\ Pending(log') = Pending(log)
    BY <1>1, <1>5, OverKeeps
  <1>7. OwedOK'
    BY <1>1, <1>6 DEF LogInv, OwedOK, GoesOn, HasPending, TurnStops, Aborted
  <1>8. QED BY <1>6, <1>7 DEF Keeps, LogInv

LEMMA EnteredTypes ==
  ASSUME NEW b \in Seq(Msgs), NEW entered \in SetToAllKPermutations(ToSet(b))
  PROVE  entered \in Seq(Msgs) /\ Distinct(entered) /\ ToSet(entered) \subseteq ToSet(b)
  <1>1. PICK T \in SUBSET ToSet(b) : entered \in SetToSeqs(T)
    BY DEF SetToAllKPermutations
  <1>2. IsFiniteSet(T)
    <2>1. IsFiniteSet(1..Len(b)) /\ Len(b) \in Nat
      BY FS_Interval
    <2>2. ToSet(b) = {b[i] : i \in 1..Len(b)}
      BY DEF ToSet
    <2>3. IsFiniteSet({b[i] : i \in 1..Len(b)})
      <3> DEFINE f == [i \in 1..Len(b) |-> b[i]]
                 S == {f[i] : i \in 1..Len(b)}
      <3>1. f \in Surjection(1..Len(b), S)
        BY DEF Surjection
      <3>2. IsFiniteSet(S)
        BY <2>1, <3>1, FS_Surjection
      <3>3. QED BY <3>2
    <2>4. QED BY <2>2, <2>3, FS_Subset
  <1>3. Cardinality(T) \in Nat
    BY <1>2, FS_CardinalityType
  <1>4. /\ entered \in [1..Cardinality(T) -> T]
        /\ \A i, j \in 1..Cardinality(T) : i # j => entered[i] # entered[j]
    BY <1>1 DEF SetToSeqs
  <1>5. T \subseteq Msgs
    BY DEF ToSet
  <1>6. entered \in Seq(Msgs) /\ DOMAIN entered = 1..Cardinality(T)
    BY <1>3, <1>4, <1>5
  <1>7. Distinct(entered)
    BY <1>4, <1>6 DEF Distinct
  <1>8. ToSet(entered) \subseteq T
    BY <1>4, <1>6 DEF ToSet
  <1>9. QED BY <1>6, <1>7, <1>8

LEMMA FlushedTurnEnds ==
  ASSUME LogInv, NEW reason \in Reason, NEW v, LogSound(log, v), log.open # "step", ClaimsAccounted(log, reason, v),
         FlushThenWrite(<<TurnEnd(reason)>>)
  PROVE  Runs(disk', buffer', v, log') /\ Over(log', log)
  <1> DEFINE t == <<TurnEnd(reason)>>
             r == Fold(log, t)
  <1>1. Runs(log, t, v, r) /\ Over(r, log)
    <2>1. t = <<TurnEnd(reason)>> /\ r = Fold(log, t)
      OBVIOUS
    <2> HIDE DEF t, r
    <2>2. QED BY <2>1, TurnCloseRuns
  <1>2. FlushThenWrite(t)
    OBVIOUS
  <1> HIDE DEF t
  <1>3. Runs(disk', buffer', v, log') /\ log' = r
    <2> HIDE DEF r
    <2>1. r = Fold(log, t)
      BY DEF r
    <2>2. QED BY <1>1, <1>2, <2>1, FlushedThenWritten
  <1>4. QED BY <1>1, <1>3

LEMMA PreStepRejectsKeeps ==
  ASSUME BaseInv, LogInv, PreStepRejects PROVE Keeps
  <1>1. /\ at = "preStep" /\ abort = "none" /\ FlushThenWrite(<<TurnEnd("blocked")>>)
        /\ at' = "unwind" /\ batch' = <<>> /\ owed' = {}
        /\ life \in {"live", "closing"} /\ life' = life /\ WorldStays
    BY AtWork DEF PreStepRejects, Forget, Parks, WorldStays, toolVars, bounds
  <1>2. log.open # "step"
    BY <1>1 DEF LogInv, PlaceOK, OpenOf, InStep, InTurn, Place
  <1>3. Runs(disk', buffer', Outside, log') /\ Over(log', log)
    BY <1>1, <1>2, RecordsSound, AccountsForAll, FlushedTurnEnds DEF LogInv
  <1>4. Runs(disk', buffer', Outside', log') /\ shown' \subseteq Msgs
    BY <1>1, <1>3, SameWorld DEF LogInv, RecordsOK, WorldStays
  <1>5. RecordsOK' /\ PlaceOK' /\ BatchOK' /\ Calm
    BY <1>1, <1>3, <1>4, OverKeeps
  <1>6. OwedOK'
    BY <1>1 DEF OwedOK
  <1>7. QED BY <1>5, <1>6 DEF Keeps, LogInv

LEMMA PreStepEntersKeeps ==
  ASSUME BaseInv, LogInv, NEW entered \in SetToAllKPermutations(ToSet(batch)),
         NEW context \in BOOLEAN, PreStepEnters(entered, context)
  PROVE  Keeps
  <1> DEFINE v == Outside'
  <1>1. /\ at = "preStep" /\ abort = "none" /\ life \in {"live", "closing"} /\ life' = life
        /\ dropped' = dropped \cup (ToSet(batch) \ ToSet(entered))
        /\ ran' = ran /\ asks' = asks /\ shown' = shown /\ UNCHANGED toolVars
    BY AtWork DEF PreStepEnters, toolVars, bounds
  <1>2. batch \in Seq(Msgs) /\ entered \in Seq(Msgs) /\ Distinct(entered) /\ ToSet(entered) \subseteq ToSet(batch)
    BY EnteredTypes DEF LogInv, BatchOK
  <1>3. log.open = "turn"
    BY <1>1 DEF LogInv, PlaceOK, OpenOf, InStep, InTurn, Place
  <1>4. LogSound(log, v) /\ v.dropped = dropped'
    <2>1. /\ Outside.dropped \subseteq v.dropped /\ v.ran = Outside.ran
          /\ v.asks = Outside.asks /\ v.shown = Outside.shown /\ v.dropped = dropped'
      BY <1>1 DEF Outside
    <2> HIDE DEF v
    <2>2. QED BY <2>1, MoreDropped, RecordsSound DEF LogInv
  <1>5. \A m \in Msgs : log.fate[m] = "claimed" => m \in ToSet(batch) \cup dropped
    BY <1>1 DEF LogInv, BatchOK
  <1>6. ToSet(<<>>) = {}
    BY DEF ToSet
  <1>7. CASE entered = <<>> /\ ~context /\ turnEnds # "none"
    <2>1. /\ FlushThenWrite(<<TurnEnd(turnEnds)>>) /\ batch' = <<>> /\ owed' = owed
          /\ abort' = abort /\ at' = IF GoesOn THEN "start" ELSE "unwind"
      BY <1>7 DEF PreStepEnters, Forget
    <2>2. turnEnds \in Reason
      BY <1>7 DEF BaseInv, LoopTypesInv, LoopTypeOK, Reason
    <2>3. ClaimsAccounted(log, turnEnds, v)
      <3> HIDE DEF v
      <3>1. QED BY <1>1, <1>4, <1>5, <1>6, <1>7 DEF ClaimsAccounted
    <2>4. Runs(disk', buffer', v, log') /\ Over(log', log)
      <3> HIDE DEF v
      <3>1. QED BY <1>3, <1>4, <2>1, <2>2, <2>3, FlushedTurnEnds
    <2>5. RecordsOK' /\ PlaceOK' /\ BatchOK' /\ Calm /\ Pending(log') = Pending(log)
      BY <1>1, <2>1, <2>4, OverKeeps DEF LogInv, RecordsOK
    <2>6. OwedOK'
      BY <1>1, <2>1, <2>5 DEF LogInv, OwedOK, GoesOn, HasPending
    <2>7. QED BY <2>5, <2>6 DEF Keeps, LogInv
  <1>8. CASE entered = <<>> /\ ~context /\ turnEnds = "none" /\ ~stepped
    <2>1. FlushThenWrite(<<TurnEnd("completed")>>) /\ batch' = <<>> /\ owed' = {} /\ at' = "unwind"
      BY <1>8 DEF PreStepEnters, Forget, Parks
    <2>2. "completed" \in Reason
      BY DEF Reason
    <2>3. ClaimsAccounted(log, "completed", v)
      <3> HIDE DEF v
      <3>1. QED BY <1>1, <1>4, <1>5, <1>6, <1>8 DEF ClaimsAccounted
    <2>4. Runs(disk', buffer', v, log') /\ Over(log', log)
      <3> HIDE DEF v
      <3>1. QED BY <1>3, <1>4, <2>1, <2>2, <2>3, FlushedTurnEnds
    <2>5. RecordsOK' /\ PlaceOK' /\ BatchOK' /\ Calm
      BY <1>1, <2>1, <2>4, OverKeeps DEF LogInv, RecordsOK
    <2>6. OwedOK'
      BY <2>1 DEF OwedOK
    <2>7. QED BY <2>5, <2>6 DEF Keeps, LogInv
  <1>9. CASE /\ ~(entered = <<>> /\ ~context /\ turnEnds # "none")
             /\ ~(entered = <<>> /\ ~context /\ turnEnds = "none" /\ ~stepped)
    <2> DEFINE t == <<StepStart>>
               r == Fold(log, t)
    <2>1. /\ FlushThenWrite(t) /\ batch' = entered /\ owed' = owed /\ at' = "request" /\ abort' = abort
      BY <1>9 DEF PreStepEnters
    <2>2. Runs(log, t, v, r) /\ SameInbox(r, log) /\ r.open = "step" /\ r.asked = 0
      <3> HIDE DEF v, r
      <3>1. QED BY <1>4, StepOpenRuns DEF r
    <2> HIDE DEF t
    <2>3. Runs(disk', buffer', v, log') /\ log' = r
      <3> HIDE DEF v, r
      <3>1. r = Fold(log, t)
        BY DEF r
      <3>2. QED BY <2>1, <2>2, <3>1, FlushedThenWritten
    <2> HIDE DEF r
    <2>4. RecordsOK'
      BY <1>1, <2>3 DEF LogInv, RecordsOK
    <2>5. PlaceOK'
      BY <2>1, <2>2, <2>3 DEF PlaceOK, OpenOf, InStep
    <2>6. BatchOK'
      <3>1. \A m \in Msgs : log'.fate[m] = log.fate[m]
        BY <2>2, <2>3 DEF SameInbox
      <3>2. \A m \in ToSet(batch) : log.fate[m] = "claimed" /\ m \in Msgs
        BY <1>1, <1>2 DEF LogInv, BatchOK, ToSet
      <3>3. QED BY <1>1, <1>2, <1>5, <2>1, <3>1, <3>2 DEF BatchOK
    <2>7. OwedOK'
      <3>1. Pending(log') = Pending(log)
        BY <2>2, <2>3 DEF SameInbox, Pending
      <3>2. QED BY <1>1, <2>1, <3>1 DEF LogInv, OwedOK, InTurn, Place
    <2>8. QED BY <1>1, <2>4, <2>5, <2>6, <2>7 DEF Keeps, LogInv
  <1>10. QED BY <1>7, <1>8, <1>9

LEMMA EmptyBatch == <<>> \in Seq(Msgs) /\ Distinct(<<>>) /\ ToSet(<<>>) = {}
  BY DEF Distinct, ToSet

LEMMA ClaimsNextKeeps ==
  ASSUME BaseInv, LogInv, NEW events, NEW q, Runs(log, events, Outside, q), SameInbox(q, log), q.open = "turn",
         ClaimsNext(events), batch = <<>>, abort = "none", abort' = abort, WorldStays, life' = life,
         life \in {"live", "closing"}
  PROVE  Keeps
  <1> DEFINE w == Outside
             target == "nextStep"
             s == events \o Claim(log, target)
             b == ClaimedBy(log, target)
             r == Fold(log, s)
  <1>1. Write(s) /\ batch' = b /\ owed' = owed \ ToSet(b) /\ at' = "preStep"
    BY DEF ClaimsNext
  <1>2. ThenClaim(log, events, w, q, log, target, s, b)
    <2>1. target \in Target
      BY DEF Target
    <2> HIDE DEF target
    <2>2. QED BY <2>1 DEF ThenClaim
  <1> HIDE DEF w, target, s, b
  <1>3. /\ Runs(log, s, w, r) /\ r.open = q.open
        /\ b \in Seq(Msgs) /\ Distinct(b) /\ Pending(r) = Pending(log) \ ToSet(b)
        /\ \A m \in Msgs : r.fate[m] = IF m \in ToSet(b) THEN "claimed" ELSE log.fate[m]
    <2> HIDE DEF r
    <2>1. r = Fold(log, s)
      BY DEF r
    <2>2. QED BY <1>2, <2>1, ClaimsAfter
  <1>4. Runs(disk', buffer', w, log') /\ log' = r
    <2> HIDE DEF r
    <2>1. r = Fold(log, s)
      BY DEF r
    <2>2. QED BY <1>1, <1>3, <2>1, Written DEF LogInv, RecordsOK, w
  <1> HIDE DEF r
  <1>5. RecordsOK'
    BY <1>4, SameWorld DEF RecordsOK, LogInv, WorldStays, w
  <1>6. PlaceOK'
    BY <1>1, <1>3, <1>4 DEF PlaceOK, OpenOf, InStep, InTurn, Place
  <1>7. BatchOK'
    <2>1. \A m \in ToSet(b) : m \in Msgs
      BY <1>3 DEF ToSet
    <2>2. \A m \in Msgs : log.fate[m] = "claimed" => m \in dropped
      BY EmptyBatch DEF LogInv, BatchOK
    <2>3. QED BY <1>1, <1>3, <1>4, <2>1, <2>2 DEF BatchOK, WorldStays
  <1>8. OwedOK'
    BY <1>1, <1>3, <1>4 DEF LogInv, OwedOK, InTurn, Place
  <1>9. QED BY <1>5, <1>6, <1>7, <1>8 DEF Keeps, LogInv

LEMMA TurnContinuesKeeps ==
  ASSUME BaseInv, LogInv, TurnContinues PROVE Keeps
  <1>1. /\ at = "stopping" /\ abort = "none" /\ abort' = abort /\ life' = life /\ ClaimsNext(<<>>) /\ WorldStays
        /\ life \in {"live", "closing"} /\ batch = <<>>
    BY AtWork DEF TurnContinues, Aborted, WorldStays, toolVars, bounds, LogInv, BatchOK
  <1>2. log.open = "turn"
    BY <1>1 DEF LogInv, PlaceOK, OpenOf, InStep, InTurn, Place
  <1>3. QED BY <1>1, <1>2, NothingWritten, ClaimsNextKeeps

LEMMA StepClosesKeeps ==
  ASSUME BaseInv, LogInv, StepCloses PROVE Keeps
  <1> DEFINE w == Outside
             s == <<StepEnd>>
             q == Fold(log, s)
  <1>1. /\ StepReturned /\ CloseTools /\ bounds' = bounds /\ UNCHANGED <<dropped, shown>> /\ life' = life
        /\ ~Threw /\ abort = "none" /\ abort' = abort
        /\ IF turnEnds' # "none" /\ log.nextStep = <<>>
           THEN Write(s) /\ at' = "stopping" /\ UNCHANGED <<batch, owed>>
           ELSE ClaimsNext(s)
    BY DEF StepCloses, Aborted
  <1>2. /\ log.open = "step" /\ LogSound(log, Outside) /\ WorldStays /\ at # "idle"
        /\ Len(log.results) = log.asked /\ batch = <<>>
    BY <1>1, StepIsOpen
  <1>3. Runs(log, s, w, q) /\ SameInbox(q, log) /\ q.open = "turn"
    BY <1>2, StepCloseRuns
  <1>4. life \in {"live", "closing"}
    BY <1>2, AtWork
  <1> HIDE DEF s
  <1>5. CASE turnEnds' # "none" /\ log.nextStep = <<>>
    <2>1. Write(s) /\ at' = "stopping" /\ batch' = <<>> /\ owed' = owed
      BY <1>1, <1>2, <1>5
    <2>2. Runs(disk', buffer', w, log') /\ log' = q
      <3> HIDE DEF w, q
      <3>1. q = Fold(log, s)
        BY DEF q
      <3>2. QED BY <1>3, <2>1, <3>1, Written DEF LogInv, RecordsOK, w
    <2> HIDE DEF q, w
    <2>3. RecordsOK'
      <3>1. Runs(disk', buffer', Outside', log')
        BY <1>2, <2>2, SameWorld DEF w
      <3>2. life' = life /\ shown' = shown
        BY <1>1
      <3>3. QED BY <1>4, <3>1, <3>2 DEF RecordsOK, LogInv
    <2>4. PlaceOK'
      BY <1>3, <1>5, <2>1, <2>2 DEF PlaceOK, OpenOf, InStep, InTurn, Place
    <2>5. BatchOK'
      <3>1. \A m \in Msgs : log.fate[m] = "claimed" => m \in dropped
        BY <1>2, <1>4, EmptyBatch DEF LogInv, BatchOK
      <3>2. \A m \in Msgs : log'.fate[m] = log.fate[m]
        BY <1>3, <2>2 DEF SameInbox
      <3>3. QED BY <1>1, <2>1, <3>1, <3>2, EmptyBatch DEF BatchOK
    <2>6. OwedOK'
      <3>1. Pending(log') = Pending(log)
        BY <1>3, <2>2 DEF SameInbox, Pending
      <3>2. QED BY <1>1, <1>4, <2>1, <3>1 DEF LogInv, OwedOK, InTurn, Place
    <2>7. QED BY <1>1, <2>3, <2>4, <2>5, <2>6 DEF Keeps, LogInv
  <1>6. CASE ~(turnEnds' # "none" /\ log.nextStep = <<>>)
    <2>1. ClaimsNext(s)
      BY <1>1, <1>6
    <2> HIDE DEF q, w
    <2>2. Runs(log, s, Outside, q)
      BY <1>3 DEF w
    <2>3. QED BY <1>1, <1>2, <1>3, <1>4, <2>1, <2>2, ClaimsNextKeeps
  <1>7. QED BY <1>5, <1>6

\* Inside a step, before its tools: nothing is written.
LEMMA StillKeeps ==
  ASSUME BaseInv, LogInv, UNCHANGED <<records, toolVars, life, abort, wake, batch, history, bounds>>,
         at \in {"request", "opening", "stream", "retry"}, at' \in {"request", "opening", "stream", "retry", "stepDone"},
         (at # "request" /\ batch = <<>>) \/ (at' = "stepDone" /\ result' = "failed")
  PROVE  Keeps
  <1>1. /\ WorldStays /\ UNCHANGED <<log, disk, buffer, dropped, shown, owed>> /\ life' = life
        /\ life \in {"live", "closing"}
    BY AtWork DEF WorldStays, records, toolVars, history, bounds
  <1>2. RecordsOK'
    BY <1>1, SameWorld DEF LogInv, RecordsOK, WorldStays
  <1>3. PlaceOK'
    BY <1>1 DEF LogInv, PlaceOK, OpenOf, InStep
  <1>4. BatchOK'
    BY <1>1, EmptyBatch DEF LogInv, BatchOK
  <1>5. OwedOK'
    BY <1>1 DEF LogInv, OwedOK, InTurn, Place
  <1>6. Calm
    BY <1>1 DEF Calm
  <1>7. QED BY <1>2, <1>3, <1>4, <1>5, <1>6 DEF Keeps, LogInv

LEMMA StepFailsKeeps ==
  ASSUME BaseInv, LogInv, RequestFails \/ StreamFails \/ GiveUp PROVE Keeps
  BY StillKeeps DEF RequestFails, StreamFails, GiveUp, StepFails

LEMMA StreamMovesKeeps ==
  ASSUME BaseInv, LogInv, StreamErrs \/ Retry \/ \E how \in {"completed", "maxTokens"} : StreamEnds(how) PROVE Keeps
  <1>1. /\ UNCHANGED <<records, toolVars, life, abort, wake, batch, history, bounds>>
        /\ at \in {"stream", "retry"} /\ at' \in {"request", "retry", "stepDone"}
    BY DEF StreamErrs, Retry, StreamEnds
  <1>2. batch = <<>>
    BY <1>1 DEF LogInv, BatchOK
  <1>3. QED BY <1>1, <1>2, StillKeeps

LEMMA RequestReadyKeeps ==
  ASSUME BaseInv, LogInv, RequestReady PROVE Keeps
  <1> DEFINE w == Outside
             s == [i \in DOMAIN batch |-> UserMessage(batch[i])]
             r == Fold(log, s)
  <1>1. /\ at = "request" /\ abort = "none" /\ Write(s) /\ batch' = <<>> /\ at' = "opening" /\ abort' = abort
        /\ owed' = owed /\ life' = life /\ WorldStays /\ life \in {"live", "closing"}
    BY AtWork DEF RequestReady, MayAdmit, WorldStays, toolVars, bounds, history
  <1>2. LogSound(log, w) /\ batch \in Seq(Msgs) /\ Distinct(batch) /\ \A m \in ToSet(batch) : log.fate[m] = "claimed"
    BY <1>1, RecordsSound DEF LogInv, BatchOK
  <1> HIDE DEF w
  <1>3. /\ Runs(log, s, w, r) /\ SameCalls(r, log) /\ Pending(r) = Pending(log)
        /\ \A x \in Msgs : r.fate[x] = IF x \in ToSet(batch) THEN "admitted" ELSE log.fate[x]
    <2>1. s = [i \in DOMAIN batch |-> UserMessage(batch[i])] /\ r = Fold(log, s)
      OBVIOUS
    <2> HIDE DEF s, r
    <2>2. QED BY <1>2, <2>1, AdmitRuns
  <1> HIDE DEF s
  <1>4. Runs(disk', buffer', w, log') /\ log' = r
    <2> HIDE DEF r
    <2>1. r = Fold(log, s)
      BY DEF r
    <2>2. QED BY <1>1, <1>3, <2>1, Written DEF LogInv, RecordsOK, w
  <1> HIDE DEF r
  <1>5. RecordsOK'
    BY <1>1, <1>4, SameWorld DEF RecordsOK, LogInv, WorldStays, w
  <1>6. PlaceOK'
    BY <1>1, <1>3, <1>4 DEF LogInv, PlaceOK, OpenOf, InStep, SameCalls
  <1>7. BatchOK'
    BY <1>1, <1>3, <1>4, EmptyBatch DEF LogInv, BatchOK, WorldStays
  <1>8. OwedOK'
    BY <1>1, <1>3, <1>4 DEF LogInv, OwedOK, InTurn, Place
  <1>9. QED BY <1>1, <1>5, <1>6, <1>7, <1>8 DEF Keeps, LogInv

LEMMA StreamOpensKeeps ==
  ASSUME BaseInv, LogInv, StreamOpens PROVE Keeps
  <1> DEFINE v == Outside'
  <1>1. /\ at = "opening" /\ Flush /\ shown' = shown \cup {m \in Msgs : log.fate[m] = "admitted"}
        /\ at' = "stream" /\ UNCHANGED <<abort, wake, batch, dropped, owed, asks, ran, life, result>>
        /\ life \in {"live", "closing"}
    BY AtWork DEF StreamOpens, DurableRequest, toolVars, bounds
  <1>2. LogSound(log, v)
    <2>1. /\ v.dropped = Outside.dropped /\ v.ran = Outside.ran /\ v.asks = Outside.asks
          /\ v.shown = Outside.shown \cup {m \in Msgs : log.fate[m] = "admitted"}
      BY <1>1 DEF Outside
    <2> HIDE DEF v
    <2>2. QED BY <2>1, MoreShown, RecordsSound DEF LogInv
  <1>3. Runs(disk', buffer', v, log') /\ log' = log
    <2> HIDE DEF v
    <2>1. QED BY <1>1, <1>2, Flushed
  <1>4. RecordsOK'
    BY <1>1, <1>3 DEF LogInv, RecordsOK
  <1>5. PlaceOK'
    BY <1>1, <1>3 DEF LogInv, PlaceOK, OpenOf, InStep
  <1>6. BatchOK'
    BY <1>1, <1>3 DEF LogInv, BatchOK
  <1>7. OwedOK'
    BY <1>1, <1>3 DEF LogInv, OwedOK, InTurn, Place
  <1>8. Calm
    BY <1>3 DEF Calm
  <1>9. QED BY <1>4, <1>5, <1>6, <1>7, <1>8 DEF Keeps, LogInv

LEMMA StreamAsksKeeps ==
  ASSUME BaseInv, LogInv, NEW n \in Call, StreamAsks(n) PROVE Keeps
  <1> DEFINE v == Outside'
             e == Asks(asks + 1, n)
             r == Apply(log, e)
  <1>1. /\ at = "stream" /\ abort = "none" /\ abort' = abort /\ Write(<<e>>) /\ at' = "tools" /\ Ask(n)
        /\ asks' = asks + 1 /\ UNCHANGED <<batch, owed, wake, dropped, shown, life>>
        /\ life \in {"live", "closing"} /\ asks \in Nat /\ batch = <<>> /\ log.open = "step" /\ n \in Nat
    BY AtWork DEF StreamAsks, history, BaseInv, LoopTypesInv, LoopTypeOK, LogInv, PlaceOK, BatchOK, OpenOf, InStep, Call
  <1>2. sched' = "classify" /\ asked' = n /\ started' = 0 /\ committed' = 0 /\ ran' = {}
    BY <1>1 DEF Ask
  <1>3. \A l : LogSound(l, Outside) => LogSound(l, v)
    <2>1. /\ v.dropped = Outside.dropped /\ v.ran = {} /\ v.asks = Outside.asks + 1 /\ v.shown = Outside.shown
          /\ Outside.asks \in Nat
      BY <1>1, <1>2 DEF Outside
    <2> HIDE DEF v
    <2>2. QED BY <2>1, MoreAsked
  <1>4. Runs(disk, buffer, v, log) /\ LogSound(log, v)
    <2> HIDE DEF v
    <2>1. QED BY <1>3, RunElsewhere, RecordsSound DEF LogInv, RecordsOK
  <1>5. /\ LogSound(r, v) /\ e \in Event
        /\ r.open = "step" /\ r.ask = asks' /\ r.asked = n /\ r.called = {} /\ r.results = <<>>
        /\ r.fate = log.fate /\ r.nextTurn = log.nextTurn /\ r.nextStep = log.nextStep
    <2>1. v.asks = asks + 1 /\ v.ran = {} /\ v.asks = asks' /\ v.asks \in Nat
      BY <1>1, <1>2 DEF Outside
    <2>2. r = Apply(log, Asks(v.asks, n))
      BY <2>1
    <2>3. e \in Event
      BY <1>1, EventTypes
    <2> HIDE DEF v, e, r
    <2>4. LogSound(log, v) /\ log.open = "step" /\ n \in Nat
      BY <1>1, <1>4
    <2>5. LogSound(r, v) /\ Asked(r, log, v, n)
      BY <2>1, <2>2, <2>4, AsksEvent
    <2>6. QED BY <2>1, <2>3, <2>5 DEF Asked
  <1>6. Runs(log, <<e>>, v, r)
    <2> HIDE DEF v, e
    <2>1. QED BY <1>4, <1>5, RunOne
  <1> HIDE DEF e, r
  <1>7. Runs(disk', buffer', v, log') /\ log' = r
    <2> HIDE DEF v
    <2>1. r = Fold(log, <<e>>)
      BY <1>6 DEF Runs
    <2>2. QED BY <1>1, <1>4, <1>6, <2>1, Written
  <1>8. RecordsOK'
    BY <1>1, <1>7 DEF LogInv, RecordsOK
  <1>9. PlaceOK'
    <2>1. Len(<<>>) = 0 /\ 1..0 = {}
      OBVIOUS
    <2>2. QED BY <1>1, <1>2, <1>5, <1>7, <2>1 DEF PlaceOK, OpenOf, InStep
  <1>10. BatchOK'
    BY <1>1, <1>5, <1>7 DEF LogInv, BatchOK
  <1>11. OwedOK'
    <2>1. Pending(log') = Pending(log)
      BY <1>5, <1>7 DEF Pending
    <2>2. QED BY <1>1, <2>1 DEF LogInv, OwedOK, InTurn, Place
  <1>12. QED BY <1>1, <1>8, <1>9, <1>10, <1>11 DEF Keeps, LogInv

\* The scheduler's counters are numbers, and the log's are theirs.
LEMMA AtTools ==
  ASSUME BaseInv, LogInv, at = "tools"
  PROVE  /\ log.open = "step" /\ life \in {"live", "closing"} /\ batch = <<>> /\ LogSound(log, Outside)
         /\ asked \in Nat /\ started \in Nat /\ committed \in Nat /\ committed <= started /\ started <= asked
         /\ \A i \in 1..asked : i \in Call
         /\ sched # "threw" => /\ log.ask = asks /\ log.asked = asked
                               /\ Len(log.results) = committed /\ log.called = 1..started
  <1>1. log.open = "step" /\ life \in {"live", "closing"} /\ batch = <<>> /\ LogSound(log, Outside)
    BY AtWork, RecordsSound DEF LogInv, PlaceOK, BatchOK, OpenOf, InStep
  <1>2. asked \in 0..MaxCalls /\ started \in 0..MaxCalls /\ committed \in 0..MaxCalls
        /\ committed <= started /\ started <= asked
    BY DEF BaseInv, ToolInv, ToolTypeOK, CountsOK
  <1>3. \A i \in 1..asked : i \in Call
    BY <1>2, ToolAssumption DEF Call
  <1>4. sched # "threw" => /\ log.ask = asks /\ log.asked = asked
                           /\ Len(log.results) = committed /\ log.called = 1..started
    BY DEF LogInv, PlaceOK
  <1>5. QED BY <1>1, <1>2, <1>3, <1>4, ToolAssumption

\* What the scheduler writes keeps the log with it.
LEMMA ToolsWriteKeeps ==
  ASSUME BaseInv, LogInv, at = "tools", NEW events, NEW r, Runs(log, events, Outside, r), DuringTools(events),
         ran' = ran, r.open = "step", r.fate = log.fate, Pending(log) \subseteq Pending(r),
         sched' # "threw" => /\ r.ask = asks /\ r.asked = asked'
                             /\ Len(r.results) = committed' /\ r.called = 1..started'
  PROVE  Keeps
  <1>1. /\ Write(events) /\ UNCHANGED <<life, at, abort, wake, turnEnds, batch, result, dropped, shown, owed, asks>>
    BY DEF DuringTools, driver, history, bounds
  <1>2. WorldStays
    BY <1>1 DEF WorldStays
  <1>3. log.open = "step" /\ life \in {"live", "closing"} /\ batch = <<>>
    BY AtTools
  <1>4. Runs(disk', buffer', Outside, log') /\ log' = r
    <2>1. r = Fold(log, events)
      BY DEF Runs
    <2>2. QED BY <1>1, <2>1, Written DEF LogInv, RecordsOK
  <1>5. RecordsOK'
    <2>1. Runs(disk', buffer', Outside', log')
      BY <1>2, <1>4, SameWorld
    <2>2. QED BY <1>1, <1>3, <2>1 DEF LogInv, RecordsOK
  <1>6. PlaceOK'
    BY <1>1, <1>4 DEF PlaceOK, OpenOf, InStep
  <1>7. BatchOK'
    BY <1>1, <1>4 DEF LogInv, BatchOK
  <1>8. OwedOK'
    BY <1>1, <1>4 DEF LogInv, OwedOK
  <1>9. Calm
    BY <1>3, <1>4 DEF Calm
  <1>10. QED BY <1>5, <1>6, <1>7, <1>8, <1>9 DEF Keeps, LogInv

LEMMA SilentKeeps ==
  ASSUME BaseInv, LogInv, at = "tools", DuringTools(<<>>), ran' = ran,
         sched' # "threw" => sched # "threw" /\ UNCHANGED <<asked, started, committed>>
  PROVE  Keeps
  <1>1. Runs(log, <<>>, Outside, log)
    BY NothingWritten
  <1>2. QED BY <1>1, AtTools, ToolsWriteKeeps

LEMMA SkipRestWrites ==
  ASSUME BaseInv, LogInv, at = "tools", sched \in {"classify", "commit"}, committed = started, SkipRest,
         DuringTools(SkippedPairs)
  PROVE  Keeps
  <1> DEFINE w == Outside
             d == asked - started
             s == SkippedPairs
             r == Fold(log, s)
  <1>1. d \in Nat /\ asked = started + d /\ started \in Nat
    BY AtTools
  <1>2. Pairs(s, started, d)
    <2>1. s = [k \in 1..2 * d |->
                 LET i == started + (k + 1) \div 2
                 IN IF k % 2 = 1 THEN ToolCall(i) ELSE ToolResult(i, "neverRan")]
      BY DEF SkippedPairs
    <2> HIDE DEF s, d
    <2>2. QED BY <1>1, <2>1, SkippedArePairs
  <1>3. \A i \in started + 1..started + d : i \notin w.ran
    <2>1. \A i \in started + 1..started + d : i \in Call /\ i > started
      BY <1>1, AtTools
    <2>2. \A i \in Call : i > started => i \notin ran
      BY DEF BaseInv, ToolInv, StagesOK, BodiesOK
    <2>3. w.ran = ran
      BY DEF Outside
    <2> HIDE DEF w, d
    <2>4. QED BY <2>1, <2>2, <2>3
  <1>4. LogSound(log, w) /\ UpToCall(log, log, started) /\ log.asked = started + d /\ log.ask = asks
    <2>1. SameInbox(log, log)
      BY DEF SameInbox
    <2>2. QED BY <1>1, <2>1, AtTools DEF UpToCall
  <1> HIDE DEF w, s
  <1>5. Runs(log, s, w, r) /\ UpToCall(log, r, asked)
    <2>1. r = Fold(log, s)
      OBVIOUS
    <2> HIDE DEF r, d
    <2>2. Runs(log, s, w, r) /\ UpToCall(log, r, started + d)
      BY <1>1, <1>2, <1>3, <1>4, <2>1, PairsRun
    <2>3. QED BY <1>1, <2>2
  <1> HIDE DEF r, d
  <1>6. started' = asked /\ committed' = asked /\ asked' = asked /\ ran' = ran
    BY DEF SkipRest
  <1>7. /\ r.open = "step" /\ r.fate = log.fate /\ Pending(log) = Pending(r)
        /\ r.ask = asks /\ r.asked = asked' /\ Len(r.results) = committed' /\ r.called = 1..started'
    BY <1>1, <1>4, <1>5, <1>6 DEF UpToCall, SameInbox, Pending
  <1>8. Runs(log, s, Outside, r) /\ DuringTools(s)
    BY <1>5 DEF w, s
  <1>9. QED BY <1>6, <1>7, <1>8, ToolsWriteKeeps

\* A record of the next call.
Recorded(r, l, i) == /\ SameInbox(r, l) /\ r.open = l.open /\ r.ask = l.ask /\ r.asked = l.asked
                     /\ r.results = l.results /\ r.called = l.called \cup {i}
LEMMA RecordRuns ==
  ASSUME NEW l, NEW w, LogSound(l, w), NEW i \in 1..l.asked, NEW s, s = <<ToolCall(i)>>, NEW r, r = Fold(l, s)
  PROVE  Runs(l, s, w, r) /\ Recorded(r, l, i)
  <1> DEFINE p == Apply(l, ToolCall(i))
  <1>1. l \in LogType
    BY DEF LogSound
  <1>2. LogSound(p, w) /\ p = [l EXCEPT !.called = @ \cup {i}]
    BY CallEvent
  <1>3. Recorded(p, l, i)
    BY <1>1, <1>2 DEF Recorded, SameInbox, LogType
  <1>4. i \in Nat
    BY <1>1 DEF LogType
  <1>5. ToolCall(i) \in Event
    BY <1>4, EventTypes
  <1>6. p = Apply(l, ToolCall(i))
    OBVIOUS
  <1> HIDE DEF p
  <1>7. Runs(l, <<ToolCall(i)>>, w, p)
    BY <1>2, <1>5, <1>6, RunOne
  <1>8. QED BY <1>3, <1>7 DEF Runs

LEMMA RecordOfCallKeeps ==
  ASSUME BaseInv, LogInv, at = "tools", sched \in {"classify", "commit"}, started < asked, Start(started + 1),
         DuringTools(RecordOfCall)
  PROVE  Keeps
  <1> DEFINE s == RecordOfCall
             r == Fold(log, s)
             i == started + 1
  <1>1. LogSound(log, Outside) /\ i \in 1..log.asked /\ s = <<ToolCall(i)>> /\ log.open = "step"
    BY AtTools DEF RecordOfCall
  <1>2. Runs(log, s, Outside, r) /\ Recorded(r, log, i)
    <2>1. r = Fold(log, s)
      OBVIOUS
    <2> HIDE DEF r, s, i
    <2>2. QED BY <1>1, <2>1, RecordRuns
  <1>3. started' = i /\ committed' = committed /\ asked' = asked /\ ran' = ran /\ sched' = "prepare"
    BY DEF Start
  <1>4. /\ log.ask = asks /\ log.asked = asked /\ Len(log.results) = committed /\ log.called = 1..started
        /\ started \in Nat
    BY AtTools
  <1>5. (1..started) \cup {i} = 1..i
    BY <1>4
  <1> HIDE DEF r
  <1>6. /\ r.open = "step" /\ r.fate = log.fate /\ Pending(log) = Pending(r)
        /\ r.ask = asks /\ r.asked = asked' /\ Len(r.results) = committed' /\ r.called = 1..started'
    BY <1>1, <1>2, <1>3, <1>4, <1>5 DEF Recorded, SameInbox, Pending
  <1>7. QED BY <1>2, <1>3, <1>6, ToolsWriteKeeps

LEMMA GroupOpensKeeps ==
  ASSUME BaseInv, LogInv, at = "tools", NEW kind \in Mode, GroupOpens(kind) PROVE Keeps
  <1>1. sched = "classify" /\ committed = started /\ started < asked
    BY DEF GroupOpens, NextGroup, BaseInv, ToolInv, CountsOK
  <1>2. CASE Aborted
    BY <1>1, <1>2, SkipRestWrites DEF GroupOpens, NextGroup
  <1>3. CASE ~Aborted
    BY <1>1, <1>3, RecordOfCallKeeps DEF GroupOpens, NextGroup
  <1>4. QED BY <1>2, <1>3

LEMMA CallStartsKeeps ==
  ASSUME BaseInv, LogInv, at = "tools", NEW kind \in Mode, CallStarts(kind) PROVE Keeps
  BY RecordOfCallKeeps DEF CallStarts, StartNext, MayStart

LEMMA GroupClosesKeeps ==
  ASSUME BaseInv, LogInv, at = "tools", NEW kind \in Mode, GroupCloses(kind) PROVE Keeps
  <1>1. inFlight = {} /\ committed = started /\ sched = "commit"
    BY ToolAssumption DEF GroupCloses, GroupEnds, Drained, NothingToCommit, ResultReady, NextResult, BaseInv, ToolInv,
       ToolTypeOK, CountsOK, StagesOK, PoolOK, Running, Call, Stage
  <1>2. CASE Aborted
    BY <1>1, <1>2, SkipRestWrites DEF GroupCloses, GroupEnds
  <1>3. CASE ~Aborted
    BY <1>1, <1>3, SilentKeeps DEF GroupCloses, GroupEnds
  <1>4. QED BY <1>2, <1>3

LEMMA SilentStepsKeep ==
  ASSUME BaseInv, LogInv, at = "tools",
         \/ CallPrepared \/ ToolsFail \/ ToolsDrained
         \/ \E kind \in Mode, i \in Call : PoolMoves(i, kind)
         \/ \E i \in Call : BodySettles(i)
  PROVE  Keeps
  <1>1. DuringTools(<<>>) /\ ran' = ran /\ (sched' # "threw" => sched # "threw" /\ UNCHANGED <<asked, started, committed>>)
    <2>1. CASE CallPrepared
      BY <2>1 DEF CallPrepared, PrepareDispatches, PrepareSettles, PrepareFails
    <2>2. CASE ToolsFail
      BY <2>2 DEF ToolsFail, CommitFails
    <2>3. CASE ToolsDrained
      BY <2>3 DEF ToolsDrained, DrainDone
    <2>4. CASE \E kind \in Mode, i \in Call : PoolMoves(i, kind)
      BY <2>4 DEF PoolMoves, Race
    <2>5. CASE \E i \in Call : BodySettles(i)
      BY <2>5 DEF BodySettles, BodyEnds, NoBody, Settle
    <2>6. QED BY <2>1, <2>2, <2>3, <2>4, <2>5
  <1>2. QED BY <1>1, SilentKeeps

\* The next answer.
Answered(r, l) == /\ SameInbox(r, l) /\ r.open = l.open /\ r.ask = l.ask /\ r.asked = l.asked
                  /\ Len(r.results) = Len(l.results) + 1 /\ r.called = l.called
LEMMA AnswerRuns ==
  ASSUME NEW l, NEW w, LogSound(l, w), l.open = "step", Len(l.results) < l.asked, NEW i, i = Len(l.results) + 1,
         NEW answer \in Answer, l.ask = w.asks => TrueAnswer(i, answer, w),
         NEW s, s = <<ToolResult(i, answer)>>, NEW r, r = Fold(l, s)
  PROVE  Runs(l, s, w, r) /\ Answered(r, l)
  <1> DEFINE p == Apply(l, ToolResult(i, answer))
  <1>1. l \in LogType /\ i \in Nat
    BY DEF LogSound, LogType
  <1>2. /\ LogSound(p, w) /\ Len(p.results) = i
        /\ p.open = l.open /\ p.asked = l.asked /\ p.called = l.called /\ p.ask = l.ask
        /\ p.fate = l.fate /\ p.nextTurn = l.nextTurn /\ p.nextStep = l.nextStep
    BY ResultEvent
  <1>3. ToolResult(i, answer) \in Event
    BY <1>1, EventTypes
  <1>4. p = Apply(l, ToolResult(i, answer))
    OBVIOUS
  <1> HIDE DEF p
  <1>5. Runs(l, <<ToolResult(i, answer)>>, w, p)
    BY <1>2, <1>3, <1>4, RunOne
  <1>6. QED BY <1>2, <1>5 DEF Runs, Answered, SameInbox

LEMMA CommittedRuns ==
  ASSUME BaseInv, LogInv, at = "tools", NEW v \in Verdict, NEW ends, NEW aborted, CommitAs(v, ends, aborted),
         NEW s, s = ResultOf(v), NEW r, r = Fold(log, s)
  PROVE  Runs(log, s, Outside, r) /\ Answered(r, log)
  <1> DEFINE i == committed + 1
             answer == Says(v)
             w == Outside
  <1>1. /\ sched = "commit" /\ committed < started /\ call[i] = "settled" /\ i = NextResult
        /\ v = verdict[i] \/ (v = "aborted" /\ verdict[i] = "done")
    BY DEF CommitAs, ResultReady, NextResult
  <1>2. /\ LogSound(log, w) /\ log.open = "step" /\ Len(log.results) = committed /\ committed < log.asked
        /\ i \in Call /\ committed \in Nat
    BY <1>1, AtTools
  <1>3. answer \in Answer
    BY DEF Says, Answer
  <1>4. TrueAnswer(i, answer, w)
    <2>1. verdict[i] \in Ran => i \in ran
      BY <1>2 DEF BaseInv, ToolInv, BodiesOK
    <2>2. verdict[i] = "neverRan" => i \notin ran
      BY <1>2 DEF BaseInv, ToolInv, BodiesOK
    <2>3. w.ran = ran
      BY DEF Outside
    <2>4. CASE v \in Ran
      <3>1. verdict[i] \in Ran
        BY <1>1, <2>4 DEF Ran
      <3>2. answer = "ran"
        BY <2>4 DEF Says
      <3> HIDE DEF w, answer, i
      <3>3. QED BY <2>1, <2>3, <3>1, <3>2 DEF TrueAnswer
    <2>5. CASE v \notin Ran
      <3>1. v = "neverRan" /\ verdict[i] = "neverRan"
        BY <1>1, <2>5 DEF Ran, Verdict
      <3>2. answer = "neverRan"
        BY <2>5 DEF Says
      <3> HIDE DEF w, answer, i
      <3>3. QED BY <2>2, <2>3, <3>1, <3>2 DEF TrueAnswer
    <2>6. QED BY <2>4, <2>5
  <1>5. s = <<ToolResult(i, answer)>> /\ i = Len(log.results) + 1
    BY <1>1, <1>2 DEF ResultOf
  <1> HIDE DEF w, answer, i
  <1>6. Runs(log, s, w, r) /\ Answered(r, log)
    BY <1>2, <1>3, <1>4, <1>5, AnswerRuns
  <1>7. QED BY <1>6 DEF w

\* The answer is written, and perhaps more that touches no call.
LEMMA CommittedKeeps ==
  ASSUME BaseInv, LogInv, at = "tools", NEW v \in Verdict, NEW ends, NEW aborted, CommitAs(v, ends, aborted),
         UNCHANGED <<asked, started, ran>>, NEW q, Runs(log, ResultOf(v), Outside, q), Answered(q, log),
         NEW events, NEW r, Runs(log, events, Outside, r), DuringTools(events), SameCalls(r, q), r.fate = q.fate,
         Pending(q) \subseteq Pending(r)
  PROVE  Keeps
  <1>1. committed' = committed + 1 /\ sched = "commit"
    BY DEF CommitAs, NextResult
  <1>2. /\ log.open = "step" /\ log.ask = asks /\ log.asked = asked /\ Len(log.results) = committed
        /\ log.called = 1..started
    BY <1>1, AtTools
  <1>3. /\ r.open = "step" /\ r.fate = log.fate /\ Pending(log) \subseteq Pending(r)
        /\ r.ask = asks /\ r.asked = asked' /\ Len(r.results) = committed' /\ r.called = 1..started'
    BY <1>1, <1>2 DEF Answered, SameInbox, SameCalls, Pending
  <1>4. QED BY <1>3, ToolsWriteKeeps

LEMMA PlainResultKeeps ==
  ASSUME BaseInv, LogInv, at = "tools", NEW v \in Verdict, NEW ends, NEW aborted, CommitAs(v, ends, aborted),
         UNCHANGED <<asked, started, ran>>, DuringTools(ResultOf(v))
  PROVE  Keeps
  <1> DEFINE s == ResultOf(v)
             q == Fold(log, s)
  <1>1. Runs(log, s, Outside, q) /\ Answered(q, log)
    <2>1. q = Fold(log, s) /\ s = ResultOf(v)
      OBVIOUS
    <2> HIDE DEF q, s
    <2>2. QED BY <2>1, CommittedRuns
  <1>2. SameCalls(q, q)
    BY DEF SameCalls
  <1> HIDE DEF q
  <1>3. QED BY <1>1, <1>2, CommittedKeeps

LEMMA ResultsKeep ==
  ASSUME BaseInv, LogInv, at = "tools", NEW v \in Verdict,
         ResultBringsTrouble(v) \/ \E ends \in BOOLEAN : ResultCommitted(v, ends)
  PROVE  Keeps
  <1>1. CASE ResultBringsTrouble(v)
    BY <1>1, PlainResultKeeps DEF ResultBringsTrouble, ContextFails
  <1>2. CASE \E ends \in BOOLEAN : ResultCommitted(v, ends)
    BY <1>2, PlainResultKeeps DEF ResultCommitted, Commit
  <1>3. QED BY <1>1, <1>2

LEMMA ContextKeeps ==
  ASSUME BaseInv, LogInv, at = "tools", NEW v \in Verdict, NEW m \in Msgs, ResultBringsContext(v, m)
  PROVE  Keeps
  <1> DEFINE s == ResultOf(v)
             q == Fold(log, s)
             t == ContextOf(m)
             r == Fold(q, t)
  <1>1. /\ m \in Msgs \ Known(log) /\ CommitAs(v, FALSE, Aborted) /\ UNCHANGED <<asked, started, ran>>
        /\ DuringTools(s \o t)
    BY FreshIsUnsent DEF ResultBringsContext, Commit
  <1>2. Runs(log, s, Outside, q) /\ Answered(q, log)
    <2>1. q = Fold(log, s) /\ s = ResultOf(v)
      OBVIOUS
    <2> HIDE DEF q, s
    <2>2. QED BY <1>1, <2>1, CommittedRuns
  <1> HIDE DEF s, q
  <1>3. m \in Msgs \ Known(q)
    BY <1>1, <1>2 DEF Answered, SameInbox, Known, Pending
  <1>4. LogSound(q, Outside)
    BY <1>2, RunEnds
  <1>5. Runs(q, t, Outside, r) /\ SameCalls(r, q) /\ r.fate = q.fate /\ Pending(r) = Pending(q) \cup {m}
    <2> DEFINE target == "nextStep"
    <2>1. target \in Target /\ ListOf(q, target) = q.nextStep
      BY DEF Target, ListOf
    <2>2. q.nextStep = log.nextStep
      BY <1>2 DEF Answered, SameInbox
    <2>3. t = <<Splice(target, Len(q.nextStep), 0, <<m>>, "none")>>
      BY <2>2 DEF ContextOf
    <2> HIDE DEF target, t, r
    <2>4. t = <<Splice(target, Len(ListOf(q, target)), 0, <<m>>, "none")>>
      BY <2>1, <2>3
    <2>5. r = Fold(q, t)
      BY DEF r
    <2>6. QED BY <1>3, <1>4, <2>1, <2>4, <2>5, InsertRuns
  <1> HIDE DEF t, r
  <1>6. Runs(log, s \o t, Outside, r)
    BY <1>2, <1>5, RunThen
  <1>7. Runs(log, ResultOf(v), Outside, q) /\ Pending(q) \subseteq Pending(r)
    BY <1>2, <1>5 DEF s
  <1>8. QED BY <1>1, <1>2, <1>5, <1>6, <1>7, CommittedKeeps

LEMMA BodyStartsKeeps ==
  ASSUME BaseInv, LogInv, at = "tools", NEW i \in Call, BodyStarts(i) PROVE Keeps
  <1> DEFINE v == Outside'
  <1>1. /\ Flush /\ UNCHANGED <<life, at, abort, wake, turnEnds, batch, result, dropped, shown, owed, asks>>
        /\ call[i] = "checkpoint" /\ ran' = ran \cup {i} /\ UNCHANGED <<asked, sched, started, committed>>
    BY DEF BodyStarts, EnterBody, driver, history, bounds
  <1>2. i <= started /\ i > committed /\ sched # "threw" /\ i \in Nat
    <2>1. started \in Nat /\ committed \in Nat /\ i \in Nat /\ call[i] = "checkpoint"
      BY <1>1, AtTools, ToolAssumption DEF Call
    <2>2. i <= started /\ ~(i <= committed) /\ started # 0
      BY <2>1, ToolAssumption DEF BaseInv, ToolInv, StagesOK, Call
    <2>3. sched # "threw"
      BY <2>2 DEF BaseInv, ToolInv, BodiesOK
    <2>4. QED BY <2>1, <2>2, <2>3
  <1>3. LogSound(log, v)
    <2>1. v.dropped = Outside.dropped /\ v.asks = Outside.asks /\ v.shown = Outside.shown /\ v.ran = Outside.ran \cup {i}
          /\ Outside.asks = asks
      BY <1>1 DEF Outside
    <2>2. log.ask = Outside.asks /\ i \in log.called /\ i > Len(log.results) /\ LogSound(log, Outside)
      BY <1>2, <2>1, AtTools
    <2> HIDE DEF v
    <2>3. QED BY <2>1, <2>2, MoreRan
  <1>4. Runs(disk', buffer', v, log') /\ log' = log
    <2> HIDE DEF v
    <2>1. QED BY <1>1, <1>3, Flushed
  <1>5. RecordsOK'
    BY <1>1, <1>4, AtTools DEF LogInv, RecordsOK
  <1>6. PlaceOK'
    BY <1>1, <1>4 DEF LogInv, PlaceOK, OpenOf, InStep
  <1>7. BatchOK'
    BY <1>1, <1>4 DEF LogInv, BatchOK
  <1>8. OwedOK'
    BY <1>1, <1>4 DEF LogInv, OwedOK
  <1>9. Calm
    BY <1>4 DEF Calm
  <1>10. QED BY <1>5, <1>6, <1>7, <1>8, <1>9 DEF Keeps, LogInv

LEMMA ToolsStepKeeps ==
  ASSUME BaseInv, LogInv, at = "tools", ToolsStep PROVE Keeps
  BY GroupOpensKeeps, CallStartsKeeps, GroupClosesKeeps, SilentStepsKeep, ResultsKeep, ContextKeeps,
     BodyStartsKeeps, Zenon DEF ToolsStep

LEMMA CloseSessionKeeps ==
  ASSUME BaseInv, LogInv, CloseSession PROVE Keeps
  <1>1. /\ life = "closing" /\ life' = "closed" /\ at = "idle" /\ at' = "idle" /\ abort = "none" /\ WorldStays
        /\ log' \in {log, disk} /\ disk' = log' /\ buffer' = <<>> /\ owed' = {} /\ batch' = batch
    BY DEF CloseSession, Flush, DrainFails, driver, WorldStays, toolVars, bounds, BaseInv, DriverInv
  <1>2. Runs(disk', buffer', Outside', log')
    BY <1>1, RecordsSound, RunNone, SameWorld DEF LogInv
  <1>3. RecordsOK'
    BY <1>1, <1>2 DEF LogInv, RecordsOK, WorldStays
  <1>4. PlaceOK'
    BY <1>1 DEF PlaceOK, InStep
  <1>5. BatchOK'
    <2>1. batch = <<>>
      BY <1>1 DEF LogInv, BatchOK
    <2>2. QED BY <1>1, <2>1, EmptyBatch DEF BatchOK
  <1>6. OwedOK'
    BY <1>1 DEF OwedOK
  <1>7. QED BY <1>1, <1>3, <1>4, <1>5, <1>6 DEF Keeps, LogInv

\* The process stops with some prefix of what was buffered on its disk.
LEMMA CrashKeeps ==
  ASSUME BaseInv, LogInv, NEW k \in 0..Len(buffer), Crash(k) PROVE Keeps
  <1>1. /\ life' = "down" /\ at' = "idle" /\ abort' = "none" /\ batch' = <<>> /\ owed' = {} /\ WorldStays
        /\ log' = After(disk, buffer)[k] /\ disk' = log' /\ buffer' = <<>>
    BY DEF Crash, Forget, ToolCrash, WorldStays
  <1>2. LogSound(log', Outside)
    BY <1>1 DEF LogInv, RecordsOK, Runs, Sound
  <1>3. Runs(disk', buffer', Outside', log')
    BY <1>1, <1>2, RunNone, SameWorld
  <1>4. RecordsOK'
    BY <1>1, <1>3 DEF LogInv, RecordsOK, WorldStays
  <1>5. PlaceOK'
    BY <1>1 DEF PlaceOK, InStep
  <1>6. BatchOK'
    BY <1>1, EmptyBatch DEF BatchOK
  <1>7. OwedOK'
    BY <1>1 DEF OwedOK
  <1>8. QED BY <1>1, <1>4, <1>5, <1>6, <1>7 DEF Keeps, LogInv

\* A log that is resumed is closed first.
LEMMA ResumeKeeps ==
  ASSUME BaseInv, LogInv, Resume PROVE Keeps
  <1> DEFINE w == Outside
             s == Closers(disk)
             r == Fold(disk, s)
  <1>1. /\ life \in {"closed", "down"} /\ life' = "live" /\ at = "idle" /\ at' = "maintenance" /\ abort = "none"
        /\ log' = r /\ disk' = log' /\ buffer' = buffer /\ owed' = owed /\ batch' = batch /\ WorldStays
    BY DEF Resume, WorldStays, toolVars, bounds, history, BaseInv, DriverInv
  <1>2. LogSound(disk, w)
    BY RecordsSound DEF LogInv
  <1>3. Runs(disk, s, w, r) /\ r.open = "none"
    <2>1. s = Closers(disk) /\ r = Fold(disk, s)
      OBVIOUS
    <2> HIDE DEF s, r, w
    <2>2. QED BY <1>2, <2>1, ClosersRun
  <1> HIDE DEF r, s
  <1>4. LogSound(r, w) /\ buffer = <<>> /\ owed = {} /\ batch = <<>>
    BY <1>1, <1>3, RunEnds DEF LogInv, RecordsOK, OwedOK, BatchOK
  <1>5. Runs(disk', buffer', Outside', log')
    BY <1>1, <1>4, RunNone, SameWorld DEF w
  <1>6. RecordsOK'
    BY <1>1, <1>5 DEF LogInv, RecordsOK, WorldStays
  <1>7. PlaceOK'
    BY <1>1, <1>3 DEF PlaceOK, OpenOf, InStep, InTurn, Place
  <1>8. BatchOK'
    <2>1. \A m \in Msgs : r.fate[m] # "claimed"
      BY <1>3, <1>4 DEF LogSound, InboxSound
    <2>2. QED BY <1>1, <1>4, <2>1, EmptyBatch DEF BatchOK
  <1>9. OwedOK'
    BY <1>1, <1>4 DEF OwedOK
  <1>10. QED BY <1>1, <1>6, <1>7, <1>8, <1>9 DEF Keeps, LogInv

LEMMA ResumeTornKeeps ==
  ASSUME BaseInv, LogInv, NEW k \in 1..Len(Closers(disk)), ResumeTorn(k) PROVE Keeps
  <1> DEFINE w == Outside
             s == Closers(disk)
             r == Fold(disk, s)
  <1>1. /\ life = "down" /\ life' = "down" /\ at = "idle" /\ at' = "idle" /\ abort = "none"
        /\ log' = After(disk, s)[k] /\ disk' = log' /\ buffer' = buffer /\ owed' = owed /\ batch' = batch /\ WorldStays
        /\ k \in 0..Len(s)
    BY DEF ResumeTorn, WorldStays, toolVars, bounds, history, driver, BaseInv, DriverInv
  <1>2. LogSound(disk, w)
    BY RecordsSound DEF LogInv
  <1>3. Runs(disk, s, w, r)
    <2>1. s = Closers(disk) /\ r = Fold(disk, s)
      OBVIOUS
    <2> HIDE DEF s, r, w
    <2>2. QED BY <1>2, <2>1, ClosersRun
  <1> HIDE DEF r, s
  <1>4. LogSound(log', w) /\ buffer = <<>> /\ owed = {} /\ batch = <<>>
    BY <1>1, <1>3 DEF Runs, Sound, LogInv, RecordsOK, OwedOK, BatchOK
  <1>5. Runs(disk', buffer', Outside', log')
    BY <1>1, <1>4, RunNone, SameWorld DEF w
  <1>6. RecordsOK'
    BY <1>1, <1>5 DEF LogInv, RecordsOK, WorldStays
  <1>7. PlaceOK'
    BY <1>1 DEF PlaceOK, InStep
  <1>8. BatchOK'
    BY <1>1, <1>4, EmptyBatch DEF BatchOK
  <1>9. OwedOK'
    BY <1>1, <1>4 DEF OwedOK
  <1>10. QED BY <1>1, <1>6, <1>7, <1>8, <1>9 DEF Keeps, LogInv

LEMMA OthersKeep ==
  ASSUME BaseInv, LogInv, Others PROVE Keeps
  <1>1. CASE \E m \in Msgs : Followup(m) \/ Steer(m) \/ Inject(m)
    <2>1. PICK m \in Msgs, target \in Target, waking \in BOOLEAN : Send(m, target, waking)
      BY <1>1, Zenon DEF Followup, Steer, Inject, Target
    <2>2. QED BY <2>1, SendKeeps
  <1>2. CASE (\E keepInbox \in BOOLEAN : Cancel(keepInbox)) \/ Dispose
    <2>1. PICK keepInbox \in BOOLEAN, cause \in {"user", "disposed"} :
            CancelWith(cause, keepInbox) /\ life = "live" /\ life' \in {"live", "closing"}
      BY <1>2 DEF Cancel, Dispose
    <2>2. QED BY <2>1, CancelWithKeeps
  <1>3. QED BY <1>1, <1>2, TakeBackKeeps, StartMaintenanceKeeps, ResumeKeeps, CrashKeeps, ResumeTornKeeps, Zenon DEF Others

LEMMA WorkKeeps ==
  ASSUME BaseInv, LogInv, Work PROVE Keeps
  BY EndMaintenanceKeeps, UnwindKeeps, StartTurnKeeps, HookFailureKeeps, PreStepRejectsKeeps, PreStepEntersKeeps,
     StepFailsKeeps, RequestReadyKeeps, StreamOpensKeeps, StreamMovesKeeps, StreamAsksKeeps, ToolsStepKeeps,
     StepThrowsKeeps, StepCancelledKeeps, StepClosesKeeps, TurnStopsKeeps, TurnContinuesKeeps, CloseSessionKeeps,
     Zenon DEF Work

LEMMA LoopInitOK == LoopInit => LogInv
  <1> SUFFICES ASSUME LoopInit PROVE LogInv
    OBVIOUS
  <1>1. /\ life = "live" /\ at = "maintenance" /\ abort = "none" /\ wake = FALSE /\ batch = <<>>
        /\ log = EmptyLog /\ disk = EmptyLog /\ buffer = <<>> /\ dropped = {} /\ shown = {} /\ owed = {}
        /\ asks = 0 /\ ran = {}
    BY DEF LoopInit, ToolInit
  <1>2. LogSound(EmptyLog, Outside)
    <2>1. EmptyLog \in LogType
      BY DEF EmptyLog, LogType, Fate
    <2>2. InboxSound(EmptyLog) /\ CallsSound(EmptyLog)
      BY EmptyBatch DEF EmptyLog, InboxSound, CallsSound, Pending
    <2>3. TrueOf(EmptyLog, Outside)
      BY <1>1, EmptyBatch DEF EmptyLog, TrueOf, Outside
    <2>4. QED BY <2>1, <2>2, <2>3 DEF LogSound
  <1>3. RecordsOK
    BY <1>1, <1>2, RunNone DEF RecordsOK
  <1>4. PlaceOK
    BY <1>1 DEF PlaceOK, OpenOf, InStep, InTurn, Place, EmptyLog
  <1>5. BatchOK
    BY <1>1, EmptyBatch DEF BatchOK, EmptyLog
  <1>6. OwedOK
    BY <1>1 DEF OwedOK
  <1>7. QED BY <1>3, <1>4, <1>5, <1>6 DEF LogInv

LEMMA StepsKeep == BaseInv /\ LogInv /\ [LoopNext]_loopVars => Keeps
  <1> SUFFICES ASSUME BaseInv, LogInv, [LoopNext]_loopVars PROVE Keeps
    OBVIOUS
  <1>1. CASE UNCHANGED loopVars
    <2>1. /\ UNCHANGED <<log, disk, buffer, life, at, abort, wake, turnEnds, batch, result, dropped, shown, owed, asks>>
          /\ UNCHANGED <<sched, asked, started, committed, ran>>
      BY <1>1 DEF loopVars, toolVars, driver, records, history, bounds
    <2>2. WorldStays
      BY <2>1 DEF WorldStays
    <2>3. RecordsOK'
      BY <2>1, <2>2, SameWorld DEF LogInv, RecordsOK
    <2>4. PlaceOK' /\ BatchOK' /\ OwedOK' /\ Calm
      BY <2>1 DEF LogInv, PlaceOK, BatchOK, OwedOK, Calm
    <2>5. QED BY <2>3, <2>4 DEF LogInv, Keeps
  <1>2. QED BY <1>1, OthersKeep, WorkKeeps DEF LoopNext

LEMMA BaseInvHolds == LoopSpec => []BaseInv
  BY LoopImplementsTools, ToolInvariant, DriverInvHolds, LoopTypesInvHolds, PTL DEF BaseInv

\* The log's inductive invariant, for every number of messages, calls, asks and stops.
THEOREM LogInvariant == LoopSpec => []LogInv
  <1>1. LogInv /\ BaseInv /\ [LoopNext]_loopVars => LogInv'
    BY StepsKeep DEF Keeps
  <1>2. QED BY LoopInitOK, <1>1, BaseInvHolds, PTL DEF LoopSpec

-------------------------------------------------------------------------------
(* What follows. *)

\* The log in memory and the one on disk are whole, and the driver is where the log says.
LEMMA LogInvWhole == LogInv => LogIsWhole
  <1> SUFFICES ASSUME LogInv PROVE LogIsWhole
    OBVIOUS
  <1>1. \A l \in {log, disk} : CallsSound(l)
    BY RecordsSound DEF LogInv, LogSound
  <1>2. QED BY <1>1 DEF LogIsWhole, CallsSound, LogInv, PlaceOK, OpenOf

\* In memory and on disk no closed step left a call unanswered or answered it twice, and
\* what the log has open is what the driver is in.
THEOREM LogIsAlwaysWhole == LoopSpec => []LogIsWhole
  BY LogInvariant, LogInvWhole, PTL

\* What the log says of a call is true, also after a crash.
LEMMA LogInvTrue == LogInv => AnswersStayTrue
  <1> SUFFICES ASSUME LogInv PROVE AnswersStayTrue
    OBVIOUS
  <1>1. TrueOf(log, Outside) /\ Outside.asks = asks /\ Outside.ran = ran
    BY RecordsSound, RecordsTypes DEF LogInv, LogSound
  <1>2. QED BY <1>1 DEF TrueOf, AnswersStayTrue

\* No cancel, failure, crash or torn recovery makes the log say of a call what did not
\* happen to it.
THEOREM AnswersAlwaysStayTrue == LoopSpec => []AnswersStayTrue
  BY LogInvariant, LogInvTrue, PTL

\* What took effect outside is durable.
LEMMA LogInvDurable == LogInv => NothingForgotten
  <1> SUFFICES ASSUME LogInv PROVE NothingForgotten
    OBVIOUS
  <1>1. TrueOf(disk, Outside) /\ Outside.asks = asks /\ Outside.ran = ran /\ Outside.shown = shown /\ shown \subseteq Msgs
    BY RecordsSound, RecordsTypes DEF LogInv, RecordsOK, LogSound
  <1>2. QED BY <1>1 DEF TrueOf, NothingForgotten

\* What a tool did or a model was shown is on disk: no crash forgets it.
THEOREM NothingIsForgotten == LoopSpec => []NothingForgotten
  BY LogInvariant, LogInvDurable, PTL

\* Two lists without repetition and without a common member hold as many messages as they are long.
LEMMA DistinctLength ==
  ASSUME NEW S, NEW s \in Seq(S), Distinct(s)
  PROVE  IsFiniteSet(ToSet(s)) /\ Cardinality(ToSet(s)) = Len(s)
  <1> DEFINE D == 1..Len(s)
             f == [i \in D |-> s[i]]
             T == ToSet(s)
  <1>1. IsFiniteSet(D) /\ Cardinality(D) = Len(s)
    <2>1. Len(s) \in Nat
      OBVIOUS
    <2>2. ASSUME NEW n \in Int PROVE IsFiniteSet(1..n) /\ Cardinality(1..n) = IF 1 > n THEN 0 ELSE n - 1 + 1
      <3>1. 1 \in Int
        OBVIOUS
      <3>2. QED BY <3>1, FS_Interval, Zenon
    <2>3. Len(s) \in Int
      BY <2>1
    <2> DEFINE n == Len(s)
    <2> HIDE DEF n
    <2>4. IsFiniteSet(1..n) /\ Cardinality(1..n) = IF 1 > n THEN 0 ELSE n - 1 + 1
      BY <2>2, <2>3 DEF n
    <2>5. n \in Nat
      BY <2>1 DEF n
    <2>6. Cardinality(1..n) = n
      BY <2>4, <2>5
    <2>7. QED BY <2>4, <2>6 DEF n
  <1>2. f \in Bijection(D, T)
    <2>1. T = {s[i] : i \in D} /\ DOMAIN s = D
      BY DEF ToSet
    <2>2. f \in [D -> T]
      BY <2>1
    <2>3. \A i, j \in D : f[i] = f[j] => i = j
      BY <2>1 DEF Distinct
    <2>4. \A t \in T : \E i \in D : f[i] = t
      BY <2>1
    <2> HIDE DEF f, D, T
    <2>5. QED BY <2>2, <2>3, <2>4 DEF Bijection, Injection, Surjection, IsInjective
  <1> HIDE DEF f, D, T
  <1>3. IsFiniteSet(T) /\ Cardinality(T) = Cardinality(D)
    BY <1>1, <1>2, FS_Bijection DEF ExistsBijection
  <1>4. QED BY <1>1, <1>3 DEF T

LEMMA InboxLength ==
  ASSUME NEW l, NEW w, LogSound(l, w)
  PROVE  Len(l.nextTurn) + Len(l.nextStep) = Cardinality(Pending(l))
  <1> DEFINE a == l.nextTurn
             b == l.nextStep
  <1>1. a \in Seq(Msgs) /\ b \in Seq(Msgs) /\ Distinct(a) /\ Distinct(b) /\ ToSet(a) \cap ToSet(b) = {}
    BY DEF LogSound, LogType, InboxSound
  <1>2. Pending(l) = ToSet(a) \cup ToSet(b)
    BY DEF Pending
  <1> HIDE DEF a, b
  <1>3. /\ IsFiniteSet(ToSet(a)) /\ Cardinality(ToSet(a)) = Len(a)
        /\ IsFiniteSet(ToSet(b)) /\ Cardinality(ToSet(b)) = Len(b)
    BY <1>1, DistinctLength
  <1>4. Cardinality(ToSet(a) \cup ToSet(b)) = Cardinality(ToSet(a)) + Cardinality(ToSet(b)) - Cardinality(ToSet(a) \cap ToSet(b))
    BY <1>3, FS_Union
  <1>5. Cardinality(ToSet(a) \cap ToSet(b)) = 0
    BY <1>1, FS_EmptySet
  <1>6. Len(a) \in Nat /\ Len(b) \in Nat
    BY <1>1
  <1>7. Len(a) + Len(b) = Cardinality(ToSet(a) \cup ToSet(b))
    BY <1>3, <1>4, <1>5, <1>6
  <1>8. QED BY <1>2, <1>7 DEF a, b

\* Every message is pending or has its one fate.
LEMMA LogInvMessages == LogInv => EveryMessageAccounted
  <1> SUFFICES ASSUME LogInv PROVE EveryMessageAccounted
    OBVIOUS
  <1>1. LogSound(log, Outside) /\ Outside.dropped = dropped
    BY RecordsSound, RecordsTypes DEF LogInv
  <1>2. Len(log.nextTurn) + Len(log.nextStep) = Cardinality(Pending(log))
    BY <1>1, InboxLength
  <1>3. /\ \A m \in Pending(log) : log.fate[m] = "none"
        /\ \A m \in Msgs : log.fate[m] # "stray"
        /\ \A m \in Msgs : log.fate[m] = "spent" => m \in dropped
        /\ log.open = "none" => \A m \in Msgs : log.fate[m] # "claimed"
    BY <1>1 DEF LogSound, InboxSound, TrueOf
  <1>4. life \in {"live", "closing"} => \A m \in Msgs : log.fate[m] = "claimed" => m \in ToSet(batch) \cup dropped
    BY DEF LogInv, BatchOK
  <1>5. QED BY <1>2, <1>3, <1>4 DEF EveryMessageAccounted

\* No message is lost, and none is queued, claimed or admitted twice.
THEOREM EveryMessageIsAccounted == LoopSpec => []EveryMessageAccounted
  BY LogInvariant, LogInvMessages, PTL

\* No message whose sender woke the agent waits beside an idle one.
LEMMA LogInvWake == LogInv => NoStrandedWake
  BY DEF LogInv, OwedOK, NoStrandedWake, InTurn, Place

\* Whoever woke the agent, and is owed a turn, has a driver at work or about to be.
THEOREM NoWakeIsStranded == LoopSpec => []NoStrandedWake
  BY LogInvariant, LogInvWake, PTL

\* Once an activity is cancelled it admits no message, enters no step, enters no tool
\* body and asks for none.
THEOREM AbortIsAlwaysFinal == LoopSpec => AbortIsFinal
  <1>1. BaseInv /\ LogInv /\ [LoopNext]_loopVars =>
          [abort # "none" /\ abort' = abort => Calm]_loopVars
    BY StepsKeep DEF Keeps
  <1>2. LoopSpec => [][abort # "none" /\ abort' = abort => Calm]_loopVars
    BY <1>1, BaseInvHolds, LogInvariant, PTL DEF LoopSpec
  <1>3. LoopSpec => [][abort # "none" /\ abort' = abort => ran' = ran /\ asks' = asks]_loopVars
    BY AbortAlwaysStopsTools DEF AbortStopsTools
  <1>4. [abort # "none" /\ abort' = abort => Calm]_loopVars
        /\ [abort # "none" /\ abort' = abort => ran' = ran /\ asks' = asks]_loopVars
        => [abort # "none" /\ abort' = abort =>
              /\ ran' = ran /\ asks' = asks
              /\ \A m \in Msgs : log'.fate[m] = "admitted" => log.fate[m] = "admitted"
              /\ log'.open = "step" => log.open = "step"]_loopVars
    BY DEF Calm
  <1>5. QED BY <1>2, <1>3, <1>4, PTL DEF AbortIsFinal
================================================================================
