------------------------------- MODULE MCActions -------------------------------
(* Actions for TLC: the symmetry of its flows and rows, and the specifications *)
(* with fairness that its liveness properties are checked under.               *)
EXTENDS Actions, TLC

Symmetry == Permutations(Flow) \cup Permutations(Id)

\* A flow that is alive goes on, the pages that expire and reconcile are opened
\* again, and time passes. Nothing is assumed of the owner, of the switches, or
\* of a crash, which may end any flow at any step.
Scheduling == /\ \A f \in Flow : WF_vars(FlowStep(f))
              /\ WF_vars(ExpireDue) /\ WF_vars(Reconcile) /\ WF_vars(Tick)

FairSpec == Spec /\ Scheduling
SteadySpec == Init /\ [][Alive]_vars /\ Scheduling  \* and nothing crashes

\* Only proposals, and what takes them off the list again. For the limits it is all one
\* whether a proposal was rejected, or approved and run: it no longer waits, and it counts
\* as one the message led to.
Proposing == \/ \E f \in Flow : \/ ProposeBegin(f) \/ ProposeInsert(f) \/ SettleProposal(f)
                               \/ Approve(f) \/ Crash(f)
             \/ \E a \in Id : Reject(a)
             \/ ExpireDue \/ Tick \/ SetAuto

ProposingSpec == Init /\ [][Proposing]_vars

\* An action that was taken does not stay `executing`, although its process may
\* have died before or after the call (Actions.reconcile). Said of those whose
\* reconcile age is reached before the bounded clock stops.
RunsEnd ==
  \A a \in Id :
    (row[a].status = "executing" /\ row[a].executed + MinReconcileAge <= MaxClock)
      ~> row[a].status # "executing"

\* Nothing waits for ever, neither a proposal nor an approval that nobody ran
\* (Actions.expire). Said of those whose day is over before the clock stops.
OffersEnd ==
  \A a \in Id :
    (row[a].status \in {"pending", "approved"} /\ row[a].expires <= MaxClock)
      ~> row[a].status \notin {"pending", "approved"}

\* What docs/PAUSE_DESIGN.md says of an action approved while paused: it "runs once
\* after resume if its day has not passed".
RunAfterResume ==
  \A a \in Id :
    row[a].status = "approved"
      ~> (row[a].status # "approved" \/ paused \/ clock >= row[a].expires)

===============================================================================
