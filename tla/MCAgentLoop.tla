------------------------------ MODULE MCAgentLoop ------------------------------
(* AgentLoop for TLC: the fairness its liveness property needs.                 *)
EXTENDS AgentLoop

\* Every await of the driver, of a tool and of the teardown ends some time: hooks
\* return, streams end, bodies settle, flushes succeed or fail.
\* A cancelled activity ends and a teardown is completed, whatever was running.
Winding == abort # "none" \/ life = "closing"
FairLoopSpec == LoopSpec /\ WF_loopVars(Winding /\ Work)

Converges == Winding ~> ~Winding
===============================================================================
