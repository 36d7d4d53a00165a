------------------------------- MODULE MCDreaming ------------------------------
(* Dreaming for TLC: fairness.                                                  *)
EXTENDS Dreaming

\* The pass is started again and again and goes on, and the model, asked again and
\* again, answers; a record that is written again and again is written.
PassesGoOn == /\ WF_dreamVars(PassStep)
              /\ SF_dreamVars(PassLeaveOut) /\ SF_dreamVars(PassAsk) /\ SF_dreamVars(PassStage)

FairDreamingSpec == DreamingSpec /\ PassesGoOn

\* Whatever the person says is read in the end, or left out by rule: the reading
\* catches up with what was said.
CaughtUp == \A m \in Spoken : Accounted(m)
EverythingIsRead == ~CaughtUp ~> CaughtUp
===============================================================================
