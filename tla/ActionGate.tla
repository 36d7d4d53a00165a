------------------------------ MODULE ActionGate ------------------------------
(* What the approval gate promises about an action that touches the owner's   *)
(* accounts (docs/ACTIONS_DESIGN.md, D1-D4), with nothing of how: no flows,   *)
(* no clock, no pause switch. An action is proposed, cleared by the owner,    *)
(* started, and performed at most once. One that is closed before it is       *)
(* started is never performed. One whose outcome is in doubt stays in doubt   *)
(* until the owner settles it. The performance itself may come late: after    *)
(* the record already calls it in doubt, or settled.                          *)
EXTENDS Naturals

CONSTANT Id  \* the actions that can ever be recorded

VARIABLES phase,  \* where each action stands
          calls   \* how many times each action was performed

gateVars == <<phase, calls>>

Phases == {"none", "waiting", "cleared", "closed", "started", "doubt", "settled"}

GateTypeOK == phase \in [Id -> Phases] /\ calls \in [Id -> Nat]

GateInit == /\ phase = [a \in Id |-> "none"]
            /\ calls = [a \in Id |-> 0]

Becomes(a, from, to) == /\ phase[a] \in from
                        /\ phase' = [phase EXCEPT ![a] = to]
                        /\ UNCHANGED calls

GatePropose(a) == Becomes(a, {"none"}, "waiting")
GateClear(a) == Becomes(a, {"waiting"}, "cleared")
GateStart(a) == Becomes(a, {"cleared"}, "started")
GateSettle(a) == Becomes(a, {"started", "doubt"}, "settled")

\* Several close together when their day is over, one when it is refused or cannot run.
GateClose(S) == /\ \A a \in S : phase[a] \in {"waiting", "cleared"}
                /\ phase' = [a \in Id |-> IF a \in S THEN "closed" ELSE phase[a]]
                /\ UNCHANGED calls

GateDoubt(S) == /\ \A a \in S : phase[a] = "started"
                /\ phase' = [a \in Id |-> IF a \in S THEN "doubt" ELSE phase[a]]
                /\ UNCHANGED calls

GatePerform(a) == /\ phase[a] \in {"started", "doubt", "settled"}
                  /\ calls[a] = 0
                  /\ calls' = [calls EXCEPT ![a] = 1]
                  /\ UNCHANGED phase

GateNext == \/ \E a \in Id : \/ GatePropose(a) \/ GateClear(a) \/ GateStart(a)
                             \/ GateSettle(a) \/ GatePerform(a)
            \/ \E S \in SUBSET Id : GateClose(S) \/ GateDoubt(S)

GateSpec == GateInit /\ [][GateNext]_gateVars

===============================================================================
