----------------------------- MODULE MCAutomations -----------------------------
(* Automations for TLC: the symmetry of its rows, kinds and requests, and how    *)
(* much is written and asked in a run.                                           *)
EXTENDS Automations, TLC

AutoSymmetry == Permutations(Automation) \cup Permutations(Unasked) \cup Permutations(Flow \ {Notifier})

\* Bounds: so many messages are written, and so many of them put on the desktop, each as
\* often as the mishaps make it.
MaxWritten == 2
MaxShown == 1
FewWritten == /\ Cardinality({k \in Key : said'[k] > 0}) <= MaxWritten
              /\ Cardinality({k \in posts' : shown'[k] > 0}) <= MaxShown

\* Bound: what the owner asks last is to delete what is being resumed.
Resumed == {flow[h].of : h \in {f \in Flow : flow[f].at = "resume"}}
LastAsked == requests < requests' /\ requests' = MaxRequests =>
               \E a \in Resumed : auto[a].state # "deleted" /\ auto'[a].state = "deleted"

SmallSpec == AutoInit /\ [][AutoNext /\ FewWritten /\ LastAsked]_autoVars
===============================================================================
