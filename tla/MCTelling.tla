------------------------------- MODULE MCTelling -------------------------------
(* Telling for TLC: symmetry, and the fairness its liveness property needs.     *)
EXTENDS Telling, TLC

TellingSymmetry == Permutations(Series) \cup Permutations(Reminder) \cup Permutations(Content)
                   \cup Permutations(Looker \ {Notifier})

\* The scheduled task starts a pass again and again, and a pass that does not die goes
\* on; a write that is tried again and again is not refused for ever, and a notification
\* that is tried again and again is shown.
MakeOrGiveUp == Materialize(Notifier) \/ GiveUp(Notifier)
PassesGoOn == /\ WF_tellingVars(PassStep \/ (MakeOrGiveUp /\ UNCHANGED <<pass, screen, history>>))
              /\ SF_tellingVars(Materialize(Notifier) /\ UNCHANGED <<pass, screen, history>>)
              /\ \A r \in Reminder : SF_tellingVars(TellOne(r))
              /\ SF_tellingVars(TellRest)

\* Bound: no series is paused (Schedule's own run pauses and resumes them).
Unpaused == \A s \in Series : ~series'[s].paused
FairTellingSpec == TellingInit /\ [][TellingNext /\ Unpaused]_tellingVars /\ PassesGoOn

IsWaiting(r) == /\ reminder[r].state = "open" /\ reminder[r].due # None
                /\ reminder[r].due <= clock /\ ~reminder[r].told

\* A reminder that is due does not wait for ever: it is recorded as told, done,
\* closed, or pushed back.
DueIsTold == \A r \in Reminder : IsWaiting(r) ~> ~IsWaiting(r)

\* A series whose time has come does not stay due: it makes its reminder, or the
\* owner paused, skipped or stopped it. (Bounded: as long as a row is left to make it in.)
DueIsMade ==
  \A s \in Series : (s \in Due(clock) /\ Free # {}) ~> (s \notin Due(clock) \/ Free = {})
===============================================================================
