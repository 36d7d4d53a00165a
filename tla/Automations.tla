------------------------------ MODULE Automations ------------------------------
(* Requests that run on a clock (diya_automations): the automations table, the   *)
(* notifier's pass that runs what is due and then lets Diya write first, the     *)
(* page that makes, pauses, resumes, deletes and runs them by hand meanwhile.    *)
(* One pass runs at a time; making the agent and its answer take most of a pass, *)
(* and anything the owner does comes in between.                                 *)
(*                                                                               *)
(* Abstracted: the words; a rule falls every Every ticks; how often a run ended  *)
(* and how (runs, last_status) are shown to the owner and read by no code. The   *)
(* pause switch is read once, at the start of a pass: a paused pass is one that  *)
(* does not begin here. The answer of the agent is a text or nothing.            *)
EXTENDS WritingFirst

CONSTANTS Every,          \* the ticks between two falls of a rule
          MaxAutomations  \* MAX_AUTOMATIONS

ASSUME EveryAssumption == /\ Every \in Nat \ {0} /\ MaxAutomations \in Nat

VARIABLES auto,    \* the automations table
          served,  \* history: the last fall each was run for
          ahead,   \* history: who was run since each fell due and was not
         late     \* history: whom a late resume put back since its last run

autoVars == <<said, posts, untold, shown, flow, clock, mishaps, requests, auto, served, ahead, late>>

Rows == [state : {"none", "active", "paused", "deleted"}, next : Nat]
NoRow == [state |-> "none", next |-> 0]

AutoTypeOK == /\ WritingTypeOK
              /\ auto \in [Automation -> Rows]
              /\ served \in [Automation -> Nat \cup {None}]
              /\ ahead \in [Automation -> SUBSET Automation]
              /\ late \subseteq Automation

NextAfter(t) == (t \div Every + 1) * Every   \* Repeat.next_after: strictly later
LastFall(t) == (t \div Every) * Every

\* A table with some automations that are not due yet.
AutoInit == /\ WritingInit
            /\ auto \in [Automation ->
                        {NoRow} \cup [state : {"active", "paused"}, next : {NextAfter(0)}]]
            /\ served = [a \in Automation |-> None]
            /\ ahead = [a \in Automation |-> {}] /\ late = {}

There == {a \in Automation : auto[a].state \in {"active", "paused"}}
Unused == {a \in Automation : auto[a].state = "none"}

\* The owner changed a's place in the line: nobody is ahead of it any more.
Anew(a) == ahead' = [ahead EXCEPT ![a] = {}]

-------------------------------------------------------------------------------
(* The page and the chat.                                                        *)

\* create() counts the rows in one query and inserts in another.
CreateLooks(h) ==
  /\ h # Notifier /\ flow[h].at = "idle" /\ Cardinality(There) < MaxAutomations /\ Asked
  /\ flow' = [flow EXCEPT ![h].at = "create", ![h].now = clock]
  /\ UNCHANGED <<said, posts, untold, shown, clock, mishaps, auto, served, ahead, late>>

CreateInserts(h, a) ==
  /\ flow[h].at = "create" /\ a \in Unused
  /\ auto' = [auto EXCEPT ![a] = [state |-> "active", next |-> NextAfter(flow[h].now)]]
  /\ flow' = [flow EXCEPT ![h] = Resting]
  /\ UNCHANGED <<said, posts, untold, shown, clock, mishaps, requests, served, ahead, late>>

Pause(a) ==
  /\ a \in There /\ auto' = [auto EXCEPT ![a].state = "paused"] /\ Anew(a) /\ Asked
  /\ UNCHANGED <<said, posts, untold, shown, flow, clock, mishaps, served, late>>

\* resume() reads the row, then the clock, and writes in a transaction of its own, whatever
\* has come between: from the fall next to the time read, not the ones missed.
ResumeLooks(h, a) ==
  /\ h # Notifier /\ flow[h].at = "idle" /\ a \in There /\ Asked
  /\ flow' = [flow EXCEPT ![h].at = "resume", ![h].now = clock, ![h].of = a]
  /\ UNCHANGED <<said, posts, untold, shown, clock, mishaps, auto, served, ahead, late>>

\* A fall of the rule has come since h read the clock.
Overtaken(h) == NextAfter(flow[h].now) <= clock

ResumeWrites(h, a) ==
  /\ flow[h].at = "resume" /\ flow[h].of = a /\ a \in There /\ Anew(a)
  /\ auto' = [auto EXCEPT ![a] = [state |-> "active", next |-> NextAfter(flow[h].now)]]
  /\ late' = late \cup (IF Overtaken(h) THEN {a} ELSE {})
  /\ flow' = [flow EXCEPT ![h] = Resting]
  /\ UNCHANGED <<said, posts, untold, shown, clock, mishaps, requests, served>>

ResumeFindsNone(h) ==
  /\ flow[h].at = "resume" /\ flow[h].of \notin There
  /\ flow' = [flow EXCEPT ![h] = Resting]
  /\ UNCHANGED <<said, posts, untold, shown, clock, mishaps, requests, auto, served, ahead, late>>

Delete(a) ==
  /\ a \in There /\ auto' = [auto EXCEPT ![a].state = "deleted"] /\ Anew(a) /\ Asked
  /\ UNCHANGED <<said, posts, untold, shown, flow, clock, mishaps, served, late>>

\* The Run now button: the same run, whatever is due.
RunByHand(h, a) ==
  /\ h # Notifier /\ flow[h].at = "idle" /\ a \in There /\ Asked
  /\ flow' = [flow EXCEPT ![h] = [Resting EXCEPT !.at = "run", !.now = clock, !.of = a]]
  /\ UNCHANGED <<said, posts, untold, shown, clock, mishaps, auto, served, ahead, late>>

-------------------------------------------------------------------------------
(* One run of an automation (run, run_by_hand, and the loop of run_due).          *)

Answers(f) ==
  /\ flow[f].at = "run"
  /\ flow' = [flow EXCEPT ![f].at = "look", ![f].now = 0,
                           ![f].key = Answer(flow[f].of, flow[f].now)]
  /\ UNCHANGED <<said, posts, untold, shown, clock, mishaps, requests, auto, served, ahead, late>>

HasNothingToSay(f) ==
  /\ flow[f].at = "run" /\ flow' = [flow EXCEPT ![f].at = "finish", ![f].now = 0]
  /\ UNCHANGED <<said, posts, untold, shown, clock, mishaps, requests, auto, served, ahead, late>>

\* finish() raises for a row that was deleted meanwhile: the pass then tells nothing
\* at this stage and goes on to write its own.
Finish(f) ==
  /\ flow[f].at = "finish"
  /\ flow' = [flow EXCEPT ![f] = IF f # Notifier THEN Resting
                                 ELSE IF flow[f].of \in There THEN [Resting EXCEPT !.at = "list"]
                                 ELSE [Resting EXCEPT !.at = "write"]]
  /\ UNCHANGED <<said, posts, untold, shown, clock, mishaps, requests, auto, served, ahead, late>>

-------------------------------------------------------------------------------
(* The pass (main of diya_notify, run_due).                                       *)

PassBegins ==
  /\ flow[Notifier].at = "idle"
  /\ flow' = [flow EXCEPT ![Notifier] = [Resting EXCEPT !.at = "due", !.now = clock]]
  /\ UNCHANGED <<said, posts, untold, shown, clock, mishaps, requests, auto, served, ahead, late>>

Due(t) == {a \in Automation : auto[a].state = "active" /\ auto[a].next <= t}

\* ORDER BY next_ts, id: the first is one that nobody due fell before. (Ids are free.)
FirstBroken(D) == D
First(D) == {a \in D : \A b \in D : auto[a].next <= auto[b].next}

FindsNoneDue ==
  /\ flow[Notifier].at = "due" /\ Due(flow[Notifier].now) = {}
  /\ flow' = [flow EXCEPT ![Notifier] = [Resting EXCEPT !.at = "write"]]
  /\ UNCHANGED <<said, posts, untold, shown, clock, mishaps, requests, auto, served, ahead, late>>

FindsDue(a) ==
  /\ flow[Notifier].at = "due" /\ a \in First(Due(flow[Notifier].now))
  /\ flow' = [flow EXCEPT ![Notifier].at = "agent", ![Notifier].of = a]
  /\ UNCHANGED <<said, posts, untold, shown, clock, mishaps, requests, auto, served, ahead, late>>

\* The agent cannot be made, or the row is gone at the claim: the stage is over.
CannotClaim ==
  /\ flow[Notifier].at = "agent"
  /\ flow' = [flow EXCEPT ![Notifier] = [Resting EXCEPT !.at = "write"]]
  /\ UNCHANGED <<said, posts, untold, shown, clock, mishaps, requests, auto, served, ahead, late>>

\* The next run is moved on before this one, by the time the pass read. The state of the
\* row is not looked at again.
ClaimedBroken(a) == auto
Claimed(a) == [auto EXCEPT ![a].next = NextAfter(flow[Notifier].now)]

Claim(a) ==
  /\ flow[Notifier].at = "agent" /\ flow[Notifier].of = a /\ a \in There
  /\ auto' = Claimed(a) /\ Goes(Notifier, "run")
  /\ served' = [served EXCEPT ![a] = LastFall(flow[Notifier].now)]
  /\ ahead' = [b \in Automation |-> IF b = a THEN {}
                                    ELSE IF b \in Due(flow[Notifier].now) THEN ahead[b] \cup {a}
                                    ELSE ahead[b]]
  /\ late' = late \ {a}
  /\ UNCHANGED <<said, posts, untold, shown, clock, mishaps, requests>>

-------------------------------------------------------------------------------
PassStep == \/ PassBegins \/ FindsNoneDue \/ CannotClaim
            \/ \E a \in Automation : FindsDue(a) \/ Claim(a)

RunStep == \E f \in Flow : Answers(f) \/ HasNothingToSay(f) \/ Finish(f)

Owner == \/ \E a \in Automation : Pause(a) \/ Delete(a)
         \/ \E h \in Flow : \/ CreateLooks(h) \/ ResumeFindsNone(h)
                            \/ \E a \in Automation : \/ CreateInserts(h, a) \/ RunByHand(h, a)
                                                     \/ ResumeLooks(h, a) \/ ResumeWrites(h, a)

Posting == /\ World \/ \E f \in Flow : WritingStep(f)
           /\ UNCHANGED <<auto, served, ahead, late>>

AutoNext == PassStep \/ RunStep \/ Owner \/ Posting

AutoSpec == AutoInit /\ [][AutoNext]_autoVars

-------------------------------------------------------------------------------
(* What must be true.                                                            *)

\* "At most once for each time the rule falls" (Automations.claim): the notifier never runs
\* an automation for a fall it was already run for, whenever a pass died, and whatever the
\* owner did meanwhile; but that a resume which a fall overtook between its clock and its
\* write may put the automation back to that fall, for one run more.
OneRunPerFall ==
  [][\A a \in Automation : Claim(a) =>
       \/ served[a] = None \/ served[a] < LastFall(flow[Notifier].now)
       \/ a \in late]_autoVars

\* One automation is run a pass, and none has to wait while another is run twice
\* (RUNS_PER_PASS, and the order of due()), but for one that such a resume put back.
FairTurns ==
  [][\A a, b \in Automation : Claim(a) /\ b \in Due(flow[Notifier].now) =>
       a \notin ahead[b] \/ a \in late]_autoVars
===============================================================================
