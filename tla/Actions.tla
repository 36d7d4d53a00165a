-------------------------------- MODULE Actions --------------------------------
(* The approval gate (diya_actions.py) and the flows that go through it: the   *)
(* chat turn that proposes and may do it straight away (diya.py,               *)
(* diya_autoapprove.py), the Approve button (diya_actions_api.py), the command *)
(* line (diya_actions_cli.py), and the pause switch (diya_pause.py).           *)
(*                                                                             *)
(* One step is one transaction (BEGIN IMMEDIATE ... COMMIT), one read outside  *)
(* of a transaction, or the call to the service. A flow is a request thread or *)
(* a process: it keeps in its own memory what it read, and between two of its  *)
(* steps any other flow, the owner, the clock or a crash may come.             *)
(*                                                                             *)
(* Abstracted: the kind and its arguments are one value of Args (its hash and  *)
(* its description are functions of it, both injective); the event trail is    *)
(* written in the transaction of the change it records and is left out.        *)
EXTENDS Naturals, FiniteSets

CONSTANTS Id,                \* the rows that can be inserted
          Args,              \* a kind of action with its arguments
          AutoArgs,          \* those of a kind in AUTO_KINDS
          Message,           \* the owner's messages
          Flow,              \* request threads and processes
          None,              \* an empty column
          MaxPending,        \* MAX_PENDING
          MaxPerTurn,        \* MAX_PER_TURN
          Expiry,            \* EXPIRY, in ticks
          MinReconcileAge,   \* MIN_RECONCILE_AGE, in ticks
          MaxClock,          \* bound: the clock stops here
          MaxEdits           \* bound: rows whose stored arguments were changed by hand

ASSUME ArgsAssumption == AutoArgs \subseteq Args
ASSUME NoneAssumption == None \notin Args /\ None \notin Message /\ None \notin Id /\ None \notin Nat
ASSUME LimitAssumption == /\ MaxPending \in Nat /\ MaxPerTurn \in Nat
                          /\ Expiry \in Nat \ {0}
                          /\ MinReconcileAge \in Nat
                          /\ MaxClock \in Nat /\ MaxEdits \in Nat
ASSUME FiniteAssumption == IsFiniteSet(Id)

VARIABLES row,        \* the actions table
          flow,       \* what each flow is doing and remembers
          clock,      \* the wall clock
          paused,     \* app_state: the pause switch
          connected,  \* whether the connector is signed in
          autoOn,     \* app_state: the "do straight away" switch
          calls,      \* external: calls of the service made for each action
          performed   \* external: what the last of them asked for

vars == <<row, flow, clock, paused, connected, autoOn, calls, performed>>
switches == <<paused, connected, autoOn>>
service == <<calls, performed>>

Statuses == {"none", "pending", "approved", "executing", "succeeded", "failed",
             "rejected", "expired", "unknown"}
Outcomes == {"succeeded", "failed", "unknown"}
Terminal == {"succeeded", "failed", "rejected", "expired"}
Steps == {"idle", "insert", "settle", "button", "prompt", "approve_txn",
          "run", "run_txn", "effect", "finish"}

Via == {"ui", "cli", "auto", "no"}  \* how it was approved, if it was

Row == [status : Statuses, args : Args \cup {None}, hash : Args \cup {None},
        summary : Args \cup {None}, message : Message \cup {None}, tainted : BOOLEAN,
        expires : Nat, executed : Nat \cup {None}, via : Via]

Memory == [pc : Steps, act : Id \cup {None}, shown : Args \cup {None}, via : Via,
           now : Nat, doing : Args \cup {None}, outcome : Outcomes \cup {None}]

\* Past its first step a flow is about one action; at its last it has an outcome.
FlowState == {s \in Memory : /\ s.pc \notin {"idle", "insert"} => s.act \in Id
                             /\ s.pc = "finish" => s.outcome \in Outcomes}

EmptyRow == [status |-> "none", args |-> None, hash |-> None, summary |-> None,
             message |-> None, tainted |-> FALSE, expires |-> 0, executed |-> None,
             via |-> "no"]

Idle == [pc |-> "idle", act |-> None, shown |-> None, via |-> "no", now |-> 0,
         doing |-> None, outcome |-> None]

TypeOK == /\ row \in [Id -> Row]
          /\ flow \in [Flow -> FlowState]
          /\ clock \in Nat
          /\ paused \in BOOLEAN /\ connected \in BOOLEAN /\ autoOn \in BOOLEAN
          /\ calls \in [Id -> Nat]
          /\ performed \in [Id -> Args \cup {None}]

Init == /\ row = [a \in Id |-> EmptyRow]
        /\ flow = [f \in Flow |-> Idle]
        /\ clock = 0
        /\ paused = FALSE /\ connected = TRUE /\ autoOn = FALSE
        /\ calls = [a \in Id |-> 0]
        /\ performed = [a \in Id |-> None]

-------------------------------------------------------------------------------
(* Shared by the operations. An operator whose name ends in Broken or Late is  *)
(* the one after it with a plausible mistake: it is used by no specification,  *)
(* and shows that the properties tell the two apart (README, "Mutants").       *)

At(f, step) == flow[f].pc = step
WithStatus(S) == {a \in Id : row[a].status \in S}

\* Expired(t): the table after expire(t) has closed what was still open.
NotDueBroken(a, t) == row[a].status # "pending" \/ row[a].expires > t
NotDue(a, t) == row[a].status \notin {"pending", "approved"} \/ row[a].expires > t
Expired(t) == [a \in Id |-> IF NotDue(a, t) THEN row[a]
                            ELSE [row[a] EXCEPT !.status = "expired"]]

\* A flow ends: it returns, or refuses by raising, and remembers nothing.
Ends(f) == flow' = [flow EXCEPT ![f] = Idle]

-------------------------------------------------------------------------------
(* propose: called by a tool inside a chat turn.                               *)

ProposeBegin(f) ==
  /\ At(f, "idle") /\ connected
  /\ row' = Expired(clock)
  /\ flow' = [flow EXCEPT ![f].pc = "insert", ![f].now = clock]
  /\ UNCHANGED <<clock, switches, service>>

Waiting(c) == {a \in WithStatus({"pending"}) : row[a].hash = c}
FromMessage(m) == {a \in Id : row[a].status # "none" /\ row[a].message = m}

RefusedBroken(c, m) ==
  \/ Cardinality(WithStatus({"pending"})) >= MaxPending
  \/ m # None /\ Cardinality(FromMessage(m) \cap WithStatus({"pending"})) >= MaxPerTurn
Refused(c, m) ==
  \/ Waiting(c) # {}
  \/ Cardinality(WithStatus({"pending"})) >= MaxPending
  \/ m # None /\ Cardinality(FromMessage(m)) >= MaxPerTurn

NewRow(c, m, tainted, now) ==
  [EmptyRow EXCEPT !.status = "pending", !.args = c, !.hash = c, !.summary = c,
                   !.message = m, !.tainted = tainted, !.expires = now + Expiry]

ProposeInsert(f) ==
  /\ At(f, "insert")
  /\ \E c \in Args, m \in Message \cup {None} :
       \/ /\ Refused(c, m)
          /\ Ends(f)
          /\ UNCHANGED row
       \/ \E a \in WithStatus({"none"}), tainted \in BOOLEAN :
            /\ ~Refused(c, m)
            /\ row' = [row EXCEPT ![a] = NewRow(c, m, tainted, flow[f].now)]
            /\ flow' = [flow EXCEPT ![f] = [Idle EXCEPT !.pc = "settle", !.act = a, !.shown = c]]
  /\ UNCHANGED <<clock, switches, service>>

\* approve reads the clock and expires what is due before its own transaction.
ApproveBegin(f, via) ==
  /\ row' = Expired(clock)
  /\ flow' = [flow EXCEPT ![f].pc = "approve_txn", ![f].via = via]

\* The end of the turn: may it be done straight away? `faithful` is the kind's
\* auto_ok. The status and the taint it looks at are those propose returned.
Allowed(a, faithful) ==
  row[a].summary \in AutoArgs /\ ~row[a].tainted /\ autoOn /\ ~paused /\ faithful

SettleProposal(f) ==
  /\ At(f, "settle")
  /\ \E faithful \in BOOLEAN :
       IF Allowed(flow[f].act, faithful) THEN ApproveBegin(f, "auto")
                                         ELSE Ends(f) /\ UNCHANGED row
  /\ UNCHANGED <<clock, switches, service>>

-------------------------------------------------------------------------------
(* The owner's side. The page and the terminal show an action, with its hash;  *)
(* the answer comes later. The button asks the pause switch first, the command *)
(* line does not.                                                              *)

Shows(f, step) ==
  /\ At(f, "idle")
  /\ \E a \in WithStatus({"pending"}) :
       flow' = [flow EXCEPT ![f] = [Idle EXCEPT !.pc = step, !.act = a, !.shown = row[a].hash]]
  /\ UNCHANGED <<row, clock, switches, service>>

ShowOnPage(f) == Shows(f, "button")
ShowInTerminal(f) == Shows(f, "prompt")

PressButton(f) ==
  /\ At(f, "button")
  /\ IF paused THEN Ends(f) /\ UNCHANGED row ELSE ApproveBegin(f, "ui")
  /\ UNCHANGED <<clock, switches, service>>

SayYes(f) ==
  /\ At(f, "prompt")
  /\ ApproveBegin(f, "cli")
  /\ UNCHANGED <<clock, switches, service>>

MayApproveBroken(f) == flow[f].shown = row[flow[f].act].hash
MayApprove(f) == LET a == flow[f].act IN
  row[a].status = "pending" /\ flow[f].shown = row[a].hash

Approve(f) ==
  /\ At(f, "approve_txn")
  /\ IF MayApprove(f)
     THEN /\ row' = [row EXCEPT ![flow[f].act].status = "approved",
                                ![flow[f].act].via = flow[f].via]
          /\ flow' = [flow EXCEPT ![f] = [Idle EXCEPT !.pc = "run", !.act = flow[f].act]]
     ELSE Ends(f) /\ UNCHANGED row
  /\ UNCHANGED <<clock, switches, service>>

Reject(a) ==
  /\ row[a].status = "pending"
  /\ row' = [row EXCEPT ![a].status = "rejected"]
  /\ UNCHANGED <<flow, clock, switches, service>>

\* The owner looked in the service and records whether it happened.
Resolve(a) ==
  /\ row[a].status = "unknown"
  /\ \E found \in {"succeeded", "failed"} : row' = [row EXCEPT ![a].status = found]
  /\ UNCHANGED <<flow, clock, switches, service>>

-------------------------------------------------------------------------------
(* run: the pause switch, expire(now), the transaction that takes the action,  *)
(* the call outside of any transaction, the transaction that records how it    *)
(* ended.                                                                      *)

RunBegin(f) ==
  /\ At(f, "run")
  /\ IF paused
     THEN Ends(f) /\ UNCHANGED row
     ELSE /\ row' = Expired(clock)
          /\ flow' = [flow EXCEPT ![f].pc = "run_txn", ![f].now = clock]
  /\ UNCHANGED <<clock, switches, service>>

\* _cannot_run: checked again on the stored row, not trusted from the proposal.
CannotRunBroken(a) == row[a].hash # row[a].args \/ ~connected
CannotRun(a) == \/ row[a].hash # row[a].args
                \/ row[a].summary # row[a].args
                \/ ~connected

MayRun(a) == row[a].status = "approved"

RunTake(f) == LET a == flow[f].act IN
  /\ At(f, "run_txn")
  /\ \/ /\ ~MayRun(a)
        /\ Ends(f) /\ UNCHANGED row
     \/ /\ MayRun(a) /\ CannotRun(a)
        /\ row' = [row EXCEPT ![a].status = "failed"]
        /\ Ends(f)
     \/ /\ MayRun(a) /\ ~CannotRun(a)
        /\ row' = [row EXCEPT ![a].status = "executing", ![a].executed = flow[f].now]
        /\ flow' = [flow EXCEPT ![f].pc = "effect", ![f].now = 0, ![f].doing = row[a].args]
  /\ UNCHANGED <<clock, switches, service>>

\* external: kind.execute, and how it came out.
Effect(f) == LET a == flow[f].act IN
  /\ At(f, "effect")
  /\ calls' = [calls EXCEPT ![a] = @ + 1]
  /\ performed' = [performed EXCEPT ![a] = flow[f].doing]
  /\ \E o \in Outcomes : flow' = [flow EXCEPT ![f].pc = "finish", ![f].doing = None, ![f].outcome = o]
  /\ UNCHANGED <<row, clock, switches>>

StillMineBroken(a) == row[a].status \notin {"pending", "approved"}
StillMine(a) == row[a].status = "executing"

\* The outcome is written only over `executing`; otherwise IllegalTransition.
RunFinish(f) == LET a == flow[f].act IN
  /\ At(f, "finish")
  /\ row' = IF StillMine(a) THEN [row EXCEPT ![a].status = flow[f].outcome] ELSE row
  /\ Ends(f)
  /\ UNCHANGED <<clock, switches, service>>

-------------------------------------------------------------------------------
(* The system's side, and the world around.                                    *)

\* pending(): every page that lists what is waiting closes what has expired.
ExpireDue ==
  /\ \E a \in Id : ~NotDue(a, clock)
  /\ row' = Expired(clock)
  /\ UNCHANGED <<flow, clock, switches, service>>

CutOffBroken(a) == /\ row[a].status = "executing"
                   /\ row[a].executed + MinReconcileAge < clock
CutOff(a) == /\ row[a].status = "executing"
             /\ row[a].executed + MinReconcileAge <= clock

Reconcile ==
  /\ \E a \in Id : CutOff(a)
  /\ row' = [a \in Id |-> IF CutOff(a) THEN [row[a] EXCEPT !.status = "unknown"] ELSE row[a]]
  /\ UNCHANGED <<flow, clock, switches, service>>

Pause == /\ ~paused /\ paused' = TRUE
         /\ UNCHANGED <<row, flow, clock, connected, autoOn, service>>
Resume == /\ paused /\ paused' = FALSE
          /\ UNCHANGED <<row, flow, clock, connected, autoOn, service>>
SetAuto == /\ autoOn' = ~autoOn
           /\ UNCHANGED <<row, flow, clock, paused, connected, service>>
SetConnected == /\ connected' = ~connected
                /\ UNCHANGED <<row, flow, clock, paused, autoOn, service>>

\* The database edited by hand: the stored arguments, with their hash or without,
\* of an action that was not taken yet. The description stays.
EditRow(a) ==
  /\ row[a].status \in {"pending", "approved"}
  /\ Cardinality({b \in Id : row[b].args # row[b].summary}) < MaxEdits
  /\ \E c \in Args : \E h \in {row[a].hash, c} :
       row' = [row EXCEPT ![a].args = c, ![a].hash = h]
  /\ UNCHANGED <<flow, clock, switches, service>>

Tick == /\ clock < MaxClock /\ clock' = clock + 1
        /\ UNCHANGED <<row, flow, switches, service>>

\* The process dies; what it had committed stays, what it remembered is gone.
Crash(f) == /\ ~At(f, "idle") /\ Ends(f)
            /\ UNCHANGED <<row, clock, switches, service>>

-------------------------------------------------------------------------------
\* What a flow does by itself once it has begun: only these are ever fair.
FlowStep(f) == \/ ProposeInsert(f) \/ SettleProposal(f) \/ Approve(f)
               \/ RunBegin(f) \/ RunTake(f) \/ Effect(f) \/ RunFinish(f)

Alive == \/ \E f \in Flow : \/ ProposeBegin(f) \/ FlowStep(f)
                            \/ ShowOnPage(f) \/ PressButton(f)
                            \/ ShowInTerminal(f) \/ SayYes(f)
         \/ \E a \in Id : Reject(a) \/ Resolve(a) \/ EditRow(a)
         \/ ExpireDue \/ Reconcile \/ Tick
         \/ Pause \/ Resume \/ SetAuto \/ SetConnected

Next == Alive \/ \E f \in Flow : Crash(f)

Spec == Init /\ [][Next]_vars

-------------------------------------------------------------------------------
(* What must be true.                                                          *)

Started == {"executing", "succeeded", "failed", "unknown"}

\* The service is called at most once for an action, ever: whatever crashes, is
\* run by two flows at once, is called unknown and resolved (ACTIONS_DESIGN D4,
\* Actions.run: "at most once ever").
AtMostOnce == \A a \in Id : calls[a] <= 1

\* What was performed is what the description shown to the owner says, the owner
\* (or their standing switch) approved it, and it was neither refused, expired nor
\* still open (Actions.approve, Actions._cannot_run).
OnlyWhatWasShown ==
  \A a \in Id : calls[a] > 0 => /\ performed[a] = row[a].summary
                                /\ row[a].via # "no"
                                /\ row[a].status \in Started

\* An action is taken only on a look at the clock, run's own and stamped on the row,
\* from before its day was over: an approval that waited for the write lock past the
\* end of the day, or that the pause or a crash left lying, is closed and not taken
\* (Actions.run, Actions.expire). The taking itself may come after the end of the day,
\* for run, too, waits for the write lock with the time it has read.
LookedInTime ==
  \A a \in Id : row[a].executed # None => row[a].executed < row[a].expires

\* The limits of propose: how many wait, how many one message led to in all, and (in
\* a table nobody edits by hand) nothing waits twice, although other flows insert
\* between its expire and its own transaction.
WithinLimits ==
  /\ Cardinality(WithStatus({"pending"})) <= MaxPending
  /\ \A m \in Message : Cardinality(FromMessage(m)) <= MaxPerTurn
  /\ MaxEdits = 0 => \A a, b \in WithStatus({"pending"}) : row[a].hash = row[b].hash => a = b

\* What was decided stands: an action that ended never changes again, and `unknown`
\* is left only for what the owner found. A run that comes back late, after
\* reconcile gave up on it, changes neither.
DecisionsStand ==
  [][\A a \in Id :
       /\ row[a].status \in Terminal => row'[a].status = row[a].status
       /\ row[a].status = "unknown" => row'[a].status = "unknown" \/ Resolve(a)]_vars

\* Why the above hold, as one inductive invariant: what the table says of a row,
\* what a flow may rely on between two of its transactions, that a taken action
\* has one caller, and how the service's count follows the table.
RowSound(a) ==
    /\ row[a].status \in {"executing", "succeeded", "unknown"} => row[a].executed # None
    /\ row[a].status \notin Started => row[a].executed = None
    /\ row[a].status = "approved" => row[a].via # "no"
    /\ row[a].executed # None => row[a].via # "no" /\ row[a].executed < row[a].expires
RowsSound == \A a \in Id : RowSound(a)

InCall(f) == flow[f].pc \in {"effect", "finish"}

FlowSound(f) == LET a == flow[f].act IN
    /\ flow[f].pc \notin {"idle", "insert"} => row[a].status # "none"
    /\ At(f, "approve_txn") => flow[f].via # "no"
    /\ At(f, "run_txn") /\ row[a].status \in {"pending", "approved"} => row[a].expires > flow[f].now
    /\ InCall(f) => row[a].executed # None
    /\ At(f, "effect") => calls[a] = 0 /\ flow[f].doing = row[a].summary
FlowsSound == \A f \in Flow : FlowSound(f)

OneCaller ==
  \A f, g \in Flow : InCall(f) /\ InCall(g) /\ flow[f].act = flow[g].act => f = g

CallsSound ==
  \A a \in Id :
    /\ calls[a] <= 1
    /\ calls[a] > 0 => row[a].executed # None /\ performed[a] = row[a].summary

IInv == TypeOK /\ RowsSound /\ FlowsSound /\ OneCaller /\ CallsSound

\* The gate this store implements. A row that failed without being taken was
\* closed: it is not among the actions that were started.
Phase(a) == CASE row[a].status = "pending" -> "waiting"
              [] row[a].status = "approved" -> "cleared"
              [] row[a].status = "executing" -> "started"
              [] row[a].status = "unknown" -> "doubt"
              [] row[a].status = "none" -> "none"
              [] row[a].status \in {"rejected", "expired"} -> "closed"
              [] row[a].status = "failed" /\ row[a].executed = None -> "closed"
              [] OTHER -> "settled"

Gate == INSTANCE ActionGate WITH phase <- [a \in Id |-> Phase(a)]
GateSpec == Gate!GateSpec
===============================================================================
