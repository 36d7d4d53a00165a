----------------------------- MODULE ActionsProofs -----------------------------
(* Theorems about the approval gate for every number of actions, flows and     *)
(* messages, every limit, and a clock that never stops (README, "Proofs").     *)
EXTENDS Actions, FiniteSetTheorems, TLAPS

LEMMA RowType == EmptyRow \in Row
  BY NoneAssumption DEF EmptyRow, Row, Statuses, Via

LEMMA IdleType == Idle \in FlowState
  BY DEF Idle, FlowState, Memory, Via, Steps

\* Expiring closes rows and changes nothing else of them.
LEMMA ExpiredType == ASSUME row \in [Id -> Row], NEW t
                     PROVE  Expired(t) \in [Id -> Row]
  <1>1. ASSUME NEW a \in Id PROVE [row[a] EXCEPT !.status = "expired"] \in Row
    BY DEF Row, Statuses
  <1>2. QED BY <1>1 DEF Expired

\* One column of one row changes, or a row is approved, or taken.
LEMMA RowUpdates ==
  ASSUME NEW r \in Row, NEW s \in Statuses, NEW v \in Via, NEW t \in Nat
  PROVE  /\ [r EXCEPT !.status = s] \in Row
         /\ [r EXCEPT !.status = s, !.via = v] \in Row
         /\ [r EXCEPT !.status = s, !.executed = t] \in Row
  BY ZenonT(60) DEF Row, Via

\* The table stays a table when the row of an existing action is replaced.
LEMMA TableUpdate ==
  ASSUME row \in [Id -> Row], NEW a, NEW r \in Row
  PROVE  [row EXCEPT ![a] = r] \in [Id -> Row]
  OBVIOUS

\* Type correctness: every step keeps every column and every memory in range.
LEMMA TypeStep == TypeOK /\ [Next]_vars => TypeOK'
  <1> SUFFICES ASSUME TypeOK, [Next]_vars PROVE TypeOK'
    OBVIOUS
  <1> USE DEF TypeOK
  <1>e. Expired(clock) \in [Id -> Row]
    BY ExpiredType
  <1>i. ASSUME NEW f \in Flow, Ends(f) PROVE flow' \in [Flow -> FlowState]
    BY <1>i, IdleType DEF Ends
  <1>a. ASSUME NEW f \in Flow, flow[f].pc \notin {"idle", "insert"}
        PROVE  flow[f].act \in Id /\ row[flow[f].act] \in Row
    BY <1>a DEF FlowState
  <1>m. ASSUME NEW f \in Flow PROVE flow[f] \in Memory
    BY <1>m DEF FlowState
  <1>b. ASSUME NEW f \in Flow, NEW v \in Via, ApproveBegin(f, v), flow[f].pc \notin {"idle", "insert"}
        PROVE  row' \in [Id -> Row] /\ flow' \in [Flow -> FlowState]
    <2>1. [flow[f] EXCEPT !.pc = "approve_txn", !.via = v] \in FlowState
      BY ZenonT(60), <1>a, <1>b, <1>m DEF FlowState, Memory, Steps
    <2>2. QED BY <1>b, <1>e, <2>1 DEF ApproveBegin
  <1>1. ASSUME NEW f \in Flow, ProposeBegin(f) PROVE TypeOK'
    <2>1. [flow[f] EXCEPT !.pc = "insert", !.now = clock] \in FlowState
      BY <1>m DEF FlowState, Memory, Steps
    <2>2. QED BY <1>1, <1>e, <2>1 DEF ProposeBegin, switches, service
  <1>2. ASSUME NEW f \in Flow, ProposeInsert(f) PROVE TypeOK'
    <2>1. CASE Ends(f) /\ UNCHANGED row
      BY <1>2, <2>1, <1>i DEF ProposeInsert, switches, service
    <2>2. ASSUME NEW c \in Args, NEW m \in Message \cup {None}, NEW a \in Id, NEW t \in BOOLEAN,
                 row' = [row EXCEPT ![a] = NewRow(c, m, t, flow[f].now)],
                 flow' = [flow EXCEPT ![f] = [Idle EXCEPT !.pc = "settle", !.act = a, !.shown = c]]
          PROVE  TypeOK'
      <3>1. flow[f].now + Expiry \in Nat
        BY <1>m, LimitAssumption DEF Memory
      <3>2. NewRow(c, m, t, flow[f].now) \in Row
        BY <3>1 DEF NewRow, EmptyRow, Row, Statuses, Via
      <3>3. [Idle EXCEPT !.pc = "settle", !.act = a, !.shown = c] \in FlowState
        BY DEF Idle, FlowState, Memory, Via, Steps
      <3>4. QED BY <1>2, <2>2, <3>2, <3>3 DEF ProposeInsert, switches, service
    <2>3. QED BY <1>2, <2>1, <2>2 DEF ProposeInsert, WithStatus
  <1>3. ASSUME NEW f \in Flow, SettleProposal(f) PROVE TypeOK'
    BY <1>3, <1>i, <1>b DEF SettleProposal, At, Via, switches, service
  <1>4. ASSUME NEW f \in Flow, NEW step \in {"button", "prompt"}, Shows(f, step) PROVE TypeOK'
    <2>1. PICK a \in Id : flow' = [flow EXCEPT ![f] = [Idle EXCEPT !.pc = step, !.act = a, !.shown = row[a].hash]]
      BY <1>4 DEF Shows, WithStatus
    <2>2. row[a].hash \in Args \cup {None}
      BY DEF Row
    <2>3. [Idle EXCEPT !.pc = step, !.act = a, !.shown = row[a].hash] \in FlowState
      BY <2>2 DEF Idle, FlowState, Memory, Via, Steps
    <2>4. QED BY <1>4, <2>1, <2>3 DEF Shows, switches, service
  <1>5. ASSUME NEW f \in Flow, PressButton(f) \/ SayYes(f) PROVE TypeOK'
    BY <1>5, <1>i, <1>b DEF PressButton, SayYes, At, Via, switches, service
  <1>6. ASSUME NEW f \in Flow, Approve(f) PROVE TypeOK'
    <2>1. CASE Ends(f) /\ UNCHANGED row
      BY <1>6, <2>1, <1>i DEF Approve, switches, service
    <2>2. CASE ~(Ends(f) /\ UNCHANGED row)
      <3> DEFINE a == flow[f].act
      <3>1. a \in Id /\ row[a] \in Row /\ flow[f].via \in Via
        BY <1>6, <1>a, <1>m DEF Approve, At, Memory
      <3>2. [Idle EXCEPT !.pc = "run", !.act = a] \in FlowState
        BY <3>1 DEF Idle, FlowState, Memory, Via, Steps
      <3>3. [row[a] EXCEPT !.status = "approved", !.via = flow[f].via] \in Row
        BY <3>1, RowUpdates DEF Statuses
      <3>4. row' = [row EXCEPT ![a] = [row[a] EXCEPT !.status = "approved", !.via = flow[f].via]]
        BY <1>6, <2>2, <3>1 DEF Approve
      <3>5. row' \in [Id -> Row]
        BY <3>3, <3>4
      <3>6. flow' \in [Flow -> FlowState]
        BY <1>6, <2>2, <3>2 DEF Approve
      <3>7. QED BY <1>6, <3>5, <3>6 DEF Approve, switches, service
    <2>3. QED BY <2>1, <2>2
  <1>7. ASSUME NEW f \in Flow, RunBegin(f) PROVE TypeOK'
    <2>1. [flow[f] EXCEPT !.pc = "run_txn", !.now = clock] \in FlowState
      BY ZenonT(60), <1>7, <1>a, <1>m DEF RunBegin, At, FlowState, Memory, Steps
    <2>2. QED BY <1>7, <2>1, <1>e, <1>i DEF RunBegin, switches, service
  <1>8. ASSUME NEW f \in Flow, RunTake(f) PROVE TypeOK'
    <2> DEFINE a == flow[f].act
    <2>1. a \in Id /\ row[a] \in Row /\ flow[f].now \in Nat /\ row[a].args \in Args \cup {None}
      BY <1>8, <1>a, <1>m DEF RunTake, At, Memory, Row
    <2>2. [row[a] EXCEPT !.status = "failed"] \in Row
      BY <2>1, RowUpdates DEF Statuses, Via
    <2>3. [row[a] EXCEPT !.status = "executing", !.executed = flow[f].now] \in Row
      BY <2>1, RowUpdates DEF Statuses, Via
    <2>4. [flow[f] EXCEPT !.pc = "effect", !.now = 0, !.doing = row[a].args] \in FlowState
      BY ZenonT(60), <2>1, <1>m DEF FlowState, Memory, Steps
    <2>5. row' \in [Id -> Row]
      BY <1>8, <2>1, <2>2, <2>3 DEF RunTake
    <2>6. flow' \in [Flow -> FlowState]
      BY <1>8, <2>4, <1>i DEF RunTake
    <2>7. QED BY <1>8, <2>5, <2>6 DEF RunTake, switches, service
  <1>9. ASSUME NEW f \in Flow, Effect(f) PROVE TypeOK'
    <2>1. ASSUME NEW o \in Outcomes
          PROVE  [flow[f] EXCEPT !.pc = "finish", !.doing = None, !.outcome = o] \in FlowState
      <3>1. flow[f].pc = "effect"
        BY <1>9 DEF Effect, At
      <3>2. flow[f].act \in Id
        BY <3>1, <1>a
      <3>3. QED BY ZenonT(60), <3>2, <1>m DEF FlowState, Memory, Steps
    <2>2. flow' \in [Flow -> FlowState]
      BY <1>9, <2>1 DEF Effect
    <2>3. calls' \in [Id -> Nat]
      BY <1>9, <1>a DEF Effect, At
    <2>5. flow[f].doing \in Args \cup {None}
      BY <1>m DEF Memory
    <2>6. performed' \in [Id -> Args \cup {None}]
      BY <1>9, <2>5 DEF Effect
    <2>4. QED BY <1>9, <2>2, <2>3, <2>6 DEF Effect, switches
  <1>10. ASSUME NEW f \in Flow, RunFinish(f) PROVE TypeOK'
    <2> DEFINE a == flow[f].act
    <2>1. a \in Id /\ row[a] \in Row /\ flow[f].outcome \in Statuses
      BY <1>10, <1>a DEF RunFinish, At, FlowState, Outcomes, Statuses
    <2>2. [row[a] EXCEPT !.status = flow[f].outcome] \in Row
      BY <2>1, RowUpdates DEF Via
    <2>3. QED BY <1>10, <2>1, <2>2, <1>i DEF RunFinish, switches, service
  <1>11. ASSUME NEW a \in Id, Reject(a) \/ Resolve(a) PROVE TypeOK'
    <2>1. ASSUME NEW s \in Statuses PROVE [row EXCEPT ![a] = [row[a] EXCEPT !.status = s]] \in [Id -> Row]
      BY RowUpdates DEF Via
    <2>2. row' \in [Id -> Row]
      BY <1>11, <2>1 DEF Reject, Resolve, Statuses
    <2>3. QED BY <1>11, <2>2 DEF Reject, Resolve, switches, service
  <1>12. ASSUME NEW a \in Id, EditRow(a) PROVE TypeOK'
    <2>1. PICK c \in Args : \E h \in {row[a].hash, c} : row' = [row EXCEPT ![a].args = c, ![a].hash = h]
      BY <1>12 DEF EditRow
    <2>2. ASSUME NEW h \in {row[a].hash, c} PROVE [row[a] EXCEPT !.args = c, !.hash = h] \in Row
      BY ZenonT(60) DEF Row
    <2>3. row' \in [Id -> Row]
      BY <2>1, <2>2
    <2>4. QED BY <1>12, <2>3 DEF EditRow, switches, service
  <1>13. ASSUME Reconcile PROVE TypeOK'
    <2>1. ASSUME NEW a \in Id PROVE [row[a] EXCEPT !.status = "unknown"] \in Row
      BY RowUpdates DEF Statuses, Via
    <2>2. QED BY <1>13, <2>1 DEF Reconcile, switches, service
  <1>14. CASE ExpireDue \/ Tick \/ Pause \/ Resume \/ SetAuto \/ SetConnected
    <2>1. CASE ExpireDue \/ Tick
      BY <2>1, <1>e DEF ExpireDue, Tick, switches, service
    <2>2. CASE Pause \/ Resume \/ SetAuto \/ SetConnected
      <3>1. paused' \in BOOLEAN /\ connected' \in BOOLEAN /\ autoOn' \in BOOLEAN
        BY <2>2, Zenon DEF Pause, Resume, SetAuto, SetConnected
      <3>2. UNCHANGED <<row, flow, clock, calls, performed>>
        BY <2>2, Zenon DEF Pause, Resume, SetAuto, SetConnected, service
      <3>3. QED BY <3>1, <3>2
    <2>3. QED BY <1>14, <2>1, <2>2
  <1>15. ASSUME NEW f \in Flow, Crash(f) PROVE TypeOK'
    BY <1>15, <1>i DEF Crash, switches, service
  <1>16. CASE UNCHANGED vars
    BY <1>16 DEF vars
  <1>17. QED
    BY <1>1, <1>2, <1>3, <1>4, <1>5, <1>6, <1>7, <1>8, <1>9, <1>10, <1>11, <1>12, <1>13, <1>14, <1>15, <1>16
       DEF Next, Alive, FlowStep, ShowOnPage, ShowInTerminal

\* Every state of every behaviour is well typed (the invariant TypeOK of the runs).
THEOREM TypeCorrect == Spec => []TypeOK
  <1>1. Init => TypeOK
    <2>1. Init => paused \in BOOLEAN /\ connected \in BOOLEAN /\ autoOn \in BOOLEAN
      BY Zenon DEF Init
    <2>2. QED BY <2>1, RowType, IdleType DEF Init, TypeOK
  <1>2. QED BY <1>1, TypeStep, PTL DEF Spec

-------------------------------------------------------------------------------
(* The inductive invariant, one step per kind of action. Most actions change   *)
(* only the table or only one flow; the lemmas say what each such change keeps. *)

Rest == RowsSound /\ FlowsSound /\ OneCaller /\ CallsSound

\* Closing what is due keeps every flow's reliance: an open row that is left is
\* not due.
LEMMA ExpiredKeeps ==
  ASSUME TypeOK, NEW t, NEW a \in Id
  PROVE  /\ Expired(t)[a].summary = row[a].summary
         /\ Expired(t)[a].expires = row[a].expires /\ Expired(t)[a].executed = row[a].executed
         /\ Expired(t)[a].via = row[a].via
         /\ \/ Expired(t)[a].status = row[a].status
            \/ row[a].status \in {"pending", "approved"} /\ Expired(t)[a].status = "expired"
         /\ Expired(t)[a].status \in {"pending", "approved"} => row[a].expires > t
  BY DEF Expired, NotDue, TypeOK, Row

\* An action whose row changes status only among those never taken, or whose run
\* ends, and whose description, day and approval stay, keeps the invariant.
Mild(a) ==
  /\ row'[a].summary = row[a].summary
  /\ row'[a].expires = row[a].expires /\ row'[a].executed = row[a].executed
  /\ row'[a].via = row[a].via
  /\ \/ row'[a].status = row[a].status
     \/ /\ row[a].status \in {"pending", "approved"}
        /\ row'[a].status \in {"expired", "rejected"}
     \/ row[a].status = "approved" /\ row'[a].status = "failed"
     \/ row[a].status \in {"executing", "unknown"} /\ row'[a].status \in Outcomes

LEMMA MildRows ==
  ASSUME TypeOK, RowsSound, \A a \in Id : Mild(a)
  PROVE  RowsSound'
  BY DEF TypeOK, RowsSound, RowSound, Mild, Started, Outcomes, Row

\* A flow that did nothing itself may still rely on what it relied on.
LEMMA MildFlow ==
  ASSUME TypeOK, \A a \in Id : Mild(a), UNCHANGED calls,
         NEW f \in Flow, FlowSound(f), flow'[f] = flow[f]
  PROVE  FlowSound(f)'
  <1> DEFINE a == flow[f].act
  <1>1. CASE flow[f].pc \in {"idle", "insert"}
    BY <1>1 DEF FlowSound, At, InCall
  <1>2. CASE flow[f].pc \notin {"idle", "insert"}
    <2>1. a \in Id /\ Mild(a)
      BY <1>2 DEF TypeOK, FlowState
    <2>2. QED BY <2>1 DEF FlowSound, At, InCall, Mild, Outcomes
  <1>3. QED BY <1>1, <1>2

\* Every step that leaves the service alone and only makes mild changes to the
\* table keeps the invariant, if the flow that made it still relies on the truth.
LEMMA MildStep ==
  ASSUME TypeOK, Rest, \A a \in Id : Mild(a), UNCHANGED service,
         NEW f \in Flow, \A g \in Flow \ {f} : flow'[g] = flow[g],
         FlowSound(f)', InCall(f)' => InCall(f) /\ flow'[f].act = flow[f].act
  PROVE  Rest'
  <1>1. RowsSound'
    BY MildRows DEF Rest
  <1>2. FlowsSound'
    <2>1. ASSUME NEW g \in Flow \ {f} PROVE FlowSound(g)'
      BY MildFlow DEF Rest, FlowsSound, service
    <2>2. QED BY <2>1 DEF FlowsSound
  <1>3. OneCaller'
    BY DEF Rest, OneCaller, InCall
  <1>4. CallsSound'
    BY DEF Rest, CallsSound, Mild, service
  <1>5. QED BY <1>1, <1>2, <1>3, <1>4 DEF Rest

LEMMA EndsSound == ASSUME TypeOK, NEW f \in Flow, Ends(f)
                   PROVE  /\ FlowSound(f)' /\ ~InCall(f)'
                          /\ \A g \in Flow \ {f} : flow'[g] = flow[g]
  BY DEF Ends, TypeOK, FlowSound, InCall, At, Idle

LEMMA SameRows == ASSUME UNCHANGED row PROVE \A a \in Id : Mild(a)
  BY DEF Mild

LEMMA ExpiredMild == ASSUME TypeOK, row' = Expired(clock) PROVE \A a \in Id : Mild(a)
  BY ExpiredKeeps DEF Mild

\* ApproveBegin: what the flow was told of the approval is what the row allows.
LEMMA ApproveBeginSound ==
  ASSUME TypeOK, Rest, NEW f \in Flow, NEW v \in {"ui", "cli", "auto"},
         flow[f].pc \notin {"idle", "insert"}, ApproveBegin(f, v)
  PROVE  /\ \A a \in Id : Mild(a)
         /\ FlowSound(f)' /\ ~InCall(f)'
         /\ \A g \in Flow \ {f} : flow'[g] = flow[g]
  <1> DEFINE a == flow[f].act
  <1>1. \A b \in Id : Mild(b)
    BY ExpiredMild DEF ApproveBegin
  <1>2. a \in Id /\ row[a].status # "none"
    BY DEF TypeOK, FlowState, Rest, FlowsSound, FlowSound
  <1>3. /\ flow'[f].pc = "approve_txn" /\ flow'[f].via = v /\ flow'[f].act = a
        /\ \A g \in Flow \ {f} : flow'[g] = flow[g]
    BY DEF ApproveBegin, TypeOK, FlowState, Memory
  <1>4. Mild(a)
    BY <1>1, <1>2
  <1>5. row'[a].status # "none"
    BY <1>2, <1>4 DEF Mild, Outcomes
  <1>6. FlowSound(f)'
    BY <1>3, <1>4, <1>5 DEF FlowSound, At, InCall, Mild
  <1>7. QED BY <1>1, <1>3, <1>6 DEF InCall

\* A step that is no flow's.
LEMMA MildStill ==
  ASSUME TypeOK, Rest, \A a \in Id : Mild(a), UNCHANGED <<flow, service>>
  PROVE  Rest'
  <1>1. RowsSound'
    BY MildRows DEF Rest
  <1>2. ASSUME NEW f \in Flow PROVE FlowSound(f)'
    BY MildFlow DEF Rest, FlowsSound, service
  <1>3. QED BY <1>1, <1>2 DEF Rest, FlowsSound, OneCaller, InCall, CallsSound, Mild, service

LEMMA RestStep == TypeOK /\ TypeOK' /\ Rest /\ [Next]_vars => Rest'
  <1> SUFFICES ASSUME TypeOK, TypeOK', Rest, [Next]_vars PROVE Rest'
    OBVIOUS
  <1>1. ASSUME NEW f \in Flow, ProposeBegin(f) PROVE Rest'
    <2>1. /\ flow'[f].pc = "insert"
          /\ \A g \in Flow \ {f} : flow'[g] = flow[g]
      BY <1>1 DEF ProposeBegin, TypeOK, FlowState, Memory
    <2>2. FlowSound(f)' /\ ~InCall(f)'
      BY <2>1 DEF FlowSound, InCall, At
    <2>3. \A a \in Id : Mild(a)
      BY <1>1, ExpiredMild DEF ProposeBegin
    <2>4. QED BY <1>1, <2>1, <2>2, <2>3, MildStep DEF ProposeBegin
  <1>2. ASSUME NEW f \in Flow, SettleProposal(f) PROVE Rest'
    <2>1. UNCHANGED service
      BY <1>2 DEF SettleProposal
    <2>2. CASE Ends(f) /\ UNCHANGED row
      BY <2>1, <2>2, EndsSound, SameRows, MildStep
    <2>3. ASSUME ApproveBegin(f, "auto") PROVE Rest'
      <3>1. flow[f].pc \notin {"idle", "insert"}
        BY <1>2 DEF SettleProposal, At
      <3>2. QED BY <2>1, <2>3, <3>1, ApproveBeginSound, MildStep
    <2>4. QED BY <1>2, <2>2, <2>3 DEF SettleProposal
  <1>3. ASSUME NEW f \in Flow, PressButton(f) \/ SayYes(f) PROVE Rest'
    <2>1. UNCHANGED service /\ flow[f].pc \notin {"idle", "insert"}
      BY <1>3 DEF PressButton, SayYes, At
    <2>2. CASE Ends(f) /\ UNCHANGED row
      BY <2>1, <2>2, EndsSound, SameRows, MildStep
    <2>3. ASSUME NEW v \in {"ui", "cli"}, ApproveBegin(f, v) PROVE Rest'
      BY <2>1, <2>3, ApproveBeginSound, MildStep
    <2>4. QED BY <1>3, <2>2, <2>3 DEF PressButton, SayYes
  <1>4. ASSUME NEW f \in Flow, NEW step \in {"button", "prompt"}, Shows(f, step) PROVE Rest'
    <2>1. PICK a \in Id : /\ row[a].status = "pending"
                          /\ flow' = [flow EXCEPT ![f] = [Idle EXCEPT !.pc = step, !.act = a, !.shown = row[a].hash]]
      BY <1>4 DEF Shows, WithStatus
    <2>2. /\ flow'[f].pc = step /\ flow'[f].act = a
          /\ \A g \in Flow \ {f} : flow'[g] = flow[g]
      BY <2>1 DEF Idle, TypeOK
    <2>3. UNCHANGED <<row, service>>
      BY <1>4 DEF Shows
    <2>4. FlowSound(f)' /\ ~InCall(f)'
      BY <2>1, <2>2, <2>3 DEF FlowSound, InCall, At
    <2>5. QED BY <2>2, <2>3, <2>4, SameRows, MildStep
  <1>5. ASSUME NEW f \in Flow, RunBegin(f) PROVE Rest'
    <2>1. UNCHANGED service
      BY <1>5 DEF RunBegin
    <2>2. CASE Ends(f) /\ UNCHANGED row
      BY <2>1, <2>2, EndsSound, SameRows, MildStep
    <2>3. CASE ~(Ends(f) /\ UNCHANGED row)
      <3> DEFINE a == flow[f].act
      <3>1. row' = Expired(clock) /\ flow' = [flow EXCEPT ![f].pc = "run_txn", ![f].now = clock]
        BY <1>5, <2>3 DEF RunBegin
      <3>2. /\ flow'[f].pc = "run_txn" /\ flow'[f].act = a /\ flow'[f].now = clock
            /\ \A g \in Flow \ {f} : flow'[g] = flow[g]
        BY <3>1 DEF TypeOK, FlowState, Memory
      <3>3. a \in Id /\ row[a].status # "none"
        BY <1>5 DEF RunBegin, At, TypeOK, FlowState, Rest, FlowsSound, FlowSound
      <3>4. \A b \in Id : Mild(b)
        BY <3>1, ExpiredMild
      <3>5. row'[a].status # "none"
        BY <3>3, <3>4 DEF Mild, Outcomes
      <3>6. row'[a].status \in {"pending", "approved"} => row'[a].expires > clock
        BY <3>1, <3>3, ExpiredKeeps
      <3>7. FlowSound(f)' /\ ~InCall(f)'
        BY <3>2, <3>5, <3>6 DEF FlowSound, InCall, At
      <3>8. QED BY <2>1, <3>2, <3>4, <3>7, MildStep
    <2>4. QED BY <2>2, <2>3
  <1>6. ASSUME NEW f \in Flow, RunFinish(f) PROVE Rest'
    <2> DEFINE a == flow[f].act
    <2>1. a \in Id /\ flow[f].outcome \in Outcomes
      BY <1>6 DEF RunFinish, At, TypeOK, FlowState
    <2>2. \A b \in Id : Mild(b)
      BY <1>6, <2>1 DEF RunFinish, Mild, StillMine, TypeOK, Row
    <2>3. QED BY <1>6, <2>2, EndsSound, MildStep DEF RunFinish
  <1>7. ASSUME NEW f \in Flow, Crash(f) PROVE Rest'
    BY <1>7, EndsSound, SameRows, MildStep DEF Crash
  <1>8. ASSUME NEW f \in Flow, ProposeInsert(f) PROVE Rest'
    <2>1. UNCHANGED service
      BY <1>8 DEF ProposeInsert
    <2>2. CASE Ends(f) /\ UNCHANGED row
      BY <2>1, <2>2, EndsSound, SameRows, MildStep
    <2>3. ASSUME NEW c \in Args, NEW m \in Message \cup {None}, NEW t \in BOOLEAN, NEW a \in Id,
                 row[a].status = "none",
                 row' = [row EXCEPT ![a] = NewRow(c, m, t, flow[f].now)],
                 flow' = [flow EXCEPT ![f] = [Idle EXCEPT !.pc = "settle", !.act = a, !.shown = c]]
          PROVE  Rest'
      <3>1. /\ row'[a].status = "pending" /\ row'[a].executed = None /\ row'[a].via = "no"
            /\ \A b \in Id \ {a} : row'[b] = row[b]
        BY <2>3 DEF TypeOK, NewRow, EmptyRow
      <3>2. /\ flow'[f].pc = "settle" /\ flow'[f].act = a
            /\ \A g \in Flow \ {f} : flow'[g] = flow[g]
        BY <2>3 DEF TypeOK, Idle
      <3>3. RowsSound'
        BY <3>1 DEF Rest, RowsSound, RowSound, Started
      <3>4. ASSUME NEW g \in Flow \ {f} PROVE FlowSound(g)'
        <4>1. FlowSound(g) /\ flow[g] \in FlowState
          BY DEF Rest, FlowsSound, TypeOK
        <4>2. CASE flow[g].pc \in {"idle", "insert"}
          BY <3>2, <4>2 DEF FlowSound, At, InCall
        <4>3. CASE flow[g].pc \notin {"idle", "insert"}
          <5>1. flow[g].act \in Id \ {a}
            BY <2>3, <4>1, <4>3 DEF FlowSound, FlowState
          <5>2. QED BY <2>1, <3>1, <3>2, <4>1, <5>1 DEF FlowSound, At, InCall, service
        <4>4. QED BY <4>2, <4>3
      <3>5. FlowSound(f)' /\ ~InCall(f)'
        BY <3>1, <3>2 DEF FlowSound, At, InCall
      <3>6. OneCaller'
        BY <3>2, <3>5 DEF Rest, OneCaller, InCall
      <3>7. CallsSound'
        BY <2>1, <2>3, <3>1 DEF Rest, CallsSound, RowsSound, RowSound, Started, TypeOK, service
      <3>8. QED BY <3>3, <3>4, <3>5, <3>6, <3>7 DEF Rest, FlowsSound
    <2>4. QED BY <1>8, <2>2, <2>3 DEF ProposeInsert, WithStatus
  <1>9. ASSUME NEW f \in Flow, Approve(f) PROVE Rest'
    <2> DEFINE a == flow[f].act
    <2>1. UNCHANGED service
      BY <1>9 DEF Approve
    <2>2. CASE Ends(f) /\ UNCHANGED row
      BY <2>1, <2>2, EndsSound, SameRows, MildStep
    <2>3. CASE ~(Ends(f) /\ UNCHANGED row)
      <3>1. /\ row[a].status = "pending"
            /\ row' = [row EXCEPT ![a].status = "approved", ![a].via = flow[f].via]
            /\ flow' = [flow EXCEPT ![f] = [Idle EXCEPT !.pc = "run", !.act = a]]
        BY <1>9, <2>3 DEF Approve, MayApprove
      <3>2. a \in Id /\ row[a] \in Row /\ FlowSound(f) /\ At(f, "approve_txn")
        BY <1>9 DEF Approve, At, TypeOK, FlowState, Rest, FlowsSound
      <3>3. /\ row'[a] = [row[a] EXCEPT !.status = "approved", !.via = flow[f].via]
            /\ \A b \in Id \ {a} : row'[b] = row[b]
        BY <3>1, <3>2 DEF TypeOK
      <3>4. /\ row'[a].status = "approved" /\ row'[a].via = flow[f].via
            /\ row'[a].summary = row[a].summary
            /\ row'[a].expires = row[a].expires /\ row'[a].executed = row[a].executed
        BY <3>2, <3>3 DEF Row
      <3>5. /\ flow'[f].pc = "run" /\ flow'[f].act = a
            /\ \A g \in Flow \ {f} : flow'[g] = flow[g]
        BY <3>1 DEF TypeOK, Idle
      <3>0. row[a].status = "pending" /\ row[a].executed = None
        BY <3>1, <3>2 DEF Rest, RowsSound, RowSound, Started
      <3>a. flow[f].via # "no"
        BY <3>2 DEF FlowSound
      <3>6. RowsSound'
        <4>1. ASSUME NEW b \in Id, b = a PROVE RowSound(b)'
          BY <3>0, <3>a, <3>4, <4>1 DEF RowSound, Started
        <4>2. ASSUME NEW b \in Id, b # a PROVE RowSound(b)'
          BY <3>3, <4>2 DEF Rest, RowsSound, RowSound
        <4>3. QED BY <4>1, <4>2 DEF RowsSound
      <3>7. ASSUME NEW g \in Flow \ {f} PROVE FlowSound(g)'
        <4>1. FlowSound(g) /\ flow[g] \in FlowState
          BY DEF Rest, FlowsSound, TypeOK
        <4>2. CASE flow[g].pc \in {"idle", "insert"}
          BY <3>5, <4>2 DEF FlowSound, At, InCall
        <4>3. CASE flow[g].pc \notin {"idle", "insert"}
          <5>1. flow[g].act \in Id
            BY <4>1, <4>3 DEF FlowState
          <5>2. CASE flow[g].act = a
            BY <2>1, <3>0, <3>4, <3>5, <4>1, <5>2 DEF FlowSound, At, InCall, service
          <5>3. CASE flow[g].act # a
            BY <2>1, <3>3, <3>5, <4>1, <5>1, <5>3 DEF FlowSound, At, InCall, service
          <5>4. QED BY <5>2, <5>3
        <4>4. QED BY <4>2, <4>3
      <3>8. FlowSound(f)' /\ ~InCall(f)'
        BY <3>4, <3>5 DEF FlowSound, At, InCall
      <3>9. OneCaller'
        BY <3>5, <3>8 DEF Rest, OneCaller, InCall
      <3>10. CallsSound'
        BY ZenonT(60), <2>1, <3>3, <3>4 DEF Rest, CallsSound, service
      <3>11. QED BY <3>6, <3>7, <3>8, <3>9, <3>10 DEF Rest, FlowsSound
    <2>4. QED BY <2>2, <2>3
  <1>10. ASSUME NEW f \in Flow, RunTake(f) PROVE Rest'
    <2> DEFINE a == flow[f].act
    <2>1. UNCHANGED service /\ a \in Id /\ row[a] \in Row /\ At(f, "run_txn") /\ FlowSound(f)
      BY <1>10 DEF RunTake, At, TypeOK, FlowState, Rest, FlowsSound
    <2>2. CASE Ends(f) /\ UNCHANGED row
      BY <2>1, <2>2, EndsSound, SameRows, MildStep
    <2>3. CASE MayRun(a) /\ Ends(f) /\ row' = [row EXCEPT ![a].status = "failed"]
      <3>1. \A b \in Id : Mild(b)
        BY <2>1, <2>3 DEF Mild, MayRun, TypeOK, Row, Outcomes
      <3>2. QED BY <2>1, <2>3, <3>1, EndsSound, MildStep
    <2>4. CASE /\ MayRun(a) /\ ~CannotRun(a)
               /\ row' = [row EXCEPT ![a].status = "executing", ![a].executed = flow[f].now]
               /\ flow' = [flow EXCEPT ![f].pc = "effect", ![f].now = 0, ![f].doing = row[a].args]
      <3>1. row[a].status = "approved" /\ row[a].args = row[a].summary /\ row[a].executed = None
        BY <2>1, <2>4 DEF MayRun, CannotRun, Rest, RowsSound, RowSound, Started
      <3>2. flow[f].now \in Nat /\ flow[f].now # None /\ flow[f].now < row[a].expires
        BY <2>1, <3>1, NoneAssumption DEF FlowSound, TypeOK, FlowState, Memory, Row
      <3>3. /\ row'[a].status = "executing" /\ row'[a].executed = flow[f].now
            /\ row'[a].summary = row[a].summary
            /\ row'[a].expires = row[a].expires /\ row'[a].via = row[a].via
            /\ \A b \in Id \ {a} : row'[b] = row[b]
        BY <2>1, <2>4 DEF TypeOK, Row
      <3>4. /\ flow'[f].pc = "effect" /\ flow'[f].act = a /\ flow'[f].doing = row[a].args
            /\ \A g \in Flow \ {f} : flow'[g] = flow[g]
        BY <2>4 DEF TypeOK, FlowState, Memory
      <3>5. RowsSound'
        BY <3>1, <3>2, <3>3 DEF Rest, RowsSound, RowSound, Started
      <3>6. ASSUME NEW g \in Flow \ {f} PROVE FlowSound(g)' /\ (InCall(g) => flow[g].act # a)
        <4>1. FlowSound(g) /\ flow[g] \in FlowState
          BY DEF Rest, FlowsSound, TypeOK
        <4>2. CASE flow[g].pc \in {"idle", "insert"}
          BY <3>4, <4>2 DEF FlowSound, At, InCall
        <4>3. CASE flow[g].pc \notin {"idle", "insert"}
          <5>1. flow[g].act \in Id
            BY <4>1, <4>3 DEF FlowState
          <5>2. CASE flow[g].act = a
            BY <2>1, <3>1, <3>3, <3>4, <4>1, <5>2 DEF FlowSound, At, InCall, service
          <5>3. CASE flow[g].act # a
            BY <2>1, <3>3, <3>4, <4>1, <5>1, <5>3 DEF FlowSound, At, InCall, service
          <5>4. QED BY <5>2, <5>3
        <4>4. QED BY <4>2, <4>3
      <3>7. calls[a] = 0
        <4>1. calls[a] \in Nat /\ row[a].executed = None
          BY <2>1, <3>1 DEF TypeOK
        <4>2. \A b \in Id : calls[b] > 0 => row[b].executed # None
          BY DEF Rest, CallsSound
        <4>3. QED BY <2>1, <4>1, <4>2
      <3>8. FlowSound(f)'
        BY <2>1, <3>1, <3>2, <3>3, <3>4, <3>7 DEF FlowSound, At, InCall, service
      <3>9. OneCaller'
        BY <3>4, <3>6 DEF Rest, OneCaller, InCall
      <3>10. CallsSound'
        BY <2>1, <3>3, <3>7 DEF Rest, CallsSound, service
      <3>11. QED BY <3>5, <3>6, <3>8, <3>9, <3>10 DEF Rest, FlowsSound
    <2>5. QED BY <1>10, <2>2, <2>3, <2>4 DEF RunTake
  <1>11. ASSUME NEW f \in Flow, Effect(f) PROVE Rest'
    <2> DEFINE a == flow[f].act
    <2>1. UNCHANGED row /\ a \in Id /\ At(f, "effect") /\ FlowSound(f)
      BY <1>11 DEF Effect, At, TypeOK, FlowState, Rest, FlowsSound
    <2>2. /\ flow'[f].pc = "finish" /\ flow'[f].act = a
          /\ \A g \in Flow \ {f} : flow'[g] = flow[g]
      BY <1>11 DEF Effect, TypeOK, FlowState, Memory
    <2>3. /\ calls[a] = 0 /\ calls'[a] = 1 /\ performed'[a] = row[a].summary
          /\ row[a].executed # None
          /\ \A b \in Id \ {a} : calls'[b] = calls[b] /\ performed'[b] = performed[b]
      BY <1>11, <2>1 DEF Effect, TypeOK, FlowSound, InCall, At
    <2>4. RowsSound'
      BY <2>1 DEF Rest, RowsSound, RowSound
    <2>5. ASSUME NEW g \in Flow \ {f} PROVE FlowSound(g)'
      <3>1. FlowSound(g) /\ (At(g, "effect") => flow[g].act \in Id \ {a})
        BY <2>1 DEF Rest, FlowsSound, OneCaller, InCall, At, TypeOK, FlowState
      <3>2. QED BY <2>1, <2>2, <2>3, <3>1 DEF FlowSound, At, InCall
    <2>6. FlowSound(f)'
      BY <2>1, <2>2, <2>3 DEF FlowSound, At, InCall
    <2>7. OneCaller'
      BY <2>1, <2>2 DEF Rest, OneCaller, InCall, At
    <2>8. CallsSound'
      BY <2>1, <2>3 DEF Rest, CallsSound
    <2>9. QED BY <2>4, <2>5, <2>6, <2>7, <2>8 DEF Rest, FlowsSound
  <1>12. ASSUME NEW a \in Id, Reject(a) \/ Resolve(a) \/ EditRow(a) PROVE Rest'
    <2>1. UNCHANGED <<flow, service>>
      BY <1>12 DEF Reject, Resolve, EditRow
    <2>2. \A b \in Id : Mild(b)
      <3>1. row[a] \in Row
        BY DEF TypeOK
      <3>2. ASSUME NEW s \in Statuses, row' = [row EXCEPT ![a].status = s],
                   \/ row[a].status = "pending" /\ s = "rejected"
                   \/ row[a].status = "unknown" /\ s \in {"succeeded", "failed"}
            PROVE  \A b \in Id : Mild(b)
        BY <3>1, <3>2 DEF Mild, TypeOK, Row, Outcomes
      <3>3. CASE Reject(a)
        BY <3>2, <3>3 DEF Reject, Statuses
      <3>4. CASE Resolve(a)
        BY <3>2, <3>4 DEF Resolve, Statuses
      <3>5. CASE EditRow(a)
        BY <3>1, <3>5 DEF EditRow, Mild, TypeOK, Row
      <3>6. QED BY <1>12, <3>3, <3>4, <3>5
    <2>3. QED BY <2>1, <2>2, MildStill
  <1>13. CASE ExpireDue \/ Reconcile
    <2>1. \A b \in Id : Mild(b)
      BY <1>13, ExpiredMild DEF ExpireDue, Reconcile, CutOff, Mild, TypeOK, Row, Outcomes
    <2>2. QED BY <1>13, <2>1, MildStill DEF ExpireDue, Reconcile
  <1>14. CASE Tick \/ Pause \/ Resume \/ SetAuto \/ SetConnected \/ UNCHANGED vars
    <2>1. UNCHANGED <<row, flow, service>>
      BY <1>14, Zenon DEF Tick, Pause, Resume, SetAuto, SetConnected, vars, service
    <2>2. QED BY <2>1, SameRows, MildStill
  <1>15. QED
    BY <1>1, <1>2, <1>3, <1>4, <1>5, <1>6, <1>7, <1>8, <1>9, <1>10, <1>11, <1>12, <1>13, <1>14
       DEF Next, Alive, FlowStep, ShowOnPage, ShowInTerminal

LEMMA InitSound == Init => IInv
  <1> SUFFICES ASSUME Init PROVE IInv
    OBVIOUS
  <1>1. TypeOK
    BY RowType, IdleType DEF Init, TypeOK
  <1>2. RowsSound /\ CallsSound
    BY DEF Init, RowsSound, RowSound, CallsSound, EmptyRow, Started
  <1>3. FlowsSound /\ OneCaller
    BY DEF Init, FlowsSound, FlowSound, OneCaller, InCall, At, Idle
  <1>4. QED BY <1>1, <1>2, <1>3 DEF IInv

\* The inductive invariant of the gate: the table, the memories of the flows and
\* the count of calls agree at every moment, whatever interleaves or crashes.
THEOREM Invariant == Spec => []IInv
  <1>1. IInv /\ [Next]_vars => IInv'
    BY TypeStep, RestStep DEF IInv, Rest
  <1>2. QED BY <1>1, InitSound, PTL DEF Spec

\* However many flows run it, whichever of them die, an action is performed at
\* most once.
THEOREM PerformedAtMostOnce == Spec => []AtMostOnce
  <1>1. IInv => AtMostOnce
    BY DEF IInv, CallsSound, AtMostOnce
  <1>2. QED BY <1>1, Invariant, PTL

\* What is performed is what its description said, with an approval, and of an
\* action that was not refused and had not expired.
THEOREM PerformedAsShown == Spec => []OnlyWhatWasShown
  <1>1. IInv => OnlyWhatWasShown
    BY DEF IInv, CallsSound, RowsSound, RowSound, OnlyWhatWasShown
  <1>2. QED BY <1>1, Invariant, PTL

\* The look on which an action is taken is from before its day was over.
THEOREM TakenOnALookInTime == Spec => []LookedInTime
  <1>1. IInv => LookedInTime
    BY DEF IInv, RowsSound, RowSound, LookedInTime
  <1>2. QED BY <1>1, Invariant, PTL

\* What ended stands; what is in doubt is settled by the owner alone.
THEOREM DecisionsAreFinal == Spec => DecisionsStand
  <1> DEFINE Stands(a) ==
        /\ row[a].status \in Terminal => row'[a].status = row[a].status
        /\ row[a].status = "unknown" => row'[a].status = "unknown" \/ Resolve(a)
  <1>1. ASSUME IInv, Next, NEW a \in Id PROVE Stands(a)
    <2> USE DEF Terminal
    <2>1. TypeOK /\ row[a] \in Row
      BY <1>1 DEF IInv, TypeOK
    <2>2. CASE UNCHANGED row
      BY <2>2
    <2>3. CASE row' = Expired(clock)
      BY <2>1, <2>3 DEF Expired, NotDue, Row
    <2>4. ASSUME NEW b \in Id, NEW r, row' = [row EXCEPT ![b] = r],
                 row[b].status \in {"none", "pending", "approved"}
          PROVE  Stands(a)
      BY <2>1, <2>4 DEF TypeOK
    <2>5. ASSUME NEW f \in Flow, ProposeInsert(f) PROVE Stands(a)
      BY <2>2, <2>4, <2>5 DEF ProposeInsert, WithStatus
    <2>6. ASSUME NEW f \in Flow, Approve(f) PROVE Stands(a)
      <3>1. flow[f].act \in Id
        BY <2>1, <2>6 DEF Approve, At, TypeOK, FlowState
      <3>2. QED BY <2>2, <2>4, <2>6, <3>1 DEF Approve, MayApprove
    <2>7. ASSUME NEW f \in Flow, RunTake(f) PROVE Stands(a)
      <3>1. flow[f].act \in Id
        BY <2>1, <2>7 DEF RunTake, At, TypeOK, FlowState
      <3>2. QED BY ZenonT(60), <2>2, <2>4, <2>7, <3>1 DEF RunTake, MayRun
    <2>8. ASSUME NEW f \in Flow, RunFinish(f) PROVE Stands(a)
      BY <2>1, <2>8 DEF RunFinish, StillMine, TypeOK
    <2>9. ASSUME NEW b \in Id, Reject(b) \/ EditRow(b) PROVE Stands(a)
      BY <2>1, <2>9 DEF Reject, EditRow, TypeOK, Row
    <2>10. ASSUME NEW b \in Id, Resolve(b) PROVE Stands(a)
      BY <2>1, <2>10 DEF Resolve, TypeOK, Row
    <2>11. CASE Reconcile
      BY <2>1, <2>11 DEF Reconcile, CutOff, Row
    <2>12. ASSUME NEW f \in Flow,
                  ProposeBegin(f) \/ SettleProposal(f) \/ RunBegin(f) \/ Effect(f)
                    \/ ShowOnPage(f) \/ PressButton(f) \/ ShowInTerminal(f) \/ SayYes(f) \/ Crash(f)
           PROVE  UNCHANGED row \/ row' = Expired(clock)
      BY <2>12 DEF ProposeBegin, SettleProposal, RunBegin, Effect, ShowOnPage, PressButton,
                   ShowInTerminal, SayYes, Crash, Shows, ApproveBegin
    <2>13. CASE ExpireDue \/ Tick \/ Pause \/ Resume \/ SetAuto \/ SetConnected
      BY <2>2, <2>3, <2>13 DEF ExpireDue, Tick, Pause, Resume, SetAuto, SetConnected
    <2>14. QED
      BY <1>1, <2>2, <2>3, <2>5, <2>6, <2>7, <2>8, <2>9, <2>10, <2>11, <2>12, <2>13
         DEF Next, Alive, FlowStep
  <1>2. IInv /\ [Next]_vars => [\A a \in Id : Stands(a)]_vars
    BY <1>1
  <1>3. QED BY <1>2, Invariant, PTL DEF Spec, DecisionsStand

-------------------------------------------------------------------------------
(* The store implements the gate: each step is one of the gate's, or none.     *)

\* What an action's phase says of its row.
LEMMA PhaseIs ==
  ASSUME TypeOK, RowsSound, NEW a \in Id
  PROVE  /\ Phase(a) = "none" <=> row[a].status = "none"
         /\ Phase(a) = "waiting" <=> row[a].status = "pending"
         /\ Phase(a) = "cleared" <=> row[a].status = "approved"
         /\ Phase(a) = "started" <=> row[a].status = "executing"
         /\ Phase(a) = "doubt" <=> row[a].status = "unknown"
         /\ row[a].executed # None <=> Phase(a) \in {"started", "doubt", "settled"}
         /\ Phase(a) = "closed" <=> /\ row[a].executed = None
                                   /\ row[a].status \in {"rejected", "expired", "failed"}
  BY DEF TypeOK, Row, Statuses, RowsSound, RowSound, Started, Phase

LEMMA PhaseSame ==
  ASSUME NEW a \in Id, row'[a].status = row[a].status, row'[a].executed = row[a].executed
  PROVE  Phase(a)' = Phase(a)
  BY DEF Phase

\* The steps the gate knows: one action that moves, or several that are closed.
LEMMA MovesOne ==
  ASSUME NEW a \in Id, UNCHANGED calls, \A b \in Id \ {a} : Phase(b)' = Phase(b),
         \/ Phase(a) = "none" /\ Phase(a)' = "waiting"
         \/ Phase(a) = "waiting" /\ Phase(a)' = "cleared"
         \/ Phase(a) = "cleared" /\ Phase(a)' = "started"
         \/ Phase(a) \in {"started", "doubt"} /\ Phase(a)' = "settled"
  PROVE  Gate!GateNext
  <1> DEFINE P == [b \in Id |-> Phase(b)]
  <1>1. P[a] = Phase(a) /\ P' = [P EXCEPT ![a] = Phase(a)']
    OBVIOUS
  <1>2. Gate!GatePropose(a) \/ Gate!GateClear(a) \/ Gate!GateStart(a) \/ Gate!GateSettle(a)
    BY <1>1 DEF Gate!GatePropose, Gate!GateClear, Gate!GateStart, Gate!GateSettle, Gate!Becomes
  <1>3. QED BY <1>2 DEF Gate!GateNext

LEMMA MovesSet ==
  ASSUME NEW S \in SUBSET Id, UNCHANGED calls, \A b \in Id \ S : Phase(b)' = Phase(b),
         \/ \A b \in S : Phase(b) \in {"waiting", "cleared"} /\ Phase(b)' = "closed"
         \/ \A b \in S : Phase(b) = "started" /\ Phase(b)' = "doubt"
  PROVE  Gate!GateNext
  <1> DEFINE P == [b \in Id |-> Phase(b)]
  <1>1. Gate!GateClose(S) \/ Gate!GateDoubt(S)
    <2>1. CASE \A b \in S : Phase(b) \in {"waiting", "cleared"} /\ Phase(b)' = "closed"
      BY <2>1 DEF Gate!GateClose
    <2>2. CASE \A b \in S : Phase(b) = "started" /\ Phase(b)' = "doubt"
      BY <2>2 DEF Gate!GateDoubt
    <2>3. QED BY <2>1, <2>2
  <1>2. QED BY <1>1 DEF Gate!GateNext

LEMMA GateStill ==
  ASSUME UNCHANGED calls, \A a \in Id : Phase(a)' = Phase(a)
  PROVE  UNCHANGED <<[a \in Id |-> Phase(a)], calls>>
  OBVIOUS

\* Expiring closes a set of open actions.
LEMMA GateExpires ==
  ASSUME IInv, IInv', row' = Expired(clock), UNCHANGED calls
  PROVE  Gate!GateNext
  <1> DEFINE S == {a \in Id : ~NotDue(a, clock)}
  <1>1. ASSUME NEW a \in Id \ S PROVE Phase(a)' = Phase(a)
    BY PhaseSame DEF Expired
  <1>2. ASSUME NEW a \in S PROVE Phase(a) \in {"waiting", "cleared"} /\ Phase(a)' = "closed"
    <2>1. row[a].status \in {"pending", "approved"} /\ row[a] \in Row
      BY DEF NotDue, IInv, TypeOK
    <2>2. row'[a].status = "expired"
      BY <2>1 DEF Expired, Row
    <2>3. QED BY <2>1, <2>2 DEF Phase
  <1>3. QED BY <1>1, <1>2, MovesSet

LEMMA GateStep ==
  ASSUME IInv, IInv', [Next]_vars
  PROVE  Gate!GateNext \/ UNCHANGED <<[a \in Id |-> Phase(a)], calls>>
  <1> DEFINE Refines == Gate!GateNext \/ UNCHANGED <<[a \in Id |-> Phase(a)], calls>>
  <1>t. TypeOK /\ TypeOK' /\ RowsSound /\ RowsSound' /\ FlowsSound
    BY DEF IInv
  <1>s. ASSUME UNCHANGED <<row, calls>> PROVE Refines
    BY <1>s, PhaseSame, GateStill
  <1>x. ASSUME row' = Expired(clock), UNCHANGED calls PROVE Refines
    BY <1>x, GateExpires
  <1>1. ASSUME NEW f \in Flow, ProposeInsert(f) PROVE Refines
    <2>1. CASE UNCHANGED row
      BY <1>1, <2>1, <1>s DEF ProposeInsert, service
    <2>2. ASSUME NEW c \in Args, NEW m \in Message \cup {None}, NEW t \in BOOLEAN, NEW a \in Id,
                 row[a].status = "none",
                 row' = [row EXCEPT ![a] = NewRow(c, m, t, flow[f].now)]
          PROVE  Refines
      <3>1. row'[a].status = "pending" /\ \A b \in Id \ {a} : row'[b] = row[b]
        BY <1>t, <2>2 DEF TypeOK, NewRow, EmptyRow
      <3>2. Phase(a) = "none" /\ Phase(a)' = "waiting"
        BY <2>2, <3>1 DEF Phase
      <3>3. UNCHANGED calls /\ \A b \in Id \ {a} : Phase(b)' = Phase(b)
        BY <1>1, <3>1, PhaseSame DEF ProposeInsert, service
      <3>4. QED BY <3>2, <3>3, MovesOne
    <2>3. QED BY <1>1, <2>1, <2>2 DEF ProposeInsert, WithStatus
  <1>2. ASSUME NEW a \in Id, NEW r, row' = [row EXCEPT ![a] = r], UNCHANGED calls,
               \/ row[a].status = "pending" /\ r.status = "approved"
               \/ /\ row[a].status \in {"pending", "approved"}
                  /\ r.status = "rejected" \/ (r.status = "failed" /\ r.executed = None)
               \/ row[a].status = "approved" /\ r.status = "executing"
               \/ /\ row[a].status \in {"executing", "unknown"}
                  /\ r.status \in {"succeeded", "failed"} /\ r.executed # None
               \/ row[a].status = "executing" /\ r.status = "unknown"
        PROVE  Refines
    <2>1. row'[a] = r /\ \A b \in Id \ {a} : row'[b] = row[b]
      BY <1>t, <1>2 DEF TypeOK
    <2>2. \A b \in Id \ {a} : Phase(b)' = Phase(b)
      BY <2>1, PhaseSame
    <2>3. \/ Phase(a) = "waiting" /\ Phase(a)' = "cleared"
          \/ Phase(a) = "cleared" /\ Phase(a)' = "started"
          \/ Phase(a) \in {"started", "doubt"} /\ Phase(a)' = "settled"
          \/ Phase(a) \in {"waiting", "cleared"} /\ Phase(a)' = "closed"
          \/ Phase(a) = "started" /\ Phase(a)' = "doubt"
      BY <1>2, <2>1 DEF Phase
    <2>4. CASE \/ Phase(a) = "waiting" /\ Phase(a)' = "cleared"
               \/ Phase(a) = "cleared" /\ Phase(a)' = "started"
               \/ Phase(a) \in {"started", "doubt"} /\ Phase(a)' = "settled"
      BY <1>2, <2>2, <2>4, MovesOne
    <2>5. CASE \/ Phase(a) \in {"waiting", "cleared"} /\ Phase(a)' = "closed"
               \/ Phase(a) = "started" /\ Phase(a)' = "doubt"
      <3> DEFINE S == {a}
      <3>1. /\ S \in SUBSET Id /\ \A b \in Id \ S : Phase(b)' = Phase(b)
            /\ \/ \A b \in S : Phase(b) \in {"waiting", "cleared"} /\ Phase(b)' = "closed"
               \/ \A b \in S : Phase(b) = "started" /\ Phase(b)' = "doubt"
        BY <2>2, <2>5
      <3> HIDE DEF S
      <3>2. QED BY <1>2, <3>1, MovesSet
    <2>6. QED BY <2>3, <2>4, <2>5
  <1>3. ASSUME NEW f \in Flow, Approve(f) PROVE Refines
    <2>1. CASE UNCHANGED row
      BY <1>3, <2>1, <1>s DEF Approve, service
    <2>2. CASE ~UNCHANGED row
      <3> DEFINE a == flow[f].act
                 r == [row[a] EXCEPT !.status = "approved", !.via = flow[f].via]
      <3>1. a \in Id /\ row[a] \in Row
        BY <1>t, <1>3 DEF Approve, At, TypeOK, FlowState
      <3>2. row[a].status = "pending" /\ row' = [row EXCEPT ![a] = r] /\ UNCHANGED calls
        BY <1>3, <2>2 DEF Approve, MayApprove, service
      <3>3. r.status = "approved"
        BY <3>1 DEF Row
      <3>4. QED BY <1>2, <3>1, <3>2, <3>3
    <2>3. QED BY <2>1, <2>2
  <1>4. ASSUME NEW f \in Flow, RunTake(f) PROVE Refines
    <2> DEFINE a == flow[f].act
               failed == [row[a] EXCEPT !.status = "failed"]
               taken == [row[a] EXCEPT !.status = "executing", !.executed = flow[f].now]
    <2>1. a \in Id /\ row[a] \in Row /\ UNCHANGED calls
      BY <1>t, <1>4 DEF RunTake, At, TypeOK, FlowState, service
    <2>2. CASE UNCHANGED row
      BY <2>1, <2>2, <1>s
    <2>3. CASE row[a].status = "approved" /\ row' = [row EXCEPT ![a] = failed]
      <3>1. failed.status = "failed" /\ failed.executed = None
        BY <1>t, <2>1, <2>3 DEF Row, RowsSound, RowSound, Started
      <3>2. QED BY <1>2, <2>1, <2>3, <3>1
    <2>4. CASE row[a].status = "approved" /\ row' = [row EXCEPT ![a] = taken]
      <3>1. taken.status = "executing"
        BY <2>1 DEF Row
      <3>2. QED BY <1>2, <2>1, <2>4, <3>1
    <2>5. QED BY <1>4, <2>2, <2>3, <2>4 DEF RunTake, MayRun
  <1>5. ASSUME NEW f \in Flow, RunFinish(f) PROVE Refines
    <2> DEFINE a == flow[f].act
               ended == [row[a] EXCEPT !.status = flow[f].outcome]
    <2>1. /\ a \in Id /\ row[a] \in Row /\ UNCHANGED calls
          /\ flow[f].outcome \in Outcomes
      BY <1>t, <1>5 DEF RunFinish, At, TypeOK, FlowState, service
    <2>2. CASE UNCHANGED row
      BY <2>1, <2>2, <1>s
    <2>3. CASE row[a].status = "executing" /\ row' = [row EXCEPT ![a] = ended]
      <3>1. ended.status \in Outcomes /\ ended.executed # None
        BY <1>t, <2>1, <2>3 DEF Row, RowsSound, RowSound
      <3>2. QED BY <1>2, <2>1, <2>3, <3>1 DEF Outcomes
    <2>4. QED BY <1>5, <2>2, <2>3 DEF RunFinish, StillMine
  <1>6. ASSUME NEW f \in Flow, Effect(f) PROVE Refines
    <2> DEFINE a == flow[f].act
               P == [b \in Id |-> Phase(b)]
    <2>1. a \in Id /\ calls[a] = 0 /\ row[a].executed # None /\ UNCHANGED row
      BY <1>t, <1>6 DEF Effect, At, TypeOK, FlowState, FlowsSound, FlowSound, InCall
    <2>2. P' = P /\ calls' = [calls EXCEPT ![a] = 1]
      BY <1>6, <2>1, PhaseSame DEF Effect
    <2>3. P[a] \in {"started", "doubt", "settled"}
      BY <1>t, <2>1, PhaseIs
    <2>4. Gate!GatePerform(a)
      BY <2>1, <2>2, <2>3 DEF Gate!GatePerform
    <2>5. QED BY <2>1, <2>4 DEF Gate!GateNext
  <1>7. ASSUME NEW a \in Id, Reject(a) \/ Resolve(a) PROVE Refines
    <2>1. row[a] \in Row /\ UNCHANGED calls
      BY <1>t, <1>7 DEF TypeOK, Reject, Resolve, service
    <2>2. CASE Reject(a)
      <3>1. [row[a] EXCEPT !.status = "rejected"].status = "rejected"
        BY <2>1 DEF Row
      <3>2. QED BY <1>2, <2>1, <2>2, <3>1 DEF Reject
    <2>3. ASSUME NEW s \in {"succeeded", "failed"}, row[a].status = "unknown",
                 row' = [row EXCEPT ![a].status = s]
          PROVE  Refines
      <3>1. /\ [row[a] EXCEPT !.status = s].status = s
            /\ [row[a] EXCEPT !.status = s].executed # None
        BY <1>t, <2>1, <2>3 DEF Row, RowsSound, RowSound
      <3>2. QED BY <1>2, <2>1, <2>3, <3>1
    <2>4. QED BY <1>7, <2>2, <2>3 DEF Resolve
  <1>8. ASSUME NEW a \in Id, EditRow(a) PROVE Refines
    <2>1. \A b \in Id : row'[b].status = row[b].status /\ row'[b].executed = row[b].executed
      BY <1>t, <1>8 DEF EditRow, TypeOK, Row
    <2>2. QED BY <1>8, <2>1, PhaseSame, GateStill DEF EditRow, service
  <1>9. CASE Reconcile
    <2> DEFINE S == {a \in Id : CutOff(a)}
    <2>1. ASSUME NEW a \in Id \ S PROVE Phase(a)' = Phase(a)
      BY <1>9, PhaseSame DEF Reconcile
    <2>2. ASSUME NEW a \in S PROVE Phase(a) = "started" /\ Phase(a)' = "doubt"
      BY <1>t, <1>9 DEF Reconcile, CutOff, Phase, TypeOK, Row
    <2>3. QED BY <1>9, <2>1, <2>2, MovesSet DEF Reconcile, service
  <1>10. ASSUME NEW f \in Flow,
                ProposeBegin(f) \/ SettleProposal(f) \/ RunBegin(f) \/ ShowOnPage(f)
                  \/ PressButton(f) \/ ShowInTerminal(f) \/ SayYes(f) \/ Crash(f)
         PROVE  UNCHANGED calls /\ (UNCHANGED row \/ row' = Expired(clock))
    BY <1>10 DEF ProposeBegin, SettleProposal, RunBegin, ShowOnPage, PressButton,
                 ShowInTerminal, SayYes, Crash, Shows, ApproveBegin, service
  <1>11. CASE ExpireDue \/ Tick \/ Pause \/ Resume \/ SetAuto \/ SetConnected \/ UNCHANGED vars
    <2>1. UNCHANGED calls /\ (UNCHANGED row \/ row' = Expired(clock))
      BY <1>11, Zenon DEF ExpireDue, Tick, Pause, Resume, SetAuto, SetConnected, vars, service
    <2>2. QED BY <2>1, <1>s, <1>x
  <1>12. QED
    BY <1>s, <1>x, <1>1, <1>3, <1>4, <1>5, <1>6, <1>7, <1>8, <1>9, <1>10, <1>11
       DEF Next, Alive, FlowStep

\* The gate the design describes is what the code does: the whole store, with its
\* flows, clock, switches and crashes, is an implementation of ActionGate.
THEOREM ImplementsGate == Spec => GateSpec
  <1>1. Init => Gate!GateInit
    BY DEF Init, EmptyRow, Phase, Gate!GateInit
  <1>2. IInv /\ IInv' /\ [Next]_vars => [Gate!GateNext]_(Gate!gateVars)
    BY GateStep DEF Gate!gateVars
  <1>3. QED BY <1>1, <1>2, Invariant, PTL DEF Spec, GateSpec, Gate!GateSpec

-------------------------------------------------------------------------------
(* The limits of propose. *)

\* Every step but an insertion leaves the rows with their messages, and their hashes
\* if nobody edits them, and none becomes pending.
Settles(a) ==
  /\ row'[a].message = row[a].message
  /\ MaxEdits = 0 => row'[a].hash = row[a].hash
  /\ row'[a].status = "none" <=> row[a].status = "none"
  /\ row'[a].status = "pending" => row[a].status = "pending"

LEMMA SettlingLimits ==
  ASSUME WithinLimits, \A a \in Id : Settles(a)
  PROVE  WithinLimits'
  <1>1. WithStatus({"pending"})' \subseteq WithStatus({"pending"})
    BY DEF WithStatus, Settles
  <1>2. IsFiniteSet(WithStatus({"pending"})) /\ IsFiniteSet(WithStatus({"pending"}))'
    BY FiniteAssumption, FS_Subset DEF WithStatus
  <1>3. Cardinality(WithStatus({"pending"})') <= Cardinality(WithStatus({"pending"}))
    BY <1>1, <1>2, FS_Subset
  <1>4. Cardinality(WithStatus({"pending"})) \in Nat /\ Cardinality(WithStatus({"pending"})') \in Nat
    BY <1>2, FS_CardinalityType
  <1>5. \A m \in Message : FromMessage(m)' = FromMessage(m)
    BY DEF FromMessage, Settles
  <1>6. Cardinality(WithStatus({"pending"})') <= MaxPending
    BY <1>3, <1>4, LimitAssumption DEF WithinLimits
  <1>7. MaxEdits = 0 => \A a, b \in WithStatus({"pending"})' : row'[a].hash = row'[b].hash => a = b
    BY <1>1 DEF WithinLimits, WithStatus, Settles
  <1>8. QED BY <1>5, <1>6, <1>7 DEF WithinLimits

LEMMA InsertingLimits ==
  ASSUME TypeOK, WithinLimits, NEW c \in Args, NEW m \in Message \cup {None}, NEW a \in WithStatus({"none"}),
         NEW tainted \in BOOLEAN, NEW now \in Nat, ~Refused(c, m),
         row' = [row EXCEPT ![a] = NewRow(c, m, tainted, now)]
  PROVE  WithinLimits'
  <1>1. a \in Id /\ row[a].status = "none"
    BY DEF WithStatus
  <1>2. /\ row'[a].status = "pending" /\ row'[a].message = m /\ row'[a].hash = c
        /\ \A b \in Id \ {a} : row'[b] = row[b]
    BY <1>1 DEF TypeOK, NewRow, EmptyRow
  <1>3. \A S \in SUBSET Id :
          /\ IsFiniteSet(S) /\ Cardinality(S) \in Nat
          /\ Cardinality(S \cup {a}) = IF a \in S THEN Cardinality(S) ELSE Cardinality(S) + 1
    BY FiniteAssumption, FS_Subset, FS_CardinalityType, FS_AddElement
  <1>4. Cardinality(WithStatus({"pending"})') <= MaxPending
    <2>1. WithStatus({"pending"})' = WithStatus({"pending"}) \cup {a} /\ WithStatus({"pending"}) \in SUBSET Id
      BY <1>1, <1>2 DEF WithStatus
    <2>2. ~(Cardinality(WithStatus({"pending"})) >= MaxPending) /\ a \notin WithStatus({"pending"})
      BY <1>1 DEF Refused, WithStatus
    <2>3. QED BY <1>3, <2>1, <2>2, LimitAssumption
  <1>5. ASSUME NEW n \in Message PROVE Cardinality(FromMessage(n)') <= MaxPerTurn
    <2>1. FromMessage(n) \in SUBSET Id /\ a \notin FromMessage(n)
      BY <1>1 DEF FromMessage
    <2>2. CASE n = m
      <3>1. FromMessage(n)' = FromMessage(n) \cup {a}
        BY <1>1, <1>2, <2>2 DEF FromMessage
      <3>2. ~(Cardinality(FromMessage(n)) >= MaxPerTurn)
        BY <2>2, NoneAssumption DEF Refused
      <3>3. QED BY <1>3, <2>1, <3>1, <3>2, LimitAssumption
    <2>3. CASE n # m
      <3>1. FromMessage(n)' = FromMessage(n)
        BY <1>1, <1>2, <2>3 DEF FromMessage
      <3>2. QED BY <3>1 DEF WithinLimits
    <2>4. QED BY <2>2, <2>3
  <1>6. MaxEdits = 0 => \A b, d \in WithStatus({"pending"})' : row'[b].hash = row'[d].hash => b = d
    <2>1. \A b \in WithStatus({"pending"}) : row[b].hash # c
      BY DEF Refused, Waiting
    <2>2. WithStatus({"pending"})' = WithStatus({"pending"}) \cup {a}
      BY <1>1, <1>2 DEF WithStatus
    <2>3. \A b \in WithStatus({"pending"}) : b # a /\ row'[b] = row[b]
      BY <1>1, <1>2 DEF WithStatus
    <2>4. QED BY <1>2, <2>1, <2>2, <2>3 DEF WithinLimits
  <1>7. QED BY <1>4, <1>5, <1>6 DEF WithinLimits

LEMMA LimitsStep == IInv /\ WithinLimits /\ [Next]_vars => WithinLimits'
  <1> SUFFICES ASSUME IInv, WithinLimits, [Next]_vars PROVE WithinLimits'
    OBVIOUS
  <1>1. TypeOK /\ \A a \in Id : row[a] \in Row
    BY DEF IInv, TypeOK
  <1>2. CASE UNCHANGED row
    BY <1>2, SettlingLimits DEF Settles
  <1>3. CASE row' = Expired(clock)
    <2>1. \A a \in Id : Settles(a)
      BY <1>1, <1>3 DEF Expired, NotDue, Row, Settles
    <2>2. QED BY <2>1, SettlingLimits
  <1>4. ASSUME NEW a \in Id, NEW r \in Row, row' = [row EXCEPT ![a] = r], r.message = row[a].message, r.hash = row[a].hash,
               r.status # "none", row[a].status # "none", r.status = "pending" => row[a].status = "pending"
        PROVE  WithinLimits'
    <2>1. \A b \in Id : Settles(b)
      BY <1>1, <1>4 DEF TypeOK, Settles
    <2>2. QED BY <2>1, SettlingLimits
  <1>5. CASE \E f \in Flow : ProposeInsert(f)
    <2>1. PICK f \in Flow : ProposeInsert(f)
      BY <1>5
    <2>2. flow[f].now \in Nat
      BY <1>1 DEF TypeOK, FlowState, Memory
    <2>3. CASE UNCHANGED row
      BY <1>2, <2>3
    <2>4. CASE ~UNCHANGED row
      <3>1. PICK c \in Args, m \in Message \cup {None}, a \in WithStatus({"none"}), tainted \in BOOLEAN :
              ~Refused(c, m) /\ row' = [row EXCEPT ![a] = NewRow(c, m, tainted, flow[f].now)]
        BY <2>1, <2>4 DEF ProposeInsert
      <3>2. QED BY <1>1, <2>2, <3>1, InsertingLimits
    <2>5. QED BY <2>3, <2>4
  <1>6. ASSUME NEW f \in Flow, ProposeBegin(f) \/ SettleProposal(f) \/ PressButton(f) \/ SayYes(f) \/ RunBegin(f)
        PROVE  WithinLimits'
    BY <1>2, <1>3, <1>6 DEF ProposeBegin, SettleProposal, ApproveBegin, PressButton, SayYes, RunBegin
  <1>7. ASSUME NEW f \in Flow, Approve(f) PROVE WithinLimits'
    <2>1. CASE UNCHANGED row
      BY <1>2, <2>1
    <2>2. CASE ~UNCHANGED row
      <3> DEFINE a == flow[f].act
      <3>1. a \in Id /\ row[a].status = "pending"
            /\ row' = [row EXCEPT ![a] = [row[a] EXCEPT !.status = "approved", !.via = flow[f].via]]
        BY <1>1, <1>7, <2>2 DEF Approve, MayApprove, TypeOK, FlowState, At
      <3>2. flow[f].via \in Via /\ row[a] \in Row /\ "approved" \in Statuses
        BY <1>1, <3>1 DEF TypeOK, FlowState, Memory, Statuses
      <3>3. [row[a] EXCEPT !.status = "approved", !.via = flow[f].via] \in Row
        BY <3>2, RowUpdates
      <3>4. \A r : r = [row[a] EXCEPT !.status = "approved", !.via = flow[f].via] =>
              r.message = row[a].message /\ r.hash = row[a].hash /\ r.status = "approved"
        BY <3>2 DEF Row
      <3>5. QED BY <1>4, <3>1, <3>3, <3>4
    <2>3. QED BY <2>1, <2>2
  <1>8. ASSUME NEW a \in Id, NEW s \in Statuses \ {"none", "pending"}, row[a].status # "none",
               row' = [row EXCEPT ![a].status = s]
        PROVE  WithinLimits'
    <2>1. row' = [row EXCEPT ![a] = [row[a] EXCEPT !.status = s]]
      BY <1>1, <1>8 DEF TypeOK
    <2>2. [row[a] EXCEPT !.status = s] \in Row
      BY <1>1, Zenon DEF Row
    <2>3. \A r : r = [row[a] EXCEPT !.status = s] => r.message = row[a].message /\ r.hash = row[a].hash /\ r.status = s
      BY <1>1 DEF Row
    <2>4. QED BY <1>4, <1>8, <2>1, <2>2, <2>3
  <1>9. ASSUME NEW f \in Flow, RunTake(f) PROVE WithinLimits'
    <2> DEFINE a == flow[f].act
    <2>1. CASE UNCHANGED row
      BY <1>2, <2>1
    <2>2. CASE MayRun(a) /\ row' = [row EXCEPT ![a].status = "failed"]
      <3>1. a \in Id /\ row[a].status = "approved"
        BY <1>1, <1>9, <2>2 DEF RunTake, MayRun, TypeOK, FlowState, At
      <3>2. QED BY <1>8, <2>2, <3>1 DEF Statuses
    <2>3. CASE MayRun(a) /\ row' = [row EXCEPT ![a].status = "executing", ![a].executed = flow[f].now]
      <3>1. a \in Id /\ row[a].status = "approved" /\ flow[f].now \in Nat /\ row[a] \in Row
        BY <1>1, <1>9, <2>3 DEF RunTake, MayRun, TypeOK, FlowState, Memory, At
      <3>2. row' = [row EXCEPT ![a] = [row[a] EXCEPT !.status = "executing", !.executed = flow[f].now]]
        BY <1>1, <2>3, <3>1 DEF TypeOK
      <3>3. [row[a] EXCEPT !.status = "executing", !.executed = flow[f].now] \in Row
        <4>1. "executing" \in Statuses /\ "no" \in Via
          BY DEF Statuses, Via
        <4>2. QED BY <3>1, <4>1, RowUpdates
      <3>4. \A r : r = [row[a] EXCEPT !.status = "executing", !.executed = flow[f].now] =>
              r.message = row[a].message /\ r.hash = row[a].hash /\ r.status = "executing"
        BY <3>1 DEF Row
      <3>5. QED BY <1>4, <3>1, <3>2, <3>3, <3>4
    <2>4. QED BY <1>9, <2>1, <2>2, <2>3 DEF RunTake
  <1>10. ASSUME NEW f \in Flow, RunFinish(f) PROVE WithinLimits'
    <2> DEFINE a == flow[f].act
    <2>1. CASE UNCHANGED row
      BY <1>2, <2>1
    <2>2. CASE ~UNCHANGED row
      <3>1. a \in Id /\ row[a].status = "executing" /\ flow[f].outcome \in Outcomes
            /\ row' = [row EXCEPT ![a].status = flow[f].outcome]
        BY <1>1, <1>10, <2>2 DEF RunFinish, StillMine, TypeOK, FlowState, At
      <3>2. QED BY <1>8, <3>1 DEF Outcomes, Statuses
    <2>3. QED BY <2>1, <2>2
  <1>11. ASSUME NEW a \in Id, Reject(a) \/ Resolve(a) PROVE WithinLimits'
    BY <1>8, <1>11 DEF Reject, Resolve, Statuses
  <1>12. ASSUME NEW a \in Id, EditRow(a) PROVE WithinLimits'
    <2>1. row[a].status \in {"pending", "approved"} /\ row[a] \in Row
      BY <1>1, <1>12 DEF EditRow
    <2>0. MaxEdits # 0
      <3>1. IsFiniteSet({b \in Id : row[b].args # row[b].summary})
        BY FiniteAssumption, FS_Subset
      <3>2. QED BY <1>12, <3>1, FS_CardinalityType DEF EditRow
    <2>2. PICK c \in Args : \E h \in {row[a].hash, c} : row' = [row EXCEPT ![a].args = c, ![a].hash = h]
      BY <1>12 DEF EditRow
    <2>3. \A b \in Id : Settles(b)
      BY <1>1, <2>0, <2>2 DEF TypeOK, Row, Settles
    <2>4. QED BY <2>3, SettlingLimits
  <1>13. CASE Reconcile
    <2>1. \A a \in Id : Settles(a)
      BY <1>1, <1>13 DEF Reconcile, CutOff, Settles, Row
    <2>2. QED BY <2>1, SettlingLimits
  <1>14. CASE ExpireDue
    BY <1>3, <1>14 DEF ExpireDue
  <1>15. QED
    <2>1. CASE UNCHANGED vars
      BY <1>2, <2>1 DEF vars
    <2>2. ASSUME NEW f \in Flow, FlowStep(f) PROVE WithinLimits'
      BY <1>2, <1>5, <1>6, <1>7, <1>9, <1>10, <2>2 DEF FlowStep, Effect
    <2>3. CASE \E f \in Flow : ShowOnPage(f) \/ ShowInTerminal(f) \/ Crash(f)
      BY <1>2, <2>3 DEF ShowOnPage, ShowInTerminal, Shows, Crash
    <2>4. CASE Tick \/ Pause \/ Resume \/ SetAuto \/ SetConnected
      BY <1>2, <2>4 DEF Tick, Pause, Resume, SetAuto, SetConnected
    <2>5. QED
      BY <1>6, <1>11, <1>12, <1>13, <1>14, <2>1, <2>2, <2>3, <2>4 DEF Next, Alive

\* However many flows propose at once, no more than MAX_PENDING actions wait, no more than
\* MAX_PER_TURN came of one message, and nothing waits twice (Actions.propose).
THEOREM LimitsHold == Spec => []WithinLimits
  <1>1. Init => WithinLimits
    <2> SUFFICES ASSUME Init PROVE WithinLimits
      OBVIOUS
    <2>1. WithStatus({"pending"}) = {} /\ \A m \in Message : FromMessage(m) = {}
      BY DEF Init, WithStatus, FromMessage, EmptyRow
    <2>2. QED BY <2>1, FS_EmptySet, LimitAssumption DEF WithinLimits
  <1>2. QED BY <1>1, LimitsStep, Invariant, PTL DEF Spec
===============================================================================
