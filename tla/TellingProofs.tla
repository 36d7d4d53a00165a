----------------------------- MODULE TellingProofs -----------------------------
(* Theorems about Telling, for every number of reminders, series and lookers, any *)
(* limit on the messages of a pass and any number of mishaps (README,             *)
(* "Proofs"). What Schedule guarantees is kept, and used, by the notifier.        *)
EXTENDS Telling, ScheduleProofs

(* What a step of the notifier does to the tables of Schedule. *)

Recorded == \E r \in Reminder : MarkNotified(r)
Died == /\ looker' = [looker EXCEPT ![Notifier] = NotLooking]
        /\ UNCHANGED <<series, reminder, trail, clock>>

LEMMA TellingMoves ==
  ASSUME [TellingNext]_tellingVars, pass.pc = "mark" => pass.one \in Reminder
  PROVE  [ScheduleNext]_scheduleVars \/ Recorded \/ Died
  <1>1. CASE PassBegin
    BY <1>1, NotifierAssumption DEF PassBegin, ScheduleNext
  <1>2. CASE ReadDue \/ TellRest \/ FailRest \/ PassEnd \/ \E r \in Reminder : TellOne(r) \/ FailOne(r)
    <2>1. UNCHANGED scheduleVars
      BY <1>2 DEF ReadDue, TellRest, FailRest, PassEnd, TellOne, FailOne
    <2>2. QED BY <2>1
  <1>3. CASE MarkOne \/ \E r \in Reminder : MarkRest(r)
    BY <1>3 DEF MarkOne, MarkRest, Recorded
  <1>4. CASE PassDies
    BY <1>4 DEF PassDies, Died
  <1>5. CASE Elsewhere
    BY <1>5, NotifierAssumption DEF Elsewhere, ScheduleNext, Owner
  <1>6. CASE \E r \in Reminder : PushBack(r)
    BY <1>6 DEF PushBack, ScheduleNext, Owner
  <1>7. CASE UNCHANGED tellingVars
    BY <1>7 DEF tellingVars, scheduleVars
  <1>8. QED
    BY <1>1, <1>2, <1>3, <1>4, <1>5, <1>6, <1>7 DEF TellingNext, PassStep

LEMMA RecordingKeepsSchedule ==
  ASSUME SInv, Recorded
  PROVE  SInv'
  <1>1. ScheduleTypeOK /\ SoundInv
    BY DEF SInv
  <1>2. PICK r \in Reminder : MarkNotified(r)
    BY DEF Recorded
  <1>3. reminder[r] \in ReminderRow /\ [reminder[r] EXCEPT !.told = TRUE] \in ReminderRow
    BY <1>1, Zenon DEF ReminderRow, ScheduleTypeOK
  <1>4. ScheduleTypeOK'
    BY <1>1, <1>2, <1>3 DEF MarkNotified, ScheduleTypeOK
  <1>5. SoundInv'
    BY <1>1, <1>2, RemindersStep DEF MarkNotified, ScheduleTypeOK, ReminderRow
  <1>6. QED BY <1>4, <1>5 DEF SInv

LEMMA DyingKeepsSchedule ==
  ASSUME SInv, Died
  PROVE  SInv'
  <1> USE DEF Died
  <1>1. ScheduleTypeOK /\ SoundInv
    BY DEF SInv
  <1>2. ScheduleTypeOK'
    BY <1>1, EmptyRows DEF ScheduleTypeOK
  <1>3. \A l \in Looker : looker'[l].now <= clock
    BY <1>1 DEF ScheduleTypeOK, NotLooking, SoundInv, ScheduleSound
  <1>4. \A s : Of(s)' = Of(s) /\ Open(s)' = Open(s) /\ \A x : MadeFor(s, x)' = MadeFor(s, x)
    BY DEF Of, Open, MadeFor
  <1>5. ScheduleSound' /\ AtMostOneOpen' /\ OncePerFall'
    BY <1>1, <1>3, <1>4 DEF SoundInv, ScheduleSound, SeriesSound, Active, AtMostOneOpen, OncePerFall
  <1>6. QED BY <1>2, <1>5 DEF SInv, SoundInv

-------------------------------------------------------------------------------
(* The rows there are. *)

Made == {r \in Reminder : reminder[r].state # "none"}
Rows == SInv /\ BoundedInv /\ IsFiniteSet(Made)

\* No row is told or set for another time, and none is open and untold that was neither
\* that nor free before.
RowMoves(r) ==
  /\ reminder'[r].state = "none" => reminder[r].state = "none"
  /\ reminder'[r].told => reminder[r].told
  /\ reminder'[r].told \/ reminder[r].state # "none" => reminder'[r].due = reminder[r].due
  /\ reminder'[r].state = "open" /\ ~reminder'[r].told =>
       reminder[r].state = "none" \/ (reminder[r].state = "open" /\ ~reminder[r].told)

LEMMA ElsewhereRows ==
  ASSUME Rows, Elsewhere
  PROVE  IsFiniteSet(Made') /\ \A r \in Reminder : RowMoves(r)
  <1>1. ScheduleTypeOK /\ ScheduleSound
    BY DEF Rows, SInv, SoundInv
  <1>2. CASE UNCHANGED reminder
    BY <1>2 DEF Rows, Made, RowMoves
  <1>3. CASE AddReminder
    <2>1. PICK r \in Free : \E t : reminder' = [reminder EXCEPT ![r] = [NoReminder EXCEPT !.state = "open", !.due = t]]
      BY <1>3 DEF AddReminder
    <2>2. /\ r \in Reminder /\ reminder[r].state = "none" /\ reminder'[r].state = "open" /\ reminder'[r].told = FALSE
          /\ \A q \in Reminder \ {r} : reminder'[q] = reminder[q]
      BY <1>1, <2>1 DEF NoReminder, Free, ScheduleTypeOK
    <2>3. Made' = Made \cup {r}
      BY <2>2 DEF Made
    <2>4. IsFiniteSet(Made')
      BY <2>3, FS_AddElement DEF Rows
    <2>5. QED BY <2>2, <2>4 DEF RowMoves
  <1>4. CASE \E r \in Reminder : Complete(r)
    <2>1. PICK r \in Reminder : Complete(r)
      BY <1>4
    <2>2. /\ reminder[r].state = "open" /\ reminder'[r].state = "done" /\ reminder'[r].told = reminder[r].told
          /\ reminder'[r].due = reminder[r].due
          /\ \A q \in Reminder \ {r} : reminder'[q] = reminder[q]
      BY <1>1, <2>1 DEF Complete, ScheduleTypeOK, ReminderRow
    <2>3. Made' = Made
      BY <2>2 DEF Made
    <2>4. QED BY <2>2, <2>3 DEF Rows, RowMoves
  <1>5. CASE \E l \in Looker : Materialize(l)
    <2>1. PICK l, now, S, made : l \in Looker /\ Wrote(l, now, S, made)
      BY <1>1, <1>5, MaterializeWrites
    <2>2. made \in [S -> Free] /\ S \subseteq Active
      BY <2>1 DEF Wrote, Due
    <2>3. \A s \in S : /\ reminder'[made[s]].state = "open" /\ reminder'[made[s]].told = FALSE
                       /\ made[s] \in Reminder /\ reminder[made[s]].state = "none"
      <3> TAKE s \in S
      <3>1. reminder'[made[s]] = [state |-> "open", of |-> s, fall |-> Before(now), due |-> Before(now), told |-> FALSE]
        BY <2>1, Zenon DEF Wrote
      <3>2. made[s] \in Free
        BY <2>2
      <3>3. QED BY <3>1, <3>2 DEF Free
    <2>4. \A r \in Reminder : (\A s \in S : made[s] # r) =>
            /\ reminder'[r].told = reminder[r].told /\ reminder'[r].due = reminder[r].due
            /\ \/ reminder'[r].state = reminder[r].state
               \/ reminder[r].state = "open" /\ reminder'[r].state = "done"
      <3> SUFFICES ASSUME NEW r \in Reminder, \A s \in S : made[s] # r
                   PROVE  /\ reminder'[r].told = reminder[r].told /\ reminder'[r].due = reminder[r].due
                          /\ \/ reminder'[r].state = reminder[r].state
                             \/ reminder[r].state = "open" /\ reminder'[r].state = "done"
        OBVIOUS
      <3>1. reminder'[r] = IF Lapsed(r, S) THEN [reminder[r] EXCEPT !.state = "done"] ELSE reminder[r]
        BY <2>1, Zenon DEF Wrote
      <3>2. QED BY <1>1, <3>1 DEF Lapsed, ScheduleTypeOK, ReminderRow
    <2> DEFINE N == {made[s] : s \in S}
    <2>5. IsFiniteSet(N)
      <3>1. IsFiniteSet(S)
        BY <2>2, FS_Subset DEF Rows, BoundedInv
      <3>2. made \in Surjection(S, N)
        BY <2>2 DEF Surjection
      <3>3. QED BY <3>1, <3>2, FS_Surjection
    <2>6. Made' \subseteq Made \cup N
      BY <2>4 DEF Made
    <2>7. IsFiniteSet(Made')
      BY <2>5, <2>6, FS_Union, FS_Subset DEF Rows
    <2>8. \A r \in Reminder : RowMoves(r)
      BY <2>3, <2>4 DEF RowMoves
    <2>9. QED BY <2>7, <2>8
  <1>6. QED
    BY <1>2, <1>3, <1>4, <1>5
    DEF Elsewhere, OwnerSettles, ScheduleTick, Create, PauseSeries, ResumeSeries, Skip, Stop, Look, GiveUp

LEMMA TellingKeepsRows ==
  ASSUME Rows, [TellingNext]_tellingVars, pass.pc = "mark" => pass.one \in Reminder
  PROVE  Rows'
  <1>1. ScheduleTypeOK /\ ScheduleSound
    BY DEF Rows, SInv, SoundInv
  <1>2. SInv'
    BY TellingMoves, RecordingKeepsSchedule, DyingKeepsSchedule, ScheduleSteps DEF Rows
  <1>3. BoundedInv'
    <2>1. CASE UNCHANGED series
      BY <2>1, FewerActive DEF Active, Rows
    <2>2. CASE [ScheduleNext]_scheduleVars
      BY <2>2, StepsAreBounded DEF Rows
    <2>3. QED BY <2>1, <2>2, TellingMoves DEF Recorded, MarkNotified, Died
  <1>4. IsFiniteSet(Made')
    <2>1. CASE Elsewhere
      BY <2>1, ElsewhereRows
    <2>2. CASE \E r \in Reminder : PushBack(r)
      <3>1. Made' = Made
        BY <1>1, <2>2 DEF PushBack, Snooze, Made, ScheduleTypeOK, ReminderRow
      <3>2. QED BY <3>1 DEF Rows
    <2>3. CASE MarkOne \/ \E r \in Reminder : MarkRest(r)
      <3>1. Made' = Made
        BY <1>1, <2>3 DEF MarkOne, MarkRest, MarkNotified, Made, ScheduleTypeOK, ReminderRow
      <3>2. QED BY <3>1 DEF Rows
    <2>4. CASE UNCHANGED reminder
      BY <2>4 DEF Made, Rows
    <2>5. QED
      BY <2>1, <2>2, <2>3, <2>4
      DEF TellingNext, PassStep, tellingVars, PassBegin, Look, scheduleVars, ReadDue, TellRest, FailRest,
          PassEnd, TellOne, FailOne, PassDies
  <1>5. QED BY <1>2, <1>3, <1>4 DEF Rows

\* Every step: what a push-back and a recording do to the rows, and that no row goes.
LEMMA PushBackRows ==
  ASSUME Rows, NEW r \in Reminder, PushBack(r)
  PROVE  /\ reminder[r].state = "open" /\ reminder'[r].state = "open" /\ reminder'[r].told = FALSE
         /\ \A q \in Reminder \ {r} : reminder'[q] = reminder[q]
  BY DEF Rows, SInv, PushBack, Snooze, ScheduleTypeOK, ReminderRow

LEMMA MarkRows ==
  ASSUME Rows, NEW r \in Reminder, MarkNotified(r)
  PROVE  /\ reminder'[r].state = reminder[r].state /\ reminder'[r].due = reminder[r].due
         /\ reminder[r].state = "open" => reminder'[r].told = TRUE
         /\ reminder[r].state # "open" => reminder'[r] = reminder[r]
         /\ \A q \in Reminder \ {r} : reminder'[q] = reminder[q]
  BY DEF Rows, SInv, MarkNotified, ScheduleTypeOK, ReminderRow

LEMMA RowsStay ==
  ASSUME Rows, [TellingNext]_tellingVars, pass.pc = "mark" => pass.one \in Reminder
  PROVE  \A r \in Reminder : reminder[r].state # "none" => reminder'[r].state # "none"
  <1>1. CASE Elsewhere
    BY <1>1, ElsewhereRows DEF RowMoves
  <1>2. CASE \E r \in Reminder : PushBack(r)
    BY <1>2, PushBackRows
  <1>3. CASE MarkOne \/ \E r \in Reminder : MarkRest(r)
    BY <1>3, MarkRows DEF MarkOne, MarkRest
  <1>4. CASE UNCHANGED reminder
    BY <1>4
  <1>5. QED
    BY <1>1, <1>2, <1>3, <1>4
    DEF TellingNext, PassStep, tellingVars, PassBegin, Look, scheduleVars, ReadDue, TellRest, FailRest,
        PassEnd, TellOne, FailOne, PassDies

-------------------------------------------------------------------------------
(* The pass: what it still has to tell, and how many messages it may still show.  *)

Rest == IF pass.rest # {} /\ pass.pc # "markrest" THEN 1 ELSE 0
PassSound ==
  /\ pass \in Pass /\ IsFiniteSet(pass.singles)
  /\ Cardinality(pass.singles) <= MaxNotifications
  /\ pass.pc = "mark" => pass.one \in pass.singles
  /\ pass.pc \in {"idle", "read"} => pass.sent = 0 /\ pass.singles = {} /\ pass.rest = {}
  /\ pass.pc = "markrest" => pass.singles = {}
  /\ pass.singles \cap pass.rest = {}
  /\ \A r \in pass.singles \cup pass.rest : reminder[r].state # "none"
  /\ pass.sent + Cardinality(pass.singles) + Rest
       <= MaxNotifications + (IF pass.pc = "mark" THEN 1 ELSE 0)

LEMMA RestingIsSound ==
  ASSUME pass' = Resting
  PROVE  PassSound'
  <1>1. pass'.pc = "idle" /\ pass'.sent = 0 /\ pass'.singles = {} /\ pass'.rest = {}
    BY DEF Resting
  <1>2. pass' \in Pass
    BY DEF Resting, Pass
  <1>3. Rest' = 0
    BY <1>1 DEF Rest
  <1>4. IsFiniteSet({}) /\ Cardinality({}) = 0
    BY FS_EmptySet
  <1>5. QED BY <1>1, <1>2, <1>3, <1>4, NotifierAssumption DEF PassSound

LEMMA BeginIsSound ==
  ASSUME Rows, PassBegin
  PROVE  PassSound'
  <1>1. clock \in Nat
    BY DEF Rows, SInv, ScheduleTypeOK
  <1>2. pass' = [Resting EXCEPT !.pc = "read", !.now = clock]
    BY DEF PassBegin
  <1>3. pass'.pc = "read" /\ pass'.sent = 0 /\ pass'.singles = {} /\ pass'.rest = {}
    BY <1>2 DEF Resting
  <1>4. pass' \in Pass
    BY <1>1, <1>2 DEF Resting, Pass
  <1>5. Rest' = 0
    BY <1>3 DEF Rest
  <1>6. IsFiniteSet({}) /\ Cardinality({}) = 0
    BY FS_EmptySet
  <1>7. QED BY <1>3, <1>4, <1>5, <1>6, NotifierAssumption DEF PassSound

LEMMA ReadIsSound ==
  ASSUME Rows, PassSound, ReadDue
  PROVE  PassSound'
  <1> DEFINE W == Waiting(pass.now)
  <1>1. PICK S \in SUBSET W : Singles(W, S) /\ pass' = [pass EXCEPT !.pc = "tell", !.singles = S, !.rest = W \ S]
    BY DEF ReadDue
  <1>2. W \subseteq Made /\ W \subseteq Reminder
    BY DEF Waiting, Made
  <1> HIDE DEF W
  <1>3. IsFiniteSet(W) /\ IsFiniteSet(S)
    BY <1>2, FS_Subset DEF Rows
  <1>4. Cardinality(W) \in Nat /\ Cardinality(S) \in Nat
    BY <1>3, FS_CardinalityType
  <1>5. pass.pc = "read" /\ pass \in Pass /\ pass.sent = 0
    BY DEF ReadDue, PassSound
  <1>6. pass'.pc = "tell" /\ pass'.sent = 0 /\ pass'.singles = S /\ pass'.rest = W \ S
    BY <1>1, <1>5 DEF Pass
  <1>7. pass' \in Pass
    BY <1>1, <1>2, <1>5, ZenonT(60) DEF Pass
  <1>8. Cardinality(S) + Rest' <= MaxNotifications /\ Cardinality(S) <= MaxNotifications
    <2>1. CASE Cardinality(W) <= MaxNotifications
      BY <1>1, <1>4, <1>6, <2>1, NotifierAssumption DEF Singles, Rest
    <2>2. CASE ~(Cardinality(W) <= MaxNotifications)
      BY <1>1, <1>4, <1>6, <2>2, NotifierAssumption DEF Singles, Rest
    <2>3. QED BY <2>1, <2>2
  <1>9. \A r \in S \cup (W \ S) : reminder'[r].state # "none"
    BY <1>2 DEF ReadDue, scheduleVars, Made
  <1>10. Rest' \in Nat
    BY DEF Rest
  <1>11. QED BY <1>3, <1>4, <1>6, <1>7, <1>8, <1>9, <1>10, NotifierAssumption DEF PassSound

LEMMA TellOneIsSound ==
  ASSUME PassSound, NEW r \in Reminder, TellOne(r)
  PROVE  PassSound'
  <1>1. pass.pc = "tell" /\ r \in pass.singles /\ pass \in Pass /\ pass.sent \in Nat /\ pass.sent + 1 \in Nat
    BY DEF TellOne, PassSound, Pass
  <1>2. pass' = [pass EXCEPT !.pc = "mark", !.sent = @ + 1, !.one = r]
    BY DEF TellOne, AfterShow
  <1>3. /\ pass'.pc = "mark" /\ pass'.sent = pass.sent + 1 /\ pass'.one = r
        /\ pass'.singles = pass.singles /\ pass'.rest = pass.rest
    BY <1>1, <1>2 DEF Pass
  <1>4. pass' \in Pass
    BY <1>1, <1>2, ZenonT(60) DEF Pass
  <1>5. Rest' = Rest /\ Rest \in Nat
    BY <1>1, <1>3 DEF Rest
  <1>6. Cardinality(pass.singles) \in Nat
    BY FS_CardinalityType DEF PassSound
  <1>7. pass'.sent + Cardinality(pass'.singles) + Rest' <= MaxNotifications + 1
    BY <1>1, <1>3, <1>5, <1>6, NotifierAssumption DEF PassSound
  <1>8. \A q \in pass'.singles \cup pass'.rest : reminder'[q].state # "none"
    BY <1>3 DEF TellOne, scheduleVars, PassSound
  <1>9. QED BY <1>1, <1>3, <1>4, <1>7, <1>8 DEF PassSound

\* A reminder of the pass is dealt with: it was recorded, or could not be shown.
LEMMA DealtWithIsSound ==
  ASSUME PassSound, NEW r \in Reminder, r \in pass.singles, pass' \in Pass,
         pass'.pc = "tell", pass'.singles = pass.singles \ {r}, pass'.rest = pass.rest, pass'.sent = pass.sent,
         \A q \in Reminder : reminder[q].state # "none" => reminder'[q].state # "none",
         pass.pc \in {"tell", "mark"}
  PROVE  PassSound'
  <1>1. IsFiniteSet(pass'.singles) /\ Cardinality(pass'.singles) = Cardinality(pass.singles) - 1
    BY FS_RemoveElement DEF PassSound
  <1>2. Cardinality(pass.singles) \in Nat /\ Cardinality(pass'.singles) \in Nat
    BY <1>1, FS_CardinalityType DEF PassSound
  <1>3. Rest' = Rest /\ Rest \in Nat
    BY DEF Rest
  <1>4. pass.sent \in Nat /\ MaxNotifications \in Nat
    BY NotifierAssumption DEF PassSound, Pass
  <1>5. pass'.sent + Cardinality(pass'.singles) + Rest' <= MaxNotifications
    BY <1>1, <1>2, <1>3, <1>4 DEF PassSound
  <1>6. Cardinality(pass'.singles) <= MaxNotifications
    BY <1>1, <1>2, <1>4 DEF PassSound
  <1>7. \A q \in pass'.singles \cup pass'.rest : reminder'[q].state # "none"
    BY DEF PassSound, Pass
  <1>8. pass'.singles \cap pass'.rest = {}
    BY DEF PassSound
  <1>9. QED BY <1>1, <1>4, <1>5, <1>6, <1>7, <1>8 DEF PassSound

LEMMA RestIsSound ==
  ASSUME PassSound, TellRest
  PROVE  PassSound'
  <1>1. pass.pc = "tell" /\ pass.singles = {} /\ pass.rest # {} /\ pass \in Pass /\ pass.sent \in Nat /\ pass.sent + 1 \in Nat
    BY DEF TellRest, PassSound, Pass
  <1>2. pass' = [pass EXCEPT !.pc = "markrest", !.sent = @ + 1]
    BY DEF TellRest
  <1>3. /\ pass'.pc = "markrest" /\ pass'.sent = pass.sent + 1
        /\ pass'.singles = {} /\ pass'.rest = pass.rest
    BY <1>1, <1>2 DEF Pass
  <1>4. pass' \in Pass
    BY <1>1, <1>2, ZenonT(60) DEF Pass
  <1>5. Rest' = 0 /\ Rest = 1
    BY <1>1, <1>3 DEF Rest
  <1>6. IsFiniteSet({}) /\ Cardinality({}) = 0
    BY FS_EmptySet
  <1>7. pass'.sent + Cardinality(pass'.singles) + Rest' <= MaxNotifications
    BY <1>1, <1>3, <1>5, <1>6, NotifierAssumption DEF PassSound
  <1>8. \A q \in pass'.singles \cup pass'.rest : reminder'[q].state # "none"
    BY <1>3 DEF TellRest, scheduleVars, PassSound
  <1>9. QED BY <1>3, <1>4, <1>6, <1>7, <1>8, NotifierAssumption DEF PassSound

LEMMA MarkRestIsSound ==
  ASSUME Rows, PassSound, NEW r \in Reminder, MarkRest(r)
  PROVE  PassSound'
  <1>1. pass.pc = "markrest" /\ pass.singles = {} /\ pass \in Pass /\ pass.sent \in Nat
    BY DEF MarkRest, PassSound, Pass
  <1>2. pass' = [pass EXCEPT !.rest = @ \ {r}]
    BY DEF MarkRest
  <1>3. /\ pass'.pc = "markrest" /\ pass'.sent = pass.sent
        /\ pass'.singles = {} /\ pass'.rest = pass.rest \ {r}
    BY <1>1, <1>2 DEF Pass
  <1>4. pass' \in Pass
    <2>1. pass.rest \ {r} \in SUBSET Reminder
      BY <1>1 DEF Pass
    <2>2. QED BY <1>1, <1>2, <2>1, ZenonT(60) DEF Pass
  <1>5. Rest' = 0 /\ Rest = 0
    BY <1>1, <1>3 DEF Rest
  <1>6. IsFiniteSet({}) /\ Cardinality({}) = 0
    BY FS_EmptySet
  <1>7. pass'.sent + Cardinality(pass'.singles) + Rest' <= MaxNotifications
    BY <1>1, <1>3, <1>5, <1>6, NotifierAssumption DEF PassSound
  <1>8. \A q \in pass.rest : reminder[q].state # "none" /\ q \in Reminder
    BY DEF PassSound, Pass
  <1>9. \A q \in Reminder : reminder'[q].state = reminder[q].state
    BY MarkRows DEF MarkRest
  <1>10. \A q \in pass'.singles \cup pass'.rest : reminder'[q].state # "none"
    BY <1>3, <1>8, <1>9
  <1>11. QED BY <1>3, <1>4, <1>6, <1>7, <1>10, NotifierAssumption DEF PassSound

LEMMA PassStaysSound ==
  ASSUME Rows, PassSound, [TellingNext]_tellingVars
  PROVE  PassSound'
  <1>1. pass \in Pass /\ (pass.pc = "mark" => pass.one \in Reminder)
    BY DEF PassSound, Pass
  <1>2. CASE PassBegin
    BY <1>2, BeginIsSound
  <1>3. CASE ReadDue
    BY <1>3, ReadIsSound
  <1>4. CASE TellRest
    BY <1>4, RestIsSound
  <1>5. CASE FailRest \/ PassEnd \/ PassDies
    BY <1>5, RestingIsSound DEF FailRest, PassEnd, PassDies
  <1>6. CASE \E r \in Reminder : TellOne(r)
    BY <1>6, TellOneIsSound
  <1>7. CASE \E r \in Reminder : FailOne(r)
    <2>1. PICK r \in Reminder : FailOne(r)
      BY <1>7
    <2>2. pass' = [pass EXCEPT !.singles = @ \ {r}] /\ pass.pc = "tell" /\ r \in pass.singles /\ reminder' = reminder
      BY <2>1 DEF FailOne, AfterFailure, scheduleVars
    <2>3. pass.singles \ {r} \in SUBSET Reminder
      BY <1>1 DEF Pass
    <2>4. pass' \in Pass
      BY <1>1, <2>2, <2>3, ZenonT(60) DEF Pass
    <2>5. pass'.pc = "tell" /\ pass'.singles = pass.singles \ {r} /\ pass'.rest = pass.rest /\ pass'.sent = pass.sent
      BY <1>1, <2>2 DEF Pass
    <2>6. QED BY <2>2, <2>4, <2>5, DealtWithIsSound
  <1>8. CASE MarkOne
    <2>1. pass.pc = "mark" /\ MarkNotified(pass.one) /\ pass' = [pass EXCEPT !.pc = "tell", !.singles = @ \ {pass.one}, !.one = None]
      BY <1>8 DEF MarkOne
    <2>2. pass.one \in Reminder /\ pass.one \in pass.singles
      BY <1>1, <2>1 DEF PassSound
    <2>3. \A q \in Reminder : reminder[q].state # "none" => reminder'[q].state # "none"
      BY <1>1, RowsStay
    <2>4. pass.singles \ {pass.one} \in SUBSET Reminder
      BY <1>1 DEF Pass
    <2>5. pass' \in Pass
      BY <1>1, <2>1, <2>4, ZenonT(60) DEF Pass
    <2>6. pass'.pc = "tell" /\ pass'.singles = pass.singles \ {pass.one} /\ pass'.rest = pass.rest /\ pass'.sent = pass.sent
      BY <1>1, <2>1 DEF Pass
    <2>7. QED BY <2>1, <2>2, <2>3, <2>5, <2>6, DealtWithIsSound
  <1>9. CASE \E r \in Reminder : MarkRest(r)
    BY <1>9, MarkRestIsSound
  <1>10. CASE UNCHANGED pass
    <2>1. \A q \in Reminder : reminder[q].state # "none" => reminder'[q].state # "none"
      BY <1>1, RowsStay
    <2>2. \A q \in pass.singles \cup pass.rest : reminder'[q].state # "none"
      BY <1>1, <2>1 DEF PassSound, Pass
    <2>3. Rest' = Rest
      BY <1>10 DEF Rest
    <2>4. QED BY <1>10, <2>2, <2>3 DEF PassSound
  <1>11. QED
    BY <1>2, <1>3, <1>4, <1>5, <1>6, <1>7, <1>8, <1>9, <1>10
    DEF TellingNext, PassStep, tellingVars, Elsewhere, PushBack

-------------------------------------------------------------------------------
(* What was shown, and how often. *)

\* Reminders that were shown in this pass and are not recorded yet.
Pending == IF pass.pc = "mark" THEN {pass.one} ELSE IF pass.pc = "markrest" THEN pass.rest ELSE {}
\* Reminders the pass still has to show.
Ahead == IF pass.pc \in {"tell", "mark"} THEN (pass.singles \cup pass.rest) \ Pending ELSE {}

Seen(r) == shows[r] > 0 /\ shown[r] # None /\ shown[r] >= reminder[r].due

Screen ==
  /\ shown \in [Reminder -> Nat \cup {None}] /\ shows \in [Reminder -> Nat]
  /\ mishaps \in Nat /\ pushed \subseteq Reminder
  /\ \A r \in Reminder : reminder[r].told => r \in pushed \/ Seen(r)
  /\ \A r \in Pending : r \in pushed \/ Seen(r)
  /\ \A r \in Ahead : r \in pushed \/ (reminder[r].due \in Nat /\ reminder[r].due <= clock)

Counted ==
  /\ OnceUnlessMishap
  /\ \A r \in Reminder : reminder[r].state = "none" => shows[r] = 0
  /\ \A r \in Reminder : reminder[r].state = "open" /\ ~reminder[r].told /\ r \notin Pending => shows[r] <= mishaps
  /\ \A r \in Ahead : shows[r] <= mishaps

InPass == /\ Ahead \subseteq Reminder /\ Pending \subseteq Reminder
          /\ \A r \in Ahead \cup Pending : reminder[r].state # "none"
Onward == clock \in Nat /\ clock' \in Nat /\ clock <= clock'

\* A step that shows nothing, and leaves the pass as it is or takes reminders from it.
LEMMA ShowNothing ==
  ASSUME Screen, Counted, InPass, Onward,
         UNCHANGED <<shown, shows, pushed>>, mishaps' \in Nat, mishaps <= mishaps',
         \A r \in Reminder : RowMoves(r), Pending' \subseteq Pending, Ahead' \subseteq Ahead,
         \A r \in Pending \ Pending' : mishaps < mishaps'
  PROVE  Screen' /\ Counted'
  <1>1. \A r \in Reminder : shows[r] \in Nat /\ shows[r] <= 1 + mishaps /\ mishaps \in Nat
    BY DEF Screen, Counted, OnceUnlessMishap
  <1>2. Screen'
    <2>1. \A r \in Reminder : reminder'[r].told => r \in pushed' \/ Seen(r)'
      BY DEF Screen, Seen, RowMoves
    <2>2. \A r \in Ahead \cup Pending : reminder'[r].due = reminder[r].due
      BY DEF RowMoves, InPass
    <2>3. \A r \in Pending' : r \in pushed' \/ Seen(r)'
      BY <2>2 DEF Screen, Seen
    <2>4. \A r \in Ahead' : r \in pushed' \/ (reminder'[r].due \in Nat /\ reminder'[r].due <= clock')
      <3> SUFFICES ASSUME NEW r \in Ahead', r \notin pushed
                   PROVE  reminder'[r].due \in Nat /\ reminder'[r].due <= clock'
        OBVIOUS
      <3>1. reminder[r].due \in Nat /\ reminder[r].due <= clock /\ reminder'[r].due = reminder[r].due
        BY <2>2 DEF Screen
      <3>2. QED BY <3>1 DEF Onward
    <2>5. QED BY <2>1, <2>3, <2>4 DEF Screen
  <1>3. OnceUnlessMishap'
    BY <1>1 DEF OnceUnlessMishap
  <1>4. \A r \in Reminder : reminder'[r].state = "none" => shows[r] = 0
    BY DEF RowMoves, Counted
  <1>5. \A r \in Reminder : reminder'[r].state = "open" /\ ~reminder'[r].told /\ r \notin Pending' => shows[r] <= mishaps'
    <2> SUFFICES ASSUME NEW r \in Reminder, reminder'[r].state = "open", ~reminder'[r].told, r \notin Pending'
                 PROVE  shows[r] <= mishaps'
      OBVIOUS
    <2>1. CASE reminder[r].state = "none"
      BY <1>1, <2>1 DEF Counted
    <2>2. CASE reminder[r].state = "open" /\ ~reminder[r].told /\ r \notin Pending
      BY <1>1, <2>2 DEF Counted
    <2>3. CASE r \in Pending
      BY <1>1, <2>3
    <2>4. QED BY <2>1, <2>2, <2>3 DEF RowMoves
  <1>6. \A r \in Ahead' : shows[r] <= mishaps'
    BY <1>1 DEF Counted, InPass
  <1>7. QED BY <1>2, <1>3, <1>4, <1>5, <1>6 DEF Counted

\* The reminders of R are shown: they become the ones that are still to be recorded, or
\* the pass is told that it failed, and lets go of them.
LEMMA ShowThem ==
  ASSUME Screen, Counted, InPass, NEW R \in SUBSET Reminder, Show(R), R \subseteq Ahead, Pending = {},
         \/ Pending' = R /\ mishaps' = mishaps
         \/ Pending' = {} /\ mishaps' = mishaps + 1,
         Ahead' \subseteq Ahead \ R, UNCHANGED <<reminder, clock, pushed>>, clock \in Nat
  PROVE  Screen' /\ Counted'
  <1>1. /\ shown' \in [Reminder -> Nat \cup {None}]
        /\ \A r \in Reminder : shown'[r] = IF r \in R THEN clock ELSE shown[r]
    BY DEF Show, Screen
  <1>2. /\ shows' \in [Reminder -> Nat]
        /\ \A r \in Reminder : shows'[r] = IF r \in R THEN shows[r] + 1 ELSE shows[r]
    BY DEF Show, Screen
  <1>3. clock # None /\ mishaps \in Nat /\ mishaps' \in Nat /\ mishaps <= mishaps'
    BY NoReminderTime DEF Screen
  <1>4. Screen'
    <2>1. \A r \in R : r \in pushed' \/ Seen(r)'
      <3> SUFFICES ASSUME NEW r \in R, r \notin pushed PROVE Seen(r)'
        OBVIOUS
      <3>1. reminder[r].due \in Nat /\ reminder[r].due <= clock /\ shows[r] \in Nat
        BY DEF Screen
      <3>2. shown'[r] = clock /\ shows'[r] = shows[r] + 1
        BY <1>1, <1>2
      <3>3. QED BY <1>3, <3>1, <3>2 DEF Seen
    <2>2. \A r \in Reminder : reminder'[r].told => r \in pushed' \/ Seen(r)'
      <3> SUFFICES ASSUME NEW r \in Reminder, reminder[r].told, r \notin R
                   PROVE  r \in pushed \/ Seen(r)'
        BY <2>1
      <3>1. shown'[r] = shown[r] /\ shows'[r] = shows[r]
        BY <1>1, <1>2
      <3>2. QED BY <3>1 DEF Screen, Seen
    <2>3. \A r \in Ahead' : r \in pushed' \/ (reminder'[r].due \in Nat /\ reminder'[r].due <= clock')
      BY DEF Screen
    <2>4. \A r \in Pending' : r \in pushed' \/ Seen(r)'
      BY <2>1
    <2>5. QED BY <1>1, <1>2, <1>3, <2>2, <2>3, <2>4 DEF Screen
  <1>5. \A r \in Reminder : shows[r] \in Nat /\ shows[r] <= 1 + mishaps
    BY DEF Screen, Counted, OnceUnlessMishap
  <1>6. \A r \in Ahead : shows[r] <= mishaps
    BY DEF Counted
  <1>7. OnceUnlessMishap'
    BY <1>2, <1>3, <1>5, <1>6 DEF OnceUnlessMishap
  <1>8. \A r \in Reminder : reminder'[r].state = "none" => shows'[r] = 0
    BY <1>2 DEF Counted, InPass
  <1>9. \A r \in Reminder : reminder'[r].state = "open" /\ ~reminder'[r].told /\ r \notin Pending' => shows'[r] <= mishaps'
    <2> SUFFICES ASSUME NEW r \in Reminder, reminder[r].state = "open", ~reminder[r].told, r \notin Pending'
                 PROVE  shows'[r] <= mishaps'
      OBVIOUS
    <2>1. shows[r] <= mishaps /\ shows[r] \in Nat
      BY <1>5 DEF Counted
    <2>2. CASE r \in R
      <3>1. mishaps' = mishaps + 1 /\ shows'[r] = shows[r] + 1
        BY <1>2, <2>2
      <3>2. QED BY <1>3, <2>1, <3>1
    <2>3. CASE r \notin R
      <3>1. shows'[r] = shows[r]
        BY <1>2, <2>3
      <3>2. QED BY <1>3, <2>1, <3>1
    <2>4. QED BY <2>2, <2>3
  <1>10. \A r \in Ahead' : shows'[r] <= mishaps'
    <2> TAKE r \in Ahead'
    <2>1. r \in Ahead /\ r \in Reminder /\ r \notin R
      BY DEF InPass
    <2>2. shows'[r] = shows[r] /\ shows[r] <= mishaps /\ shows[r] \in Nat
      BY <1>2, <1>5, <1>6, <2>1
    <2>3. QED BY <1>3, <2>2
  <1>11. QED BY <1>4, <1>7, <1>8, <1>9, <1>10 DEF Counted

\* A reminder that was shown is recorded.
LEMMA RecordIt ==
  ASSUME Rows, Screen, Counted, InPass, NEW r \in Pending, MarkNotified(r),
         Pending' = Pending \ {r}, Ahead' \subseteq Ahead
  PROVE  Screen' /\ Counted'
  <1> r \in Reminder
    BY DEF InPass
  <1>1. UNCHANGED <<shown, shows, mishaps, pushed, clock>>
    BY DEF MarkNotified, screen, history
  <1>2. /\ reminder'[r].state = reminder[r].state /\ reminder'[r].due = reminder[r].due
        /\ reminder[r].state = "open" => reminder'[r].told = TRUE
        /\ \A q \in Reminder \ {r} : reminder'[q] = reminder[q]
    BY MarkRows
  <1>3. Screen'
    <2>1. \A q \in Reminder : reminder'[q].due = reminder[q].due
      BY <1>2
    <2>2. \A q \in Reminder : Seen(q)' <=> Seen(q)
      BY <1>1, <2>1 DEF Seen
    <2>3. \A q \in Reminder : reminder'[q].told => q \in pushed' \/ Seen(q)'
      BY <1>1, <1>2, <2>2 DEF Screen
    <2>4. \A q \in Pending' : q \in pushed' \/ Seen(q)'
      BY <1>1, <2>2 DEF Screen, InPass
    <2>5. \A q \in Ahead' : q \in pushed' \/ (reminder'[q].due \in Nat /\ reminder'[q].due <= clock')
      BY <1>1, <2>1 DEF Screen, InPass
    <2>6. QED BY <1>1, <2>3, <2>4, <2>5 DEF Screen
  <1>4. \A q \in Reminder : reminder'[q].state = "none" => shows'[q] = 0
    BY <1>1, <1>2 DEF Counted
  <1>5. \A q \in Reminder : reminder'[q].state = "open" /\ ~reminder'[q].told /\ q \notin Pending' => shows'[q] <= mishaps'
    BY <1>1, <1>2 DEF Counted
  <1>6. OnceUnlessMishap' /\ \A q \in Ahead' : shows'[q] <= mishaps'
    BY <1>1 DEF Counted, OnceUnlessMishap
  <1>7. QED BY <1>3, <1>4, <1>5, <1>6 DEF Counted

LEMMA PushItBack ==
  ASSUME Rows, PassSound, Screen, Counted, InPass, NEW r \in Reminder, PushBack(r)
  PROVE  Screen' /\ Counted'
  <1>0. Ahead \subseteq Reminder
    BY DEF InPass
  <1>1. /\ UNCHANGED <<pass, shown, mishaps, clock>> /\ Pending' = Pending /\ Ahead' = Ahead
        /\ shows' = [shows EXCEPT ![r] = 0]
    BY DEF PushBack, Snooze, Pending, Ahead
  <1>2. /\ shows' \in [Reminder -> Nat] /\ shows'[r] = 0 /\ mishaps \in Nat
        /\ \A q \in Reminder \ {r} : shows'[q] = shows[q]
    BY <1>1 DEF Screen
  <1>3. /\ reminder[r].state = "open" /\ reminder'[r].state = "open" /\ reminder'[r].told = FALSE
        /\ \A q \in Reminder \ {r} : reminder'[q] = reminder[q]
    BY PushBackRows
  <1>4. Screen'
    <2>1. \A q \in Reminder \ {r} : (Seen(q)' <=> Seen(q)) /\ (q \in pushed' <=> q \in pushed)
      BY <1>1, <1>2, <1>3 DEF Seen, PushBack
    <2>2. r \in Ahead \cup Pending => r \in pushed'
      <3>1. Ahead \cup Pending \subseteq InHand
        BY DEF Ahead, Pending, InHand, PassSound
      <3>2. QED BY <3>1 DEF PushBack
    <2>3. pushed' \subseteq Reminder
      BY DEF PushBack, Screen
    <2>4. \A q \in Reminder : reminder'[q].told => q \in pushed' \/ Seen(q)'
      <3> SUFFICES ASSUME NEW q \in Reminder, reminder'[q].told PROVE q \in pushed' \/ Seen(q)'
        OBVIOUS
      <3>1. q # r
        BY <1>3
      <3>2. reminder[q].told
        BY <1>3, <3>1
      <3>3. QED BY <2>1, <3>1, <3>2 DEF Screen
    <2>5. \A q \in Pending' : q \in pushed' \/ Seen(q)'
      <3> SUFFICES ASSUME NEW q \in Pending PROVE q \in pushed' \/ Seen(q)'
        BY <1>1
      <3>1. q \in Reminder /\ (q \in pushed \/ Seen(q))
        BY DEF Screen, InPass
      <3>2. QED BY <2>1, <2>2, <3>1
    <2>6. \A q \in Ahead' : q \in pushed' \/ (reminder'[q].due \in Nat /\ reminder'[q].due <= clock')
      BY <1>1, <1>3, <2>1, <2>2 DEF Screen, InPass
    <2>7. QED BY <1>1, <1>2, <2>3, <2>4, <2>5, <2>6 DEF Screen
  <1>5. OnceUnlessMishap'
    BY <1>1, <1>2 DEF Counted, OnceUnlessMishap
  <1>6. \A q \in Reminder : reminder'[q].state = "none" => shows'[q] = 0
    BY <1>2, <1>3 DEF Counted
  <1>7. \A q \in Reminder : reminder'[q].state = "open" /\ ~reminder'[q].told /\ q \notin Pending' => shows'[q] <= mishaps'
    BY <1>1, <1>2, <1>3 DEF Counted
  <1>8. \A q \in Ahead' : shows'[q] <= mishaps'
    BY <1>0, <1>1, <1>2 DEF Counted
  <1>9. QED BY <1>4, <1>5, <1>6, <1>7, <1>8 DEF Counted

LEMMA ReadIsCounted ==
  ASSUME Rows, PassSound, Screen, Counted, ReadDue, pass.now <= clock
  PROVE  Screen' /\ Counted'
  <1>1. pass.pc = "read" /\ pass \in Pass /\ Pending = {}
    BY DEF ReadDue, PassSound, Pending
  <1>2. PICK S \in SUBSET Waiting(pass.now) :
          pass' = [pass EXCEPT !.pc = "tell", !.singles = S, !.rest = Waiting(pass.now) \ S]
    BY DEF ReadDue
  <1>3. pass'.pc = "tell" /\ pass'.singles = S /\ pass'.rest = Waiting(pass.now) \ S
    BY <1>1, <1>2 DEF Pass
  <1>4. Pending' = {} /\ Ahead' \subseteq Waiting(pass.now)
    BY <1>3 DEF Pending, Ahead
  <1>5. \A r \in Waiting(pass.now) : shows[r] <= mishaps
    BY <1>1 DEF Counted, Waiting
  <1>6. UNCHANGED <<reminder, clock, shown, shows, mishaps>> /\ pushed' = pushed \ Waiting(pass.now)
    BY DEF ReadDue, scheduleVars, screen
  <1>7. Screen'
    <2>1. \A r \in Waiting(pass.now) : /\ r \in Reminder /\ ~reminder[r].told
                                       /\ reminder[r].due \in Nat /\ reminder[r].due <= clock
      <3> TAKE r \in Waiting(pass.now)
      <3>1. /\ r \in Reminder /\ ~reminder[r].told
            /\ reminder[r].due # None /\ reminder[r].due <= pass.now
        BY DEF Waiting
      <3>2. reminder[r].due \in Nat /\ pass.now \in Nat /\ clock \in Nat
        BY <1>1, <3>1 DEF Rows, SInv, ScheduleTypeOK, ReminderRow, Pass
      <3>3. QED BY <3>1, <3>2
    <2>2. \A r \in Reminder : Seen(r)' <=> Seen(r)
      BY <1>6 DEF Seen
    <2>3. \A r \in Reminder : reminder'[r].told => r \in pushed' \/ Seen(r)'
      BY <1>6, <2>1, <2>2 DEF Screen
    <2>4. \A r \in Ahead' : r \in pushed' \/ (reminder'[r].due \in Nat /\ reminder'[r].due <= clock')
      BY <1>4, <1>6, <2>1
    <2>5. QED BY <1>4, <1>6, <2>3, <2>4 DEF Screen
  <1>8. Counted'
    BY <1>1, <1>4, <1>5, <1>6 DEF Counted, OnceUnlessMishap
  <1>9. QED BY <1>7, <1>8

\* The clock goes on, and a pass reads it when it begins.
LEMMA ClockGoesOn ==
  ASSUME Rows, PassSound, pass.now <= clock, [TellingNext]_tellingVars
  PROVE  Onward /\ pass'.now <= clock'
  <1>1. clock \in Nat /\ pass \in Pass /\ pass.now \in Nat
    BY DEF Rows, SInv, ScheduleTypeOK, PassSound, Pass
  <1>2. CASE ScheduleTick /\ pass' = pass
    BY <1>1, <1>2 DEF ScheduleTick, Onward
  <1>3. CASE UNCHANGED clock
    <2>1. pass'.now \in {pass.now, clock, 0}
      <3>1. CASE PassBegin
        BY <1>1, <3>1 DEF PassBegin, Resting
      <3>2. CASE FailRest \/ PassEnd \/ PassDies
        BY <3>2 DEF FailRest, PassEnd, PassDies, Resting
      <3>3. CASE \/ ReadDue \/ TellRest \/ MarkOne
                 \/ \E r \in Reminder : TellOne(r) \/ FailOne(r) \/ MarkRest(r)
        BY <1>1, <3>3 DEF ReadDue, TellRest, MarkOne, TellOne, FailOne, MarkRest, AfterShow, AfterFailure, Pass
      <3>4. CASE UNCHANGED pass
        BY <3>4
      <3>5. QED
        BY <3>1, <3>2, <3>3, <3>4 DEF TellingNext, PassStep, tellingVars, PushBack, Elsewhere
    <2>2. QED BY <1>1, <1>3, <2>1 DEF Onward
  <1>4. QED
    BY <1>2, <1>3
    DEF TellingNext, PassStep, tellingVars, PassBegin, Look, ReadDue, TellRest, FailRest, PassEnd, TellOne,
        FailOne, MarkOne, MarkRest, MarkNotified, PassDies, PushBack, Snooze, Elsewhere, OwnerSettles,
        Create, PauseSeries, ResumeSeries, Skip, Stop, Complete, AddReminder, Materialize, GiveUp, scheduleVars

LEMMA StaysCounted ==
  ASSUME Rows, PassSound, Screen, Counted, pass.now <= clock, [TellingNext]_tellingVars
  PROVE  Screen' /\ Counted'
  <1>1. /\ pass \in Pass /\ (pass.pc = "mark" => pass.one \in pass.singles)
        /\ pass.singles \subseteq Reminder /\ pass.rest \subseteq Reminder
        /\ mishaps \in Nat /\ mishaps <= mishaps
    BY DEF PassSound, Pass, Screen
  <1>0. InPass /\ Onward /\ clock \in Nat
    <2>1. Ahead \cup Pending \subseteq pass.singles \cup pass.rest
      BY <1>1 DEF Ahead, Pending
    <2>2. QED BY <1>1, <2>1, ClockGoesOn DEF InPass, PassSound, Onward
  <1>2. UNCHANGED reminder => \A r \in Reminder : RowMoves(r)
    <2>1. \A r \in Reminder : reminder[r].state \in {"none", "open", "done"}
      BY DEF Rows, SInv, ScheduleTypeOK, ReminderRow
    <2>2. QED BY <2>1 DEF RowMoves
  <1>3. CASE PassBegin
    <2>1. UNCHANGED <<reminder, shown, shows, mishaps, pushed>> /\ pass.pc = "idle" /\ pass'.pc = "read"
      BY <1>3 DEF PassBegin, Look, scheduleVars, screen, history, Resting
    <2>2. Pending' = {} /\ Pending = {} /\ Ahead' = {}
      BY <2>1 DEF Pending, Ahead
    <2>3. QED BY <1>0, <1>1, <1>2, <2>1, <2>2, ShowNothing
  <1>4. CASE ReadDue
    BY <1>4, ReadIsCounted
  <1>5. CASE PassEnd
    <2>1. /\ UNCHANGED <<reminder, shown, shows, mishaps, pushed>> /\ pass'.pc = "idle"
          /\ pass.pc = "tell" \/ (pass.pc = "markrest" /\ pass.rest = {})
      BY <1>5 DEF PassEnd, scheduleVars, screen, history, Resting
    <2>2. Pending' = {} /\ Pending = {} /\ Ahead' = {}
      BY <2>1 DEF Pending, Ahead
    <2>3. QED BY <1>0, <1>1, <1>2, <2>1, <2>2, ShowNothing
  <1>6. CASE PassDies
    <2>1. UNCHANGED <<reminder, shown, shows, pushed>> /\ mishaps' = mishaps + 1 /\ pass'.pc = "idle"
      BY <1>6 DEF PassDies, screen, Resting
    <2>2. Pending' = {} /\ Ahead' = {} /\ mishaps' \in Nat /\ mishaps <= mishaps' /\ mishaps < mishaps'
      BY <1>1, <2>1 DEF Pending, Ahead
    <2>3. QED BY <1>0, <1>1, <1>2, <2>1, <2>2, ShowNothing
  <1>7. CASE \E r \in Reminder : FailOne(r)
    <2>1. PICK r \in Reminder : FailOne(r)
      BY <1>7
    <2>2. /\ UNCHANGED <<reminder, clock, pushed>> /\ pass.pc = "tell" /\ r \in pass.singles
          /\ pass' = [pass EXCEPT !.singles = @ \ {r}] /\ Failed({r})
      BY <2>1 DEF FailOne, AfterFailure, scheduleVars
    <2>3. pass'.pc = "tell" /\ pass'.singles = pass.singles \ {r} /\ pass'.rest = pass.rest
      BY <1>1, <2>2 DEF Pass
    <2>4. /\ Pending' = {} /\ Pending = {} /\ Ahead' \subseteq Ahead
          /\ {r} \subseteq Ahead /\ {r} \in SUBSET Reminder
      BY <2>2, <2>3 DEF Pending, Ahead
    <2>5. CASE UNCHANGED <<screen, mishaps>>
      BY <1>0, <1>1, <1>2, <2>2, <2>4, <2>5, ShowNothing DEF screen
    <2>6. CASE Show({r}) /\ mishaps' = mishaps + 1
      <3>1. Ahead' \subseteq Ahead \ {r}
        BY <2>2, <2>3, <2>4 DEF Ahead, Pending, PassSound
      <3>2. QED BY <1>0, <2>2, <2>4, <2>6, <3>1, ShowThem
    <2>7. QED BY <2>2, <2>5, <2>6 DEF Failed
  <1>7a. CASE FailRest
    <2>1. /\ UNCHANGED <<reminder, clock, pushed>> /\ pass.pc = "tell" /\ pass.singles = {}
          /\ pass'.pc = "idle" /\ Failed(pass.rest)
      BY <1>7a DEF FailRest, scheduleVars, Resting
    <2>2. /\ Pending' = {} /\ Pending = {} /\ Ahead' = {}
          /\ pass.rest \subseteq Ahead /\ pass.rest \in SUBSET Reminder
      BY <1>1, <2>1 DEF Pending, Ahead
    <2>3. CASE UNCHANGED <<screen, mishaps>>
      BY <1>0, <1>1, <1>2, <2>1, <2>2, <2>3, ShowNothing DEF screen
    <2>4. CASE Show(pass.rest) /\ mishaps' = mishaps + 1
      BY <1>0, <2>1, <2>2, <2>4, ShowThem
    <2>5. QED BY <2>1, <2>3, <2>4 DEF Failed
  <1>8. CASE Elsewhere
    <2>1. UNCHANGED <<pass, shown, shows, mishaps, pushed>>
      BY <1>8 DEF Elsewhere, screen, history
    <2>2. Pending' = Pending /\ Ahead' = Ahead
      BY <2>1 DEF Pending, Ahead
    <2>3. \A r \in Reminder : RowMoves(r)
      BY <1>8, ElsewhereRows
    <2>4. QED BY <1>0, <1>1, <2>1, <2>2, <2>3, ShowNothing
  <1>9. CASE UNCHANGED tellingVars
    <2>1. UNCHANGED <<pass, shown, shows, mishaps, pushed, reminder>>
      BY <1>9 DEF tellingVars
    <2>2. Pending' = Pending /\ Ahead' = Ahead
      BY <2>1 DEF Pending, Ahead
    <2>3. QED BY <1>0, <1>1, <1>2, <2>1, <2>2, ShowNothing
  <1>10. CASE \E r \in Reminder : TellOne(r)
    <2>1. PICK r \in Reminder : TellOne(r)
      BY <1>10
    <2>2. /\ UNCHANGED <<reminder, clock, mishaps, pushed>> /\ pass.pc = "tell" /\ r \in pass.singles
          /\ Show({r}) /\ pass' = [pass EXCEPT !.pc = "mark", !.sent = @ + 1, !.one = r]
      BY <2>1 DEF TellOne, AfterShow, scheduleVars, history
    <2>3. pass'.pc = "mark" /\ pass'.one = r /\ pass'.singles = pass.singles /\ pass'.rest = pass.rest
      BY <1>1, <2>2 DEF Pass
    <2>4. Pending = {} /\ Pending' = {r} /\ {r} \subseteq Ahead /\ Ahead' \subseteq Ahead \ {r} /\ {r} \in SUBSET Reminder
      BY <2>2, <2>3 DEF Pending, Ahead
    <2>5. QED BY <1>0, <2>2, <2>4, ShowThem
  <1>11. CASE TellRest
    <2>1. /\ UNCHANGED <<reminder, clock, mishaps, pushed>> /\ pass.pc = "tell" /\ pass.singles = {}
          /\ Show(pass.rest) /\ pass' = [pass EXCEPT !.pc = "markrest", !.sent = @ + 1]
      BY <1>11 DEF TellRest, scheduleVars, history
    <2>2. pass'.pc = "markrest" /\ pass'.singles = {} /\ pass'.rest = pass.rest
      BY <1>1, <2>1 DEF Pass
    <2>3. Pending = {} /\ Pending' = pass.rest /\ pass.rest \subseteq Ahead /\ Ahead' \subseteq Ahead \ pass.rest /\ pass.rest \in SUBSET Reminder
      BY <1>1, <2>1, <2>2 DEF Pending, Ahead
    <2>4. QED BY <1>0, <2>1, <2>3, ShowThem
  <1>12. CASE MarkOne
    <2>1. /\ pass.pc = "mark" /\ MarkNotified(pass.one)
          /\ pass' = [pass EXCEPT !.pc = "tell", !.singles = @ \ {pass.one}, !.one = None]
      BY <1>12 DEF MarkOne
    <2>2. pass'.pc = "tell" /\ pass'.singles = pass.singles \ {pass.one} /\ pass'.rest = pass.rest
      BY <1>1, <2>1 DEF Pass
    <2>3. pass.one \notin pass.rest
      BY <1>1, <2>1 DEF PassSound
    <2>4. pass.one \in Pending /\ pass.one \in Reminder /\ Pending' = Pending \ {pass.one} /\ Ahead' \subseteq Ahead
      BY <1>1, <2>1, <2>2, <2>3 DEF Pending, Ahead
    <2>5. QED BY <1>0, <2>1, <2>4, RecordIt
  <1>13. CASE \E r \in Reminder : MarkRest(r)
    <2>1. PICK r \in Reminder : MarkRest(r)
      BY <1>13
    <2>2. pass.pc = "markrest" /\ r \in pass.rest /\ MarkNotified(r) /\ pass' = [pass EXCEPT !.rest = @ \ {r}]
      BY <2>1 DEF MarkRest
    <2>3. pass'.pc = "markrest" /\ pass'.rest = pass.rest \ {r}
      BY <1>1, <2>2 DEF Pass
    <2>4. r \in Pending /\ Pending' = Pending \ {r} /\ Ahead' = {}
      BY <2>2, <2>3 DEF Pending, Ahead
    <2>5. QED BY <1>0, <2>2, <2>4, RecordIt
  <1>14. CASE \E r \in Reminder : PushBack(r)
    BY <1>0, <1>14, PushItBack
  <1>15. QED
    BY <1>3, <1>4, <1>5, <1>6, <1>7, <1>8, <1>9, <1>10, <1>11, <1>12, <1>13, <1>14,
       <1>7a
    DEF TellingNext, PassStep

-------------------------------------------------------------------------------
(* The invariant. *)

TInv == Rows /\ PassSound /\ pass.now <= clock /\ Screen /\ Counted

LEMMA TellingStarts == TellingInit => TInv
  <1> SUFFICES ASSUME TellingInit PROVE TInv
    OBVIOUS
  <1> USE DEF TellingInit
  <1>1. IsFiniteSet({}) /\ Cardinality({}) = 0
    BY FS_EmptySet
  <1>2. SInv
    BY ScheduleStarts
  <1>3. Active = {} /\ Made = {} /\ \A r \in Reminder : reminder[r].state = "none" /\ ~reminder[r].told
    BY DEF ScheduleInit, Active, Made, NoSeries, NoReminder
  <1>4. Rows
    BY <1>1, <1>2, <1>3, ScheduleLimits DEF Rows, BoundedInv, ActiveSeriesBounded
  <1>5. pass.pc = "idle" /\ pass.sent = 0 /\ pass.singles = {} /\ pass.rest = {} /\ pass \in Pass
        /\ pass.now <= clock
    BY DEF Resting, Pass, ScheduleInit
  <1>6. Rest = 0 /\ Pending = {} /\ Ahead = {}
    BY <1>5 DEF Rest, Pending, Ahead
  <1>7. PassSound
    BY <1>1, <1>5, <1>6, NotifierAssumption DEF PassSound
  <1>8. Screen
    BY <1>3, <1>6 DEF Screen
  <1>9. Counted
    BY <1>6 DEF Counted, OnceUnlessMishap
  <1>10. QED BY <1>4, <1>5, <1>7, <1>8, <1>9 DEF TInv

LEMMA TellingSteps == TInv /\ [TellingNext]_tellingVars => TInv'
  <1> SUFFICES ASSUME TInv, [TellingNext]_tellingVars PROVE TInv'
    OBVIOUS
  <1>1. Rows /\ PassSound /\ Screen /\ Counted /\ pass.now <= clock
    BY DEF TInv
  <1>2. pass.pc = "mark" => pass.one \in Reminder
    BY <1>1 DEF PassSound, Pass
  <1>3. Rows'
    BY <1>1, <1>2, TellingKeepsRows
  <1>4. PassSound'
    BY <1>1, PassStaysSound
  <1>5. Screen' /\ Counted'
    BY <1>1, StaysCounted
  <1>6. pass'.now <= clock'
    BY <1>1, ClockGoesOn
  <1>7. QED BY <1>3, <1>4, <1>5, <1>6 DEF TInv

LEMMA TInvImplies == TInv => TellingTypeOK /\ NeverUnshown /\ OnceUnlessMishap /\ NoFlood /\ ScheduleInv
  <1> SUFFICES ASSUME TInv PROVE TellingTypeOK /\ NeverUnshown /\ OnceUnlessMishap /\ NoFlood /\ ScheduleInv
    OBVIOUS
  <1>1. TellingTypeOK
    BY DEF TInv, Rows, SInv, PassSound, Screen, TellingTypeOK
  <1>2. NeverUnshown /\ OnceUnlessMishap
    BY DEF TInv, Screen, Seen, Counted, NeverUnshown
  <1>3. NoFlood
    <2>1. Cardinality(pass.singles) \in Nat /\ pass.sent \in Nat /\ Rest \in Nat /\ MaxNotifications \in Nat
      BY FS_CardinalityType, NotifierAssumption DEF TInv, PassSound, Pass, Rest
    <2>2. pass.pc = "mark" => Cardinality(pass.singles) # 0
      BY FS_EmptySet DEF TInv, PassSound
    <2>3. pass.sent + Cardinality(pass.singles) + Rest <= MaxNotifications + (IF pass.pc = "mark" THEN 1 ELSE 0)
      BY DEF TInv, PassSound
    <2>4. QED BY <2>1, <2>2, <2>3 DEF NoFlood
  <1>4. ScheduleInv
    BY SInvImplies DEF TInv, Rows
  <1>5. QED BY <1>1, <1>2, <1>3, <1>4

LEMMA TellingInvariant == TellingSpec => []TInv
  BY TellingStarts, TellingSteps, PTL DEF TellingSpec

\* The tables, the pass and the screen keep their types, and a pass never holds more single
\* reminders than it may show messages (diya_notify.split_flood).
THEOREM TellingTypeCorrect == TellingSpec => []TellingTypeOK
  BY TellingInvariant, TInvImplies, PTL

\* What is recorded as told was shown since it was made or pushed back, and not before its
\* time, whichever steps of the owner, of other lookers and of a dying pass come in between:
\* unless it was pushed back under the hands of a pass (diya_notify.run_once, mark_notified).
THEOREM NothingUnshownIsTold == TellingSpec => []NeverUnshown
  BY TellingInvariant, TInvImplies, PTL

\* A reminder is shown once for each time it is set for, and once more at most for each pass
\* that died and each notification that failed although it was shown (diya_notify.run_once).
THEOREM ShownOnceUnlessMishap == TellingSpec => []OnceUnlessMishap
  BY TellingInvariant, TInvImplies, PTL

\* However many reminders are due, one pass shows at most MAX_NOTIFICATIONS messages
\* (diya_notify.split_flood).
THEOREM PassesDoNotFlood == TellingSpec => []NoFlood
  BY TellingInvariant, TInvImplies, PTL

\* The notifier keeps all that Schedule guarantees of its tables.
THEOREM TellingKeepsSchedule == TellingSpec => []ScheduleInv
  BY TellingInvariant, TInvImplies, PTL
===============================================================================
