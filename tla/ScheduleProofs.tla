----------------------------- MODULE ScheduleProofs ----------------------------
(* Theorems about Schedule, for every number of series, reminders and lookers,    *)
(* every rule and every clock (README, "Proofs").                                 *)
EXTENDS Schedule, FiniteSetTheorems, TLAPS

(* The rule. *)

\* The next fall lies ahead and is a fall of the rule.
LEMMA FallsAhead ==
  ASSUME NEW t \in Nat
  PROVE  /\ NextAfter(t) \in Nat /\ t < NextAfter(t)
         /\ \E k \in 0..NextAfter(t) : NextAfter(t) = k * Every
  <1> DEFINE k == t \div Every + 1
  <1>1. k \in Nat /\ t < k * Every
    BY EveryAssumption
  <1>2. \A n \in Nat, e \in Nat \ {0} : n <= n * e /\ n * e \in Nat
    OBVIOUS
  <1>3. k <= k * Every /\ k * Every \in Nat
    BY <1>1, <1>2, EveryAssumption
  <1>4. NextAfter(t) = k * Every
    BY DEF NextAfter
  <1> HIDE DEF k
  <1>5. k \in 0..NextAfter(t)
    BY <1>1, <1>3, <1>4
  <1>6. QED BY <1>1, <1>3, <1>4, <1>5

\* The last fall lies behind, one interval before the next.
LEMMA LastFall ==
  ASSUME NEW t \in Nat
  PROVE  Before(t) \in Nat /\ Before(t) <= t /\ NextAfter(t) = Before(t) + Every
  BY EveryAssumption DEF Before, NextAfter

\* No fall lies between the last one and the present.
LEMMA FallsUpTo ==
  ASSUME NEW t \in Nat, NEW k \in Nat, k * Every <= t
  PROVE  k * Every <= Before(t)
  <1>1. k <= t \div Every
    BY EveryAssumption
  <1>2. QED BY <1>1, EveryAssumption DEF Before

-------------------------------------------------------------------------------
(* Types. *)

LEMMA EmptyRows ==
  NoSeries \in SeriesRow /\ NoReminder \in ReminderRow /\ NoTrail \in Trail /\ NotLooking \in Looking
  BY DEF NoSeries, SeriesRow, NoReminder, ReminderRow, NoTrail, Trail, NotLooking, Looking

\* What ResumeSeries does with the time that was read.
Resumed(s, now) ==
  /\ series' = [series EXCEPT ![s] = [series[s] EXCEPT !.paused = FALSE, !.next = NextAfter(now)]]
  /\ trail' = [trail EXCEPT ![s] =
       [NoTrail EXCEPT !.since = NextAfter(now),
                       !.late = trail[s].late + (IF Overtaken(now) THEN 1 ELSE 0)]]
  /\ s \in Active /\ UNCHANGED <<reminder, looker, clock>>

LEMMA ResumeWrites ==
  ASSUME ScheduleTypeOK, NEW s \in Series, ResumeSeries(s)
  PROVE  \E now \in Moments : Resumed(s, now)
  BY DEF ResumeSeries, Resumed, ResumedNext, ScheduleTypeOK

LEMMA SeriesKeepTypes ==
  ASSUME ScheduleTypeOK, ScheduleSound,
         \E s \in Series : \/ \E c \in Content : Create(s, c)
                           \/ PauseSeries(s) \/ ResumeSeries(s) \/ Skip(s) \/ Stop(s)
  PROVE  ScheduleTypeOK'
  <1> USE DEF ScheduleTypeOK
  <1>1. PICK s \in Series : \/ \E c \in Content : Create(s, c)
                            \/ PauseSeries(s) \/ ResumeSeries(s) \/ Skip(s) \/ Stop(s)
    OBVIOUS
  <1>2. \A now \in Moments : NextAfter(now) \in Nat
    BY FallsAhead DEF Moments
  <1>3. CASE \E c \in Content : Create(s, c)
    <2>1. PICK c \in Content : Create(s, c)
      BY <1>3
    <2>2. PICK now \in Moments :
            /\ series' = [series EXCEPT ![s] = [NoSeries EXCEPT !.state = "active", !.content = c,
                                                               !.next = NextAfter(now)]]
            /\ trail' = [trail EXCEPT ![s].since = NextAfter(now)]
      BY <2>1 DEF Create
    <2>3. [NoSeries EXCEPT !.state = "active", !.content = c, !.next = NextAfter(now)] \in SeriesRow
      BY <1>2 DEF NoSeries, SeriesRow
    <2>4. [trail[s] EXCEPT !.since = NextAfter(now)] \in Trail
      BY <1>2, Zenon DEF Trail
    <2>5. QED BY <2>1, <2>2, <2>3, <2>4 DEF Create
  <1>4. CASE PauseSeries(s)
    <2>1. [series[s] EXCEPT !.paused = TRUE] \in SeriesRow
      BY Zenon DEF SeriesRow
    <2>2. QED BY <1>4, <2>1 DEF PauseSeries
  <1>5. CASE ResumeSeries(s)
    <2>1. PICK now \in Moments : Resumed(s, now)
      BY <1>5, ResumeWrites
    <2>2. [series[s] EXCEPT !.paused = FALSE, !.next = NextAfter(now)] \in SeriesRow
      BY <1>2, ZenonT(60) DEF SeriesRow
    <2>3. trail[s].late + (IF Overtaken(now) THEN 1 ELSE 0) \in Nat
      BY DEF Trail
    <2>4. [NoTrail EXCEPT !.since = NextAfter(now),
                          !.late = trail[s].late + (IF Overtaken(now) THEN 1 ELSE 0)] \in Trail
      BY <1>2, <2>3, ZenonT(60) DEF NoTrail, Trail
    <2>5. QED BY <2>1, <2>2, <2>4, Zenon DEF Resumed
  <1>6. CASE Skip(s)
    <2>1. NextAfter(series[s].next) \in Nat
      BY <1>6, FallsAhead DEF Skip, ScheduleSound, SeriesSound
    <2>2. [series[s] EXCEPT !.next = NextAfter(series[s].next)] \in SeriesRow
      BY <2>1, Zenon DEF SeriesRow
    <2>3. [trail[s] EXCEPT !.skipped = @ + 1] \in Trail
      BY DEF Trail
    <2>4. QED BY <1>6, <2>2, <2>3 DEF Skip
  <1>7. CASE Stop(s)
    <2>1. [series[s] EXCEPT !.state = "ended", !.next = None] \in SeriesRow
      BY ZenonT(60) DEF SeriesRow
    <2>2. QED BY <1>7, <2>1 DEF Stop
  <1>8. QED BY <1>1, <1>3, <1>4, <1>5, <1>6, <1>7

LEMMA RemindersKeepTypes ==
  ASSUME ScheduleTypeOK, AddReminder \/ \E r \in Reminder : Complete(r) \/ Snooze(r)
  PROVE  ScheduleTypeOK'
  <1> USE DEF ScheduleTypeOK
  <1>1. CASE AddReminder
    <2>0. PICK now \in Moments : \E r \in Free, t \in (now + 1 .. MaxClock) \cup {None} :
            reminder' = [reminder EXCEPT ![r] = [NoReminder EXCEPT !.state = "open", !.due = t]]
      BY <1>1 DEF AddReminder
    <2>1. PICK r \in Free, t \in (now + 1 .. MaxClock) \cup {None} :
            reminder' = [reminder EXCEPT ![r] = [NoReminder EXCEPT !.state = "open", !.due = t]]
      BY <2>0
    <2>2. [NoReminder EXCEPT !.state = "open", !.due = t] \in ReminderRow
      <3>1. t \in Nat \cup {None}
        BY ScheduleLimits DEF Moments
      <3>2. QED BY <3>1, Zenon DEF NoReminder, ReminderRow
    <2>3. QED BY <1>1, <2>1, <2>2 DEF AddReminder, Free
  <1>2. CASE \E r \in Reminder : Complete(r)
    <2>1. PICK r \in Reminder : Complete(r)
      BY <1>2
    <2>2. [reminder[r] EXCEPT !.state = "done"] \in ReminderRow
      BY Zenon DEF ReminderRow
    <2>3. QED BY <2>1, <2>2 DEF Complete
  <1>3. CASE \E r \in Reminder : Snooze(r)
    <2>1. PICK r \in Reminder : Snooze(r)
      BY <1>3
    <2>0. PICK now \in Moments : \E t \in now + 1 .. MaxClock :
            reminder' = [reminder EXCEPT ![r].due = t, ![r].told = FALSE]
      BY <2>1 DEF Snooze
    <2>2. PICK t \in now + 1 .. MaxClock : reminder' = [reminder EXCEPT ![r].due = t, ![r].told = FALSE]
      BY <2>0
    <2>3. t \in Nat
      BY ScheduleLimits DEF Moments
    <2>4. [reminder[r] EXCEPT !.due = t, !.told = FALSE] \in ReminderRow
      BY <2>3, ZenonT(60) DEF ReminderRow
    <2>5. QED BY <2>1, <2>2, <2>4 DEF Snooze
  <1>4. QED BY <1>1, <1>2, <1>3

\* A series that is due at t has its next fall at or before the last one before t.
LEMMA DueFalls ==
  ASSUME ScheduleTypeOK, ScheduleSound, NEW t \in Nat, NEW s \in Due(t)
  PROVE  /\ s \in Active /\ s \in Series /\ series[s].next \in Nat
         /\ series[s].next <= Before(t) /\ Count(s, t) \in Nat \ {0}
  <1>1. s \in Active /\ s \in Series /\ series[s].next <= t
    BY DEF Due, Active
  <1>2. PICK k \in Nat : series[s].next = k * Every /\ k * Every \in Nat
    BY <1>1 DEF ScheduleSound, SeriesSound
  <1>3. series[s].next <= Before(t)
    BY <1>1, <1>2, FallsUpTo
  <1>4. (Before(t) - series[s].next) \div Every \in Nat
    BY <1>2, <1>3, LastFall, EveryAssumption
  <1>5. Count(s, t) \in Nat \ {0}
    BY <1>4, ScheduleLimits DEF Count
  <1>6. QED BY <1>1, <1>2, <1>3, <1>5

\* What Materialize does, row by row: with the time that was read and the series S that
\* are due then, made gives each of them a free row.
Wrote(l, now, S, made) ==
  /\ now \in Nat /\ now <= clock /\ S = Due(now) /\ made \in [S -> Free]
  /\ \A s, t \in S : made[s] = made[t] => s = t
  /\ reminder' = [r \in Reminder |-> reminder'[r]]
  /\ \A s \in S : reminder'[made[s]] = [state |-> "open", of |-> s, fall |-> Before(now), due |-> Before(now), told |-> FALSE]
  /\ \A r \in Reminder : (\A s \in S : made[s] # r) =>
       reminder'[r] = IF Lapsed(r, S) THEN [reminder[r] EXCEPT !.state = "done"] ELSE reminder[r]
  /\ series' = [s \in Series |-> IF s \in S THEN [series[s] EXCEPT !.next = NextAfter(now)] ELSE series[s]]
  /\ trail' = [s \in Series |-> IF s \in S
                  THEN [trail[s] EXCEPT !.occurred = @ + 1, !.missed = @ + Count(s, now) - 1] ELSE trail[s]]
  /\ looker' = [looker EXCEPT ![l] = NotLooking] /\ clock' = clock

LEMMA MaterializeWrites ==
  ASSUME ScheduleTypeOK, ScheduleSound, NEW l \in Looker, Materialize(l)
  PROVE  \E now, S, made : Wrote(l, now, S, made)
  <1> DEFINE now == looker[l].now
             S == Due(now)
  <1>1. now \in Nat /\ now <= clock
    BY DEF ScheduleTypeOK, Looking, ScheduleSound
  <1>2. PICK made \in [S -> Free] : (\A s, t \in S : made[s] = made[t] => s = t) /\ Make(S, now, made)
    BY Zenon DEF Materialize, DueNow
  <1>3. looker' = [looker EXCEPT ![l] = NotLooking] /\ clock' = clock
    BY DEF Materialize
  <1> HIDE DEF now, S
  <1>4. \A s \in S : reminder'[made[s]] = [state |-> "open", of |-> s, fall |-> Before(now), due |-> Before(now), told |-> FALSE]
    <2> TAKE s \in S
    <2>1. made[s] \in Reminder /\ \E x \in S : made[x] = made[s]
      BY DEF Free
    <2>2. (CHOOSE x \in S : made[x] = made[s]) = s
      BY <1>2
    <2>3. reminder'[made[s]] = [NoReminder EXCEPT !.state = "open", !.of = CHOOSE x \in S : made[x] = made[s],
                                                  !.fall = Before(now), !.due = Before(now)]
      BY <1>2, <2>1, Zenon DEF Make
    <2>4. QED BY <2>2, <2>3, Zenon DEF NoReminder
  <1>5. \A r \in Reminder : (\A s \in S : made[s] # r) =>
          reminder'[r] = IF Lapsed(r, S) THEN [reminder[r] EXCEPT !.state = "done"] ELSE reminder[r]
    BY <1>2, Zenon DEF Make
  <1>6. reminder' = [r \in Reminder |-> reminder'[r]]
    BY <1>2 DEF Make
  <1>7. S = Due(now)
    BY DEF S
  <1>8. Wrote(l, now, S, made)
    BY <1>1, <1>2, <1>3, <1>4, <1>5, <1>6, <1>7, Zenon DEF Wrote, Make, MadeNext
  <1>9. QED BY <1>8

LEMMA MakingKeepsTypes ==
  ASSUME ScheduleTypeOK, ScheduleSound, NEW l \in Looker, Materialize(l)
  PROVE  ScheduleTypeOK'
  <1>1. PICK now, S, made : Wrote(l, now, S, made)
    BY MaterializeWrites
  <1>2. now \in Nat /\ S = Due(now) /\ \A s \in S : s \in Series
    BY <1>1 DEF Wrote, Due, Active
  <1>3. Before(now) \in Nat /\ NextAfter(now) \in Nat
    BY <1>2, LastFall, FallsAhead
  <1>4. \A r \in Reminder : reminder'[r] \in ReminderRow
    <2> TAKE r \in Reminder
    <2>1. CASE \E s \in S : made[s] = r
      <3>1. PICK s \in S : made[s] = r
        BY <2>1
      <3>2. reminder'[r] = [state |-> "open", of |-> s, fall |-> Before(now), due |-> Before(now), told |-> FALSE]
        BY <1>1, <3>1, Zenon DEF Wrote
      <3>3. s \in Series
        BY <1>2
      <3>4. QED BY <1>3, <3>2, <3>3 DEF ReminderRow
    <2>2. CASE \A s \in S : made[s] # r
      <3>1. reminder'[r] = IF Lapsed(r, S) THEN [reminder[r] EXCEPT !.state = "done"] ELSE reminder[r]
        BY <1>1, <2>2, Zenon DEF Wrote
      <3>2. reminder[r] \in ReminderRow /\ [reminder[r] EXCEPT !.state = "done"] \in ReminderRow
        BY Zenon DEF ReminderRow, ScheduleTypeOK
      <3>3. QED BY <3>1, <3>2
    <2>3. QED BY <2>1, <2>2
  <1>5. \A s \in Series : [series[s] EXCEPT !.next = NextAfter(now)] \in SeriesRow
    BY <1>3, Zenon DEF SeriesRow, ScheduleTypeOK
  <1>6. \A s \in S : [trail[s] EXCEPT !.occurred = @ + 1, !.missed = @ + Count(s, now) - 1] \in Trail
    <2> TAKE s \in S
    <2>1. s \in Series /\ Count(s, now) \in Nat \ {0}
      BY <1>2, DueFalls
    <2>2. trail[s].occurred + 1 \in Nat /\ trail[s].missed + Count(s, now) - 1 \in Nat
      BY <2>1 DEF Trail, ScheduleTypeOK
    <2>3. QED BY <2>1, <2>2, ZenonT(60) DEF Trail, ScheduleTypeOK
  <1>7. reminder' \in [Reminder -> ReminderRow]
    BY <1>1, <1>4, Zenon DEF Wrote
  <1>8. series' \in [Series -> SeriesRow] /\ trail' \in [Series -> Trail]
    BY <1>1, <1>5, <1>6, Zenon DEF Wrote, ScheduleTypeOK
  <1>9. looker' \in [Looker -> Looking] /\ clock' \in Nat
    BY <1>1, EmptyRows DEF Wrote, ScheduleTypeOK
  <1>10. QED BY <1>7, <1>8, <1>9 DEF ScheduleTypeOK

LEMMA OtherStepsKeepTypes ==
  ASSUME ScheduleTypeOK, ScheduleTick \/ \E l \in Looker : Look(l) \/ GiveUp(l)
  PROVE  ScheduleTypeOK'
  <1> USE DEF ScheduleTypeOK
  <1>1. CASE ScheduleTick
    BY <1>1 DEF ScheduleTick
  <1>2. CASE \E l \in Looker : Look(l)
    <2>1. [pc |-> "make", now |-> clock] \in Looking
      BY DEF Looking
    <2>2. QED BY <1>2, <2>1 DEF Look
  <1>3. CASE \E l \in Looker : GiveUp(l)
    BY <1>3, EmptyRows DEF GiveUp
  <1>4. QED BY <1>1, <1>2, <1>3

-------------------------------------------------------------------------------
(* What the steps rely on, and what they promise of the reminders. *)

\* OneOpenPerSeries, without counting.
AtMostOneOpen == \A s \in Series : \A q, r \in Open(s) : q = r
SoundInv == ScheduleSound /\ AtMostOneOpen /\ OncePerFall

LEMMA MadeForIsFinite ==
  ASSUME NEW s, NEW t
  PROVE  IsFiniteSet(MadeFor(s, t)) /\ Cardinality(MadeFor(s, t)) \in Nat
  <1>1. MadeFor(s, t) \subseteq Reminder
    BY DEF MadeFor, Of
  <1>2. QED BY <1>1, FiniteReminders, FS_Subset, FS_CardinalityType

\* The third part of SeriesSound, of the falls from t on.
MadeAgain(s, t) == \A r \in Of(s) : reminder[r].fall >= t =>
                      Cardinality(MadeFor(s, reminder[r].fall)) <= trail[s].late

\* The first part of OncePerFall.
MadeSeldom(s) == \A r \in Of(s) : Cardinality(MadeFor(s, reminder[r].fall)) <= 1 + trail[s].late

\* A step that leaves the reminders alone and takes no late resume back.
LEMMA CountsKept ==
  ASSUME ScheduleTypeOK, ScheduleTypeOK', reminder' = reminder, NEW s \in Series,
         trail[s].late <= trail'[s].late
  PROVE  /\ MadeSeldom(s) => MadeSeldom(s)'
         /\ \A t \in Nat : MadeAgain(s, t) => MadeAgain(s, t)'
         /\ MadeSeldom(s) /\ trail'[s].late = trail[s].late + 1 => \A t \in Nat : MadeAgain(s, t)'
  <1>1. Of(s)' = Of(s) /\ \A t : MadeFor(s, t)' = MadeFor(s, t)
    BY DEF Of, MadeFor
  <1>2. trail[s].late \in Nat /\ trail'[s].late \in Nat
    BY DEF ScheduleTypeOK, Trail
  <1> DEFINE n(t) == Cardinality(MadeFor(s, t))
  <1>3. \A t : n(t) \in Nat /\ n(t)' = n(t)
    BY <1>1, MadeForIsFinite
  <1>4. /\ MadeSeldom(s) <=> \A r \in Of(s) : n(reminder[r].fall) <= 1 + trail[s].late
        /\ \A t : MadeAgain(s, t) <=> \A r \in Of(s) : reminder[r].fall >= t =>
                                          n(reminder[r].fall) <= trail[s].late
    BY DEF MadeSeldom, MadeAgain
  <1>5. /\ MadeSeldom(s)' <=> \A r \in Of(s) : n(reminder[r].fall) <= 1 + trail'[s].late
        /\ \A t : MadeAgain(s, t)' <=> \A r \in Of(s) : reminder[r].fall >= t =>
                                           n(reminder[r].fall) <= trail'[s].late
    BY <1>1 DEF MadeSeldom, MadeAgain
  <1> HIDE DEF n
  <1>6. QED BY <1>2, <1>3, <1>4, <1>5

LEMMA SoundParts ==
  /\ \A s \in Series : SeriesSound(s) <=>
       /\ s \in Active => /\ series[s].next \in Nat
                          /\ \E k \in 0 .. series[s].next : series[s].next = k * Every
                          /\ MadeAgain(s, series[s].next)
       /\ series[s].state = "none" => Of(s) = {}
  /\ OncePerFall <=> \A s \in Series : MadeSeldom(s) /\ \A r \in Of(s) : reminder[r].fall <= clock
  BY DEF SeriesSound, OncePerFall, MadeAgain, MadeSeldom

\* A step that writes the row of one series.
LEMMA OneSeriesStep ==
  ASSUME ScheduleTypeOK, ScheduleTypeOK', SoundInv, NEW s \in Series,
         UNCHANGED <<reminder, looker, clock>>,
         \A t \in Series \ {s} : series'[t] = series[t] /\ trail'[t] = trail[t],
         trail[s].late <= trail'[s].late, SeriesSound(s)'
  PROVE  SoundInv'
  <1>1. \A t \in Series : SeriesSound(t)'
    <2> SUFFICES ASSUME NEW t \in Series \ {s} PROVE SeriesSound(t)'
      OBVIOUS
    <2>1. SeriesSound(t) /\ series'[t] = series[t] /\ trail'[t] = trail[t] /\ reminder' = reminder
      BY DEF SoundInv, ScheduleSound
    <2>2. Of(t)' = Of(t) /\ \A x : MadeFor(t, x)' = MadeFor(t, x)
      BY <2>1 DEF Of, MadeFor
    <2>3. QED BY <2>1, <2>2 DEF SeriesSound, Active
  <1>2. ScheduleSound'
    BY <1>1 DEF SoundInv, ScheduleSound
  <1>3. \A t \in Series : MadeSeldom(t)'
    <2> SUFFICES ASSUME NEW t \in Series PROVE MadeSeldom(t)'
      OBVIOUS
    <2>1. trail[t].late \in Nat /\ trail[t].late <= trail'[t].late
      BY DEF ScheduleTypeOK, Trail
    <2>2. MadeSeldom(t)
      BY SoundParts DEF SoundInv
    <2>3. QED BY <2>1, <2>2, CountsKept
  <1>4. OncePerFall'
    <2>1. \A t \in Series : \A r \in Of(t)' : reminder'[r].fall <= clock'
      BY DEF SoundInv, OncePerFall, Of
    <2>2. QED BY <1>3, <2>1 DEF OncePerFall, MadeSeldom
  <1>5. QED BY <1>2, <1>4 DEF SoundInv, AtMostOneOpen, Open

\* A step of the owner on one series leaves the rows of the others, and everything else.
LEMMA OthersUntouched ==
  ASSUME ScheduleTypeOK, NEW s \in Series,
         \/ \E c \in Content : Create(s, c)
         \/ PauseSeries(s) \/ ResumeSeries(s) \/ Skip(s) \/ Stop(s)
  PROVE  /\ UNCHANGED <<reminder, looker, clock>>
         /\ \A t \in Series \ {s} : series'[t] = series[t] /\ trail'[t] = trail[t]
         /\ series'[s].state # "none"
         /\ (\A c \in Content : ~Create(s, c)) => s \in Active /\ series'[s].content = series[s].content
  <1> USE DEF ScheduleTypeOK, SeriesRow, Active
  <1>1. CASE \E c \in Content : Create(s, c)
    <2>1. PICK now \in Moments, c \in Content :
            /\ series' = [series EXCEPT ![s] = [NoSeries EXCEPT !.state = "active", !.content = c,
                                                               !.next = NextAfter(now)]]
            /\ trail' = [trail EXCEPT ![s].since = NextAfter(now)]
      BY <1>1 DEF Create
    <2>2. UNCHANGED <<reminder, looker, clock>>
      BY <1>1 DEF Create
    <2>3. QED BY <1>1, <2>1, <2>2 DEF NoSeries
  <1>2. CASE PauseSeries(s)
    BY <1>2 DEF PauseSeries
  <1>3. CASE ResumeSeries(s)
    <2>1. PICK now \in Moments : Resumed(s, now)
      BY <1>3, ResumeWrites
    <2>2. QED BY <2>1 DEF Resumed
  <1>4. CASE Skip(s)
    BY <1>4 DEF Skip
  <1>5. CASE Stop(s)
    BY <1>5 DEF Stop
  <1>6. QED BY <1>1, <1>2, <1>3, <1>4, <1>5

LEMMA SeriesStepsKeepSound ==
  ASSUME ScheduleTypeOK, ScheduleTypeOK', SoundInv,
         \E s \in Series : \/ \E c \in Content : Create(s, c)
                           \/ PauseSeries(s) \/ ResumeSeries(s) \/ Skip(s) \/ Stop(s)
  PROVE  SoundInv'
  <1>1. PICK s \in Series : \/ \E c \in Content : Create(s, c)
                            \/ PauseSeries(s) \/ ResumeSeries(s) \/ Skip(s) \/ Stop(s)
    OBVIOUS
  <1>2. SeriesSound(s) /\ clock \in Nat /\ MadeSeldom(s) /\ trail[s].late \in Nat
    BY SoundParts DEF SoundInv, ScheduleSound, ScheduleTypeOK, Trail
  <1>3. UNCHANGED <<reminder, looker, clock>>
        /\ \A t \in Series \ {s} : series'[t] = series[t] /\ trail'[t] = trail[t]
    BY <1>1, OthersUntouched
  <1>4. \A r \in Of(s) : reminder[r].fall \in Nat /\ reminder[r].fall <= clock
    BY NoReminderTime DEF SoundInv, ScheduleSound, OncePerFall, Of
  <1>5. \A now \in Moments : /\ now \in Nat /\ NextAfter(now) \in Nat
                             /\ \E k \in 0..NextAfter(now) : NextAfter(now) = k * Every
    BY <1>2, FallsAhead DEF Moments
  <1>6. Of(s)' = Of(s)
    BY <1>3 DEF Of
  <1>7. CASE \E c \in Content : Create(s, c)
    <2>1. series[s].state = "none"
      BY <1>7 DEF Create
    <2>2. PICK now \in Moments, c \in Content :
            /\ series' = [series EXCEPT ![s] = [NoSeries EXCEPT !.state = "active", !.content = c,
                                                               !.next = NextAfter(now)]]
            /\ trail' = [trail EXCEPT ![s].since = NextAfter(now)]
      BY <1>7 DEF Create
    <2>3. /\ series'[s].state = "active" /\ series'[s].next = NextAfter(now)
          /\ trail'[s].late = trail[s].late
      BY <2>2 DEF NoSeries, ScheduleTypeOK, Trail
    <2>4. Of(s)' = {}
      BY <1>2, <1>6, <2>1 DEF SeriesSound
    <2>5. SeriesSound(s)'
      BY <1>5, <2>3, <2>4 DEF SeriesSound
    <2>6. QED BY <1>2, <1>3, <2>3, <2>5, OneSeriesStep
  <1>8. CASE PauseSeries(s)
    <2>1. series'[s].state = series[s].state /\ series'[s].next = series[s].next /\ trail' = trail
      BY <1>8 DEF PauseSeries, ScheduleTypeOK, SeriesRow
    <2>2. SeriesSound(s)'
      BY <1>2, <1>3, <2>1 DEF SeriesSound, Active, Of, MadeFor
    <2>3. QED BY <1>2, <1>3, <2>1, <2>2, OneSeriesStep
  <1>9. CASE ResumeSeries(s)
    <2>1. PICK now \in Moments : Resumed(s, now)
      BY <1>9, ResumeWrites
    <2>2. series'[s].state = series[s].state /\ series'[s].next = NextAfter(now)
      BY <2>1 DEF Resumed, ScheduleTypeOK, SeriesRow
    <2>3. trail'[s].late = trail[s].late + (IF Overtaken(now) THEN 1 ELSE 0)
      BY <2>1 DEF Resumed, NoTrail, ScheduleTypeOK
    <2>4. s \in Active /\ series[s].state # "none"
      BY <2>1 DEF Resumed, Active
    <2>5. trail[s].late <= trail'[s].late
      BY <1>2, <2>3
    <2>6. MadeAgain(s, NextAfter(now))'
      <3>1. CASE Overtaken(now)
        <4>1. trail'[s].late = trail[s].late + 1
          BY <2>3, <3>1
        <4>2. QED BY <1>2, <1>3, <1>5, <2>5, <4>1, CountsKept
      <3>2. CASE ~Overtaken(now)
        <4>1. clock < NextAfter(now)
          BY <1>2, <1>5, <3>2 DEF Overtaken
        <4>2. \A r \in Of(s)' : reminder'[r].fall \in Nat /\ reminder'[r].fall < NextAfter(now)
          BY <1>2, <1>3, <1>4, <1>5, <1>6, <4>1
        <4>3. \A r \in Of(s)' : ~(reminder'[r].fall >= NextAfter(now))
          BY <1>5, <4>2
        <4>4. QED BY <4>3 DEF MadeAgain
      <3>3. QED BY <3>1, <3>2
    <2>7. SeriesSound(s)'
      <3>1. MadeAgain(s, series[s].next)'
        BY <2>2, <2>6 DEF MadeAgain
      <3>2. QED BY <1>5, <2>2, <2>4, <3>1 DEF SeriesSound, MadeAgain
    <2>8. QED BY <1>3, <2>5, <2>7, OneSeriesStep
  <1>10. CASE Skip(s)
    <2>1. s \in Active /\ series[s].next \in Nat
      BY <1>2, <1>10 DEF Skip, SeriesSound
    <2>2. /\ series'[s].state = series[s].state /\ series'[s].next = NextAfter(series[s].next)
          /\ trail'[s].late = trail[s].late
      BY <1>10 DEF Skip, ScheduleTypeOK, SeriesRow, Trail
    <2>3. series'[s].next \in Nat /\ series[s].next < series'[s].next
          /\ \E k \in 0..series'[s].next : series'[s].next = k * Every
      BY <2>1, <2>2, FallsAhead
    <2>4. \A r \in Of(s) : reminder[r].fall >= series'[s].next => reminder[r].fall >= series[s].next
      BY <1>4, <2>1, <2>3
    <2>5. \A x : MadeFor(s, x)' = MadeFor(s, x)
      BY <1>3 DEF MadeFor, Of
    <2>6. SeriesSound(s)'
      BY <1>2, <1>3, <1>6, <2>1, <2>2, <2>3, <2>4, <2>5 DEF SeriesSound, Active
    <2>7. QED BY <1>2, <1>3, <2>2, <2>6, OneSeriesStep
  <1>11. CASE Stop(s)
    <2>1. series'[s].state = "ended" /\ trail' = trail
      BY <1>11 DEF Stop, ScheduleTypeOK, SeriesRow
    <2>2. SeriesSound(s)'
      BY <2>1 DEF SeriesSound, Active
    <2>3. QED BY <1>2, <1>3, <2>1, <2>2, OneSeriesStep
  <1>12. QED BY <1>1, <1>7, <1>8, <1>9, <1>10, <1>11

\* A step that leaves every reminder with the series and the fall it has, and opens
\* none of a series.
LEMMA RemindersStep ==
  ASSUME SoundInv, UNCHANGED <<series, trail, looker, clock>>,
         \A r \in Reminder :
           /\ reminder'[r].of = reminder[r].of
           /\ reminder[r].of # None =>
                /\ reminder'[r].fall = reminder[r].fall
                /\ reminder'[r].state = "open" => reminder[r].state = "open"
           /\ reminder'[r].state = "none" => reminder[r].state = "none"
  PROVE  SoundInv'
  <1>1. \A s \in Series : Of(s)' = Of(s) /\ \A r \in Of(s) : reminder'[r].fall = reminder[r].fall
    BY NoReminderTime DEF Of
  <1>2. \A s \in Series : \A x : MadeFor(s, x)' = MadeFor(s, x)
    BY <1>1 DEF MadeFor
  <1>3. \A s \in Series : SeriesSound(s)'
    BY <1>1, <1>2 DEF SoundInv, ScheduleSound, SeriesSound, Active
  <1>4. ScheduleSound'
    BY <1>3 DEF SoundInv, ScheduleSound
  <1>5. AtMostOneOpen'
    BY NoReminderTime DEF SoundInv, AtMostOneOpen, Open
  <1>6. OncePerFall'
    BY <1>1, <1>2 DEF SoundInv, OncePerFall
  <1>7. QED BY <1>4, <1>5, <1>6 DEF SoundInv

LEMMA ReminderStepsKeepSound ==
  ASSUME ScheduleTypeOK, SoundInv, AddReminder \/ \E r \in Reminder : Complete(r) \/ Snooze(r)
  PROVE  SoundInv'
  <1> USE DEF ScheduleTypeOK, ReminderRow
  <1>1. CASE AddReminder
    <2>1. \A r \in Free : reminder[r].of = None
      BY <1>1 DEF SoundInv, ScheduleSound, Free
    <2>2. PICK r \in Free, t \in Nat \cup {None} :
            reminder' = [reminder EXCEPT ![r] = [NoReminder EXCEPT !.state = "open", !.due = t]]
      <3>1. PICK now \in Moments :
              \E r \in Free, t \in (now + 1 .. MaxClock) \cup {None} :
                reminder' = [reminder EXCEPT ![r] = [NoReminder EXCEPT !.state = "open", !.due = t]]
        BY <1>1, Zenon DEF AddReminder
      <3>2. (now + 1 .. MaxClock) \cup {None} \subseteq Nat \cup {None}
        BY ScheduleLimits DEF Moments
      <3>3. QED BY <3>1, <3>2, Zenon
    <2>3. \A q \in Reminder : q # r => reminder'[q] = reminder[q]
      BY <2>2
    <2>4. reminder'[r].of = None /\ reminder'[r].state = "open" /\ reminder[r].of = None
      BY <2>1, <2>2 DEF NoReminder, Free
    <2>5. UNCHANGED <<series, trail, looker, clock>>
      BY <1>1 DEF AddReminder
    <2>6. QED BY <2>3, <2>4, <2>5, RemindersStep
  <1>2. CASE \E r \in Reminder : Complete(r)
    BY <1>2, RemindersStep DEF Complete
  <1>3. CASE \E r \in Reminder : Snooze(r)
    BY <1>3, RemindersStep DEF Snooze
  <1>4. QED BY <1>1, <1>2, <1>3

LEMMA OtherStepsKeepSound ==
  ASSUME ScheduleTypeOK, SoundInv, ScheduleTick \/ \E l \in Looker : Look(l) \/ GiveUp(l)
  PROVE  SoundInv'
  <1>1. UNCHANGED <<series, trail, reminder>>
    BY DEF ScheduleTick, Look, GiveUp
  <1>2. clock \in Nat /\ clock' \in Nat /\ clock <= clock'
    BY DEF ScheduleTick, Look, GiveUp, ScheduleTypeOK
  <1>3. \A l \in Looker : looker[l].now \in Nat /\ looker[l].now <= clock
    BY DEF SoundInv, ScheduleSound, ScheduleTypeOK, Looking
  <1>4. \A l \in Looker : looker'[l].now \in Nat /\ looker'[l].now <= clock'
    <2>1. CASE ScheduleTick
      BY <1>2, <1>3, <2>1 DEF ScheduleTick
    <2>2. CASE \E l \in Looker : Look(l) \/ GiveUp(l)
      BY <1>2, <1>3, <2>2 DEF Look, GiveUp, NotLooking, ScheduleTypeOK
    <2>3. QED BY <2>1, <2>2
  <1>5. \A s \in Series : /\ Of(s)' = Of(s) /\ Open(s)' = Open(s) /\ SeriesSound(s)'
                          /\ \A x : MadeFor(s, x)' = MadeFor(s, x)
    BY <1>1 DEF Of, Open, SoundInv, ScheduleSound, SeriesSound, Active, MadeFor
  <1>6. ScheduleSound'
    BY <1>1, <1>4, <1>5 DEF SoundInv, ScheduleSound
  <1>7. AtMostOneOpen'
    BY <1>5 DEF SoundInv, AtMostOneOpen
  <1>8. \A s \in Series : \A r \in Of(s) : reminder[r].fall \in Nat /\ reminder[r].fall <= clock'
    BY <1>2, NoReminderTime DEF SoundInv, ScheduleSound, OncePerFall, Of
  <1>9. OncePerFall'
    BY <1>1, <1>5, <1>8 DEF SoundInv, OncePerFall
  <1>10. QED BY <1>6, <1>7, <1>9 DEF SoundInv

\* The look that makes what is due: a series gets one row more, of a fall that was made
\* no more often than a resume was overtaken, and the rows that were open are not any more.
LEMMA MakingKeepsSound ==
  ASSUME ScheduleTypeOK, SoundInv, NEW l \in Looker, Materialize(l)
  PROVE  SoundInv'
  <1>1. PICK now, S, made : Wrote(l, now, S, made)
    BY MaterializeWrites DEF SoundInv
  <1>2. now \in Nat /\ now <= clock /\ S = Due(now) /\ clock \in Nat
    BY <1>1 DEF Wrote, ScheduleTypeOK
  <1>3. \A s \in S : /\ s \in Active /\ s \in Series
                     /\ series[s].next \in Nat /\ series[s].next <= Before(now)
    BY <1>2, DueFalls DEF SoundInv
  <1>4. /\ Before(now) \in Nat /\ Before(now) <= now /\ NextAfter(now) \in Nat
        /\ Before(now) < NextAfter(now)
        /\ \E k \in 0 .. NextAfter(now) : NextAfter(now) = k * Every
    <2>1. Before(now) \in Nat /\ Before(now) <= now /\ NextAfter(now) = Before(now) + Every
      BY <1>2, LastFall
    <2>2. NextAfter(now) \in Nat /\ \E k \in 0 .. NextAfter(now) : NextAfter(now) = k * Every
      BY <1>2, FallsAhead
    <2>3. Before(now) < NextAfter(now)
      BY <2>1, EveryAssumption
    <2>4. QED BY <2>1, <2>2, <2>3
  <1>5. \A s \in Series : trail'[s].late = trail[s].late /\ trail[s].late \in Nat
    <2>1. \A s \in Series : trail'[s] = IF s \in S
            THEN [trail[s] EXCEPT !.occurred = @ + 1, !.missed = @ + Count(s, now) - 1] ELSE trail[s]
      BY <1>1, Zenon DEF Wrote
    <2>2. QED BY <2>1 DEF ScheduleTypeOK, Trail
  <1>6. \A r \in Reminder :
          \/ \E s \in S : /\ made[s] = r /\ reminder'[r].of = s
                          /\ reminder'[r].fall = Before(now) /\ reminder'[r].state = "open"
          \/ /\ reminder'[r].of = reminder[r].of /\ reminder'[r].fall = reminder[r].fall
             /\ reminder'[r].state = "open" => reminder[r].state = "open" /\ reminder[r].of \notin S
             /\ reminder'[r].state = "none" => reminder[r].state = "none"
    <2> TAKE r \in Reminder
    <2>1. CASE \E s \in S : made[s] = r
      <3>1. PICK s \in S : made[s] = r
        BY <2>1
      <3>2. reminder'[r] = [state |-> "open", of |-> s, fall |-> Before(now), due |-> Before(now), told |-> FALSE]
        BY <1>1, <3>1, Zenon DEF Wrote
      <3>3. reminder'[r].of = s /\ reminder'[r].fall = Before(now) /\ reminder'[r].state = "open"
        BY <3>2
      <3>4. QED BY <3>1, <3>3
    <2>2. CASE \A s \in S : made[s] # r
      <3>1. reminder'[r] = IF Lapsed(r, S) THEN [reminder[r] EXCEPT !.state = "done"] ELSE reminder[r]
        BY <1>1, <2>2, Zenon DEF Wrote
      <3>2. QED BY <3>1 DEF Lapsed, ScheduleTypeOK, ReminderRow
    <2>3. QED BY <2>1, <2>2
  <1>7. \A s \in Series : series'[s] = IF s \in S THEN [series[s] EXCEPT !.next = NextAfter(now)] ELSE series[s]
    BY <1>1, Zenon DEF Wrote
  <1>8. \A s \in Series : /\ series'[s].state = series[s].state
                          /\ series'[s].next = IF s \in S THEN NextAfter(now) ELSE series[s].next
    BY <1>7 DEF ScheduleTypeOK, SeriesRow
  <1>9. \A s \in Series : \A r \in Of(s)' :
          \/ s \in S /\ made[s] = r /\ reminder'[r].fall = Before(now)
          \/ r \in Of(s) /\ reminder'[r].fall = reminder[r].fall
    BY <1>6 DEF Of
  <1>10. \A s \in Series : \A r \in Of(s) : reminder[r].fall \in Nat /\ reminder[r].fall <= clock
    BY NoReminderTime DEF SoundInv, ScheduleSound, OncePerFall, Of
  <1>11. /\ \A s \in Series : \A x : x # Before(now) \/ s \notin S => MadeFor(s, x)' = MadeFor(s, x)
         /\ \A s \in S : /\ MadeFor(s, Before(now))' = MadeFor(s, Before(now)) \cup {made[s]}
                          /\ made[s] \notin MadeFor(s, Before(now))
    <2>1. \A s \in S : made[s] \in Reminder /\ reminder[made[s]].of = None
      <3>1. \A r \in Free : r \in Reminder /\ reminder[r].of = None
        BY DEF Free, SoundInv, ScheduleSound
      <3>2. made \in [S -> Free]
        BY <1>1, Zenon DEF Wrote
      <3>3. QED BY <3>1, <3>2
    <2>2. \A s \in S : /\ reminder'[made[s]].of = s /\ reminder'[made[s]].fall = Before(now)
      <3> TAKE s \in S
      <3>1. reminder'[made[s]] =
              [state |-> "open", of |-> s, fall |-> Before(now), due |-> Before(now), told |-> FALSE]
        BY <1>1, Zenon DEF Wrote
      <3>2. QED BY <3>1
    <2>3. \A r \in Reminder : (\A s \in S : made[s] # r) =>
            reminder'[r].of = reminder[r].of /\ reminder'[r].fall = reminder[r].fall
      BY <1>6
    <2>4. \A s \in Series : \A r \in Reminder :
            r \in Of(s)' <=> (s \in S /\ r = made[s]) \/ r \in Of(s)
      BY <1>3, <2>1, <2>2, <2>3, NoReminderTime DEF Of
    <2>5. \A s \in Series : \A r \in Of(s) : reminder'[r].fall = reminder[r].fall
      BY <2>1, <2>3, NoReminderTime DEF Of
    <2>6. \A s \in S : made[s] \notin Of(s)
      BY <1>3, <2>1, NoReminderTime DEF Of
    <2>7. \A s \in Series : Of(s) \subseteq Reminder /\ Of(s)' \subseteq Reminder
      BY DEF Of
    <2>8. QED BY <1>3, <2>1, <2>2, <2>4, <2>5, <2>6, <2>7 DEF MadeFor
  <1>12. \A s \in Series : MadeSeldom(s)' /\ SeriesSound(s)'
    <2> SUFFICES ASSUME NEW s \in Series PROVE MadeSeldom(s)' /\ SeriesSound(s)'
      OBVIOUS
    <2> DEFINE n(x) == Cardinality(MadeFor(s, x))
               after(x) == {r \in Reminder : reminder'[r].of = s /\ reminder'[r].fall = x}
               m(x) == Cardinality(after(x))
               late == trail[s].late
    <2>1. SeriesSound(s) /\ MadeSeldom(s)
      BY SoundParts DEF SoundInv, ScheduleSound
    <2>2. late \in Nat /\ trail'[s].late = late /\ \A x : n(x) \in Nat
      BY <1>5, MadeForIsFinite
    <2>3. \A r \in Of(s) : n(reminder[r].fall) <= 1 + late
      BY <2>1 DEF MadeSeldom
    <2>4. CASE s \in S
      <3>1. series[s].state = "active" /\ series'[s].state = "active" /\ series'[s].next = NextAfter(now)
        BY <1>3, <1>8, <2>4 DEF Active
      <3>2. \A r \in Of(s) : reminder[r].fall >= series[s].next => n(reminder[r].fall) <= late
        BY <1>3, <2>1, <2>4 DEF SeriesSound
      <3>3. n(Before(now)) <= late
        <4>1. CASE MadeFor(s, Before(now)) = {}
          BY <2>2, <4>1, FS_EmptySet
        <4>2. CASE MadeFor(s, Before(now)) # {}
          <5>1. PICK r \in Of(s) : reminder[r].fall = Before(now)
            BY <4>2 DEF MadeFor
          <5>2. reminder[r].fall >= series[s].next
            BY <1>3, <1>4, <2>4, <5>1
          <5>3. QED BY <3>2, <5>1, <5>2
        <4>3. QED BY <4>1, <4>2
      <3>4. m(Before(now)) = n(Before(now)) + 1
        <4>1. IsFiniteSet(MadeFor(s, Before(now)))
          BY MadeForIsFinite
        <4>2. after(Before(now)) = MadeFor(s, Before(now))'
          BY DEF MadeFor, Of
        <4>3. after(Before(now)) = MadeFor(s, Before(now)) \cup {made[s]}
          BY <1>11, <2>4, <4>2
        <4>4. made[s] \notin MadeFor(s, Before(now))
          BY <1>11, <2>4
        <4>5. Cardinality(MadeFor(s, Before(now)) \cup {made[s]}) = Cardinality(MadeFor(s, Before(now))) + 1
          BY <4>1, <4>4, FS_AddElement
        <4>6. QED BY <4>3, <4>5
      <3>5. \A x : x # Before(now) => m(x) = n(x)
        <4> SUFFICES ASSUME NEW x, x # Before(now) PROVE after(x) = MadeFor(s, x)
          OBVIOUS
        <4>1. after(x) = MadeFor(s, x)'
          BY DEF MadeFor, Of
        <4>2. QED BY <1>11, <4>1
      <3> HIDE DEF n, m, late
      <3>6. \A r \in Of(s)' : m(reminder'[r].fall) <= 1 + late
        <4> TAKE r \in Of(s)'
        <4>1. CASE reminder'[r].fall = Before(now)
          BY <2>2, <3>3, <3>4, <4>1
        <4>2. CASE reminder'[r].fall # Before(now)
          <5>1. r \in Of(s) /\ reminder'[r].fall = reminder[r].fall
            BY <1>9, <4>2
          <5>2. m(reminder'[r].fall) = n(reminder[r].fall)
            BY <3>5, <4>2, <5>1
          <5>3. QED BY <2>3, <5>1, <5>2
        <4>3. QED BY <4>1, <4>2
      <3>7. \A r \in Of(s)' : reminder'[r].fall >= NextAfter(now) => m(reminder'[r].fall) <= late
        <4> SUFFICES ASSUME NEW r \in Of(s)', reminder'[r].fall >= NextAfter(now)
                     PROVE  m(reminder'[r].fall) <= late
          OBVIOUS
        <4>1. reminder'[r].fall # Before(now)
          BY <1>4
        <4>2. r \in Of(s) /\ reminder'[r].fall = reminder[r].fall
          BY <1>9, <4>1
        <4>3. reminder[r].fall >= series[s].next
          <5>1. reminder[r].fall \in Nat /\ reminder[r].fall >= NextAfter(now)
            BY <1>10, <4>2
          <5>2. QED BY <1>3, <1>4, <2>4, <5>1
        <4>4. m(reminder'[r].fall) = n(reminder[r].fall)
          BY <3>5, <4>1, <4>2
        <4>5. QED BY <3>2, <4>2, <4>3, <4>4
      <3>8. MadeSeldom(s)'
        BY <2>2, <3>6 DEF MadeSeldom, m, MadeFor, Of
      <3>9. SeriesSound(s)'
        BY <1>4, <2>2, <3>1, <3>7 DEF SeriesSound, m, MadeFor, Of
      <3>10. QED BY <3>8, <3>9
    <2>5. CASE s \notin S
      <3>1. series'[s] = series[s]
        BY <1>7, <2>5
      <3>2. \A r \in Of(s)' : r \in Of(s) /\ reminder'[r].fall = reminder[r].fall
        BY <1>9, <2>5
      <3>3. \A x : MadeFor(s, x)' = MadeFor(s, x)
        BY <1>11, <2>5
      <3>4. MadeSeldom(s)'
        BY <2>2, <2>3, <3>2, <3>3 DEF MadeSeldom
      <3>5. SeriesSound(s)'
        BY <2>1, <2>2, <3>1, <3>2, <3>3 DEF SeriesSound, Active
      <3>6. QED BY <3>4, <3>5
    <2>6. QED BY <2>4, <2>5
  <1>13. \A k \in Looker : looker'[k].now <= clock'
    <2>1. looker' = [looker EXCEPT ![l] = NotLooking] /\ clock' = clock
      BY <1>1 DEF Wrote
    <2>2. \A k \in Looker : looker'[k] = NotLooking \/ looker'[k] = looker[k]
      BY <2>1 DEF ScheduleTypeOK
    <2>3. QED BY <1>2, <2>1, <2>2 DEF NotLooking, SoundInv, ScheduleSound
  <1>14. /\ \A r \in Reminder : reminder'[r].of # None => reminder'[r].fall \in Nat
         /\ \A r \in Reminder : reminder'[r].state = "none" => reminder'[r].of = None
    BY <1>4, <1>6 DEF SoundInv, ScheduleSound
  <1>15. AtMostOneOpen'
    <2> SUFFICES ASSUME NEW s \in Series, NEW q \in Open(s)', NEW r \in Open(s)' PROVE q = r
      BY DEF AtMostOneOpen
    <2>1. q \in Reminder /\ r \in Reminder
          /\ reminder'[q].state = "open" /\ reminder'[r].state = "open"
          /\ reminder'[q].of = s /\ reminder'[r].of = s
      BY DEF Open
    <2>2. CASE s \in S
      BY <1>6, <2>1, <2>2
    <2>3. CASE s \notin S
      <3>1. q \in Open(s) /\ r \in Open(s)
        BY <1>6, <2>1, <2>3 DEF Open
      <3>2. QED BY <3>1 DEF SoundInv, AtMostOneOpen
    <2>4. QED BY <2>2, <2>3
  <1>17. \A s \in Series : \A r \in Of(s)' : reminder'[r].fall <= clock'
    <2>1. clock' = clock
      BY <1>1 DEF Wrote
    <2>2. QED BY <1>2, <1>4, <1>9, <1>10, <2>1
  <1>18. ScheduleSound'
    BY <1>12, <1>13, <1>14, Zenon DEF ScheduleSound
  <1>19. OncePerFall'
    BY <1>12, <1>17 DEF OncePerFall, MadeSeldom
  <1>20. QED BY <1>15, <1>18, <1>19 DEF SoundInv

-------------------------------------------------------------------------------
(* The invariant. *)

SInv == ScheduleTypeOK /\ SoundInv

LEMMA ScheduleStarts == ScheduleInit => SInv
  <1> SUFFICES ASSUME ScheduleInit PROVE SInv
    OBVIOUS
  <1> USE DEF ScheduleInit
  <1>1. ScheduleTypeOK
    BY EmptyRows DEF ScheduleTypeOK
  <1>2. \A s \in Series : series[s].state = "none" /\ Of(s) = {} /\ Open(s) = {}
    BY NoReminderTime DEF Of, Open, NoSeries, NoReminder
  <1>3. ScheduleSound
    BY <1>2, NoReminderTime DEF ScheduleSound, SeriesSound, Active, NoReminder, NotLooking
  <1>4. AtMostOneOpen /\ OncePerFall
    BY <1>2 DEF AtMostOneOpen, OncePerFall
  <1>5. QED BY <1>1, <1>3, <1>4 DEF SInv, SoundInv

LEMMA ScheduleSteps == SInv /\ [ScheduleNext]_scheduleVars => SInv'
  <1> SUFFICES ASSUME SInv, [ScheduleNext]_scheduleVars PROVE SInv'
    OBVIOUS
  <1>1. ScheduleTypeOK /\ SoundInv /\ ScheduleSound
    BY DEF SInv, SoundInv
  <1>2. CASE \E s \in Series : \/ \E c \in Content : Create(s, c)
                               \/ PauseSeries(s) \/ ResumeSeries(s) \/ Skip(s) \/ Stop(s)
    <2>1. ScheduleTypeOK'
      BY <1>1, <1>2, SeriesKeepTypes
    <2>2. QED BY <1>1, <1>2, <2>1, SeriesStepsKeepSound DEF SInv
  <1>3. CASE AddReminder \/ \E r \in Reminder : Complete(r) \/ Snooze(r)
    BY <1>1, <1>3, RemindersKeepTypes, ReminderStepsKeepSound DEF SInv
  <1>4. CASE ScheduleTick \/ \E l \in Looker : Look(l) \/ GiveUp(l)
    BY <1>1, <1>4, OtherStepsKeepTypes, OtherStepsKeepSound DEF SInv
  <1>5. CASE \E l \in Looker : Materialize(l)
    BY <1>1, <1>5, MakingKeepsTypes, MakingKeepsSound DEF SInv
  <1>6. CASE UNCHANGED scheduleVars
    <2>1. ScheduleTypeOK'
      BY <1>1, <1>6 DEF scheduleVars, ScheduleTypeOK
    <2>2. \A s : Of(s)' = Of(s) /\ Open(s)' = Open(s) /\ \A x : MadeFor(s, x)' = MadeFor(s, x)
      BY <1>6 DEF scheduleVars, Of, Open, MadeFor
    <2>3. ScheduleSound' /\ AtMostOneOpen' /\ OncePerFall'
      BY <1>1, <1>6, <2>2 DEF scheduleVars, SoundInv, ScheduleSound, SeriesSound, Active,
                              AtMostOneOpen, OncePerFall
    <2>4. QED BY <2>1, <2>3 DEF SInv, SoundInv
  <1>7. QED
    BY <1>2, <1>3, <1>4, <1>5, <1>6 DEF ScheduleNext, Owner, OwnerSettles

LEMMA SInvImplies == SInv => ScheduleInv
  <1> SUFFICES ASSUME SInv PROVE ScheduleInv
    OBVIOUS
  <1>1. OneOpenPerSeries
    <2> SUFFICES ASSUME NEW s \in Series PROVE Cardinality(Open(s)) <= 1
      BY DEF OneOpenPerSeries
    <2>1. CASE Open(s) = {}
      BY <2>1, FS_EmptySet
    <2>2. CASE \E q : q \in Open(s)
      <3>1. PICK q : q \in Open(s)
        BY <2>2
      <3>2. Open(s) = {q}
        BY <3>1 DEF SInv, SoundInv, AtMostOneOpen
      <3>3. Cardinality({q}) = 1
        BY FS_Singleton
      <3>4. QED BY <3>2, <3>3
    <2>3. QED BY <2>1, <2>2
  <1>2. QED BY <1>1 DEF SInv, SoundInv, ScheduleInv

\* In every reachable state the tables are well formed and sound, of each series at most
\* one reminder is open, and each fall made one reminder, and one more at most for each
\* resume of its series that a fall overtook (Schedule.materialize, Schedule.resume).
THEOREM ScheduleInvariant == ScheduleSpec => []ScheduleInv
  <1>1. ScheduleSpec => []SInv
    BY ScheduleStarts, ScheduleSteps, PTL DEF ScheduleSpec
  <1>2. QED BY <1>1, SInvImplies, PTL

\* Every table and every looker keeps the type of its columns.
THEOREM ScheduleTypeCorrect == ScheduleSpec => []ScheduleTypeOK
  <1>1. ScheduleInv => ScheduleTypeOK
    BY DEF ScheduleInv
  <1>2. QED BY <1>1, ScheduleInvariant, PTL

\* A week asleep is one reminder, however many series, lookers and intervals there are.
THEOREM OneOpenOfEachSeries == ScheduleSpec => []OneOpenPerSeries
  <1>1. ScheduleInv => OneOpenPerSeries
    BY DEF ScheduleInv
  <1>2. QED BY <1>1, ScheduleInvariant, PTL

\* No two lookers make one fall twice, and none makes it early: only a resume that a fall
\* overtook while it waited for the write lock makes a fall due again, each one once.
THEOREM OneReminderPerFall == ScheduleSpec => []OncePerFall
  <1>1. ScheduleInv => OncePerFall
    BY DEF ScheduleInv
  <1>2. QED BY <1>1, ScheduleInvariant, PTL

-------------------------------------------------------------------------------
(* Who makes reminders. *)

LEMMA RunningMake ==
  ASSUME SInv, ScheduleNext, NEW r \in Reminder, NEW s \in Series,
         reminder[r].of # s, reminder'[r].of = s
  PROVE  series[s].state = "active" /\ ~series[s].paused /\ series'[s].next > reminder'[r].fall
  <1>1. ScheduleTypeOK /\ ScheduleSound
    BY DEF SInv, SoundInv
  <1>2. PICK l \in Looker : Materialize(l)
    <2>1. ~UNCHANGED reminder
      OBVIOUS
    <2>2. ~AddReminder
      <3>1. \A q \in Reminder : AddReminder => reminder'[q].of \in {reminder[q].of, None}
        BY <1>1 DEF AddReminder, NoReminder, ScheduleTypeOK
      <3>2. QED BY <3>1, NoReminderTime
    <2>3. \A q \in Reminder : ~Complete(q) /\ ~Snooze(q)
      <3>1. \A q \in Reminder : Complete(q) => reminder'[r].of = reminder[r].of
        BY <1>1 DEF Complete, ScheduleTypeOK, ReminderRow
      <3>2. \A q \in Reminder : Snooze(q) => reminder'[r].of = reminder[r].of
        BY <1>1 DEF Snooze, ScheduleTypeOK, ReminderRow
      <3>3. QED BY <3>1, <3>2
    <2>4. ~\E q \in Series : \/ \E c \in Content : Create(q, c)
                            \/ PauseSeries(q) \/ ResumeSeries(q) \/ Skip(q) \/ Stop(q)
      BY <2>1 DEF Create, PauseSeries, ResumeSeries, Skip, Stop
    <2>5. ~ScheduleTick /\ \A l \in Looker : ~Look(l) /\ ~GiveUp(l)
      BY <2>1 DEF ScheduleTick, Look, GiveUp
    <2>6. QED BY <2>2, <2>3, <2>4, <2>5 DEF ScheduleNext, Owner, OwnerSettles
  <1>3. PICK now, S, made : Wrote(l, now, S, made)
    BY <1>1, <1>2, MaterializeWrites
  <1>4. PICK q \in S : made[q] = r
    <2> SUFFICES ASSUME \A q \in S : made[q] # r PROVE FALSE
      OBVIOUS
    <2>1. reminder'[r] = IF Lapsed(r, S) THEN [reminder[r] EXCEPT !.state = "done"] ELSE reminder[r]
      BY <1>3, Zenon DEF Wrote
    <2>2. QED BY <1>1, <2>1 DEF ScheduleTypeOK, ReminderRow
  <1>5. reminder'[r] = [state |-> "open", of |-> q, fall |-> Before(now), due |-> Before(now), told |-> FALSE]
    BY <1>3, <1>4, Zenon DEF Wrote
  <1>6. q = s /\ reminder'[r].fall = Before(now)
    BY <1>5
  <1>7. now \in Nat /\ s \in Due(now)
    BY <1>3, <1>4, <1>6 DEF Wrote
  <1>8. series[s].state = "active" /\ ~series[s].paused
    BY <1>7 DEF Due, Active
  <1>9. series'[s] = [series[s] EXCEPT !.next = NextAfter(now)]
    BY <1>3, <1>4, <1>6, Zenon DEF Wrote
  <1>10. series'[s].next = NextAfter(now)
    BY <1>1, <1>9 DEF ScheduleTypeOK, SeriesRow
  <1>11. Before(now) \in Nat /\ NextAfter(now) = Before(now) + Every
    BY <1>7, LastFall
  <1>12. QED BY <1>6, <1>8, <1>10, <1>11, EveryAssumption

\* A paused or stopped series makes nothing, although a look found it due before, and one
\* that makes moves past the fall it made (Schedule.pause, stop, materialize).
THEOREM PausedSeriesAreSilent == ScheduleSpec => OnlyRunningSeriesMake
  <1>1. SInv /\ [ScheduleNext]_scheduleVars =>
          [\A r \in Reminder : \A s \in Series :
             reminder[r].of # s /\ reminder'[r].of = s =>
               /\ series[s].state = "active" /\ ~series[s].paused
               /\ series'[s].next > reminder'[r].fall]_scheduleVars
    BY RunningMake
  <1>2. ScheduleSpec => []SInv
    BY ScheduleStarts, ScheduleSteps, PTL DEF ScheduleSpec
  <1>3. QED BY <1>1, <1>2, PTL DEF ScheduleSpec, OnlyRunningSeriesMake

-------------------------------------------------------------------------------
(* How many series are active. *)

BoundedInv == IsFiniteSet(Active) /\ ActiveSeriesBounded

LEMMA FewerActive ==
  ASSUME BoundedInv, Active' \subseteq Active,
         \A s \in Active' : series'[s].content = series[s].content
  PROVE  BoundedInv'
  <1>1. IsFiniteSet(Active)' /\ Cardinality(Active') <= Cardinality(Active)
    BY FS_Subset DEF BoundedInv
  <1>2. Cardinality(Active) \in Nat /\ Cardinality(Active') \in Nat /\ MaxActive \in Nat
    BY <1>1, FS_CardinalityType, ScheduleLimits DEF BoundedInv
  <1>3. Cardinality(Active) <= MaxActive
    BY DEF BoundedInv, ActiveSeriesBounded
  <1>4. Cardinality(Active') <= MaxActive
    BY <1>1, <1>2, <1>3
  <1>5. \A s, t \in Active' : series'[s].content = series'[t].content => s = t
    BY DEF BoundedInv, ActiveSeriesBounded
  <1>6. QED BY <1>1, <1>4, <1>5, Zenon DEF BoundedInv, ActiveSeriesBounded

LEMMA CreateIsBounded ==
  ASSUME ScheduleTypeOK, BoundedInv, NEW s \in Series, NEW c \in Content, Create(s, c)
  PROVE  BoundedInv'
  <1>1. /\ series[s].state = "none" /\ ~RefusedSeries(c)
        /\ series'[s].state = "active" /\ series'[s].content = c
        /\ \A t \in Series \ {s} : series'[t] = series[t]
    BY DEF Create, NoSeries, ScheduleTypeOK
  <1>2. Active' = Active \cup {s} /\ s \notin Active
    BY <1>1 DEF Active
  <1>3. Cardinality(Active) \in Nat /\ ~(Cardinality(Active) >= MaxActive) /\ MaxActive \in Nat
    BY <1>1, FS_CardinalityType, ScheduleLimits DEF BoundedInv, RefusedSeries
  <1>4. IsFiniteSet(Active \cup {s}) /\ Cardinality(Active \cup {s}) = Cardinality(Active) + 1
    BY <1>2, FS_AddElement DEF BoundedInv
  <1>5. IsFiniteSet(Active)' /\ Cardinality(Active') <= MaxActive
    BY <1>2, <1>3, <1>4
  <1>6. \A t \in Active : series'[t].content = series[t].content /\ series[t].content # c
    BY <1>1, <1>2 DEF Active, RefusedSeries
  <1>7. \A q, t \in Active' : series'[q].content = series'[t].content => q = t
    BY <1>1, <1>2, <1>6 DEF BoundedInv, ActiveSeriesBounded
  <1>8. QED BY <1>5, <1>7, Zenon DEF BoundedInv, ActiveSeriesBounded

LEMMA StepsAreBounded ==
  ASSUME SInv, BoundedInv, [ScheduleNext]_scheduleVars
  PROVE  BoundedInv'
  <1>1. ScheduleTypeOK /\ ScheduleSound
    BY DEF SInv, SoundInv
  <1>2. CASE \E s \in Series, c \in Content : Create(s, c)
    BY <1>1, <1>2, CreateIsBounded
  <1>3. CASE \E s \in Series : PauseSeries(s) \/ ResumeSeries(s) \/ Skip(s) \/ Stop(s)
    <2>1. PICK s \in Series : PauseSeries(s) \/ ResumeSeries(s) \/ Skip(s) \/ Stop(s)
      BY <1>3
    <2>2. /\ \A t \in Series \ {s} : series'[t] = series[t]
          /\ (\A c \in Content : ~Create(s, c)) => s \in Active /\ series'[s].content = series[s].content
      BY <1>1, <2>1, OthersUntouched
    <2>3. CASE \E c \in Content : Create(s, c)
      BY <1>1, <2>3, CreateIsBounded
    <2>4. CASE \A c \in Content : ~Create(s, c)
      <3>1. \A t \in Active' : t \in Active /\ series'[t].content = series[t].content
        BY <2>2, <2>4 DEF Active
      <3>2. QED BY <3>1, FewerActive
    <2>5. QED BY <2>3, <2>4
  <1>4. CASE \E l \in Looker : Materialize(l)
    <2>1. PICK l, now, S, made : l \in Looker /\ Wrote(l, now, S, made)
      BY <1>1, <1>4, MaterializeWrites
    <2>2. \A s \in Series : series'[s] = IF s \in S THEN [series[s] EXCEPT !.next = NextAfter(now)] ELSE series[s]
      BY <2>1, Zenon DEF Wrote
    <2>3. \A s \in Active' : s \in Active /\ series'[s].content = series[s].content
      BY <1>1, <2>2 DEF Active, ScheduleTypeOK, SeriesRow
    <2>4. QED BY <2>3, FewerActive
  <1>5. CASE UNCHANGED series
    BY <1>5, FewerActive DEF Active
  <1>6. QED
    BY <1>2, <1>3, <1>4, <1>5
    DEF ScheduleNext, Owner, OwnerSettles, scheduleVars, AddReminder, Complete, Snooze,
        ScheduleTick, Look, GiveUp

\* The same words with the same rule are not active twice, and at most MAX_ACTIVE series
\* are active, in every reachable state (Schedule.create).
THEOREM ActiveSeriesLimited == ScheduleSpec => []ActiveSeriesBounded
  <1>1. ScheduleInit => BoundedInv
    <2>1. ScheduleInit => Active = {}
      BY DEF ScheduleInit, Active, NoSeries
    <2>2. IsFiniteSet({}) /\ Cardinality({}) <= MaxActive
      BY FS_EmptySet, ScheduleLimits
    <2>3. QED BY <2>1, <2>2 DEF BoundedInv, ActiveSeriesBounded
  <1>2. SInv /\ BoundedInv /\ [ScheduleNext]_scheduleVars => BoundedInv'
    BY StepsAreBounded
  <1>3. BoundedInv => ActiveSeriesBounded
    BY DEF BoundedInv
  <1>4. QED BY <1>1, <1>2, <1>3, ScheduleStarts, ScheduleSteps, PTL DEF ScheduleSpec

-------------------------------------------------------------------------------
(* What the trail answers for. *)

\* The fall after a fall is one interval later.
LEMMA FallAfterFall ==
  ASSUME NEW t \in Nat, NEW k \in Nat, t = k * Every
  PROVE  NextAfter(t) = t + Every
  <1>1. t \div Every = k
    BY EveryAssumption
  <1>2. (k + 1) * Every = k * Every + Every
    BY EveryAssumption
  <1>3. QED BY <1>1, <1>2 DEF NextAfter

Accounted(s) == LET t == trail[s] IN
  series[s].next = t.since + (t.occurred + t.missed + t.skipped) * Every
Untouched(s) == series[s].state = "none" => trail[s] = NoTrail
AccountedInv == clock <= MaxClock /\ EveryFallAccounted /\ \A s \in Series : Untouched(s)

\* A look that is not too late works through every fall since the last.
LEMMA MakingAccounts ==
  ASSUME ScheduleTypeOK, ScheduleSound, MaxClock < MaxCatchUp * Every,
         NEW now \in Nat, now <= MaxClock, NEW s \in Due(now)
  PROVE  NextAfter(now) = series[s].next + Count(s, now) * Every
  <1>1. s \in Active /\ s \in Series /\ series[s].next \in Nat /\ series[s].next <= Before(now)
    BY DueFalls
  <1>2. PICK k \in Nat : series[s].next = k * Every
    BY <1>1 DEF ScheduleSound, SeriesSound
  <1> DEFINE j == now \div Every
  <1>3. j \in Nat /\ j * Every <= now
    BY EveryAssumption
  <1>4. Before(now) = j * Every
    BY DEF Before
  <1> HIDE DEF j
  <1>5. Every \in Nat \ {0} /\ MaxCatchUp \in Nat \ {0} /\ MaxClock \in Nat
    BY EveryAssumption, ScheduleLimits
  <1>6. k <= j
    <2>1. k * Every <= j * Every
      BY <1>1, <1>2, <1>4
    <2>2. QED BY <1>3, <1>5, <2>1
  <1>7. j < MaxCatchUp
    <2>1. j * Every < MaxCatchUp * Every
      <3>1. \A a, b, x, y \in Nat : a <= x /\ x <= y /\ y < b => a < b
        OBVIOUS
      <3>2. j * Every \in Nat /\ MaxCatchUp * Every \in Nat
        BY <1>3, <1>5
      <3>3. QED BY <1>3, <1>5, <3>1, <3>2
    <2>2. QED BY <1>3, <1>5, <2>1
  <1>8. (j * Every - k * Every) \div Every = j - k
    <2>1. j * Every - k * Every = (j - k) * Every /\ j - k \in Nat
      BY <1>3, <1>5, <1>6
    <2>2. \A n \in Nat : (n * Every) \div Every = n
      BY <1>5
    <2>3. QED BY <2>1, <2>2
  <1>9. Count(s, now) = j - k + 1
    <2>1. (Before(now) - series[s].next) \div Every + 1 = j - k + 1
      BY <1>2, <1>4, <1>8
    <2>2. j - k + 1 <= MaxCatchUp
      BY <1>3, <1>5, <1>6, <1>7
    <2>3. QED BY <2>1, <2>2 DEF Count
  <1>10. (j - k + 1) * Every = j * Every + Every - k * Every
    BY <1>3, <1>5, <1>6
  <1>11. k * Every \in Nat /\ j * Every \in Nat
    BY <1>3, <1>5
  <1>12. QED BY <1>2, <1>4, <1>5, <1>9, <1>10, <1>11, LastFall

LEMMA SeriesStepsAccount ==
  ASSUME SInv, \A s \in Active : Accounted(s), \A s \in Series : Untouched(s),
         \E s \in Series : \/ \E c \in Content : Create(s, c)
                           \/ PauseSeries(s) \/ ResumeSeries(s) \/ Skip(s) \/ Stop(s)
  PROVE  \A s \in Active' : Accounted(s)'
  <1>1. ScheduleTypeOK /\ ScheduleSound /\ clock \in Nat
    BY DEF SInv, SoundInv, ScheduleTypeOK
  <1>2. PICK s \in Series : \/ \E c \in Content : Create(s, c)
                            \/ PauseSeries(s) \/ ResumeSeries(s) \/ Skip(s) \/ Stop(s)
    OBVIOUS
  <1>3. \A t \in Series \ {s} : series'[t] = series[t] /\ trail'[t] = trail[t]
    BY <1>1, <1>2, OthersUntouched
  <1>4. \A t \in Active' \ {s} : Accounted(t)'
    BY <1>3 DEF Active, Accounted
  <1>5. \A now \in Moments : NextAfter(now) \in Nat
    BY <1>1, FallsAhead DEF Moments
  <1>6. s \in Active' => Accounted(s)'
    <2>1. CASE \E c \in Content : Create(s, c)
      <3>0. PICK now \in Moments, c \in Content :
              /\ series' = [series EXCEPT ![s] = [NoSeries EXCEPT !.state = "active", !.content = c,
                                                                 !.next = NextAfter(now)]]
              /\ trail' = [trail EXCEPT ![s].since = NextAfter(now)]
        BY <2>1 DEF Create
      <3>1. series'[s].next = NextAfter(now) /\ trail'[s] = [trail[s] EXCEPT !.since = NextAfter(now)]
        BY <1>1, <3>0 DEF NoSeries, ScheduleTypeOK
      <3>2. trail[s] = NoTrail
        BY <2>1 DEF Create, Untouched
      <3>3. QED BY <1>5, <3>1, <3>2, EveryAssumption DEF Accounted, NoTrail
    <2>2. CASE PauseSeries(s)
      <3>1. s \in Active /\ series'[s].next = series[s].next /\ trail' = trail
        BY <1>1, <2>2 DEF PauseSeries, ScheduleTypeOK, SeriesRow
      <3>2. QED BY <3>1 DEF Accounted
    <2>3. CASE ResumeSeries(s)
      <3>1. PICK now \in Moments : Resumed(s, now)
        BY <1>1, <2>3, ResumeWrites
      <3>2. series'[s].next = NextAfter(now)
        BY <1>1, <3>1 DEF Resumed, ScheduleTypeOK, SeriesRow
      <3>3. /\ trail'[s].since = NextAfter(now) /\ trail'[s].occurred = 0
            /\ trail'[s].missed = 0 /\ trail'[s].skipped = 0
        BY <1>1, <3>1 DEF Resumed, NoTrail, ScheduleTypeOK
      <3>4. QED BY <1>5, <3>2, <3>3, EveryAssumption DEF Accounted
    <2>4. CASE Skip(s)
      <3>1. /\ s \in Active /\ series'[s].next = NextAfter(series[s].next)
            /\ trail'[s] = [trail[s] EXCEPT !.skipped = @ + 1]
        BY <1>1, <2>4 DEF Skip, ScheduleTypeOK, SeriesRow
      <3>2. NextAfter(series[s].next) = series[s].next + Every
        BY <1>1, <3>1, FallAfterFall DEF ScheduleSound, SeriesSound
      <3>3. trail[s] \in Trail /\ Accounted(s)
        BY <1>1, <3>1 DEF ScheduleTypeOK
      <3>4. \A n \in Nat : (n + 1) * Every = n * Every + Every
        BY EveryAssumption
      <3> DEFINE n == trail[s].occurred + trail[s].missed + trail[s].skipped
      <3>5. n \in Nat /\ n * Every \in Nat
        BY <3>3, EveryAssumption DEF Trail
      <3>6. /\ trail'[s].occurred + trail'[s].missed + trail'[s].skipped = n + 1
            /\ trail'[s].since = trail[s].since /\ trail[s].since \in Nat
        BY <3>1, <3>3 DEF Trail
      <3>7. series[s].next = trail[s].since + n * Every
        BY <3>3 DEF Accounted
      <3> HIDE DEF n
      <3>8. series'[s].next = trail'[s].since + (n + 1) * Every
        BY <3>1, <3>2, <3>4, <3>5, <3>6, <3>7, EveryAssumption
      <3>9. QED BY <3>6, <3>8 DEF Accounted
    <2>5. CASE Stop(s)
      <3>1. series'[s].state = "ended"
        BY <1>1, <2>5 DEF Stop, ScheduleTypeOK, SeriesRow
      <3>2. QED BY <3>1 DEF Active
    <2>6. QED BY <1>2, <2>1, <2>2, <2>3, <2>4, <2>5
  <1>7. QED BY <1>4, <1>6

LEMMA MakingStepsAccount ==
  ASSUME SInv, clock <= MaxClock, MaxClock < MaxCatchUp * Every, \A s \in Active : Accounted(s),
         NEW l \in Looker, Materialize(l)
  PROVE  \A s \in Active' : Accounted(s)'
  <1>1. ScheduleTypeOK /\ ScheduleSound /\ clock \in Nat /\ MaxClock \in Nat
    BY ScheduleLimits DEF SInv, SoundInv, ScheduleTypeOK
  <1>2. PICK now, S, made : Wrote(l, now, S, made)
    BY <1>1, MaterializeWrites
  <1>3. now \in Nat /\ now <= MaxClock /\ S = Due(now)
    <2>1. now \in Nat /\ now <= clock /\ S = Due(now)
      BY <1>2, Zenon DEF Wrote
    <2>2. QED BY <1>1, <2>1
  <1>4. \A s \in Series :
          /\ series'[s] = IF s \in S THEN [series[s] EXCEPT !.next = NextAfter(now)] ELSE series[s]
          /\ trail'[s] = IF s \in S
               THEN [trail[s] EXCEPT !.occurred = @ + 1, !.missed = @ + Count(s, now) - 1] ELSE trail[s]
    BY <1>2, Zenon DEF Wrote
  <1>5. SUFFICES ASSUME NEW s \in Active' PROVE Accounted(s)'
    OBVIOUS
  <1>6. s \in Series /\ s \in Active /\ trail[s] \in Trail /\ Accounted(s)
    BY <1>1, <1>4 DEF Active, ScheduleTypeOK, SeriesRow
  <1>7. CASE s \notin S
    <2>1. series'[s] = series[s] /\ trail'[s] = trail[s]
      BY <1>4, <1>6, <1>7
    <2>2. QED BY <1>6, <2>1 DEF Accounted
  <1>8. CASE s \in S
    <2> DEFINE n == trail[s].occurred + trail[s].missed + trail[s].skipped
               c == Count(s, now)
    <2>1. c \in Nat \ {0} /\ NextAfter(now) = series[s].next + c * Every
      BY <1>1, <1>3, <1>8, DueFalls, MakingAccounts
    <2>2. n \in Nat /\ series[s].next = trail[s].since + n * Every /\ trail[s].since \in Nat
      BY <1>6 DEF Accounted, Trail
    <2>3. trail'[s] = [trail[s] EXCEPT !.occurred = @ + 1, !.missed = @ + c - 1]
      BY <1>4, <1>6, <1>8
    <2>4. series'[s] = [series[s] EXCEPT !.next = NextAfter(now)]
      BY <1>4, <1>6, <1>8
    <2>5. series'[s].next = NextAfter(now)
      BY <1>1, <1>6, <2>4 DEF ScheduleTypeOK, SeriesRow
    <2> HIDE DEF c
    <2>6. /\ trail'[s].occurred + trail'[s].missed + trail'[s].skipped = n + c
          /\ trail'[s].since = trail[s].since
      BY <1>6, <2>1, <2>3 DEF Trail
    <2> HIDE DEF n
    <2>7. (n + c) * Every = n * Every + c * Every /\ n * Every \in Nat /\ c * Every \in Nat
      BY <2>1, <2>2, EveryAssumption
    <2>8. series'[s].next = trail'[s].since + (n + c) * Every
      BY <2>1, <2>2, <2>5, <2>6, <2>7
    <2>9. QED BY <2>6, <2>8 DEF Accounted
  <1>9. QED BY <1>7, <1>8

LEMMA StepsAccount ==
  ASSUME SInv, AccountedInv, [ScheduleNext]_scheduleVars
  PROVE  AccountedInv'
  <1>1. clock' <= MaxClock
    <2>1. clock \in Nat /\ MaxClock \in Nat /\ clock <= MaxClock
      BY ScheduleLimits DEF SInv, ScheduleTypeOK, AccountedInv
    <2>2. CASE ScheduleTick
      BY <2>1, <2>2 DEF ScheduleTick
    <2>3. CASE UNCHANGED clock
      BY <2>1, <2>3
    <2>4. QED
      BY <2>2, <2>3
      DEF ScheduleNext, Owner, OwnerSettles, scheduleVars, Create, PauseSeries, ResumeSeries, Skip,
          Stop, AddReminder, Complete, Snooze, Look, Materialize, GiveUp
  <1>2. ASSUME MaxClock < MaxCatchUp * Every PROVE \A s \in Active' : Accounted(s)'
    <2>1. /\ clock <= MaxClock /\ \A s \in Active : Accounted(s)
          /\ \A s \in Series : Untouched(s)
      BY <1>2 DEF AccountedInv, EveryFallAccounted, Accounted
    <2>2. CASE \E s \in Series : \/ \E c \in Content : Create(s, c)
                                 \/ PauseSeries(s) \/ ResumeSeries(s) \/ Skip(s) \/ Stop(s)
      BY <2>1, <2>2, SeriesStepsAccount
    <2>3. CASE \E l \in Looker : Materialize(l)
      BY <1>2, <2>1, <2>3, MakingStepsAccount
    <2>4. CASE UNCHANGED <<series, trail>>
      BY <2>1, <2>4 DEF Active, Accounted
    <2>5. QED
      BY <2>2, <2>3, <2>4
      DEF ScheduleNext, Owner, OwnerSettles, scheduleVars, AddReminder, Complete, Snooze,
          ScheduleTick, Look, GiveUp
  <1>3. \A s \in Series : Untouched(s)'
    <2>1. ScheduleTypeOK /\ ScheduleSound /\ \A s \in Series : Untouched(s)
      BY DEF SInv, SoundInv, AccountedInv
    <2>2. CASE \E s \in Series : \/ \E c \in Content : Create(s, c)
                                 \/ PauseSeries(s) \/ ResumeSeries(s) \/ Skip(s) \/ Stop(s)
      <3>1. PICK s \in Series : \/ \E c \in Content : Create(s, c)
                                \/ PauseSeries(s) \/ ResumeSeries(s) \/ Skip(s) \/ Stop(s)
        BY <2>2
      <3>2. \A t \in Series \ {s} : series'[t] = series[t] /\ trail'[t] = trail[t]
        BY <2>1, <3>1, OthersUntouched
      <3>3. series'[s].state # "none"
        BY <2>1, <3>1, OthersUntouched
      <3>4. QED BY <2>1, <3>2, <3>3 DEF Untouched
    <2>3. CASE \E l \in Looker : Materialize(l)
      <3>1. PICK l, now, S, made : l \in Looker /\ Wrote(l, now, S, made)
        BY <2>1, <2>3, MaterializeWrites
      <3>2. \A s \in Series :
              /\ series'[s] = IF s \in S THEN [series[s] EXCEPT !.next = NextAfter(now)] ELSE series[s]
              /\ trail'[s] = IF s \in S
                   THEN [trail[s] EXCEPT !.occurred = @ + 1, !.missed = @ + Count(s, now) - 1] ELSE trail[s]
        BY <3>1, Zenon DEF Wrote
      <3>3. \A s \in S : series[s].state = "active"
        BY <3>1 DEF Wrote, Due, Active
      <3>4. QED BY <2>1, <3>2, <3>3 DEF Untouched, ScheduleTypeOK, SeriesRow
    <2>4. CASE UNCHANGED <<series, trail>>
      BY <2>1, <2>4 DEF Untouched
    <2>5. QED
      BY <2>2, <2>3, <2>4
      DEF ScheduleNext, Owner, OwnerSettles, scheduleVars, AddReminder, Complete, Snooze,
          ScheduleTick, Look, GiveUp
  <1>4. QED BY <1>1, <1>2, <1>3, Zenon DEF AccountedInv, EveryFallAccounted, Accounted

\* The trail answers for every fall of an active series: a look that is not more than
\* MAX_CATCH_UP falls late records each one it passes (Schedule.materialize, skip, resume).
THEOREM TrailAnswersForEveryFall == ScheduleSpec => []EveryFallAccounted
  <1>1. ScheduleInit => AccountedInv
    BY ScheduleLimits DEF ScheduleInit, AccountedInv, EveryFallAccounted, Active, NoSeries, Untouched
  <1>2. SInv /\ AccountedInv /\ [ScheduleNext]_scheduleVars => AccountedInv'
    BY StepsAccount
  <1>3. AccountedInv => EveryFallAccounted
    BY DEF AccountedInv
  <1>4. QED BY <1>1, <1>2, <1>3, ScheduleStarts, ScheduleSteps, PTL DEF ScheduleSpec
===============================================================================
