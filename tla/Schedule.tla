------------------------------- MODULE Schedule --------------------------------
(* Repeating reminders (diya_schedule.py) and the reminders table they write    *)
(* (diya_db.Store). A series makes one ordinary reminder when its time comes,   *)
(* and whoever looks makes it: the scheduled notifier, a page, a tool of the    *)
(* chat. A looker reads the clock and asks whether anything is due on one       *)
(* connection, and makes what is due later, in a transaction of its own: any    *)
(* number of other lookers, the owner's buttons and the clock come in between.  *)
(*                                                                             *)
(* Abstracted: the words of a series with its rule are one value; the rule      *)
(* falls every Every ticks; time is one line of ticks (no change of the hour);  *)
(* the trail is kept as how many falls it records since the series was last     *)
(* set going. A request of the owner reads the clock before it waits for the    *)
(* write lock, and works out what it writes from that time, however late it is. *)
EXTENDS Naturals, FiniteSets

CONSTANTS Series,      \* rows of reminder_series that can be made
          Reminder,    \* rows of reminders that can be made
          Content,     \* the words of a series with its rule
          Looker,      \* processes and threads that look
          None,        \* an empty column
          Every,       \* the ticks between two falls of a rule
          MaxActive,   \* MAX_ACTIVE
          MaxCatchUp,  \* MAX_CATCH_UP
          MaxLate,     \* bound: resumes of one series that a fall overtakes
          MaxClock     \* bound: the clock stops here

ASSUME EveryAssumption == Every \in Nat \ {0}
ASSUME NoReminderTime == None \notin Nat /\ None \notin Series /\ None \notin Content
ASSUME ScheduleLimits == MaxActive \in Nat /\ MaxCatchUp \in Nat \ {0}
                          /\ MaxLate \in Nat /\ MaxClock \in Nat
ASSUME FiniteReminders == IsFiniteSet(Reminder)

VARIABLES series,    \* the reminder_series table
          reminder,  \* the reminders table
          trail,     \* schedule_events: what the falls since `since` became, and
                     \* (history) how many resumes a fall overtook
          looker,    \* what each looker is doing
          clock      \* the wall clock

scheduleVars == <<series, reminder, trail, looker, clock>>

SeriesRow == [state : {"none", "active", "ended"}, content : Content \cup {None},
              paused : BOOLEAN, next : Nat \cup {None}]
ReminderRow == [state : {"none", "open", "done"}, of : Series \cup {None},
                fall : Nat \cup {None}, due : Nat \cup {None}, told : BOOLEAN]
Trail == [since : Nat, occurred : Nat, missed : Nat, skipped : Nat, late : Nat]
Looking == [pc : {"idle", "make"}, now : Nat]

ScheduleTypeOK == /\ series \in [Series -> SeriesRow]
                  /\ reminder \in [Reminder -> ReminderRow]
                  /\ trail \in [Series -> Trail]
                  /\ looker \in [Looker -> Looking]
                  /\ clock \in Nat

NoSeries == [state |-> "none", content |-> None, paused |-> FALSE, next |-> None]
NoReminder == [state |-> "none", of |-> None, fall |-> None, due |-> None, told |-> FALSE]
NoTrail == [since |-> 0, occurred |-> 0, missed |-> 0, skipped |-> 0, late |-> 0]
NotLooking == [pc |-> "idle", now |-> 0]

ScheduleInit == /\ series = [s \in Series |-> NoSeries]
                /\ reminder = [r \in Reminder |-> NoReminder]
                /\ trail = [s \in Series |-> NoTrail]
                /\ looker = [l \in Looker |-> NotLooking]
                /\ clock = 0

-------------------------------------------------------------------------------
(* The rule (diya_repeat), and what the operations share. An operator whose     *)
(* name ends in Broken or Late is the one after it with a plausible mistake.    *)

NextAfter(t) == (t \div Every + 1) * Every   \* the first fall strictly after t
Before(t) == (t \div Every) * Every          \* the last fall at or before t

Active == {s \in Series : series[s].state = "active"}
Free == {r \in Reminder : reminder[r].state = "none"}
Open(s) == {r \in Reminder : reminder[r].state = "open" /\ reminder[r].of = s}

\* Due(t): the series the query of materialize finds at t.
Due(t) == {s \in Active : ~series[s].paused /\ series[s].next <= t}

-------------------------------------------------------------------------------
(* The owner's side.                                                           *)

\* The times a request may have read before it was held up until now.
Moments == 0 .. clock

RefusedSeriesBroken(c) == \/ \E s \in Active : series[s].content = c
                          \/ Cardinality(Active) > MaxActive
RefusedSeries(c) == \/ \E s \in Active : series[s].content = c
                    \/ Cardinality(Active) >= MaxActive

Create(s, c) ==
  /\ series[s].state = "none" /\ ~RefusedSeries(c)
  /\ \E now \in Moments :
       /\ series' = [series EXCEPT ![s] = [NoSeries EXCEPT !.state = "active", !.content = c,
                                                           !.next = NextAfter(now)]]
       /\ trail' = [trail EXCEPT ![s].since = NextAfter(now)]
  /\ UNCHANGED <<reminder, looker, clock>>

PauseSeries(s) ==
  /\ s \in Active /\ ~series[s].paused
  /\ series' = [series EXCEPT ![s].paused = TRUE]
  /\ UNCHANGED <<reminder, trail, looker, clock>>

ResumedNext(now) == NextAfter(now)

\* A fall of the rule has come since the request read the clock.
Overtaken(now) == NextAfter(now) <= clock

\* What the series makes from now on is counted afresh: the falls it was paused
\* for are between was_next and the new next of the recorded event.
ResumeSeries(s) ==
  /\ s \in Active /\ series[s].paused
  /\ \E now \in Moments :
       /\ Overtaken(now) => trail[s].late < MaxLate
       /\ series' = [series EXCEPT ![s].paused = FALSE, ![s].next = ResumedNext(now)]
       /\ trail' = [trail EXCEPT ![s] =
            [NoTrail EXCEPT !.since = ResumedNext(now),
                            !.late = trail[s].late + IF Overtaken(now) THEN 1 ELSE 0]]
  /\ UNCHANGED <<reminder, looker, clock>>

\* (Bounded: a fall after the clock's end is not skipped.)
Skip(s) ==
  /\ s \in Active /\ ~series[s].paused /\ series[s].next <= MaxClock
  /\ series' = [series EXCEPT ![s].next = NextAfter(series[s].next)]
  /\ trail' = [trail EXCEPT ![s].skipped = @ + 1]
  /\ UNCHANGED <<reminder, looker, clock>>

Stop(s) ==
  /\ s \in Active
  /\ series' = [series EXCEPT ![s].state = "ended", ![s].next = None]
  /\ UNCHANGED <<reminder, trail, looker, clock>>

\* A one-off reminder: with a time that is ahead of the time read, or with none.
AddReminder ==
  /\ \E now \in Moments : \E r \in Free, t \in (now + 1 .. MaxClock) \cup {None} :
       reminder' = [reminder EXCEPT ![r] = [NoReminder EXCEPT !.state = "open", !.due = t]]
  /\ UNCHANGED <<series, trail, looker, clock>>

Complete(r) ==
  /\ reminder[r].state = "open"
  /\ reminder' = [reminder EXCEPT ![r].state = "done"]
  /\ UNCHANGED <<series, trail, looker, clock>>

\* Pushed back to a time that is ahead of the time read, to be told again then.
Snooze(r) ==
  /\ reminder[r].state = "open"
  /\ \E now \in Moments : \E t \in now + 1 .. MaxClock :
       reminder' = [reminder EXCEPT ![r].due = t, ![r].told = FALSE]
  /\ UNCHANGED <<series, trail, looker, clock>>

-------------------------------------------------------------------------------
(* materialize: the look, and the transaction that makes what is due.          *)

Look(l) ==
  /\ looker[l].pc = "idle" /\ Due(clock) # {}
  /\ looker' = [looker EXCEPT ![l] = [pc |-> "make", now |-> clock]]
  /\ UNCHANGED <<series, reminder, trail, clock>>

\* How many falls one look works through for a series that is due.
CountBroken(s, now) == LET behind == (Before(now) - series[s].next) \div Every
                       IN  IF behind <= MaxCatchUp THEN behind ELSE MaxCatchUp
Count(s, now) == LET behind == (Before(now) - series[s].next) \div Every + 1
                 IN  IF behind <= MaxCatchUp THEN behind ELSE MaxCatchUp

LapsedBroken(r, S) == reminder[r].state = "open" /\ reminder[r].of \in S /\ reminder[r].told
Lapsed(r, S) == reminder[r].state = "open" /\ reminder[r].of \in S

MadeNextBroken(s, now) == series[s].next + Every
MadeNext(s, now) == NextAfter(now)

\* Every due series at once: the reminders of S that are still open lapse, S
\* makes one reminder each, for its latest fall, in the rows `made` gives it.
Make(S, now, made) ==
  /\ reminder' = [r \in Reminder |->
       IF \E s \in S : made[s] = r
       THEN [NoReminder EXCEPT !.state = "open", !.of = CHOOSE s \in S : made[s] = r,
                               !.fall = Before(now), !.due = Before(now)]
       ELSE IF Lapsed(r, S) THEN [reminder[r] EXCEPT !.state = "done"] ELSE reminder[r]]
  /\ series' = [s \in Series |-> IF s \in S THEN [series[s] EXCEPT !.next = MadeNext(s, now)]
                                            ELSE series[s]]
  /\ trail' = [s \in Series |->
       IF s \in S THEN [trail[s] EXCEPT !.occurred = @ + 1, !.missed = @ + Count(s, now) - 1]
                  ELSE trail[s]]

DueNowBroken(t) == {s \in Active : series[s].next <= t}
DueNowLate(t) == {s \in Due(t) : series[s].next < t}
DueNow(t) == Due(t)  \* asked again inside the transaction

Materialize(l) == LET now == looker[l].now  S == DueNow(now) IN
  /\ looker[l].pc = "make"
  /\ \E made \in [S -> Free] :
       /\ \A s, t \in S : made[s] = made[t] => s = t
       /\ Make(S, now, made)
  /\ looker' = [looker EXCEPT ![l] = NotLooking]
  /\ UNCHANGED clock

\* The database is busy, or the process dies: what was due stays due.
GiveUp(l) ==
  /\ looker[l].pc = "make"
  /\ looker' = [looker EXCEPT ![l] = NotLooking]
  /\ UNCHANGED <<series, reminder, trail, clock>>

ScheduleTick == /\ clock < MaxClock /\ clock' = clock + 1
                /\ UNCHANGED <<series, reminder, trail, looker>>

OwnerSettles == \/ \E s \in Series : \/ \E c \in Content : Create(s, c)
                                     \/ PauseSeries(s) \/ ResumeSeries(s) \/ Skip(s) \/ Stop(s)
                \/ \E r \in Reminder : Complete(r)
                \/ AddReminder

Owner == OwnerSettles \/ \E r \in Reminder : Snooze(r)

ScheduleNext == \/ Owner \/ ScheduleTick
                \/ \E l \in Looker : Look(l) \/ Materialize(l) \/ GiveUp(l)

ScheduleSpec == ScheduleInit /\ [][ScheduleNext]_scheduleVars

-------------------------------------------------------------------------------
(* What must be true.                                                          *)

Of(s) == {r \in Reminder : reminder[r].of = s}

\* A week asleep is one reminder: of one series at most one reminder is open,
\* whoever looked and however far behind it was (SCHEDULE_DESIGN D3).
OneOpenPerSeries == \A s \in Series : Cardinality(Open(s)) <= 1

MadeFor(s, t) == {r \in Of(s) : reminder[r].fall = t}

\* One fall makes one reminder: two lookers that both saw it due, a pause, a resume
\* and a stop in between included ("two callers cannot both make the same one",
\* Schedule.materialize), and it is never made before its time. Only a resume that a
\* fall overtakes, for it read the clock before it waited for the write lock, can put
\* the series back to falls that were made; each such resume costs one more at most.
OncePerFall ==
  \A s \in Series : \A r \in Of(s) :
    /\ Cardinality(MadeFor(s, reminder[r].fall)) <= 1 + trail[s].late
    /\ reminder[r].fall <= clock

\* The trail answers for every fall of a series since it was last set going: it
\* became a reminder, was recorded as missed, or was skipped. Said of a series
\* that no look found more than MAX_CATCH_UP falls behind.
EveryFallAccounted ==
  MaxClock < MaxCatchUp * Every =>
    \A s \in Active : LET t == trail[s] IN
      series[s].next = t.since + (t.occurred + t.missed + t.skipped) * Every

\* The same words with the same rule are not active twice, and no more than
\* MAX_ACTIVE series are active.
ActiveSeriesBounded ==
  /\ Cardinality(Active) <= MaxActive
  /\ \A s, t \in Active : series[s].content = series[t].content => s = t

\* A paused or stopped series makes nothing, although a look found it due before
\* (Schedule.pause, Schedule.stop); and one that makes moves past the present.
OnlyRunningSeriesMake ==
  [][\A r \in Reminder : \A s \in Series :
       reminder[r].of # s /\ reminder'[r].of = s =>
         /\ series[s].state = "active" /\ ~series[s].paused
         /\ series'[s].next > reminder'[r].fall]_scheduleVars

\* What a step may rely on: the falls from a series' next on were made only as often
\* as a resume was overtaken, and what an active series falls at is a fall of the rule.
SeriesSound(s) ==
  /\ s \in Active => /\ series[s].next \in Nat
                     /\ \E k \in 0 .. series[s].next : series[s].next = k * Every
                     /\ \A r \in Of(s) : reminder[r].fall >= series[s].next =>
                          Cardinality(MadeFor(s, reminder[r].fall)) <= trail[s].late
  /\ series[s].state = "none" => Of(s) = {}
ScheduleSound == /\ \A s \in Series : SeriesSound(s)
                 /\ \A l \in Looker : looker[l].now <= clock
                 /\ \A r \in Reminder : reminder[r].of # None => reminder[r].fall \in Nat
                 /\ \A r \in Reminder : reminder[r].state = "none" => reminder[r].of = None

ScheduleInv == ScheduleTypeOK /\ ScheduleSound /\ OneOpenPerSeries /\ OncePerFall
===============================================================================
