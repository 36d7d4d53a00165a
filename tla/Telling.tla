-------------------------------- MODULE Telling --------------------------------
(* The notifier's pass over the reminders (diya_notify.run_once), next to        *)
(* everything Schedule lets happen meanwhile. A pass makes the repeating          *)
(* reminders that are due, reads what is due and was not told, shows a            *)
(* notification for each, the rest of a flood as one, and records each as told    *)
(* after it was shown. It may die at any step; a notification may fail, and one   *)
(* that is not answered for in time fails although it is on the screen. One pass  *)
(* runs at a time (the scheduled task ignores a new instance), and pages and      *)
(* threads look, complete and push back in between.                               *)
(* Abstracted: the words; the order of the notifications of one pass.             *)
EXTENDS Schedule

CONSTANTS Notifier,         \* the looker that is the notifier
          MaxNotifications, \* MAX_NOTIFICATIONS: messages in one pass
          MaxMishaps        \* bound: mishaps

ASSUME NotifierAssumption == /\ Notifier \in Looker
                             /\ MaxNotifications \in Nat \ {0} /\ MaxMishaps \in Nat

VARIABLES pass,     \* what the pass is doing and what it read
          shown,    \* external: the time each reminder was last shown
          shows,    \* external: how often, since it was made or pushed back
          mishaps,  \* (history) passes that died, and notifications that failed
                    \* although they were on the screen
          pushed    \* (history) pushed back while the pass that had read them was on

tellingVars == <<series, reminder, trail, looker, clock, pass, shown, shows, mishaps, pushed>>
screen == <<shown, shows>>
history == <<mishaps, pushed>>

\* one: the reminder that was just shown and is to be recorded; sent: messages.
Pass == [pc : {"idle", "read", "tell", "mark", "markrest"}, now : Nat, sent : Nat,
         singles : SUBSET Reminder, rest : SUBSET Reminder, one : Reminder \cup {None}]
Resting == [pc |-> "idle", now |-> 0, sent |-> 0, singles |-> {}, rest |-> {}, one |-> None]

TellingTypeOK == /\ ScheduleTypeOK
                 /\ pass \in Pass /\ Cardinality(pass.singles) <= MaxNotifications
                 /\ pass.pc = "mark" => pass.one \in pass.singles
                 /\ shown \in [Reminder -> Nat \cup {None}]
                 /\ shows \in [Reminder -> Nat] /\ mishaps \in Nat /\ pushed \subseteq Reminder

TellingInit == /\ ScheduleInit
               /\ pass = Resting
               /\ shown = [r \in Reminder |-> None]
               /\ shows = [r \in Reminder |-> 0]
               /\ mishaps = 0
               /\ pushed = {}

-------------------------------------------------------------------------------
\* The clock is read once, and what is due of the series is made first.
PassBegin ==
  /\ pass.pc = "idle"
  /\ pass' = [Resting EXCEPT !.pc = "read", !.now = clock]
  /\ IF Due(clock) # {} THEN Look(Notifier) ELSE UNCHANGED scheduleVars
  /\ UNCHANGED <<screen, history>>

\* due_reminders(now, unnotified_only): open, with a time that has come, not told.
WaitingLate(t) == {r \in Reminder : /\ reminder[r].state = "open" /\ reminder[r].due # None
                                    /\ reminder[r].due < t /\ ~reminder[r].told}
Waiting(t) == {r \in Reminder : /\ reminder[r].state = "open" /\ reminder[r].due # None
                                /\ reminder[r].due <= t /\ ~reminder[r].told}

\* split_flood: who is told one by one, the soonest first.
SinglesBroken(W, S) == IF Cardinality(W) <= MaxNotifications + 1 THEN S = W
                       ELSE /\ Cardinality(S) = MaxNotifications - 1
                            /\ \A q \in S, r \in W \ S : reminder[q].due <= reminder[r].due
Singles(W, S) == IF Cardinality(W) <= MaxNotifications THEN S = W
                 ELSE /\ Cardinality(S) = MaxNotifications - 1
                      /\ \A q \in S, r \in W \ S : reminder[q].due <= reminder[r].due

ReadDue == LET W == Waiting(pass.now) IN
  /\ pass.pc = "read" /\ looker[Notifier].pc = "idle"
  /\ \E S \in SUBSET W :
       /\ Singles(W, S)
       /\ pass' = [pass EXCEPT !.pc = "tell", !.singles = S, !.rest = W \ S]
  /\ pushed' = pushed \ W
  /\ UNCHANGED <<scheduleVars, screen, mishaps>>

Show(R) == /\ shown' = [r \in Reminder |-> IF r \in R THEN clock ELSE shown[r]]
           /\ shows' = [r \in Reminder |-> IF r \in R THEN shows[r] + 1 ELSE shows[r]]

\* NotifyError: nothing was shown, or the process that showed it was not done in time.
Failed(R) == \/ UNCHANGED <<screen, mishaps>>
             \/ mishaps < MaxMishaps /\ Show(R) /\ mishaps' = mishaps + 1

\* What a pass does next with a reminder once it was shown, and once it could not be.
AfterShowBroken(r) == [pass EXCEPT !.sent = @ + 1, !.singles = @ \ {r}]
AfterShow(r) == [pass EXCEPT !.pc = "mark", !.sent = @ + 1, !.one = r]

TellOne(r) ==
  /\ pass.pc = "tell" /\ r \in pass.singles
  /\ Show({r}) /\ pass' = AfterShow(r)
  /\ UNCHANGED <<scheduleVars, history>>

AfterFailureBroken(r) == [pass EXCEPT !.pc = "mark", !.one = r]
AfterFailure(r) == [pass EXCEPT !.singles = @ \ {r}]

FailOne(r) ==
  /\ pass.pc = "tell" /\ r \in pass.singles
  /\ Failed({r}) /\ pass' = AfterFailure(r)
  /\ UNCHANGED <<scheduleVars, pushed>>

\* mark_notified: only what is still open and was not marked.
MarkNotified(r) ==
  /\ reminder' = IF reminder[r].state = "open" THEN [reminder EXCEPT ![r].told = TRUE] ELSE reminder
  /\ UNCHANGED <<series, trail, looker, clock, screen, history>>

MarkOne ==
  /\ pass.pc = "mark" /\ MarkNotified(pass.one)
  /\ pass' = [pass EXCEPT !.pc = "tell", !.singles = @ \ {pass.one}, !.one = None]

\* One message stands for the rest; each of them is recorded on its own.
TellRest ==
  /\ pass.pc = "tell" /\ pass.singles = {} /\ pass.rest # {}
  /\ Show(pass.rest) /\ pass' = [pass EXCEPT !.pc = "markrest", !.sent = @ + 1]
  /\ UNCHANGED <<scheduleVars, history>>

FailRest ==
  /\ pass.pc = "tell" /\ pass.singles = {} /\ pass.rest # {}
  /\ Failed(pass.rest) /\ pass' = Resting
  /\ UNCHANGED <<scheduleVars, pushed>>

MarkRest(r) ==
  /\ pass.pc = "markrest" /\ r \in pass.rest /\ MarkNotified(r)
  /\ pass' = [pass EXCEPT !.rest = @ \ {r}]

PassEnd ==
  /\ pass.pc \in {"tell", "markrest"} /\ pass.singles = {} /\ pass.rest = {}
  /\ pass' = Resting
  /\ UNCHANGED <<scheduleVars, screen, history>>

\* The pass dies, or the database cannot be read or written: it ends as it is.
PassDies ==
  /\ pass.pc # "idle" /\ mishaps < MaxMishaps
  /\ pass' = Resting /\ mishaps' = mishaps + 1
  /\ looker' = [looker EXCEPT ![Notifier] = NotLooking]
  /\ UNCHANGED <<series, reminder, trail, clock, screen, pushed>>

InHand == pass.singles \cup pass.rest

\* Pushed back: whatever was shown before was for another time.
PushBack(r) ==
  /\ Snooze(r) /\ shows' = [shows EXCEPT ![r] = 0]
  /\ pushed' = IF r \in InHand THEN pushed \cup {r} ELSE pushed \ {r}
  /\ UNCHANGED <<pass, shown, mishaps>>

Elsewhere ==
  /\ \/ OwnerSettles \/ ScheduleTick
     \/ \E l \in Looker \ {Notifier} : Look(l)
     \/ \E l \in Looker : Materialize(l) \/ GiveUp(l)
  /\ UNCHANGED <<pass, screen, history>>

PassStep == \/ PassBegin \/ ReadDue \/ MarkOne \/ TellRest \/ FailRest \/ PassEnd
            \/ \E r \in Reminder : TellOne(r) \/ FailOne(r) \/ MarkRest(r)

TellingNext == \/ PassStep \/ PassDies \/ Elsewhere
               \/ \E r \in Reminder : PushBack(r)

TellingSpec == TellingInit /\ [][TellingNext]_tellingVars

-------------------------------------------------------------------------------
(* What must be true.                                                          *)

\* Never zero times, and never early: what is recorded as told was shown since it was
\* made or pushed back, and when its time had come (diya_notify.run_once). Except what
\* was pushed back under the hands of the pass that had read it (see ToldAtItsTime).
NeverUnshown ==
  \A r \in Reminder : reminder[r].told =>
    \/ r \in pushed
    \/ shows[r] > 0 /\ shown[r] # None /\ shown[r] >= reminder[r].due

\* Told once: a reminder is shown again only because it was pushed back, because a pass
\* died between showing it and recording it ("twice, never zero times"), or because the
\* process that showed it was not done in time, which is a failure that is tried again.
OnceUnlessMishap == \A r \in Reminder : shows[r] <= 1 + mishaps

\* However many are due at once, a pass shows at most MAX_NOTIFICATIONS messages.
NoFlood == pass.sent <= MaxNotifications

\* What the documentation says of a reminder that is pushed back: it is told again
\* at the new time (docs/SCHEDULE_DESIGN.md, D4; Schedule.snooze). The code records
\* it as told when it was pushed back after the pass read it.
ToldAtItsTime ==
  \A r \in Reminder : reminder[r].told => shown[r] # None /\ shown[r] >= reminder[r].due
===============================================================================
