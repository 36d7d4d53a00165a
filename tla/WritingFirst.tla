------------------------------ MODULE WritingFirst -----------------------------
(* What Diya says without being asked (diya_proactive.Proactive), and the part   *)
(* of the notifier that puts it on the desktop (diya_notify.tell_proactive).     *)
(* A message is written into the chat first and recorded by its key second; it   *)
(* is shown first and marked second: in between the process may die, the store   *)
(* may fail, and the owner may read the message in the chat.                     *)
(*                                                                               *)
(* Abstracted: the words; what makes a greeting, a check-in or a reminder due    *)
(* (the day's items, the hour, the quiet hours) is a free choice at every plan;  *)
(* which of more than MAX_NOTIFICATIONS untold messages a pass takes.            *)
EXTENDS Naturals, FiniteSets

CONSTANTS Flow,             \* the notifier's passes and the requests of the page
          Notifier,         \* the flow that is the notifier
          Automation,       \* rows of automations, whose answers are posted here too
          Reminder,         \* reminders that may come due
          Unasked,          \* the kinds she says on her own: morning, evening, away
          None,             \* an empty value
          DailyCap,         \* DAILY_CAP
          MaxNotifications, \* MAX_NOTIFICATIONS
          DayLength,        \* ticks of a day
          MaxClock,         \* bound: the clock stops here
          MaxMishaps,       \* bound: mishaps
          MaxRequests       \* bound: what the owner asks of the page

ASSUME NotifierIsAFlow == Notifier \in Flow
ASSUME NoNone == None \notin Automation /\ None \notin Reminder
ASSUME KindsApart == Unasked \cap {"reminder", "automation"} = {} /\ IsFiniteSet(Unasked)
ASSUME WritingLimits == /\ DailyCap \in Nat /\ MaxNotifications \in Nat /\ DayLength \in Nat \ {0}
                        /\ MaxClock \in Nat /\ MaxMishaps \in Nat /\ MaxRequests \in Nat

VARIABLES said,    \* the chat: how often each message was written
          posts,   \* the proactive_messages table: the keys it holds
          untold,  \* of those, the ones neither seen nor put on the desktop
          shown,   \* external: how often each was put on the desktop
          flow,    \* what each flow is doing and what it read
          clock,    \* the wall clock
          requests, \* what the owner has asked of the page
          mishaps  \* processes that died, queries that failed, and notifications that failed
                   \* and were shown

writingVars == <<said, posts, untold, shown, flow, clock, mishaps, requests>>

Time == 0..MaxClock
Day(t) == t \div DayLength
UnaskedKeys(d) == {[kind |-> k, of |-> None, at |-> d] : k \in Unasked}
ReminderKeys == {[kind |-> "reminder", of |-> r, at |-> 0] : r \in Reminder}
Answer(a, t) == [kind |-> "automation", of |-> a, at |-> t]
Key == (UNION {UnaskedKeys(Day(t)) : t \in Time}) \cup ReminderKeys
         \cup {Answer(a, t) : a \in Automation, t \in Time}

\* of: the automation that is run or resumed; todo: what is still to be said, or to be shown;
\* wrote: the pass is past the automations.
Flows == [at : {"idle", "create", "resume", "due", "agent", "run", "look", "add", "record", "finish",
                "write", "say", "list", "tell", "mark"},
          now : Time, of : Automation \cup {None}, key : Key \cup {None},
          todo : SUBSET Key, wrote : BOOLEAN]
Resting == [at |-> "idle", now |-> 0, of |-> None, key |-> None, todo |-> {}, wrote |-> FALSE]

WritingTypeOK == /\ said \in [Key -> Nat] /\ shown \in [Key -> Nat]
                 /\ posts \subseteq Key /\ untold \subseteq posts
                 /\ flow \in [Flow -> Flows] /\ clock \in Time /\ mishaps \in Nat /\ requests \in Nat

WritingInit == /\ said = [k \in Key |-> 0] /\ shown = [k \in Key |-> 0]
               /\ posts = {} /\ untold = {}
               /\ flow = [f \in Flow |-> Resting] /\ clock = 0 /\ mishaps = 0 /\ requests = 0

Asked == requests < MaxRequests /\ requests' = requests + 1
Goes(f, place) == flow' = [flow EXCEPT ![f].at = place]
Done(f, place) == flow' = [flow EXCEPT ![f].at = place, ![f].key = None]  \* with this message

-------------------------------------------------------------------------------
(* One message: is its key known, into the chat, into the table (_post).         *)

\* Where a flow is after a message of its own, and after an automation's answer.
AfterPost(f) == IF flow[f].key.kind = "automation" THEN "finish" ELSE "say"

LookKey(f) ==
  /\ flow[f].at = "look"
  /\ IF flow[f].key \in posts THEN Done(f, AfterPost(f)) ELSE Goes(f, "add")
  /\ UNCHANGED <<said, posts, untold, shown, clock, mishaps, requests>>

AddToChat(f) ==
  /\ flow[f].at = "add"
  /\ said' = [said EXCEPT ![flow[f].key] = @ + 1]
  /\ Goes(f, "record")
  /\ UNCHANGED <<posts, untold, shown, clock, mishaps, requests>>

\* INSERT OR IGNORE. A reminder is not put on the desktop from here (to_toast).
Record(f) ==
  LET k == flow[f].key IN
    [p |-> posts \cup {k},
     u |-> IF k \in posts \/ k.kind = "reminder" THEN untold ELSE untold \cup {k}]

RecordPost(f) ==
  /\ flow[f].at = "record"
  /\ posts' = Record(f).p /\ untold' = Record(f).u
  /\ Done(f, AfterPost(f))
  /\ UNCHANGED <<said, shown, clock, mishaps, requests>>

\* Where an exception leaves a flow: run_due catches what breaks a post of its own, main()
\* what breaks a stage of the pass, the framework what breaks a request.
Escapes(f) ==
  IF f # Notifier \/ flow[f].wrote \/ flow[f].at = "write" THEN Resting
  ELSE IF flow[f].at \in {"look", "add", "record"} THEN [flow[f] EXCEPT !.at = "finish", !.key = None]
  ELSE [Resting EXCEPT !.at = "write"]

StoreFails(f) ==
  /\ flow[f].at \in {"look", "add", "record", "write", "list", "mark"} /\ mishaps < MaxMishaps
  /\ flow' = [flow EXCEPT ![f] = Escapes(f)] /\ mishaps' = mishaps + 1
  /\ UNCHANGED <<said, posts, untold, shown, clock, requests>>

-------------------------------------------------------------------------------
(* What she says on her own (plan, make).                                        *)

MadeToday(d) == Cardinality(posts \cap UnaskedKeys(d))

\* The unasked keys of a plan, of those that are due: all that the cap leaves room for.
RoomBroken(d) == IF MadeToday(d) <= DailyCap THEN DailyCap + 1 - MadeToday(d) ELSE 0
Room(d) == IF MadeToday(d) < DailyCap THEN DailyCap - MadeToday(d) ELSE 0
WithinCap(P, due, d) == /\ P \subseteq due /\ Cardinality(P) <= Room(d)
                        /\ P # due => Cardinality(P) = Room(d)

\* reminders, due: what has come due and is not known. None of the rest in quiet hours.
Plan(f) ==
  /\ f = Notifier /\ flow[f].at = "write"
  /\ \E reminders \in SUBSET (ReminderKeys \ posts) :
       \E due \in SUBSET (UnaskedKeys(Day(clock)) \ posts) :
         \E P \in SUBSET due :
           /\ WithinCap(P, due, Day(clock))
           /\ flow' = [flow EXCEPT ![f] = [Resting EXCEPT !.at = "say", !.wrote = TRUE,
                                                          !.todo = reminders \cup P]]
  /\ UNCHANGED <<said, posts, untold, shown, clock, mishaps, requests>>

Say(f, k) ==
  /\ flow[f].at = "say" /\ k \in flow[f].todo
  /\ k \in ReminderKeys \/ flow[f].todo \cap ReminderKeys = {}  \* the reminders first
  /\ flow' = [flow EXCEPT ![f].at = "look", ![f].key = k, ![f].todo = @ \ {k}]
  /\ UNCHANGED <<said, posts, untold, shown, clock, mishaps, requests>>

-------------------------------------------------------------------------------
(* Onto the desktop (tell_proactive).                                            *)

ListUntold(f) ==
  /\ \/ flow[f].at = "list"
     \/ flow[f].at = "say" /\ flow[f].todo = {}
  /\ \E T \in SUBSET untold :
       /\ Cardinality(T) <= MaxNotifications
       /\ T # untold => Cardinality(T) = MaxNotifications
       /\ flow' = [flow EXCEPT ![f].at = "tell", ![f].todo = T]
  /\ UNCHANGED <<said, posts, untold, shown, clock, mishaps, requests>>

Notify(f, k) ==
  /\ flow[f].at = "tell" /\ k \in flow[f].todo
  /\ shown' = [shown EXCEPT ![k] = @ + 1]
  /\ flow' = [flow EXCEPT ![f].at = "mark", ![f].key = k, ![f].todo = @ \ {k}]
  /\ UNCHANGED <<said, posts, untold, clock, mishaps, requests>>

\* A notification that fails was not shown, or was: one that ran into the time limit after
\* it had come on the screen fails too.
NotifyFails(f, k) ==
  /\ flow[f].at = "tell" /\ k \in flow[f].todo
  /\ \/ UNCHANGED <<shown, mishaps>>
     \/ /\ mishaps < MaxMishaps /\ mishaps' = mishaps + 1
        /\ shown' = [shown EXCEPT ![k] = @ + 1]
  /\ flow' = [flow EXCEPT ![f].todo = @ \ {k}]
  /\ UNCHANGED <<said, posts, untold, clock, requests>>

MarkToasted(f) ==
  /\ flow[f].at = "mark"
  /\ untold' = untold \ {flow[f].key} /\ Done(f, "tell")
  /\ UNCHANGED <<said, posts, shown, clock, mishaps, requests>>

\* After the automations' messages the pass writes its own; after those it ends.
AllTold(f) ==
  /\ flow[f].at = "tell" /\ flow[f].todo = {}
  /\ flow' = [flow EXCEPT ![f] = IF flow[f].wrote THEN Resting ELSE [Resting EXCEPT !.at = "write"]]
  /\ UNCHANGED <<said, posts, untold, shown, clock, mishaps, requests>>

-------------------------------------------------------------------------------
(* The rest of the world.                                                        *)

\* The owner opens or dismisses a card of the chat page (mark_seen).
MarkSeen(k) ==
  /\ k \in untold /\ untold' = untold \ {k} /\ Asked
  /\ UNCHANGED <<said, posts, shown, flow, clock, mishaps>>

Dies(f) ==
  /\ flow[f].at # "idle" /\ mishaps < MaxMishaps
  /\ flow' = [flow EXCEPT ![f] = Resting] /\ mishaps' = mishaps + 1
  /\ UNCHANGED <<said, posts, untold, shown, clock, requests>>

WritingTick == /\ clock < MaxClock /\ clock' = clock + 1
               /\ UNCHANGED <<said, posts, untold, shown, flow, mishaps, requests>>

WritingStep(f) ==
  \/ LookKey(f) \/ AddToChat(f) \/ RecordPost(f) \/ StoreFails(f) \/ Plan(f)
  \/ ListUntold(f) \/ MarkToasted(f) \/ AllTold(f)
  \/ \E k \in flow[f].todo : Say(f, k) \/ Notify(f, k) \/ NotifyFails(f, k)

World == WritingTick \/ (\E k \in untold : MarkSeen(k)) \/ (\E f \in Flow : Dies(f))
-------------------------------------------------------------------------------
(* What must be true.                                                            *)

\* She does not nag (docs/PROACTIVE_DESIGN.md, "What keeps it from nagging"): each thing
\* she says on her own is said once and each message is put on the desktop once, and no
\* more than DAILY_CAP a day, except as often as a process died or a write failed between
\* the doing and its record, or a notification failed that was shown.
NoNagging ==
  /\ \A k \in Key : shown[k] <= 1 + mishaps
  /\ \A k \in Key : k.kind # "automation" => said[k] <= 1 + mishaps
  /\ \A d \in {Day(t) : t \in Time} :
       Cardinality({k \in UnaskedKeys(d) : said[k] > 0}) <= DailyCap + mishaps
===============================================================================
