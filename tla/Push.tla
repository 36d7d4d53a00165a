--------------------------------- MODULE Push ----------------------------------
(* Telling the phone (diya_push.deliver, with the list of diya_events): one pass  *)
(* sends every message worth sending to every device that is not paused, and      *)
(* records a message as told after a device accepted it. Sending and recording    *)
(* are apart: the process may die in between, a query may fail, and an answer     *)
(* of the push service may be lost on its way. Meanwhile devices subscribe, are   *)
(* removed and are tested from the page, and requests of the page run side by     *)
(* side. One pass runs at a time.                                                 *)
(*                                                                                *)
(* Abstracted: the encryption and the identity; what is worth telling and how it  *)
(* is grouped (a message stands for one reminder, or for all questions, actions   *)
(* or the rest of a flood) is a free choice at every read; the order of the       *)
(* messages and of the devices of one pass.                                       *)
EXTENDS Naturals, FiniteSets

CONSTANTS Device,             \* rows: a device that subscribes anew is a new one
          Item,               \* what can be told: reminders, questions, actions, days
          None,               \* an empty value
          MaxSubscriptions,   \* MAX_SUBSCRIPTIONS
          MaxFailures,        \* MAX_FAILURES
          MaxPerHour,         \* MAX_PER_HOUR
          MaxRequestsPerPass, \* MAX_REQUESTS_PER_PASS
          Hour,               \* the ticks of the rolling hour
          MaxClock,           \* bound: the clock stops here
          MaxAsked,           \* bound: what the page is asked to do
          MaxMishaps          \* bound: deaths, failed queries and lost answers

ASSUME ItemsFinite == IsFiniteSet(Item)
ASSUME PushLimits == /\ MaxSubscriptions \in Nat /\ MaxFailures \in Nat /\ MaxPerHour \in Nat
                     /\ MaxRequestsPerPass \in Nat /\ Hour \in Nat
                     /\ MaxClock \in Nat /\ MaxAsked \in Nat /\ MaxMishaps \in Nat

VARIABLES device,   \* the push_subscriptions table
          adding,   \* devices that subscribe: counted, not yet inserted
          told,     \* event_deliveries: the batch and the time of each item
          taken,    \* external: how often each device took a message with each item
          pass,     \* what the pass is doing and what it read
          clock,    \* the wall clock
          asked,    \* what the page was asked to do
          mishaps   \* deaths, failed queries, lost answers

pushVars == <<device, adding, told, taken, pass, clock, asked, mishaps>>

Outcomes == {"accepted", "gone", "rejected", "retry"}   \* classify
Event == [keys : SUBSET Item \ {{}}, batch : Item]
Delivery == [batch : Item, at : Nat]
ASSUME NoneIsNothing == None \notin Item \cup Device \cup Delivery

DeviceRow == [state : {"none", "there", "removed"}, failures : Nat]
Pass == [pc : {"idle", "read", "next", "send", "sent"}, now : Nat, items : SUBSET Item,
         event : Event \cup {None}, devices : SUBSET Device, todo : SUBSET Device,
         one : Device \cup {None}, outcome : Outcomes \cup {None}, accepted : BOOLEAN,
         gone : SUBSET Device, refused : SUBSET Device, requests : Nat]
Resting == [pc |-> "idle", now |-> 0, items |-> {}, event |-> None, devices |-> {}, todo |-> {},
            one |-> None, outcome |-> None, accepted |-> FALSE, gone |-> {}, refused |-> {},
            requests |-> 0]

PushTypeOK == /\ device \in [Device -> DeviceRow] /\ adding \subseteq Device
              /\ told \in [Item -> Delivery \cup {None}]
              /\ taken \in [Device -> [Item -> Nat]]
              /\ pass \in Pass /\ clock \in Nat /\ asked \in Nat /\ mishaps \in Nat

PushInit == /\ device = [d \in Device |-> [state |-> "none", failures |-> 0]]
            /\ adding = {} /\ told = [i \in Item |-> None]
            /\ taken = [d \in Device |-> [i \in Item |-> 0]]
            /\ pass = Resting /\ clock = 0 /\ asked = 0 /\ mishaps = 0

There == {d \in Device : device[d].state = "there"}
Untold == {i \in Item : told[i] = None}
Mishap == mishaps < MaxMishaps /\ mishaps' = mishaps + 1
Asked == asked < MaxAsked /\ asked' = asked + 1

-------------------------------------------------------------------------------
(* The table of devices, and the requests of the page (Subscriptions).            *)

Accepts(d) == IF d \in There THEN [device EXCEPT ![d].failures = 0] ELSE device
Refuses(d) == IF d \in There THEN [device EXCEPT ![d].failures = @ + 1] ELSE device
Removed(d) == IF d \in There THEN [device EXCEPT ![d].state = "removed"] ELSE device

\* A known endpoint is renewed; for a new one the rows are counted, and inserted after.
Renew(d) ==
  /\ d \in There /\ device' = Accepts(d) /\ Asked
  /\ UNCHANGED <<adding, told, taken, pass, clock, mishaps>>

SubscribeCounts(d) ==
  /\ device[d].state = "none" /\ d \notin adding /\ Cardinality(There) < MaxSubscriptions
  /\ adding' = adding \cup {d} /\ Asked
  /\ UNCHANGED <<device, told, taken, pass, clock, mishaps>>

SubscribeInserts(d) ==
  /\ d \in adding /\ adding' = adding \ {d}
  /\ device' = [device EXCEPT ![d].state = "there"]
  /\ UNCHANGED <<told, taken, pass, clock, asked, mishaps>>

Unsubscribe(d) ==
  /\ d \in There /\ device' = Removed(d) /\ Asked
  /\ UNCHANGED <<adding, told, taken, pass, clock, mishaps>>

\* What an answer does to a device, in a test.
After(d, outcome) == CASE outcome = "accepted" -> Accepts(d)
                       [] outcome = "rejected" -> Refuses(d)
                       [] outcome = "gone" -> Removed(d)
                       [] OTHER -> device

\* A test goes to paused devices too, and tells nothing.
Test(d, outcome) ==
  /\ d \in There /\ device' = After(d, outcome) /\ Asked
  /\ UNCHANGED <<adding, told, taken, pass, clock, mishaps>>

-------------------------------------------------------------------------------
(* One pass (deliver).                                                            *)

PassBegins ==
  /\ pass.pc = "idle" /\ There # {}
  /\ pass' = [Resting EXCEPT !.pc = "read", !.now = clock,
                             !.devices = {d \in There : device[d].failures < MaxFailures}]
  /\ UNCHANGED <<device, adding, told, taken, clock, asked, mishaps>>

\* What is worth telling now, of what was not told.
ReadEvents ==
  /\ pass.pc = "read"
  /\ \E W \in SUBSET Untold :
       pass' = IF W = {} \/ pass.devices = {} THEN Resting
               ELSE [pass EXCEPT !.pc = "next", !.items = W]
  /\ UNCHANGED <<device, adding, told, taken, clock, asked, mishaps>>

\* messages_since: the messages, not the items, of the rolling hour.
Recent(t) == {told[i].batch : i \in {j \in Item : told[j] # None /\ told[j].at + Hour >= t}}

Live == pass.devices \ pass.gone
RateLeftBroken == Cardinality(Recent(pass.now)) <= MaxPerHour
RateLeft == Cardinality(Recent(pass.now)) < MaxPerHour
MayBegin == pass.requests + Cardinality(Live) <= MaxRequestsPerPass /\ RateLeft

\* The next message, for some of the items, to every device that is left or to none.
NextEvent(e) ==
  /\ pass.pc = "next" /\ e.keys \subseteq pass.items /\ e.batch \in e.keys /\ MayBegin
  /\ pass' = [pass EXCEPT !.pc = "send", !.event = e, !.items = @ \ e.keys, !.todo = Live,
                          !.accepted = FALSE]
  /\ UNCHANGED <<device, adding, told, taken, clock, asked, mishaps>>

PassEnds ==
  /\ pass.pc = "next" /\ (pass.items = {} \/ ~MayBegin)
  /\ pass' = Resting
  /\ UNCHANGED <<device, adding, told, taken, clock, asked, mishaps>>

Takes(d) == taken' = [taken EXCEPT ![d] = [i \in Item |->
                        IF i \in pass.event.keys THEN @[i] + 1 ELSE @[i]]]
Answered(d, outcome) ==
  pass' = [pass EXCEPT !.pc = "sent", !.one = d, !.outcome = outcome, !.todo = @ \ {d},
                       !.requests = @ + 1]

Send(d, outcome) ==
  /\ pass.pc = "send" /\ d \in pass.todo /\ Answered(d, outcome)
  /\ IF outcome = "accepted" THEN Takes(d) ELSE UNCHANGED taken
  /\ UNCHANGED <<device, adding, told, clock, asked, mishaps>>

\* The service took it, and no answer came back (post_https): to be tried again.
AnswerLost(d) ==
  /\ pass.pc = "send" /\ d \in pass.todo /\ Answered(d, "retry") /\ Takes(d) /\ Mishap
  /\ UNCHANGED <<device, adding, told, clock, asked>>

\* What the answer does to the device, and to what the pass knows. A device is refused
\* once a pass, however many messages it was sent.
AfterAnswerBroken == [pass EXCEPT !.pc = "send", !.one = None, !.outcome = None,
                                  !.accepted = pass.outcome = "accepted",
                                  !.gone = IF pass.outcome = "gone" THEN @ \cup {pass.one} ELSE @,
                                  !.refused = IF pass.outcome = "rejected" THEN @ \cup {pass.one} ELSE @]
AfterAnswer == [pass EXCEPT !.pc = "send", !.one = None, !.outcome = None,
                            !.accepted = @ \/ pass.outcome = "accepted",
                            !.gone = IF pass.outcome = "gone" THEN @ \cup {pass.one} ELSE @,
                            !.refused = IF pass.outcome = "rejected" THEN @ \cup {pass.one} ELSE @]

Settle ==
  /\ pass.pc = "sent" /\ pass' = AfterAnswer
  /\ device' = IF pass.outcome = "rejected" /\ pass.one \in pass.refused THEN device
               ELSE After(pass.one, pass.outcome)
  /\ UNCHANGED <<adding, told, taken, clock, asked, mishaps>>

\* INSERT OR IGNORE, with the time the pass began.
RecordEvent ==
  /\ pass.pc = "send" /\ pass.todo = {}
  /\ told' = IF ~pass.accepted THEN told
             ELSE [i \in Item |-> IF i \in pass.event.keys /\ told[i] = None
                                  THEN [batch |-> pass.event.batch, at |-> pass.now] ELSE told[i]]
  /\ pass' = [pass EXCEPT !.pc = "next", !.event = None, !.accepted = FALSE]
  /\ UNCHANGED <<device, adding, taken, clock, asked, mishaps>>

\* It dies, or a query fails: main() says what kind and the next pass tries again.
PassDies ==
  /\ pass.pc # "idle" /\ pass' = Resting /\ Mishap
  /\ UNCHANGED <<device, adding, told, taken, clock, asked>>

PushTick == /\ clock < MaxClock /\ clock' = clock + 1
            /\ UNCHANGED <<device, adding, told, taken, pass, asked, mishaps>>

-------------------------------------------------------------------------------
Page == \E d \in Device : \/ Renew(d) \/ SubscribeCounts(d) \/ SubscribeInserts(d) \/ Unsubscribe(d)
                          \/ \E o \in Outcomes : Test(d, o)

PassStep == \/ PassBegins \/ ReadEvents \/ PassEnds \/ Settle \/ RecordEvent
            \/ \E e \in Event : NextEvent(e)
            \/ \E d \in pass.todo : AnswerLost(d) \/ \E o \in Outcomes : Send(d, o)

PushNext == Page \/ PassStep \/ PassDies \/ PushTick

PushSpec == PushInit /\ [][PushNext]_pushVars

-------------------------------------------------------------------------------
(* What must be true.                                                             *)

\* "Recorded only after a device accepted it" (docs/PUSH_DESIGN.md, 3): nothing that no device
\* took is called told, and no device takes an item twice, except once for each death between
\* acceptance and record and each answer that was lost.
ToldOnce ==
  \A i \in Item : /\ told[i] # None => \E d \in Device : taken[d][i] > 0
                  /\ \A d \in Device : taken[d][i] <= 1 + mishaps

\* At most MAX_PER_HOUR messages are recorded in any rolling hour, however the passes fall and
\* however many items a message stands for (docs/PUSH_DESIGN.md, 5, "The rate").
RateHeld ==
  \A t \in 0..MaxClock :
    Cardinality({told[i].batch : i \in {j \in Item : /\ told[j] # None /\ told[j].at <= t
                                                     /\ told[j].at + Hour >= t}}) <= MaxPerHour
===============================================================================
