------------------------------ MODULE PushProofs -------------------------------
(* Theorems about Push, for every number of devices and of things to tell, any    *)
(* limits, and any number of deaths, lost answers and requests of the page        *)
(* (README, "Proofs").                                                            *)
EXTENDS Push, FiniteSetTheorems, TLAPS

Busy == pass.pc \in {"send", "sent"}

\* Some device took the message that is being sent, as far as the pass knows.
Accepting == Busy /\ (pass.accepted \/ (pass.pc = "sent" /\ pass.outcome = "accepted"))
Handled(d, i) == Accepting /\ i \in pass.event.keys /\ d \notin pass.todo

\* What a pass has still to send, and what it is sending, was not told and is apart.
PassSound ==
  /\ pass.items \subseteq Untold
  /\ Busy => /\ pass.event \in Event
             /\ pass.event.keys \subseteq Untold /\ pass.event.keys \cap pass.items = {}
             /\ RateLeft
  /\ pass.pc = "sent" => pass.one \in Device /\ pass.outcome \in Outcomes

\* What is told, or about to be, was taken.
Backed == \A i \in Item : (told[i] # None \/ (Accepting /\ i \in pass.event.keys))
                             => \E d \in Device : taken[d][i] > 0

\* An item that is not told was taken once for each mishap at most.
Counted == \A d \in Device, i \in Item :
             taken[d][i] <= mishaps + (IF told[i] # None \/ Handled(d, i) THEN 1 ELSE 0)

PInv == PushTypeOK /\ PassSound /\ Backed /\ Counted /\ RateHeld

-------------------------------------------------------------------------------
(* Types. *)

LEMMA RestingIsAPass == Resting \in Pass
  BY DEF Resting, Pass

LEMMA RowsKeepType ==
  ASSUME device \in [Device -> DeviceRow], NEW d \in Device
  PROVE  /\ Accepts(d) \in [Device -> DeviceRow] /\ Refuses(d) \in [Device -> DeviceRow]
         /\ Removed(d) \in [Device -> DeviceRow]
         /\ \A o : After(d, o) \in [Device -> DeviceRow]
  <1>1. device[d] \in DeviceRow
    OBVIOUS
  <1>2. /\ [device[d] EXCEPT !.failures = 0] \in DeviceRow
        /\ [device[d] EXCEPT !.failures = @ + 1] \in DeviceRow
        /\ [device[d] EXCEPT !.state = "removed"] \in DeviceRow
    BY <1>1 DEF DeviceRow
  <1>3. /\ Accepts(d) \in [Device -> DeviceRow] /\ Refuses(d) \in [Device -> DeviceRow]
        /\ Removed(d) \in [Device -> DeviceRow]
    BY <1>2 DEF Accepts, Refuses, Removed
  <1>4. QED BY <1>3 DEF After

\* The page and the clock leave alone what the pass knows, and what was told and taken.
LEMMA ElsewhereKeeps ==
  ASSUME PInv, Page \/ PushTick
  PROVE  PInv'
  <1>1. PushTypeOK
    BY DEF PInv
  <1>2. UNCHANGED <<told, taken, pass, mishaps>>
    BY DEF Page, PushTick, Renew, SubscribeCounts, SubscribeInserts, Unsubscribe, Test
  <1>3. clock' \in Nat /\ asked' \in Nat
    BY <1>1 DEF PushTypeOK, Page, PushTick, Renew, SubscribeCounts, SubscribeInserts, Unsubscribe, Test, Asked
  <1>4. device' \in [Device -> DeviceRow] /\ adding' \subseteq Device
    <2>1. CASE PushTick
      BY <1>1, <2>1 DEF PushTick, PushTypeOK
    <2>2. ASSUME NEW d \in Device, Renew(d) \/ Unsubscribe(d) \/ \E o \in Outcomes : Test(d, o)
          PROVE  device' \in [Device -> DeviceRow] /\ adding' \subseteq Device
      BY <1>1, <2>2, RowsKeepType DEF Renew, Unsubscribe, Test, PushTypeOK
    <2>3. ASSUME NEW d \in Device, SubscribeCounts(d)
          PROVE  device' \in [Device -> DeviceRow] /\ adding' \subseteq Device
      BY <1>1, <2>3 DEF SubscribeCounts, PushTypeOK
    <2>4. ASSUME NEW d \in Device, SubscribeInserts(d)
          PROVE  device' \in [Device -> DeviceRow] /\ adding' \subseteq Device
      <3>1. [device[d] EXCEPT !.state = "there"] \in DeviceRow
        BY <1>1 DEF PushTypeOK, DeviceRow
      <3>2. QED BY <1>1, <2>4, <3>1 DEF SubscribeInserts, PushTypeOK
    <2>5. QED BY <2>1, <2>2, <2>3, <2>4 DEF Page
  <1>5. PushTypeOK'
    BY <1>1, <1>2, <1>3, <1>4 DEF PushTypeOK
  <1>6. PassSound' /\ Backed' /\ Counted' /\ RateHeld'
    BY <1>2 DEF PInv, PassSound, Backed, Counted, RateHeld, Busy, Accepting, Handled, Untold, RateLeft, Recent
  <1>7. QED BY <1>5, <1>6 DEF PInv

\* Steps of a pass that only choose what comes next: nothing is sent and nothing is told.
LEMMA ChoosingKeeps ==
  ASSUME PInv, UNCHANGED <<device, adding, told, taken, clock, asked>>, mishaps' \in Nat, mishaps <= mishaps',
         pass' \in Pass, ~Busy', pass'.items \subseteq Untold,
         ~Accepting \/ mishaps' = mishaps + 1
  PROVE  PInv'
  <1>1. PushTypeOK'
    BY DEF PInv, PushTypeOK
  <1>2. ~Accepting' /\ \A d, i : ~Handled(d, i)'
    BY DEF Accepting, Handled
  <1>3. PassSound'
    BY DEF PassSound, Busy, Untold
  <1>4. Backed'
    BY <1>2 DEF PInv, Backed
  <1>5. Counted'
    <2>1. SUFFICES ASSUME NEW d \in Device, NEW i \in Item
                   PROVE  taken[d][i] <= mishaps' + (IF told[i] # None THEN 1 ELSE 0)
      BY <1>2 DEF Counted
    <2>2. taken[d][i] \in Nat /\ mishaps \in Nat
      BY DEF PInv, PushTypeOK
    <2>3. taken[d][i] <= mishaps + (IF told[i] # None \/ Handled(d, i) THEN 1 ELSE 0)
      BY DEF PInv, Counted
    <2>4. CASE Accepting
      BY <2>2, <2>3, <2>4
    <2>5. CASE ~Accepting
      BY <2>2, <2>3, <2>5 DEF Handled
    <2>6. QED BY <2>4, <2>5
  <1>6. RateHeld'
    BY DEF PInv, RateHeld
  <1>7. QED BY <1>1, <1>3, <1>4, <1>5, <1>6 DEF PInv

LEMMA BeginningKeeps ==
  ASSUME PInv, PassBegins \/ ReadEvents \/ PassEnds \/ PassDies
  PROVE  PInv'
  <1>1. PushTypeOK /\ PassSound
    BY DEF PInv
  <1>2. CASE PassBegins
    <2>1. pass' \in Pass
      BY <1>1, <1>2 DEF PassBegins, Resting, Pass, PushTypeOK, There
    <2>2. pass'.pc = "read" /\ pass'.items = {} /\ pass.pc = "idle"
      BY <1>2 DEF PassBegins, Resting
    <2>3. QED BY <1>1, <1>2, <2>1, <2>2, ChoosingKeeps DEF PassBegins, Busy, Accepting, PushTypeOK
  <1>3. CASE ReadEvents
    <2>1. PICK W \in SUBSET Untold :
            pass' = IF W = {} \/ pass.devices = {} THEN Resting ELSE [pass EXCEPT !.pc = "next", !.items = W]
      BY <1>3 DEF ReadEvents
    <2>2. W \subseteq Item
      BY DEF Untold
    <2>3. [pass EXCEPT !.pc = "next", !.items = W] \in Pass
      BY <1>1, <2>2 DEF Pass, PushTypeOK
    <2>4. pass' \in Pass /\ pass'.pc \in {"idle", "next"} /\ pass'.items \subseteq Untold
      BY <1>1, <2>1, <2>3, RestingIsAPass DEF Resting, Pass, PushTypeOK
    <2>5. ~Busy' /\ ~Accepting
      BY <1>3, <2>4 DEF ReadEvents, Busy, Accepting
    <2>6. UNCHANGED <<device, adding, told, taken, clock, asked>> /\ mishaps' = mishaps
      BY <1>3, Zenon DEF ReadEvents
    <2>7. mishaps \in Nat /\ mishaps <= mishaps
      BY <1>1 DEF PushTypeOK
    <2>8. QED BY <2>4, <2>5, <2>6, <2>7, ChoosingKeeps
  <1>4. CASE PassEnds
    <2>1. pass' \in Pass /\ pass'.pc = "idle" /\ pass'.items = {}
      BY <1>4, RestingIsAPass DEF PassEnds, Resting
    <2>2. QED BY <1>1, <1>4, <2>1, ChoosingKeeps DEF PassEnds, Busy, Accepting, PushTypeOK
  <1>5. CASE PassDies
    <2>1. pass' \in Pass /\ pass'.pc = "idle" /\ pass'.items = {}
      BY <1>5, RestingIsAPass DEF PassDies, Resting
    <2>2. mishaps' = mishaps + 1 /\ mishaps' \in Nat /\ mishaps <= mishaps'
      BY <1>1, <1>5 DEF PassDies, Mishap, PushTypeOK
    <2>3. QED BY <1>5, <2>1, <2>2, ChoosingKeeps DEF PassDies, Busy
  <1>6. QED BY <1>2, <1>3, <1>4, <1>5

LEMMA NextKeeps ==
  ASSUME PInv, NEW e \in Event, NextEvent(e)
  PROVE  PInv'
  <1>1. PushTypeOK /\ PassSound
    BY DEF PInv
  <1>2. pass' \in Pass
    BY <1>1 DEF NextEvent, Pass, PushTypeOK, Live
  <1>3. /\ pass'.pc = "send" /\ pass'.event = e /\ pass'.accepted = FALSE
        /\ pass'.items = pass.items \ e.keys /\ pass'.now = pass.now
    BY <1>1 DEF NextEvent, Pass, PushTypeOK
  <1>4. PushTypeOK'
    BY <1>1, <1>2 DEF NextEvent, PushTypeOK
  <1>5. PassSound'
    <2>1. RateLeft'
      BY <1>3 DEF NextEvent, MayBegin, RateLeft, Recent
    <2>2. e.keys \subseteq Untold /\ Untold' = Untold
      BY <1>1 DEF NextEvent, PassSound, Untold
    <2>3. QED BY <1>1, <1>3, <2>1, <2>2 DEF PassSound, Busy
  <1>6. ~Accepting /\ ~Accepting'
    BY <1>3 DEF NextEvent, Accepting, Busy
  <1>7. Backed' /\ Counted' /\ RateHeld'
    BY <1>6 DEF PInv, Backed, Counted, RateHeld, Handled, NextEvent
  <1>8. QED BY <1>4, <1>5, <1>7 DEF PInv

\* One more device answers, taking the message (took) or not.
LEMMA AnsweredKeeps ==
  ASSUME PInv, NEW d \in Device, NEW outcome \in Outcomes, pass.pc = "send", d \in pass.todo,
         Answered(d, outcome), UNCHANGED <<device, adding, told, clock, asked>>,
         mishaps' \in Nat, mishaps <= mishaps',
         \/ UNCHANGED taken /\ outcome # "accepted"
         \/ Takes(d) /\ (outcome = "accepted" \/ mishaps' = mishaps + 1)
  PROVE  PInv'
  <1>1. PushTypeOK /\ PassSound
    BY DEF PInv
  <1>2. pass \in Pass /\ pass.event \in Event /\ pass.event.keys \subseteq Item
    BY <1>1 DEF PushTypeOK, PassSound, Busy, Event
  <1>3. pass' \in Pass
    <2>1. pass.requests + 1 \in Nat /\ pass.todo \ {d} \in SUBSET Device
      BY <1>2 DEF Pass
    <2>2. \A rest \in SUBSET Device, n \in Nat :
            [pass EXCEPT !.pc = "sent", !.one = d, !.outcome = outcome, !.todo = rest, !.requests = n] \in Pass
      BY <1>2 DEF Pass
    <2>3. QED BY <2>1, <2>2 DEF Answered
  <1>4. /\ pass'.pc = "sent" /\ pass'.one = d /\ pass'.outcome = outcome /\ pass'.todo = pass.todo \ {d}
        /\ pass'.event = pass.event /\ pass'.accepted = pass.accepted /\ pass'.items = pass.items
        /\ pass'.now = pass.now
    BY <1>2 DEF Answered, Pass
  <1>5. taken' \in [Device -> [Item -> Nat]]
    <2>1. CASE UNCHANGED taken
      BY <1>1, <2>1 DEF PushTypeOK
    <2>2. CASE Takes(d)
      <3>1. [i \in Item |-> IF i \in pass.event.keys THEN taken[d][i] + 1 ELSE taken[d][i]] \in [Item -> Nat]
        BY <1>1 DEF PushTypeOK
      <3>2. QED BY <1>1, <2>2, <3>1 DEF Takes, PushTypeOK
    <2>3. QED BY <2>1, <2>2
  <1>6. PushTypeOK'
    BY <1>1, <1>3, <1>5 DEF PushTypeOK
  <1>7. PassSound'
    BY <1>1, <1>4 DEF PassSound, Busy, Untold, RateLeft, Recent
  <1>8. \A b \in Device, i \in Item :
          taken'[b][i] = IF b = d /\ Takes(d) /\ i \in pass.event.keys THEN taken[b][i] + 1 ELSE taken[b][i]
    BY <1>1 DEF Takes, PushTypeOK
  <1>9. Accepting' = (Accepting \/ outcome = "accepted")
    BY <1>2, <1>4 DEF Accepting, Busy, Pass
  <1>10. Backed'
    <2>1. SUFFICES ASSUME NEW i \in Item, told[i] # None \/ (Accepting' /\ i \in pass.event.keys)
                   PROVE  \E b \in Device : taken'[b][i] > 0
      BY <1>4 DEF Backed
    <2>2. \A b \in Device : taken[b][i] \in Nat /\ taken'[b][i] \in Nat /\ taken'[b][i] >= taken[b][i]
      BY <1>1, <1>5, <1>8 DEF PushTypeOK
    <2>3. CASE told[i] # None \/ (Accepting /\ i \in pass.event.keys)
      <3>1. PICK b \in Device : taken[b][i] > 0
        BY <2>3 DEF PInv, Backed
      <3>2. QED BY <2>2, <3>1
    <2>4. CASE outcome = "accepted" /\ i \in pass.event.keys
      <3>1. Takes(d)
        BY <2>4
      <3>2. taken'[d][i] = taken[d][i] + 1
        BY <1>8, <2>4, <3>1
      <3>3. QED BY <2>2, <3>2
    <2>5. QED BY <1>9, <2>1, <2>3, <2>4
  <1>11. Counted'
    <2>1. SUFFICES ASSUME NEW b \in Device, NEW i \in Item
                   PROVE  taken'[b][i] <= mishaps' + (IF told[i] # None \/ Handled(b, i)' THEN 1 ELSE 0)
      BY DEF Counted
    <2>2. taken[b][i] <= mishaps + (IF told[i] # None \/ Handled(b, i) THEN 1 ELSE 0)
      BY DEF PInv, Counted
    <2>3. taken[b][i] \in Nat /\ mishaps \in Nat
      BY <1>1 DEF PushTypeOK
    <2>4. Handled(b, i) => Handled(b, i)'
      BY <1>4, <1>9 DEF Handled
    <2>5. CASE ~(b = d /\ Takes(d) /\ i \in pass.event.keys)
      <3>1. taken'[b][i] = taken[b][i]
        BY <1>8, <2>5
      <3>2. QED BY <2>2, <2>3, <2>4, <3>1
    <2>6. CASE b = d /\ Takes(d) /\ i \in pass.event.keys
      <3>1. taken'[b][i] = taken[b][i] + 1
        BY <1>8, <2>6
      <3>2. told[i] = None /\ ~Handled(b, i)
        BY <1>1, <2>6 DEF PassSound, Busy, Untold, Handled
      <3>3. taken[b][i] <= mishaps
        <4>1. ~(told[i] # None \/ Handled(b, i))
          BY <3>2
        <4>2. QED BY <2>2, <2>3, <4>1
      <3>4. mishaps' = mishaps + 1 \/ outcome = "accepted" \/ UNCHANGED taken
        OBVIOUS
      <3>5. outcome = "accepted" => Handled(b, i)'
        BY <1>4, <1>9, <2>6 DEF Handled
      <3>6. ~UNCHANGED taken
        BY <2>3, <3>1
      <3>7. QED BY <2>3, <3>1, <3>3, <3>4, <3>5, <3>6
    <2>7. QED BY <2>5, <2>6
  <1>12. RateHeld'
    BY DEF PInv, RateHeld
  <1>13. QED BY <1>6, <1>7, <1>10, <1>11, <1>12 DEF PInv

LEMMA SendingKeeps ==
  ASSUME PInv, NEW d \in Device, AnswerLost(d) \/ \E o \in Outcomes : Send(d, o)
  PROVE  PInv'
  <1>1. PushTypeOK
    BY DEF PInv
  <1>2. CASE AnswerLost(d)
    <2>1. mishaps' = mishaps + 1 /\ mishaps' \in Nat /\ mishaps <= mishaps'
      BY <1>1, <1>2 DEF AnswerLost, Mishap, PushTypeOK
    <2>2. "retry" \in Outcomes
      BY DEF Outcomes
    <2>3. QED BY <1>2, <2>1, <2>2, AnsweredKeeps DEF AnswerLost
  <1>3. CASE \E o \in Outcomes : Send(d, o)
    <2>1. PICK o \in Outcomes : Send(d, o)
      BY <1>3
    <2>2. mishaps' \in Nat /\ mishaps <= mishaps'
      BY <1>1, <2>1 DEF Send, PushTypeOK
    <2>3. QED BY <2>1, <2>2, AnsweredKeeps DEF Send
  <1>4. QED BY <1>2, <1>3

LEMMA SettlingKeeps ==
  ASSUME PInv, Settle
  PROVE  PInv'
  <1>1. PushTypeOK /\ PassSound
    BY DEF PInv
  <1>2. pass \in Pass /\ pass.one \in Device /\ pass.outcome \in Outcomes /\ pass.pc = "sent"
    BY <1>1 DEF PushTypeOK, PassSound, Settle
  <1>3. pass' \in Pass
    BY <1>2 DEF Settle, AfterAnswer, Pass
  <1>4. /\ pass'.pc = "send" /\ pass'.todo = pass.todo /\ pass'.event = pass.event /\ pass'.items = pass.items
        /\ pass'.now = pass.now /\ pass'.accepted = (pass.accepted \/ pass.outcome = "accepted")
    BY <1>2 DEF Settle, AfterAnswer, Pass
  <1>5. device' \in [Device -> DeviceRow]
    BY <1>1, <1>2, RowsKeepType DEF Settle, PushTypeOK
  <1>6. PushTypeOK'
    BY <1>1, <1>3, <1>5 DEF Settle, PushTypeOK
  <1>7. PassSound'
    BY <1>1, <1>2, <1>4 DEF Settle, PassSound, Busy, Untold, RateLeft, Recent
  <1>8. Accepting' = Accepting
    BY <1>2, <1>4 DEF Accepting, Busy
  <1>9. Backed' /\ Counted' /\ RateHeld'
    BY <1>4, <1>8 DEF PInv, Backed, Counted, RateHeld, Handled, Settle
  <1>10. QED BY <1>6, <1>7, <1>9 DEF PInv

-------------------------------------------------------------------------------
(* Recording what was accepted. *)

LEMMA RecordingKeeps ==
  ASSUME PInv, RecordEvent
  PROVE  PInv'
  <1>1. PushTypeOK /\ PassSound
    BY DEF PInv
  <1>2. pass \in Pass /\ pass.event \in Event /\ pass.event.keys \subseteq Item /\ pass.event.batch \in Item
    BY <1>1 DEF PushTypeOK, PassSound, Busy, Event, RecordEvent
  <1> DEFINE new == [batch |-> pass.event.batch, at |-> pass.now]
  <1>3. new \in Delivery /\ new # None /\ new.batch = pass.event.batch /\ new.at = pass.now
    BY <1>2, NoneIsNothing DEF Delivery, Pass
  <1>4. \A i \in Item : told'[i] = IF pass.accepted /\ i \in pass.event.keys THEN new ELSE told[i]
    BY <1>1 DEF RecordEvent, PushTypeOK, PassSound, Busy, Untold
  <1>5. told' \in [Item -> Delivery \cup {None}]
    BY <1>1, <1>3 DEF RecordEvent, PushTypeOK
  <1>6. pass' \in Pass
    BY <1>2 DEF RecordEvent, Pass
  <1>7. pass'.pc = "next" /\ pass'.items = pass.items
    BY <1>2 DEF RecordEvent, Pass
  <1>8. PushTypeOK'
    BY <1>1, <1>5, <1>6 DEF RecordEvent, PushTypeOK
  <1>9. PassSound'
    <2>1. \A i \in pass.items : told'[i] = told[i]
      BY <1>1, <1>4 DEF PassSound, Busy, Untold, RecordEvent
    <2>2. QED BY <1>1, <1>7, <2>1 DEF PassSound, Busy, Untold
  <1>10. /\ Accepting = pass.accepted /\ ~Accepting'
         /\ \A d, i : Handled(d, i) = (pass.accepted /\ i \in pass.event.keys) /\ ~Handled(d, i)'
    BY <1>2, <1>7 DEF Accepting, Busy, Handled, RecordEvent, Pass
  <1>11. Backed'
    BY <1>1, <1>4, <1>10 DEF PInv, Backed, RecordEvent
  <1>12. Counted'
    <2>1. SUFFICES ASSUME NEW d \in Device, NEW i \in Item
                   PROVE  taken[d][i] <= mishaps + (IF told'[i] # None THEN 1 ELSE 0)
      BY <1>10 DEF Counted, RecordEvent
    <2>2. told'[i] # None <=> told[i] # None \/ Handled(d, i)
      BY <1>3, <1>4, <1>10
    <2>3. QED BY <2>2 DEF PInv, Counted
  <1>13. RateHeld'
    <2> DEFINE Held(t) == {told[i].batch : i \in {j \in Item : /\ told[j] # None /\ told[j].at <= t
                                                               /\ told[j].at + Hour >= t}}
    <2>1. SUFFICES ASSUME NEW t \in 0..MaxClock PROVE Cardinality(Held(t)') <= MaxPerHour
      BY DEF RateHeld
    <2>2. Cardinality(Held(t)) <= MaxPerHour
      BY DEF PInv, RateHeld
    <2>3. CASE ~pass.accepted
      <3>1. told' = told
        BY <2>3 DEF RecordEvent
      <3>2. QED BY <2>2, <3>1
    <2>4. CASE pass.accepted /\ ~(pass.now <= t /\ pass.now + Hour >= t)
      <3>1. Held(t)' = Held(t)
        BY <1>1, <1>3, <1>4, <2>4 DEF PassSound, Busy, Untold, RecordEvent
      <3>2. QED BY <2>2, <3>1
    <2>5. CASE pass.accepted /\ pass.now <= t /\ pass.now + Hour >= t
      <3>1. pass.now \in Nat /\ Hour \in Nat /\ MaxPerHour \in Nat /\ t \in Nat
        BY <1>2, PushLimits DEF Pass
      <3>2. \A j \in Item : told[j] # None => told[j].at \in Nat
        BY <1>1 DEF PushTypeOK, Delivery
      <3>3. \A j \in Item : told[j] # None /\ told[j].at + Hour >= t => told[j].at + Hour >= pass.now
        BY <2>5, <3>1, <3>2
      <3>4. Held(t)' \subseteq Recent(pass.now) \cup {pass.event.batch}
        BY <1>3, <1>4, <3>3 DEF Recent
      <3>5. Recent(pass.now) \subseteq Item
        BY <1>1 DEF Recent, PushTypeOK, Delivery
      <3>6. IsFiniteSet(Recent(pass.now))
        BY <3>5, ItemsFinite, FS_Subset
      <3>7. Cardinality(Recent(pass.now)) < MaxPerHour
        BY <1>1 DEF PassSound, Busy, RateLeft, RecordEvent
      <3>8. /\ IsFiniteSet(Recent(pass.now) \cup {pass.event.batch})
            /\ Cardinality(Recent(pass.now) \cup {pass.event.batch}) <= MaxPerHour
        <4>1. Cardinality(Recent(pass.now)) \in Nat
          BY <3>6, FS_CardinalityType
        <4>2. /\ IsFiniteSet(Recent(pass.now) \cup {pass.event.batch})
              /\ \/ Cardinality(Recent(pass.now) \cup {pass.event.batch}) = Cardinality(Recent(pass.now))
                 \/ Cardinality(Recent(pass.now) \cup {pass.event.batch}) = Cardinality(Recent(pass.now)) + 1
          BY <3>6, FS_AddElement
        <4>3. QED BY <3>1, <3>7, <4>1, <4>2
      <3>9. IsFiniteSet(Held(t)') /\ Cardinality(Held(t)') <= Cardinality(Recent(pass.now) \cup {pass.event.batch})
        BY <3>4, <3>8, FS_Subset
      <3>10. Cardinality(Held(t)') \in Nat /\ Cardinality(Recent(pass.now) \cup {pass.event.batch}) \in Nat
        BY <3>8, <3>9, FS_CardinalityType
      <3>11. QED BY <3>1, <3>8, <3>9, <3>10
    <2>6. QED BY <2>3, <2>4, <2>5
  <1>14. QED BY <1>8, <1>9, <1>11, <1>12, <1>13 DEF PInv

-------------------------------------------------------------------------------
LEMMA PushStarts == PushInit => PInv
  <1> SUFFICES ASSUME PushInit PROVE PInv
    OBVIOUS
  <1>1. PushTypeOK
    BY RestingIsAPass DEF PushInit, PushTypeOK, DeviceRow
  <1>2. PassSound /\ Backed /\ Counted
    BY DEF PushInit, PassSound, Backed, Counted, Resting, Busy, Accepting, Handled
  <1>3. RateHeld
    <2> DEFINE Held(t) == {told[i].batch : i \in {j \in Item : /\ told[j] # None /\ told[j].at <= t
                                                               /\ told[j].at + Hour >= t}}
    <2>1. \A t : Held(t) = {}
      BY DEF PushInit
    <2>2. \A t : Cardinality(Held(t)) = 0
      BY <2>1, FS_EmptySet
    <2> HIDE DEF Held
    <2>3. \A t : Cardinality(Held(t)) <= MaxPerHour
      BY <2>2, PushLimits
    <2>4. QED BY <2>3 DEF RateHeld, Held
  <1>4. QED BY <1>1, <1>2, <1>3 DEF PInv

LEMMA PushSteps == PInv /\ [PushNext]_pushVars => PInv'
  <1> SUFFICES ASSUME PInv, [PushNext]_pushVars PROVE PInv'
    OBVIOUS
  <1>1. CASE Page \/ PushTick
    BY <1>1, ElsewhereKeeps
  <1>2. CASE PassBegins \/ ReadEvents \/ PassEnds \/ PassDies
    BY <1>2, BeginningKeeps
  <1>3. CASE \E e \in Event : NextEvent(e)
    BY <1>3, NextKeeps
  <1>4. CASE \E d \in pass.todo : AnswerLost(d) \/ \E o \in Outcomes : Send(d, o)
    <2>1. pass.todo \subseteq Device
      BY DEF PInv, PushTypeOK, Pass
    <2>2. QED BY <1>4, <2>1, SendingKeeps
  <1>5. CASE Settle
    BY <1>5, SettlingKeeps
  <1>6. CASE RecordEvent
    BY <1>6, RecordingKeeps
  <1>7. CASE UNCHANGED pushVars
    BY <1>7 DEF pushVars, PInv, PushTypeOK, PassSound, Backed, Counted, RateHeld, Busy, Accepting, Handled,
                Untold, RateLeft, Recent
  <1>8. QED BY <1>1, <1>2, <1>3, <1>4, <1>5, <1>6, <1>7 DEF PushNext, PassStep

LEMMA PushInvariant == PushSpec => []PInv
  BY PushStarts, PushSteps, PTL DEF PushSpec

LEMMA PInvImplies == PInv => PushTypeOK /\ ToldOnce /\ RateHeld
  <1> SUFFICES ASSUME PInv PROVE ToldOnce
    BY DEF PInv
  <1>1. \A i \in Item : told[i] # None => \E d \in Device : taken[d][i] > 0
    BY DEF PInv, Backed
  <1>2. \A d \in Device, i \in Item : taken[d][i] <= 1 + mishaps
    BY DEF PInv, PushTypeOK, Counted
  <1>3. QED BY <1>1, <1>2 DEF ToldOnce

\* The tables and the pass keep their types, whatever the page does beside the pass.
THEOREM PushTypeCorrect == PushSpec => []PushTypeOK
  BY PushInvariant, PInvImplies, PTL

\* What is recorded as told was taken by a device, and no device takes it twice but for a
\* death of the pass or a lost answer (diya_push.deliver, Deliveries.record).
THEOREM PushedOnce == PushSpec => []ToldOnce
  BY PushInvariant, PInvImplies, PTL

\* However the passes fall and whatever a message stands for, no rolling hour has more
\* messages than MAX_PER_HOUR (diya_push.deliver, Deliveries.messages_since).
THEOREM RateIsHeld == PushSpec => []RateHeld
  BY PushInvariant, PInvImplies, PTL
===============================================================================
