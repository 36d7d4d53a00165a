--------------------------- MODULE AutomationsProofs ---------------------------
(* Theorems about Automations and WritingFirst, for every number of automations,  *)
(* requests, kinds and reminders, any limits and any number of mishaps (README,   *)
(* "Proofs").                                                                     *)
EXTENDS Automations, FiniteSetTheorems, TLAPS

(* The rule and the day. *)

\* The last fall lies behind, the next one ahead, and no fall lies between.
LEMMA Falls ==
  ASSUME NEW t \in Nat
  PROVE  /\ LastFall(t) \in Nat /\ LastFall(t) <= t /\ NextAfter(t) \in Nat /\ t < NextAfter(t)
         /\ LastFall(t) < NextAfter(t) /\ LastFall(NextAfter(t)) = NextAfter(t)
         /\ \A n \in Nat : LastFall(n) = n /\ n <= t => n <= LastFall(t)
  <1>1. LastFall(t) \in Nat /\ LastFall(t) <= t /\ NextAfter(t) = LastFall(t) + Every /\ t < NextAfter(t)
    BY EveryAssumption DEF LastFall, NextAfter
  <1>2. NextAfter(t) \in Nat /\ LastFall(t) < NextAfter(t)
    BY <1>1, EveryAssumption
  <1>3. LastFall(NextAfter(t)) = NextAfter(t)
    <2>1. \A k \in Nat, e \in Nat \ {0} : (k * e) \div e = k
      OBVIOUS
    <2>2. t \div Every + 1 \in Nat
      BY EveryAssumption
    <2>3. QED BY <2>1, <2>2, EveryAssumption DEF LastFall, NextAfter
  <1>4. ASSUME NEW n \in Nat, LastFall(n) = n, n <= t PROVE n <= LastFall(t)
    <2>1. n \div Every \in Nat /\ (n \div Every) * Every = n
      BY <1>4, EveryAssumption DEF LastFall
    <2>2. n \div Every <= t \div Every
      BY <2>1, <1>4, EveryAssumption
    <2>3. \A i, j \in Nat, e \in Nat \ {0} : i <= j => i * e <= j * e
      OBVIOUS
    <2>4. t \div Every \in Nat
      BY EveryAssumption
    <2>5. QED BY <2>1, <2>2, <2>3, <2>4, EveryAssumption DEF LastFall
  <1>5. QED BY <1>1, <1>2, <1>3, <1>4

\* The keys there are: of each day, of the reminders, of the answers.
LEMMA KeysOf ==
  /\ \A t \in Time : UnaskedKeys(Day(t)) \subseteq Key
  /\ ReminderKeys \subseteq Key
  /\ \A a \in Automation, t \in Time : Answer(a, t) \in Key
  <1>1. \A t \in Time : UnaskedKeys(Day(t)) \subseteq UNION {UnaskedKeys(Day(u)) : u \in Time}
    OBVIOUS
  <1>2. \A a \in Automation, t \in Time : Answer(a, t) \in {Answer(b, u) : b \in Automation, u \in Time}
    OBVIOUS
  <1>3. \A t \in Time : UnaskedKeys(Day(t)) \subseteq Key
    BY <1>1 DEF Key
  <1>4. ReminderKeys \subseteq Key
    BY DEF Key
  <1>5. \A a \in Automation, t \in Time : Answer(a, t) \in Key
    <2> DEFINE A == {Answer(b, u) : b \in Automation, u \in Time}
    <2>1. \A a \in Automation, t \in Time : Answer(a, t) \in A
      BY <1>2
    <2>2. A \subseteq Key
      BY DEF Key
    <2> HIDE DEF A
    <2>3. QED BY <2>1, <2>2
  <1>6. QED BY <1>3, <1>4, <1>5

-------------------------------------------------------------------------------
(* What each flow is doing. *)

\* What the flow w of f knows agrees with what it does, the keys that were recorded (P), and
\* the time (now): only the notifier says anything of its own, shows what was recorded, and
\* looks for a key before it says it.
Fits(f, w, P, now) ==
  /\ w.now <= now
  /\ w.at \in {"agent", "run", "resume"} => w.of \in Automation
  /\ w.at \in {"due", "agent", "run"} => w.todo = {}
  /\ w.at \in {"look", "add", "record", "mark"} => w.key \in Key
  /\ w.at \in {"look", "add", "record"} /\ w.key.kind = "automation" => w.todo = {}
  /\ w.at \in {"say", "look", "add", "record"} => \A k \in w.todo : k.kind # "automation"
  /\ w.at = "add" /\ w.key.kind # "automation" => w.key \notin P
  /\ w.at \in {"tell", "mark"} => w.todo \subseteq P
  /\ w.at = "mark" => w.key \in P /\ w.key \notin w.todo
  /\ f # Notifier => /\ w.at \in {"idle", "create", "resume", "run", "look", "add", "record", "finish"}
                     /\ w.at \in {"look", "add", "record"} => w.key.kind = "automation"
  /\ f = Notifier => w.at \notin {"create", "resume"}

FlowsFit == \A f \in Flow : Fits(f, flow[f], posts, clock)

TInv == AutoTypeOK /\ FlowsFit

\* What the notifier is about to say, puts on the desktop, or has said and not recorded.
N == flow[Notifier]
Plans(k) == \/ N.at \in {"say", "look", "add", "record"} /\ k \in N.todo
            \/ N.at \in {"look", "add", "record"} /\ k = N.key
Listed(k) == N.at \in {"tell", "mark"} /\ k \in N.todo
Marks(k) == N.at = "mark" /\ k = N.key
Records(k) == N.at = "record" /\ k = N.key

LEMMA RestingFits ==
  ASSUME NEW f \in Flow, NEW P, NEW now \in Nat
  PROVE  /\ Resting \in Flows /\ Fits(f, Resting, P, now)
         /\ [Resting EXCEPT !.at = "write"] \in Flows /\ [Resting EXCEPT !.at = "list"] \in Flows
         /\ f = Notifier => /\ Fits(f, [Resting EXCEPT !.at = "write"], P, now)
                            /\ Fits(f, [Resting EXCEPT !.at = "list"], P, now)
  <1>1. 0 \in Time
    BY WritingLimits DEF Time
  <1>2. Resting \in Flows /\ Resting.now = 0 /\ Resting.at = "idle" /\ Resting.todo = {}
    BY <1>1 DEF Resting, Flows
  <1>3. LET w == [Resting EXCEPT !.at = "write"] IN w \in Flows /\ w.now = 0 /\ w.at = "write" /\ w.todo = {}
    BY <1>1 DEF Resting, Flows
  <1>4. LET w == [Resting EXCEPT !.at = "list"] IN w \in Flows /\ w.now = 0 /\ w.at = "list" /\ w.todo = {}
    BY <1>1 DEF Resting, Flows
  <1>5. QED BY <1>2, <1>3, <1>4 DEF Fits

\* One flow moves, the others keep what they know while posts and time only grow.
LEMMA OneFlowMoves ==
  ASSUME TInv, NEW f \in Flow, NEW w \in Flows, flow' = [flow EXCEPT ![f] = w],
         posts \subseteq posts', clock' \in Time, clock <= clock',
         \A k \in posts' \ posts : k.kind = "automation" \/ f = Notifier,
         Fits(f, w, posts', clock')
  PROVE  flow' \in [Flow -> Flows] /\ FlowsFit'
  <1>1. flow \in [Flow -> Flows]
    BY DEF TInv, AutoTypeOK, WritingTypeOK
  <1>2. flow' \in [Flow -> Flows]
    BY <1>1
  <1>3. ASSUME NEW g \in Flow \ {f} PROVE Fits(g, flow'[g], posts', clock')
    <2>1. flow'[g] = flow[g] /\ flow[g] \in Flows
      BY <1>1
    <2>2. Fits(g, flow[g], posts, clock)
      BY DEF TInv, FlowsFit
    <2>3. flow[g].now \in Nat /\ clock \in Nat /\ clock' \in Nat
      BY <2>1, WritingLimits DEF Flows, Time, TInv, AutoTypeOK, WritingTypeOK
    <2>4. flow[g].now <= clock'
      BY <2>2, <2>3 DEF Fits
    <2>5. flow[g].at = "add" /\ flow[g].key.kind # "automation" => flow[g].key \notin posts'
      BY <2>2 DEF Fits
    <2>6. QED BY <2>1, <2>2, <2>4, <2>5 DEF Fits
  <1>4. flow'[f] = w
    BY <1>1
  <1>5. QED BY <1>2, <1>3, <1>4 DEF FlowsFit

-------------------------------------------------------------------------------
(* Each step moves one flow, and how.                                            *)

Moves(f, at, now, of, key, todo, wrote) ==
  flow' = [flow EXCEPT ![f] = [at |-> at, now |-> now, of |-> of, key |-> key,
                               todo |-> todo, wrote |-> wrote]]

LEMMA WritingMoves ==
  ASSUME TInv, NEW f \in Flow
  PROVE  LET w == flow[f] IN
         /\ LookKey(f) /\ w.key \in posts => Moves(f, AfterPost(f), w.now, w.of, None, w.todo, w.wrote)
         /\ LookKey(f) /\ w.key \notin posts => Moves(f, "add", w.now, w.of, w.key, w.todo, w.wrote)
         /\ AddToChat(f) => Moves(f, "record", w.now, w.of, w.key, w.todo, w.wrote)
         /\ RecordPost(f) => Moves(f, AfterPost(f), w.now, w.of, None, w.todo, w.wrote)
         /\ MarkToasted(f) => Moves(f, "tell", w.now, w.of, None, w.todo, w.wrote)
         /\ \A k : Say(f, k) => Moves(f, "look", w.now, w.of, k, w.todo \ {k}, w.wrote)
         /\ \A k : Notify(f, k) => Moves(f, "mark", w.now, w.of, k, w.todo \ {k}, w.wrote)
         /\ \A k : NotifyFails(f, k) => Moves(f, w.at, w.now, w.of, w.key, w.todo \ {k}, w.wrote)
  <1>1. flow \in [Flow -> Flows] /\ flow[f] \in Flows
    BY DEF TInv, AutoTypeOK, WritingTypeOK
  <1>2. flow[f] = [at |-> flow[f].at, now |-> flow[f].now, of |-> flow[f].of, key |-> flow[f].key,
                   todo |-> flow[f].todo, wrote |-> flow[f].wrote]
    BY <1>1 DEF Flows
  <1>3. LookKey(f) /\ flow[f].key \in posts =>
          Moves(f, AfterPost(f), flow[f].now, flow[f].of, None, flow[f].todo, flow[f].wrote)
    BY <1>1, <1>2 DEF LookKey, Done, Moves
  <1>4. LookKey(f) /\ flow[f].key \notin posts =>
          Moves(f, "add", flow[f].now, flow[f].of, flow[f].key, flow[f].todo, flow[f].wrote)
    BY <1>1, <1>2 DEF LookKey, Goes, Moves
  <1>5. AddToChat(f) => Moves(f, "record", flow[f].now, flow[f].of, flow[f].key, flow[f].todo, flow[f].wrote)
    BY <1>1, <1>2 DEF AddToChat, Goes, Moves
  <1>6. RecordPost(f) => Moves(f, AfterPost(f), flow[f].now, flow[f].of, None, flow[f].todo, flow[f].wrote)
    BY <1>1, <1>2 DEF RecordPost, Done, Moves
  <1>7. MarkToasted(f) => Moves(f, "tell", flow[f].now, flow[f].of, None, flow[f].todo, flow[f].wrote)
    BY <1>1, <1>2 DEF MarkToasted, Done, Moves
  <1>8. \A k : Say(f, k) => Moves(f, "look", flow[f].now, flow[f].of, k, flow[f].todo \ {k}, flow[f].wrote)
    BY <1>1, <1>2 DEF Say, Moves
  <1>9. \A k : Notify(f, k) => Moves(f, "mark", flow[f].now, flow[f].of, k, flow[f].todo \ {k}, flow[f].wrote)
    BY <1>1, <1>2 DEF Notify, Moves
  <1>10. \A k : NotifyFails(f, k) =>
           Moves(f, flow[f].at, flow[f].now, flow[f].of, flow[f].key, flow[f].todo \ {k}, flow[f].wrote)
    BY <1>1, <1>2 DEF NotifyFails, Moves
  <1>11. QED BY <1>3, <1>4, <1>5, <1>6, <1>7, <1>8, <1>9, <1>10, Zenon

LEMMA OtherMoves ==
  ASSUME TInv, NEW f \in Flow
  PROVE  LET w == flow[f] IN
         /\ CreateLooks(f) => Moves(f, "create", clock, w.of, w.key, w.todo, w.wrote)
         /\ \A a : ResumeLooks(f, a) => Moves(f, "resume", clock, a, w.key, w.todo, w.wrote)
         /\ \A a : RunByHand(f, a) => Moves(f, "run", clock, a, None, {}, FALSE)
         /\ Answers(f) => Moves(f, "look", 0, w.of, Answer(w.of, w.now), w.todo, w.wrote)
         /\ HasNothingToSay(f) => Moves(f, "finish", 0, w.of, w.key, w.todo, w.wrote)
         /\ f = Notifier /\ PassBegins => Moves(f, "due", clock, None, None, {}, FALSE)
         /\ f = Notifier /\ FindsNoneDue => Moves(f, "write", 0, None, None, {}, FALSE)
         /\ f = Notifier => \A a : FindsDue(a) => Moves(f, "agent", w.now, a, w.key, w.todo, w.wrote)
         /\ f = Notifier => \A a : Claim(a) => Moves(f, "run", w.now, w.of, w.key, w.todo, w.wrote)
         /\ ListUntold(f) => \E T \in SUBSET untold : Moves(f, "tell", w.now, w.of, w.key, T, w.wrote)
  <1>1. flow \in [Flow -> Flows] /\ flow[f] \in Flows
    BY DEF TInv, AutoTypeOK, WritingTypeOK
  <1>2. flow[f] = [at |-> flow[f].at, now |-> flow[f].now, of |-> flow[f].of, key |-> flow[f].key,
                   todo |-> flow[f].todo, wrote |-> flow[f].wrote]
    BY <1>1 DEF Flows
  <1>3. CreateLooks(f) => Moves(f, "create", clock, flow[f].of, flow[f].key, flow[f].todo, flow[f].wrote)
    BY <1>1, <1>2 DEF CreateLooks, Moves
  <1>4. \A a : RunByHand(f, a) => Moves(f, "run", clock, a, None, {}, FALSE)
    BY <1>1 DEF RunByHand, Moves, Resting
  <1>5. Answers(f) => Moves(f, "look", 0, flow[f].of, Answer(flow[f].of, flow[f].now), flow[f].todo, flow[f].wrote)
    BY <1>1, <1>2 DEF Answers, Moves
  <1>6. HasNothingToSay(f) => Moves(f, "finish", 0, flow[f].of, flow[f].key, flow[f].todo, flow[f].wrote)
    BY <1>1, <1>2 DEF HasNothingToSay, Moves
  <1>7. f = Notifier /\ PassBegins => Moves(f, "due", clock, None, None, {}, FALSE)
    BY <1>1 DEF PassBegins, Moves, Resting
  <1>8. f = Notifier /\ FindsNoneDue =>
          Moves(f, "write", 0, None, None, {}, FALSE)
    <2>1. FindsNoneDue => flow' = [flow EXCEPT ![Notifier] = [Resting EXCEPT !.at = "write"]]
      BY DEF FindsNoneDue
    <2>2. QED BY <1>1, <2>1 DEF Moves, Resting
  <1>9. f = Notifier => \A a : FindsDue(a) =>
          Moves(f, "agent", flow[f].now, a, flow[f].key, flow[f].todo, flow[f].wrote)
    <2>1. \A a : FindsDue(a) => flow' = [flow EXCEPT ![Notifier].at = "agent", ![Notifier].of = a]
      BY Zenon DEF FindsDue
    <2>2. QED BY <1>1, <1>2, <2>1 DEF Moves
  <1>10. f = Notifier => \A a : Claim(a) =>
           Moves(f, "run", flow[f].now, flow[f].of, flow[f].key, flow[f].todo, flow[f].wrote)
    <2>1. \A a : Claim(a) => flow' = [flow EXCEPT ![Notifier].at = "run"]
      BY Zenon DEF Claim, Goes
    <2>2. QED BY <1>1, <1>2, <2>1 DEF Moves
  <1>11. ListUntold(f) => \E T \in SUBSET untold :
           Moves(f, "tell", flow[f].now, flow[f].of, flow[f].key, T, flow[f].wrote)
    <2>1. \A T : flow' = [flow EXCEPT ![f].at = "tell", ![f].todo = T] =>
                   Moves(f, "tell", flow[f].now, flow[f].of, flow[f].key, T, flow[f].wrote)
      BY <1>1, <1>2 DEF Moves
    <2>2. ListUntold(f) => \E T \in SUBSET untold : flow' = [flow EXCEPT ![f].at = "tell", ![f].todo = T]
      BY Zenon DEF ListUntold
    <2>3. QED BY <2>1, <2>2, Zenon
  <1>12. \A a : ResumeLooks(f, a) => Moves(f, "resume", clock, a, flow[f].key, flow[f].todo, flow[f].wrote)
    <2>1. \A a : ResumeLooks(f, a) =>
            flow' = [flow EXCEPT ![f].at = "resume", ![f].now = clock, ![f].of = a]
      BY Zenon DEF ResumeLooks
    <2>2. QED BY <1>1, <1>2, <2>1 DEF Moves
  <1>13. QED BY <1>3, <1>4, <1>5, <1>6, <1>7, <1>8, <1>9, <1>10, <1>11, <1>12, Zenon

\* What a step may leave in a flow that stops, or goes on to another stage.
LEMMA StoppingMoves ==
  ASSUME TInv, NEW f \in Flow
  PROVE  /\ \A a : CreateInserts(f, a) \/ ResumeWrites(f, a) => flow' = [flow EXCEPT ![f] = Resting]
         /\ ResumeFindsNone(f) => flow' = [flow EXCEPT ![f] = Resting]
         /\ Dies(f) => flow' = [flow EXCEPT ![f] = Resting]
         /\ f = Notifier /\ CannotClaim => flow' = [flow EXCEPT ![f] = [Resting EXCEPT !.at = "write"]]
         /\ AllTold(f) => \/ flow' = [flow EXCEPT ![f] = Resting]
                          \/ flow' = [flow EXCEPT ![f] = [Resting EXCEPT !.at = "write"]]
         /\ Finish(f) => \/ flow' = [flow EXCEPT ![f] = Resting]
                         \/ /\ f = Notifier
                            /\ \/ flow' = [flow EXCEPT ![f] = [Resting EXCEPT !.at = "list"]]
                               \/ flow' = [flow EXCEPT ![f] = [Resting EXCEPT !.at = "write"]]
         /\ StoreFails(f) => \/ flow' = [flow EXCEPT ![f] = Resting]
                             \/ /\ f = Notifier
                                /\ \/ flow' = [flow EXCEPT ![f] = [Resting EXCEPT !.at = "write"]]
                                   \/ /\ flow[f].at \in {"look", "add", "record"}
                                      /\ flow' = [flow EXCEPT ![f] =
                                                 [flow[f] EXCEPT !.at = "finish", !.key = None]]
  <1>1. flow \in [Flow -> Flows] /\ flow[f] \in Flows
    BY DEF TInv, AutoTypeOK, WritingTypeOK
  <1>2. flow[f] = [at |-> flow[f].at, now |-> flow[f].now, of |-> flow[f].of, key |-> flow[f].key,
                   todo |-> flow[f].todo, wrote |-> flow[f].wrote]
    BY <1>1 DEF Flows
  <1>3. /\ \A a : CreateInserts(f, a) \/ ResumeWrites(f, a) => flow' = [flow EXCEPT ![f] = Resting]
        /\ ResumeFindsNone(f) => flow' = [flow EXCEPT ![f] = Resting]
    BY Zenon DEF CreateInserts, ResumeWrites, ResumeFindsNone
  <1>4. Dies(f) => flow' = [flow EXCEPT ![f] = Resting]
    BY DEF Dies
  <1>5. f = Notifier /\ CannotClaim => flow' = [flow EXCEPT ![f] = [Resting EXCEPT !.at = "write"]]
    BY DEF CannotClaim
  <1>6. AllTold(f) => \/ flow' = [flow EXCEPT ![f] = Resting]
                      \/ flow' = [flow EXCEPT ![f] = [Resting EXCEPT !.at = "write"]]
    BY DEF AllTold
  <1>7. Finish(f) => \/ flow' = [flow EXCEPT ![f] = Resting]
                     \/ /\ f = Notifier
                        /\ \/ flow' = [flow EXCEPT ![f] = [Resting EXCEPT !.at = "list"]]
                           \/ flow' = [flow EXCEPT ![f] = [Resting EXCEPT !.at = "write"]]
    BY DEF Finish
  <1>8. ASSUME StoreFails(f)
        PROVE  \/ flow' = [flow EXCEPT ![f] = Resting]
               \/ /\ f = Notifier
                  /\ \/ flow' = [flow EXCEPT ![f] = [Resting EXCEPT !.at = "write"]]
                     \/ /\ flow[f].at \in {"look", "add", "record"}
                        /\ flow' = [flow EXCEPT ![f] = [flow[f] EXCEPT !.at = "finish", !.key = None]]
    <2>1. flow' = [flow EXCEPT ![f] = Escapes(f)]
      BY <1>8 DEF StoreFails
    <2>2. CASE f # Notifier \/ flow[f].wrote \/ flow[f].at = "write"
      BY <2>1, <2>2, Zenon DEF Escapes
    <2>3. CASE ~(f # Notifier \/ flow[f].wrote \/ flow[f].at = "write") /\ flow[f].at \in {"look", "add", "record"}
      BY <2>1, <2>3, Zenon DEF Escapes
    <2>4. CASE ~(f # Notifier \/ flow[f].wrote \/ flow[f].at = "write") /\ flow[f].at \notin {"look", "add", "record"}
      BY <2>1, <2>4, Zenon DEF Escapes
    <2>5. QED BY <2>2, <2>3, <2>4, Zenon
  <1>9. QED BY <1>3, <1>4, <1>5, <1>6, <1>7, <1>8, Zenon

\* The rest of the state keeps its types; the keys recorded and the time only grow.
LEMMA DataKeepsType ==
  ASSUME TInv, [AutoNext]_autoVars
  PROVE  /\ said' \in [Key -> Nat] /\ shown' \in [Key -> Nat]
         /\ posts' \subseteq Key /\ untold' \subseteq posts'
         /\ clock' \in Time /\ mishaps' \in Nat /\ requests' \in Nat
         /\ auto' \in [Automation -> Rows] /\ served' \in [Automation -> Nat \cup {None}]
         /\ ahead' \in [Automation -> SUBSET Automation] /\ late' \subseteq Automation
         /\ posts \subseteq posts' /\ clock <= clock'
  <1>1. AutoTypeOK /\ WritingTypeOK /\ clock \in Nat
    BY WritingLimits DEF TInv, AutoTypeOK, WritingTypeOK, Time
  <1>2. \A f \in Flow : flow[f] \in Flows /\ Fits(f, flow[f], posts, clock)
    BY <1>1 DEF TInv, FlowsFit, WritingTypeOK
  <1>3. CASE Posting
    <2>1. UNCHANGED <<auto, served, ahead, late>>
      BY <1>3 DEF Posting
    <2>2. CASE WritingTick
      BY <1>1, <2>1, <2>2, WritingLimits DEF WritingTick, AutoTypeOK, WritingTypeOK, Time
    <2>3. CASE \E k \in untold : MarkSeen(k)
      BY <1>1, <2>1, <2>3 DEF MarkSeen, Asked, AutoTypeOK, WritingTypeOK
    <2>4. CASE \E f \in Flow : Dies(f)
      BY <1>1, <2>1, <2>4 DEF Dies, AutoTypeOK, WritingTypeOK
    <2>5. ASSUME NEW f \in Flow, WritingStep(f)
          PROVE  /\ said' \in [Key -> Nat] /\ shown' \in [Key -> Nat]
                 /\ posts' \subseteq Key /\ untold' \subseteq posts'
                 /\ clock' = clock /\ mishaps' \in Nat /\ requests' \in Nat
                 /\ posts \subseteq posts'
      <3>1. flow[f].todo \subseteq Key /\ (flow[f].at \in {"look", "add", "record", "mark"} => flow[f].key \in Key)
        BY <1>2 DEF Flows, Fits
      <3>2. CASE LookKey(f)
        BY <1>1, <3>2 DEF LookKey, WritingTypeOK
      <3>3. CASE AddToChat(f)
        BY <1>1, <3>1, <3>3 DEF AddToChat, WritingTypeOK
      <3>4. CASE RecordPost(f)
        BY <1>1, <3>1, <3>4 DEF RecordPost, Record, WritingTypeOK
      <3>5. CASE StoreFails(f)
        BY <1>1, <3>5 DEF StoreFails, WritingTypeOK
      <3>6. CASE Plan(f)
        <4>1. UNCHANGED <<said, posts, untold, shown, clock, mishaps, requests>>
          BY <3>6, Zenon DEF Plan
        <4>2. QED BY <1>1, <4>1 DEF WritingTypeOK
      <3>7. CASE ListUntold(f)
        <4>1. UNCHANGED <<said, posts, untold, shown, clock, mishaps, requests>>
          BY <3>7, Zenon DEF ListUntold
        <4>2. QED BY <1>1, <4>1 DEF WritingTypeOK
      <3>8. CASE MarkToasted(f)
        BY <1>1, <3>8 DEF MarkToasted, WritingTypeOK
      <3>9. CASE AllTold(f)
        BY <1>1, <3>9 DEF AllTold, WritingTypeOK
      <3>10. ASSUME NEW k \in flow[f].todo, Say(f, k) \/ Notify(f, k) \/ NotifyFails(f, k)
             PROVE  /\ said' \in [Key -> Nat] /\ shown' \in [Key -> Nat]
                    /\ posts' \subseteq Key /\ untold' \subseteq posts'
                    /\ clock' = clock /\ mishaps' \in Nat /\ requests' \in Nat
                    /\ posts \subseteq posts'
        BY <1>1, <3>1, <3>10 DEF Say, Notify, NotifyFails, WritingTypeOK
      <3>11. QED
        BY <2>5, <3>2, <3>3, <3>4, <3>5, <3>6, <3>7, <3>8, <3>9, <3>10, Zenon DEF WritingStep
    <2>6. clock' = clock => clock' \in Time /\ clock <= clock'
      BY <1>1 DEF WritingTypeOK
    <2>7. auto' \in [Automation -> Rows] /\ served' \in [Automation -> Nat \cup {None}]
          /\ ahead' \in [Automation -> SUBSET Automation] /\ late' \subseteq Automation
      BY <1>1, <2>1 DEF AutoTypeOK
    <2>8. WritingTick \/ (\E k \in untold : MarkSeen(k)) \/ (\E f \in Flow : Dies(f))
          \/ (\E f \in Flow : WritingStep(f))
      BY <1>3, Zenon DEF Posting, World
    <2>9. QED BY <2>2, <2>3, <2>4, <2>5, <2>6, <2>7, <2>8, Zenon
  <1>4. CASE PassStep \/ RunStep
    <2>1. UNCHANGED <<said, posts, untold, shown, clock, mishaps, requests>>
      BY <1>4, Zenon DEF PassStep, RunStep, PassBegins, FindsNoneDue, CannotClaim, FindsDue, Claim,
                         Answers, HasNothingToSay, Finish
    <2>2. UNCHANGED <<auto, served, ahead, late>> \/ \E a \in Automation : Claim(a)
      BY <1>4, Zenon DEF PassStep, RunStep, PassBegins, FindsNoneDue, CannotClaim, FindsDue,
                         Answers, HasNothingToSay, Finish
    <2>3. ASSUME NEW a \in Automation, Claim(a)
          PROVE  /\ auto' \in [Automation -> Rows] /\ served' \in [Automation -> Nat \cup {None}]
                 /\ ahead' \in [Automation -> SUBSET Automation] /\ late' \subseteq Automation
      <3>1. flow[Notifier].now \in Nat
        BY <1>2, NotifierIsAFlow, WritingLimits DEF Flows, Time
      <3>2. LastFall(flow[Notifier].now) \in Nat /\ NextAfter(flow[Notifier].now) \in Nat
        BY <3>1, Falls
      <3>3. auto' \in [Automation -> Rows]
        BY <1>1, <2>3, <3>2 DEF Claim, Claimed, AutoTypeOK, Rows
      <3>4. served' \in [Automation -> Nat \cup {None}]
        BY <1>1, <2>3, <3>2 DEF Claim, AutoTypeOK
      <3>5. ahead' \in [Automation -> SUBSET Automation]
        BY <1>1, <2>3 DEF Claim, AutoTypeOK
      <3>6. late' \subseteq Automation
        BY <1>1, <2>3 DEF Claim, AutoTypeOK
      <3>7. QED BY <3>3, <3>4, <3>5, <3>6
    <2>4. QED BY <1>1, <2>1, <2>2, <2>3 DEF AutoTypeOK, WritingTypeOK
  <1>5. CASE Owner
    <2>1. UNCHANGED <<said, posts, untold, shown, clock, mishaps, served>> /\ (requests' = requests \/ Asked)
      BY <1>5, Zenon DEF Owner, Pause, Delete, CreateLooks, CreateInserts, RunByHand, ResumeLooks,
                         ResumeWrites, ResumeFindsNone
    <2>2. requests' \in Nat
      BY <1>1, <2>1 DEF Asked, WritingTypeOK
    <2>3. \A h \in Flow : NextAfter(flow[h].now) \in Nat
      <3>1. \A h \in Flow : flow[h].now \in Nat
        BY <1>2, WritingLimits DEF Flows, Time
      <3>2. QED BY <3>1, Falls
    <2> DEFINE Typed == /\ auto' \in [Automation -> Rows] /\ ahead' \in [Automation -> SUBSET Automation]
                        /\ late' \subseteq Automation
    <2>4. ASSUME NEW a \in Automation, Pause(a) \/ Delete(a) PROVE Typed
      <3>1. PICK state \in {"paused", "deleted"} :
              /\ auto' = [auto EXCEPT ![a].state = state] /\ ahead' = [ahead EXCEPT ![a] = {}]
              /\ late' = late
        BY <2>4, Zenon DEF Pause, Delete, Anew
      <3>2. auto' \in [Automation -> Rows]
        BY <1>1, <3>1 DEF AutoTypeOK, Rows
      <3>3. ahead' \in [Automation -> SUBSET Automation] /\ late' \subseteq Automation
        BY <1>1, <3>1 DEF AutoTypeOK
      <3>4. QED BY <3>2, <3>3
    <2>5. ASSUME NEW h \in Flow,
                 CreateLooks(h) \/ ResumeFindsNone(h) \/ \E a \in Automation : RunByHand(h, a) \/ ResumeLooks(h, a)
          PROVE  Typed
      <3>1. UNCHANGED <<auto, ahead, late>>
        BY <2>5, Zenon DEF CreateLooks, ResumeFindsNone, RunByHand, ResumeLooks
      <3>2. QED BY <1>1, <3>1 DEF AutoTypeOK
    <2>6. ASSUME NEW h \in Flow, NEW a \in Automation, CreateInserts(h, a) PROVE Typed
      BY <1>1, <2>3, <2>6 DEF CreateInserts, AutoTypeOK, Rows
    <2>7. ASSUME NEW h \in Flow, NEW a \in Automation, ResumeWrites(h, a) PROVE Typed
      BY <1>1, <2>3, <2>7 DEF ResumeWrites, Anew, AutoTypeOK, Rows
    <2>8. Typed
      BY <1>5, <2>4, <2>5, <2>6, <2>7 DEF Owner
    <2>9. QED BY <1>1, <2>1, <2>2, <2>8 DEF AutoTypeOK, WritingTypeOK
  <1>6. CASE UNCHANGED autoVars
    BY <1>1, <1>6 DEF autoVars, AutoTypeOK, WritingTypeOK
  <1>7. QED BY <1>3, <1>4, <1>5, <1>6 DEF AutoNext

LEMMA MoveKeeps ==
  ASSUME TInv, [AutoNext]_autoVars, NEW f \in Flow, NEW w \in Flows, flow' = [flow EXCEPT ![f] = w],
         Fits(f, w, posts', clock'), \A k \in posts' \ posts : k.kind = "automation" \/ f = Notifier
  PROVE  TInv'
  BY DataKeepsType, OneFlowMoves DEF TInv, AutoTypeOK, WritingTypeOK

LEMMA StillKeeps ==
  ASSUME TInv, [AutoNext]_autoVars, flow' = flow, posts' = posts
  PROVE  TInv'
  <1>1. AutoTypeOK' /\ clock <= clock' /\ clock \in Nat /\ clock' \in Nat
    BY DataKeepsType, WritingLimits DEF TInv, AutoTypeOK, WritingTypeOK, Time
  <1>2. ASSUME NEW f \in Flow PROVE Fits(f, flow[f], posts, clock')
    <2>1. Fits(f, flow[f], posts, clock) /\ flow[f].now \in Nat
      BY WritingLimits DEF TInv, FlowsFit, AutoTypeOK, WritingTypeOK, Flows, Time
    <2>2. flow[f].now <= clock'
      BY <1>1, <2>1 DEF Fits
    <2>3. QED BY <2>1, <2>2 DEF Fits
  <1>3. QED BY <1>1, <1>2 DEF TInv, FlowsFit

\* A flow that stops or goes on to the next stage.
LEMMA StoppingKeeps ==
  ASSUME TInv, [AutoNext]_autoVars, NEW f \in Flow, posts' = posts, clock' = clock,
         \/ flow' = [flow EXCEPT ![f] = Resting]
         \/ flow' = [flow EXCEPT ![f] = [Resting EXCEPT !.at = "write"]] /\ f = Notifier
         \/ flow' = [flow EXCEPT ![f] = [Resting EXCEPT !.at = "list"]] /\ f = Notifier
         \/ /\ f = Notifier /\ flow[f].at \in {"look", "add", "record"}
            /\ flow' = [flow EXCEPT ![f] = [flow[f] EXCEPT !.at = "finish", !.key = None]]
  PROVE  TInv'
  <1>1. clock \in Nat /\ flow[f] \in Flows /\ Fits(f, flow[f], posts, clock)
    BY WritingLimits DEF TInv, FlowsFit, AutoTypeOK, WritingTypeOK, Time
  <1>2. CASE flow' = [flow EXCEPT ![f] = Resting]
    BY <1>1, <1>2, RestingFits, MoveKeeps
  <1>3. CASE flow' = [flow EXCEPT ![f] = [Resting EXCEPT !.at = "write"]] /\ f = Notifier
    <2>1. [Resting EXCEPT !.at = "write"] \in Flows /\ Fits(f, [Resting EXCEPT !.at = "write"], posts', clock')
      BY <1>1, <1>3, RestingFits
    <2>2. QED BY <1>3, <2>1, MoveKeeps
  <1>4. CASE flow' = [flow EXCEPT ![f] = [Resting EXCEPT !.at = "list"]] /\ f = Notifier
    <2>1. [Resting EXCEPT !.at = "list"] \in Flows /\ Fits(f, [Resting EXCEPT !.at = "list"], posts', clock')
      BY <1>1, <1>4, RestingFits
    <2>2. QED BY <1>4, <2>1, MoveKeeps
  <1>5. CASE /\ f = Notifier /\ flow[f].at \in {"look", "add", "record"}
             /\ flow' = [flow EXCEPT ![f] = [flow[f] EXCEPT !.at = "finish", !.key = None]]
    <2> DEFINE w == [flow[f] EXCEPT !.at = "finish", !.key = None]
    <2>1. w \in Flows
      BY <1>1 DEF Flows
    <2>2. w.at = "finish" /\ w.now = flow[f].now
      BY <1>1 DEF Flows
    <2>3. Fits(f, w, posts', clock')
      BY <1>1, <1>5, <2>2 DEF Fits
    <2>4. QED BY <1>5, <2>1, <2>3, MoveKeeps
  <1>6. QED BY <1>2, <1>3, <1>4, <1>5

\* The steps of writing keep it.
LEMMA WritingStepKeeps ==
  ASSUME TInv, [AutoNext]_autoVars, NEW f \in Flow, WritingStep(f)
  PROVE  TInv'
  <1>1. clock \in Nat /\ flow[f] \in Flows /\ Fits(f, flow[f], posts, clock)
    BY WritingLimits DEF TInv, FlowsFit, AutoTypeOK, WritingTypeOK, Time
  <1>2. \A p, k, T, b :
          LET w == [at |-> p, now |-> flow[f].now, of |-> flow[f].of, key |-> k, todo |-> T, wrote |-> b] IN
            /\ p \in {"record", "add", "look", "mark", "tell", "say", "finish"} /\ k \in Key \cup {None}
               /\ T \in SUBSET Key /\ b \in BOOLEAN => w \in Flows
            /\ w.at = p /\ w.now = flow[f].now /\ w.of = flow[f].of /\ w.key = k /\ w.todo = T
    BY <1>1 DEF Flows
  <1>3. flow[f].todo \subseteq Key /\ flow[f].wrote \in BOOLEAN /\ flow[f].key \in Key \cup {None}
        /\ flow[f].now <= clock
    BY <1>1 DEF Flows, Fits
  <1>4. CASE LookKey(f) /\ flow[f].key \in posts
    <2> DEFINE w == [at |-> AfterPost(f), now |-> flow[f].now, of |-> flow[f].of, key |-> None,
                     todo |-> flow[f].todo, wrote |-> flow[f].wrote]
    <2>1. flow' = [flow EXCEPT ![f] = w] /\ posts' = posts /\ clock' = clock /\ flow[f].at = "look"
      BY <1>4, WritingMoves DEF Moves, LookKey
    <2>2. AfterPost(f) \in {"finish", "say"} /\ (AfterPost(f) = "say" => flow[f].key.kind # "automation")
      BY DEF AfterPost
    <2>3. w \in Flows /\ w.at = AfterPost(f) /\ w.now = flow[f].now /\ w.todo = flow[f].todo
      BY <1>2, <1>3, <2>2
    <2>4. Fits(f, w, posts', clock')
      BY <1>1, <2>1, <2>2, <2>3 DEF Fits
    <2>5. QED BY <2>1, <2>3, <2>4, MoveKeeps
  <1>5. CASE LookKey(f) /\ flow[f].key \notin posts
    <2> DEFINE w == [at |-> "add", now |-> flow[f].now, of |-> flow[f].of, key |-> flow[f].key,
                     todo |-> flow[f].todo, wrote |-> flow[f].wrote]
    <2>1. flow' = [flow EXCEPT ![f] = w] /\ posts' = posts /\ clock' = clock /\ flow[f].at = "look"
      BY <1>5, WritingMoves DEF Moves, LookKey
    <2>2. w \in Flows /\ w.at = "add" /\ w.now = flow[f].now /\ w.todo = flow[f].todo /\ w.key = flow[f].key
      BY <1>2, <1>3
    <2>3. Fits(f, w, posts', clock')
      BY <1>1, <1>5, <2>1, <2>2 DEF Fits
    <2>4. QED BY <2>1, <2>2, <2>3, MoveKeeps
  <1>6. CASE AddToChat(f)
    <2> DEFINE w == [at |-> "record", now |-> flow[f].now, of |-> flow[f].of, key |-> flow[f].key,
                     todo |-> flow[f].todo, wrote |-> flow[f].wrote]
    <2>1. flow' = [flow EXCEPT ![f] = w] /\ posts' = posts /\ clock' = clock /\ flow[f].at = "add"
      BY <1>6, WritingMoves DEF Moves, AddToChat
    <2>2. w \in Flows /\ w.at = "record" /\ w.now = flow[f].now /\ w.todo = flow[f].todo /\ w.key = flow[f].key
      BY <1>2, <1>3
    <2>3. Fits(f, w, posts', clock')
      BY <1>1, <2>1, <2>2 DEF Fits
    <2>4. QED BY <2>1, <2>2, <2>3, MoveKeeps
  <1>7. CASE RecordPost(f)
    <2> DEFINE w == [at |-> AfterPost(f), now |-> flow[f].now, of |-> flow[f].of, key |-> None,
                     todo |-> flow[f].todo, wrote |-> flow[f].wrote]
    <2>1. flow' = [flow EXCEPT ![f] = w] /\ posts' = posts \cup {flow[f].key} /\ clock' = clock
          /\ flow[f].at = "record"
      BY <1>7, WritingMoves DEF Moves, RecordPost, Record
    <2>2. AfterPost(f) \in {"finish", "say"} /\ (AfterPost(f) = "say" => flow[f].key.kind # "automation")
      BY DEF AfterPost
    <2>3. w \in Flows /\ w.at = AfterPost(f) /\ w.now = flow[f].now /\ w.todo = flow[f].todo
      BY <1>2, <1>3, <2>2
    <2>4. Fits(f, w, posts', clock')
      BY <1>1, <2>1, <2>2, <2>3 DEF Fits
    <2>5. \A k \in posts' \ posts : k.kind = "automation" \/ f = Notifier
      BY <1>1, <2>1 DEF Fits
    <2>6. QED BY <2>1, <2>3, <2>4, <2>5, MoveKeeps
  <1>8. CASE StoreFails(f)
    BY <1>8, StoppingMoves, StoppingKeeps DEF StoreFails
  <1>9. CASE AllTold(f)
    <2>1. f = Notifier
      BY <1>1, <1>9 DEF AllTold, Fits
    <2>2. QED BY <1>9, <2>1, StoppingMoves, StoppingKeeps DEF AllTold
  <1>10. CASE MarkToasted(f)
    <2> DEFINE w == [at |-> "tell", now |-> flow[f].now, of |-> flow[f].of, key |-> None,
                     todo |-> flow[f].todo, wrote |-> flow[f].wrote]
    <2>1. flow' = [flow EXCEPT ![f] = w] /\ posts' = posts /\ clock' = clock /\ flow[f].at = "mark"
      BY <1>10, WritingMoves DEF Moves, MarkToasted
    <2>2. w \in Flows /\ w.at = "tell" /\ w.now = flow[f].now /\ w.todo = flow[f].todo
      BY <1>2, <1>3
    <2>3. Fits(f, w, posts', clock')
      BY <1>1, <2>1, <2>2 DEF Fits
    <2>4. QED BY <2>1, <2>2, <2>3, MoveKeeps
  <1>11. CASE Plan(f)
    <2>1. PICK reminders \in SUBSET (ReminderKeys \ posts) :
            \E due \in SUBSET (UnaskedKeys(Day(clock)) \ posts) :
              \E P \in SUBSET due :
                /\ WithinCap(P, due, Day(clock))
                /\ flow' = [flow EXCEPT ![f] = [Resting EXCEPT !.at = "say", !.wrote = TRUE,
                                                              !.todo = reminders \cup P]]
      BY <1>11, Zenon DEF Plan
    <2>2. PICK due \in SUBSET (UnaskedKeys(Day(clock)) \ posts) :
            \E P \in SUBSET due :
              flow' = [flow EXCEPT ![f] = [Resting EXCEPT !.at = "say", !.wrote = TRUE,
                                                         !.todo = reminders \cup P]]
      BY <2>1, Zenon
    <2>3. PICK P \in SUBSET due :
            flow' = [flow EXCEPT ![f] = [Resting EXCEPT !.at = "say", !.wrote = TRUE,
                                                        !.todo = reminders \cup P]]
      BY <2>2, Zenon
    <2>4. clock \in Time /\ 0 \in Time
      BY WritingLimits DEF TInv, AutoTypeOK, WritingTypeOK, Time
    <2>5. \A k \in reminders \cup P : k \in Key /\ k.kind # "automation"
      <3>1. \A k \in ReminderKeys : k \in Key /\ k.kind # "automation"
        BY KeysOf DEF ReminderKeys
      <3>2. \A k \in UnaskedKeys(Day(clock)) : k \in Key /\ k.kind # "automation"
        BY <2>4, KeysOf, KindsApart DEF UnaskedKeys
      <3>3. QED BY <3>1, <3>2
    <2> DEFINE w == [Resting EXCEPT !.at = "say", !.wrote = TRUE, !.todo = reminders \cup P]
    <2>6. \A T \in SUBSET Key :
            LET v == [Resting EXCEPT !.at = "say", !.wrote = TRUE, !.todo = T] IN
              v \in Flows /\ v.at = "say" /\ v.now = 0 /\ v.todo = T
      BY <2>4 DEF Resting, Flows
    <2>7. w \in Flows /\ w.at = "say" /\ w.now = 0 /\ w.todo = reminders \cup P
      BY <2>5, <2>6
    <2>8. f = Notifier /\ posts' = posts /\ clock' = clock
      BY <1>11, Zenon DEF Plan
    <2>9. Fits(f, w, posts', clock')
      BY <1>1, <2>5, <2>7, <2>8 DEF Fits
    <2>10. QED BY <2>3, <2>7, <2>8, <2>9, MoveKeeps
  <1>12. CASE ListUntold(f)
    <2>1. PICK T \in SUBSET untold : Moves(f, "tell", flow[f].now, flow[f].of, flow[f].key, T, flow[f].wrote)
      BY <1>12, OtherMoves
    <2> DEFINE w == [at |-> "tell", now |-> flow[f].now, of |-> flow[f].of, key |-> flow[f].key,
                     todo |-> T, wrote |-> flow[f].wrote]
    <2>2. T \subseteq posts /\ T \subseteq Key
      BY DEF TInv, AutoTypeOK, WritingTypeOK
    <2>3. w \in Flows /\ w.at = "tell" /\ w.now = flow[f].now /\ w.todo = T
      BY <1>2, <1>3, <2>2
    <2>4. posts' = posts /\ clock' = clock /\ flow[f].at \in {"list", "say"}
      BY <1>12, Zenon DEF ListUntold
    <2>5. f = Notifier
      BY <1>1, <2>4 DEF Fits
    <2>6. Fits(f, w, posts', clock')
      BY <1>1, <2>2, <2>3, <2>4, <2>5 DEF Fits
    <2>7. flow' = [flow EXCEPT ![f] = w]
      BY <2>1 DEF Moves
    <2>8. QED BY <2>3, <2>4, <2>6, <2>7, MoveKeeps
  <1>13. ASSUME NEW k \in flow[f].todo, Say(f, k) \/ Notify(f, k) \/ NotifyFails(f, k)
         PROVE  TInv'
    <2>1. posts' = posts /\ clock' = clock /\ k \in Key
      BY <1>3, <1>13, Zenon DEF Say, Notify, NotifyFails
    <2>2. PICK p \in {"look", "mark", "tell"} :
            \E m \in Key \cup {None} :
              /\ Moves(f, p, flow[f].now, flow[f].of, m, flow[f].todo \ {k}, flow[f].wrote)
              /\ \/ flow[f].at = "say" /\ p = "look" /\ m = k
                 \/ flow[f].at = "tell" /\ p = "mark" /\ m = k
                 \/ flow[f].at = "tell" /\ p = "tell"
      BY <1>3, <1>13, <2>1, WritingMoves DEF Say, Notify, NotifyFails
    <2>3. PICK m \in Key \cup {None} :
              /\ Moves(f, p, flow[f].now, flow[f].of, m, flow[f].todo \ {k}, flow[f].wrote)
              /\ \/ flow[f].at = "say" /\ p = "look" /\ m = k
                 \/ flow[f].at = "tell" /\ p = "mark" /\ m = k
                 \/ flow[f].at = "tell" /\ p = "tell"
      BY <2>2
    <2> DEFINE w == [at |-> p, now |-> flow[f].now, of |-> flow[f].of, key |-> m,
                     todo |-> flow[f].todo \ {k}, wrote |-> flow[f].wrote]
    <2>4. w \in Flows /\ w.at = p /\ w.now = flow[f].now /\ w.todo = flow[f].todo \ {k} /\ w.key = m
      BY <1>2, <1>3
    <2>5. f = Notifier
      BY <1>1, <2>3 DEF Fits
    <2>6. Fits(f, w, posts', clock')
      BY <1>1, <2>1, <2>3, <2>4, <2>5 DEF Fits
    <2>7. flow' = [flow EXCEPT ![f] = w]
      BY <2>3 DEF Moves
    <2>8. QED BY <2>1, <2>4, <2>6, <2>7, MoveKeeps
  <1>14. QED
    BY <1>4, <1>5, <1>6, <1>7, <1>8, <1>9, <1>10, <1>11, <1>12, <1>13, Zenon DEF WritingStep

LEMMA TInvInductive ==
  ASSUME TInv, [AutoNext]_autoVars
  PROVE  TInv'
  <1>1. \A f \in Flow : flow[f] \in Flows /\ Fits(f, flow[f], posts, clock)
    BY DEF TInv, FlowsFit, AutoTypeOK, WritingTypeOK
  <1>2. clock \in Time /\ clock \in Nat /\ 0 \in Time
    BY WritingLimits DEF TInv, AutoTypeOK, WritingTypeOK, Time
  <1>3. ASSUME NEW f \in Flow
        PROVE  \A p, n, o, k, T, b :
                 LET w == [at |-> p, now |-> n, of |-> o, key |-> k, todo |-> T, wrote |-> b] IN
                   /\ p \in {"create", "resume", "due", "agent", "run", "look", "finish", "write"} /\ n \in Time
                      /\ o \in Automation \cup {None} /\ k \in Key \cup {None} /\ T \in SUBSET Key
                      /\ b \in BOOLEAN => w \in Flows
                   /\ w.at = p /\ w.now = n /\ w.of = o /\ w.key = k /\ w.todo = T
    BY DEF Flows
  <1>4. CASE Posting
    BY <1>4, WritingStepKeeps, StillKeeps, StoppingMoves, StoppingKeeps
       DEF Posting, World, WritingTick, MarkSeen, Dies
  <1>5. CASE UNCHANGED autoVars
    BY <1>5, StillKeeps DEF autoVars
  <1>6. ASSUME NEW a \in Automation, Pause(a) \/ Delete(a) PROVE TInv'
    BY <1>6, StillKeeps DEF Pause, Delete
  <1>7. ASSUME NEW f \in Flow, CreateLooks(f) PROVE TInv'
    <2> DEFINE w == [at |-> "create", now |-> clock, of |-> flow[f].of, key |-> flow[f].key,
                     todo |-> flow[f].todo, wrote |-> flow[f].wrote]
    <2>1. flow' = [flow EXCEPT ![f] = w] /\ posts' = posts /\ clock' = clock /\ f # Notifier
      BY <1>7, OtherMoves DEF Moves, CreateLooks
    <2>2. w \in Flows /\ w.at = "create" /\ w.now = clock
      BY <1>1, <1>2, <1>3 DEF Flows
    <2>3. Fits(f, w, posts', clock')
      BY <1>2, <2>1, <2>2 DEF Fits
    <2>4. QED BY <2>1, <2>2, <2>3, MoveKeeps
  <1>8. ASSUME NEW f \in Flow, ResumeFindsNone(f) \/ \E a \in Automation : CreateInserts(f, a) \/ ResumeWrites(f, a)
        PROVE  TInv'
    <2>1. posts' = posts /\ clock' = clock
      BY <1>8, Zenon DEF CreateInserts, ResumeWrites, ResumeFindsNone
    <2>2. QED BY <1>8, <2>1, StoppingMoves, StoppingKeeps
  <1>9. ASSUME NEW f \in Flow, NEW a \in Automation, RunByHand(f, a) PROVE TInv'
    <2> DEFINE w == [at |-> "run", now |-> clock, of |-> a, key |-> None, todo |-> {}, wrote |-> FALSE]
    <2>1. flow' = [flow EXCEPT ![f] = w] /\ posts' = posts /\ clock' = clock
      BY <1>9, OtherMoves DEF Moves, RunByHand
    <2>2. w \in Flows /\ w.at = "run" /\ w.now = clock /\ w.of = a /\ w.todo = {}
      BY <1>2, <1>3
    <2>3. Fits(f, w, posts', clock')
      BY <1>2, <2>1, <2>2 DEF Fits
    <2>4. QED BY <2>1, <2>2, <2>3, MoveKeeps
  <1>10. ASSUME NEW f \in Flow, Answers(f) PROVE TInv'
    <2> DEFINE w == [at |-> "look", now |-> 0, of |-> flow[f].of, key |-> Answer(flow[f].of, flow[f].now),
                     todo |-> flow[f].todo, wrote |-> flow[f].wrote]
    <2>1. flow' = [flow EXCEPT ![f] = w] /\ posts' = posts /\ clock' = clock /\ flow[f].at = "run"
      BY <1>10, OtherMoves DEF Moves, Answers
    <2>2. Answer(flow[f].of, flow[f].now) \in Key /\ Answer(flow[f].of, flow[f].now).kind = "automation"
          /\ flow[f].todo = {}
      <3>1. flow[f].of \in Automation /\ flow[f].now \in Time /\ flow[f].todo = {}
        BY <1>1, <2>1 DEF Flows, Fits
      <3>2. QED BY <3>1, KeysOf DEF Answer
    <2>3. w \in Flows /\ w.at = "look" /\ w.now = 0 /\ w.todo = {} /\ w.key = Answer(flow[f].of, flow[f].now)
      BY <1>1, <1>2, <1>3, <2>2 DEF Flows
    <2>4. Fits(f, w, posts', clock')
      BY <1>2, <2>1, <2>2, <2>3 DEF Fits
    <2>5. QED BY <2>1, <2>3, <2>4, MoveKeeps
  <1>11. ASSUME NEW f \in Flow, HasNothingToSay(f) PROVE TInv'
    <2> DEFINE w == [at |-> "finish", now |-> 0, of |-> flow[f].of, key |-> flow[f].key,
                     todo |-> flow[f].todo, wrote |-> flow[f].wrote]
    <2>1. flow' = [flow EXCEPT ![f] = w] /\ posts' = posts /\ clock' = clock
      BY <1>11, OtherMoves DEF Moves, HasNothingToSay
    <2>2. w \in Flows /\ w.at = "finish" /\ w.now = 0
      BY <1>1, <1>2, <1>3 DEF Flows
    <2>3. Fits(f, w, posts', clock')
      BY <1>2, <2>1, <2>2 DEF Fits
    <2>4. QED BY <2>1, <2>2, <2>3, MoveKeeps
  <1>12. ASSUME NEW f \in Flow, Finish(f) PROVE TInv'
    BY <1>12, StoppingMoves, StoppingKeeps DEF Finish
  <1>13. CASE PassBegins
    <2> DEFINE w == [at |-> "due", now |-> clock, of |-> None, key |-> None, todo |-> {}, wrote |-> FALSE]
    <2>1. flow' = [flow EXCEPT ![Notifier] = w] /\ posts' = posts /\ clock' = clock
      BY <1>13, OtherMoves, NotifierIsAFlow DEF Moves, PassBegins
    <2>2. w \in Flows /\ w.at = "due" /\ w.now = clock /\ w.todo = {}
      BY <1>2, <1>3, NotifierIsAFlow
    <2>3. Fits(Notifier, w, posts', clock')
      BY <1>2, <2>1, <2>2 DEF Fits
    <2>4. QED BY <2>1, <2>2, <2>3, MoveKeeps, NotifierIsAFlow
  <1>14. CASE FindsNoneDue
    <2>1. posts' = posts /\ clock' = clock /\ flow' = [flow EXCEPT ![Notifier] = [Resting EXCEPT !.at = "write"]]
      BY <1>14, Zenon DEF FindsNoneDue
    <2>2. QED BY <2>1, StoppingKeeps, NotifierIsAFlow
  <1>15. CASE CannotClaim
    BY <1>15, StoppingMoves, StoppingKeeps, NotifierIsAFlow DEF CannotClaim
  <1>16. ASSUME NEW a \in Automation, FindsDue(a) PROVE TInv'
    <2> DEFINE w == [at |-> "agent", now |-> N.now, of |-> a, key |-> N.key, todo |-> N.todo, wrote |-> N.wrote]
    <2>1. flow' = [flow EXCEPT ![Notifier] = w] /\ posts' = posts /\ clock' = clock /\ N.at = "due"
      BY <1>16, OtherMoves, NotifierIsAFlow DEF Moves, FindsDue, N
    <2>2. w \in Flows /\ w.at = "agent" /\ w.now = N.now /\ w.of = a /\ w.todo = N.todo
      BY <1>1, <1>3, NotifierIsAFlow DEF N, Flows
    <2>3. Fits(Notifier, w, posts', clock')
      BY <1>1, <2>1, <2>2, NotifierIsAFlow DEF Fits, N
    <2>4. QED BY <2>1, <2>2, <2>3, MoveKeeps, NotifierIsAFlow
  <1>17. ASSUME NEW a \in Automation, Claim(a) PROVE TInv'
    <2> DEFINE w == [at |-> "run", now |-> N.now, of |-> N.of, key |-> N.key, todo |-> N.todo, wrote |-> N.wrote]
    <2>1. flow' = [flow EXCEPT ![Notifier] = w] /\ posts' = posts /\ clock' = clock /\ N.at = "agent"
      <3>1. Moves(Notifier, "run", N.now, N.of, N.key, N.todo, N.wrote)
        BY <1>17, OtherMoves, NotifierIsAFlow DEF N
      <3>2. posts' = posts /\ clock' = clock /\ N.at = "agent"
        BY <1>17, Zenon DEF Claim, N
      <3>3. QED BY <3>1, <3>2 DEF Moves
    <2>2. w \in Flows /\ w.at = "run" /\ w.now = N.now /\ w.of = N.of /\ w.todo = N.todo
      BY <1>1, <1>3, NotifierIsAFlow DEF N, Flows
    <2>3. Fits(Notifier, w, posts', clock')
      BY <1>1, <2>1, <2>2, NotifierIsAFlow DEF Fits, N
    <2>4. QED BY <2>1, <2>2, <2>3, MoveKeeps, NotifierIsAFlow
  <1>18. ASSUME NEW f \in Flow, NEW a \in Automation, ResumeLooks(f, a) PROVE TInv'
    <2> DEFINE w == [at |-> "resume", now |-> clock, of |-> a, key |-> flow[f].key,
                     todo |-> flow[f].todo, wrote |-> flow[f].wrote]
    <2>1. flow' = [flow EXCEPT ![f] = w] /\ posts' = posts /\ clock' = clock /\ f # Notifier
      BY <1>18, OtherMoves DEF Moves, ResumeLooks
    <2>2. w \in Flows /\ w.at = "resume" /\ w.now = clock /\ w.of = a
      BY <1>1, <1>2, <1>3 DEF Flows
    <2>3. Fits(f, w, posts', clock')
      BY <1>2, <2>1, <2>2 DEF Fits
    <2>4. QED BY <2>1, <2>2, <2>3, MoveKeeps
  <1>19. QED
    BY <1>4, <1>5, <1>6, <1>7, <1>8, <1>9, <1>10, <1>11, <1>12, <1>13, <1>14, <1>15, <1>16, <1>17, <1>18, Zenon
       DEF AutoNext, PassStep, RunStep, Owner

LEMMA TInvInit == ASSUME AutoInit PROVE TInv
  <1>1. 0 \in Time /\ NextAfter(0) \in Nat
    BY WritingLimits, Falls DEF Time
  <1>2. WritingTypeOK
    BY <1>1, RestingFits DEF AutoInit, WritingInit, WritingTypeOK
  <1>3. AutoTypeOK
    <2>1. auto \in [Automation -> Rows]
      BY <1>1 DEF AutoInit, Rows, NoRow
    <2>2. served \in [Automation -> Nat \cup {None}] /\ ahead \in [Automation -> SUBSET Automation]
          /\ late \subseteq Automation
      BY DEF AutoInit
    <2>3. QED BY <1>2, <2>1, <2>2 DEF AutoTypeOK
  <1>4. FlowsFit
    BY RestingFits DEF AutoInit, WritingInit, FlowsFit
  <1>5. QED BY <1>3, <1>4 DEF TInv

LEMMA TypesHold == AutoSpec => []TInv
  BY TInvInit, TInvInductive, PTL DEF AutoSpec

\* The tables, the flows of the notifier and of the page, and the history of the runs keep
\* their types (the tables of diya_automations and diya_proactive).
THEOREM AutoTypeCorrect == AutoSpec => []AutoTypeOK
  <1>1. TInv => AutoTypeOK
    BY DEF TInv
  <1>2. QED BY <1>1, TypesHold, PTL

-------------------------------------------------------------------------------
(* The order of the runs.                                                         *)

NextIsAFall == \A a \in Automation : LastFall(auto[a].next) = auto[a].next

RunBeforeNext == \A a \in Automation :
                   served[a] # None => (a \in late \/ served[a] < auto[a].next) /\ served[a] <= clock

OnlyActiveWaits == \A a \in Automation :
                     /\ auto[a].state # "active" => ahead[a] = {}
                     /\ auto[a].state = "none" => served[a] = None /\ \A b \in Automation : a \notin ahead[b]

PassedIsLater == \A a, b \in Automation : a \in ahead[b] => a \in late \/ auto[b].next < auto[a].next

Looking == N.at \in {"due", "agent"}

PassedIsDue == \A b \in Automation :
                 ahead[b] # {} => auto[b].next <= clock /\ (Looking => auto[b].next <= N.now)

ChosenIsNext == N.at = "agent" =>
                  \/ N.of \in late
                  \/ /\ served[N.of] = None \/ served[N.of] < LastFall(N.now)
                     /\ \A b \in Due(N.now) : N.of \notin ahead[b]

AInv == NextIsAFall /\ RunBeforeNext /\ OnlyActiveWaits /\ PassedIsLater /\ PassedIsDue /\ ChosenIsNext

LEMMA PlaceOfMove ==
  ASSUME TInv, NEW f \in Flow, NEW w, flow' = [flow EXCEPT ![f] = w],
         f # Notifier \/ w.at \notin {"due", "agent"}
  PROVE  Looking' => N' = N
  <1>1. flow \in [Flow -> Flows]
    BY DEF TInv, AutoTypeOK, WritingTypeOK
  <1>2. CASE f # Notifier
    BY <1>1, <1>2, NotifierIsAFlow DEF N
  <1>3. CASE f = Notifier
    BY <1>1, <1>3, NotifierIsAFlow DEF N, Looking
  <1>4. QED BY <1>2, <1>3

\* But for a pass that begins and one that has found what is due, no step takes the notifier
\* to where it looks for what is due.
LEMMA LookingStays ==
  ASSUME TInv, [AutoNext]_autoVars, ~PassBegins, \A a \in Automation : ~FindsDue(a)
  PROVE  Looking' => N' = N
  <1>1. \A f \in Flow : flow[f] \in Flows
    BY DEF TInv, AutoTypeOK, WritingTypeOK
  <1>2. \A p, n, o, k, T, b :
          [at |-> p, now |-> n, of |-> o, key |-> k, todo |-> T, wrote |-> b].at = p
    OBVIOUS
  <1>3. ASSUME NEW f \in Flow, NEW p, NEW n, NEW o, NEW k, NEW T, NEW b,
               Moves(f, p, n, o, k, T, b), f # Notifier \/ p \notin {"due", "agent"}
        PROVE  Looking' => N' = N
    <2> DEFINE w == [at |-> p, now |-> n, of |-> o, key |-> k, todo |-> T, wrote |-> b]
    <2>1. flow' = [flow EXCEPT ![f] = w] /\ w.at = p
      BY <1>2, <1>3 DEF Moves
    <2>2. QED BY <1>3, <2>1, PlaceOfMove
  <1>4. ASSUME NEW f \in Flow,
               \/ flow' = [flow EXCEPT ![f] = Resting]
               \/ flow' = [flow EXCEPT ![f] = [Resting EXCEPT !.at = "write"]] /\ f = Notifier
               \/ flow' = [flow EXCEPT ![f] = [Resting EXCEPT !.at = "list"]] /\ f = Notifier
               \/ /\ f = Notifier /\ flow[f].at \in {"look", "add", "record"}
                  /\ flow' = [flow EXCEPT ![f] = [flow[f] EXCEPT !.at = "finish", !.key = None]]
        PROVE  Looking' => N' = N
    <2>1. /\ Resting.at = "idle" /\ [Resting EXCEPT !.at = "write"].at = "write"
          /\ [Resting EXCEPT !.at = "list"].at = "list"
      BY DEF Resting
    <2>2. [flow[f] EXCEPT !.at = "finish", !.key = None].at = "finish"
      BY <1>1 DEF Flows
    <2>3. QED BY <1>4, <2>1, <2>2, PlaceOfMove
  <1>5. ASSUME NEW f \in Flow, WritingStep(f) PROVE Looking' => N' = N
    <2>1. CASE LookKey(f) \/ AddToChat(f) \/ RecordPost(f) \/ MarkToasted(f) \/ ListUntold(f)
      <3>1. AfterPost(f) \in {"finish", "say"}
        BY DEF AfterPost
      <3>2. ListUntold(f) => \E T \in SUBSET untold :
              Moves(f, "tell", flow[f].now, flow[f].of, flow[f].key, T, flow[f].wrote)
        BY OtherMoves
      <3>3. QED BY <2>1, <3>1, <3>2, <1>3, WritingMoves
    <2>2. CASE StoreFails(f) \/ AllTold(f)
      <3>1. AllTold(f) => flow[f].at = "tell"
        BY DEF AllTold
      <3>2. AllTold(f) => f = Notifier
        BY <3>1 DEF TInv, FlowsFit, Fits
      <3>3. QED BY <2>2, <3>2, <1>4, StoppingMoves
    <2>3. CASE Plan(f)
      <3>1. \E T : flow' = [flow EXCEPT ![f] = [Resting EXCEPT !.at = "say", !.wrote = TRUE, !.todo = T]]
        BY <2>3, Zenon DEF Plan
      <3>2. \A T : [Resting EXCEPT !.at = "say", !.wrote = TRUE, !.todo = T].at = "say"
        BY DEF Resting
      <3>3. QED BY <3>1, <3>2, PlaceOfMove
    <2>4. ASSUME NEW k \in flow[f].todo, Say(f, k) \/ Notify(f, k) \/ NotifyFails(f, k)
          PROVE  Looking' => N' = N
      <3>1. NotifyFails(f, k) => flow[f].at = "tell"
        BY DEF NotifyFails
      <3>2. \E p \in {"look", "mark", "tell"} : \E n, o, m, T, b : Moves(f, p, n, o, m, T, b)
        BY <2>4, <3>1, WritingMoves
      <3>3. QED BY <3>2, <1>3
    <2>5. QED BY <1>5, <2>1, <2>2, <2>3, <2>4, Zenon DEF WritingStep
  <1>6. CASE Posting
    <2>1. CASE World
      BY <2>1, <1>4, StoppingMoves DEF World, WritingTick, MarkSeen, Dies, N
    <2>2. QED BY <1>5, <1>6, <2>1, Zenon DEF Posting
  <1>7. CASE PassStep
    <2>1. FindsNoneDue => Moves(Notifier, "write", 0, None, None, {}, FALSE)
      BY OtherMoves, NotifierIsAFlow DEF N
    <2>2. \A a : Claim(a) => Moves(Notifier, "run", N.now, N.of, N.key, N.todo, N.wrote)
      BY OtherMoves, NotifierIsAFlow DEF N
    <2>3. CannotClaim => (Looking' => N' = N)
      BY <1>4, StoppingMoves, NotifierIsAFlow
    <2>4. FindsNoneDue \/ CannotClaim \/ \E a \in Automation : Claim(a)
      BY <1>7, Zenon DEF PassStep
    <2>5. FindsNoneDue \/ (\E a : Claim(a)) =>
            \E p \in {"write", "run"} : \E n, o, m, T, b : Moves(Notifier, p, n, o, m, T, b)
      BY <2>1, <2>2
    <2>6. QED BY <2>3, <2>4, <2>5, <1>3, NotifierIsAFlow
  <1>8. CASE RunStep
    <2>1. PICK f \in Flow : Answers(f) \/ HasNothingToSay(f) \/ Finish(f)
      BY <1>8 DEF RunStep
    <2>2. Answers(f) \/ HasNothingToSay(f) =>
            \E p \in {"look", "finish"} : \E n, o, m, T, b : Moves(f, p, n, o, m, T, b)
      BY OtherMoves
    <2>3. Finish(f) => (Looking' => N' = N)
      BY <1>4, StoppingMoves
    <2>4. QED BY <2>1, <2>2, <2>3, <1>3
  <1>9. CASE Owner
    <2>1. ASSUME NEW a \in Automation, Pause(a) \/ Delete(a) PROVE Looking' => N' = N
      BY <2>1 DEF Pause, Delete, N
    <2>2. ASSUME NEW h \in Flow, CreateLooks(h) PROVE Looking' => N' = N
      <3>1. Moves(h, "create", clock, flow[h].of, flow[h].key, flow[h].todo, flow[h].wrote)
        BY <2>2, OtherMoves
      <3>2. QED BY <3>1, <1>3
    <2>3. ASSUME NEW h \in Flow, NEW a \in Automation,
                 CreateInserts(h, a) \/ ResumeWrites(h, a) \/ RunByHand(h, a) \/ ResumeLooks(h, a)
          PROVE  Looking' => N' = N
      <3>1. CASE CreateInserts(h, a) \/ ResumeWrites(h, a)
        BY <3>1, <1>4, StoppingMoves
      <3>2. CASE RunByHand(h, a)
        BY <3>2, <1>3, OtherMoves
      <3>3. CASE ResumeLooks(h, a)
        <4>1. Moves(h, "resume", clock, a, flow[h].key, flow[h].todo, flow[h].wrote)
          BY <3>3, OtherMoves
        <4>2. QED BY <4>1, <1>3
      <3>4. QED BY <2>3, <3>1, <3>2, <3>3
    <2>4. ASSUME NEW h \in Flow, ResumeFindsNone(h) PROVE Looking' => N' = N
      BY <2>4, <1>4, StoppingMoves
    <2>5. \/ \E a \in Automation : Pause(a) \/ Delete(a)
          \/ \E h \in Flow : CreateLooks(h) \/ ResumeFindsNone(h)
          \/ \E h \in Flow : \E a \in Automation :
               CreateInserts(h, a) \/ ResumeWrites(h, a) \/ RunByHand(h, a) \/ ResumeLooks(h, a)
      BY <1>9, Zenon DEF Owner
    <2>6. QED BY <2>1, <2>2, <2>3, <2>4, <2>5, Zenon
  <1>10. CASE UNCHANGED autoVars
    BY <1>10 DEF autoVars, N
  <1>11. QED BY <1>6, <1>7, <1>8, <1>9, <1>10, Zenon DEF AutoNext

LEMMA ATypes ==
  ASSUME TInv
  PROVE  /\ clock \in Nat /\ N.now \in Nat /\ N.now <= clock
         /\ \A a \in Automation : auto[a].next \in Nat /\ (served[a] # None => served[a] \in Nat)
         /\ N.at = "agent" => N.of \in Automation
  <1>1. clock \in Nat /\ N.now \in Nat
    BY WritingLimits, NotifierIsAFlow DEF TInv, AutoTypeOK, WritingTypeOK, Time, N, Flows
  <1>2. N.now <= clock /\ (N.at = "agent" => N.of \in Automation)
    BY NotifierIsAFlow DEF TInv, FlowsFit, Fits, N
  <1>3. \A a \in Automation : auto[a].next \in Nat /\ (served[a] # None => served[a] \in Nat)
    BY DEF TInv, AutoTypeOK, Rows
  <1>4. QED BY <1>1, <1>2, <1>3

\* Steps that leave the table and the history alone.
LEMMA TableStill ==
  ASSUME TInv, TInv', AInv, clock <= clock', UNCHANGED <<auto, served, ahead, late>>, Looking' => N' = N
  PROVE  AInv'
  <1>1. NextIsAFall' /\ OnlyActiveWaits' /\ PassedIsLater'
    BY DEF AInv, NextIsAFall, OnlyActiveWaits, PassedIsLater
  <1>2. RunBeforeNext'
    <2>1. ASSUME NEW a \in Automation, served[a] # None
          PROVE  (a \in late \/ served[a] < auto[a].next) /\ served[a] <= clock'
      <3>1. (a \in late \/ served[a] < auto[a].next) /\ served[a] <= clock /\ served[a] \in Nat /\ clock' \in Nat /\ clock \in Nat
        BY <2>1, ATypes, WritingLimits DEF AInv, RunBeforeNext, TInv, AutoTypeOK, WritingTypeOK, Time
      <3>2. QED BY <3>1
    <2>2. QED BY <2>1 DEF RunBeforeNext
  <1>3. PassedIsDue'
    <2>1. ASSUME NEW b \in Automation, ahead[b] # {}
          PROVE  auto[b].next <= clock' /\ (Looking' => auto[b].next <= N'.now)
      <3>1. auto[b].next <= clock /\ (Looking => auto[b].next <= N.now) /\ auto[b].next \in Nat /\ clock' \in Nat /\ clock \in Nat
        BY <2>1, ATypes, WritingLimits DEF AInv, PassedIsDue, TInv, AutoTypeOK, WritingTypeOK, Time
      <3>2. Looking' => Looking
        BY DEF Looking
      <3>3. QED BY <3>1, <3>2
    <2>2. QED BY <2>1 DEF PassedIsDue
  <1>4. ChosenIsNext'
    <2>1. N'.at = "agent" => N' = N
      BY DEF Looking
    <2>2. QED BY <2>1 DEF AInv, ChosenIsNext, Due
  <1>5. QED BY <1>1, <1>2, <1>3, <1>4 DEF AInv

\* A pass that begins, and one that finds what is due.
LEMMA LookingKeeps ==
  ASSUME TInv, TInv', AInv, PassBegins \/ \E a \in Automation : FindsDue(a)
  PROVE  AInv'
  <1>1. UNCHANGED <<clock, auto, served, ahead, late>>
    BY Zenon DEF PassBegins, FindsDue
  <1>2. NextIsAFall' /\ OnlyActiveWaits' /\ PassedIsLater' /\ RunBeforeNext'
    BY <1>1 DEF AInv, NextIsAFall, OnlyActiveWaits, PassedIsLater, RunBeforeNext
  <1>3. flow \in [Flow -> Flows]
    BY DEF TInv, AutoTypeOK, WritingTypeOK
  <1>4. CASE PassBegins
    <2>1. N'.at = "due" /\ N'.now = clock
      BY <1>3, <1>4, NotifierIsAFlow DEF PassBegins, N, Resting
    <2>2. PassedIsDue' /\ ChosenIsNext'
      BY <1>1, <2>1 DEF AInv, PassedIsDue, ChosenIsNext, Looking
    <2>3. QED BY <1>2, <2>2 DEF AInv
  <1>5. ASSUME NEW a \in Automation, FindsDue(a) PROVE AInv'
    <2>1. N.at = "due" /\ a \in First(Due(N.now))
      BY <1>5, Zenon DEF FindsDue, N
    <2>2. N'.at = "agent" /\ N'.now = N.now /\ N'.of = a
      <3>1. flow' = [flow EXCEPT ![Notifier].at = "agent", ![Notifier].of = a]
        BY <1>5, Zenon DEF FindsDue
      <3>2. flow[Notifier] \in Flows
        BY <1>3, NotifierIsAFlow
      <3>3. QED BY <1>3, <3>1, <3>2, NotifierIsAFlow DEF N, Flows
    <2>3. PassedIsDue'
      BY <1>1, <2>1, <2>2 DEF AInv, PassedIsDue, Looking
    <2>4. auto[a].next \in Nat /\ auto[a].next <= N.now /\ N.now \in Nat /\ LastFall(N.now) \in Nat
      BY <2>1, ATypes, Falls DEF First, Due
    <2>5. auto[a].next <= LastFall(N.now)
      BY <2>4, Falls DEF AInv, NextIsAFall
    <2>6. a \in late \/ served[a] = None \/ served[a] < LastFall(N.now)
      BY <2>4, <2>5, ATypes DEF AInv, RunBeforeNext
    <2>7. ASSUME NEW b \in Due(N.now), a \notin late PROVE a \notin ahead[b]
      <3>1. b \in Automation /\ auto[a].next <= auto[b].next /\ auto[b].next \in Nat
        BY <2>1, ATypes DEF First, Due
      <3>2. QED BY <2>4, <2>7, <3>1 DEF AInv, PassedIsLater
    <2>8. ChosenIsNext'
      BY <1>1, <2>2, <2>6, <2>7 DEF ChosenIsNext, Due
    <2>9. QED BY <1>2, <2>3, <2>8 DEF AInv
  <1>6. QED BY <1>4, <1>5

LEMMA ClaimKeeps ==
  ASSUME TInv, TInv', AInv, NEW a \in Automation, Claim(a)
  PROVE  AInv'
  <1>1. /\ N.at = "agent" /\ N.of = a /\ a \in There /\ clock' = clock
        /\ auto' = [auto EXCEPT ![a].next = NextAfter(N.now)]
        /\ served' = [served EXCEPT ![a] = LastFall(N.now)]
        /\ ahead' = [b \in Automation |-> IF b = a THEN {}
                                          ELSE IF b \in Due(N.now) THEN ahead[b] \cup {a} ELSE ahead[b]]
        /\ late' = late \ {a}
    BY Zenon DEF Claim, Claimed, N
  <1>2. ~Looking'
    <2>1. flow' = [flow EXCEPT ![Notifier].at = "run"]
      BY Zenon DEF Claim, Goes
    <2>2. QED BY <2>1, NotifierIsAFlow DEF TInv, AutoTypeOK, WritingTypeOK, Looking, N, Flows
  <1>3. /\ LastFall(N.now) \in Nat /\ LastFall(N.now) <= N.now /\ NextAfter(N.now) \in Nat /\ N.now < NextAfter(N.now)
        /\ LastFall(N.now) < NextAfter(N.now) /\ LastFall(NextAfter(N.now)) = NextAfter(N.now)
    BY ATypes, Falls
  <1>4. /\ auto'[a].next = NextAfter(N.now) /\ auto'[a].state = auto[a].state
        /\ \A b \in Automation \ {a} : auto'[b] = auto[b]
    BY <1>1 DEF TInv, AutoTypeOK, Rows
  <1>5. /\ served'[a] = LastFall(N.now) /\ \A b \in Automation \ {a} : served'[b] = served[b]
    BY <1>1 DEF TInv, AutoTypeOK
  <1>6. /\ ahead'[a] = {}
        /\ \A b \in Automation \ {a} : ahead'[b] = ahead[b] \/ (b \in Due(N.now) /\ ahead'[b] = ahead[b] \cup {a})
    <2>1. \A b \in Automation : ahead'[b] = IF b = a THEN {}
                                          ELSE IF b \in Due(N.now) THEN ahead[b] \cup {a} ELSE ahead[b]
      BY <1>1, Zenon
    <2>2. ahead'[a] = {}
      BY <2>1, Zenon
    <2>3. ASSUME NEW b \in Automation \ {a}
          PROVE  ahead'[b] = ahead[b] \/ (b \in Due(N.now) /\ ahead'[b] = ahead[b] \cup {a})
      <3>1. b # a /\ ahead'[b] = IF b \in Due(N.now) THEN ahead[b] \cup {a} ELSE ahead[b]
        BY <2>1, Zenon
      <3>2. QED BY <3>1, Zenon
    <2>4. QED BY <2>2, <2>3, Zenon
  <1>7. NextIsAFall'
    BY <1>3, <1>4 DEF AInv, NextIsAFall
  <1>8. RunBeforeNext'
    <2>1. ASSUME NEW b \in Automation, served'[b] # None
          PROVE  (b \in late' \/ served'[b] < auto'[b].next) /\ served'[b] <= clock'
      <3>1. CASE b = a
        BY <1>1, <1>3, <1>4, <1>5, <3>1, ATypes
      <3>2. CASE b # a
        BY <1>1, <1>4, <1>5, <2>1, <3>2 DEF AInv, RunBeforeNext
      <3>3. QED BY <3>1, <3>2
    <2>2. QED BY <2>1 DEF RunBeforeNext
  <1>9. OnlyActiveWaits'
    <2>1. ASSUME NEW b \in Automation
          PROVE  /\ auto'[b].state # "active" => ahead'[b] = {}
                 /\ auto'[b].state = "none" => served'[b] = None /\ \A c \in Automation : b \notin ahead'[c]
      <3>1. CASE b = a
        BY <1>1, <1>4, <1>6, <3>1 DEF There
      <3>2. CASE b # a
        BY <1>4, <1>5, <1>6, <3>2 DEF AInv, OnlyActiveWaits, Due
      <3>3. QED BY <3>1, <3>2
    <2>2. QED BY <2>1 DEF OnlyActiveWaits
  <1>10. PassedIsLater'
    <2>1. ASSUME NEW c \in Automation, NEW b \in Automation, c \in ahead'[b]
          PROVE  c \in late' \/ auto'[b].next < auto'[c].next
      <3>1. b # a /\ auto'[b] = auto[b]
        BY <1>4, <1>6, <2>1
      <3>2. CASE c = a
        <4>1. auto[b].next <= N.now
          BY <1>1, <1>6, <2>1, <3>1, <3>2 DEF AInv, PassedIsDue, Looking, Due
        <4>2. QED BY <1>3, <1>4, <3>1, <3>2, <4>1, ATypes
      <3>3. CASE c # a
        BY <1>1, <1>4, <1>6, <2>1, <3>1, <3>3 DEF AInv, PassedIsLater
      <3>4. QED BY <3>2, <3>3
    <2>2. QED BY <2>1 DEF PassedIsLater
  <1>11. PassedIsDue'
    <2>1. ASSUME NEW b \in Automation, ahead'[b] # {} PROVE auto'[b].next <= clock'
      <3>1. b # a /\ auto'[b] = auto[b]
        BY <1>4, <1>6, <2>1
      <3>2. ahead[b] # {} \/ b \in Due(N.now)
        BY <1>6, <2>1, <3>1
      <3>3. QED BY <1>1, <3>1, <3>2, ATypes DEF AInv, PassedIsDue, Due
    <2>2. QED BY <1>2, <2>1 DEF PassedIsDue
  <1>12. ChosenIsNext'
    BY <1>2 DEF ChosenIsNext, Looking
  <1>13. QED BY <1>7, <1>8, <1>9, <1>10, <1>11, <1>12 DEF AInv

\* The owner changes one row; nobody is ahead of it any more.
LEMMA RowChanged ==
  ASSUME TInv, TInv', AInv, NEW a \in Automation, clock' = clock, served' = served, Looking' => N' = N,
         NEW row \in Rows, auto' = [auto EXCEPT ![a] = row], ahead' = [ahead EXCEPT ![a] = {}],
         row.state # "none", LastFall(row.next) = row.next,
         late \subseteq late',
         a \in late' \/ row.next = auto[a].next \/ (\A b \in Automation : a \notin ahead[b]) \/ row.next > clock,
         served[a] # None => a \in late' \/ served[a] < row.next
  PROVE  AInv'
  <1>1. auto'[a] = row /\ \A b \in Automation \ {a} : auto'[b] = auto[b]
    BY DEF TInv, AutoTypeOK
  <1>2. ahead'[a] = {} /\ \A b \in Automation \ {a} : ahead'[b] = ahead[b]
    BY DEF TInv, AutoTypeOK
  <1>3. NextIsAFall' /\ RunBeforeNext' /\ OnlyActiveWaits'
    BY <1>1, <1>2 DEF AInv, NextIsAFall, RunBeforeNext, OnlyActiveWaits
  <1>4. PassedIsLater'
    <2>1. ASSUME NEW c \in Automation, NEW b \in Automation, c \in ahead'[b]
          PROVE  c \in late' \/ auto'[b].next < auto'[c].next
      <3>1. b # a /\ auto'[b] = auto[b] /\ c \in ahead[b] /\ (c \in late' \/ auto[b].next < auto[c].next)
        BY <1>1, <1>2, <2>1 DEF AInv, PassedIsLater
      <3>2. auto[b].next <= clock /\ auto[b].next \in Nat /\ row.next \in Nat /\ clock \in Nat
        BY <3>1, ATypes DEF AInv, PassedIsDue, Rows
      <3>3. CASE c = a
        BY <1>1, <3>1, <3>2, <3>3
      <3>4. CASE c # a
        BY <1>1, <3>1, <3>4
      <3>5. QED BY <3>3, <3>4
    <2>2. QED BY <2>1 DEF PassedIsLater
  <1>5. PassedIsDue'
    <2>1. Looking' => Looking
      BY DEF Looking
    <2>2. QED BY <1>1, <1>2, <2>1 DEF AInv, PassedIsDue
  <1>6. ChosenIsNext'
    <2>1. N'.at = "agent" => N' = N
      BY DEF Looking
    <2>2. ASSUME NEW b \in Automation, N'.at = "agent", b \in Due(N.now)', N.of \notin late'
          PROVE  N.of \notin ahead'[b]
      BY <1>1, <1>2, <2>1, <2>2 DEF AInv, ChosenIsNext, Due
    <2>3. QED BY <2>1, <2>2 DEF AInv, ChosenIsNext, Due
  <1>7. QED BY <1>3, <1>4, <1>5, <1>6 DEF AInv

LEMMA AInvInductive ==
  ASSUME TInv, TInv', AInv, [AutoNext]_autoVars
  PROVE  AInv'
  <1>1. clock <= clock' /\ clock \in Nat
    BY DataKeepsType, ATypes
  <1>2. CASE PassBegins \/ \E a \in Automation : FindsDue(a)
    BY <1>2, LookingKeeps
  <1>3. CASE ~PassBegins /\ ~(\E a \in Automation : FindsDue(a))
    <2>1. Looking' => N' = N
      BY <1>3, LookingStays
    <2>2. ASSUME NEW a \in Automation, Claim(a) PROVE AInv'
      BY <2>2, ClaimKeeps
    <2>3. ASSUME NEW a \in Automation, Pause(a) \/ Delete(a) PROVE AInv'
      <3>1. PICK s \in {"paused", "deleted"} : auto' = [auto EXCEPT ![a].state = s]
        BY <2>3 DEF Pause, Delete
      <3> DEFINE row == [auto[a] EXCEPT !.state = s]
      <3>2. row \in Rows /\ row.state = s /\ row.next = auto[a].next /\ auto' = [auto EXCEPT ![a] = row]
        BY <3>1 DEF TInv, AutoTypeOK, Rows
      <3>3. clock' = clock /\ served' = served /\ late' = late /\ ahead' = [ahead EXCEPT ![a] = {}]
        BY <2>3 DEF Pause, Delete, Anew
      <3>4. QED BY <2>1, <3>2, <3>3, RowChanged DEF AInv, NextIsAFall, RunBeforeNext
    <2>4. ASSUME NEW h \in Flow, NEW a \in Automation, ResumeWrites(h, a) PROVE AInv'
      <3> DEFINE row == [state |-> "active", next |-> NextAfter(flow[h].now)]
      <3>1. flow[h].now \in Nat
        BY WritingLimits DEF TInv, AutoTypeOK, WritingTypeOK, Flows, Time
      <3>2. NextAfter(flow[h].now) \in Nat /\ LastFall(NextAfter(flow[h].now)) = NextAfter(flow[h].now)
        BY <3>1, Falls
      <3>3. row \in Rows /\ row.state = "active" /\ row.next = NextAfter(flow[h].now)
        BY <3>2 DEF Rows
      <3>4. auto' = [auto EXCEPT ![a] = row] /\ clock' = clock /\ served' = served
            /\ ahead' = [ahead EXCEPT ![a] = {}] /\ late' = late \cup (IF Overtaken(h) THEN {a} ELSE {})
        BY <2>4, Zenon DEF ResumeWrites, Anew
      <3>5. a \in late' \/ row.next > clock
        BY <1>1, <3>2, <3>3, <3>4 DEF Overtaken
      <3>6. served[a] # None => a \in late' \/ served[a] < row.next
        <4>1. served[a] # None => served[a] <= clock /\ served[a] \in Nat
          BY ATypes DEF AInv, RunBeforeNext
        <4>2. QED BY <1>1, <3>2, <3>3, <3>5, <4>1
      <3>7. late \subseteq late' /\ row.state # "none" /\ LastFall(row.next) = row.next
        BY <3>2, <3>3, <3>4
      <3> HIDE DEF row
      <3>8. QED BY <2>1, <3>3, <3>4, <3>5, <3>6, <3>7, RowChanged
    <2>5. ASSUME NEW h \in Flow, NEW a \in Automation, CreateInserts(h, a) PROVE AInv'
      <3> DEFINE row == [state |-> "active", next |-> NextAfter(flow[h].now)]
      <3>1. flow[h].now \in Nat
        BY WritingLimits DEF TInv, AutoTypeOK, WritingTypeOK, Flows, Time
      <3>2. row \in Rows /\ row.state = "active" /\ LastFall(row.next) = row.next
        BY <3>1, Falls DEF Rows
      <3>3. auto' = [auto EXCEPT ![a] = row] /\ clock' = clock /\ UNCHANGED <<served, ahead, late>>
        BY <2>5, Zenon DEF CreateInserts
      <3>4. ahead[a] = {} /\ served[a] = None /\ \A b \in Automation : a \notin ahead[b]
        BY <2>5 DEF CreateInserts, Unused, AInv, OnlyActiveWaits
      <3>5. ahead' = [ahead EXCEPT ![a] = {}]
        BY <3>3, <3>4 DEF TInv, AutoTypeOK
      <3>6. QED BY <2>1, <3>2, <3>3, <3>4, <3>5, RowChanged
    <2>6. CASE UNCHANGED <<auto, served, ahead, late>>
      BY <1>1, <2>1, <2>6, TableStill
    <2>7. \/ UNCHANGED <<auto, served, ahead, late>>
          \/ \E a \in Automation : Claim(a) \/ Pause(a) \/ Delete(a)
          \/ \E h \in Flow : \E a \in Automation : CreateInserts(h, a) \/ ResumeWrites(h, a)
      <3>1. PassStep => UNCHANGED <<auto, served, ahead, late>> \/ \E a \in Automation : Claim(a)
        BY Zenon DEF PassStep, PassBegins, FindsNoneDue, CannotClaim, FindsDue
      <3>2. RunStep => UNCHANGED <<auto, served, ahead, late>>
        BY Zenon DEF RunStep, Answers, HasNothingToSay, Finish
      <3>3. Owner => \/ UNCHANGED <<auto, served, ahead, late>>
                     \/ \E a \in Automation : Pause(a) \/ Delete(a)
                     \/ \E h \in Flow : \E a \in Automation : CreateInserts(h, a) \/ ResumeWrites(h, a)
        BY Zenon DEF Owner, CreateLooks, RunByHand, ResumeLooks, ResumeFindsNone
      <3>4. Posting \/ UNCHANGED autoVars => UNCHANGED <<auto, served, ahead, late>>
        BY Zenon DEF Posting, autoVars
      <3>5. QED BY <3>1, <3>2, <3>3, <3>4, Zenon DEF AutoNext
    <2>8. QED BY <2>2, <2>3, <2>4, <2>5, <2>6, <2>7
  <1>4. QED BY <1>2, <1>3

LEMMA AInvInit == ASSUME AutoInit PROVE AInv
  <1>1. LastFall(0) = 0 /\ LastFall(NextAfter(0)) = NextAfter(0)
    BY Falls DEF LastFall
  <1>2. NextIsAFall
    BY <1>1 DEF AutoInit, NextIsAFall, NoRow
  <1>3. N.at = "idle"
    BY NotifierIsAFlow DEF AutoInit, WritingInit, N, Resting
  <1>4. RunBeforeNext /\ OnlyActiveWaits /\ PassedIsLater /\ PassedIsDue /\ ChosenIsNext
    BY <1>3 DEF AutoInit, RunBeforeNext, OnlyActiveWaits, PassedIsLater, PassedIsDue, ChosenIsNext
  <1>5. QED BY <1>2, <1>4 DEF AInv

LEMMA AInvHolds == AutoSpec => [](TInv /\ AInv)
  BY TInvInit, TInvInductive, AInvInit, AInvInductive, PTL DEF AutoSpec

\* The notifier never runs an automation twice for one fall of its rule, once for each
\* resume that a fall overtook left aside: the claim moves the row on before the run, and a
\* resume that is not overtaken only moves it further (Automations.claim, resume).
THEOREM RunOncePerFall == AutoSpec => OneRunPerFall
  <1>1. TInv /\ AInv => [\A a \in Automation : Claim(a) =>
                           \/ served[a] = None \/ served[a] < LastFall(flow[Notifier].now)
                           \/ a \in late]_autoVars
    BY DEF AInv, ChosenIsNext, Claim, N
  <1>2. QED BY <1>1, AInvHolds, PTL DEF AutoSpec, OneRunPerFall

\* None that is due waits while another is run twice, but for one an overtaken resume put
\* back: one is run a pass, and the one that fell first is (run_due, Automations.due).
THEOREM TurnsAreFair == AutoSpec => FairTurns
  <1>1. TInv /\ AInv => [\A a, b \in Automation : Claim(a) /\ b \in Due(flow[Notifier].now) =>
                           a \notin ahead[b] \/ a \in late]_autoVars
    BY DEF AInv, ChosenIsNext, Claim, N
  <1>2. QED BY <1>1, AInvHolds, PTL DEF AutoSpec, FairTurns

-------------------------------------------------------------------------------
(* What is said and shown.                                                        *)

\* k was not put on the desktop yet, or may be again: its mark is not there.
Owed(k) == (k \notin posts \/ k \in untold \/ Listed(k)) /\ ~Marks(k)
Settled(k) == k \in posts \/ Records(k)

ShownInv == \A k \in Key : shown[k] <= mishaps + (IF Owed(k) THEN 0 ELSE 1)

SaidInv == \A k \in Key : k.kind # "automation" => said[k] <= mishaps + (IF Settled(k) THEN 1 ELSE 0)

\* Written and not recorded: lost to the count of the day.
Lost(d) == {k \in UnaskedKeys(d) : said[k] > 0 /\ ~Settled(k)}
LostInv == \A t \in Time : Cardinality(Lost(Day(t))) <= mishaps

Taken(d) == {k \in UnaskedKeys(d) : said[k] > 0 \/ Plans(k)}
TakenInv == \A t \in Time : Cardinality(Taken(Day(t))) <= DailyCap + mishaps

WInv == ShownInv /\ SaidInv /\ LostInv /\ TakenInv

LEMMA UnaskedFinite ==
  ASSUME NEW t \in Time
  PROVE  /\ IsFiniteSet(UnaskedKeys(Day(t))) /\ UnaskedKeys(Day(t)) \subseteq Key
         /\ \A k \in UnaskedKeys(Day(t)) : k.kind \notin {"automation", "reminder"} /\ k.at = Day(t)
  <1>1. IsFiniteSet(UnaskedKeys(Day(t)))
    <2> DEFINE g == [u \in Unasked |-> [kind |-> u, of |-> None, at |-> Day(t)]]
    <2>1. g \in Surjection(Unasked, UnaskedKeys(Day(t)))
      BY DEF Surjection, UnaskedKeys
    <2>2. IsFiniteSet(Unasked)
      BY KindsApart
    <2>3. QED BY <2>1, <2>2, FS_Surjection
  <1>2. UnaskedKeys(Day(t)) \subseteq Key
    BY KeysOf
  <1>3. \A k \in UnaskedKeys(Day(t)) : k.kind \notin {"automation", "reminder"} /\ k.at = Day(t)
    BY KindsApart DEF UnaskedKeys
  <1>4. QED BY <1>1, <1>2, <1>3

LEMMA WTypes ==
  ASSUME TInv
  PROVE  /\ mishaps \in Nat /\ DailyCap \in Nat /\ \A k \in Key : shown[k] \in Nat /\ said[k] \in Nat
         /\ \A t \in Time : /\ IsFiniteSet(Lost(Day(t))) /\ IsFiniteSet(Taken(Day(t)))
                            /\ Cardinality(Lost(Day(t))) \in Nat /\ Cardinality(Taken(Day(t))) \in Nat
  <1>1. mishaps \in Nat /\ DailyCap \in Nat /\ \A k \in Key : shown[k] \in Nat /\ said[k] \in Nat
    BY WritingLimits DEF TInv, AutoTypeOK, WritingTypeOK
  <1>2. ASSUME NEW t \in Time
        PROVE  /\ IsFiniteSet(Lost(Day(t))) /\ IsFiniteSet(Taken(Day(t)))
               /\ Cardinality(Lost(Day(t))) \in Nat /\ Cardinality(Taken(Day(t))) \in Nat
    <2>1. Lost(Day(t)) \in SUBSET UnaskedKeys(Day(t)) /\ Taken(Day(t)) \in SUBSET UnaskedKeys(Day(t))
      BY DEF Lost, Taken
    <2>2. QED BY <2>1, UnaskedFinite, FS_Subset, FS_CardinalityType
  <1>3. QED BY <1>1, <1>2

\* A message is shown or not, said or not, by this step, and what is known of it follows.
Heard(k) == \/ shown'[k] = shown[k] /\ (Owed(k)' => Owed(k))
            \/ shown'[k] = shown[k] + 1 /\ Owed(k) /\ ~Owed(k)'
Told(k) == \/ k.kind = "automation"
           \/ /\ Settled(k) => Settled(k)'
              /\ \/ said'[k] = said[k] /\ (Plans(k)' => Plans(k))
                 \/ said'[k] = said[k] + 1 /\ ~Settled(k) /\ Settled(k)' /\ Plans(k)

LEMMA HeardAndTold ==
  ASSUME TInv, WInv, mishaps' = mishaps, \A k \in Key : Heard(k) /\ Told(k)
  PROVE  WInv'
  <1>1. ShownInv'
    <2>1. SUFFICES ASSUME NEW k \in Key PROVE shown'[k] <= mishaps + (IF Owed(k)' THEN 0 ELSE 1)
      BY DEF ShownInv
    <2>2. shown[k] <= mishaps + (IF Owed(k) THEN 0 ELSE 1) /\ shown[k] \in Nat /\ mishaps \in Nat
      BY WTypes DEF WInv, ShownInv
    <2>3. Heard(k)
      OBVIOUS
    <2>4. QED BY <2>2, <2>3 DEF Heard
  <1>2. SaidInv'
    <2>1. SUFFICES ASSUME NEW k \in Key, k.kind # "automation"
                   PROVE  said'[k] <= mishaps + (IF Settled(k)' THEN 1 ELSE 0)
      BY DEF SaidInv
    <2>2. said[k] <= mishaps + (IF Settled(k) THEN 1 ELSE 0) /\ said[k] \in Nat /\ mishaps \in Nat
      BY <2>1, WTypes DEF WInv, SaidInv
    <2>3. Told(k)
      OBVIOUS
    <2>4. QED BY <2>1, <2>2, <2>3 DEF Told
  <1>3. ASSUME NEW t \in Time
        PROVE  Lost(Day(t))' \subseteq Lost(Day(t)) /\ Taken(Day(t))' \subseteq Taken(Day(t))
    <2>1. SUFFICES ASSUME NEW k \in UnaskedKeys(Day(t))
                   PROVE  /\ said'[k] > 0 /\ ~Settled(k)' => said[k] > 0 /\ ~Settled(k)
                          /\ said'[k] > 0 \/ Plans(k)' => said[k] > 0 \/ Plans(k)
      BY DEF Lost, Taken
    <2>2. Told(k) /\ k.kind # "automation"
      BY UnaskedFinite
    <2>3. QED BY <2>2 DEF Told
  <1>4. LostInv' /\ TakenInv'
    <2>1. SUFFICES ASSUME NEW t \in Time
                   PROVE  /\ Cardinality(Lost(Day(t))') <= mishaps
                          /\ Cardinality(Taken(Day(t))') <= DailyCap + mishaps
      BY DEF LostInv, TakenInv
    <2>2. /\ Cardinality(Lost(Day(t))') <= Cardinality(Lost(Day(t)))
          /\ Cardinality(Taken(Day(t))') <= Cardinality(Taken(Day(t)))
          /\ IsFiniteSet(Lost(Day(t))') /\ IsFiniteSet(Taken(Day(t))')
      BY <1>3, WTypes, FS_Subset
    <2>3. Cardinality(Lost(Day(t))') \in Nat /\ Cardinality(Taken(Day(t))') \in Nat
      BY <2>2, FS_CardinalityType
    <2>4. QED BY <2>2, <2>3, WTypes DEF WInv, LostInv, TakenInv
  <1>5. QED BY <1>1, <1>2, <1>4 DEF WInv

\* A mishap: one message more may be shown or said again, or is shown by a notification
\* that fails.
LEMMA MishapKeeps ==
  ASSUME TInv, WInv, mishaps' = mishaps + 1, UNCHANGED <<said, posts, untold>>,
         \A k \in Key : shown'[k] = shown[k] \/ (shown'[k] = shown[k] + 1 /\ Owed(k)),
         \A k \in Key : k.kind # "automation" => (Plans(k)' => Plans(k))
  PROVE  WInv'
  <1>1. ShownInv'
    <2>1. SUFFICES ASSUME NEW k \in Key PROVE shown'[k] <= mishaps + 1 + (IF Owed(k)' THEN 0 ELSE 1)
      BY DEF ShownInv
    <2>2. shown[k] <= mishaps + (IF Owed(k) THEN 0 ELSE 1) /\ shown[k] \in Nat /\ mishaps \in Nat
      BY WTypes DEF WInv, ShownInv
    <2>3. shown'[k] = shown[k] \/ (shown'[k] = shown[k] + 1 /\ Owed(k))
      OBVIOUS
    <2>4. shown'[k] <= mishaps + 1
      BY <2>2, <2>3
    <2>5. QED BY <2>2, <2>3, <2>4
  <1>2. SaidInv'
    <2>1. SUFFICES ASSUME NEW k \in Key, k.kind # "automation" PROVE said[k] <= mishaps + 1
      BY WTypes DEF SaidInv
    <2>2. QED BY <2>1, WTypes DEF WInv, SaidInv
  <1>3. ASSUME NEW t \in Time
        PROVE  Lost(Day(t))' \subseteq Lost(Day(t)) \cup {N.key} /\ Taken(Day(t))' \subseteq Taken(Day(t))
    <2>1. Lost(Day(t))' \subseteq Lost(Day(t)) \cup {N.key}
      BY DEF Lost, Settled, Records
    <2>2. Taken(Day(t))' \subseteq Taken(Day(t))
      BY UnaskedFinite DEF Taken
    <2>3. QED BY <2>1, <2>2
  <1>4. LostInv' /\ TakenInv'
    <2>1. SUFFICES ASSUME NEW t \in Time
                   PROVE  /\ Cardinality(Lost(Day(t))') <= mishaps + 1
                          /\ Cardinality(Taken(Day(t))') <= DailyCap + (mishaps + 1)
      BY DEF LostInv, TakenInv
    <2>2. /\ IsFiniteSet(Lost(Day(t)) \cup {N.key})
          /\ Cardinality(Lost(Day(t)) \cup {N.key}) <= Cardinality(Lost(Day(t))) + 1
          /\ Cardinality(Lost(Day(t)) \cup {N.key}) \in Nat
      <3>1. IsFiniteSet(Lost(Day(t))) /\ Cardinality(Lost(Day(t))) \in Nat
        BY WTypes
      <3>2. /\ IsFiniteSet(Lost(Day(t)) \cup {N.key})
            /\ Cardinality(Lost(Day(t)) \cup {N.key}) =
                 IF N.key \in Lost(Day(t)) THEN Cardinality(Lost(Day(t))) ELSE Cardinality(Lost(Day(t))) + 1
        BY <3>1, FS_AddElement
      <3>3. QED BY <3>1, <3>2
    <2>3. /\ IsFiniteSet(Lost(Day(t))') /\ IsFiniteSet(Taken(Day(t))')
          /\ Cardinality(Lost(Day(t))') <= Cardinality(Lost(Day(t)) \cup {N.key})
          /\ Cardinality(Taken(Day(t))') <= Cardinality(Taken(Day(t)))
      BY <1>3, <2>2, WTypes, FS_Subset
    <2>4. Cardinality(Lost(Day(t))') \in Nat /\ Cardinality(Taken(Day(t))') \in Nat
      BY <2>3, FS_CardinalityType
    <2>5. QED BY <2>2, <2>3, <2>4, WTypes DEF WInv, LostInv, TakenInv
  <1>5. QED BY <1>1, <1>2, <1>4 DEF WInv

\* What the notifier plans is what the cap leaves room for.
LEMMA PlanKeeps ==
  ASSUME TInv, WInv, Plan(Notifier)
  PROVE  WInv'
  <1>1. PICK reminders \in SUBSET (ReminderKeys \ posts) :
          \E due \in SUBSET (UnaskedKeys(Day(clock)) \ posts) :
            \E P \in SUBSET due :
              /\ WithinCap(P, due, Day(clock))
              /\ flow' = [flow EXCEPT ![Notifier] = [Resting EXCEPT !.at = "say", !.wrote = TRUE,
                                                                   !.todo = reminders \cup P]]
    BY Zenon DEF Plan
  <1>2. PICK P \in SUBSET UnaskedKeys(Day(clock)) :
          /\ Cardinality(P) <= Room(Day(clock))
          /\ flow' = [flow EXCEPT ![Notifier] = [Resting EXCEPT !.at = "say", !.wrote = TRUE,
                                                               !.todo = reminders \cup P]]
    <2>1. PICK due \in SUBSET (UnaskedKeys(Day(clock)) \ posts) :
            \E P \in SUBSET due :
              /\ WithinCap(P, due, Day(clock))
              /\ flow' = [flow EXCEPT ![Notifier] = [Resting EXCEPT !.at = "say", !.wrote = TRUE,
                                                                   !.todo = reminders \cup P]]
      BY <1>1, Zenon
    <2>2. PICK P \in SUBSET due :
              /\ WithinCap(P, due, Day(clock))
              /\ flow' = [flow EXCEPT ![Notifier] = [Resting EXCEPT !.at = "say", !.wrote = TRUE,
                                                                   !.todo = reminders \cup P]]
      BY <2>1, Zenon
    <2>3. P \in SUBSET UnaskedKeys(Day(clock)) /\ Cardinality(P) <= Room(Day(clock))
      BY <2>2 DEF WithinCap
    <2>4. QED BY <2>2, <2>3, Zenon
  <1>3. N'.at = "say" /\ N'.todo = reminders \cup P
    BY <1>2, NotifierIsAFlow DEF TInv, AutoTypeOK, WritingTypeOK, N, Resting
  <1>4. N.at = "write" /\ UNCHANGED <<said, posts, untold, shown, mishaps>>
    BY Zenon DEF Plan, N
  <1>5. \A k : /\ ~Listed(k) /\ ~Marks(k) /\ ~Records(k) /\ ~Plans(k)
               /\ ~Listed(k)' /\ ~Marks(k)' /\ ~Records(k)' /\ (Plans(k)' <=> k \in reminders \cup P)
    BY <1>3, <1>4 DEF Listed, Marks, Records, Plans
  <1>6. ShownInv' /\ SaidInv' /\ LostInv'
    BY <1>4, <1>5 DEF WInv, ShownInv, SaidInv, LostInv, Lost, Owed, Settled
  <1>7. TakenInv'
    <2>1. SUFFICES ASSUME NEW t \in Time PROVE Cardinality(Taken(Day(t))') <= DailyCap + mishaps
      BY <1>4 DEF TakenInv
    <2>2. Cardinality(Taken(Day(t))) <= DailyCap + mishaps
      BY DEF WInv, TakenInv
    <2>3. reminders \cap UnaskedKeys(Day(t)) = {}
      BY UnaskedFinite DEF ReminderKeys
    <2>4. Taken(Day(t))' = {k \in UnaskedKeys(Day(t)) : said[k] > 0 \/ k \in P}
      BY <1>4, <1>5, <2>3 DEF Taken
    <2>5. Taken(Day(t)) = {k \in UnaskedKeys(Day(t)) : said[k] > 0}
      BY <1>5 DEF Taken
    <2>6. CASE P \cap UnaskedKeys(Day(t)) = {}
      BY <2>2, <2>4, <2>5, <2>6
    <2>7. CASE P \cap UnaskedKeys(Day(t)) # {}
      <3>1. clock \in Time
        BY DEF TInv, AutoTypeOK, WritingTypeOK
      <3>2. Day(t) = Day(clock)
        <4>1. PICK k \in UnaskedKeys(Day(t)) : k \in P
          BY <2>7
        <4>2. k.at = Day(t) /\ k.at = Day(clock)
          BY <3>1, <4>1, UnaskedFinite
        <4>3. QED BY <4>2
      <3> DEFINE D == Day(t)
                 M == posts \cap UnaskedKeys(D)
      <3>3. /\ IsFiniteSet(M) /\ IsFiniteSet(P) /\ IsFiniteSet(Lost(D))
            /\ Cardinality(M) \in Nat /\ Cardinality(P) \in Nat /\ Cardinality(Lost(D)) \in Nat
        BY <3>2, UnaskedFinite, WTypes, FS_Subset, FS_CardinalityType
      <3>4. P # {} => Cardinality(P) # 0
        BY <3>3, FS_EmptySet
      <3>5. Cardinality(M) + Cardinality(P) <= DailyCap
        <4>1. MadeToday(D) = Cardinality(M) /\ DailyCap \in Nat
          BY WTypes DEF MadeToday
        <4>2. Cardinality(P) <= (IF Cardinality(M) < DailyCap THEN DailyCap - Cardinality(M) ELSE 0)
          BY <1>2, <3>2, <4>1 DEF Room
        <4>3. Cardinality(P) # 0
          BY <2>7, <3>4
        <4>4. QED BY <3>3, <4>1, <4>2, <4>3
      <3>6. Taken(D)' \subseteq M \cup P \cup Lost(D)
        BY <1>5, <2>4 DEF Lost, Settled
      <3>7. /\ IsFiniteSet(M \cup P)
            /\ Cardinality(M \cup P) = Cardinality(M) + Cardinality(P) - Cardinality(M \cap P)
        BY <3>3, FS_Union
      <3>8. /\ IsFiniteSet(M \cup P \cup Lost(D))
            /\ Cardinality(M \cup P \cup Lost(D)) =
                 Cardinality(M \cup P) + Cardinality(Lost(D)) - Cardinality((M \cup P) \cap Lost(D))
        BY <3>3, <3>7, FS_Union
      <3>9. Cardinality(M \cap P) \in Nat /\ Cardinality((M \cup P) \cap Lost(D)) \in Nat
        <4>1. IsFiniteSet(M \cap P) /\ IsFiniteSet((M \cup P) \cap Lost(D))
          BY <3>3, FS_Subset
        <4>2. QED BY <4>1, FS_CardinalityType
      <3>10. IsFiniteSet(Taken(D)') /\ Cardinality(Taken(D)') <= Cardinality(M \cup P \cup Lost(D))
        BY <3>6, <3>8, FS_Subset
      <3>11. Cardinality(Lost(D)) <= mishaps /\ mishaps \in Nat /\ DailyCap \in Nat
        BY WTypes DEF WInv, LostInv
      <3>12. Cardinality(Taken(D)') \in Nat /\ Cardinality(M \cup P) \in Nat
             /\ Cardinality(M \cup P \cup Lost(D)) \in Nat
        BY <3>7, <3>8, <3>10, FS_CardinalityType
      <3> HIDE DEF M, D
      <3>13. Cardinality(Taken(D)') <= DailyCap + mishaps
        BY <3>3, <3>5, <3>7, <3>8, <3>9, <3>10, <3>11, <3>12
      <3>14. QED BY <3>13 DEF D
    <2>8. QED BY <2>6, <2>7
  <1>8. QED BY <1>6, <1>7 DEF WInv

\* Steps that say and show nothing, and take the notifier past what it had in hand.
LEMMA StageKeeps ==
  ASSUME TInv, WInv, UNCHANGED <<said, posts, untold, shown, mishaps>>,
         \/ N' = N
         \/ /\ N.at \notin {"mark", "record"} /\ N'.at \notin {"tell", "mark", "say", "add", "record"}
            /\ N'.at = "look" => N'.todo = {} /\ N'.key.kind = "automation"
  PROVE  WInv'
  <1>1. SUFFICES ASSUME NEW k \in Key PROVE Heard(k) /\ Told(k)
    BY HeardAndTold
  <1>2. CASE N' = N
    BY <1>2 DEF Heard, Told, Owed, Settled, Plans, Listed, Marks, Records
  <1>3. CASE /\ N.at \notin {"mark", "record"} /\ N'.at \notin {"tell", "mark", "say", "add", "record"}
             /\ N'.at = "look" => N'.todo = {} /\ N'.key.kind = "automation"
    <2>1. ~Marks(k) /\ ~Records(k) /\ ~Listed(k)' /\ ~Marks(k)'
      BY <1>3 DEF Marks, Records, Listed
    <2>2. k.kind = "automation" \/ ~Plans(k)'
      BY <1>3 DEF Plans
    <2>3. QED BY <2>1, <2>2 DEF Heard, Told, Owed, Settled
  <1>4. QED BY <1>2, <1>3

\* What the notifier does with one message.
LEMMA MessageKeeps ==
  ASSUME TInv, WInv, NEW f \in Flow,
         \/ LookKey(f) \/ AddToChat(f) \/ RecordPost(f) \/ MarkToasted(f) \/ ListUntold(f)
         \/ \E k \in flow[f].todo : Say(f, k) \/ Notify(f, k) \/ NotifyFails(f, k)
  PROVE  WInv'
  <1>1. flow \in [Flow -> Flows] /\ flow[f] \in Flows /\ Fits(f, flow[f], posts, clock)
        /\ Fits(Notifier, N, posts, clock) /\ shown \in [Key -> Nat] /\ said \in [Key -> Nat]
    BY NotifierIsAFlow DEF TInv, FlowsFit, AutoTypeOK, WritingTypeOK, N
  <1>2. ASSUME NEW p, NEW n, NEW o, NEW k, NEW T, NEW b, Moves(f, p, n, o, k, T, b)
        PROVE  IF f = Notifier THEN N'.at = p /\ N'.key = k /\ N'.todo = T ELSE N' = N
    BY <1>1, <1>2, NotifierIsAFlow DEF Moves, N
  <1>3. CASE LookKey(f)
    <2>1. AfterPost(f) \in {"finish", "say"}
      BY DEF AfterPost
    <2>2. flow[f].at = "look" /\ UNCHANGED <<said, posts, untold, shown, mishaps>>
      BY <1>3, Zenon DEF LookKey
    <2>3. CASE f = Notifier
      <3>1. N'.at \in {"finish", "say", "add"} /\ N'.todo = N.todo /\ (N'.at = "add" => N'.key = N.key)
        BY <1>2, <1>3, <2>1, <2>3, WritingMoves DEF N
      <3>2. \A k \in Key : Heard(k) /\ Told(k)
        BY <2>2, <2>3, <3>1 DEF N, Heard, Told, Owed, Settled, Plans, Listed, Marks, Records
      <3>3. QED BY <2>2, <3>2, HeardAndTold
    <2>4. CASE f # Notifier
      <3>1. N' = N
        BY <1>2, <1>3, <2>4, WritingMoves
      <3>2. QED BY <2>2, <3>1, StageKeeps
    <2>5. QED BY <2>3, <2>4
  <1>4. CASE AddToChat(f)
    <2> DEFINE j == flow[f].key
    <2>1. flow[f].at = "add" /\ said' = [said EXCEPT ![j] = @ + 1] /\ UNCHANGED <<posts, untold, shown, mishaps>>
      BY <1>4, Zenon DEF AddToChat
    <2>2. j \in Key
      BY <1>1, <2>1 DEF Fits
    <2>3. said'[j] = said[j] + 1 /\ \A k \in Key \ {j} : said'[k] = said[k]
      BY <1>1, <2>1, <2>2
    <2>4. CASE f = Notifier
      <3>1. N.at = "add" /\ N'.at = "record" /\ N'.todo = N.todo /\ N'.key = N.key /\ N.key = j
        BY <1>2, <1>4, <2>1, <2>4, WritingMoves DEF N
      <3>2. ASSUME NEW k \in Key PROVE Heard(k)
        BY <2>1, <3>1 DEF Heard, Owed, Listed, Marks
      <3>3. ASSUME NEW k \in Key PROVE Told(k)
        <4>1. CASE k = j
          <5>1. k.kind = "automation" \/ k \notin posts
            BY <1>1, <3>1, <4>1 DEF Fits
          <5>2. QED BY <2>1, <2>3, <3>1, <4>1, <5>1 DEF Told, Settled, Plans, Records
        <4>2. CASE k # j
          BY <2>1, <2>3, <3>1, <4>2 DEF Told, Settled, Plans, Records
        <4>3. QED BY <4>1, <4>2
      <3>4. QED BY <2>1, <3>2, <3>3, HeardAndTold
    <2>5. CASE f # Notifier
      <3>1. N' = N /\ j.kind = "automation"
        BY <1>1, <1>2, <1>4, <2>1, <2>5, WritingMoves DEF Fits
      <3>2. \A k \in Key : Heard(k) /\ Told(k)
        BY <2>1, <2>3, <3>1 DEF Heard, Told, Owed, Settled, Plans, Listed, Marks, Records
      <3>3. QED BY <2>1, <3>2, HeardAndTold
    <2>6. QED BY <2>4, <2>5
  <1>5. CASE RecordPost(f)
    <2> DEFINE j == flow[f].key
    <2>1. /\ flow[f].at = "record" /\ posts' = posts \cup {j} /\ UNCHANGED <<said, shown, mishaps>>
          /\ untold' = untold \/ (j \notin posts /\ untold' = untold \cup {j})
      BY <1>5 DEF RecordPost, Record
    <2>2. AfterPost(f) \in {"finish", "say"}
      BY DEF AfterPost
    <2>3. CASE f = Notifier
      <3>1. N.at = "record" /\ N'.at \in {"finish", "say"} /\ N'.todo = N.todo /\ N.key = j
        BY <1>2, <1>5, <2>1, <2>2, <2>3, WritingMoves DEF N
      <3>2. ASSUME NEW k \in Key PROVE Heard(k) /\ Told(k)
        BY <2>1, <3>1 DEF Heard, Told, Owed, Settled, Plans, Listed, Marks, Records
      <3>3. QED BY <2>1, <3>2, HeardAndTold
    <2>4. CASE f # Notifier
      <3>1. N' = N
        BY <1>2, <1>5, <2>4, WritingMoves
      <3>2. \A k : Marks(k) => k \in posts
        BY <1>1 DEF Fits, Marks
      <3>3. ASSUME NEW k \in Key PROVE Heard(k) /\ Told(k)
        BY <2>1, <3>1, <3>2 DEF Heard, Told, Owed, Settled, Plans, Listed, Marks, Records
      <3>4. QED BY <2>1, <3>3, HeardAndTold
    <2>5. QED BY <2>3, <2>4
  <1>6. CASE MarkToasted(f)
    <2>1. flow[f].at = "mark" /\ untold' = untold \ {flow[f].key} /\ UNCHANGED <<said, posts, shown, mishaps>>
      BY <1>6, Zenon DEF MarkToasted
    <2>2. f = Notifier
      BY <1>1, <2>1 DEF Fits
    <2>3. N.at = "mark" /\ N'.at = "tell" /\ N'.todo = N.todo /\ flow[f].key = N.key
      BY <1>2, <1>6, <2>1, <2>2, WritingMoves DEF N
    <2>4. N.key \in posts /\ N.key \notin N.todo
      BY <1>1, <2>3 DEF Fits
    <2>5. ASSUME NEW k \in Key PROVE Heard(k)
      <3>1. shown'[k] = shown[k] /\ (Listed(k) <=> k \in N.todo) /\ (Listed(k)' <=> k \in N.todo) /\ ~Marks(k)'
            /\ (Marks(k) <=> k = N.key)
        BY <2>1, <2>3 DEF Listed, Marks
      <3>2. Owed(k)' => Owed(k)
        <4>1. CASE k = N.key
          BY <2>1, <2>3, <2>4, <3>1, <4>1 DEF Owed
        <4>2. CASE k # N.key
          BY <2>1, <2>3, <3>1, <4>2 DEF Owed
        <4>3. QED BY <4>1, <4>2
      <3>3. QED BY <3>1, <3>2 DEF Heard
    <2>6. \A k \in Key : Told(k)
      BY <2>1, <2>3 DEF Told, Settled, Plans, Records
    <2>7. QED BY <2>1, <2>5, <2>6, HeardAndTold
  <1>7. CASE ListUntold(f)
    <2>1. flow[f].at \in {"list", "say"} /\ UNCHANGED <<said, posts, untold, shown, mishaps>>
      BY <1>7, Zenon DEF ListUntold
    <2>2. f = Notifier
      BY <1>1, <2>1 DEF Fits
    <2>3. PICK T \in SUBSET untold : Moves(f, "tell", flow[f].now, flow[f].of, flow[f].key, T, flow[f].wrote)
      BY <1>7, OtherMoves
    <2>4. N.at \in {"list", "say"} /\ N'.at = "tell" /\ N'.todo = T
      BY <1>2, <2>1, <2>2, <2>3 DEF N
    <2>5. ASSUME NEW k \in Key PROVE Heard(k)
      <3>1. shown'[k] = shown[k] /\ ~Marks(k) /\ ~Marks(k)' /\ (Listed(k)' => k \in untold)
        BY <2>1, <2>4 DEF Listed, Marks
      <3>2. QED BY <2>1, <3>1 DEF Heard, Owed
    <2>6. \A k \in Key : Told(k)
      BY <2>1, <2>4 DEF Told, Settled, Plans, Records
    <2>7. QED BY <2>1, <2>5, <2>6, HeardAndTold
  <1>8. ASSUME NEW j \in flow[f].todo, Say(f, j) PROVE WInv'
    <2>1. flow[f].at = "say" /\ UNCHANGED <<said, posts, untold, shown, mishaps>>
      BY <1>8, Zenon DEF Say
    <2>2. f = Notifier
      BY <1>1, <2>1 DEF Fits
    <2>3. N.at = "say" /\ N'.at = "look" /\ N'.todo = N.todo \ {j} /\ N'.key = j /\ j \in N.todo
      <3>1. Moves(f, "look", flow[f].now, flow[f].of, j, flow[f].todo \ {j}, flow[f].wrote)
        BY <1>8, <2>1, WritingMoves
      <3>2. QED BY <1>2, <2>1, <2>2, <3>1 DEF N
    <2>4. \A k \in Key : Heard(k) /\ Told(k)
      BY <2>1, <2>3 DEF Heard, Told, Owed, Settled, Plans, Listed, Marks, Records
    <2>5. QED BY <2>1, <2>4, HeardAndTold
  <1>9. ASSUME NEW j \in flow[f].todo, Notify(f, j) PROVE WInv'
    <2>1. flow[f].at = "tell" /\ shown' = [shown EXCEPT ![j] = @ + 1] /\ UNCHANGED <<said, posts, untold, mishaps>>
      BY <1>9, Zenon DEF Notify
    <2>2. f = Notifier /\ j \in Key
      BY <1>1, <2>1 DEF Fits, Flows
    <2>3. N.at = "tell" /\ N'.at = "mark" /\ N'.todo = N.todo \ {j} /\ N'.key = j /\ j \in N.todo
      <3>1. Moves(f, "mark", flow[f].now, flow[f].of, j, flow[f].todo \ {j}, flow[f].wrote)
        BY <1>9, <2>1, WritingMoves
      <3>2. QED BY <1>2, <2>1, <2>2, <3>1 DEF N
    <2>4. shown'[j] = shown[j] + 1 /\ \A k \in Key \ {j} : shown'[k] = shown[k]
      BY <1>1, <2>1, <2>2
    <2>5. ASSUME NEW k \in Key PROVE Heard(k)
      <3>1. CASE k = j
        BY <2>3, <2>4, <3>1 DEF Heard, Owed, Listed, Marks
      <3>2. CASE k # j
        BY <2>1, <2>3, <2>4, <3>2 DEF Heard, Owed, Listed, Marks
      <3>3. QED BY <3>1, <3>2
    <2>6. \A k \in Key : Told(k)
      BY <2>1, <2>3 DEF Told, Settled, Plans, Records
    <2>7. QED BY <2>1, <2>5, <2>6, HeardAndTold
  <1>10. ASSUME NEW j \in flow[f].todo, NotifyFails(f, j) PROVE WInv'
    <2>1. /\ flow[f].at = "tell" /\ UNCHANGED <<said, posts, untold>>
          /\ \/ shown' = shown /\ mishaps' = mishaps
             \/ shown' = [shown EXCEPT ![j] = @ + 1] /\ mishaps' = mishaps + 1
      BY <1>10, Zenon DEF NotifyFails
    <2>2. f = Notifier /\ j \in Key
      BY <1>1, <2>1 DEF Fits, Flows
    <2>3. N.at = "tell" /\ N'.at = "tell" /\ N'.todo = N.todo \ {j} /\ j \in N.todo
      <3>1. Moves(f, "tell", flow[f].now, flow[f].of, flow[f].key, flow[f].todo \ {j}, flow[f].wrote)
        BY <1>10, <2>1, WritingMoves
      <3>2. QED BY <1>2, <2>1, <2>2, <3>1 DEF N
    <2>4. CASE shown' = shown /\ mishaps' = mishaps
      <3>1. \A k \in Key : Heard(k) /\ Told(k)
        BY <2>1, <2>3, <2>4 DEF Heard, Told, Owed, Settled, Plans, Listed, Marks, Records
      <3>2. QED BY <2>4, <3>1, HeardAndTold
    <2>5. CASE shown' = [shown EXCEPT ![j] = @ + 1] /\ mishaps' = mishaps + 1
      <3>1. Owed(j)
        BY <2>3 DEF Owed, Listed, Marks
      <3>2. \A k \in Key : shown'[k] = shown[k] \/ (shown'[k] = shown[k] + 1 /\ Owed(k))
        BY <1>1, <2>5, <3>1
      <3>3. \A k : ~Plans(k)'
        BY <2>3 DEF Plans
      <3>4. QED BY <2>1, <2>5, <3>2, <3>3, MishapKeeps
    <2>6. QED BY <2>1, <2>4, <2>5
  <1>11. QED BY <1>3, <1>4, <1>5, <1>6, <1>7, <1>8, <1>9, <1>10

\* Where the notifier is after a step that is not about a message.
LEMMA StoppingPlaces ==
  ASSUME TInv, NEW f \in Flow,
         \/ flow' = [flow EXCEPT ![f] = Resting]
         \/ flow' = [flow EXCEPT ![f] = [Resting EXCEPT !.at = "write"]] /\ f = Notifier
         \/ flow' = [flow EXCEPT ![f] = [Resting EXCEPT !.at = "list"]] /\ f = Notifier
         \/ /\ f = Notifier /\ flow[f].at \in {"look", "add", "record"}
            /\ flow' = [flow EXCEPT ![f] = [flow[f] EXCEPT !.at = "finish", !.key = None]]
  PROVE  IF f = Notifier THEN N'.at \in {"idle", "write", "list", "finish"} ELSE N' = N
  <1>1. flow \in [Flow -> Flows] /\ flow[f] \in Flows
    BY DEF TInv, AutoTypeOK, WritingTypeOK
  <1>2. /\ Resting.at = "idle" /\ [Resting EXCEPT !.at = "write"].at = "write"
        /\ [Resting EXCEPT !.at = "list"].at = "list"
    BY DEF Resting
  <1>3. [flow[f] EXCEPT !.at = "finish", !.key = None].at = "finish"
    BY <1>1 DEF Flows
  <1>4. QED BY <1>1, <1>2, <1>3, NotifierIsAFlow DEF N

LEMMA WInvInductive ==
  ASSUME TInv, WInv, [AutoNext]_autoVars
  PROVE  WInv'
  <1>1. flow \in [Flow -> Flows] /\ \A f \in Flow : Fits(f, flow[f], posts, clock)
    BY DEF TInv, FlowsFit, AutoTypeOK, WritingTypeOK
  <1>2. ASSUME NEW f \in Flow, StoreFails(f) \/ Dies(f) PROVE WInv'
    <2>1. mishaps' = mishaps + 1 /\ UNCHANGED <<said, posts, untold, shown>>
      BY <1>2, Zenon DEF StoreFails, Dies
    <2>2. IF f = Notifier THEN N'.at \in {"idle", "write", "list", "finish"} ELSE N' = N
      BY <1>2, StoppingMoves, StoppingPlaces
    <2>3. \A k : Plans(k)' => Plans(k)
      BY <2>2 DEF Plans
    <2>4. QED BY <2>1, <2>3, MishapKeeps
  <1>3. ASSUME NEW f \in Flow, AllTold(f) PROVE WInv'
    <2>1. flow[f].at = "tell" /\ UNCHANGED <<said, posts, untold, shown, mishaps>>
      BY <1>3, Zenon DEF AllTold
    <2>2. f = Notifier
      BY <1>1, <2>1 DEF Fits
    <2>3. N'.at \in {"idle", "write", "list", "finish"} /\ N.at = "tell"
      BY <1>3, <2>1, <2>2, StoppingMoves, StoppingPlaces DEF N
    <2>4. QED BY <2>1, <2>3, StageKeeps
  <1>4. ASSUME NEW f \in Flow, WritingStep(f) PROVE WInv'
    <2>1. Plan(f) => f = Notifier
      BY DEF Plan
    <2>2. QED BY <1>2, <1>3, <1>4, <2>1, MessageKeeps, PlanKeeps, Zenon DEF WritingStep
  <1>5. ASSUME NEW j \in untold, MarkSeen(j) PROVE WInv'
    <2>1. untold' = untold \ {j} /\ UNCHANGED <<said, posts, shown, flow, mishaps>>
      BY <1>5, Zenon DEF MarkSeen
    <2>2. \A k \in Key : Heard(k) /\ Told(k)
      BY <2>1 DEF Heard, Told, Owed, Settled, Plans, Listed, Marks, Records, N
    <2>3. QED BY <2>1, <2>2, HeardAndTold
  <1>6. CASE WritingTick
    BY <1>6, StageKeeps DEF WritingTick, N
  <1>7. CASE Posting
    BY <1>2, <1>4, <1>5, <1>6, <1>7, Zenon DEF Posting, World
  <1>8. CASE PassStep \/ RunStep \/ Owner \/ UNCHANGED autoVars
    <2>1. UNCHANGED <<said, posts, untold, shown, mishaps>>
      BY <1>8, Zenon DEF PassStep, RunStep, Owner, autoVars, PassBegins, FindsNoneDue, CannotClaim, FindsDue,
                         Claim, Answers, HasNothingToSay, Finish, Pause, Delete, CreateLooks,
                         CreateInserts, RunByHand, ResumeLooks, ResumeWrites, ResumeFindsNone
    <2>2. CASE flow' = flow
      BY <2>1, <2>2, StageKeeps DEF N
    <2>3. ASSUME NEW f \in Flow, NEW p \in {"create", "resume", "run", "look", "finish", "due", "write", "agent"},
                 NEW n, NEW o, NEW k, NEW T, NEW b, Moves(f, p, n, o, k, T, b),
                 f = Notifier => N.at \in {"idle", "due", "agent", "run"},
                 p = "look" => T = {} /\ k.kind = "automation"
          PROVE  WInv'
      <3>1. IF f = Notifier THEN N'.at = p /\ N'.key = k /\ N'.todo = T ELSE N' = N
        BY <1>1, <2>3, NotifierIsAFlow DEF Moves, N
      <3>2. QED BY <2>1, <2>3, <3>1, StageKeeps
    <2>4. ASSUME NEW f \in Flow, f = Notifier => N.at \in {"finish", "agent"},
                 \/ flow' = [flow EXCEPT ![f] = Resting]
                 \/ flow' = [flow EXCEPT ![f] = [Resting EXCEPT !.at = "write"]] /\ f = Notifier
                 \/ flow' = [flow EXCEPT ![f] = [Resting EXCEPT !.at = "list"]] /\ f = Notifier
          PROVE  WInv'
      <3>1. IF f = Notifier THEN N'.at \in {"idle", "write", "list", "finish"} ELSE N' = N
        BY <2>4, StoppingPlaces
      <3>2. QED BY <2>1, <2>4, <3>1, StageKeeps
    <2>5. ASSUME NEW f \in Flow, Finish(f) PROVE WInv'
      <3>1. flow[f].at = "finish"
        BY <2>5, Zenon DEF Finish
      <3>2. QED BY <2>4, <2>5, <3>1, StoppingMoves DEF N
    <2>6. ASSUME NEW f \in Flow,
                 ResumeFindsNone(f) \/ \E a \in Automation : CreateInserts(f, a) \/ ResumeWrites(f, a)
          PROVE  WInv'
      <3>1. f # Notifier
        BY <1>1, <2>6 DEF CreateInserts, ResumeWrites, ResumeFindsNone, Fits
      <3>2. QED BY <2>4, <2>6, <3>1, StoppingMoves
    <2>7. ASSUME CannotClaim PROVE WInv'
      <3>1. N.at = "agent"
        BY <2>7, Zenon DEF CannotClaim, N
      <3>2. QED BY <2>4, <2>7, <3>1, StoppingMoves, NotifierIsAFlow
    <2>8. ASSUME NEW f \in Flow, Answers(f) PROVE WInv'
      <3>1. flow[f].at = "run" /\ flow[f].todo = {} /\ Answer(flow[f].of, flow[f].now).kind = "automation"
        BY <1>1, <2>8 DEF Answers, Fits, Answer
      <3>2. Moves(f, "look", 0, flow[f].of, Answer(flow[f].of, flow[f].now), flow[f].todo, flow[f].wrote)
        BY <2>8, OtherMoves
      <3>3. QED BY <2>3, <3>1, <3>2 DEF N
    <2>9. ASSUME NEW f \in Flow, HasNothingToSay(f) PROVE WInv'
      <3>1. flow[f].at = "run" /\ Moves(f, "finish", 0, flow[f].of, flow[f].key, flow[f].todo, flow[f].wrote)
        BY <2>9, OtherMoves DEF HasNothingToSay
      <3>2. QED BY <2>3, <3>1 DEF N
    <2>10. ASSUME NEW f \in Flow, CreateLooks(f) PROVE WInv'
      <3>1. f # Notifier /\ Moves(f, "create", clock, flow[f].of, flow[f].key, flow[f].todo, flow[f].wrote)
        BY <2>10, OtherMoves DEF CreateLooks
      <3>2. QED BY <2>3, <3>1
    <2>11. ASSUME NEW f \in Flow, NEW a \in Automation, RunByHand(f, a) PROVE WInv'
      <3>1. f # Notifier /\ Moves(f, "run", clock, a, None, {}, FALSE)
        BY <2>11, OtherMoves DEF RunByHand
      <3>2. QED BY <2>3, <3>1
    <2>12. ASSUME PassBegins PROVE WInv'
      <3>1. N.at = "idle" /\ Moves(Notifier, "due", clock, None, None, {}, FALSE)
        BY <2>12, OtherMoves, NotifierIsAFlow DEF PassBegins, N
      <3>2. QED BY <2>3, <3>1, NotifierIsAFlow
    <2>13. ASSUME FindsNoneDue PROVE WInv'
      <3>1. N.at = "due" /\ Moves(Notifier, "write", 0, None, None, {}, FALSE)
        BY <2>13, OtherMoves, NotifierIsAFlow DEF FindsNoneDue, N
      <3>2. QED BY <2>3, <3>1, NotifierIsAFlow
    <2>14. ASSUME NEW a \in Automation, FindsDue(a) PROVE WInv'
      <3>1. N.at = "due"
        BY <2>14, Zenon DEF FindsDue, N
      <3>2. Moves(Notifier, "agent", N.now, a, N.key, N.todo, N.wrote)
        BY <2>14, OtherMoves, NotifierIsAFlow DEF N
      <3>3. QED BY <2>3, <3>1, <3>2, NotifierIsAFlow
    <2>15. ASSUME NEW a \in Automation, Claim(a) PROVE WInv'
      <3>1. N.at = "agent"
        BY <2>15, Zenon DEF Claim, N
      <3>2. Moves(Notifier, "run", N.now, N.of, N.key, N.todo, N.wrote)
        BY <2>15, OtherMoves, NotifierIsAFlow DEF N
      <3>3. QED BY <2>3, <3>1, <3>2, NotifierIsAFlow
    <2>16. \A a \in Automation : Pause(a) \/ Delete(a) => flow' = flow
      BY Zenon DEF Pause, Delete
    <2>17. UNCHANGED autoVars => flow' = flow
      BY DEF autoVars
    <2>18. ASSUME NEW f \in Flow, NEW a \in Automation, ResumeLooks(f, a) PROVE WInv'
      <3>1. f # Notifier /\ Moves(f, "resume", clock, a, flow[f].key, flow[f].todo, flow[f].wrote)
        BY <2>18, OtherMoves DEF ResumeLooks
      <3>2. QED BY <2>3, <3>1
    <2>19. QED
      BY <1>8, <2>2, <2>5, <2>6, <2>7, <2>8, <2>9, <2>10, <2>11, <2>12, <2>13, <2>14, <2>15, <2>16, <2>17, <2>18, Zenon
         DEF PassStep, RunStep, Owner
  <1>9. QED BY <1>7, <1>8, Zenon DEF AutoNext

LEMMA WInvInit == ASSUME AutoInit PROVE WInv
  <1>1. N.at = "idle"
    BY NotifierIsAFlow DEF AutoInit, WritingInit, N, Resting
  <1>2. said = [k \in Key |-> 0] /\ shown = [k \in Key |-> 0] /\ mishaps = 0 /\ DailyCap \in Nat
    BY WritingLimits DEF AutoInit, WritingInit
  <1>3. ShownInv /\ SaidInv
    BY <1>2 DEF ShownInv, SaidInv
  <1>4. ASSUME NEW t \in Time PROVE Lost(Day(t)) = {} /\ Taken(Day(t)) = {}
    BY <1>1, <1>2, UnaskedFinite DEF Lost, Taken, Plans
  <1>5. LostInv /\ TakenInv
    BY <1>2, <1>4, FS_EmptySet DEF LostInv, TakenInv
  <1>6. QED BY <1>3, <1>5 DEF WInv

LEMMA WInvImplies == ASSUME TInv, WInv PROVE NoNagging
  <1>1. \A k \in Key : shown[k] <= 1 + mishaps
    BY WTypes DEF WInv, ShownInv
  <1>2. \A k \in Key : k.kind # "automation" => said[k] <= 1 + mishaps
    BY WTypes DEF WInv, SaidInv
  <1>3. ASSUME NEW t \in Time
        PROVE  Cardinality({k \in UnaskedKeys(Day(t)) : said[k] > 0}) <= DailyCap + mishaps
    <2> DEFINE S == {k \in UnaskedKeys(Day(t)) : said[k] > 0}
    <2>1. S \in SUBSET Taken(Day(t))
      BY DEF Taken
    <2>2. IsFiniteSet(S) /\ Cardinality(S) <= Cardinality(Taken(Day(t)))
      BY <2>1, WTypes, FS_Subset
    <2>3. Cardinality(S) \in Nat
      BY <2>2, FS_CardinalityType
    <2>4. Cardinality(Taken(Day(t))) <= DailyCap + mishaps
      BY DEF WInv, TakenInv
    <2> HIDE DEF S
    <2>5. Cardinality(S) <= DailyCap + mishaps
      BY <2>2, <2>3, <2>4, WTypes
    <2>6. QED BY <2>5 DEF S
  <1>4. QED BY <1>1, <1>2, <1>3 DEF NoNagging

\* She does not nag: for any reminders, kinds, days and limits, every message of her own is
\* said once and shown once and the day's cap holds, but for the mishaps (Proactive.plan,
\* _post, tell_proactive).
THEOREM SheDoesNotNag == AutoSpec => []NoNagging
  <1>1. AutoSpec => [](TInv /\ WInv)
    BY TInvInit, TInvInductive, WInvInit, WInvInductive, PTL DEF AutoSpec
  <1>2. QED BY <1>1, WInvImplies, PTL
===============================================================================
