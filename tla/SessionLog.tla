------------------------------ MODULE SessionLog -------------------------------
(* A session is its log: the inbox, the turn and step that are open, what became *)
(* of each message and which tool calls are unanswered are folds of its events    *)
(* (agent-loop/inbox.ts, session/repair.ts, agent/consumed-work.ts). This module   *)
(* is that fold and what is computed from it; it has no state of its own.          *)
(* Abstracted: sequence numbers, times, contents, every event no fold here reads.  *)
EXTENDS Integers, FiniteSets, Sequences, SequencesExt

CONSTANTS Msgs          \* user messages, by identity

Target == {"nextTurn", "nextStep"}
\* claimed: taken out of the inbox by a turn that is open. reported: cancelled, or
\* claimed by a turn whose end says what became of it. spent: claimed by a turn that
\* completed without it. stray: entered the conversation without having been claimed.
Fate == {"none", "claimed", "admitted", "reported", "spent", "stray"}

\* What an answer says of its call.
Answer == {"ran", "neverRan", "unknown"}

EmptyLog == [nextTurn |-> <<>>, nextStep |-> <<>>, fate |-> [m \in Msgs |-> "none"],
             open |-> "none", ask |-> 0, asked |-> 0, called |-> {}, pending |-> {}, results |-> <<>>]

\* The events.
Splice(target, start, removed, inserted, outcome) ==
  [type |-> "agent/inbox/spliced", target |-> target, start |-> start,
   removed |-> removed, inserted |-> inserted, outcome |-> outcome]
TurnStart == [type |-> "turn/start"]
TurnEnd(reason) == [type |-> "turn/end", reason |-> reason]
StepStart == [type |-> "step/start"]
StepEnd == [type |-> "step/end"]
UserMessage(m) == [type |-> "user/message", message |-> m]
Asks(ask, n) == [type |-> "assistant/message", ask |-> ask, calls |-> n]
ToolCall(i) == [type |-> "tool/call", callId |-> i]
ToolResult(i, answer) == [type |-> "tool/result", callId |-> i, answer |-> answer]

\* A turn that ends completed does not account for what it claimed and did not admit.
AccountsForClaim(reason) == reason \notin {"completed", "maxTokens"}

Spliced(l, e) ==
  LET box  == l[e.target]
      gone == ToSet(SubSeq(box, e.start + 1, e.start + e.removed))
  IN [l EXCEPT ![e.target] = SubSeq(box, 1, e.start) \o e.inserted
                             \o SubSeq(box, e.start + e.removed + 1, Len(box)),
               !.fate = [m \in Msgs |-> IF m \in gone THEN e.outcome ELSE @[m]]]

Ended(l, e) ==
  [l EXCEPT !.open = "none", !.pending = {},
            !.fate = [m \in Msgs |-> IF @[m] # "claimed" THEN @[m]
                                     ELSE IF AccountsForClaim(e.reason) THEN "reported" ELSE "spent"]]

\* The calls of the last step are of no use once the next one, or a turn, opens.
Uncalled(l) == [l EXCEPT !.asked = 0, !.called = {}, !.pending = {}, !.results = <<>>]

Apply(l, e) ==
  CASE e.type = "agent/inbox/spliced" -> Spliced(l, e)
    [] e.type = "turn/start"   -> [Uncalled(l) EXCEPT !.open = "turn"]
    [] e.type = "turn/end"     -> Ended(l, e)
    [] e.type = "step/start"   -> [Uncalled(l) EXCEPT !.open = "step"]
    [] e.type = "step/end"     -> [l EXCEPT !.open = "turn", !.pending = {}]
    [] e.type = "user/message" -> [l EXCEPT !.fate[e.message] =
                                     IF @ = "claimed" THEN "admitted" ELSE "stray"]
    [] e.type = "assistant/message" -> [l EXCEPT !.ask = e.ask, !.asked = e.calls, !.called = {},
                                          !.pending = 1..e.calls, !.results = <<>>]
    [] e.type = "tool/call"    -> [l EXCEPT !.called = @ \cup {e.callId}]
    [] e.type = "tool/result"  -> [l EXCEPT !.pending = @ \ {e.callId},
                                     !.results = Append(@, [callId |-> e.callId, answer |-> e.answer])]

\* The log after the first k events, for every k; and after all of them.
After(l, events) ==
  LET after[k \in 0..Len(events)] == IF k = 0 THEN l ELSE Apply(after[k - 1], events[k])
  IN after
Fold(l, events) == After(l, events)[Len(events)]

-------------------------------------------------------------------------------
Pending(l) == ToSet(l.nextTurn) \cup ToSet(l.nextStep)
Known(l) == Pending(l) \cup {m \in Msgs : l.fate[m] # "none"}

\* clear: both lists are cancelled, next-step first.
Clear(l) == LET emptied(target) == IF l[target] = <<>> THEN <<>>
                                   ELSE <<Splice(target, 0, Len(l[target]), <<>>, "reported")>>
            IN emptied("nextStep") \o emptied("nextTurn")

\* claim: all of next-step, and with target "nextTurn" also the oldest queued turn.
ClaimedByBroken(l, target) == l.nextStep
ClaimedBy(l, target) == l.nextStep \o (IF target # "nextTurn" \/ l.nextTurn = <<>> THEN <<>>
                                       ELSE <<Head(l.nextTurn)>>)
Claim(l, target) ==
  (IF l.nextStep = <<>> THEN <<>> ELSE <<Splice("nextStep", 0, Len(l.nextStep), <<>>, "claimed")>>)
  \o (IF target # "nextTurn" \/ l.nextTurn = <<>> THEN <<>>
      ELSE <<Splice("nextTurn", 0, 1, <<>>, "claimed")>>)

\* remove: a pending message is cancelled where it stands.
Removal(l, m) ==
  LET target == IF m \in ToSet(l.nextTurn) THEN "nextTurn" ELSE "nextStep"
      place  == CHOOSE i \in DOMAIN l[target] : l[target][i] = m
  IN <<Splice(target, place - 1, 1, <<>>, "reported")>>

\* The answers the step owes when it fails or was cut off, in the assistant's order.
RecoveryAnswerBroken(l, i) == "neverRan"
RecoveryAnswer(l, i) == IF i \in l.called THEN "unknown" ELSE "neverRan"
Unanswered(l, k) == CHOOSE i \in l.pending : Cardinality({j \in l.pending : j <= i}) = k
RecoveryResults(l) ==
  [k \in 1..Cardinality(l.pending) |->
     ToolResult(Unanswered(l, k), RecoveryAnswer(l, Unanswered(l, k)))]

\* interruptedTurnClosers: what balances a log whose last turn was cut off.
ClosersBroken(l) == IF l.open = "none" THEN <<>>
                    ELSE (IF l.open = "step" THEN <<StepEnd>> ELSE <<>>) \o <<TurnEnd("interrupted")>>
Closers(l) == IF l.open = "none" THEN <<>>
              ELSE RecoveryResults(l) \o (IF l.open = "step" THEN <<StepEnd>> ELSE <<>>)
                   \o <<TurnEnd("interrupted")>>
===============================================================================
