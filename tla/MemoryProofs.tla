------------------------------ MODULE MemoryProofs ------------------------------
(* Proofs about Memory, for any words, flows, room, lines and rows.             *)
EXTENDS Memory, FiniteSetTheorems, TLAPS

LEMMA BlankTypes == Blank \in Lines /\ Resting \in Work /\ NoFact \in FactRow
  BY DEF Blank, Lines, Resting, Work, NoFact, FactRow

LEMMA FactsAreFinite == IsFiniteSet(Fact)
  BY FS_Interval, MemoryAssumption DEF Fact

(* Types, one kind of step at a time.                                           *)

\* What the steps write into a row of the table, and into what a flow holds.
LEMMA RowTypes ==
  ASSUME NEW r \in FactRow
  PROVE  /\ \A st \in {"candidate", "accepted", "rejected", "retired"} : [r EXCEPT !.status = st] \in FactRow
         /\ \A n \in Fact : [r EXCEPT !.status = "retired", !.by = @ \cup {n}] \in FactRow
         /\ \A w \in Word : [r EXCEPT !.words = w] \in FactRow
         /\ \A s \in Line, w \in Word \cup {Gone, None} :
              [NoFact EXCEPT !.status = "candidate", !.line = s, !.words = w] \in FactRow
         /\ \A w \in Word : [NoFact EXCEPT !.status = "accepted", !.words = w] \in FactRow
  BY DEF FactRow, NoFact

LEMMA WorkTypes ==
  ASSUME NEW r \in Work
  PROVE  /\ \A n \in Fact : [r EXCEPT !.pc = "twin", !.it = n] \in Work
         /\ \A n : [r EXCEPT !.todo = @ \ {n}] \in Work
         /\ \A n : [r EXCEPT !.todo = @ \ {n}, !.pc = "lanes", !.it = 0] \in Work
         /\ \A l \in Lines : [r EXCEPT !.pc = "write", !.lines = l] \in Work
         /\ \A l \in Lines : [r EXCEPT !.lines = l] \in Work
  BY DEF Work

\* A status that changes, and nothing else of the fact.
LEMMA StatusTypes ==
  ASSUME NEW f \in Fact, NEW st \in {"candidate", "accepted", "rejected", "retired"},
         fact \in [Fact -> FactRow], Becomes(f, st)
  PROVE  fact' \in [Fact -> FactRow]
  <1>1. fact' = [fact EXCEPT ![f] = [fact[f] EXCEPT !.status = st]]
    BY DEF Becomes
  <1> QED BY <1>1, RowTypes

LEMMA TakeTypes ==
  ASSUME MemoryTypeOK, NEW p \in Flow, TakeBegin(p) \/ TakeOne(p) \/ TakeEnd(p)
  PROVE  MemoryTypeOK'
  <1> USE DEF MemoryTypeOK, history
  <1>1. CASE TakeBegin(p)
    BY <1>1, BlankTypes DEF TakeBegin, Work, Resting
  <1>2. CASE TakeOne(p)
    <2>1. PICK s \in ToTake(p) :
            /\ flow' = [flow EXCEPT ![p].lines[s] = None]
            /\ \/ Recorded(s) /\ UNCHANGED <<fact, from>>
               \/ \E f \in Fact :
                    /\ fact' = [fact EXCEPT ![f] = [NoFact EXCEPT !.status = "candidate", !.line = s,
                                                                  !.words = flow[p].lines[s]]]
                    /\ from' = [from EXCEPT ![f] = s]
            /\ UNCHANGED <<file, asked, said, purged, forgotten, exposed, struck>>
      BY <1>2, Zenon DEF TakeOne
    <2>2. s \in Line /\ flow[p] \in Work /\ flow[p].lines \in Lines
      BY <2>1 DEF ToTake, Work
    <2>3. [flow[p].lines EXCEPT ![s] = None] \in Lines
      BY <2>2 DEF Lines
    <2>4. flow' \in [Flow -> Work]
      BY <2>1, <2>2, <2>3 DEF Work
    <2>5. flow[p].lines[s] \in Word \cup {Gone, None}
      BY <2>2 DEF Lines
    <2>6. fact' \in [Fact -> FactRow] /\ from' \in [Fact -> Line \cup {0}]
      <3>1. CASE UNCHANGED <<fact, from>>
        BY <3>1
      <3>2. CASE \E f \in Fact :
                   /\ fact' = [fact EXCEPT ![f] = [NoFact EXCEPT !.status = "candidate", !.line = s,
                                                                 !.words = flow[p].lines[s]]]
                   /\ from' = [from EXCEPT ![f] = s]
        <4> DEFINE new == [NoFact EXCEPT !.status = "candidate", !.line = s, !.words = flow[p].lines[s]]
        <4>1. new \in FactRow
          BY <2>2, <2>5, RowTypes, BlankTypes
        <4>2. \E f \in Fact : fact' = [fact EXCEPT ![f] = new] /\ from' = [from EXCEPT ![f] = s]
          BY <3>2
        <4> HIDE DEF new
        <4> QED BY <4>1, <4>2, <2>2
      <3> QED BY <2>1, <3>1, <3>2
    <2> QED BY <2>1, <2>4, <2>6
  <1>3. CASE TakeEnd(p)
    BY <1>3, BlankTypes DEF TakeEnd, Ends
  <1> QED BY <1>1, <1>2, <1>3

LEMMA ReplaceTypes ==
  ASSUME NEW n \in Fact, NEW o \in Fact, fact \in [Fact -> FactRow], Replaces(n, o)
  PROVE  fact' \in [Fact -> FactRow]
  <1> DEFINE one == [fact EXCEPT ![n] = [fact[n] EXCEPT !.status = "accepted"]]
  <1>1. one \in [Fact -> FactRow]
    BY RowTypes
  <1>2. fact' = [one EXCEPT ![o] = [one[o] EXCEPT !.status = "retired", !.by = @ \cup {n}]]
    BY DEF Replaces
  <1> HIDE DEF one
  <1> QED BY <1>1, <1>2, RowTypes

LEMMA DecidedTypes ==
  ASSUME NEW p \in Flow, NEW f, flow \in [Flow -> Work], Decided(p, f) \/ Ends(p)
  PROVE  flow' \in [Flow -> Work]
  <1>1. CASE Ends(p)
    BY <1>1, BlankTypes DEF Ends
  <1>2. CASE Decided(p, f)
    <2>1. flow' = [flow EXCEPT ![p] = [flow[p] EXCEPT !.todo = @ \ {f}, !.pc = "lanes", !.it = 0]]
      BY <1>2 DEF Decided
    <2> QED BY <2>1, WorkTypes
  <1> QED BY <1>1, <1>2

LEMMA LanesTypes ==
  ASSUME MemoryTypeOK, FlowsSound, NEW p \in Flow,
         LanesBegin(p) \/ LanesOne(p) \/ LanesTwin(p) \/ LanesEnd(p)
  PROVE  MemoryTypeOK'
  <1> USE DEF MemoryTypeOK, history
  <1>1. CASE LanesBegin(p)
    BY <1>1, BlankTypes DEF LanesBegin, Work, Resting, Having
  <1>2. CASE LanesOne(p)
    <2>1. PICK f \in flow[p].todo :
            /\ \/ Decided(p, f) /\ UNCHANGED fact
               \/ Ends(p) /\ UNCHANGED fact
               \/ Becomes(f, "rejected") /\ Decided(p, f)
               \/ Becomes(f, "accepted") /\ Decided(p, f)
               \/ flow' = [flow EXCEPT ![p].pc = "twin", ![p].it = f] /\ UNCHANGED fact
               \/ \E o \in Fact : Replaces(f, o) /\ Decided(p, f)
            /\ UNCHANGED <<file, asked, history>>
      BY <1>2, Zenon DEF LanesOne
    <2>2. f \in Fact
      BY <2>1 DEF Work
    <2>3. fact' \in [Fact -> FactRow]
      BY <2>1, <2>2, StatusTypes, ReplaceTypes
    <2>4. flow' \in [Flow -> Work]
      <3>1. CASE flow' = [flow EXCEPT ![p].pc = "twin", ![p].it = f]
        <4>1. flow' = [flow EXCEPT ![p] = [flow[p] EXCEPT !.pc = "twin", !.it = f]]
          BY <3>1
        <4> QED BY <4>1, <2>2, WorkTypes
      <3> QED BY <2>1, <3>1, DecidedTypes
    <2> QED BY <2>1, <2>3, <2>4
  <1>3. CASE LanesTwin(p)
    <2>1. /\ \/ Becomes(flow[p].it, "rejected") /\ Decided(p, flow[p].it)
             \/ Ends(p) /\ UNCHANGED fact
          /\ UNCHANGED <<file, asked, history>> /\ flow[p].it \in Fact
      BY <1>3, Zenon DEF LanesTwin, FlowsSound, At
    <2>2. fact' \in [Fact -> FactRow] /\ flow' \in [Flow -> Work]
      BY <2>1, StatusTypes, DecidedTypes
    <2> QED BY <2>1, <2>2
  <1>4. CASE LanesEnd(p)
    BY <1>4, DecidedTypes DEF LanesEnd
  <1> QED BY <1>1, <1>2, <1>3, <1>4

LEMMA RetireTypes ==
  ASSUME MemoryTypeOK, NEW p \in Flow, RetireBegin(p) \/ RetireOne(p)
  PROVE  MemoryTypeOK'
  <1> USE DEF MemoryTypeOK, history
  <1>1. CASE RetireBegin(p)
    <2>1. PICK S \in SUBSET Known :
            /\ flow' = [flow EXCEPT ![p] = [Resting EXCEPT !.pc = "retire", !.todo = S]]
            /\ UNCHANGED <<file, fact, asked, history>>
      BY <1>1, Zenon DEF RetireBegin
    <2>2. S \subseteq Fact
      BY DEF Known, Having
    <2>3. [Resting EXCEPT !.pc = "retire", !.todo = S] \in Work
      BY <2>2, BlankTypes DEF Resting, Work
    <2> QED BY <2>1, <2>3
  <1>2. CASE RetireOne(p)
    <2>1. PICK f \in flow[p].todo :
            /\ Ends(p) \/ flow' = [flow EXCEPT ![p].todo = @ \ {f}]
            /\ Becomes(f, "retired") \/ UNCHANGED fact
            /\ UNCHANGED <<file, asked, history>>
      BY <1>2, Zenon DEF RetireOne
    <2>2. flow[p] \in Work /\ f \in Fact
      BY <2>1 DEF Work
    <2>3. flow' \in [Flow -> Work]
      <3>1. CASE flow' = [flow EXCEPT ![p].todo = @ \ {f}]
        <4>1. flow' = [flow EXCEPT ![p] = [flow[p] EXCEPT !.todo = @ \ {f}]]
          BY <3>1
        <4> QED BY <4>1, <2>2, WorkTypes
      <3> QED BY <2>1, <3>1, DecidedTypes
    <2>4. fact' \in [Fact -> FactRow]
      BY <2>1, <2>2, StatusTypes
    <2> QED BY <2>1, <2>3, <2>4
  <1> QED BY <1>1, <1>2

LEMMA OwnerTypes ==
  ASSUME MemoryTypeOK, OwnerStep
  PROVE  MemoryTypeOK'
  <1> USE DEF MemoryTypeOK, history, Asks
  <1>1. ASSUME NEW f \in Fact, Accept(f) \/ Reject(f) \/ Reopen(f) \/ Retire(f) \/ Restore(f)
        PROVE  MemoryTypeOK'
    <2>1. /\ \E st \in {"candidate", "accepted", "rejected", "retired"} : Becomes(f, st)
          /\ asked' = asked + 1 /\ UNCHANGED <<file, flow, history>>
      BY <1>1 DEF Accept, Reject, Reopen, Retire, Restore, Moves
    <2>2. fact' \in [Fact -> FactRow]
      BY <2>1, StatusTypes
    <2> QED BY <2>1, <2>2
  <1>2. ASSUME NEW f \in Fact, NEW w \in Word, Edit(f, w) PROVE MemoryTypeOK'
    BY <1>2 DEF Edit, FactRow
  <1>3. ASSUME NEW f \in Fact, NEW o \in Fact, Supersede(f, o) PROVE MemoryTypeOK'
    BY <1>3, ReplaceTypes DEF Supersede
  <1>4. ASSUME NEW w \in Word, Add(w) PROVE MemoryTypeOK'
    <2>1. PICK f \in Fact :
            /\ fact' = [fact EXCEPT ![f] = [NoFact EXCEPT !.status = "accepted", !.words = w]]
            /\ asked' = asked + 1 /\ UNCHANGED <<file, flow, history>>
      BY <1>4 DEF Add
    <2>2. [NoFact EXCEPT !.status = "accepted", !.words = w] \in FactRow
      BY <1>4 DEF NoFact, FactRow
    <2> QED BY <2>1, <2>2
  <1> QED BY <1>1, <1>2, <1>3, <1>4 DEF OwnerStep

LEMMA UndoTypes ==
  ASSUME MemoryTypeOK, FlowsSound, NEW p \in Flow, UndoEnd(p) \/ \E n \in Fact : UndoBegin(p, n)
  PROVE  MemoryTypeOK'
  <1> USE DEF MemoryTypeOK, history, Asks
  <1>1. CASE UndoEnd(p)
    <2>1. fact' \in [Fact -> FactRow]
      <3>1. CASE fact' = fact
        BY <3>1
      <3>2. CASE fact' = [fact EXCEPT ![flow[p].it].status = "retired", ![flow[p].old].status = "accepted"]
        <4>1. \A r \in FactRow : [r EXCEPT !.status = "retired"] \in FactRow /\ [r EXCEPT !.status = "accepted"] \in FactRow
          BY DEF FactRow
        <4> QED BY <3>2, <4>1
      <3> QED BY <1>1, <3>1, <3>2, Zenon DEF UndoEnd
    <2>2. flow' \in [Flow -> Work]
      BY <1>1, BlankTypes DEF UndoEnd, Ends
    <2> QED BY <1>1, <2>1, <2>2 DEF UndoEnd
  <1>2. ASSUME NEW n \in Fact, UndoBegin(p, n) PROVE MemoryTypeOK'
    <2>1. PICK o \in Fact :
            /\ flow' = [flow EXCEPT ![p] = [Resting EXCEPT !.pc = "undo", !.it = n, !.old = o]]
            /\ asked' = asked + 1 /\ UNCHANGED <<file, fact, history>>
      BY <1>2, Zenon DEF UndoBegin, Having
    <2>2. [Resting EXCEPT !.pc = "undo", !.it = n, !.old = o] \in Work
      BY <1>2, <2>1, BlankTypes DEF Resting, Work
    <2> QED BY <2>1, <2>2
  <1> QED BY <1>1, <1>2

LEMMA StruckTypes ==
  ASSUME NEW lines \in Lines, NEW w
  PROVE  Struck(lines, w) \in Lines
  BY DEF Struck, Lines

LEMMA ForgetTypes ==
  ASSUME MemoryTypeOK, RowsSound, NEW p \in Flow,
         CleanRead(p) \/ CleanReplace(p) \/ Stop(p) \/ \E f \in Fact : Forget(p, f)
  PROVE  MemoryTypeOK'
  <1> USE DEF MemoryTypeOK, history, Asks
  <1>1. CASE CleanRead(p)
    <2>1. Struck(file, flow[p].words) \in Lines
      BY StruckTypes
    <2>2. CASE Ends(p)
      BY <1>1, <2>2, DecidedTypes DEF CleanRead
    <2>3. CASE flow' = [flow EXCEPT ![p].pc = "write", ![p].lines = Struck(file, flow[p].words)]
      <3>1. flow' = [flow EXCEPT ![p] = [flow[p] EXCEPT !.pc = "write", !.lines = Struck(file, flow[p].words)]]
        BY <2>3
      <3>2. flow' \in [Flow -> Work]
        BY <3>1, <2>1, WorkTypes
      <3> QED BY <1>1, <3>2 DEF CleanRead
    <2> QED BY <1>1, <2>2, <2>3 DEF CleanRead
  <1>2. CASE CleanReplace(p)
    BY <1>2, BlankTypes DEF CleanReplace, Ends, Work
  <1>3. CASE Stop(p)
    BY <1>3, BlankTypes DEF Stop, Ends
  <1>4. ASSUME NEW f \in Fact, Forget(p, f) PROVE MemoryTypeOK'
    <2>1. ~Is(f, "none") /\ fact[f].words # Gone
      BY <1>4 DEF Forget
    <2>2. fact[f] \in FactRow /\ fact[f].words # None
      BY <2>1 DEF RowsSound
    <2>3. fact[f].words \in Word
      BY <2>1, <2>2 DEF FactRow
    <2>4. fact' \in [Fact -> FactRow]
      BY <1>4 DEF Forget, FactRow
    <2>5. flow' \in [Flow -> Work]
      BY <1>4, <2>3, BlankTypes DEF Forget, Resting, Work
    <2>6. /\ purged' = purged \cup {f} /\ forgotten' = forgotten \cup {fact[f].words}
          /\ asked' = asked + 1 /\ UNCHANGED <<file, said, from, exposed, struck>>
      BY <1>4, Zenon DEF Forget
    <2> QED BY <2>3, <2>4, <2>5, <2>6
  <1> QED BY <1>1, <1>2, <1>3, <1>4

LEMMA StageTypes ==
  ASSUME MemoryTypeOK, NEW w \in Word, Stage(w)
  PROVE  MemoryTypeOK'
  BY DEF MemoryTypeOK, Stage, Lines

LEMMA TypesStep ==
  ASSUME MemoryTypeOK, RowsSound, FlowsSound, [MemoryNext]_memoryVars
  PROVE  MemoryTypeOK'
  <1>1. CASE UNCHANGED memoryVars
    BY <1>1, Zenon DEF memoryVars, MemoryTypeOK
  <1>2. CASE MemoryNext
    BY <1>2, TakeTypes, LanesTypes, RetireTypes, OwnerTypes, UndoTypes, ForgetTypes, StageTypes, Zenon
       DEF MemoryNext, FlowStep
  <1> QED BY <1>1, <1>2

(* The rows, and what is known.                                                 *)

\* A step that leaves every row its line, and is about rows there are.
Kept ==
  /\ UNCHANGED <<from, purged>>
  /\ \A g \in Fact : /\ fact'[g].line = fact[g].line
                     /\ fact'[g].words = fact[g].words \/ fact'[g].words \in Word
                     /\ (fact'[g].status = "none") <=> (fact[g].status = "none")

LEMMA KeptKeepsRows ==
  ASSUME MemoryTypeOK, RowsSound, Kept
  PROVE  RowsSound'
  BY MemoryAssumption, SMT DEF RowsSound, Kept, Is

\* Nothing more is known, or one thing that fits beside what stays known.
Fewer == /\ Known' \subseteq Known
         /\ \A g \in Known' : fact'[g].words = fact[g].words
OneMore == \E f \in Fact, O \in SUBSET Known :
  /\ f \notin O /\ Known' = O \cup {f} /\ Fits(fact'[f].words, O)
  /\ \A g \in O : fact'[g].words = fact[g].words

LEMMA FewerKeepsKnown ==
  ASSUME KnownFacts, Fewer
  PROVE  KnownFacts'
  <1>1. IsFiniteSet(Known) /\ Known \subseteq Fact
    BY FactsAreFinite, FS_Subset DEF Known, Having
  <1>2. IsFiniteSet(Known') /\ Cardinality(Known') <= Cardinality(Known)
    BY <1>1, FS_Subset DEF Fewer
  <1>3. Cardinality(Known') \in Nat /\ Cardinality(Known) \in Nat
    BY <1>1, <1>2, FS_CardinalityType
  <1>4. Cardinality(Known') <= Room
    BY <1>2, <1>3, MemoryAssumption DEF KnownFacts
  <1>5. \A f, g \in Known' : f # g => fact'[f].words # fact'[g].words
    BY DEF Fewer, KnownFacts
  <1> QED BY <1>4, <1>5 DEF KnownFacts

LEMMA OneMoreKeepsKnown ==
  ASSUME KnownFacts, OneMore
  PROVE  KnownFacts'
  <1>1. PICK f \in Fact, O \in SUBSET Known :
          /\ f \notin O /\ Known' = O \cup {f} /\ Fits(fact'[f].words, O)
          /\ \A g \in O : fact'[g].words = fact[g].words
    BY DEF OneMore
  <1>2. IsFiniteSet(O)
    BY <1>1, FactsAreFinite, FS_Subset DEF Known, Having
  <1>3. Cardinality(O \cup {f}) = Cardinality(O) + 1 /\ Cardinality(O) \in Nat
    BY <1>1, <1>2, FS_AddElement, FS_CardinalityType
  <1>4. Cardinality(Known') <= Room
    BY <1>1, <1>3, MemoryAssumption DEF Fits
  <1>5. \A g \in O : fact'[g].words # fact'[f].words
    BY <1>1 DEF Fits, Twin
  <1>6. \A g, h \in O : g # h => fact'[g].words # fact'[h].words
    BY <1>1 DEF KnownFacts
  <1> QED BY <1>1, <1>4, <1>5, <1>6 DEF KnownFacts

(* The steps that are about the facts.                                          *)

\* What a step that changes the status of one fact does.
LEMMA StatusStep ==
  ASSUME MemoryTypeOK, NEW f \in Fact, NEW st \in {"candidate", "accepted", "rejected", "retired"},
         ~Is(f, "none"), Becomes(f, st), UNCHANGED <<from, purged>>,
         st = "accepted" => Fits(fact[f].words, Known) /\ ~Is(f, "accepted")
  PROVE  Kept /\ (Fewer \/ OneMore)
  <1>1. /\ \A g \in Fact : fact'[g].line = fact[g].line /\ fact'[g].words = fact[g].words
        /\ \A g \in Fact : fact'[g].status = IF g = f THEN st ELSE fact[g].status
    BY DEF MemoryTypeOK, Becomes, FactRow
  <1>2. Kept
    BY <1>1 DEF Kept, Is
  <1>3. CASE st # "accepted"
    BY <1>1, <1>2, <1>3 DEF Fewer, Known, Having
  <1>4. CASE st = "accepted"
    <2>1. Known' = Known \cup {f}
      BY <1>1, <1>4 DEF Known, Having
    <2>2. f \notin Known /\ Known \subseteq Fact
      BY <1>4 DEF Known, Having, Is
    <2>3. Fits(fact'[f].words, Known)
      BY <1>1, <1>4
    <2>4. OneMore
      BY <2>1, <2>2, <2>3, <1>1 DEF OneMore
    <2> QED BY <2>4, <1>2
  <1> QED BY <1>2, <1>3, <1>4

\* ... one that puts n in the place of o, or o back in the place of n ...
LEMMA ReplaceStep ==
  ASSUME MemoryTypeOK, NEW n \in Fact, NEW o \in Fact, MayReplace(n, o), Replaces(n, o),
         UNCHANGED <<from, purged>>
  PROVE  Kept /\ OneMore
  <1>1. /\ \A g \in Fact : fact'[g].line = fact[g].line /\ fact'[g].words = fact[g].words
        /\ \A g \in Fact : fact'[g].status = IF g = o THEN "retired" ELSE
                                              IF g = n THEN "accepted" ELSE fact[g].status
    <2>1. fact \in [Fact -> FactRow] /\ n # o
      BY DEF MemoryTypeOK, MayReplace
    <2>2. /\ fact'[n] = [fact[n] EXCEPT !.status = "accepted"]
          /\ fact'[o] = [fact[o] EXCEPT !.status = "retired", !.by = fact[o].by \cup {n}]
          /\ \A g \in Fact : g # n /\ g # o => fact'[g] = fact[g]
      BY <2>1 DEF Replaces
    <2>3. fact[n] \in FactRow /\ fact[o] \in FactRow
      BY <2>1
    <2>4. /\ fact'[n].line = fact[n].line /\ fact'[n].words = fact[n].words
          /\ fact'[n].status = "accepted"
      BY <2>2, <2>3 DEF FactRow
    <2>5. /\ fact'[o].line = fact[o].line /\ fact'[o].words = fact[o].words
          /\ fact'[o].status = "retired"
      BY <2>2, <2>3 DEF FactRow
    <2> QED BY <2>1, <2>2, <2>4, <2>5
  <1>2. n # o /\ Is(n, "candidate") /\ Is(o, "accepted") /\ Fits(fact[n].words, Known \ {o})
    BY DEF MayReplace
  <1>3. Kept
    BY <1>1, <1>2 DEF Kept, Is
  <1>4. Known' = (Known \ {o}) \cup {n} /\ n \notin Known \ {o} /\ Known \ {o} \in SUBSET Known
    BY <1>1, <1>2 DEF Known, Having, Is
  <1>5. OneMore
    <2>1. \A g \in Known \ {o} : fact'[g].words = fact[g].words
      BY <1>1, <1>2 DEF Known, Having
    <2>2. Fits(fact'[n].words, Known \ {o})
      BY <1>1, <1>2
    <2> QED BY <2>1, <2>2, <1>4, <1>1 DEF OneMore
  <1> QED BY <1>3, <1>5

LEMMA UndoStep ==
  ASSUME MemoryTypeOK, FlowsSound, NEW p \in Flow, UndoEnd(p)
  PROVE  Kept /\ (Fewer \/ OneMore)
  <1> DEFINE n == flow[p].it
             o == flow[p].old
  <1>1. n \in Fact /\ o \in Fact
    BY DEF UndoEnd, FlowsSound, At
  <1>2. UNCHANGED <<from, purged>>
    BY DEF UndoEnd, history
  <1>3. CASE fact' = fact
    BY <1>2, <1>3 DEF Kept, Fewer, Known, Having
  <1>4. CASE /\ Is(n, "accepted") /\ Is(o, "retired") /\ Fits(fact[o].words, Known \ {n})
             /\ fact' = [fact EXCEPT ![n].status = "retired", ![o].status = "accepted"]
    <2>1. n # o
      BY <1>4 DEF Is
    <2> HIDE DEF n, o
    <2>2. /\ \A g \in Fact : fact'[g].line = fact[g].line /\ fact'[g].words = fact[g].words
          /\ \A g \in Fact : fact'[g].status = IF g = n THEN "retired" ELSE
                                                IF g = o THEN "accepted" ELSE fact[g].status
      <3>1. fact \in [Fact -> FactRow]
        BY DEF MemoryTypeOK
      <3>2. /\ fact'[n] = [fact[n] EXCEPT !.status = "retired"]
            /\ fact'[o] = [fact[o] EXCEPT !.status = "accepted"]
            /\ \A g \in Fact : g # n /\ g # o => fact'[g] = fact[g]
        BY <1>1, <1>4, <2>1, <3>1
      <3>3. fact[n] \in FactRow /\ fact[o] \in FactRow
        BY <1>1, <3>1
      <3>4. /\ fact'[n].line = fact[n].line /\ fact'[n].words = fact[n].words
            /\ fact'[n].status = "retired"
        BY <3>2, <3>3 DEF FactRow
      <3>5. /\ fact'[o].line = fact[o].line /\ fact'[o].words = fact[o].words
            /\ fact'[o].status = "accepted"
        BY <3>2, <3>3 DEF FactRow
      <3> QED BY <2>1, <3>2, <3>4, <3>5
    <2>3. Kept
      BY <1>2, <1>4, <2>2 DEF Kept, Is
    <2>0. \A g \in Fact : g \in Known' <=> (g = o \/ (g \in Known /\ g # n))
      BY <1>1, <2>1, <2>2 DEF Known, Having
    <2>4. Known' = (Known \ {n}) \cup {o} /\ o \notin Known \ {n} /\ Known \ {n} \in SUBSET Known
      <3>1. Known \subseteq Fact /\ Known' \subseteq Fact
        BY DEF Known, Having
      <3>2. o \notin Known
        BY <1>4 DEF Known, Having, Is
      <3> QED BY <1>1, <2>0, <3>1, <3>2
    <2>5. OneMore
      <3>1. \A g \in Known \ {n} : fact'[g].words = fact[g].words
        BY <1>1, <1>4, <2>2 DEF Known, Having
      <3>2. Fits(fact'[o].words, Known \ {n})
        BY <1>1, <1>4, <2>2
      <3> QED BY <3>1, <3>2, <2>4, <1>1 DEF OneMore
    <2> QED BY <2>3, <2>5
  <1> QED BY <1>3, <1>4, Zenon DEF UndoEnd

\* ... and one that leaves the facts alone.
LEMMA NoStep ==
  ASSUME UNCHANGED <<fact, from, purged>>
  PROVE  Kept /\ Fewer
  BY DEF Kept, Fewer, Known, Having

\* What takes a new row of the table: a record of the file, and what the owner adds.
LEMMA NewRow ==
  ASSUME MemoryTypeOK, RowsSound, NEW f \in Fact, Row(f), NEW r \in FactRow, NEW s \in Line \cup {0},
         r.line = s, r.words # None, r.status # "none",
         s # 0 => \A g \in Fact : fact[g].line # s,
         fact' = [fact EXCEPT ![f] = r], from' = [from EXCEPT ![f] = s], UNCHANGED purged
  PROVE  /\ RowsSound'
         /\ r.status # "accepted" => Fewer
         /\ (r.status = "accepted" /\ Fits(r.words, Known)) => OneMore
  <1>1. /\ fact'[f] = r /\ from'[f] = s /\ Is(f, "none")
        /\ \A g \in Fact : g # f => fact'[g] = fact[g] /\ from'[g] = from[g]
    BY DEF MemoryTypeOK, Row, Having, Is
  <1>2. RowsSound'
    <2>1. \A g \in Fact : (IF Is(g, "none") THEN from[g] = 0 /\ fact[g].line = 0 ELSE fact[g].words # None)'
      BY <1>1 DEF RowsSound, Is
    <2>2. \A g \in Fact \ purged : fact'[g].line = from'[g]
      BY <1>1 DEF RowsSound
    <2>3. \A g, h \in Fact : (g # h /\ fact'[g].line # 0) => fact'[g].line # fact'[h].line
      BY <1>1 DEF RowsSound
    <2> QED BY <2>1, <2>2, <2>3 DEF RowsSound
  <1>3. ASSUME r.status # "accepted" PROVE Fewer
    BY <1>1, <1>3 DEF Fewer, Known, Having, Is
  <1>4. ASSUME r.status = "accepted", Fits(r.words, Known) PROVE OneMore
    <2>1. Known' = Known \cup {f} /\ f \notin Known
      BY <1>1, <1>4 DEF Known, Having, Is
    <2>2. \A g \in Known : fact'[g].words = fact[g].words
      BY <1>1, <2>1 DEF Known, Having
    <2> QED BY <1>1, <1>4, <2>1, <2>2 DEF OneMore
  <1> QED BY <1>2, <1>3, <1>4

(* The flows, and the file.                                                     *)

\* A step that leaves the file alone, and begins no rewriting of it.
Mild ==
  /\ UNCHANGED <<file, said, forgotten, exposed, struck>>
  /\ \A q \in Flow :
       \/ flow'[q] = flow[q]
       \/ /\ flow'[q].pc \notin {"clean", "write"}
          /\ flow'[q].pc \in {"twin", "undo"} => flow'[q].it \in Fact
          /\ flow'[q].pc = "undo" => flow'[q].old \in Fact

LEMMA MildKeepsFile ==
  ASSUME FlowsSound, LinesAreTrue, Mild
  PROVE  FlowsSound' /\ LinesAreTrue'
  <1>1. LinesAreTrue'
    BY DEF LinesAreTrue, Truly, Mild
  <1>2. ASSUME NEW q \in Flow
        PROVE  (/\ flow[q].pc \in {"twin", "undo"} => flow[q].it \in Fact
                /\ At(q, "undo") => flow[q].old \in Fact
                /\ At(q, "clean") => flow[q].words \in forgotten
                /\ At(q, "write") => \A s \in Line : Truly(flow[q].lines[s], s))'
    BY DEF FlowsSound, Mild, At, Truly
  <1> QED BY <1>1, <1>2 DEF FlowsSound

LEMMA EndsIsMild ==
  ASSUME MemoryTypeOK, NEW p \in Flow, NEW f, Ends(p) \/ Decided(p, f),
         UNCHANGED <<file, said, forgotten, exposed, struck>>
  PROVE  Mild
  <1>1. \A q \in Flow : flow'[q] = flow[q] \/ flow'[q].pc \in {"idle", "lanes"}
    BY DEF MemoryTypeOK, Ends, Decided, Resting, Work
  <1> QED BY <1>1 DEF Mild

LEMMA SameFlowsIsMild ==
  ASSUME UNCHANGED <<file, flow, said, forgotten, exposed, struck>>
  PROVE  Mild
  BY DEF Mild

(* The steps, one kind at a time.                                               *)

\* What is kept beside the types.
Sound == RowsSound /\ FlowsSound /\ KnownFacts /\ LinesAreTrue

LEMMA MildStep ==
  ASSUME MemoryTypeOK, Sound, Mild, Kept, Fewer \/ OneMore
  PROVE  Sound'
  BY KeptKeepsRows, FewerKeepsKnown, OneMoreKeepsKnown, MildKeepsFile DEF Sound

LEMMA TakeStep ==
  ASSUME MemoryTypeOK, Sound, NEW p \in Flow, TakeBegin(p) \/ TakeOne(p) \/ TakeEnd(p)
  PROVE  Sound'
  <1> USE DEF history
  <1>1. CASE TakeBegin(p)
    <2>1. Mild
      BY <1>1 DEF TakeBegin, Mild, Resting, MemoryTypeOK
    <2> QED BY <1>1, <2>1, NoStep, MildStep DEF TakeBegin
  <1>2. CASE TakeOne(p)
    <2>1. PICK s \in ToTake(p) :
            /\ At(p, "take") /\ flow' = [flow EXCEPT ![p].lines[s] = None]
            /\ \/ UNCHANGED <<fact, from>>
               \/ \E f \in Fact :
                    /\ ~Recorded(s) /\ Row(f)
                    /\ fact' = [fact EXCEPT ![f] = [NoFact EXCEPT !.status = "candidate", !.line = s,
                                                                  !.words = flow[p].lines[s]]]
                    /\ from' = [from EXCEPT ![f] = s]
            /\ UNCHANGED <<file, asked, said, purged, forgotten, exposed, struck>>
      BY <1>2, Zenon DEF TakeOne
    <2>2. /\ s \in Line /\ s # 0 /\ flow[p].lines[s] # None
          /\ flow[p] \in Work /\ flow[p].lines[s] \in Word \cup {Gone, None}
      <3>1. s \in Line /\ flow[p].lines[s] # None
        BY DEF ToTake
      <3>2. flow[p] \in Work
        BY DEF MemoryTypeOK
      <3>3. flow[p].lines \in Lines
        BY <3>2 DEF Work
      <3>4. flow[p].lines[s] \in Word \cup {Gone, None}
        BY <3>1, <3>3 DEF Lines
      <3>5. s # 0
        BY <3>1, MemoryAssumption DEF Line
      <3> QED BY <3>1, <3>2, <3>4, <3>5
    <2>3. \A q \in Flow : flow'[q] = flow[q] \/ flow'[q].pc = "take"
      BY <2>1, <2>2 DEF MemoryTypeOK, Work, At
    <2>4. Mild
      BY <2>1, <2>3 DEF Mild
    <2>5. CASE UNCHANGED <<fact, from>>
      BY <2>1, <2>4, <2>5, NoStep, MildStep
    <2>6. ASSUME NEW f \in Fact, ~Recorded(s), Row(f),
                 fact' = [fact EXCEPT ![f] = [NoFact EXCEPT !.status = "candidate", !.line = s,
                                                            !.words = flow[p].lines[s]]],
                 from' = [from EXCEPT ![f] = s]
          PROVE  Sound'
      <3> DEFINE r == [NoFact EXCEPT !.status = "candidate", !.line = s, !.words = flow[p].lines[s]]
      <3>1. r \in FactRow /\ r.line = s /\ r.words # None /\ r.status = "candidate"
        BY <2>2 DEF FactRow, NoFact
      <3>2. \A g \in Fact : fact[g].line # s
        BY <2>6 DEF Recorded
      <3>3. fact' = [fact EXCEPT ![f] = r] /\ UNCHANGED purged
        BY <2>1, <2>6
      <3> HIDE DEF r
      <3>4. RowsSound' /\ Fewer
        BY <2>2, <2>6, <3>1, <3>2, <3>3, NewRow DEF Sound
      <3> QED BY <2>4, <3>4, FewerKeepsKnown, MildKeepsFile DEF Sound
    <2> QED BY <2>1, <2>5, <2>6
  <1>3. CASE TakeEnd(p)
    BY <1>3, EndsIsMild, NoStep, MildStep DEF TakeEnd
  <1> QED BY <1>1, <1>2, <1>3

LEMMA LanesStep ==
  ASSUME MemoryTypeOK, Sound, NEW p \in Flow,
         LanesBegin(p) \/ LanesOne(p) \/ LanesTwin(p) \/ LanesEnd(p)
  PROVE  Sound'
  <1> USE DEF history
  <1>1. CASE LanesBegin(p)
    <2>1. Mild
      BY <1>1 DEF LanesBegin, Mild, Resting, MemoryTypeOK
    <2> QED BY <1>1, <2>1, NoStep, MildStep DEF LanesBegin
  <1>2. CASE LanesOne(p)
    <2>1. PICK f \in flow[p].todo :
            /\ \/ Decided(p, f) /\ UNCHANGED fact
               \/ Ends(p) /\ UNCHANGED fact
               \/ Is(f, "candidate") /\ Becomes(f, "rejected") /\ Decided(p, f)
               \/ /\ Is(f, "candidate") /\ Fits(fact[f].words, Known)
                  /\ Becomes(f, "accepted") /\ Decided(p, f)
               \/ flow' = [flow EXCEPT ![p].pc = "twin", ![p].it = f] /\ UNCHANGED fact
               \/ \E o \in Fact : MayReplace(f, o) /\ Replaces(f, o) /\ Decided(p, f)
            /\ UNCHANGED <<file, asked, history>>
      BY <1>2, Zenon DEF LanesOne
    <2>2. f \in Fact
      BY <2>1 DEF MemoryTypeOK, Work
    <2>3. Kept /\ (Fewer \/ OneMore)
      <3>1. CASE UNCHANGED fact
        BY <2>1, <3>1, NoStep
      <3>2. CASE Is(f, "candidate") /\ Becomes(f, "rejected")
        BY <2>1, <2>2, <3>2, StatusStep DEF Is
      <3>3. CASE Is(f, "candidate") /\ Fits(fact[f].words, Known) /\ Becomes(f, "accepted")
        BY <2>1, <2>2, <3>3, StatusStep DEF Is
      <3>4. CASE \E o \in Fact : MayReplace(f, o) /\ Replaces(f, o)
        BY <2>1, <2>2, <3>4, ReplaceStep
      <3> QED BY <2>1, <3>1, <3>2, <3>3, <3>4
    <2>4. Mild
      <3>1. CASE flow' = [flow EXCEPT ![p].pc = "twin", ![p].it = f]
        <4>1. \A q \in Flow : flow'[q] = flow[q] \/ (flow'[q].pc = "twin" /\ flow'[q].it = f)
          BY <3>1 DEF MemoryTypeOK, Work
        <4> QED BY <4>1, <2>1, <2>2 DEF Mild
      <3> QED BY <2>1, <3>1, EndsIsMild
    <2> QED BY <2>3, <2>4, MildStep
  <1>3. CASE LanesTwin(p)
    <2>1. /\ \/ Is(flow[p].it, "candidate") /\ Becomes(flow[p].it, "rejected") /\ Decided(p, flow[p].it)
             \/ Ends(p) /\ UNCHANGED fact
          /\ UNCHANGED <<file, asked, history>> /\ At(p, "twin")
      BY <1>3, Zenon DEF LanesTwin
    <2>2. flow[p].it \in Fact
      BY <2>1 DEF Sound, FlowsSound, At
    <2>3. Kept /\ (Fewer \/ OneMore)
      <3>1. CASE UNCHANGED fact
        BY <2>1, <3>1, NoStep
      <3>2. CASE Is(flow[p].it, "candidate") /\ Becomes(flow[p].it, "rejected")
        BY <2>1, <2>2, <3>2, StatusStep DEF Is
      <3> QED BY <2>1, <3>1, <3>2
    <2>4. Mild
      BY <2>1, EndsIsMild
    <2> QED BY <2>3, <2>4, MildStep
  <1>4. CASE LanesEnd(p)
    BY <1>4, EndsIsMild, NoStep, MildStep DEF LanesEnd
  <1> QED BY <1>1, <1>2, <1>3, <1>4

LEMMA RetireStep ==
  ASSUME MemoryTypeOK, Sound, NEW p \in Flow, RetireBegin(p) \/ RetireOne(p)
  PROVE  Sound'
  <1> USE DEF history
  <1>1. CASE RetireBegin(p)
    <2>0. PICK S \in SUBSET Known : flow' = [flow EXCEPT ![p] = [Resting EXCEPT !.pc = "retire", !.todo = S]]
      BY <1>1 DEF RetireBegin
    <2>1. Mild
      BY <1>1, <2>0 DEF RetireBegin, Mild, Resting, MemoryTypeOK
    <2>2. UNCHANGED <<file, fact, asked, history>>
      BY <1>1 DEF RetireBegin
    <2> QED BY <2>1, <2>2, NoStep, MildStep
  <1>2. CASE RetireOne(p)
    <2>1. PICK f \in flow[p].todo :
            /\ At(p, "retire") /\ (Ends(p) \/ flow' = [flow EXCEPT ![p].todo = @ \ {f}])
            /\ (Is(f, "accepted") /\ Becomes(f, "retired")) \/ UNCHANGED fact
            /\ UNCHANGED <<file, asked, history>>
      BY <1>2, Zenon DEF RetireOne
    <2>2. f \in Fact
      BY <2>1 DEF MemoryTypeOK, Work
    <2>3. Kept /\ (Fewer \/ OneMore)
      BY <2>1, <2>2, NoStep, StatusStep DEF Is
    <2>4. Mild
      <3>1. CASE flow' = [flow EXCEPT ![p].todo = @ \ {f}]
        <4>1. \A q \in Flow : flow'[q] = flow[q] \/ flow'[q].pc = "retire"
          BY <2>1, <3>1 DEF MemoryTypeOK, Work, At
        <4> QED BY <4>1, <2>1 DEF Mild
      <3> QED BY <2>1, <3>1, EndsIsMild
    <2> QED BY <2>3, <2>4, MildStep
  <1> QED BY <1>1, <1>2

LEMMA OwnersStep ==
  ASSUME MemoryTypeOK, Sound, OwnerStep
  PROVE  Sound'
  <1> USE DEF history
  <1>1. ASSUME NEW f \in Fact, Accept(f) \/ Reject(f) \/ Reopen(f) \/ Retire(f) \/ Restore(f)
        PROVE  Sound'
    <2>1. PICK st \in {"candidate", "accepted", "rejected", "retired"} :
            /\ ~Is(f, "none") /\ Becomes(f, st) /\ UNCHANGED <<file, flow, history>>
            /\ st = "accepted" => Fits(fact[f].words, Known) /\ ~Is(f, "accepted")
      BY <1>1 DEF Accept, Reject, Reopen, Retire, Restore, Moves, Is
    <2>2. Kept /\ (Fewer \/ OneMore)
      BY <2>1, StatusStep
    <2> QED BY <2>1, <2>2, SameFlowsIsMild, MildStep
  <1>2. ASSUME NEW f \in Fact, NEW w \in Word, Edit(f, w) PROVE Sound'
    <2>1. /\ Is(f, "candidate") /\ UNCHANGED <<file, flow, history>>
          /\ fact' = [fact EXCEPT ![f].words = w]
      BY <1>2 DEF Edit
    <2>2. \A g \in Fact : /\ fact'[g].line = fact[g].line /\ fact'[g].status = fact[g].status
                          /\ fact'[g].words = IF g = f THEN w ELSE fact[g].words
      BY <2>1 DEF MemoryTypeOK, FactRow
    <2>3. Kept /\ Fewer
      BY <2>1, <2>2 DEF Kept, Fewer, Known, Having, Is
    <2> QED BY <2>1, <2>3, SameFlowsIsMild, MildStep
  <1>3. ASSUME NEW f \in Fact, NEW o \in Fact, Supersede(f, o) PROVE Sound'
    <2>1. MayReplace(f, o) /\ Replaces(f, o) /\ UNCHANGED <<file, flow, history>>
      BY <1>3 DEF Supersede
    <2>2. Kept /\ OneMore
      BY <2>1, ReplaceStep
    <2>3. Mild
      BY <2>1, SameFlowsIsMild
    <2> QED BY <2>2, <2>3, MildStep
  <1>4. ASSUME NEW w \in Word, Add(w) PROVE Sound'
    <2>1. PICK f \in Fact :
            /\ Row(f) /\ Fits(w, Known)
            /\ fact' = [fact EXCEPT ![f] = [NoFact EXCEPT !.status = "accepted", !.words = w]]
            /\ UNCHANGED <<file, flow, history>>
      BY <1>4, Zenon DEF Add
    <2> DEFINE r == [NoFact EXCEPT !.status = "accepted", !.words = w]
    <2>2. r \in FactRow /\ r.line = 0 /\ r.words = w /\ r.status = "accepted" /\ w # None
      BY MemoryAssumption DEF FactRow, NoFact
    <2>3. fact' = [fact EXCEPT ![f] = r] /\ UNCHANGED purged
      BY <2>1
    <2>4. from[f] = 0
      BY <2>1 DEF Row, Having, Sound, RowsSound, Is
    <2>5. from' = [from EXCEPT ![f] = 0]
      BY <2>1, <2>4 DEF MemoryTypeOK
    <2> HIDE DEF r
    <2>6. RowsSound' /\ OneMore
      <3>1. RowsSound
        BY DEF Sound
      <3>2. /\ Row(f) /\ 0 \in Line \cup {0} /\ r.words # None /\ r.status # "none"
            /\ Fits(r.words, Known)
        BY <2>1, <2>2
      <3> QED BY <2>2, <2>3, <2>5, <3>1, <3>2, NewRow
    <2>7. Mild
      BY <2>1, SameFlowsIsMild
    <2> QED BY <2>6, <2>7, OneMoreKeepsKnown, MildKeepsFile DEF Sound
  <1> QED BY <1>1, <1>2, <1>3, <1>4 DEF OwnerStep

LEMMA UndosStep ==
  ASSUME MemoryTypeOK, Sound, NEW p \in Flow, UndoEnd(p) \/ \E n \in Fact : UndoBegin(p, n)
  PROVE  Sound'
  <1> USE DEF history
  <1>1. CASE UndoEnd(p)
    <2>1. Kept /\ (Fewer \/ OneMore)
      BY <1>1, UndoStep DEF Sound
    <2>2. Mild
      BY <1>1, EndsIsMild DEF UndoEnd
    <2> QED BY <2>1, <2>2, MildStep
  <1>2. ASSUME NEW n \in Fact, UndoBegin(p, n) PROVE Sound'
    <2>1. PICK o \in Fact :
            /\ flow' = [flow EXCEPT ![p] = [Resting EXCEPT !.pc = "undo", !.it = n, !.old = o]]
            /\ UNCHANGED <<file, fact, history>>
      BY <1>2, Zenon DEF UndoBegin, Having
    <2>2. \A q \in Flow : flow'[q] = flow[q] \/ (flow'[q].pc = "undo" /\ flow'[q].it = n /\ flow'[q].old = o)
      BY <2>1 DEF MemoryTypeOK, Resting
    <2>3. Mild
      BY <1>2, <2>1, <2>2 DEF Mild
    <2> QED BY <2>1, <2>3, NoStep, MildStep
  <1> QED BY <1>1, <1>2

LEMMA StopStep ==
  ASSUME MemoryTypeOK, Sound, NEW p \in Flow, Stop(p)
  PROVE  Sound'
  BY EndsIsMild, NoStep, MildStep DEF Stop, history

LEMMA StageStep ==
  ASSUME MemoryTypeOK, Sound, NEW w \in Word, Stage(w)
  PROVE  Sound'
  <1>1. PICK s \in Line :
          /\ said[s] = None /\ file' = [file EXCEPT ![s] = w] /\ said' = [said EXCEPT ![s] = w]
          /\ exposed' = IF Rewriting = {} THEN exposed ELSE exposed \cup {s}
          /\ UNCHANGED <<fact, flow, asked, from, purged, forgotten, struck>>
    BY Zenon DEF Stage
  <1>2. None \notin forgotten /\ said[s] \notin forgotten
    BY <1>1, MemoryAssumption DEF MemoryTypeOK
  <1>3. s \notin struck
    BY <1>1, <1>2 DEF Sound, LinesAreTrue, Truly
  <1>4. LinesAreTrue'
    <2>1. ASSUME NEW t \in Line PROVE Truly(file[t], t)'
      BY <1>1, <1>3 DEF MemoryTypeOK, Lines, Sound, LinesAreTrue, Truly
    <2> QED BY <2>1 DEF LinesAreTrue
  <1>5. ASSUME NEW q \in Flow, At(q, "write"), NEW t \in Line PROVE Truly(flow[q].lines[t], t)'
    <2>1. Truly(flow[q].lines[t], t)
      BY <1>5 DEF Sound, FlowsSound
    <2>2. exposed' = exposed \cup {s}
      BY <1>1, <1>5 DEF Rewriting
    <2> QED BY <1>1, <1>2, <1>3, <2>1, <2>2 DEF MemoryTypeOK, Truly
  <1>6. FlowsSound'
    BY <1>1, <1>5 DEF Sound, FlowsSound, At
  <1>7. Kept /\ Fewer
    BY <1>1, NoStep
  <1> QED BY <1>4, <1>6, <1>7, KeptKeepsRows, FewerKeepsKnown DEF Sound

\* What is struck of a file that tells the truth tells it too.
LEMMA StruckIsTrue ==
  ASSUME MemoryTypeOK, LinesAreTrue, NEW w \in forgotten, NEW s \in Line
  PROVE  Truly(Struck(file, w)[s], s)
  <1>1. Truly(file[s], s) /\ w \in Word /\ w # Gone /\ w # None
    BY MemoryAssumption DEF LinesAreTrue, MemoryTypeOK
  <1>2. Struck(file, w)[s] = file[s] \/ (Struck(file, w)[s] = Gone /\ file[s] = w)
    BY DEF Struck
  <1> QED BY <1>1, <1>2 DEF Truly

LEMMA CleanStep ==
  ASSUME MemoryTypeOK, Sound, NEW p \in Flow, CleanRead(p) \/ CleanReplace(p)
  PROVE  Sound'
  <1> USE DEF history
  <1>1. CASE CleanRead(p)
    <2>1. UNCHANGED <<file, fact, said, from, purged, forgotten, exposed, struck>>
      BY <1>1 DEF CleanRead
    <2>2. CASE Ends(p)
      BY <2>1, <2>2, EndsIsMild, NoStep, MildStep
    <2>3. CASE flow' = [flow EXCEPT ![p].pc = "write", ![p].lines = Struck(file, flow[p].words)]
      <3>1. flow[p].words \in forgotten
        BY <1>1 DEF CleanRead, Sound, FlowsSound
      <3>2. \A q \in Flow : \/ flow'[q] = flow[q]
                            \/ flow'[q].pc = "write" /\ flow'[q].lines = Struck(file, flow[p].words)
        <4> DEFINE L == Struck(file, flow[p].words)
        <4>1. flow[p] \in Work /\ flow \in [Flow -> Work]
          BY DEF MemoryTypeOK
        <4>2. flow' = [flow EXCEPT ![p] = [flow[p] EXCEPT !.pc = "write", !.lines = L]]
          BY <2>3
        <4> HIDE DEF L
        <4>3. flow'[p].pc = "write" /\ flow'[p].lines = L
          BY <4>1, <4>2 DEF Work
        <4>4. \A q \in Flow : q # p => flow'[q] = flow[q]
          BY <4>1, <4>2
        <4> QED BY <4>3, <4>4 DEF L
      <3>3. \A s \in Line : Truly(Struck(file, flow[p].words)[s], s)
        BY <3>1, StruckIsTrue DEF Sound
      <3>4. \A l, s : Truly(l, s)' <=> Truly(l, s)
        BY <2>1 DEF Truly
      <3>5. ASSUME NEW q \in Flow, At(q, "write")', NEW s \in Line PROVE Truly(flow[q].lines[s], s)'
        BY <2>1, <3>2, <3>3, <3>5 DEF Sound, FlowsSound, At, Truly
      <3>6. FlowsSound'
        BY <2>1, <3>2, <3>5 DEF Sound, FlowsSound, At
      <3>7. LinesAreTrue'
        BY <2>1 DEF Sound, LinesAreTrue, Truly
      <3> QED BY <2>1, <3>6, <3>7, NoStep, KeptKeepsRows, FewerKeepsKnown DEF Sound
    <2> QED BY <1>1, <2>2, <2>3 DEF CleanRead
  <1>2. CASE CleanReplace(p)
    <2>1. /\ At(p, "write") /\ Ends(p) /\ file' = flow[p].lines
          /\ struck' = IF Rewriting = {p} THEN {s \in Line : flow[p].lines[s] = Gone} ELSE struck
          /\ UNCHANGED <<fact, asked, said, from, purged, forgotten, exposed>>
      BY <1>2 DEF CleanReplace
    <2>2. \A s \in Line : Truly(flow[p].lines[s], s)
      BY <2>1 DEF Sound, FlowsSound
    <2>3. \A q \in Flow : flow'[q] = flow[q] \/ flow'[q].pc = "idle"
      BY <2>1 DEF Ends, Resting, MemoryTypeOK
    <2>4. At(p, "idle")'
      BY <2>1 DEF Ends, Resting, MemoryTypeOK, At
    <2>5. LinesAreTrue'
      <3>1. CASE Rewriting # {p}
        BY <2>1, <2>2, <3>1 DEF LinesAreTrue, Truly
      <3>2. CASE Rewriting = {p}
        <4>1. ASSUME NEW s \in Line PROVE Truly(file[s], s)'
          <5>1. said[s] # Gone /\ Gone # None
            BY MemoryAssumption DEF MemoryTypeOK
          <5> QED BY <2>1, <2>2, <3>2, <5>1 DEF Truly
        <4> QED BY <4>1 DEF LinesAreTrue
      <3> QED BY <3>1, <3>2
    <2>6. FlowsSound'
      <3>1. ASSUME NEW q \in Flow, At(q, "write")', NEW s \in Line PROVE Truly(flow[q].lines[s], s)'
        <4>1. q # p /\ At(q, "write") /\ flow'[q] = flow[q]
          BY <2>3, <2>4, <3>1 DEF At
        <4>2. struck' = struck
          BY <2>1, <4>1 DEF Rewriting
        <4> QED BY <2>1, <4>1, <4>2 DEF Sound, FlowsSound, Truly
      <3> QED BY <2>1, <2>3, <3>1 DEF Sound, FlowsSound, At
    <2> QED BY <2>1, <2>5, <2>6, NoStep, KeptKeepsRows, FewerKeepsKnown DEF Sound
  <1> QED BY <1>1, <1>2

LEMMA ForgetStep ==
  ASSUME MemoryTypeOK, Sound, NEW p \in Flow, NEW f \in Fact, Forget(p, f)
  PROVE  Sound'
  <1>1. /\ fact' = [g \in Fact |-> IF g = f THEN [status |-> "rejected", words |-> Gone, line |-> 0, by |-> {}]
                                   ELSE fact[g]]
        /\ flow' = [flow EXCEPT ![p] = [Resting EXCEPT !.pc = "clean", !.words = fact[f].words]]
        /\ purged' = purged \cup {f} /\ forgotten' = forgotten \cup {fact[f].words}
        /\ UNCHANGED <<file, said, from, exposed, struck>> /\ ~Is(f, "none")
    BY Zenon DEF Forget
  <1>2. RowsSound'
    BY <1>1, MemoryAssumption DEF Sound, RowsSound, Is
  <1>3. Fewer
    BY <1>1 DEF Fewer, Known, Having
  <1>4. LinesAreTrue'
    BY <1>1 DEF Sound, LinesAreTrue, Truly
  <1>5. \A q \in Flow : \/ flow'[q] = flow[q]
                        \/ flow'[q].pc = "clean" /\ flow'[q].words \in forgotten'
    <2>1. flow \in [Flow -> Work]
      BY DEF MemoryTypeOK
    <2>2. flow'[p].pc = "clean" /\ flow'[p].words = fact[f].words
      BY <1>1, <2>1 DEF Resting
    <2>3. \A q \in Flow : q # p => flow'[q] = flow[q]
      BY <1>1, <2>1
    <2> QED BY <1>1, <2>2, <2>3
  <1>6. ASSUME NEW q \in Flow, At(q, "write")', NEW s \in Line PROVE Truly(flow[q].lines[s], s)'
    BY <1>1, <1>5, <1>6 DEF Sound, FlowsSound, At, Truly
  <1>7. FlowsSound'
    BY <1>1, <1>5, <1>6 DEF Sound, FlowsSound, At
  <1> QED BY <1>2, <1>3, <1>4, <1>7, FewerKeepsKnown DEF Sound

LEMMA SoundStep ==
  ASSUME MemoryTypeOK, Sound, [MemoryNext]_memoryVars
  PROVE  Sound'
  <1>1. CASE UNCHANGED memoryVars
    BY <1>1, NoStep, SameFlowsIsMild, MildStep DEF memoryVars
  <1>2. CASE MemoryNext
    BY <1>2, TakeStep, LanesStep, RetireStep, OwnersStep, UndosStep, StopStep, CleanStep, ForgetStep,
       StageStep, Zenon DEF MemoryNext, FlowStep
  <1> QED BY <1>1, <1>2

LEMMA Begins ==
  ASSUME MemoryInit
  PROVE  MemoryInv
  <1>1. MemoryTypeOK
    <2>1. file \in Lines /\ said \in [Line -> Word \cup {None}]
      BY BlankTypes DEF MemoryInit, Blank
    <2>2. fact \in [Fact -> FactRow] /\ flow \in [Flow -> Work] /\ from \in [Fact -> Line \cup {0}]
      BY BlankTypes DEF MemoryInit
    <2> QED BY <2>1, <2>2 DEF MemoryInit, MemoryTypeOK
  <1>2. RowsSound
    BY DEF MemoryInit, RowsSound, NoFact, Is
  <1>3. FlowsSound
    BY DEF MemoryInit, FlowsSound, Resting, At
  <1>4. Known = {}
    BY DEF MemoryInit, Known, Having, NoFact
  <1>5. KnownFacts
    BY <1>4, FS_EmptySet, MemoryAssumption DEF KnownFacts
  <1>6. LinesAreTrue
    BY DEF MemoryInit, LinesAreTrue, Truly, Blank
  <1> QED BY <1>1, <1>2, <1>3, <1>5, <1>6 DEF MemoryInv

\* What MemoryInv says is true at the start and kept by every step.
THEOREM MemoryInvariant == MemorySpec => []MemoryInv
  <1>1. MemoryInit => MemoryInv
    BY Begins
  <1>2. MemoryInv /\ [MemoryNext]_memoryVars => MemoryInv'
    BY TypesStep, SoundStep DEF MemoryInv, Sound
  <1> QED BY <1>1, <1>2, PTL DEF MemorySpec

\* Every variable has the type MemoryTypeOK gives it.
THEOREM MemoryTypeCorrect == MemorySpec => []MemoryTypeOK
  <1>1. MemoryInv => MemoryTypeOK
    BY DEF MemoryInv
  <1> QED BY <1>1, MemoryInvariant, PTL

\* However many ingests read the file at once and wherever they stop, a staged line has
\* one fact, unless one it had was forgotten for good: a row keeps its line until then,
\* and add_candidate takes no line a row has.
THEOREM RecordedOnlyOnce == MemorySpec => []RecordedOnce
  <1>1. MemoryInv => RecordedOnce
    BY DEF MemoryInv, RowsSound, RecordedOnce
  <1> QED BY <1>1, MemoryInvariant, PTL

\* What is known is said once and fits the room, for each transaction that adds to it
\* looks at what is known when it begins.
THEOREM KnownFactsHold == MemorySpec => []KnownFacts
  <1>1. MemoryInv => KnownFacts
    BY DEF MemoryInv
  <1> QED BY <1>1, MemoryInvariant, PTL

\* A line of the file is as written, or struck for words forgotten for good, or was
\* appended while the file was rewritten; a line struck while nothing else rewrote the
\* file stays so.
THEOREM LinesStayTrue == MemorySpec => []LinesAreTrue
  <1>1. MemoryInv => LinesAreTrue
    BY DEF MemoryInv
  <1> QED BY <1>1, MemoryInvariant, PTL
===============================================================================
