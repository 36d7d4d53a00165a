----------------------------- MODULE DreamingProofs ----------------------------
(* Theorems about Dreaming for every number of messages and readers, every size  *)
(* of a batch, and any number of deaths (README, "Proofs").                      *)
EXTENDS Dreaming, FiniteSetTheorems, SequenceTheorems, TLAPS

\* A message that is said leaves those before it as they were.
LEMMA SaidGrows ==
  ASSUME said \in Seq(Kinds), NEW kind \in Kinds, said' = Append(said, kind)
  PROVE  /\ said' \in Seq(Kinds) /\ Len(said') = Len(said) + 1
         /\ \A m \in Spoken : m \in Spoken' /\ said'[m] = said[m]
         /\ Users \subseteq Users'
         /\ Len(said) \in Nat
  BY DEF Spoken, Users

\* What was accounted for stays so when nothing is taken back.
LEMMA AccountedStays ==
  ASSUME NEW m, Accounted(m), said'[m] = said[m], live \subseteq live',
         staged \subseteq staged', nothing \subseteq nothing'
  PROVE  Accounted(m)'
  BY DEF Accounted, StagedRead

\* Whether a prefix fits a batch depends on that prefix only.
LEMMA FitsStays ==
  ASSUME said \in Seq(Kinds), NEW kind \in Kinds, said' = Append(said, kind), checkpoint' = checkpoint,
         checkpoint \in Nat, NEW n \in Nat, n <= Len(said), Fits(n)
  PROVE  Fits(n)'
  <1>1. {m \in Users : checkpoint < m /\ m <= n}' = {m \in Users : checkpoint < m /\ m <= n}
    BY SaidGrows DEF Users, Spoken
  <1>2. QED BY <1>1 DEF Fits

\* There are n numbers from 1 to n.
LEMMA CountedUpTo ==
  ASSUME NEW n \in Nat
  PROVE  IsFiniteSet(1 .. n) /\ Cardinality(1 .. n) = n
  <1>1. 1 \in Int /\ n \in Int
    OBVIOUS
  <1>2. IsFiniteSet(1 .. n) /\ Cardinality(1 .. n) = IF 1 > n THEN 0 ELSE n - 1 + 1
    BY <1>1, FS_Interval, Zenon
  <1>3. QED BY <1>2

\* One message always fits.
LEMMA FitsOne ==
  ASSUME checkpoint \in Nat
  PROVE  Fits(checkpoint + 1)
  <1> DEFINE S == {m \in Users : checkpoint < m /\ m <= checkpoint + 1}
  <1>1. S = {} \/ S = {checkpoint + 1}
    BY DEF Users, Spoken
  <1>2. Cardinality(S) \in {0, 1}
    <2>1. CASE S = {}
      BY <2>1, FS_EmptySet, Zenon
    <2>2. CASE S = {checkpoint + 1}
      <3>1. Cardinality({checkpoint + 1}) = 1
        BY FS_Singleton, Zenon
      <3>2. QED BY <2>2, <3>1
    <2>3. QED BY <1>1, <2>1, <2>2
  <1>3. QED BY <1>2, DreamingAssumption DEF Fits

\* The states of a reader and of the pass.
LEMMA RestingTypes == NotReading \in Reading /\ Resting \in Pass
  BY DEF NotReading, Reading, Resting, Pass

LEMMA ReaderMoves ==
  ASSUME reader \in [Reader -> Reading], NEW i \in Reader,
         NEW pc \in {"idle", "take", "loop", "ask", "ingest", "mark", "settle", "release", "look"}
  PROVE  /\ [reader EXCEPT ![i].pc = pc] \in [Reader -> Reading]
         /\ [reader EXCEPT ![i] = NotReading] \in [Reader -> Reading]
         /\ [reader EXCEPT ![i] = [NotReading EXCEPT !.pc = pc]] \in [Reader -> Reading]
  <1>1. [reader[i] EXCEPT !.pc = pc] \in Reading
    BY ZenonT(60) DEF Reading
  <1>2. [NotReading EXCEPT !.pc = pc] \in Reading
    BY DEF NotReading, Reading
  <1>3. [reader EXCEPT ![i].pc = pc] = [reader EXCEPT ![i] = [reader[i] EXCEPT !.pc = pc]]
    OBVIOUS
  <1>4. QED BY <1>1, <1>2, <1>3, RestingTypes

LEMMA PassMoves ==
  ASSUME pass \in Pass, NEW pc \in {"idle", "leave", "ask", "stage", "save", "write"},
         pass' = [pass EXCEPT !.pc = pc]
  PROVE  /\ pass' \in Pass /\ pass'.pc = pc
         /\ pass'.first = pass.first /\ pass'.to = pass.to /\ pass'.reading = pass.reading
  <1>1. pass' \in Pass
    BY ZenonT(60) DEF Pass
  <1>2. QED BY <1>1 DEF Pass

LEMMA PassMovesTo ==
  ASSUME pass \in Pass, NEW n \in Nat, pass' = [pass EXCEPT !.pc = "save", !.to = n]
  PROVE  /\ pass' \in Pass /\ pass'.pc = "save"
         /\ pass'.first = pass.first /\ pass'.to = n /\ pass'.reading = pass.reading
  <1>1. pass' \in Pass
    BY ZenonT(60) DEF Pass
  <1>2. QED BY <1>1 DEF Pass

LEMMA PassReads ==
  ASSUME pass \in Pass, NEW S \in SUBSET Msg, pass' = [pass EXCEPT !.pc = "ask", !.reading = S]
  PROVE  /\ pass' \in Pass /\ pass'.pc = "ask"
         /\ pass'.first = pass.first /\ pass'.to = pass.to /\ pass'.reading = S
  <1>1. pass' \in Pass
    BY ZenonT(60) DEF Pass
  <1>2. QED BY <1>1 DEF Pass

LEMMA PassStarts ==
  ASSUME NEW k \in Nat, NEW n \in Nat, pass' = [Resting EXCEPT !.pc = "leave", !.first = k, !.to = n]
  PROVE  /\ pass' \in Pass /\ pass'.pc = "leave"
         /\ pass'.first = k /\ pass'.to = n /\ pass'.reading = {}
  BY DEF Pass, Resting

\* The budget of messages and deaths leaves room for one more message.
LEMMA RoomForOne == ASSUME DreamingTypeOK, HasRoom PROVE Len(said) < MaxMessages
  <1>1. deaths["pass"] \in Nat /\ deaths["web"] \in Nat /\ Len(said) \in Nat /\ MaxMessages \in Nat
    BY DreamingAssumption DEF DreamingTypeOK
  <1>2. QED BY <1>1 DEF HasRoom

\* Type correctness: each action keeps every variable in range.
LEMMA TypeStep ==
  DreamingTypeOK /\ MarksAreTrue /\ BatchesAreRead /\ PassIsTrue /\ [DreamingNext]_dreamVars
    => DreamingTypeOK'
  <1> SUFFICES ASSUME DreamingTypeOK, MarksAreTrue, BatchesAreRead, PassIsTrue, [DreamingNext]_dreamVars
               PROVE  DreamingTypeOK'
    OBVIOUS
  <1> USE DEF DreamingTypeOK, messages, files
  <1>s. ASSUME said' = said PROVE Users' = Users /\ Spoken' = Spoken
    BY <1>s DEF Users, Spoken
  <1>g. ASSUME NEW kind \in Kinds, said' = Append(said, kind), Len(said) < MaxMessages
        PROVE  /\ said' \in Seq(Kinds) /\ Len(said') <= MaxMessages /\ Len(said') >= Len(said)
               /\ Users \subseteq Users' /\ Len(said) + 1 \in Msg
    BY <1>g, SaidGrows, DreamingAssumption DEF Msg
  <1>u. Users \subseteq Msg /\ Spoken \subseteq Msg /\ Len(said) \in Nat
    BY DreamingAssumption DEF Users, Spoken, Msg
  <1>m. ASSUME NEW i \in Reader, reader[i].pc \in {"ask", "ingest", "mark", "settle"}
        PROVE  reader[i].m \in Users /\ reader[i].m \in Msg
    BY <1>m, <1>u DEF MarksAreTrue
  <1>q. ASSUME said' = said, reader' \in [Reader -> Reading], tries' \in [Msg -> Nat],
               queue' \in [Msg -> {"none", "pending", "done", "skipped", "failed"}],
               captured' \subseteq Users, live' \subseteq Users,
               UNCHANGED <<checkpoint, torn, staged, pass, nothing, deaths>>
        PROVE  DreamingTypeOK'
    BY <1>q, <1>s
  <1>w. ASSUME NEW kind \in Kinds, said' = Append(said, kind), Len(said) < MaxMessages,
               reader' \in [Reader -> Reading],
               queue' \in [Msg -> {"none", "pending", "done", "skipped", "failed"}],
               UNCHANGED <<tries, captured, checkpoint, torn, staged, pass, live, nothing, deaths>>
        PROVE  DreamingTypeOK'
    <2>1. pass.to <= Len(said') /\ checkpoint \in 0 .. Len(said')
      BY <1>g, <1>u, <1>w DEF Pass
    <2>2. Users \subseteq Users' /\ said' \in Seq(Kinds) /\ Len(said') <= MaxMessages
      BY <1>g, <1>w
    <2>3. QED BY <1>w, <2>1, <2>2
  <1>b. ASSUME NEW i \in Reader, Becomes(i, "ingest") \/ Becomes(i, "mark") \/ Becomes(i, "settle")
        PROVE  reader' \in [Reader -> Reading]
    <2>1. CASE Becomes(i, "ingest")
      BY <2>1, ReaderMoves DEF Becomes
    <2>2. CASE Becomes(i, "mark")
      BY <2>2, ReaderMoves DEF Becomes
    <2>3. CASE Becomes(i, "settle")
      BY <2>3, ReaderMoves DEF Becomes
    <2>4. QED BY <1>b, <2>1, <2>2, <2>3
  <1>1. ASSUME NEW kind \in Said, Say(kind) PROVE DreamingTypeOK'
    <2>1. kind \in Kinds
      BY DreamingAssumption DEF Kinds
    <2>2. QED BY <1>1, <1>w, <2>1, RoomForOne DEF Say
  <1>2. ASSUME NEW i \in Reader, Answer(i) PROVE DreamingTypeOK'
    <2>1. "reply" \in Kinds
      BY DEF Kinds
    <2>2. Len(said) < MaxMessages
      BY <1>2, RoomForOne DEF Answer
    <2>3. reader' \in [Reader -> Reading]
      BY <1>2, ReaderMoves DEF Answer
    <2>4. QED BY <1>2, <1>w, <2>1, <2>2, <2>3 DEF Answer
  <1>3. ASSUME NEW i \in Reader, ReaderTake(i) PROVE DreamingTypeOK'
    BY <1>3, <1>q, ReaderMoves DEF ReaderTake
  <1>4. ASSUME NEW i \in Reader, ReaderNext(i) PROVE DreamingTypeOK'
    <2>0. PICK m \in Waiting(i) :
            /\ reader' = [reader EXCEPT ![i] = [pc |-> IF m \notin captured /\ said[m] = "live" THEN "ask" ELSE "loop",
                                                m |-> m, tried |-> @.tried \cup {m}]]
            /\ queue' = [queue EXCEPT ![m] = IF m \in captured THEN "done"
                                             ELSE IF said[m] = "live" THEN @ ELSE "skipped"]
      BY <1>4, Zenon DEF ReaderNext
    <2>1. PICK c \in {"ask", "loop"}, v \in {queue[m], "done", "skipped"} :
            /\ reader' = [reader EXCEPT ![i] = [pc |-> c, m |-> m, tried |-> @.tried \cup {m}]]
            /\ queue' = [queue EXCEPT ![m] = v]
      BY <2>0
    <2>2. m \in Msg
      BY <1>u DEF Waiting, Pending
    <2>3. [pc |-> c, m |-> m, tried |-> reader[i].tried \cup {m}] \in Reading
      BY <2>2 DEF Reading
    <2>4. reader' \in [Reader -> Reading]
      BY <2>1, <2>3
    <2>5. queue' \in [Msg -> {"none", "pending", "done", "skipped", "failed"}]
      BY <2>1, <2>2
    <2>6. QED BY <1>4, <1>q, <2>4, <2>5 DEF ReaderNext
  <1>5. ASSUME NEW i \in Reader, ReaderAsk(i) PROVE DreamingTypeOK'
    <2>1. reader' \in [Reader -> Reading]
      BY <1>5, <1>b DEF ReaderAsk
    <2>2. QED BY <1>5, <1>q, <2>1 DEF ReaderAsk
  <1>6. ASSUME NEW i \in Reader, ReaderIngest(i) PROVE DreamingTypeOK'
    <2>1. reader' \in [Reader -> Reading]
      BY <1>6, <1>b DEF ReaderIngest
    <2>2. QED BY <1>6, <1>q, <1>m, <2>1 DEF ReaderIngest
  <1>7. ASSUME NEW i \in Reader, ReaderMark(i) PROVE DreamingTypeOK'
    <2>1. reader' \in [Reader -> Reading]
      BY <1>7, ReaderMoves DEF ReaderMark, Becomes
    <2>2. QED BY <1>7, <1>q, <1>m, <2>1 DEF ReaderMark
  <1>8. ASSUME NEW i \in Reader, ReaderSettle(i) PROVE DreamingTypeOK'
    <2>1. Settled(reader[i].m) \in {"none", "pending", "done", "skipped", "failed"}
      BY DEF Settled
    <2>2. queue' \in [Msg -> {"none", "pending", "done", "skipped", "failed"}] /\ tries' \in [Msg -> Nat]
      BY <1>8, <1>m, <2>1 DEF ReaderSettle
    <2>3. reader' \in [Reader -> Reading]
      BY <1>8, ReaderMoves DEF ReaderSettle, Becomes
    <2>4. QED BY <1>8, <1>q, <2>2, <2>3 DEF ReaderSettle
  <1>9. ASSUME NEW i \in Reader, ReaderEmpty(i) PROVE DreamingTypeOK'
    BY <1>9, <1>q, ReaderMoves DEF ReaderEmpty, Becomes
  <1>10. ASSUME NEW i \in Reader, ReaderRelease(i) PROVE DreamingTypeOK'
    BY <1>10, <1>q, ReaderMoves DEF ReaderRelease, Becomes
  <1>11. ASSUME NEW i \in Reader, ReaderLook(i) PROVE DreamingTypeOK'
    BY <1>11, <1>q, ReaderMoves DEF ReaderLook
  <1>12. CASE WebDies
    <2>1. reader' \in [Reader -> Reading]
      BY <1>12, RestingTypes DEF WebDies
    <2>2. QED BY <1>12, <1>s, <2>1 DEF WebDies
  <1>p. ASSUME said' = said, pass' \in Pass, pass'.to = pass.to, pass'.reading = pass.reading,
               checkpoint' = checkpoint, torn' \in BOOLEAN, staged' \subseteq Record,
               nothing' \in {nothing, nothing \cup pass.reading},
               UNCHANGED <<queue, tries, captured, live, reader, deaths>>
        PROVE  DreamingTypeOK'
    BY <1>p, <1>s
  <1>13. CASE PassBegin
    <2>1. PICK n \in BatchEnds : pass' = [Resting EXCEPT !.pc = "leave", !.first = checkpoint + 1, !.to = n]
      BY <1>13, Zenon DEF PassBegin, Behind
    <2>2. n \in Nat /\ n <= Len(said) /\ checkpoint + 1 \in Nat
      BY <1>u DEF BatchEnds, Spoken
    <2>3. pass' \in Pass /\ pass'.to = n /\ pass'.reading = {}
      BY <2>1, <2>2, PassStarts
    <2>4. QED BY <1>13, <1>s, <2>2, <2>3 DEF PassBegin, Behind
  <1>14. CASE PassLeaveOut
    <2>1. CASE pass' = NothingLeft
      BY <1>14, <1>p, <2>1, PassMoves DEF PassLeaveOut, NothingLeft
    <2>2. ASSUME NEW r \in FoundStaged(pass.first), pass' = [pass EXCEPT !.pc = "save", !.to = StagedEnd(r)]
          PROVE  DreamingTypeOK'
      <3>1. r.last \in Nat /\ r.last <= Len(said)
        BY <1>u DEF FoundStaged, BatchesAreRead, Record, Msg
      <3>2. pass' \in Pass /\ pass'.to = r.last /\ pass'.reading = pass.reading
        BY <2>2, <3>1, PassMovesTo DEF StagedEnd
      <3>3. QED BY <1>14, <1>s, <3>1, <3>2 DEF PassLeaveOut
    <2>3. CASE pass' = [pass EXCEPT !.pc = "ask", !.reading = Unread(pass.first, pass.to)]
      <3>1. Unread(pass.first, pass.to) \subseteq Users
        BY DEF Unread
      <3>2. pass' \in Pass /\ pass'.to = pass.to /\ pass'.reading \subseteq Users
        BY <1>u, <2>3, <3>1, PassReads
      <3>3. QED BY <1>14, <1>s, <3>2 DEF PassLeaveOut
    <2>4. QED BY <1>14, <2>1, <2>2, <2>3 DEF PassLeaveOut
  <1>15. CASE PassAsk
    BY <1>15, <1>p, PassMoves DEF PassAsk
  <1>16. CASE PassStage
    <2>0. pass.first = checkpoint + 1 /\ pass.to \in pass.first .. Len(said)
      BY <1>16 DEF PassStage, PassIsTrue
    <2>1. pass.first \in Msg /\ pass.to \in Msg /\ pass.reading \in SUBSET Msg
      BY <1>u, <2>0, DreamingAssumption DEF Msg, Pass
    <2>2. [first |-> pass.first, last |-> pass.to, read |-> pass.reading] \in Record
      BY <2>1 DEF Record
    <2>3. QED BY <1>16, <1>p, <2>2, PassMoves DEF PassStage
  <1>r. Resting.to <= Len(said) /\ Resting.reading \subseteq Users /\ Resting \in Pass
    BY <1>u, RestingTypes DEF Resting
  <1>17. CASE PassGivesUp
    BY <1>17, <1>s, <1>r DEF PassGivesUp
  <1>18. CASE PassOpen
    BY <1>18, <1>p, PassMoves DEF PassOpen
  <1>19. CASE PassWrite
    <2>1. pass.to \in 0 .. Len(said)
      BY <1>u DEF Pass
    <2>2. QED BY <1>19, <1>s, <1>r, <2>1 DEF PassWrite
  <1>20. CASE PassDies
    BY <1>20, <1>s, <1>r DEF PassDies
  <1>21. CASE UNCHANGED dreamVars
    BY <1>21, <1>s DEF dreamVars
  <1>22. QED
    BY <1>1, <1>2, <1>3, <1>4, <1>5, <1>6, <1>7, <1>8, <1>9, <1>10, <1>11, <1>12, <1>13, <1>14, <1>15,
       <1>16, <1>17, <1>18, <1>19, <1>20, <1>21
       DEF DreamingNext, ChatNext, PassStep, ReaderStep

\* One reader moves, and the others stay where they are.
LEMMA ReaderFrame ==
  ASSUME DreamingTypeOK, NEW i \in Reader, NEW pc, Becomes(i, pc), NEW j \in Reader
  PROVE  /\ reader'[j].m = reader[j].m
         /\ reader'[j].pc = IF j = i THEN pc ELSE reader[j].pc
  BY DEF Becomes, DreamingTypeOK, Reading

\* The marks, the queue and the readers' messages agree after every step.
LEMMA MarksStep ==
  DreamingTypeOK /\ MarksAreTrue /\ QueueIsTrue /\ [DreamingNext]_dreamVars => MarksAreTrue' /\ QueueIsTrue'
  <1> SUFFICES ASSUME DreamingTypeOK, MarksAreTrue, QueueIsTrue, [DreamingNext]_dreamVars
               PROVE  MarksAreTrue' /\ QueueIsTrue'
    OBVIOUS
  <1> USE DEF messages, files
  <1>s. ASSUME said' = said PROVE Users' = Users /\ Spoken' = Spoken
    BY <1>s DEF Users, Spoken
  <1>u. Users \subseteq Spoken /\ Spoken \subseteq Msg /\ Len(said) \in Nat
    BY DreamingAssumption DEF Users, Spoken, Msg, DreamingTypeOK
  <1>g. ASSUME NEW kind \in Kinds, said' = Append(said, kind), Len(said) < MaxMessages
        PROVE  /\ Spoken' = Spoken \cup {Len(said) + 1} /\ Len(said) + 1 \in Msg
               /\ Users' = IF kind = "reply" THEN Users ELSE Users \cup {Len(said) + 1}
               /\ Len(said) + 1 \notin Users
    BY <1>g, <1>u, DreamingAssumption DEF Users, Spoken, Msg, DreamingTypeOK
  \* Readers that hold no message: nothing else changes.
  <1>q. ASSUME UNCHANGED <<said, queue, tries, captured, live>>,
               \A j \in Reader : \/ reader'[j] = reader[j]
                                 \/ reader'[j].pc \in {"idle", "take", "loop", "release", "look"}
        PROVE  MarksAreTrue' /\ QueueIsTrue'
    BY <1>q, <1>s DEF MarksAreTrue, QueueIsTrue
  <1>1. ASSUME NEW kind \in Said, Say(kind) PROVE MarksAreTrue' /\ QueueIsTrue'
    <2>1. kind \in Kinds /\ kind # "reply"
      BY DreamingAssumption DEF Kinds
    <2>2. /\ Spoken' = Spoken \cup {Len(said) + 1} /\ Len(said) + 1 \in Msg
          /\ Users' = Users \cup {Len(said) + 1}
      BY <1>1, <1>g, <2>1, RoomForOne DEF Say
    <2>3. queue' = [queue EXCEPT ![Len(said) + 1] = "pending"] /\ queue \in [Msg -> {"none", "pending", "done", "skipped", "failed"}]
      BY <1>1 DEF Say, DreamingTypeOK
    <2>4. QED BY <1>1, <1>u, <2>2, <2>3 DEF Say, MarksAreTrue, QueueIsTrue
  <1>2. ASSUME NEW i \in Reader, Answer(i) PROVE MarksAreTrue' /\ QueueIsTrue'
    <2>1. "reply" \in Kinds
      BY DEF Kinds
    <2>2. /\ Spoken' = Spoken \cup {Len(said) + 1} /\ Len(said) + 1 \in Msg
          /\ Users' = Users /\ Len(said) + 1 \notin Users
      BY <1>2, <1>g, <2>1, RoomForOne DEF Answer
    <2>3. queue[Len(said) + 1] = "none"
      BY <2>2 DEF MarksAreTrue
    <2>4. \A j \in Reader : reader'[j] = reader[j] \/ reader'[j].pc = "take"
      BY <1>2 DEF Answer, DreamingTypeOK, NotReading
    <2>5. QED BY <1>2, <2>2, <2>3, <2>4 DEF Answer, MarksAreTrue, QueueIsTrue
  <1>3. ASSUME NEW i \in Reader, ReaderTake(i) PROVE MarksAreTrue' /\ QueueIsTrue'
    <2>1. \A j \in Reader : reader'[j] = reader[j] \/ reader'[j].pc \in {"idle", "loop"}
      BY <1>3 DEF ReaderTake, DreamingTypeOK, NotReading
    <2>2. QED BY <1>3, <1>q, <2>1 DEF ReaderTake
  <1>4. ASSUME NEW i \in Reader, ReaderNext(i) PROVE MarksAreTrue' /\ QueueIsTrue'
    <2>1. PICK m \in Waiting(i) :
            /\ reader' = [reader EXCEPT ![i] = [pc |-> IF m \notin captured /\ said[m] = "live" THEN "ask" ELSE "loop",
                                                m |-> m, tried |-> @.tried \cup {m}]]
            /\ queue' = [queue EXCEPT ![m] = IF m \in captured THEN "done"
                                             ELSE IF said[m] = "live" THEN @ ELSE "skipped"]
      BY <1>4, Zenon DEF ReaderNext
    <2>2. m \in Users /\ m \in Msg /\ queue[m] = "pending"
      BY <1>u DEF Waiting, Pending, MarksAreTrue
    <2>3. \A j \in Reader : reader'[j] = reader[j] \/ (reader'[j].pc \in {"ask", "loop"} /\ reader'[j].m = m)
      BY <2>1 DEF DreamingTypeOK
    <2>4. UNCHANGED <<said, tries, captured, live>> /\ queue \in [Msg -> {"none", "pending", "done", "skipped", "failed"}]
      BY <1>4 DEF ReaderNext, DreamingTypeOK
    <2>5. MarksAreTrue'
      BY <1>s, <2>1, <2>2, <2>3, <2>4 DEF MarksAreTrue
    <2>6. QueueIsTrue'
      BY <1>s, <1>u, <2>1, <2>2, <2>4 DEF MarksAreTrue, QueueIsTrue
    <2>7. QED BY <2>5, <2>6
  <1>5. ASSUME NEW i \in Reader, ReaderAsk(i) PROVE MarksAreTrue' /\ QueueIsTrue'
    <2>1. \A j \in Reader : /\ reader'[j].m = reader[j].m
                            /\ reader'[j].pc = reader[j].pc \/ (j = i /\ reader'[j].pc \in {"ingest", "settle"})
      BY <1>5, ReaderFrame DEF ReaderAsk
    <2>2. UNCHANGED <<said, queue, tries, captured, live>> /\ reader[i].pc = "ask"
      BY <1>5 DEF ReaderAsk
    <2>3. QED BY <1>s, <2>1, <2>2 DEF MarksAreTrue, QueueIsTrue
  <1>6. ASSUME NEW i \in Reader, ReaderIngest(i) PROVE MarksAreTrue' /\ QueueIsTrue'
    <2>1. \A j \in Reader : /\ reader'[j].m = reader[j].m
                            /\ \/ reader'[j].pc = reader[j].pc
                               \/ j = i /\ reader'[j].pc = "settle"
                               \/ j = i /\ reader'[j].pc = "mark" /\ reader[i].m \in live'
      BY <1>6, ReaderFrame DEF ReaderIngest
    <2>2. UNCHANGED <<said, queue, tries, captured>> /\ live \subseteq live' /\ reader[i].pc = "ingest"
      BY <1>6 DEF ReaderIngest
    <2>3. QED BY <1>s, <2>1, <2>2 DEF MarksAreTrue, QueueIsTrue
  <1>7. ASSUME NEW i \in Reader, ReaderMark(i) PROVE MarksAreTrue' /\ QueueIsTrue'
    <2>1. \A j \in Reader : /\ reader'[j].m = reader[j].m
                            /\ reader'[j].pc = reader[j].pc \/ (j = i /\ reader'[j].pc = "settle")
      BY <1>7, ReaderFrame DEF ReaderMark
    <2>2. /\ UNCHANGED <<said, queue, tries, live>> /\ reader[i].pc = "mark"
          /\ captured' \subseteq captured \cup {reader[i].m}
      BY <1>7 DEF ReaderMark
    <2>3. QED BY <1>s, <2>1, <2>2 DEF MarksAreTrue, QueueIsTrue
  <1>8. ASSUME NEW i \in Reader, ReaderSettle(i) PROVE MarksAreTrue' /\ QueueIsTrue'
    <2> DEFINE m == reader[i].m
    <2>1. \A j \in Reader : reader'[j].m = reader[j].m /\ (reader'[j].pc = reader[j].pc \/ reader'[j].pc = "loop")
      BY <1>8, ReaderFrame DEF ReaderSettle
    <2>2. /\ UNCHANGED <<said, captured, live>> /\ m \in Users /\ m \in Msg
          /\ queue' = [queue EXCEPT ![m] = Settled(m)]
          /\ tries' = IF m \in captured THEN tries ELSE [tries EXCEPT ![m] = @ + 1]
      BY <1>8, <1>u DEF ReaderSettle, MarksAreTrue
    <2>3. tries \in [Msg -> Nat] /\ queue \in [Msg -> {"none", "pending", "done", "skipped", "failed"}]
      BY DEF DreamingTypeOK
    <2>4. MarksAreTrue'
      BY <1>s, <2>1, <2>2, <2>3 DEF MarksAreTrue
    <2>5. ASSUME NEW k \in Spoken', k # m
          PROVE (queue'[k] = "done" => k \in live') /\ (queue'[k] = "failed" => tries'[k] >= MaxTries)
      BY <1>s, <1>u, <2>2, <2>3, <2>5 DEF QueueIsTrue
    <2>6. (queue'[m] = "done" => m \in live') /\ (queue'[m] = "failed" => tries'[m] >= MaxTries)
      BY <1>s, <1>u, <2>2, <2>3 DEF Settled, MarksAreTrue
    <2>7. QueueIsTrue'
      BY <2>5, <2>6 DEF QueueIsTrue
    <2>8. QED BY <2>4, <2>7
  <1>9. ASSUME NEW i \in Reader, ReaderEmpty(i) PROVE MarksAreTrue' /\ QueueIsTrue'
    <2>1. \A j \in Reader : reader'[j] = reader[j] \/ reader'[j].pc = "release"
      BY <1>9 DEF ReaderEmpty, Becomes, DreamingTypeOK, Reading
    <2>2. QED BY <1>9, <1>q, <2>1 DEF ReaderEmpty
  <1>10. ASSUME NEW i \in Reader, ReaderRelease(i) PROVE MarksAreTrue' /\ QueueIsTrue'
    <2>1. \A j \in Reader : reader'[j] = reader[j] \/ reader'[j].pc = "look"
      BY <1>10 DEF ReaderRelease, Becomes, DreamingTypeOK, Reading
    <2>2. QED BY <1>10, <1>q, <2>1 DEF ReaderRelease
  <1>11. ASSUME NEW i \in Reader, ReaderLook(i) PROVE MarksAreTrue' /\ QueueIsTrue'
    <2>1. \A j \in Reader : reader'[j] = reader[j] \/ reader'[j].pc \in {"idle", "take"}
      BY <1>11 DEF ReaderLook, DreamingTypeOK, NotReading
    <2>2. QED BY <1>11, <1>q, <2>1 DEF ReaderLook
  <1>12. CASE WebDies
    BY <1>12, <1>q DEF WebDies, NotReading
  <1>13. CASE PassStep \/ PassDies
    BY <1>13, <1>q DEF PassStep, PassBegin, PassLeaveOut, PassAsk, PassStage, PassGivesUp, PassOpen,
                       PassWrite, PassDies
  <1>14. CASE UNCHANGED dreamVars
    BY <1>14, <1>q DEF dreamVars
  <1>15. QED
    BY <1>1, <1>2, <1>3, <1>4, <1>5, <1>6, <1>7, <1>8, <1>9, <1>10, <1>11, <1>12, <1>13, <1>14
       DEF DreamingNext, ChatNext, ReaderStep

\* What is said, answered or read live leaves the pass and what it staged as they are.
LEMMA ChatKeeps ==
  ASSUME DreamingTypeOK, NothingLost, StagedOnce, BatchesAreRead, PassIsTrue,
         UNCHANGED <<staged, checkpoint, pass, nothing>>, live \subseteq live',
         said' = said \/ \E kind \in Kinds : said' = Append(said, kind)
  PROVE  NothingLost' /\ StagedOnce' /\ BatchesAreRead' /\ PassIsTrue'
  <1>t. /\ said \in Seq(Kinds) /\ Len(said) \in Nat /\ checkpoint \in 0 .. Len(said)
        /\ staged \subseteq Record /\ pass \in Pass
    BY DEF DreamingTypeOK
  <1>s. Len(said') >= Len(said) /\ Len(said') \in Nat /\ \A m \in Spoken : m \in Spoken' /\ said'[m] = said[m]
    BY <1>t, SaidGrows DEF Spoken
  <1>a. ASSUME NEW m \in Spoken, Accounted(m) PROVE Accounted(m)'
    BY <1>a, <1>s, AccountedStays
  <1>f. ASSUME NEW n \in Nat, n <= Len(said), Fits(n) PROVE Fits(n)'
    <2>1. CASE said' = said
      BY <1>f, <2>1 DEF Fits, Users, Spoken
    <2>2. CASE \E kind \in Kinds : said' = Append(said, kind)
      BY <1>f, <1>t, <2>2, FitsStays
    <2>3. QED BY <2>1, <2>2
  <1>1. NothingLost'
    BY <1>t, <1>s, <1>a DEF NothingLost, Spoken
  <1>2. StagedOnce'
    BY DEF StagedOnce
  <1>3. BatchesAreRead'
    <2> SUFFICES ASSUME NEW r \in staged
                 PROVE  /\ r.first <= r.last /\ r.last <= Len(said')
                        /\ \A m \in r.first .. r.last : Accounted(m)'
                        /\ r.last <= checkpoint \/ (r.first = checkpoint + 1 /\ Fits(r.last)')
      BY DEF BatchesAreRead
    <2>1. r.first \in Nat \ {0} /\ r.last \in Nat
      BY <1>t DEF Record, Msg
    <2>2. r.first .. r.last \subseteq Spoken
      BY <1>t, <2>1 DEF BatchesAreRead, Spoken
    <2>3. QED BY <1>t, <1>s, <1>a, <1>f, <2>1, <2>2 DEF BatchesAreRead
  <1>4. PassIsTrue'
    <2> SUFFICES ASSUME pass.pc # "idle" PROVE PassIsTrue'
      BY DEF PassIsTrue
    <2>1. pass.first .. pass.to \subseteq Spoken /\ pass.to \in Nat /\ pass.to <= Len(said)
      BY <1>t DEF PassIsTrue, Spoken, Pass
    <2>2. pass.to \in pass.first .. Len(said')
      BY <1>t, <1>s, <2>1 DEF PassIsTrue
    <2>3. pass.pc \in {"leave", "ask", "stage"} => Fits(pass.to)'
      BY <1>f, <2>1 DEF PassIsTrue
    <2>4. \A m \in pass.first .. pass.to : Accounted(m) => Accounted(m)'
      BY <1>a, <2>1
    <2>5. FoundStaged(pass.first)' = FoundStaged(pass.first)
      BY DEF FoundStaged
    <2>6. QED BY <2>2, <2>3, <2>4, <2>5 DEF PassIsTrue
  <1>5. QED BY <1>1, <1>2, <1>3, <1>4

\* A step of the pass that moves neither the checkpoint nor what is staged.
LEMMA PassKeeps ==
  ASSUME DreamingTypeOK, NothingLost, StagedOnce, BatchesAreRead,
         UNCHANGED <<said, live, staged, checkpoint>>, nothing \subseteq nothing'
  PROVE  NothingLost' /\ StagedOnce' /\ BatchesAreRead'
  <1>a. ASSUME NEW m, Accounted(m) PROVE Accounted(m)'
    BY <1>a, AccountedStays
  <1>f. ASSUME NEW n PROVE Fits(n)' = Fits(n)
    BY DEF Fits, Users, Spoken
  <1>1. NothingLost'
    BY <1>a DEF NothingLost, Spoken
  <1>2. StagedOnce'
    BY DEF StagedOnce
  <1>3. BatchesAreRead'
    BY <1>a, <1>f DEF BatchesAreRead
  <1>4. QED BY <1>1, <1>2, <1>3

\* The pass: what it knows of its batch holds at each of its steps, what it stages
\* was read and overlaps nothing, and the checkpoint moves over what is accounted for.
LEMMA PassBatchStep ==
  ASSUME DreamingTypeOK, NothingLost, StagedOnce, MarksAreTrue, BatchesAreRead, PassIsTrue,
         PassStep \/ PassDies
  PROVE  NothingLost' /\ StagedOnce' /\ BatchesAreRead' /\ PassIsTrue'
  <1> USE DEF messages, files
  <1>t. /\ said \in Seq(Kinds) /\ Len(said) \in Nat /\ checkpoint \in 0 .. Len(said)
        /\ staged \subseteq Record /\ pass \in Pass /\ pass.to \in Nat
    BY DEF DreamingTypeOK, Pass
  <1>r. ASSUME NEW r \in staged
        PROVE  /\ r.first \in Nat \ {0} /\ r.last \in Nat /\ r.first <= r.last /\ r.last <= Len(said)
               /\ \A m \in r.first .. r.last : Accounted(m)
               /\ r.last <= checkpoint \/ (r.first = checkpoint + 1 /\ Fits(r.last))
    BY <1>r, <1>t DEF BatchesAreRead, Record, Msg
  <1>i. ASSUME pass' = Resting PROVE PassIsTrue'
    BY <1>i DEF PassIsTrue, Resting
  <1>f. ASSUME said' = said, checkpoint' = checkpoint PROVE \A n : Fits(n)' = Fits(n)
    BY <1>f DEF Fits, Users, Spoken
  <1>1. CASE PassBegin
    <2>1. PICK n \in BatchEnds : pass' = [Resting EXCEPT !.pc = "leave", !.first = checkpoint + 1, !.to = n]
      BY <1>1, Zenon DEF PassBegin, Behind
    <2>2. /\ n \in Nat /\ n <= Len(said) /\ Fits(n) /\ \A k \in Spoken : Fits(k) => k <= n
      BY <1>t DEF BatchEnds, Spoken
    <2>3. pass'.pc = "leave" /\ pass'.first = checkpoint + 1 /\ pass'.to = n
      <3>1. checkpoint + 1 \in Nat /\ n \in Nat
        BY <1>t, <2>2
      <3>2. QED BY <2>1, <3>1, PassStarts
    <2>4. checkpoint + 1 \in Spoken
      BY <1>1, <1>t DEF PassBegin, Behind, Users, Spoken
    <2>5. checkpoint + 1 <= n
      BY <1>t, <2>2, <2>4, FitsOne
    <2>6. ASSUME NEW r \in staged, r.first = checkpoint + 1 PROVE r.last <= n
      <3>1. r.last \in Spoken /\ Fits(r.last)
        BY <1>t, <1>r, <2>6 DEF Spoken
      <3>2. QED BY <2>2, <3>1
    <2>7. UNCHANGED <<said, live, staged, checkpoint, nothing>>
      BY <1>1 DEF PassBegin, Behind
    <2>8. Fits(n)'
      BY <1>f, <2>2, <2>7
    <2>9. PassIsTrue'
      BY <1>t, <2>2, <2>3, <2>5, <2>6, <2>7, <2>8 DEF PassIsTrue
    <2>10. QED BY <2>7, <2>9, PassKeeps
  <1>p. ASSUME pass.pc # "idle"
        PROVE  /\ pass.first = checkpoint + 1 /\ pass.to \in pass.first .. Len(said)
               /\ \A r \in staged : r.first = pass.first => r.last <= pass.to
               /\ pass.first .. pass.to \subseteq Spoken
    BY <1>p, <1>t DEF PassIsTrue, Spoken
  <1>2. CASE PassLeaveOut
    <2>0. UNCHANGED <<said, live, staged, checkpoint, nothing>> /\ pass.pc = "leave" /\ Fits(pass.to)
      BY <1>2 DEF PassLeaveOut, PassIsTrue
    <2>1. /\ NothingLost' /\ StagedOnce' /\ BatchesAreRead'
          /\ \A m : Accounted(m)' = Accounted(m)
          /\ \A n : Fits(n)' = Fits(n)
      <3>1. \A m : Accounted(m)' = Accounted(m)
        BY <2>0 DEF Accounted, StagedRead
      <3>2. QED BY <1>f, <2>0, <3>1, PassKeeps
    <2>2. ASSUME NEW m \in pass.first .. pass.to, m \notin Unread(pass.first, pass.to) PROVE Accounted(m)
      BY <1>p, <2>0, <2>2 DEF Unread, Users, Accounted, MarksAreTrue
    <2>3. CASE Unread(pass.first, pass.to) = {} /\ pass' = NothingLeft
      <3>1. pass'.pc = "save" /\ pass'.first = pass.first /\ pass'.to = pass.to
        BY <1>t, <2>3, PassMoves DEF NothingLeft
      <3>2. PassIsTrue'
        BY <1>p, <2>0, <2>1, <2>2, <2>3, <3>1 DEF PassIsTrue
      <3>3. QED BY <2>1, <3>2
    <2>4. ASSUME NEW r \in FoundStaged(pass.first), pass' = [pass EXCEPT !.pc = "save", !.to = StagedEnd(r)]
          PROVE  PassIsTrue'
      <3>1. r \in staged /\ r.first = pass.first /\ r.last \in Nat
        BY <1>r DEF FoundStaged
      <3>2. pass'.pc = "save" /\ pass'.first = pass.first /\ pass'.to = r.last
        BY <1>t, <2>4, <3>1, PassMovesTo DEF StagedEnd
      <3>3. ASSUME NEW q \in staged, q.first = r.first PROVE q = r
        BY <1>r, <3>1, <3>3 DEF StagedOnce
      <3>4. r.last \in r.first .. Len(said) /\ \A m \in r.first .. r.last : Accounted(m)
        BY <1>r, <1>t, <3>1
      <3>5. QED BY <1>p, <2>0, <2>1, <3>1, <3>2, <3>3, <3>4 DEF PassIsTrue
    <2>5. CASE /\ FoundStaged(pass.first) = {}
               /\ pass' = [pass EXCEPT !.pc = "ask", !.reading = Unread(pass.first, pass.to)]
      <3>1. Unread(pass.first, pass.to) \subseteq Msg
        BY <1>p, <1>t, <2>0, DreamingAssumption DEF Unread, Users, Spoken, Msg, DreamingTypeOK
      <3>2. /\ pass'.pc = "ask" /\ pass'.first = pass.first /\ pass'.to = pass.to
            /\ pass'.reading = Unread(pass.first, pass.to)
        BY <1>t, <2>5, <3>1, PassReads
      <3>3. PassIsTrue'
        BY <1>p, <2>0, <2>1, <2>2, <2>5, <3>2 DEF PassIsTrue, FoundStaged
      <3>4. QED BY <2>1, <3>3
    <2>6. QED BY <1>2, <2>1, <2>3, <2>4, <2>5 DEF PassLeaveOut
  <1>3. CASE PassAsk
    <2>0. /\ UNCHANGED <<said, live, staged, checkpoint>> /\ nothing \subseteq nothing' /\ pass.pc = "ask"
          /\ Fits(pass.to) /\ FoundStaged(pass.first) = {}
          /\ \A m \in pass.first .. pass.to : Accounted(m) \/ m \in pass.reading
      BY <1>3 DEF PassAsk, PassIsTrue
    <2>1. /\ NothingLost' /\ StagedOnce' /\ BatchesAreRead'
          /\ \A m : Accounted(m) => Accounted(m)'
          /\ \A n : Fits(n)' = Fits(n)
      <3>1. \A m : Accounted(m) => Accounted(m)'
        BY <2>0 DEF Accounted, StagedRead
      <3>2. QED BY <1>f, <2>0, <3>1, PassKeeps
    <2>2. CASE pass' = [pass EXCEPT !.pc = "stage"]
      <3>1. /\ pass'.pc = "stage" /\ pass'.first = pass.first /\ pass'.to = pass.to
            /\ pass'.reading = pass.reading
        BY <1>t, <2>2, PassMoves
      <3>2. PassIsTrue'
        BY <1>p, <2>0, <2>1, <3>1 DEF PassIsTrue, FoundStaged
      <3>3. QED BY <2>1, <3>2
    <2>3. CASE pass' = [pass EXCEPT !.pc = "save"] /\ nothing' = nothing \cup pass.reading
      <3>1. pass'.pc = "save" /\ pass'.first = pass.first /\ pass'.to = pass.to
        BY <1>t, <2>3, PassMoves
      <3>2. \A m \in pass.first .. pass.to : Accounted(m)'
        BY <2>0, <2>1, <2>3 DEF Accounted
      <3>3. PassIsTrue'
        BY <1>p, <2>0, <3>1, <3>2 DEF PassIsTrue
      <3>4. QED BY <2>1, <3>3
    <2>4. QED BY <1>3, <2>2, <2>3 DEF PassAsk
  <1>4. CASE PassStage
    <2> DEFINE new == [first |-> pass.first, last |-> pass.to, read |-> pass.reading]
    <2>0. /\ UNCHANGED <<said, live, checkpoint, nothing>> /\ pass.pc = "stage" /\ Fits(pass.to)
          /\ FoundStaged(pass.first) = {} /\ staged' = staged \cup {new}
          /\ pass' = [pass EXCEPT !.pc = "save"]
          /\ \A m \in pass.first .. pass.to : Accounted(m) \/ m \in pass.reading
      BY <1>4 DEF PassStage, PassIsTrue
    <2>1. pass'.pc = "save" /\ pass'.first = pass.first /\ pass'.to = pass.to
      BY <1>t, <2>0, PassMoves
    <2>2. new.first = pass.first /\ new.last = pass.to /\ new.read = pass.reading
      OBVIOUS
    <2> HIDE DEF new
    <2>3. ASSUME NEW m, Accounted(m) PROVE Accounted(m)'
      BY <2>0, <2>3, AccountedStays
    <2>4. pass.reading \subseteq StagedRead'
      BY <2>0, <2>2 DEF StagedRead
    <2>5. \A m \in pass.first .. pass.to : Accounted(m)'
      BY <2>0, <2>3, <2>4 DEF Accounted
    <2>6. \A r \in staged : r.last < pass.first
      BY <1>p, <1>r, <1>t, <2>0 DEF FoundStaged
    <2>7. StagedOnce'
      BY <2>0, <2>2, <2>6 DEF StagedOnce
    <2>8. BatchesAreRead'
      <3>1. ASSUME NEW r \in staged
            PROVE  /\ r.first <= r.last /\ r.last <= Len(said') /\ \A m \in r.first .. r.last : Accounted(m)'
                   /\ r.last <= checkpoint' \/ (r.first = checkpoint' + 1 /\ Fits(r.last)')
        BY <1>f, <1>r, <2>0, <2>3
      <3>2. /\ new.first <= new.last /\ new.last <= Len(said') /\ \A m \in new.first .. new.last : Accounted(m)'
            /\ new.first = checkpoint' + 1
        BY <1>p, <1>t, <2>0, <2>2, <2>5
      <3>f. \A n : Fits(n)' = Fits(n)
        BY <1>f, <2>0
      <3>3. QED BY <2>0, <2>2, <3>f, <3>1, <3>2 DEF BatchesAreRead
    <2>9. NothingLost'
      BY <2>0, <2>3 DEF NothingLost, Spoken
    <2>10. \A r \in staged' : r.first = pass.first => r.last <= pass.to
      BY <1>p, <1>t, <2>0, <2>2
    <2>11. PassIsTrue'
      BY <1>p, <2>0, <2>1, <2>5, <2>10 DEF PassIsTrue
    <2>12. QED BY <2>7, <2>8, <2>9, <2>11
  <1>5. CASE PassGivesUp
    <2>1. UNCHANGED <<said, live, staged, checkpoint, nothing>> /\ pass' = Resting
      BY <1>5 DEF PassGivesUp
    <2>2. QED BY <1>i, <2>1, PassKeeps
  <1>6. CASE PassOpen
    <2>0. /\ UNCHANGED <<said, live, staged, checkpoint, nothing>> /\ pass.pc = "save"
          /\ pass' = [pass EXCEPT !.pc = "write"] /\ \A m \in pass.first .. pass.to : Accounted(m)
      BY <1>6 DEF PassOpen, PassIsTrue
    <2>1. /\ NothingLost' /\ StagedOnce' /\ BatchesAreRead' /\ \A m : Accounted(m)' = Accounted(m)
      BY <2>0, PassKeeps DEF Accounted, StagedRead
    <2>2. pass'.pc = "write" /\ pass'.first = pass.first /\ pass'.to = pass.to
      BY <1>t, <2>0, PassMoves
    <2>3. PassIsTrue'
      BY <1>p, <2>0, <2>1, <2>2 DEF PassIsTrue
    <2>4. QED BY <2>1, <2>3
  <1>7. CASE PassWrite
    <2>0. /\ UNCHANGED <<said, live, staged, nothing>> /\ pass.pc = "write" /\ pass' = Resting
          /\ checkpoint' = pass.to /\ \A m \in pass.first .. pass.to : Accounted(m)
      BY <1>7 DEF PassWrite, PassIsTrue
    <2>1. \A m : Accounted(m)' = Accounted(m)
      BY <2>0 DEF Accounted, StagedRead
    <2>2. NothingLost'
      BY <1>p, <1>t, <2>0, <2>1 DEF NothingLost, Spoken
    <2>3. StagedOnce'
      BY <2>0 DEF StagedOnce
    <2>4. \A r \in staged : r.last <= pass.to
      BY <1>p, <1>r, <1>t, <2>0
    <2>5. BatchesAreRead'
      BY <1>r, <2>0, <2>1, <2>4 DEF BatchesAreRead
    <2>6. QED BY <1>i, <2>0, <2>2, <2>3, <2>5
  <1>8. CASE PassDies
    <2>1. UNCHANGED <<said, live, staged, checkpoint, nothing>> /\ pass' = Resting
      BY <1>8 DEF PassDies
    <2>2. QED BY <1>i, <2>1, PassKeeps
  <1>9. QED BY <1>1, <1>2, <1>3, <1>4, <1>5, <1>6, <1>7, <1>8 DEF PassStep

\* Every step keeps the invariant.
LEMMA InvStep == DreamingInv /\ [DreamingNext]_dreamVars => DreamingInv'
  <1> SUFFICES ASSUME DreamingInv, [DreamingNext]_dreamVars PROVE DreamingInv'
    OBVIOUS
  <1>1. DreamingTypeOK' /\ MarksAreTrue' /\ QueueIsTrue'
    BY TypeStep, MarksStep DEF DreamingInv
  <1>2. NothingLost' /\ StagedOnce' /\ BatchesAreRead' /\ PassIsTrue'
    <2>1. CASE PassStep \/ PassDies
      BY <2>1, PassBatchStep DEF DreamingInv
    <2>2. ASSUME UNCHANGED <<staged, checkpoint, pass, nothing>>, live \subseteq live',
                 said' = said \/ \E kind \in Kinds : said' = Append(said, kind)
          PROVE  NothingLost' /\ StagedOnce' /\ BatchesAreRead' /\ PassIsTrue'
      BY <2>2, ChatKeeps DEF DreamingInv
    <2>3. ASSUME NEW kind \in Said, Say(kind)
          PROVE  NothingLost' /\ StagedOnce' /\ BatchesAreRead' /\ PassIsTrue'
      BY <2>2, <2>3, DreamingAssumption DEF Say, Kinds, files
    <2>4. ASSUME NEW i \in Reader, Answer(i)
          PROVE  NothingLost' /\ StagedOnce' /\ BatchesAreRead' /\ PassIsTrue'
      BY <2>2, <2>4 DEF Answer, Kinds, files
    <2>5. ASSUME NEW i \in Reader, ReaderStep(i)
          PROVE  NothingLost' /\ StagedOnce' /\ BatchesAreRead' /\ PassIsTrue'
      BY <2>2, <2>5 DEF ReaderStep, ReaderTake, ReaderNext, ReaderAsk, ReaderIngest, ReaderMark,
                        ReaderSettle, ReaderEmpty, ReaderRelease, ReaderLook, messages, files
    <2>6. CASE WebDies \/ UNCHANGED dreamVars
      BY <2>2, <2>6 DEF WebDies, dreamVars, messages, files
    <2>7. QED BY <2>1, <2>3, <2>4, <2>5, <2>6 DEF DreamingNext, ChatNext
  <1>3. QED BY <1>1, <1>2 DEF DreamingInv

\* With nothing said, nothing is staged, marked or queued.
LEMMA InvInit == DreamingInit => DreamingInv
  <1> SUFFICES ASSUME DreamingInit PROVE DreamingInv
    OBVIOUS
  <1> USE DEF DreamingInit
  <1>1. said \in Seq(Kinds) /\ Len(said) = 0 /\ Spoken = {} /\ Users = {}
    BY DEF Spoken, Users
  <1>2. reader \in [Reader -> Reading] /\ \A i \in Reader : reader[i].pc = "idle"
    BY RestingTypes DEF NotReading
  <1>3. pass \in Pass /\ pass.pc = "idle" /\ pass.to = 0 /\ pass.reading = {}
    BY RestingTypes DEF Resting
  <1>4. DreamingTypeOK
    <2>1. captured \subseteq Users /\ live \subseteq Users /\ nothing \subseteq Users /\ staged \subseteq Record
      OBVIOUS
    <2>2. checkpoint \in 0 .. Len(said) /\ Len(said) <= MaxMessages
      BY <1>1, DreamingAssumption
    <2>t. torn \in BOOLEAN
      BY Zenon
    <2>3. /\ queue \in [Msg -> {"none", "pending", "done", "skipped", "failed"}]
          /\ tries \in [Msg -> Nat] /\ deaths \in [{"pass", "web"} -> Nat]
      OBVIOUS
    <2>4. QED BY <1>1, <1>2, <1>3, <2>1, <2>2, <2>3, <2>t DEF DreamingTypeOK
  <1>5. NothingLost /\ StagedOnce /\ QueueIsTrue /\ MarksAreTrue /\ BatchesAreRead /\ PassIsTrue
    BY <1>1, <1>2, <1>3 DEF NothingLost, StagedOnce, QueueIsTrue, MarksAreTrue, BatchesAreRead, PassIsTrue
  <1>6. QED BY <1>4, <1>5 DEF DreamingInv

\* The invariant holds of every state the two processes can reach, whenever either
\* dies (diya_web.read_for_facts, dreaming.dream_cycle).
THEOREM DreamingInvariant == DreamingSpec => []DreamingInv
  <1>1. DreamingInit => DreamingInv
    BY InvInit
  <1>2. DreamingInv /\ [DreamingNext]_dreamVars => DreamingInv'
    BY InvStep
  <1>3. QED BY <1>1, <1>2, PTL DEF DreamingSpec

\* Every variable keeps its type: the checkpoint and a pass's batch stay within what
\* was said, and what is marked, read or left is the person's own.
THEOREM DreamingTypeCorrect == DreamingSpec => []DreamingTypeOK
  <1>1. DreamingInv => DreamingTypeOK
    BY DEF DreamingInv
  <1>2. QED BY <1>1, DreamingInvariant, PTL

\* However the pass and the service are interleaved or cut short, the checkpoint
\* (save_last_dreamed_id) never passes a message that nobody read.
THEOREM NothingIsLost == DreamingSpec => []NothingLost
  <1>1. DreamingInv => NothingLost
    BY DEF DreamingInv
  <1>2. QED BY <1>1, DreamingInvariant, PTL

\* No two records of dream_pending.jsonl cover the same message (dream_cycle finds
\* the record a pass that died had written, and goes on after it).
THEOREM StagedOnlyOnce == DreamingSpec => []StagedOnce
  <1>1. DreamingInv => StagedOnce
    BY DEF DreamingInv
  <1>2. QED BY <1>1, DreamingInvariant, PTL

\* A message marked done in capture_queue was read into memory, and one marked
\* failed was tried MAX_CAPTURE_TRIES times (diya_web.read_one).
THEOREM QueueTellsTruth == DreamingSpec => []QueueIsTrue
  <1>1. DreamingInv => QueueIsTrue
    BY DEF DreamingInv
  <1>2. QED BY <1>1, DreamingInvariant, PTL

-------------------------------------------------------------------------------
(* The readers: what was answered is covered by a reader that is still under way. *)

Working(i) == reader[i].pc \in {"ask", "ingest", "mark", "settle"}
Untried(m) == queue[m] = "pending" /\ tries[m] = 0

\* What a reader has tried is on its record, or is what it is at.
TriedOnRecord(i) ==
  /\ reader[i].tried \subseteq Spoken
  /\ reader[i].pc \in {"idle", "take"} => reader[i].tried = {}
  /\ \A m \in reader[i].tried : Untried(m) => Working(i) /\ reader[i].m = m

\* A reader that is under way comes to m, or is at it.
Covers(i, m) == reader[i].pc # "idle" /\ (m \in reader[i].tried => Working(i) /\ reader[i].m = m)

Coverage == /\ \A i \in Reader : TriedOnRecord(i)
            /\ deaths["web"] = 0 =>
                 \A m \in Users : Replied(m) /\ Untried(m) => \E i \in Reader : Covers(i, m)

\* A step that changes no message: nothing becomes untried, and who covered a message does
\* so still, or another reader does.
LEMMA CoverageKeeps ==
  ASSUME DreamingTypeOK, Coverage, said' = said, deaths'["web"] = 0 => deaths["web"] = 0,
         \A m \in Spoken : Untried(m)' => Untried(m),
         \A i \in Reader : TriedOnRecord(i)',
         \A i \in Reader, m \in Users : Covers(i, m) /\ Untried(m) /\ Untried(m)' => \E j \in Reader : Covers(j, m)'
  PROVE  Coverage'
  <1>1. Users' = Users /\ Users \subseteq Spoken /\ \A m \in Users : Replied(m)' = Replied(m)
    BY DEF Users, Spoken, Replied
  <1>2. ASSUME deaths'["web"] = 0, NEW m \in Users, Replied(m)', Untried(m)'
        PROVE  \E j \in Reader : Covers(j, m)'
    <2>1. Untried(m) /\ Replied(m) /\ deaths["web"] = 0
      BY <1>1, <1>2
    <2>2. PICK i \in Reader : Covers(i, m)
      BY <2>1 DEF Coverage
    <2>3. QED BY <1>2, <2>1, <2>2
  <1>3. QED BY <1>1, <1>2 DEF Coverage

\* A reader's own step, when the queue and the other readers stay as they are.
LEMMA ReaderMovesOn ==
  ASSUME DreamingTypeOK, Coverage, UNCHANGED <<messages, deaths>>, NEW i \in Reader,
         \A j \in Reader \ {i} : reader'[j] = reader[j], TriedOnRecord(i)',
         \A m \in Users : Covers(i, m) /\ Untried(m) => \E j \in Reader : Covers(j, m)'
  PROVE  Coverage'
  <1>1. \A m : Untried(m)' = Untried(m)
    BY DEF Untried, messages
  <1>2. \A j \in Reader \ {i} : TriedOnRecord(j)'
    BY <1>1 DEF Coverage, TriedOnRecord, Working, Spoken, messages
  <1>3. \A j \in Reader \ {i} : \A m : Covers(j, m) => Covers(j, m)'
    BY DEF Covers, Working
  <1>4. QED BY <1>1, <1>2, <1>3, CoverageKeeps DEF messages

LEMMA ReaderStepsCover ==
  ASSUME DreamingTypeOK, Coverage, CaptureBatch >= MaxMessages, NEW i \in Reader, ReaderStep(i)
  PROVE  Coverage'
  <1>1. /\ reader[i] \in Reading /\ reader \in [Reader -> Reading] /\ TriedOnRecord(i)
        /\ \A m \in Users : m \in Spoken /\ m \in Msg
        /\ \A m \in Spoken : m \in Msg
        /\ queue \in [Msg -> {"none", "pending", "done", "skipped", "failed"}] /\ tries \in [Msg -> Nat]
    BY DreamingAssumption DEF DreamingTypeOK, Coverage, Users, Spoken, Msg
  <1>2. CASE ReaderTake(i)
    <2>1. UNCHANGED <<messages, deaths>> /\ reader[i].pc = "take" /\ reader[i].tried = {}
      BY <1>1, <1>2 DEF ReaderTake, TriedOnRecord
    <2>2. CASE \E j \in Reader : Holds(j)
      <3>1. PICK j \in Reader : Holds(j)
        BY <2>2
      <3>2. reader' = [reader EXCEPT ![i] = NotReading] /\ j # i
        BY <1>2, <2>1, <3>1 DEF ReaderTake, Holds
      <3>3. \A m \in Users : Untried(m) => Covers(j, m)'
        BY <1>1, <3>1, <3>2 DEF Coverage, TriedOnRecord, Covers, Holds, Working
      <3>4. TriedOnRecord(i)' /\ \A k \in Reader \ {i} : reader'[k] = reader[k]
        BY <1>1, <3>2 DEF TriedOnRecord, NotReading
      <3>5. QED BY <2>1, <3>3, <3>4, ReaderMovesOn
    <2>3. CASE ~\E j \in Reader : Holds(j)
      <3>1. reader' = [reader EXCEPT ![i] = [NotReading EXCEPT !.pc = "loop"]]
        BY <1>2, <2>3 DEF ReaderTake
      <3>2. reader'[i].pc = "loop" /\ reader'[i].tried = {} /\ \A k \in Reader \ {i} : reader'[k] = reader[k]
        BY <1>1, <3>1 DEF NotReading
      <3>3. TriedOnRecord(i)' /\ \A m \in Users : Covers(i, m)'
        BY <3>2 DEF TriedOnRecord, Covers
      <3>4. QED BY <2>1, <3>2, <3>3, ReaderMovesOn
    <2>4. QED BY <2>2, <2>3
  <1>3. CASE ReaderNext(i)
    <2>1. PICK m \in Waiting(i) :
            /\ reader' = [reader EXCEPT ![i] = [pc |-> IF m \notin captured /\ said[m] = "live" THEN "ask" ELSE "loop",
                                                m |-> m, tried |-> reader[i].tried \cup {m}]]
            /\ queue' = [queue EXCEPT ![m] = IF m \in captured THEN "done"
                                             ELSE IF said[m] = "live" THEN queue[m] ELSE "skipped"]
      BY <1>1, <1>3 DEF ReaderNext
    <2>2. UNCHANGED <<said, tries, deaths>> /\ reader[i].pc = "loop" /\ m \in Spoken /\ m \in Msg
      BY <1>1, <1>3 DEF ReaderNext, Waiting, Pending
    <2>3. /\ reader'[i].tried = reader[i].tried \cup {m} /\ reader'[i].m = m
          /\ reader'[i].pc \in {"ask", "loop"} /\ (Untried(m)' => reader'[i].pc = "ask")
          /\ \A k \in Reader \ {i} : reader'[k] = reader[k]
          /\ \A n \in Msg \ {m} : queue'[n] = queue[n]
      BY <1>1, <2>1, <2>2 DEF Untried
    <2>4. \A n \in Msg : Untried(n)' => Untried(n)
      BY <1>1, <2>1, <2>2, <2>3 DEF Untried
    <2>5. ASSUME NEW k \in Reader PROVE TriedOnRecord(k)'
      <3>1. CASE k = i
        BY <1>1, <2>2, <2>3, <2>4, <3>1 DEF TriedOnRecord, Working, Spoken
      <3>2. CASE k # i
        BY <1>1, <2>2, <2>3, <2>4, <3>2 DEF Coverage, TriedOnRecord, Working, Spoken
      <3>3. QED BY <3>1, <3>2
    <2>6. ASSUME NEW k \in Reader, NEW n \in Users, Covers(k, n), Untried(n)' PROVE \E j \in Reader : Covers(j, n)'
      <3>1. CASE k = i
        BY <2>2, <2>3, <2>6, <3>1 DEF Covers, Working
      <3>2. CASE k # i
        BY <2>3, <2>6, <3>2 DEF Covers, Working
      <3>3. QED BY <3>1, <3>2
    <2>7. QED BY <1>1, <2>2, <2>4, <2>5, <2>6, CoverageKeeps
  <1>4. ASSUME NEW pc, reader' = [reader EXCEPT ![i].pc = pc], UNCHANGED <<messages, deaths>>,
               reader[i].pc # "take" /\ reader[i].pc # "idle" /\ pc \notin {"idle", "take"},
               Working(i) => pc \in {"ask", "ingest", "mark", "settle"}
        PROVE  Coverage'
    <2>1. /\ reader'[i].pc = pc /\ reader'[i].tried = reader[i].tried /\ reader'[i].m = reader[i].m
          /\ \A k \in Reader \ {i} : reader'[k] = reader[k]
      BY <1>1, <1>4 DEF Reading
    <2>2. \A m : Untried(m)' = Untried(m)
      BY <1>4 DEF Untried, messages
    <2>3. TriedOnRecord(i)'
      BY <1>1, <1>4, <2>1, <2>2 DEF TriedOnRecord, Working, Spoken, messages
    <2>4. \A m \in Users : Covers(i, m) => Covers(i, m)'
      BY <1>4, <2>1 DEF Covers, Working
    <2>5. QED BY <1>4, <2>1, <2>3, <2>4, ReaderMovesOn
  <1>5. CASE ReaderAsk(i) \/ ReaderIngest(i) \/ ReaderMark(i)
    BY <1>4, <1>5 DEF ReaderAsk, ReaderIngest, ReaderMark, Becomes, Working
  <1>6. CASE ReaderEmpty(i) \/ ReaderRelease(i)
    BY <1>4, <1>6 DEF ReaderEmpty, ReaderRelease, Becomes, Working
  <1>7. CASE ReaderSettle(i)
    <2> DEFINE m == reader[i].m
    <2>1. /\ UNCHANGED <<said, deaths>> /\ reader[i].pc = "settle" /\ reader' = [reader EXCEPT ![i].pc = "loop"]
          /\ queue' = [queue EXCEPT ![m] = Settled(m)]
          /\ tries' = IF m \in captured THEN tries ELSE [tries EXCEPT ![m] = @ + 1]
      BY <1>7 DEF ReaderSettle, Becomes
    <2>2. /\ reader'[i].pc = "loop" /\ reader'[i].tried = reader[i].tried
          /\ \A k \in Reader \ {i} : reader'[k] = reader[k]
      BY <1>1, <2>1 DEF Reading
    <2>3. \A n \in Msg : (Untried(n)' => Untried(n)) /\ (n = m => ~Untried(n)')
      BY <1>1, <2>1 DEF Untried, Settled
    <2>4. ASSUME NEW k \in Reader PROVE TriedOnRecord(k)'
      <3>1. CASE k = i
        BY <1>1, <2>1, <2>2, <2>3, <3>1 DEF TriedOnRecord, Working, Spoken
      <3>2. CASE k # i
        BY <1>1, <2>1, <2>2, <2>3, <3>2 DEF Coverage, TriedOnRecord, Working, Spoken
      <3>3. QED BY <3>1, <3>2
    <2>5. ASSUME NEW k \in Reader, NEW n \in Users, Covers(k, n), Untried(n)' PROVE \E j \in Reader : Covers(j, n)'
      <3>1. CASE k = i
        BY <1>1, <2>1, <2>2, <2>3, <2>5, <3>1 DEF Covers, Working
      <3>2. CASE k # i
        BY <2>2, <2>5, <3>2 DEF Covers, Working
      <3>3. QED BY <3>1, <3>2
    <2>6. QED BY <1>1, <2>1, <2>3, <2>4, <2>5, CoverageKeeps
  <1>8. CASE ReaderLook(i)
    <2>1. UNCHANGED <<messages, deaths>> /\ reader[i].pc = "look"
      BY <1>8 DEF ReaderLook
    <2>2. CASE Again(i)
      <3>1. reader' = [reader EXCEPT ![i] = [NotReading EXCEPT !.pc = "take"]]
        BY <1>8, <2>2 DEF ReaderLook
      <3>2. reader'[i].pc = "take" /\ reader'[i].tried = {} /\ \A k \in Reader \ {i} : reader'[k] = reader[k]
        BY <1>1, <3>1 DEF NotReading
      <3>3. TriedOnRecord(i)' /\ \A m \in Users : Covers(i, m)'
        BY <3>2 DEF TriedOnRecord, Covers
      <3>4. QED BY <2>1, <3>2, <3>3, ReaderMovesOn
    <2>3. CASE ~Again(i)
      <3>1. reader' = [reader EXCEPT ![i] = NotReading] /\ Waiting(i) = {}
        BY <1>8, <2>3 DEF ReaderLook, Again
      <3>2. TriedOnRecord(i)' /\ \A k \in Reader \ {i} : reader'[k] = reader[k]
        BY <1>1, <3>1 DEF TriedOnRecord, NotReading
      <3>3. ASSUME NEW m \in Users, Covers(i, m), Untried(m) PROVE FALSE
        <4>1. m \in Pending /\ m \notin reader[i].tried
          BY <1>1, <2>1, <3>3 DEF Covers, Untried, Pending, Working
        <4>2. {k \in Pending : k <= m} \subseteq 1 .. MaxMessages
          BY <1>1 DEF Pending, Msg
        <4>3. Cardinality({k \in Pending : k <= m}) <= CaptureBatch
          <5>1. IsFiniteSet(1 .. MaxMessages) /\ Cardinality(1 .. MaxMessages) = MaxMessages
            BY CountedUpTo, DreamingAssumption
          <5>2. /\ Cardinality({k \in Pending : k <= m}) <= MaxMessages
                /\ Cardinality({k \in Pending : k <= m}) \in Nat
            BY <4>2, <5>1, FS_Subset, FS_CardinalityType
          <5>3. QED BY <5>2, DreamingAssumption
        <4>4. QED BY <3>1, <4>1, <4>3 DEF Waiting
      <3>4. QED BY <2>1, <3>2, <3>3, ReaderMovesOn
    <2>4. QED BY <2>2, <2>3
  <1>9. QED BY <1>2, <1>3, <1>5, <1>6, <1>7, <1>8 DEF ReaderStep

LEMMA CoverageStep ==
  ASSUME DreamingTypeOK, Coverage, CaptureBatch >= MaxMessages, [DreamingNext]_dreamVars
  PROVE  Coverage'
  <1>1. /\ reader \in [Reader -> Reading] /\ said \in Seq(Kinds) /\ deaths \in [{"pass", "web"} -> Nat]
        /\ \A i \in Reader : TriedOnRecord(i)
    BY DEF DreamingTypeOK, Coverage
  <1>2. CASE \E i \in Reader : ReaderStep(i)
    BY <1>2, ReaderStepsCover
  <1>3. ASSUME UNCHANGED <<messages, reader>>, deaths'["web"] = deaths["web"] PROVE Coverage'
    BY <1>3 DEF Coverage, TriedOnRecord, Covers, Working, Untried, Replied, Users, Spoken, messages
  <1>4. CASE PassStep \/ PassDies \/ UNCHANGED dreamVars
    <2>1. UNCHANGED <<messages, reader>> /\ deaths'["web"] = deaths["web"]
      BY <1>1, <1>4
      DEF PassStep, PassDies, PassBegin, PassLeaveOut, PassAsk, PassStage, PassGivesUp, PassOpen, PassWrite,
          dreamVars, messages
    <2>2. QED BY <1>3, <2>1
  <1>5. CASE WebDies
    <2>1. /\ UNCHANGED messages /\ deaths'["web"] # 0
          /\ \A i \in Reader : reader'[i].pc = "idle" /\ reader'[i].tried = {}
      BY <1>1, <1>5 DEF WebDies, NotReading
    <2>2. QED BY <2>1 DEF Coverage, TriedOnRecord
  <1>6. CASE \E kind \in Said : Say(kind)
    <2>1. PICK kind \in Said : Say(kind)
      BY <1>6
    <2>2. kind \in Kinds /\ kind # "reply"
      BY DreamingAssumption DEF Kinds
    <2>3. /\ said' = Append(said, kind) /\ UNCHANGED <<reader, tries, deaths>>
          /\ \A m \in Spoken : queue'[m] = queue[m]
      BY <1>1, <2>1 DEF Say, Spoken, Msg, DreamingTypeOK
    <2>4. /\ Len(said') = Len(said) + 1 /\ Len(said) \in Nat
          /\ \A m \in Spoken : m \in Spoken' /\ said'[m] = said[m]
          /\ Spoken' = Spoken \cup {Len(said) + 1} /\ said'[Len(said) + 1] = kind
      BY <1>1, <2>2, <2>3, SaidGrows DEF Spoken
    <2>5. \A i \in Reader : TriedOnRecord(i)'
      BY <1>1, <2>3, <2>4 DEF TriedOnRecord, Untried, Working
    <2>6. \A m \in Users' : Replied(m)' => m \in Users /\ Replied(m)
      BY <2>2, <2>4 DEF Users, Replied, Spoken
    <2>7. \A m \in Users : Untried(m)' => Untried(m)
      BY <2>3 DEF Users, Untried
    <2>8. \A i \in Reader, m \in Users : Covers(i, m) => Covers(i, m)'
      BY <2>3 DEF Covers, Working
    <2>9. QED BY <2>3, <2>5, <2>6, <2>7, <2>8 DEF Coverage
  <1>7. CASE \E i \in Reader : Answer(i)
    <2>1. PICK i \in Reader : Answer(i)
      BY <1>7
    <2>2. /\ said' = Append(said, "reply") /\ UNCHANGED <<queue, tries, deaths>>
          /\ reader' = [reader EXCEPT ![i] = [NotReading EXCEPT !.pc = "take"]]
      BY <2>1 DEF Answer
    <2>3. \A m \in Spoken : m \in Spoken'
      BY <1>1, <2>2, SaidGrows DEF Kinds
    <2>4. reader'[i].pc = "take" /\ reader'[i].tried = {} /\ \A k \in Reader \ {i} : reader'[k] = reader[k]
      BY <1>1, <2>2 DEF NotReading
    <2>5. \A k \in Reader : TriedOnRecord(k)'
      BY <1>1, <2>2, <2>3, <2>4 DEF TriedOnRecord, Untried, Working
    <2>6. \A m \in Users' : Covers(i, m)'
      BY <2>4 DEF Covers
    <2>7. QED BY <2>5, <2>6 DEF Coverage
  <1>8. QED BY <1>2, <1>4, <1>5, <1>6, <1>7 DEF DreamingNext, ChatNext

\* As long as no more messages can wait than one look of a reader takes in (CAPTURE_BATCH), a
\* message that was answered is tried before the last reader stops, however many readers gave
\* way to one another (diya_web.read_for_facts). With more it need not be: the ones that
\* cannot be read fill the window.
THEOREM AnsweredMessagesAreTried == DreamingSpec => [](CaptureBatch >= MaxMessages => AnsweredIsTried)
  <1> DEFINE Inv == CaptureBatch >= MaxMessages => Coverage
  <1>1. DreamingInit => Inv
    <2> SUFFICES ASSUME DreamingInit PROVE Coverage
      OBVIOUS
    <2>1. Users = {} /\ \A i \in Reader : reader[i].pc = "idle" /\ reader[i].tried = {}
      BY DEF DreamingInit, Users, Spoken, NotReading
    <2>2. QED BY <2>1 DEF Coverage, TriedOnRecord
  <1>2. DreamingInv /\ Inv /\ [DreamingNext]_dreamVars => Inv'
    BY CoverageStep DEF DreamingInv
  <1>3. DreamingInv /\ Inv => (CaptureBatch >= MaxMessages => AnsweredIsTried)
    <2> SUFFICES ASSUME DreamingInv, Coverage, deaths["web"] = 0, \A i \in Reader : reader[i].pc = "idle",
                        NEW m \in Users, Replied(m), queue[m] = "pending"
                 PROVE  tries[m] > 0
      BY DEF AnsweredIsTried
    <2>1. ~Untried(m)
      BY DEF Coverage, Covers
    <2>2. tries[m] \in Nat
      <3>1. m \in Msg /\ tries \in [Msg -> Nat]
        BY DreamingAssumption DEF DreamingInv, DreamingTypeOK, Users, Spoken, Msg
      <3>2. QED BY <3>1
    <2>3. QED BY <2>1, <2>2 DEF Untried
  <1> HIDE DEF Inv
  <1>4. QED BY <1>1, <1>2, <1>3, DreamingInvariant, PTL DEF DreamingSpec
===============================================================================
