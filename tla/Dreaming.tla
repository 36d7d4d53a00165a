-------------------------------- MODULE Dreaming -------------------------------
(* How what the person says is read for facts, with automatic memory on: by the   *)
(* scheduled pass (dreaming.Dreamer.dream_cycle), one batch after the checkpoint  *)
(* at a time, and by the reader the chat starts after each answer                 *)
(* (diya_web.read_for_facts), one queued message at a time. They share the        *)
(* messages and the marks of what was read live; the pass keeps its queue and its *)
(* checkpoint in two files. Either process may die at any step.                   *)
(*                                                                               *)
(* Abstracted: a message is what diya_intent makes of it, and costs one of a       *)
(* batch; what the model finds is whether it found anything; an order to forget    *)
(* is a message worth reading live; a torn line of the queue is no record.         *)
EXTENDS Naturals, Sequences, FiniteSets

CONSTANTS Reader,         \* numbers of the calls of read_for_facts that can be under way
          None,
          Said,           \* the kinds of message the person sends
          MaxBatch,       \* dream_batch_chars: how many of the person's messages
          MaxTries,       \* MAX_CAPTURE_TRIES
          CaptureBatch,   \* CAPTURE_BATCH
          MaxSaid,        \* bound: messages of the person's
          MaxMessages,    \* bound: messages and answers, one fewer for every death
          MaxPassDeaths,  \* bound: passes that die
          MaxWebDeaths,   \* bound: times the web service dies
          TornWrites      \* whether a pass may die inside its write of the checkpoint

ASSUME DreamingAssumption == /\ Reader \subseteq Nat /\ MaxSaid \in Nat
                             /\ Said \subseteq {"live", "plain", "asks"}
                             /\ MaxBatch \in Nat \ {0} /\ MaxTries \in Nat \ {0}
                             /\ CaptureBatch \in Nat \ {0}
                             /\ MaxMessages \in Nat /\ TornWrites \in BOOLEAN
                             /\ MaxPassDeaths \in Nat /\ MaxWebDeaths \in Nat
                             /\ None \notin Nat

VARIABLES said,        \* the messages table: the kind of each message
          queue,       \* capture_queue: the state of each message
          tries,       \* capture_queue: attempts
          captured,    \* memory_captures: the messages marked as read live
          checkpoint,  \* dream_state.json
          torn,        \* ... which was cut short, and cannot be read
          staged,      \* dream_pending.jsonl
          pass,        \* the scheduled pass
          reader,      \* each call of read_for_facts
          live,        \* what was put in memory from a message read live
          nothing,     \* messages of which the model said: no new facts
          deaths       \* how often the pass and the service died

dreamVars == <<said, queue, tries, captured, checkpoint, torn, staged, pass, reader,
               live, nothing, deaths>>
messages == <<said, queue, tries>>
files == <<checkpoint, torn, staged>>

\* Worth reading live; not; only asking; and Diya's own.
Kinds == {"live", "plain", "asks", "reply"}
Msg == 1 .. MaxMessages
Spoken == 1 .. Len(said)
Users == {m \in Spoken : said[m] # "reply"}

Record == [first : Msg, last : Msg, read : SUBSET Msg]
Pass == [pc : {"idle", "leave", "ask", "stage", "save", "write"}, first : Nat, to : Nat,
         reading : SUBSET Msg]
Resting == [pc |-> "idle", first |-> 0, to |-> 0, reading |-> {}]
Reading == [pc : {"idle", "take", "loop", "ask", "ingest", "mark", "settle", "release", "look"},
            m : Msg \cup {None}, tried : SUBSET Msg]
NotReading == [pc |-> "idle", m |-> None, tried |-> {}]

DreamingTypeOK ==
  /\ said \in Seq(Kinds) /\ Len(said) <= MaxMessages
  /\ queue \in [Msg -> {"none", "pending", "done", "skipped", "failed"}]
  /\ tries \in [Msg -> Nat]
  /\ captured \subseteq Users /\ live \subseteq Users /\ nothing \subseteq Users
  /\ checkpoint \in 0 .. Len(said) /\ torn \in BOOLEAN
  /\ staged \subseteq Record
  /\ pass \in Pass /\ pass.to <= Len(said) /\ pass.reading \subseteq Users
  /\ reader \in [Reader -> Reading]
  /\ deaths \in [{"pass", "web"} -> Nat]

DreamingInit ==
  /\ said = <<>>
  /\ queue = [m \in Msg |-> "none"] /\ tries = [m \in Msg |-> 0]
  /\ captured = {} /\ live = {} /\ nothing = {}
  /\ checkpoint = 0 /\ torn = FALSE /\ staged = {}
  /\ pass = Resting
  /\ reader = [i \in Reader |-> NotReading]
  /\ deaths = [d \in {"pass", "web"} |-> 0]

HasRoom == Len(said) + deaths["pass"] + deaths["web"] < MaxMessages  \* bound

-------------------------------------------------------------------------------
(* The chat (diya_web.start_turn, end_turn).                                   *)

\* The person's message, and its place in the queue, in one transaction.
Say(kind) ==
  /\ HasRoom /\ Cardinality(Users) < MaxSaid
  /\ said' = Append(said, kind)
  /\ queue' = [queue EXCEPT ![Len(said) + 1] = "pending"]
  /\ UNCHANGED <<tries, captured, files, pass, reader, live, nothing, deaths>>

\* A message is answered, at once or when the person tries again, others being said
\* meanwhile; a reader is started after the answer, and takes the first free number.
Answer(i) ==
  /\ HasRoom /\ Cardinality(Spoken \ Users) < Cardinality(Users)
  /\ reader[i].pc = "idle" /\ \A j \in Reader : j < i => reader[j].pc # "idle"
  /\ said' = Append(said, "reply")
  /\ reader' = [reader EXCEPT ![i] = [NotReading EXCEPT !.pc = "take"]]
  /\ UNCHANGED <<queue, tries, captured, files, pass, live, nothing, deaths>>

-------------------------------------------------------------------------------
(* read_for_facts, read_one and Dreamer.capture_message.                       *)

Holds(i) == reader[i].pc \in {"loop", "ask", "ingest", "mark", "settle", "release"}
Becomes(i, pc) == reader' = [reader EXCEPT ![i].pc = pc]

\* Of the oldest CaptureBatch that are pending, those this reader has not tried.
Pending == {m \in Spoken : queue[m] = "pending"}
Waiting(i) == {m \in Pending : /\ Cardinality({k \in Pending : k <= m}) <= CaptureBatch
                               /\ m \notin reader[i].tried}

\* One reader at a time: the one that finds the lock taken leaves it to the other.
ReaderTake(i) ==
  /\ reader[i].pc = "take"
  /\ reader' = [reader EXCEPT ![i] = IF \E j \in Reader : Holds(j) THEN NotReading
                                     ELSE [NotReading EXCEPT !.pc = "loop"]]
  /\ UNCHANGED <<messages, captured, files, pass, live, nothing, deaths>>

\* The oldest one waiting: done if it was read, skipped if it is not worth reading
\* live, else the model is asked.
ReaderNext(i) == \E m \in Waiting(i) :
  /\ reader[i].pc = "loop" /\ \A k \in Waiting(i) : m <= k
  /\ reader' = [reader EXCEPT ![i] = [pc |-> IF m \notin captured /\ said[m] = "live" THEN "ask" ELSE "loop",
                                      m |-> m, tried |-> @.tried \cup {m}]]
  /\ queue' = [queue EXCEPT ![m] = IF m \in captured THEN "done"
                                   ELSE IF said[m] = "live" THEN @ ELSE "skipped"]
  /\ UNCHANGED <<said, tries, captured, files, pass, live, nothing, deaths>>

ReaderAsk(i) ==
  /\ reader[i].pc = "ask"
  /\ \/ Becomes(i, "ingest")
     \/ Becomes(i, "settle")  \* the model could not be asked
  /\ UNCHANGED <<messages, captured, files, pass, live, nothing, deaths>>

ReaderIngest(i) ==
  /\ reader[i].pc = "ingest"
  /\ \/ Becomes(i, "mark") /\ live' = live \cup {reader[i].m}
     \/ Becomes(i, "settle") /\ UNCHANGED live  \* memory could not be written
  /\ UNCHANGED <<messages, captured, files, pass, nothing, deaths>>

ReaderMark(i) ==
  /\ reader[i].pc = "mark" /\ Becomes(i, "settle")
  /\ captured' \in {captured, captured \cup {reader[i].m}}  \* the mark may fail too
  /\ UNCHANGED <<messages, files, pass, live, nothing, deaths>>

SettledBroken(m) == "done"
Settled(m) == IF m \in captured THEN "done"
              ELSE IF tries[m] + 1 >= MaxTries THEN "failed" ELSE "pending"

ReaderSettle(i) == LET m == reader[i].m IN
  /\ reader[i].pc = "settle" /\ Becomes(i, "loop")
  /\ queue' = [queue EXCEPT ![m] = Settled(m)]
  /\ tries' = IF m \in captured THEN tries ELSE [tries EXCEPT ![m] = @ + 1]
  /\ UNCHANGED <<said, captured, files, pass, live, nothing, deaths>>

\* Nothing is left: it lets the lock go, and then looks again.
ReaderEmpty(i) ==
  /\ reader[i].pc = "loop" /\ Waiting(i) = {} /\ Becomes(i, "release")
  /\ UNCHANGED <<messages, captured, files, pass, live, nothing, deaths>>

ReaderRelease(i) ==
  /\ reader[i].pc = "release" /\ Becomes(i, "look")
  /\ UNCHANGED <<messages, captured, files, pass, live, nothing, deaths>>

AgainBroken(i) == FALSE
Again(i) == Waiting(i) # {}

ReaderLook(i) ==
  /\ reader[i].pc = "look"
  /\ reader' = [reader EXCEPT ![i] = IF Again(i) THEN [NotReading EXCEPT !.pc = "take"]
                                     ELSE NotReading]
  /\ UNCHANGED <<messages, captured, files, pass, live, nothing, deaths>>

WebDies ==
  /\ HasRoom /\ deaths["web"] < MaxWebDeaths /\ \E i \in Reader : reader[i].pc # "idle"
  /\ reader' = [i \in Reader |-> NotReading]
  /\ deaths' = [deaths EXCEPT !["web"] = @ + 1]
  /\ UNCHANGED <<messages, captured, files, pass, live, nothing>>

-------------------------------------------------------------------------------
(* Dreamer.dream_cycle.                                                        *)

\* first_batch: from the checkpoint on, as many as hold MaxBatch of the person's.
Fits(n) == Cardinality({m \in Users : checkpoint < m /\ m <= n}) <= MaxBatch
BatchEnds == {n \in Spoken : Fits(n) /\ \A k \in Spoken : Fits(k) => k <= n}

\* The person said something after the checkpoint.
BehindBroken == \E m \in Users : m > checkpoint + 1
Behind == \E m \in Users : m > checkpoint

\* (With a checkpoint that cannot be read the pass stops with an error.)
PassBegin ==
  /\ pass.pc = "idle" /\ ~torn /\ Behind
  /\ \E n \in BatchEnds :
       pass' = [Resting EXCEPT !.pc = "leave", !.first = checkpoint + 1, !.to = n]
  /\ UNCHANGED <<messages, captured, files, reader, live, nothing, deaths>>

\* What of the batch is left to read: not Diya's own, not read live, not only asking.
Unread(a, b) == {m \in Users \cap a .. b : m \notin captured /\ said[m] # "asks"}

FoundStagedBroken(first) == {}
FoundStaged(first) == {r \in staged : r.first = first}

StagedEndBroken(r) == pass.to
StagedEnd(r) == r.last

\* Where the pass goes on when there is nothing left of the batch to read.
NothingLeft == [pass EXCEPT !.pc = "save"]

PassLeaveOut == LET left == Unread(pass.first, pass.to) IN
  /\ pass.pc = "leave"
  /\ \/ /\ left = {}
        /\ pass' = NothingLeft
     \/ /\ left # {} /\ FoundStaged(pass.first) # {}
        /\ \E r \in FoundStaged(pass.first) :
             pass' = [pass EXCEPT !.pc = "save", !.to = StagedEnd(r)]
     \/ /\ left # {} /\ FoundStaged(pass.first) = {}
        /\ pass' = [pass EXCEPT !.pc = "ask", !.reading = left]
  /\ UNCHANGED <<messages, captured, files, reader, live, nothing, deaths>>

PassAsk ==
  /\ pass.pc = "ask"
  /\ \/ pass' = [pass EXCEPT !.pc = "stage"] /\ UNCHANGED nothing
     \/ pass' = [pass EXCEPT !.pc = "save"] /\ nothing' = nothing \cup pass.reading
  /\ UNCHANGED <<messages, captured, files, reader, live, deaths>>

PassStage ==
  /\ pass.pc = "stage"
  /\ staged' = staged \cup {[first |-> pass.first, last |-> pass.to, read |-> pass.reading]}
  /\ pass' = [pass EXCEPT !.pc = "save"]
  /\ UNCHANGED <<messages, captured, checkpoint, torn, reader, live, nothing, deaths>>

\* The store or the queue cannot be read, the model not be reached, the record not be
\* written: the pass ends and the checkpoint stays where it was.
PassGivesUp ==
  /\ pass.pc \in {"leave", "ask", "stage"} /\ pass' = Resting
  /\ UNCHANGED <<messages, captured, files, reader, live, nothing, deaths>>

\* save_last_dreamed_id: opening the file empties it, then it is written.
PassOpen ==
  /\ pass.pc = "save" /\ pass' = [pass EXCEPT !.pc = "write"]
  /\ torn' = TRUE
  /\ UNCHANGED <<messages, captured, checkpoint, staged, reader, live, nothing, deaths>>

PassWrite ==
  /\ pass.pc = "write" /\ pass' = Resting
  /\ torn' = FALSE /\ checkpoint' = pass.to
  /\ UNCHANGED <<messages, captured, staged, reader, live, nothing, deaths>>

PassDies ==
  /\ pass.pc # "idle" /\ HasRoom /\ deaths["pass"] < MaxPassDeaths
  /\ pass.pc = "write" => TornWrites
  /\ pass' = Resting
  /\ deaths' = [deaths EXCEPT !["pass"] = @ + 1]
  /\ UNCHANGED <<messages, captured, files, reader, live, nothing>>

-------------------------------------------------------------------------------
PassStep == PassBegin \/ PassLeaveOut \/ PassAsk \/ PassStage \/ PassGivesUp \/ PassOpen \/ PassWrite
ReaderStep(i) == \/ ReaderTake(i) \/ ReaderNext(i) \/ ReaderAsk(i) \/ ReaderIngest(i)
                 \/ ReaderMark(i) \/ ReaderSettle(i) \/ ReaderEmpty(i) \/ ReaderRelease(i)
                 \/ ReaderLook(i)

ChatNext == \/ \E kind \in Said : Say(kind)
            \/ \E i \in Reader : Answer(i) \/ ReaderStep(i)
            \/ WebDies

DreamingNext == ChatNext \/ PassStep \/ PassDies

DreamingSpec == DreamingInit /\ [][DreamingNext]_dreamVars

-------------------------------------------------------------------------------
(* What must be true.                                                          *)

StagedRead == UNION {r.read : r \in staged}
Accounted(m) == \/ said[m] \in {"reply", "asks"}
                \/ m \in live \/ m \in StagedRead \/ m \in nothing

\* The checkpoint never passes a message nobody read: not after a pass that died
\* with its record written, not when a message was said, read live or left out in
\* the meantime (dream_cycle, "stage first, checkpoint second").
NothingLost == \A m \in Spoken : m <= checkpoint => Accounted(m)

\* A batch is never staged twice, whenever the pass died (docs/dreaming.md).
StagedOnce == \A q, r \in staged : q # r => q.last < r.first \/ r.last < q.first

\* The queue does not say a message was read that was not, and gives a message up
\* only after MAX_CAPTURE_TRIES tries (diya_web.read_one).
QueueIsTrue == \A m \in Spoken : /\ queue[m] = "done" => m \in live
                                 /\ queue[m] = "failed" => tries[m] >= MaxTries

\* A message that was answered is tried, although another was being read when its
\* turn ended: no reader gives way to one that has stopped looking (read_for_facts,
\* "it is read next"). A service that dies takes its readers with it.
Replied(m) == \E n \in Spoken : n > m /\ said[n] = "reply"
AnsweredIsTried ==
  (deaths["web"] = 0 /\ \A i \in Reader : reader[i].pc = "idle") =>
    \A m \in Users : (Replied(m) /\ queue[m] = "pending") => tries[m] > 0

-------------------------------------------------------------------------------
(* The invariant behind them, which every step keeps (README, "Proofs").       *)

\* What is marked as read live was put in memory, only the person's messages are in
\* the queue, and a reader that asks about a message holds one of those.
MarksAreTrue ==
  /\ captured \subseteq live
  /\ \A m \in Msg \ Users : queue[m] = "none"
  /\ \A i \in Reader :
       /\ reader[i].pc \in {"ask", "ingest", "mark", "settle"} => reader[i].m \in Users
       /\ reader[i].pc = "mark" => reader[i].m \in live

\* A staged batch was read, and is behind the checkpoint or is the next one.
BatchesAreRead ==
  \A r \in staged :
    /\ r.first <= r.last /\ r.last <= Len(said)
    /\ \A m \in r.first .. r.last : Accounted(m)
    /\ r.last <= checkpoint \/ (r.first = checkpoint + 1 /\ Fits(r.last))

\* What a pass knows of its batch at each of its steps.
PassIsTrue ==
  pass.pc # "idle" =>
    /\ pass.first = checkpoint + 1 /\ pass.to \in pass.first .. Len(said)
    /\ \A r \in staged : r.first = pass.first => r.last <= pass.to
    /\ pass.pc \in {"leave", "ask", "stage"} => Fits(pass.to)
    /\ pass.pc \in {"ask", "stage"} =>
         /\ FoundStaged(pass.first) = {}
         /\ \A m \in pass.first .. pass.to : Accounted(m) \/ m \in pass.reading
    /\ pass.pc \in {"save", "write"} => \A m \in pass.first .. pass.to : Accounted(m)

\* The inductive invariant of DreamingSpec.
DreamingInv == /\ DreamingTypeOK /\ NothingLost /\ StagedOnce /\ QueueIsTrue
               /\ MarksAreTrue /\ BatchesAreRead /\ PassIsTrue
===============================================================================
