--------------------------------- MODULE Memory --------------------------------
(* What Diya knows of the person: the facts (diya_memory.Memory) and the queue     *)
(* file they are taken from (dream_pending.jsonl). Each change of a fact is one    *)
(* transaction that looks again; what goes on between two of them is a flow: an    *)
(* ingest of the file, the lanes of the memory policy over the candidates it       *)
(* read, a pass that retires what has faded or what the person asked to forget,    *)
(* an undo of a replacement, and forgetting for good, which takes the words out    *)
(* of the database and then rewrites the file. The scheduled pass, the reader of   *)
(* the chat, the page and the command line are such flows at the same time; the    *)
(* owner's buttons come in between, and any flow may stop at any step.             *)
(*                                                                               *)
(* Abstracted: what a fact says is a word, and costs one of the room; the judges'  *)
(* answers and the passing of days are choices; flags, mentions, people and the    *)
(* trail, but for who was retired for whom; a secret is a rejected fact; each line *)
(* of the file is a record of its own; a rewrite of the file is one step. What the *)
(* reader records of a message has no line in the file (Dreaming), and is left out.*)
EXTENDS Naturals, FiniteSets

CONSTANTS Word,       \* what a fact can say
          Tagged,     \* ... of which the staged line ends with a person's name
          Flow,       \* what can be under way at once
          Gone,       \* PURGED_PLACEHOLDER, also the marker of a struck line
          None,
          Room,       \* store_limit: how many facts can be known
          MaxLines,   \* bound: lines staged
          MaxFacts,   \* bound: rows of facts
          MaxRequests \* bound: times the owner asks for something

ASSUME MemoryAssumption == /\ Tagged \subseteq Word /\ Gone \notin Word /\ None \notin Word
                           /\ Gone # None
                           /\ Room \in Nat /\ MaxLines \in Nat /\ MaxFacts \in Nat
                           /\ MaxRequests \in Nat

VARIABLES file,      \* dream_pending.jsonl: its lines, by place
          fact,      \* the facts table
          flow,      \* what is under way
          asked,     \* what the owner asked for
          \* What the code does not keep:
          said,      \* what Dreaming wrote on each line
          from,      \* the line each fact was taken from
          purged,    \* the facts forgotten for good
          forgotten, \* ... and the words they had
          exposed,   \* lines appended while the file was being rewritten
          struck     \* lines struck while nothing else was rewriting the file

memoryVars == <<file, fact, flow, asked, said, from, purged, forgotten, exposed, struck>>
history == <<said, from, purged, forgotten, exposed, struck>>

Line == 1 .. MaxLines
Fact == 1 .. MaxFacts
Lines == [Line -> Word \cup {Gone, None}]

FactRow == [status : {"none", "candidate", "accepted", "rejected", "retired"},
            words : Word \cup {Gone, None}, line : Line \cup {0}, by : SUBSET Fact]
NoFact == [status |-> "none", words |-> None, line |-> 0, by |-> {}]

Work == [pc : {"idle", "take", "lanes", "twin", "retire", "undo", "clean", "write"},
         lines : Lines, todo : SUBSET Fact, it : Fact \cup {0}, old : Fact \cup {0},
         words : Word \cup {None}]
Blank == [s \in Line |-> None]
Resting == [pc |-> "idle", lines |-> Blank, todo |-> {}, it |-> 0, old |-> 0, words |-> None]

MemoryTypeOK ==
  /\ file \in Lines /\ said \in [Line -> Word \cup {None}]
  /\ fact \in [Fact -> FactRow] /\ flow \in [Flow -> Work]
  /\ from \in [Fact -> Line \cup {0}]
  /\ purged \subseteq Fact /\ forgotten \subseteq Word
  /\ exposed \subseteq Line /\ struck \subseteq Line /\ asked \in Nat

MemoryInit ==
  /\ file = Blank /\ said = Blank
  /\ fact = [f \in Fact |-> NoFact]
  /\ flow = [p \in Flow |-> Resting]
  /\ from = [f \in Fact |-> 0]
  /\ purged = {} /\ forgotten = {} /\ exposed = {} /\ struck = {} /\ asked = 0

Having(status) == {f \in Fact : fact[f].status = status}
Is(f, status) == fact[f].status = status
Becomes(f, status) == fact' = [fact EXCEPT ![f].status = status]
Row(f) == f \in Having("none") /\ \A g \in Having("none") : f <= g  \* the next row
Oldest(f, S) == f \in S /\ \A g \in S : f <= g

At(p, pc) == flow[p].pc = pc
Ends(p) == flow' = [flow EXCEPT ![p] = Resting]

-------------------------------------------------------------------------------
(* Dreaming stages a line (Dreamer._finish_staged): it is appended.             *)

Rewriting == {p \in Flow : At(p, "write")}
Stage(w) == \E s \in Line :
  /\ said[s] = None /\ \A t \in Line : said[t] = None => s <= t
  /\ file' = [file EXCEPT ![s] = w] /\ said' = [said EXCEPT ![s] = w]
  /\ exposed' = IF Rewriting = {} THEN exposed ELSE exposed \cup {s}
  /\ UNCHANGED <<fact, flow, asked, from, purged, forgotten, struck>>

-------------------------------------------------------------------------------
(* ingest_queue: the file is read, and each of its lines taken in, in order.    *)

TakeBegin(p) ==
  /\ At(p, "idle") /\ file # Blank
  /\ flow' = [flow EXCEPT ![p] = [Resting EXCEPT !.pc = "take", !.lines = file]]
  /\ UNCHANGED <<file, fact, asked, history>>

\* add_candidate: the line has its fact, whatever became of it since.
RecordedBroken(s) == \E f \in Having("candidate") : fact[f].line = s
Recorded(s) == \E f \in Fact : fact[f].line = s

ToTake(p) == {s \in Line : flow[p].lines[s] # None}
TakeOne(p) == \E s \in ToTake(p) :
  /\ At(p, "take") /\ \A t \in ToTake(p) : s <= t
  /\ flow' = [flow EXCEPT ![p].lines[s] = None]
  /\ \/ Recorded(s) /\ UNCHANGED <<fact, from>>
     \/ \E f \in Fact :
          /\ ~Recorded(s) /\ Row(f)
          /\ fact' = [fact EXCEPT ![f] = [NoFact EXCEPT !.status = "candidate", !.line = s,
                                                        !.words = flow[p].lines[s]]]
          /\ from' = [from EXCEPT ![f] = s]
  /\ UNCHANGED <<file, asked, said, purged, forgotten, exposed, struck>>

TakeEnd(p) ==
  /\ At(p, "take") /\ ToTake(p) = {} /\ Ends(p)
  /\ UNCHANGED <<file, fact, asked, history>>

-------------------------------------------------------------------------------
(* The rules of the transactions (Memory._check_room, decide, supersede).       *)

Known == Having("accepted")

\* A fact that says w may be known beside those: none says the same, and it fits.
Twin(w, others) == \E g \in others : fact[g].words = w
FitsBroken(w, others) == ~Twin(w, others) /\ Cardinality(others) <= Room
Fits(w, others) == ~Twin(w, others) /\ Cardinality(others) < Room

\* o leaves and n takes its place, both or neither; the room o frees is room.
MayReplace(n, o) ==
  /\ n # o /\ Is(n, "candidate") /\ Is(o, "accepted")
  /\ Fits(fact[n].words, Known \ {o})
Replaces(n, o) ==
  fact' = [fact EXCEPT ![n].status = "accepted",
                       ![o].status = "retired", ![o].by = @ \cup {n}]

-------------------------------------------------------------------------------
(* The lanes (diya_autonomy.apply, settle): the candidates are read once, each   *)
(* decision is a transaction of its own.                                        *)

LanesBegin(p) ==
  /\ At(p, "idle") /\ Having("candidate") # {}
  /\ flow' = [flow EXCEPT ![p] = [Resting EXCEPT !.pc = "lanes", !.todo = Having("candidate")]]
  /\ UNCHANGED <<file, fact, asked, history>>

Decided(p, f) == flow' = [flow EXCEPT ![p].todo = @ \ {f}, ![p].pc = "lanes", ![p].it = 0]

\* Left to be asked about; not kept; remembered, or in place of another. A fact that is
\* no candidate any more ends the flow, and one that says what is known is rejected in
\* the next transaction.
LanesOne(p) == \E f \in flow[p].todo :
  /\ At(p, "lanes") /\ Oldest(f, flow[p].todo)
  /\ \/ Decided(p, f) /\ UNCHANGED fact
     \/ ~Is(f, "candidate") /\ Ends(p) /\ UNCHANGED fact
     \/ Is(f, "candidate") /\ Becomes(f, "rejected") /\ Decided(p, f)
     \/ /\ Is(f, "candidate") /\ Fits(fact[f].words, Known)
        /\ Becomes(f, "accepted") /\ Decided(p, f)
     \/ /\ Is(f, "candidate") /\ Twin(fact[f].words, Known)
        /\ flow' = [flow EXCEPT ![p].pc = "twin", ![p].it = f] /\ UNCHANGED fact
     \/ \E o \in Fact : MayReplace(f, o) /\ Replaces(f, o) /\ Decided(p, f)
  /\ UNCHANGED <<file, asked, history>>

LanesTwin(p) == LET f == flow[p].it IN
  /\ At(p, "twin")
  /\ \/ Is(f, "candidate") /\ Becomes(f, "rejected") /\ Decided(p, f)
     \/ ~Is(f, "candidate") /\ Ends(p) /\ UNCHANGED fact
  /\ UNCHANGED <<file, asked, history>>

LanesEnd(p) ==
  /\ At(p, "lanes") /\ flow[p].todo = {} /\ Ends(p)
  /\ UNCHANGED <<file, fact, asked, history>>

-------------------------------------------------------------------------------
(* fade_due, and Dreamer._forget: what is due, or meant, is read once; one that  *)
(* is not known any more is passed over.                                        *)

RetireBegin(p) == \E S \in SUBSET Known :
  /\ At(p, "idle") /\ S # {}
  /\ flow' = [flow EXCEPT ![p] = [Resting EXCEPT !.pc = "retire", !.todo = S]]
  /\ UNCHANGED <<file, fact, asked, history>>

RetireOne(p) == \E f \in flow[p].todo :
  /\ At(p, "retire")
  /\ IF flow[p].todo = {f} THEN Ends(p) ELSE flow' = [flow EXCEPT ![p].todo = @ \ {f}]
  /\ IF Is(f, "accepted") THEN Becomes(f, "retired") ELSE UNCHANGED fact
  /\ UNCHANGED <<file, asked, history>>

-------------------------------------------------------------------------------
(* The owner's buttons (Memory.decide, edit, add_manual, supersede).            *)

Asks == asked < MaxRequests /\ asked' = asked + 1

Moves(f, old, new) == Asks /\ Is(f, old) /\ Becomes(f, new) /\ UNCHANGED <<file, flow, history>>
Accept(f) == Fits(fact[f].words, Known) /\ Moves(f, "candidate", "accepted")
Reject(f) == Moves(f, "candidate", "rejected")
Reopen(f) == Moves(f, "rejected", "candidate")
Retire(f) == Moves(f, "accepted", "retired")
Restore(f) == Fits(fact[f].words, Known) /\ Moves(f, "retired", "accepted")

Edit(f, w) ==
  /\ Asks /\ Is(f, "candidate") /\ fact[f].words # w
  /\ fact' = [fact EXCEPT ![f].words = w]
  /\ UNCHANGED <<file, flow, history>>

Add(w) == \E f \in Fact :
  /\ Asks /\ Row(f) /\ Fits(w, Known)
  /\ fact' = [fact EXCEPT ![f] = [NoFact EXCEPT !.status = "accepted", !.words = w]]
  /\ UNCHANGED <<file, flow, history>>

Supersede(n, o) == Asks /\ MayReplace(n, o) /\ Replaces(n, o) /\ UNCHANGED <<file, flow, history>>

-------------------------------------------------------------------------------
(* undo_replace: what n replaced is read first (Memory.replaced; of several the  *)
(* latest, here any), and both are looked at again.                             *)

UndoBegin(p, n) == \E o \in Having("retired") :
  /\ Asks /\ At(p, "idle") /\ n \in fact[o].by
  /\ flow' = [flow EXCEPT ![p] = [Resting EXCEPT !.pc = "undo", !.it = n, !.old = o]]
  /\ UNCHANGED <<file, fact, history>>

UndoEnd(p) == LET n == flow[p].it  o == flow[p].old
                  may == /\ Is(n, "accepted") /\ Is(o, "retired")
                         /\ Fits(fact[o].words, Known \ {n}) IN
  /\ At(p, "undo") /\ Ends(p)
  /\ fact' = IF may THEN [fact EXCEPT ![n].status = "retired", ![o].status = "accepted"] ELSE fact
  /\ UNCHANGED <<file, asked, history>>

-------------------------------------------------------------------------------
(* forget_fact: Memory.purge, and then _staged_clean.                           *)

Forget(p, f) ==
  /\ Asks /\ At(p, "idle") /\ ~Is(f, "none") /\ fact[f].words # Gone
  /\ fact' = [g \in Fact |-> IF g = f THEN [status |-> "rejected", words |-> Gone, line |-> 0, by |-> {}]
                             ELSE fact[g]]
  /\ flow' = [flow EXCEPT ![p] = [Resting EXCEPT !.pc = "clean", !.words = fact[f].words]]
  /\ purged' = purged \cup {f} /\ forgotten' = forgotten \cup {fact[f].words}
  /\ UNCHANGED <<file, said, from, exposed, struck>>

\* The lines that say the words are marked, and keep their places; a line with a
\* person's name at its end does not compare equal.
StruckBroken(lines, w) == [s \in Line |-> IF lines[s] = w /\ w \notin Tagged THEN None ELSE lines[s]]
Struck(lines, w) == [s \in Line |-> IF lines[s] = w /\ w \notin Tagged THEN Gone ELSE lines[s]]

CleanRead(p) ==
  /\ At(p, "clean")
  /\ \/ Struck(file, flow[p].words) = file /\ Ends(p)
     \/ /\ Struck(file, flow[p].words) # file
        /\ flow' = [flow EXCEPT ![p].pc = "write", ![p].lines = Struck(file, flow[p].words)]
  /\ UNCHANGED <<file, fact, asked, history>>

\* The new file takes the place of the old one, with what was appended to that since.
CleanReplace(p) ==
  /\ At(p, "write") /\ Ends(p)
  /\ file' = flow[p].lines
  /\ struck' = IF Rewriting = {p} THEN {s \in Line : flow[p].lines[s] = Gone} ELSE struck
  /\ UNCHANGED <<fact, asked, said, from, purged, forgotten, exposed>>

-------------------------------------------------------------------------------
\* A flow stops: its process ends, or the next thing it does fails.
Stop(p) == /\ ~At(p, "idle") /\ Ends(p)
           /\ UNCHANGED <<file, fact, asked, history>>

FlowStep(p) == \/ TakeBegin(p) \/ TakeOne(p) \/ TakeEnd(p)
               \/ LanesBegin(p) \/ LanesOne(p) \/ LanesTwin(p) \/ LanesEnd(p)
               \/ RetireBegin(p) \/ RetireOne(p)
               \/ UndoEnd(p) \/ CleanRead(p) \/ CleanReplace(p) \/ Stop(p)
               \/ \E f \in Fact : UndoBegin(p, f) \/ Forget(p, f)

OwnerStep == \/ \E f \in Fact : \/ Accept(f) \/ Reject(f) \/ Reopen(f) \/ Retire(f) \/ Restore(f)
                                \/ \E w \in Word : Edit(f, w)
                                \/ \E o \in Fact : Supersede(f, o)
             \/ \E w \in Word : Add(w)

MemoryNext == \/ \E w \in Word : Stage(w)
              \/ \E p \in Flow : FlowStep(p)
              \/ OwnerStep

MemorySpec == MemoryInit /\ [][MemoryNext]_memoryVars

-------------------------------------------------------------------------------
(* What must be true.                                                          *)

\* A staged line is recorded as a fact once, however many passes and pages read the
\* file at once and wherever they stop, whatever became of the fact since, but for one
\* that was forgotten for good (add_candidate, ingest_queue; README, section 7).
RecordedOnce ==
  \A f, g \in Fact : (f # g /\ from[f] # 0 /\ from[f] = from[g]) => (f \in purged \/ g \in purged)

\* What is known is said once and fits, whatever the lanes, a replacement, its undo, a
\* restore and an edit find when their transaction begins (_check_room).
KnownFacts == /\ \A f, g \in Known : f # g => fact[f].words # fact[g].words
              /\ Cardinality(Known) <= Room

\* What the place s of the file may hold.
Truly(l, s) == \/ l = said[s] /\ s \notin struck
               \/ l = Gone /\ said[s] \in forgotten
               \/ l = None /\ s \in exposed \ struck

\* The file tells the truth: a line is as it was written, or struck because its words
\* were forgotten for good, and what was struck stays so; only a line appended during a
\* rewrite of the file can be missing (_staged_clean; README, section 7).
LinesAreTrue == \A s \in Line : Truly(file[s], s)

-------------------------------------------------------------------------------
(* The invariant behind them (README, "Proofs").                               *)

\* A row of the table has words, and its line until it is forgotten for good; no two
\* rows have the same line.
RowsSound ==
  /\ \A f \in Fact : IF Is(f, "none") THEN from[f] = 0 /\ fact[f].line = 0
                      ELSE fact[f].words # None
  /\ \A f \in Fact \ purged : fact[f].line = from[f]
  /\ \A f, g \in Fact : (f # g /\ fact[f].line # 0) => fact[f].line # fact[g].line

\* What a flow holds: the fact it decides, the words it takes out, and a file that would
\* be as true as the one it is to replace.
FlowsSound ==
  \A p \in Flow :
    /\ flow[p].pc \in {"twin", "undo"} => flow[p].it \in Fact
    /\ At(p, "undo") => flow[p].old \in Fact
    /\ At(p, "clean") => flow[p].words \in forgotten
    /\ At(p, "write") => \A s \in Line : Truly(flow[p].lines[s], s)

\* The inductive invariant of MemorySpec.
MemoryInv == MemoryTypeOK /\ RowsSound /\ FlowsSound /\ KnownFacts /\ LinesAreTrue
===============================================================================
