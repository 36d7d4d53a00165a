\* Three words, one of which is staged with a person's name; room for two facts; two flows
\* at once. Two lines and three rows, so that a line can be recorded, forgotten and
\* recorded again beside another fact.
SPECIFICATION MemorySpec
CONSTANTS
  Word = {u, v, w}
  Tagged = {v}
  Flow = {p, q}
  Gone = Gone
  None = None
  Room = 2
  MaxLines = 2
  MaxFacts = 3
  MaxRequests = 2
SYMMETRY MemorySymmetry
INVARIANTS RecordedOnce KnownFacts LinesAreTrue
