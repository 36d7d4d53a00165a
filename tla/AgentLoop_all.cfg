SPECIFICATION FairLoopSpec
CONSTANTS
  Msgs = {m1, m2}
  MaxCalls = 2
  MaxParallel = 2
  MaxAsks = 1
  MaxCrashes = 1
CHECK_DEADLOCK FALSE
INVARIANTS LogIsWhole AnswersStayTrue NothingForgotten EveryMessageAccounted NoStrandedWake SchedulerOK
PROPERTIES AbortIsFinal Converges
