\* Two messages and their answers, two readers that meet at the lock, batches of two, a
\* pass that may die anywhere but inside its write of the checkpoint, and a service that
\* may die too.
SPECIFICATION FairDreamingSpec
CONSTANTS
  Reader = {1, 2}
  None = None
  Said = {"live", "asks"}
  MaxBatch = 2
  MaxTries = 2
  CaptureBatch = 4
  MaxSaid = 2
  MaxMessages = 4
  MaxPassDeaths = 1
  MaxWebDeaths = 1
  TornWrites = FALSE
CHECK_DEADLOCK FALSE
INVARIANTS NothingLost StagedOnce QueueIsTrue AnsweredIsTried
PROPERTIES EverythingIsRead
