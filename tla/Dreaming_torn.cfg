\* A pass that may die inside its write of the checkpoint; one reader, batches of one.
SPECIFICATION FairDreamingSpec
CONSTANTS
  Reader = {1}
  None = None
  Said = {"live", "plain", "asks"}
  MaxBatch = 1
  MaxTries = 2
  CaptureBatch = 4
  MaxSaid = 2
  MaxMessages = 3
  MaxPassDeaths = 1
  MaxWebDeaths = 1
  TornWrites = TRUE
CHECK_DEADLOCK FALSE
PROPERTIES EverythingIsRead
