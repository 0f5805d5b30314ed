\* No fault at all: two updates in a row, each ending in a restart.
CONSTANTS
  Jobs = {1, 2}
  BadDocuments = {}
  PatchJobs = {}
  DeadImages = {}
  Blocks = 2
  MaxBlocks = 5
  MaxCounter = 9
  MaxDuplicates = 1
  ListSize = 4
  QueueLength = 5
  Faults = {}
  Garbled = Garbled
  None = None
SPECIFICATION FairSpec
\* The jobs are finitely many: once they are done the agent waits for ever.
CHECK_DEADLOCK FALSE
PROPERTIES QueuedJobStarts
