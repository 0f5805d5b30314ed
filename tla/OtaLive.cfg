\* Three downloads and a patch; blocks that cannot be written, cancelled jobs; fair.
CONSTANTS
  Jobs = {1, 2, 3, 4}
  BadDocuments = {}
  PatchJobs = {4}
  DeadImages = {}
  Blocks = 2
  MaxBlocks = 5
  MaxCounter = 9
  MaxDuplicates = 1
  ListSize = 4
  QueueLength = 5
  Faults = {"flash", "cancel"}
  Garbled = Garbled
  None = None
SPECIFICATION FairSpec
\* The jobs are finitely many: once they are done the agent waits for ever.
CHECK_DEADLOCK FALSE
PROPERTIES JobInProgressEnds
