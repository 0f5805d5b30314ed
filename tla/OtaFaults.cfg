\* Every fault but a cancelled job; an image that never connects, a bad document.
CONSTANTS
  Jobs = {1, 2, 3}
  BadDocuments = {3}
  PatchJobs = {}
  DeadImages = {2}
  Blocks = 2
  MaxBlocks = 4
  MaxCounter = 9
  MaxDuplicates = 2
  ListSize = 4
  QueueLength = 5
  Faults = {"crash", "loss", "dup", "garble", "flash", "offline"}
  Garbled = Garbled
  None = None
SPECIFICATION Spec
\* The jobs are finitely many: once they are done the agent waits for ever.
CHECK_DEADLOCK FALSE
INVARIANTS TypeOK AlwaysBootable ConfirmedConnects BufferHasOneOwner NoEventDropped
PROPERTIES SuccessIsReal
