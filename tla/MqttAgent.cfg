\* A renewal, an update and a refused job; calls given up, a job that ends.
CONSTANTS
  Tasks = {"ota", "renewal"}
  PoolSize = 2
  QueueLength = 3
  MaxTimeouts = 1
  OtaJobs = {2}
  RenewalJobs = {1, 3}
  BadJobs = {3}
  None = None
  MaxMessages = 5
  MaxCancels = 1
SPECIFICATION Spec
\* The jobs are finitely many, and an agent task that left its loop stops the rest.
CHECK_DEADLOCK FALSE
INVARIANTS TypeOK StructuresAccounted WaitingHasReason DeadContextsBounded BufferIsOwn SuccessIsOwn
PROPERTIES CallReturns
