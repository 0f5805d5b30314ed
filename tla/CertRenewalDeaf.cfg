\* No fault at all, two renewals in a row.
CONSTANTS
  Jobs = {1, 2}
  ClientJobs = {1, 2}
  Incomplete = {}
  MaxKeys = 2
  MaxInvocations = 1
  QueueLength = 5
  ListSize = 4
  Faults = {}
  CsrAnswers = {"signed"}
  RevokeAnswers = {"revoked"}
  None = None
  Freed = Freed
SPECIFICATION FairSpec
\* The jobs are finitely many: once they are done the agents wait for ever.
CHECK_DEADLOCK FALSE
PROPERTIES QueuedJobStarts
