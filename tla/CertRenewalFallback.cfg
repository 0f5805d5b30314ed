\* The handshake with the new certificate fails.
CONSTANTS
  Jobs = {1}
  ClientJobs = {1}
  Incomplete = {}
  MaxKeys = 1
  MaxInvocations = 1
  QueueLength = 5
  ListSize = 4
  Faults = {"tls"}
  CsrAnswers = {"signed"}
  RevokeAnswers = {"revoked"}
  None = None
  Freed = Freed
SPECIFICATION Spec
\* The jobs are finitely many: once they are done the agents wait for ever.
CHECK_DEADLOCK FALSE
PROPERTIES RevokesFromNewSession
