\* A reset at any step, job timeouts, and Lambdas that run twice for one request.
CONSTANTS
  Jobs = {1, 2, 3}
  ClientJobs = {1}
  Incomplete = {3}
  MaxKeys = 2
  MaxInvocations = 2
  QueueLength = 5
  ListSize = 4
  Faults = {"crash", "neterr", "mqtterr", "stream", "jobtimeout"}
  CsrAnswers = {"signed"}
  RevokeAnswers = {"revoked"}
  None = None
  Freed = Freed
SPECIFICATION Spec
\* The jobs are finitely many: once they are done the agents wait for ever.
CHECK_DEADLOCK FALSE
INVARIANTS RestartableBetweenJobs
PROPERTIES RevokesFromNewSession
