\* Nothing is lost; the connection with the new pair may fail.
CONSTANTS
  Jobs = {1, 2}
  ClientJobs = {1, 2}
  Incomplete = {}
  MaxKeys = 2
  MaxInvocations = 1
  QueueLength = 5
  ListSize = 4
  Faults = {"tls"}
  CsrAnswers = {"signed", "rejected", "unparsable"}
  RevokeAnswers = {"revoked", "refused"}
  None = None
  Freed = Freed
SPECIFICATION FairSpec
\* The jobs are finitely many: once they are done the agents wait for ever.
CHECK_DEADLOCK FALSE
PROPERTIES JobInProgressEnds
