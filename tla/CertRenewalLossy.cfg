\* Lost messages, network errors and OTA streams: two renewals and a foreign job.
CONSTANTS
  Jobs = {1, 2, 3}
  ClientJobs = {1, 2}
  Incomplete = {}
  MaxKeys = 2
  MaxInvocations = 1
  QueueLength = 5
  ListSize = 4
  Faults = {"loss", "neterr", "stream"}
  CsrAnswers = {"signed", "rejected", "unparsable"}
  RevokeAnswers = {"revoked", "refused"}
  None = None
  Freed = Freed
SPECIFICATION Spec
\* The jobs are finitely many: once they are done the agents wait for ever.
CHECK_DEADLOCK FALSE
INVARIANTS NotLockedOut BufferMatchesEvent PointersValid
PROPERTIES SuccessIsReal RotatesSafely
