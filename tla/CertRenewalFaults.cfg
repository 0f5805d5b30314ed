\* Every fault of the environment.
CONSTANTS
  Jobs = {1, 2}
  ClientJobs = {1, 2}
  Incomplete = {}
  MaxKeys = 2
  MaxInvocations = 1
  QueueLength = 5
  ListSize = 4
  Faults = {"crash", "loss", "tls", "neterr", "mqtterr", "giveup", "stream", "jobtimeout"}
  CsrAnswers = {"signed", "rejected"}
  RevokeAnswers = {"revoked"}
  None = None
  Freed = Freed
SPECIFICATION Spec
\* The jobs are finitely many: once they are done the agents wait for ever.
CHECK_DEADLOCK FALSE
INVARIANTS TypeInv AnswersRouted NoEventDropped
