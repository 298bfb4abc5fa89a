SPECIFICATION Spec
CONSTANTS
  Agents = {writer, reviewer}
  NoAgent = NoAgent
  writer = writer
  reviewer = reviewer
  w1 = w1
  w2 = w2
  c1 = c1
  c2 = c2
  NumTasks = 2
  MaxAttempts = 2
  BatchLimit = 2
  SnapshotLimit = 2
  Workers = {w1, w2}
  EventFailures = FALSE
  Callers = {c1}
  Endpoints = {"send"}
  Gated = {}
  Timely = TRUE
  RecoverStaleTasks = {TRUE}
  Recipient <- OneInbox
  Sender <- FromReviewer
  InitialDeps <- Chain
  WorkerAgent <- BothWriters
  Targets <- InboxOnly
PROPERTIES
  AttemptsNeverRollBack
