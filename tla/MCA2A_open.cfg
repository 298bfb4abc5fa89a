SPECIFICATION Spec
CONSTANTS
  Agents = {writer, reviewer}
  NoAgent = NoAgent
  writer = writer
  reviewer = reviewer
  w1 = w1
  w2 = w2
  c1 = c1
  c2 = c2
  NumTasks = 1
  MaxAttempts = 2
  BatchLimit = 2
  SnapshotLimit = 2
  Workers = {w1, w2}
  EventFailures = TRUE
  Callers = {c1}
  Endpoints = {"send", "status"}
  Gated = {1}
  Timely = FALSE
  RecoverStaleTasks = {TRUE, FALSE}
  Recipient <- OneInbox
  Sender <- FromReviewer
  InitialDeps <- Independent
  WorkerAgent <- BothWriters
  Targets <- AnyTarget
INVARIANTS
  TypeOK
  OverlapWithinAttempts
SYMMETRY Alike
