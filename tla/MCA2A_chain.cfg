SPECIFICATION Spec
CONSTANTS
  Agents = {writer, reviewer}
  NoAgent = NoAgent
  writer = writer
  reviewer = reviewer
  w1 = w1
  w2 = w2
  c1 = c1
  c2 = c2
  NumTasks = 2
  MaxAttempts = 2
  BatchLimit = 2
  SnapshotLimit = 2
  Workers = {w1, w2}
  EventFailures = FALSE
  Callers = {c1}
  Endpoints = {"send", "retry", "repair"}
  Gated = {1}
  Timely = FALSE
  RecoverStaleTasks = {TRUE}
  Recipient <- TwoInboxes
  Sender <- FromReviewer
  InitialDeps <- Chain
  WorkerAgent <- OneEach
  Targets <- SecondByName
INVARIANTS
  OrderlyInv
  UpstreamStaysDone
PROPERTIES
  CompletedIsFinal
  AttemptsNeverRollBack
  OnlyRetriesReopen
  ImplementsTaskBoard
