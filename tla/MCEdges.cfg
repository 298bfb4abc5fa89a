SPECIFICATION Spec
CONSTANTS
  Supervisors = {agent}
  StoppedAtShutdown = {agent}
  Settings = {x, y}
  Children = {p1, p2, p3}
  NoChild = NoChild
  MaxLives = 2
  Turns = {v1}
  NoTurn = NoTurn
  a1 = a1
  Responses = {a1, a2}
  NoResponse = NoResponse
  SourceOf <- FirstHasATurn
  Texts = {t1}
  NoText = NoText
  ChunkLen = 3
  FrameLen = 2
  MaxChunks = 2
  MaxCancelled = 1
  f1 = f1
  f2 = f2
  b1 = b1
  b2 = b2
  q1 = q1
  FileConfigs = {f1, f2}
  BundledConfigs = {b1, b2}
  MaxPools = 1
  Streams = {s1, s2, s3}
  NoStream = NoStream
  MaxStreams = 2
  Requests = {q1, q2}
  Asks <- StreamAndChurn
  MaxListed = 3
INVARIANTS
  TypeOK
  OneChildPerLife
  ShownIsTrue
  OneChildForGood
  CancellationReachesItsResponse
  OnlyTheFirstIsHeardLate
  CachesAreListed
PROPERTIES
  LocksAreReleased
  InterruptsSettle
  StreamsLeaveOldestFirst
CHECK_DEADLOCK FALSE
