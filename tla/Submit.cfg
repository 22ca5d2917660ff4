SPECIFICATION Spec
CONSTANTS
  Ctxs = {c1, c2}
  Streams <- AllStreams
  MaxIbChain = 2
  MaxPolls = 2
  MaxCalls = 3
  Refusals = TRUE
  Hangs = TRUE
  LateGpu = FALSE
INVARIANTS
  FencesHonest
  SuccessMeansIdle
  GuiltMeansStuck
PROPERTIES
  CallReturns
  RetiresInOrder
CHECK_DEADLOCK FALSE
