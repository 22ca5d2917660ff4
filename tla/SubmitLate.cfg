SPECIFICATION Spec
CONSTANTS
  Ctxs = {c1}
  Streams <- PlainStreams
  MaxIbChain = 2
  MaxPolls = 2
  MaxCalls = 3
  Refusals = FALSE
  Hangs = FALSE
  LateGpu = TRUE
INVARIANT WaitCsHonest
CHECK_DEADLOCK FALSE
