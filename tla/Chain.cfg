SPECIFICATION Spec
CONSTANTS
  Images <- TwoBuffers
  MaxIbChain = 2
  Refusals = TRUE
INVARIANTS
  SentAsRun
PROPERTY
  WalkEnds
