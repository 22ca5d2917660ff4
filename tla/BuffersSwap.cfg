SPECIFICATION Spec
CONSTANTS
  MaxBo = 2
  MaxRetained = 2
  RetainedBytes = 3
  PageBytes = 2
  Word = 8
  MaxPhys = 2
  MaxAddr = 2
  ByteCounts <- OneSize
  FlagSets <- ReadWrite
  Liberties = {"swap"}
INVARIANTS
  RetainedPagesHeld
CHECK_DEADLOCK FALSE
