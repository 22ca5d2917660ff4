SPECIFICATION Spec
CONSTANTS
  MaxBo = 2
  MaxRetained = 2
  RetainedBytes = 2
  PageBytes = 2
  Word = 8
  MaxPhys = 2
  MaxAddr = 3
  ByteCounts <- TwoSizes
  FlagSets <- ReadWrite
  Liberties = {}
INVARIANTS
  TypeOK
  Ownership
  AddressSpace
  CpuSeesGpuPages
  RetainedBudget
PROPERTIES
  AddressKeepsPages
