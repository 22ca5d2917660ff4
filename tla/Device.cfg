SPECIFICATION LibcSpec
CONSTANTS
  MaxFd = 4
  Starts = {{"eboot"}, {"stderr"}, {"eboot", "stderr"}}
  PathMax = 3
  Streams = {s1}
  Tree <- MCTree
  Elsewhere <- MCElsewhere
  Paths <- MCPaths
  EnvMax = 2
  MaxBlocks = 3
  Names <- MCNames
  Values <- MCValues
  Minute = 2
  Hour = 4
  Day = 8
  Clocks <- MCClocks
  Offsets <- MCOffsets
INVARIANTS
  
  EnvReadsBack
  BlocksHeld
  FieldsAreCivil
PROPERTY
  StaysOpen
