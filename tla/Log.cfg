SPECIFICATION DiagSpec
CONSTANTS
  Writers = {w1, w2}
  LineMax = 3
  Chunk = 2
  KlogMax = 2
  Texts <- SomeTexts
  Lengths = {1, 2}
  MaxBytes = 6
  Vas = {a, c}
  Submissions <- SomeSubmissions
  MarksMax = 2
  Unmappable = {c}
  Values = {0, 1, 99}
  MaxLeft = 1
  MaxFlight = 1
INVARIANTS
  LogKeepsOrder
  LineBounded
  MarksTell
CHECK_DEADLOCK FALSE
