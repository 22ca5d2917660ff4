SPECIFICATION TablesSpec
CONSTANTS
  Callers = {c1, c2}
  Kinds = {"bo", "ctx"}
  Entries = 2
  MaxHangs = 1
  MaxClash = 1
  MaxBo = 2
  Extents = {e1, e2}
  Sizes = {2}
  MaxMaps = 3
INVARIANTS
  HandlesApart
  ResetAnswerTrue
  MapsOwned
  Drained
SYMMETRY MCSymmetry
