SPECIFICATION Spec
CONSTANTS
  MaxFrames = 6
  MaxFlips = 2
INVARIANTS
  NoTearing
  ScansLiveImages
  TrueMeansShown
  NothingLeft
PROPERTIES
  NeverBackwards
  PresentReturns
