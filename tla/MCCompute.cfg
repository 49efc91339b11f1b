CONSTANTS
  Lengths <- SmallLengths
  Limit = 5

SPECIFICATION CSpec

INVARIANTS
  CTypeOK
  OKMeansComplete
  PointersLive
  OnlyKnownLeaks
