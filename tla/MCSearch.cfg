CONSTANTS
  OldSizes <- SmallOldSizes
  NewSizes <- SmallNewSizes
  TailValues <- SmallTails
  ByteRange = 2

SPECIFICATION SearchSpec

INVARIANTS
  BeyondStartIsMatch
  LongestUnlessCut

PROPERTIES
  SearchReturns
