CONSTANTS
  OldSizes <- SmallOldSizes
  NewSizes <- SmallNewSizes
  TailValues <- SmallTails
  ByteRange = 2

SPECIFICATION SearchSpec

INVARIANTS
  LeafInSuffixArray
