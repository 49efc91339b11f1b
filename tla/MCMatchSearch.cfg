CONSTANTS
  OldSizes <- SmallOldSizes
  NewSizes <- SmallNewSizes
  TailValues <- SmallTails
  ByteRange = 2
  Margin = 1
  Half = 8

SPECIFICATION MSSpec

INVARIANTS
  PrefixIsOneRecord

PROPERTIES
  ImplementsMatch
