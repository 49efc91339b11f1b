CONSTANTS
  OldSizes <- SmallOldSizes
  NewSizes <- SmallNewSizes
  ByteRange = 2
  Margin = 1
  Half = 8

SPECIFICATION FairSpec

INVARIANTS
  TypeOK
  StreamsFit
  LastOffsetReads
  RecordReads
  LengthsNonNegative
  ScoreIsWindow
  NewCovered

PROPERTIES
  MatcherReturns
