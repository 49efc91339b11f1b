CONSTANTS
  OldSizes <- SmallOldSizes
  NewSizes <- SmallNewSizes
  ByteRange = 2
  Margin = 1
  Half = 8

SPECIFICATION RTSpec

INVARIANTS
  RestoresNew
  NothingButNew
  WrongOldCaughtByChecksum
  StreamReads
  FollowsMatcher
  RestoredSoFar

PROPERTIES
  RoundTripEnds
