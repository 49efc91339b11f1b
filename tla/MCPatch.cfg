CONSTANTS
  ByteRange = 2
  Half = 4

SPECIFICATION MCSpec

INVARIANTS
  PTypeOK
  IntactOrNothing
  OneKnownLeak
