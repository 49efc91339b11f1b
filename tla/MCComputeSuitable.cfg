CONSTANTS
  Lengths <- SmallLengths
  Limit = 5

SPECIFICATION CSpec

INVARIANTS
  WritesSuitableFile
