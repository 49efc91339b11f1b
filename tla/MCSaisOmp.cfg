CONSTANTS
  Half <- HalfDef
  Jobs <- JobsDef
  Symbols = 3
  NThreads = 2
  Align = 2
  Threshold = 3
  ParBlock = 3
  BlockMin = 4
  CacheSize = 6
  Junk <- JunkDef
SPECIFICATION OmpSpec
INVARIANTS
  ParallelSorts
  NoRaces
  CacheFits
