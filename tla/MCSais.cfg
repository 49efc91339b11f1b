CONSTANTS
  Half <- HalfDef
  Jobs <- JobsDef
  Junk <- JunkDef
SPECIFICATION SSpec
INVARIANTS
  Sorts
  ReducedOrder
  NothingLeaked
  EntryBehind
PROPERTIES
  StaysInside
