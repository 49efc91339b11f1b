CONSTANTS
  BlockBytes = 3
  WordRange = 4
  Bytes = {0, 1}
  MaxMessage = 10
  MaxChunk = 10
SPECIFICATION BSpec
INVARIANTS
  ChunkingInvisible
  BufferHoldsBack
CHECK_DEADLOCK FALSE
