SPECIFICATION ReadSpec
CONSTANTS
  EscBufSiz = 5
  StrBufSiz = 4
  EscArgSiz = 2
  IntMax = 12
  BufSiz = 4
  MaxHeld = 6
  Alphabets <- Streams
  Chunk <- Chunks
CHECK_DEADLOCK FALSE
INVARIANTS
  ChunksInvisible
  RoomForMore
  SentIsExecuted
