SPECIFICATION AioSpec
CONSTANTS
  Buffers = {b1}
  Readers = {r1, r2}
  Keys <- MCKeys
  MaxSize = 2
  Null = Null
  FileTags = 3
  HasCues = TRUE
  Controllers = {r1}
  RemovesIn = {"media"}
  AddsWhenExhausted = FALSE
  Requests <- MCRequests
  MaxPauses = 1
  MaxSeeks = 1
INVARIANT NoCheckFails
INVARIANT BuffersAccounted
INVARIANT StreamInOrder
PROPERTY EveryReaderEnds
CHECK_DEADLOCK FALSE
