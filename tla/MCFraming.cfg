CONSTANTS
  Half = 3
  BufferSize = 28
  Wake <- WakeText
  Trailer = 8
  Reqlens = {1, 2, 3, 4, 5, 6, 7, 8, 9, 10, 11, 12, 28}
  MaxPacket = 8
  MaxHead = 5
  Strings = {0, 1, 2, 3, 4, 35, 36, 38}
SPECIFICATION Spec
INVARIANTS
  TypeOK
  PayloadExact
  WritesInBounds
  ReadsInBounds
  UnderstoodAsMeant
  SentWellFormed
CHECK_DEADLOCK FALSE
