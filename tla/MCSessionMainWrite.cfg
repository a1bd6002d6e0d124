SPECIFICATION FairSpec
CONSTANTS
  QueueSize = 2
  ReadChunk = 2
  WriteChunk = 2
  ReceiveSize = 2
  PtyRoom = 1
  MaxOutput = 1
  MaxInput = 4
PROPERTY MainWriteReturns
CHECK_DEADLOCK FALSE
