SPECIFICATION FairSpec
CONSTANTS
  QueueSize = 2
  ReadChunk = 2
  WriteChunk = 2
  ReceiveSize = 2
  PtyRoom = 2
  MaxOutput = 3
  MaxInput = 4
INVARIANTS TypeOK OutputAnnounced OutputConserved FinishedOnce
PROPERTIES OutputShown SessionFinishes ThreadsEnd
CHECK_DEADLOCK FALSE
