SPECIFICATION FairSpec
CONSTANTS
  Byte = {0, 1}
  Capacity = 3
  MaxWrite = 4
  MaxRead = 2
  EndOfInput = EndOfInput
INVARIANTS TypeOK NoLostWakeup OneWaiter
PROPERTIES ImplementsChannel WriteReturns ReadReturns
