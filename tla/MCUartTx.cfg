CONSTANTS
  BufferSize = 4
  PacketSize = 2
  HalfWord = 4
  MaxWrite = 5
  MaxBytes = 8
  MaxAsync = 2
SPECIFICATION FairSpec
INVARIANT TypeOK
INVARIANT InOrder
INVARIANT NoStall
INVARIANT OneCallbackEach
PROPERTY CallbackAfterData
PROPERTY FlushEnds
CHECK_DEADLOCK FALSE
