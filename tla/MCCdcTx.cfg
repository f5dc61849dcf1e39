CONSTANTS
  BufferSize = 4
  PacketSize = 2
  PacketSmall = 2
  Frames = 2
  HalfWord = 3
  MaxWrite = 3
  MaxBytes = 6
  MaxAsync = 1
  MaxCuts = 2
SPECIFICATION FairSpec
INVARIANT TypeOK
INVARIANT InOrder
INVARIANT SizeInFlight
PROPERTY CallbackAfterData
PROPERTY Drained
CHECK_DEADLOCK FALSE
