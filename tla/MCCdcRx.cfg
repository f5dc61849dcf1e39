CONSTANTS
  Size = 5
  MaxPacket = 2
  MaxRead = 3
  MaxBytes = 9
  MaxCuts = 1
SPECIFICATION FairSpec
INVARIANT TypeOK
INVARIANT InOrder
PROPERTY KeepsReceiving
CHECK_DEADLOCK FALSE
