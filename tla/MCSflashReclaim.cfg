CONSTANTS
  Units = 3
  Blocks = 4
  XlateOffset = 1
  Entries = 2
  Addresses = 2
  Spare = 1
  Clobbered = 1
  Discarded = {}
  CrashBefore <- SurvivedReclaim
SPECIFICATION Spec
INVARIANT ReadsBack
INVARIANT RoomIsReal
INVARIANT Mountable
