CONSTANTS
  Units = 2
  Blocks = 7
  XlateOffset = 0
  Entries = 2
  Addresses = 2
  Spare = 1
  Clobbered = 1
  Discarded = {1}
  CrashBefore <- Survived
SPECIFICATION Spec
INVARIANT ReadsBack
INVARIANT MapsAgree
