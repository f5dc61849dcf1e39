CONSTANTS
  Units = 3
  Blocks = 4
  XlateOffset = 0
  Entries = 2
  Addresses = 2
  Spare = 1
  Clobbered = 1
  Discarded = {0}
  CrashBefore = {}
SPECIFICATION Spec
INVARIANT TypeOK
INVARIANT ReadsBack
INVARIANT Accounting
INVARIANT ProgramsStick
