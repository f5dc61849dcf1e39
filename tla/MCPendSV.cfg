\* Two usable slots in a ring of three, four calls: the ring fills, rejects and
\* wraps.
CONSTANTS
  tick = tick
  uart = uart
  usb = usb
  gpio = gpio
  Isr <- MCIsr
  IsrPriority <- MCIsrPriority
  LowestPriority = 3
  EntryCount = 3
  MaxTicket = 4
  None = None
  PendSV = PendSV
SPECIFICATION FairSpec
INVARIANT TypeOK
INVARIANT NoTornEntry
INVARIANT RejectedOnlyWhenFull
INVARIANT NoLostWakeup
PROPERTY ImplementsFIFO
PROPERTY AcceptedRuns
CHECK_DEADLOCK FALSE
