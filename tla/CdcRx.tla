------------------------------- MODULE CdcRx -------------------------------
(***************************************************************************)
(* The receive side of the USB serial port: stm32l4_usbd_cdc.c under CDC.cpp.*)
(*                                                                         *)
(* The interrupt gives the endpoint a target in the ring, a packet at a     *)
(* time, and always a whole one: where none fits before the end of the ring  *)
(* the ring is cut short there (rx_wrap).  The reader (the thread) takes     *)
(* bytes, and gives the endpoint a target when the interrupt had no room.    *)
(* The interrupt may come between any two steps of the reader; its own work  *)
(* is one action per event.  Bytes are numbered 1, 2, ... as they come.      *)
(***************************************************************************)
EXTENDS Integers, FiniteSets, FiniteSetsExt

CONSTANTS
  Size,         \* CDC_RX_BUFFER_SIZE, given to stm32l4_usbd_cdc_enable as rx_size
  MaxPacket,    \* USBD_CDC_DATA_MAX_PACKET_SIZE
  MaxRead,      \* bound: the bytes of one read
  MaxBytes,     \* bound: the bytes the host sends
  MaxCuts       \* bound: the disconnections

ASSUME SizeAssumption ==
  /\ MaxPacket \in Nat \ {0} /\ Size \in Nat /\ Size >= MaxPacket
  /\ MaxRead \in Nat \ {0} /\ MaxBytes \in Nat /\ MaxCuts \in Nat

VARIABLES
  rx_data,      \* usbd_cdc->rx_data
  rx_read,      \* usbd_cdc->rx_read
  rx_write,     \* usbd_cdc->rx_write
  rx_wrap,      \* usbd_cdc->rx_wrap: where the ring ends on this turn
  rx_count,     \* usbd_cdc->rx_count
  rx_busy,      \* device.rx_busy
  state,        \* usbd_cdc->state; SUSPENDED differs from READY in nothing here
  USBD,         \* device.USBD is set
  control,      \* device.control
  armed,        \* the endpoint: where the next packet goes, or None
  RxBuffer,     \* hcdc->RxBuffer of the USB stack's class: where it went last
  pc,           \* where the reader is
  total,        \* its local rx_total
  part,         \* its local rx_size
  wrap,         \* its local rx_wrap
  received,     \* history: bytes put into the ring
  taken,        \* history: bytes read, or dropped when the port was closed
  ordered,      \* history: every byte was read in its turn
  cuts,         \* history: disconnections
  mishap        \* history: what went wrong, see below

ringVars == <<rx_data, rx_read, rx_write, rx_wrap, rx_count>>
deviceVars == <<state, USBD, control>>
endpointVars == <<rx_busy, armed, RxBuffer>>
readerVars == <<pc, total, part, wrap>>
byteVars == <<received, taken, ordered>>
vars == <<ringVars, deviceVars, endpointVars, readerVars, byteVars, cuts, mishap>>

Slot == 0..Size - 1
None == -1
Null == -1 - MaxPacket  \* no packet that goes there ends in the ring

(***************************************************************************)
(* The properties below hold as long as none of these happened.  The model  *)
(* ends there: no property speaks of what comes after.                     *)
(*   rewrapped: a packet ends so near the end of the ring that it is cut     *)
(*              short there, with unread bytes of the turn before behind it  *)
(*   underflowed: the reader has moved rx_wrap back to the end of the ring and *)
(*              is about to lower rx_count, when packets fill the next turn:  *)
(*              the count is above rx_wrap, and their difference is unsigned  *)
(*   overrun:   the host enumerates the device, which takes a packet without *)
(*              a look at the room                                          *)
(*   twice:     the packet of an enumeration, or of a port that was reopened,  *)
(*              takes the last room while the reader is about to arm again    *)
(*   misarmed:  the packet comes between ReceivePacket and rx_busy = 1 and   *)
(*              finds no room: rx_busy stays set, and nobody arms again       *)
(*   unopened:  a packet that came before the port was opened was read: the  *)
(*              reader has nothing to read and no reason to arm again         *)
(*   detached:  the reader arms an endpoint that is gone                    *)
(*   stale:     a packet that was armed for while the port was closed counts  *)
(*              for the opened one, which has none of its bytes              *)
(*   nowhere:   the same with a port that was never open: it is copied to NULL *)
(*   revived:   a disconnection makes a port that is not open RESET          *)
(*   outdated:  begin() makes the port what the host had it be when it looked, *)
(*              and the host has opened, found or left it since              *)
(***************************************************************************)
Mishaps == {"rewrapped", "underflowed", "overrun", "twice", "misarmed", "unopened",
            "detached", "stale", "nowhere", "revived", "outdated"}
Note(p, m) == mishap' = IF p THEN m ELSE "none"

(* Fault: the room is that of the whole ring, wherever this turn ends.      *)
RoomOfRing(w, count) == Size - count >= MaxPacket

(* Room for one more packet; the difference is unsigned.                   *)
Room(w, count) == w < count \/ w - count >= MaxPacket

-----------------------------------------------------------------------------
(* Events of the USB, from its interrupt.                                  *)

(* Fault: the ring is cut short only when it is full to the end.            *)
TurnLate(end) == end >= Size

(* No whole packet fits between here and the end of the ring.              *)
Turn(end) == end + MaxPacket > Size

(* stm32l4_usbd_cdc_rx_ready(): a packet of n bytes came.                   *)
RxReady(n) ==
  LET end == rx_write + n IN
  /\ armed # None
  /\ received + n <= MaxBytes
  /\ rx_data' = [s \in Slot |-> CASE s \notin armed..armed + n - 1 -> rx_data[s]
                                  [] s \in armed..armed + n - 1 /\ state = "INIT" -> 0
                                  [] OTHER -> received + 1 + (s - armed)]
  /\ \/ /\ state # "INIT"
        /\ received' = received + n
        /\ rx_count' = rx_count + n
        /\ rx_wrap' = IF Turn(end) THEN end ELSE rx_wrap
        /\ rx_write' = IF Turn(end) THEN 0 ELSE end
        /\ rx_busy' = (state # "RESET" /\ Room(rx_wrap', rx_count'))
        /\ armed' = IF rx_busy' THEN rx_write' ELSE None
        /\ RxBuffer' = IF rx_busy' THEN rx_write' ELSE RxBuffer
        /\ mishap' =
             IF armed # rx_write THEN "stale"
             ELSE IF Turn(end) /\ received' - taken > end THEN "rewrapped"
             ELSE IF rx_count' > rx_wrap' THEN "underflowed"
             ELSE IF pc = "arm" /\ ~Room(rx_wrap', rx_count') THEN "twice"
             ELSE "none"
     \/ /\ state = "INIT"
        /\ rx_busy' = FALSE
        /\ armed' = None
        /\ Note(armed = Null, "nowhere")
        /\ UNCHANGED <<RxBuffer, received, rx_count, rx_wrap, rx_write>>
  /\ UNCHANGED <<rx_read, deviceVars, readerVars, taken, ordered, cuts>>

(* stm32l4_usbd_cdc_init() and the rest of USBD_CDC_Init(): the host           *)
(* enumerates the device, and the endpoint is armed in any case.            *)
Enumerate ==
  /\ ~USBD
  /\ USBD' = TRUE
  /\ \/ /\ state # "INIT"
        /\ RxBuffer' = rx_write
        /\ rx_busy' = TRUE
        /\ Note(~Room(rx_wrap, rx_count), "overrun")
     \/ /\ state = "INIT"
        /\ rx_busy' = FALSE
        /\ UNCHANGED <<RxBuffer, mishap>>
  /\ armed' = RxBuffer'
  /\ UNCHANGED <<ringVars, state, control, readerVars, byteVars, cuts>>

(* stm32l4_usbd_cdc_deinit(): the cable is pulled, or the host resets the bus. *)
Deinit ==
  /\ USBD
  /\ cuts < MaxCuts
  /\ cuts' = cuts + 1
  /\ state' = "RESET"
  /\ USBD' = FALSE /\ control' = FALSE
  /\ rx_busy' = FALSE /\ armed' = None
  /\ Note(state = "INIT", "revived")
  /\ UNCHANGED <<RxBuffer, ringVars, readerVars, byteVars>>

(* stm32l4_usbd_cdc_control(): the host opens the port.  The endpoint is not *)
(* armed here.                                                             *)
Control ==
  /\ USBD
  /\ ~control
  /\ control' = TRUE
  /\ state' = IF state = "RESET" THEN "READY" ELSE state
  /\ Note(state = "RESET" /\ ~rx_busy /\ rx_count = 0 /\ pc = "idle", "unopened")
  /\ UNCHANGED <<ringVars, USBD, endpointVars, readerVars, byteVars, cuts>>

-----------------------------------------------------------------------------
(* stm32l4_usbd_cdc_receive()                                              *)

Goto(l) == pc' = l /\ UNCHANGED <<total, part, wrap>>

(* What was read is what came, in its order.                               *)
Deliver(n) ==
  /\ ordered' = (ordered /\ \A i \in 0..n - 1 : rx_data[rx_read + i] = taken + 1 + i)
  /\ taken' = taken + n

Read(n) ==
  /\ pc = "idle"
  /\ state # "INIT"
  /\ total' = Min({n, rx_count})
  /\ pc' = "wrap"
  /\ UNCHANGED <<ringVars, deviceVars, endpointVars, part, wrap, byteVars, cuts, mishap>>

ReadWrap ==
  /\ pc = "wrap"
  /\ wrap' = rx_wrap
  /\ part' = Min({total, rx_wrap - rx_read})
  /\ pc' = "copy"
  /\ UNCHANGED <<ringVars, deviceVars, endpointVars, total, byteVars, cuts, mishap>>

(* The bytes up to the end of this turn ...                                *)
ReadCopy ==
  /\ pc = "copy"
  /\ Deliver(part)
  /\ \/ /\ rx_read + part = wrap
        /\ rx_read' = 0
        /\ Goto("unwrap")
     \/ /\ rx_read + part # wrap
        /\ rx_read' = rx_read + part
        /\ Goto("sub")
  /\ UNCHANGED <<rx_data, rx_write, rx_wrap, rx_count, deviceVars, endpointVars, received,
                 cuts, mishap>>

(* ... whose place is free again to the end of the ring ...                *)
ReadUnwrap ==
  /\ pc = "unwrap"
  /\ rx_wrap' = Size
  /\ Goto("sub")
  /\ UNCHANGED <<rx_data, rx_read, rx_write, rx_count, deviceVars, endpointVars, byteVars,
                 cuts, mishap>>

ReadSub ==
  /\ pc = "sub"
  /\ rx_count' = rx_count - part
  /\ Goto(IF total > part THEN "copyrest" ELSE "check")
  /\ UNCHANGED <<rx_data, rx_read, rx_write, rx_wrap, deviceVars, endpointVars, byteVars,
                 cuts, mishap>>

(* ... and the rest, from the start.                                       *)
ReadRest ==
  /\ pc = "copyrest"
  /\ Deliver(total - part)
  /\ rx_read' = rx_read + total - part
  /\ Goto("subrest")
  /\ UNCHANGED <<rx_data, rx_write, rx_wrap, rx_count, deviceVars, endpointVars, received,
                 cuts, mishap>>

ReadSubRest ==
  /\ pc = "subrest"
  /\ rx_count' = rx_count - (total - part)
  /\ Goto("check")
  /\ UNCHANGED <<rx_data, rx_read, rx_write, rx_wrap, deviceVars, endpointVars, byteVars,
                 cuts, mishap>>

(* Fault: the reader leaves the arming to the interrupt.                   *)
ReadCheckNot ==
  /\ pc = "check"
  /\ Goto("idle")
  /\ UNCHANGED <<ringVars, deviceVars, endpointVars, byteVars, cuts, mishap>>

ReadCheck ==
  /\ pc = "check"
  /\ Goto(IF ~rx_busy /\ state # "RESET" THEN "room" ELSE "idle")
  /\ UNCHANGED <<ringVars, deviceVars, endpointVars, byteVars, cuts, mishap>>

ReadRoom ==
  /\ pc = "room"
  /\ Goto(IF Room(rx_wrap, rx_count) THEN "arm" ELSE "idle")
  /\ UNCHANGED <<ringVars, deviceVars, endpointVars, byteVars, cuts, mishap>>

(* The endpoint may take a packet as soon as it is armed ...                *)
Arm ==
  /\ pc = "arm"
  /\ armed' = rx_write /\ RxBuffer' = rx_write
  /\ Note(~USBD, "detached")
  /\ Goto("busy")
  /\ UNCHANGED <<ringVars, deviceVars, rx_busy, byteVars, cuts>>

(* ... which is only now said to be so.                                    *)
Busy ==
  /\ pc = "busy"
  /\ rx_busy' = TRUE
  /\ Note(USBD /\ armed = None, "misarmed")
  /\ Goto("idle")
  /\ UNCHANGED <<ringVars, deviceVars, armed, RxBuffer, byteVars, cuts>>

-----------------------------------------------------------------------------
(* CDC::begin() and CDC::end() *)

(* What a port is that opens now.                                          *)
Found == IF ~USBD THEN "alone" ELSE IF control THEN "READY" ELSE "RESET"

(* stm32l4_usbd_cdc_enable() sets up the ring and looks at the device ...     *)
Begin ==
  /\ pc = "idle"
  /\ state = "INIT"
  /\ rx_read' = 0 /\ rx_write' = 0 /\ rx_wrap' = Size /\ rx_count' = 0
  /\ Goto(Found)
  /\ UNCHANGED <<rx_data, deviceVars, endpointVars, byteVars, cuts, mishap>>

(* ... then stores what it found, and goes on with Arm and Busy.            *)
Opening == {"alone", "READY", "RESET"}

Begun ==
  /\ pc \in Opening
  /\ state' = IF pc = "READY" THEN "READY" ELSE "RESET"
  /\ Note(pc # Found, "outdated")
  /\ Goto(IF pc = "alone" THEN "idle" ELSE "arm")
  /\ UNCHANGED <<ringVars, USBD, control, endpointVars, byteVars, cuts>>

(* stm32l4_usbd_cdc_disable(): the endpoint stays armed.                    *)
End ==
  /\ pc = "idle"
  /\ state # "INIT"
  /\ state' = "INIT"
  /\ rx_read' = 0 /\ rx_write' = 0 /\ rx_wrap' = 0 /\ rx_count' = 0
  /\ taken' = received
  /\ Goto("idle")
  /\ UNCHANGED <<rx_data, USBD, control, endpointVars, received, ordered, cuts, mishap>>

-----------------------------------------------------------------------------
(* stm32l4_usbd_cdc_create() *)
Init ==
  /\ rx_data = [s \in Slot |-> 0]
  /\ rx_read = 0 /\ rx_write = 0 /\ rx_wrap = 0 /\ rx_count = 0
  /\ rx_busy = FALSE /\ armed = None /\ RxBuffer = Null
  /\ state = "INIT" /\ USBD = FALSE /\ control = FALSE
  /\ pc = "idle" /\ total = 0 /\ part = 0 /\ wrap = 0
  /\ received = 0 /\ taken = 0 /\ ordered = TRUE /\ cuts = 0 /\ mishap = "none"

Reading ==
  \/ ReadWrap \/ ReadCopy \/ ReadUnwrap \/ ReadSub \/ ReadRest \/ ReadSubRest
  \/ ReadCheck \/ ReadRoom \/ Arm \/ Busy \/ Begun

(* A reader that looks whether there is something to read.                 *)
ReadAvailable == rx_count # 0 /\ \E n \in 1..MaxRead : Read(n)

Going == mishap = "none"

Next ==
  /\ Going
  /\ \/ \E n \in 0..MaxPacket : RxReady(n)
     \/ Enumerate \/ Deinit \/ Control
     \/ \E n \in 1..MaxRead : Read(n)
     \/ Reading
     \/ Begin \/ End

Spec == Init /\ [][Next]_vars

(* The reader runs, and reads what is available.  The host owes nothing.    *)
FairSpec ==
  /\ Spec
  /\ WF_vars(Going /\ Reading)
  /\ WF_vars(Going /\ ReadAvailable)

-----------------------------------------------------------------------------
(* Properties.                                                             *)

(* The indices stay in the ring although the reader, the interrupt and a    *)
(* reopened port all move them, the count is never taken below zero, and a   *)
(* packet of any length ends inside the ring.                              *)
TypeOK ==
  /\ rx_data \in [Slot -> 0..MaxBytes]
  /\ rx_read \in 0..Size /\ rx_write \in 0..Size - MaxPacket
  /\ rx_wrap \in 0..Size /\ rx_count \in 0..Size
  /\ rx_busy \in BOOLEAN /\ armed \in (0..Size - MaxPacket) \cup {Null, None}
  /\ RxBuffer \in (0..Size - MaxPacket) \cup {Null}
  /\ state \in {"INIT", "READY", "RESET"} /\ USBD \in BOOLEAN /\ control \in BOOLEAN
  /\ pc \in {"idle", "wrap", "copy", "unwrap", "sub", "copyrest", "subrest", "check",
             "room", "arm", "busy"} \cup Opening
  /\ total \in 0..MaxRead /\ part \in 0..MaxRead /\ wrap \in 0..Size
  /\ received \in 0..MaxBytes /\ taken \in 0..MaxBytes /\ ordered \in BOOLEAN
  /\ cuts \in 0..MaxCuts /\ mishap \in Mishaps \cup {"none"}

(* Every byte the host sent is read once and in its turn, and a peek shows   *)
(* the byte that the next read returns: neither a stale rx_wrap of the       *)
(* reader nor a turn that ends early makes it read another slot, and no      *)
(* packet is on its way to a slot whose byte has not been read.             *)
InOrder ==
  mishap = "none" =>
    /\ ordered
    /\ pc = "idle" /\ rx_count # 0 => rx_data[rx_read] = taken + 1
    /\ armed # None /\ state # "INIT" =>
         \A s \in Slot \cap (armed..armed + MaxPacket - 1) : rx_data[s] <= taken

(* While the port is open and connected the endpoint gets a target sooner or *)
(* later: the interrupt and the reader do not both leave it to the other.    *)
KeepsReceiving ==
  state = "READY" ~> armed # None \/ state # "READY" \/ mishap # "none"
=============================================================================
