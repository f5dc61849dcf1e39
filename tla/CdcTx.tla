------------------------------- MODULE CdcTx -------------------------------
(***************************************************************************)
(* The transmit side of the USB serial port: the CDC class of CDC.cpp over  *)
(* the driver of stm32l4_usbd_cdc.c and the class of the USB stack.         *)
(*                                                                         *)
(* Like a UART the port has a ring and takes over one buffer of the caller. *)
(* Unlike a UART it leaves less than PacketSmall bytes in the ring for the   *)
(* start-of-frame interrupt to send, and the host suspends, resumes,        *)
(* disconnects and enumerates it at any time.  One context writes (the      *)
(* thread); every event of the USB is one action, because all of them are   *)
(* handled by one interrupt.  transmit() blocks that interrupt, so it is     *)
(* one action as well.                                                     *)
(*                                                                         *)
(* Bytes of the ring are numbered 1, 2, ... as they are accepted.  Of a      *)
(* handed buffer only its length matters, and how much of it was sent.       *)
(***************************************************************************)
EXTENDS Integers, FiniteSets, FiniteSetsExt

CONSTANTS
  BufferSize,   \* CDC_TX_BUFFER_SIZE
  PacketSize,   \* CDC_TX_PACKET_SIZE
  PacketSmall,  \* CDC_TX_PACKET_SMALL
  Frames,       \* the 8 start-of-frames that small packets wait for
  HalfWord,     \* 2^16: what the length of a transmission is counted in
  MaxWrite,     \* bound: the bytes of one write
  MaxBytes,     \* bound: the bytes accepted into the ring
  MaxAsync,     \* bound: the writes with a callback
  MaxCuts       \* bound: the times the host suspends or disconnects

ASSUME SizeAssumption ==
  /\ BufferSize \in Nat \ {0} /\ PacketSize \in Nat \ {0}
  /\ PacketSmall \in 1..BufferSize /\ Frames \in Nat \ {0}
  /\ HalfWord \in Nat /\ HalfWord > PacketSize
  /\ MaxWrite \in Nat \ {0} /\ MaxBytes \in Nat /\ MaxAsync \in Nat /\ MaxCuts \in Nat

VARIABLES
  tx_data,            \* CDC::_tx_data
  tx_read,            \* CDC::_tx_read
  tx_write,           \* CDC::_tx_write
  tx_count,           \* CDC::_tx_count
  tx_size,            \* CDC::_tx_size: bytes of the ring in transmission
  tx_timeout,         \* CDC::_tx_timeout, as far as it is compared
  tx_size2,           \* CDC::_tx_size2: the handed buffer's length, 0 if there is none
  completion,         \* CDC::_completionCallback is set
  state,              \* usbd_cdc->state
  listening,          \* usbd_cdc->events and callback are set
  USBD,               \* device.USBD is set, and the callbacks are registered
  tx_busy,            \* device.tx_busy, and TxState of the USB stack's class
  tx_flush,           \* device.tx_flush
  control,            \* device.control
  suspended,          \* device.suspended
  source,             \* what is being sent, and where in it
  left,               \* bytes of the transmission not yet sent
  pc,                 \* where the writer is
  size,               \* its local size - count
  room,               \* its local tx_count, then its local tx_size
  at,                 \* its local tx_read
  blocking,           \* CDC::_blocking && __get_IPSR() == 0
  accepted,           \* history: the bytes accepted into the ring
  wire,               \* history: the last of them sent or given up
  sent,               \* history: how many of them were sent or given up
  async,              \* history: the writes with a callback that returned true
  handed,             \* history: the callbacks passed to armv7m_pendsv_enqueue
  cuts,               \* history: suspensions and disconnections
  mishap             \* history: what went wrong, see below

ringVars == <<tx_data, tx_read, tx_write, tx_count, tx_size, tx_timeout>>
asyncVars == <<tx_size2, completion>>
portVars == <<state, listening>>
deviceVars == <<USBD, control, suspended>>
wireVars == <<tx_busy, source, left>>
writerVars == <<pc, size, room, at, blocking>>
history == <<accepted, wire, sent, async, handed, cuts, mishap>>
vars == <<ringVars, asyncVars, portVars, deviceVars, wireVars, tx_flush, writerVars, history>>

Slot == 0..BufferSize - 1
Ring(p) == [in |-> "ring", at |-> p]
Buffer == [in |-> "buffer", at |-> 0]
Sources == [in : {"ring"}, at : 0..BufferSize] \cup [in : {"buffer"}, at : 0..MaxWrite]

(***************************************************************************)
(* The properties below hold as long as none of these happened.  The model  *)
(* ends there: no property speaks of what comes after.                     *)
(*   collided:  a start-of-frame sends the ring while the writer, which has *)
(*              found the device idle, is about to send it                  *)
(*   refused:   the packet of a start-of-frame is refused, which nobody     *)
(*              looks at: _tx_size stays set with nothing in transmission    *)
(*   orphaned:  a handed buffer is left behind with no transmission to come *)
(*   straddled: the ring is given up while the writer has moved _tx_write    *)
(*              and is about to add to _tx_count                           *)
(*   overtaken: the writer sends an empty packet, because what it wanted to  *)
(*              send was sent between its test and its call                 *)
(*   revived:   a disconnection makes a port that is not open RESET          *)
(*   outdated:  begin() makes the port what the host had it be when it looked, *)
(*              and the host has opened, suspended or left it since           *)
(***************************************************************************)
Mishaps == {"collided", "refused", "orphaned", "straddled", "overtaken",
            "revived", "outdated"}
Note(p, m) == mishap' = IF p THEN m ELSE "none"

-----------------------------------------------------------------------------
(* stm32l4_usbd_cdc.c                                                      *)

(* stm32l4_usbd_cdc_transmit(); the state of the USB stack's class cannot be *)
(* busy when tx_busy is not set.                                           *)
CanTransmit == state = "READY" /\ ~tx_busy

(* USBD_CDC_SetTxBuffer() takes a uint16_t: the rest of a longer buffer is    *)
(* not sent.                                                               *)
Count16(n) == n % HalfWord

Start(from, n) ==
  /\ tx_busy' = TRUE
  /\ source' = from
  /\ left' = Count16(n)

Transmit(from, n) == IF CanTransmit THEN Start(from, n) ELSE UNCHANGED wireVars

(* stm32l4_usbd_cdc_done()                                                  *)
Done == CanTransmit

(* The host takes a byte of the transmission.  After a suspension gave it up *)
(* what still goes out is no longer counted.                               *)
SendByte ==
  /\ left > 0
  /\ ~suspended
  /\ left' = left - 1
  /\ source' = [source EXCEPT !.at = @ + 1]
  /\ IF source.in = "ring" /\ ~tx_flush
     THEN wire' = tx_data[source.at] /\ sent' = sent + 1
     ELSE UNCHANGED <<wire, sent>>
  /\ UNCHANGED <<ringVars, asyncVars, portVars, deviceVars, tx_busy, tx_flush, writerVars,
                 accepted, async, handed, cuts, mishap>>

-----------------------------------------------------------------------------
(* CDC::EventCallback(USBD_CDC_EVENT_TRANSMIT)                               *)

(* Fault: a packet may run past the end of the ring.                       *)
PacketUnwrapped(count, read) == Min({count, PacketSize})

(* The next packet: not past the end of the ring, not more than a packet.   *)
Packet(count, read) == Min({count, BufferSize - read, PacketSize})

(* Fault: _tx_size is cleared and not set again for the next packet.        *)
PacketSentUnsized ==
  LET read == (tx_read + tx_size) % BufferSize
      count == tx_count - tx_size
  IN /\ tx_size # 0
     /\ tx_read' = read
     /\ tx_count' = count
     /\ tx_size' = 0
     /\ IF count # 0 THEN Start(Ring(read), Packet(count, read))
        ELSE IF tx_size2 # 0 THEN Start(Buffer, tx_size2)
        ELSE tx_busy' = FALSE /\ UNCHANGED <<source, left>>
     /\ UNCHANGED <<asyncVars, handed>>

(* A packet of the ring was sent: the next one, or the handed buffer.       *)
PacketSent ==
  LET read == (tx_read + tx_size) % BufferSize
      count == tx_count - tx_size
  IN /\ tx_size # 0
     /\ tx_read' = read
     /\ tx_count' = count
     /\ \/ /\ count # 0
           /\ tx_size' = Packet(count, read)
           /\ Start(Ring(read), Packet(count, read))
        \/ /\ count = 0
           /\ tx_size' = 0
           /\ IF tx_size2 # 0 THEN Start(Buffer, tx_size2)
              ELSE tx_busy' = FALSE /\ UNCHANGED <<source, left>>
     /\ UNCHANGED <<asyncVars, handed>>

(* Fault: the read index stays behind the packet that was cut off.          *)
PacketCutBehind ==
  /\ tx_size # 0
  /\ tx_read' = (tx_read + tx_size) % BufferSize
  /\ tx_count' = 0
  /\ tx_size' = 0
  /\ wire' = accepted
  /\ sent' = accepted
  /\ mishap' = CASE tx_size2 # 0 -> "orphaned"
                 [] tx_size2 = 0 /\ pc = "add" -> "straddled"
                 [] OTHER -> "none"
  /\ UNCHANGED <<asyncVars, handed>>

(* A packet was cut off: the whole ring is given up with it.               *)
PacketCut ==
  /\ tx_size # 0
  /\ tx_read' = tx_write
  /\ tx_count' = 0
  /\ tx_size' = 0
  /\ wire' = accepted
  /\ sent' = accepted
  /\ mishap' = CASE tx_size2 # 0 -> "orphaned"
                 [] tx_size2 = 0 /\ pc = "add" -> "straddled"
                 [] OTHER -> "none"
  /\ UNCHANGED <<asyncVars, handed>>

(* The handed buffer was sent, or cut off: defer its callback.             *)
BufferEnded ==
  /\ tx_size = 0
  /\ tx_size2' = 0
  /\ completion' = FALSE
  /\ handed' = IF completion THEN handed + 1 ELSE handed
  /\ UNCHANGED <<tx_read, tx_count, tx_size>>

(* The event in state READY, at the end of a transmission.                  *)
Transmitted ==
  /\ tx_timeout' = 0
  /\ \/ PacketSent
     \/ /\ BufferEnded
        /\ tx_busy' = FALSE
        /\ UNCHANGED <<source, left>>

(* The event in another state, with a transmission cut off.                 *)
Interrupted ==
  /\ tx_timeout' = 0
  /\ \/ PacketCut
     \/ BufferEnded /\ UNCHANGED <<wire, sent, mishap>>

-----------------------------------------------------------------------------
(* Events of the USB, from its interrupt.                                  *)

(* stm32l4_usbd_cdc_tx_done() *)
TxDone ==
  /\ tx_busy
  /\ left = 0
  /\ ~suspended
  /\ tx_flush' = FALSE
  /\ \/ /\ ~tx_flush /\ listening
        /\ Transmitted
        /\ UNCHANGED mishap
     \/ /\ tx_flush \/ ~listening
        /\ tx_busy' = FALSE
        /\ Note(tx_size2 # 0, "orphaned")
        /\ UNCHANGED <<ringVars, asyncVars, source, left, handed>>
  /\ UNCHANGED <<tx_data, tx_write, portVars, deviceVars, writerVars,
                 accepted, wire, sent, async, cuts>>

(* Fault: a packet is not sent unless it is full.                           *)
SofDueFull == tx_count >= PacketSmall /\ tx_size = 0 /\ tx_size2 = 0

(* CDC::EventCallback(USBD_CDC_EVENT_SOF): only for a ring that nobody sends. *)
SofDue == tx_count # 0 /\ tx_size = 0 /\ tx_size2 = 0

(* Between done() and transmit() of the writer.                            *)
AboutToSend ==
  \/ pc \in {"fullsend", "fulltransmit", "transmit"}
  \/ pc = "send" /\ tx_count >= PacketSmall

(* stm32l4_usbd_cdc_sof_callback() *)
Sof ==
  /\ USBD /\ ~suspended
  /\ listening
  /\ SofDue
  /\ tx_timeout' = Min({tx_timeout + 1, Frames})
  /\ \/ /\ tx_timeout' < Frames
        /\ UNCHANGED <<tx_size, wireVars, mishap>>
     \/ /\ tx_timeout' = Frames
        /\ tx_size' = Packet(tx_count, tx_read)
        /\ Transmit(Ring(tx_read), Packet(tx_count, tx_read))
        /\ mishap' = CASE ~CanTransmit -> "refused"
                       [] CanTransmit /\ AboutToSend -> "collided"
                       [] OTHER -> "none"
  /\ UNCHANGED <<tx_data, tx_read, tx_write, tx_count, asyncVars, portVars, deviceVars,
                 tx_flush, writerVars, accepted, wire, sent, async, handed, cuts>>

(* stm32l4_usbd_cdc_suspend_callback() *)
Suspend ==
  /\ USBD /\ ~suspended
  /\ cuts < MaxCuts
  /\ cuts' = cuts + 1
  /\ state' = IF state = "INIT" THEN "INIT" ELSE "SUSPENDED"
  /\ suspended' = TRUE
  /\ tx_flush' = tx_busy
  /\ \/ /\ tx_busy /\ ~tx_flush /\ listening
        /\ Interrupted
     \/ /\ ~tx_busy \/ tx_flush \/ ~listening
        /\ UNCHANGED <<ringVars, asyncVars, handed, wire, sent, mishap>>
  /\ UNCHANGED <<tx_data, tx_write, listening, USBD, control, wireVars, writerVars,
                 accepted, async>>

(* stm32l4_usbd_cdc_resume_callback() *)
Resume ==
  /\ USBD /\ suspended
  /\ suspended' = FALSE
  /\ state' = IF state = "SUSPENDED"
              THEN IF control THEN "READY" ELSE "RESET"
              ELSE state
  /\ UNCHANGED <<ringVars, asyncVars, listening, USBD, control, wireVars, tx_flush,
                 writerVars, history>>

(* stm32l4_usbd_cdc_deinit(): the cable is pulled, or the host resets the bus. *)
Deinit ==
  /\ USBD
  /\ cuts < MaxCuts
  /\ cuts' = cuts + 1
  /\ state' = "RESET"
  /\ USBD' = FALSE /\ control' = FALSE /\ suspended' = FALSE
  /\ tx_busy' = FALSE /\ tx_flush' = FALSE /\ left' = 0
  /\ \/ /\ tx_busy /\ ~tx_flush /\ listening
        /\ Interrupted
     \/ /\ ~tx_busy \/ tx_flush \/ ~listening
        /\ Note(~listening, "revived")
        /\ UNCHANGED <<ringVars, asyncVars, handed, wire, sent>>
  /\ UNCHANGED <<tx_data, tx_write, listening, source, writerVars, accepted, async>>

(* stm32l4_usbd_cdc_init(): the host enumerates the device.                 *)
Enumerate ==
  /\ ~USBD
  /\ USBD' = TRUE
  /\ UNCHANGED <<ringVars, asyncVars, portVars, control, suspended, wireVars, tx_flush,
                 writerVars, history>>

(* stm32l4_usbd_cdc_control(): the host opens the port.                     *)
Control ==
  /\ USBD /\ ~suspended
  /\ ~control
  /\ control' = TRUE
  /\ state' = IF state = "RESET" THEN "READY" ELSE state
  /\ UNCHANGED <<ringVars, asyncVars, listening, USBD, suspended, wireVars, tx_flush,
                 writerVars, history>>

-----------------------------------------------------------------------------
(* CDC::write(buffer, size)                                                *)

Goto(l) == pc' = l /\ UNCHANGED <<size, room, at, blocking>>

Write(n, b) ==
  /\ pc = "idle"
  /\ accepted + n <= MaxBytes
  /\ state = "READY"
  /\ pc' = "begin"
  /\ size' = n
  /\ blocking' = b
  /\ UNCHANGED <<ringVars, asyncVars, portVars, deviceVars, wireVars, tx_flush, room, at,
                 history>>

(* While a handed buffer is being sent nothing is accepted.                *)
WriteBegin ==
  /\ pc = "begin"
  /\ \/ tx_size2 = 0 /\ Goto("room")
     \/ tx_size2 # 0 /\ ~blocking /\ Goto("idle")
  /\ UNCHANGED <<ringVars, asyncVars, portVars, deviceVars, wireVars, tx_flush, history>>

WriteRoom ==
  /\ pc = "room"
  /\ room' = BufferSize - tx_count
  /\ pc' = CASE tx_count # BufferSize -> "copy"
             [] tx_count = BufferSize /\ ~blocking -> "kick"
             [] OTHER -> "full"
  /\ UNCHANGED <<ringVars, asyncVars, portVars, deviceVars, wireVars, tx_flush, size, at,
                 blocking, history>>

(* The ring is full: send from it if the device is idle, and wait for room. *)
WriteFull ==
  /\ pc = "full"
  /\ Goto(IF Done THEN "fullsend" ELSE "wait")
  /\ UNCHANGED <<ringVars, asyncVars, portVars, deviceVars, wireVars, tx_flush, history>>

(* The packet is taken from the members ...                                *)
Choose(next) ==
  /\ at' = tx_read
  /\ room' = Packet(tx_count, tx_read)
  /\ tx_size' = Packet(tx_count, tx_read)
  /\ pc' = next
  /\ UNCHANGED <<tx_data, tx_read, tx_write, tx_count, tx_timeout, asyncVars, portVars,
                 deviceVars, wireVars, tx_flush, size, blocking, history>>

WriteFullSend == pc = "fullsend" /\ Choose("fulltransmit")

(* Fault: a refused packet stays in the ring and in _tx_size.               *)
LaunchKeeping(next) ==
  /\ Transmit(Ring(at), room)
  /\ Note(CanTransmit /\ room = 0, "overtaken")
  /\ Goto(next)
  /\ UNCHANGED <<ringVars, asyncVars, portVars, deviceVars, tx_flush,
                 accepted, wire, sent, async, handed, cuts>>

(* ... and sent; if the host has gone in between the ring is given up.      *)
Launch(next) ==
  /\ Transmit(Ring(at), room)
  /\ \/ /\ CanTransmit
        /\ Note(room = 0, "overtaken")
        /\ UNCHANGED <<tx_read, tx_count, tx_size, wire, sent>>
     \/ /\ ~CanTransmit
        /\ tx_size' = 0
        /\ tx_count' = 0
        /\ tx_read' = tx_write
        /\ wire' = accepted
        /\ sent' = accepted
        /\ UNCHANGED mishap
  /\ Goto(next)
  /\ UNCHANGED <<tx_data, tx_write, tx_timeout, asyncVars, portVars, deviceVars, tx_flush,
                 accepted, async, handed, cuts>>

WriteFullTransmit == pc = "fulltransmit" /\ Launch("wait")

WriteWait ==
  /\ pc = "wait"
  /\ tx_count # BufferSize
  /\ room' = BufferSize - tx_count
  /\ pc' = "copy"
  /\ UNCHANGED <<ringVars, asyncVars, portVars, deviceVars, wireVars, tx_flush, size, at,
                 blocking, history>>

(* What fits is copied, up to the end of the ring ...                      *)
WriteCopy ==
  LET n == Min({room, BufferSize - tx_write, size}) IN
  /\ pc = "copy"
  /\ tx_data' = [s \in Slot |-> IF s \in tx_write..tx_write + n - 1
                                THEN accepted + 1 + (s - tx_write) ELSE tx_data[s]]
  /\ tx_write' = (tx_write + n) % BufferSize
  /\ accepted' = accepted + n
  /\ room' = n
  /\ size' = size - n
  /\ pc' = "add"
  /\ UNCHANGED <<tx_read, tx_count, tx_size, tx_timeout, asyncVars, portVars, deviceVars,
                 wireVars, tx_flush, at, blocking, wire, sent, async, handed, cuts, mishap>>

(* ... and then counted.                                                   *)
WriteAdd ==
  /\ pc = "add"
  /\ tx_count' = tx_count + room
  /\ Goto(IF size = 0 THEN "kick" ELSE "room")
  /\ UNCHANGED <<tx_data, tx_read, tx_write, tx_size, tx_timeout, asyncVars, portVars,
                 deviceVars, wireVars, tx_flush, history>>

(* An idle device is started, but not for a small packet.                  *)
WriteKick ==
  /\ pc = "kick"
  /\ Goto(IF Done THEN "send" ELSE "idle")
  /\ UNCHANGED <<ringVars, asyncVars, portVars, deviceVars, wireVars, tx_flush, history>>

WriteSend ==
  /\ pc = "send"
  /\ \/ tx_count >= PacketSmall /\ Choose("transmit")
     \/ /\ tx_count < PacketSmall
        /\ Goto("idle")
        /\ UNCHANGED <<ringVars, asyncVars, portVars, deviceVars, wireVars, tx_flush, history>>

WriteTransmit == pc = "transmit" /\ Launch("idle")

-----------------------------------------------------------------------------
(* CDC::write(buffer, size, callback)                                      *)

AsyncWrite(n) ==
  /\ pc = "idle"
  /\ async < MaxAsync
  /\ state = "READY"
  /\ tx_size2 = 0
  /\ completion' = TRUE
  /\ tx_size2' = n
  /\ async' = async + 1
  /\ Goto("asyncdone")
  /\ UNCHANGED <<ringVars, portVars, deviceVars, wireVars, tx_flush, accepted, wire, sent,
                 handed, cuts, mishap>>

(* A device that is not idle is expected to send the buffer when it ends.   *)
AsyncDone ==
  /\ pc = "asyncdone"
  /\ Goto(IF Done THEN "asyncsend" ELSE "idle")
  /\ Note(tx_size2 # 0 /\ (state # "READY" \/ tx_flush), "orphaned")
  /\ UNCHANGED <<ringVars, asyncVars, portVars, deviceVars, wireVars, tx_flush,
                 accepted, wire, sent, async, handed, cuts>>

(* A refused buffer is forgotten, but its callback is not.                  *)
AsyncSend ==
  /\ pc = "asyncsend"
  /\ Transmit(Buffer, tx_size2)
  /\ tx_size2' = IF CanTransmit THEN tx_size2 ELSE 0
  /\ mishap' = CASE ~CanTransmit -> "orphaned"
                 [] CanTransmit /\ tx_size2 = 0 -> "overtaken"
                 [] OTHER -> "none"
  /\ Goto("idle")
  /\ UNCHANGED <<ringVars, completion, portVars, deviceVars, tx_flush, accepted, wire, sent,
                 async, handed, cuts>>

-----------------------------------------------------------------------------
(* CDC::flush(), CDC::begin() and CDC::end() *)

Flushed == tx_count = 0 /\ tx_size2 = 0 /\ Done

(* On a port that is not open it never ends.                               *)
Flush ==
  /\ pc = "idle"
  /\ Goto("flush")
  /\ UNCHANGED <<ringVars, asyncVars, portVars, deviceVars, wireVars, tx_flush, history>>

(* It was called by itself, by begin() on an open port, or by end().        *)
FlushDone ==
  /\ pc = "flush"
  /\ Flushed
  /\ \E l \in {"idle", "notify", "end"} : Goto(l)
  /\ UNCHANGED <<ringVars, asyncVars, portVars, deviceVars, wireVars, tx_flush, history>>

(* stm32l4_usbd_cdc_notify() *)
Notify ==
  /\ pc = "notify"
  /\ listening' = (state # "INIT")
  /\ Goto("idle")
  /\ UNCHANGED <<ringVars, asyncVars, state, deviceVars, wireVars, tx_flush, history>>

(* stm32l4_usbd_cdc_disable() *)
End ==
  /\ pc = "end"
  /\ state' = "INIT"
  /\ listening' = FALSE
  /\ Goto("idle")
  /\ UNCHANGED <<ringVars, asyncVars, deviceVars, wireVars, tx_flush, history>>

(* What a port is that opens now.                                          *)
Found == IF suspended THEN "SUSPENDED" ELSE IF control THEN "READY" ELSE "RESET"

(* stm32l4_usbd_cdc_enable() registers the callback and looks at the device ... *)
Begin ==
  /\ pc = "idle"
  /\ state = "INIT"
  /\ listening' = TRUE
  /\ Goto(Found)
  /\ UNCHANGED <<ringVars, asyncVars, state, deviceVars, wireVars, tx_flush, history>>

(* ... and then stores what it found, which is where it is.                 *)
Opening == {"SUSPENDED", "READY", "RESET"}

Begun ==
  /\ pc \in Opening
  /\ state' = pc
  /\ Note(pc # Found, "outdated")
  /\ Goto("idle")
  /\ UNCHANGED <<ringVars, asyncVars, listening, deviceVars, wireVars, tx_flush,
                 accepted, wire, sent, async, handed, cuts>>

-----------------------------------------------------------------------------
Init ==
  /\ tx_data = [s \in Slot |-> 0]
  /\ tx_read = 0 /\ tx_write = 0 /\ tx_count = 0 /\ tx_size = 0 /\ tx_timeout = 0
  /\ tx_size2 = 0 /\ completion = FALSE
  /\ state = "INIT" /\ listening = FALSE
  /\ USBD = FALSE /\ control = FALSE /\ suspended = FALSE
  /\ tx_busy = FALSE /\ tx_flush = FALSE /\ source = Buffer /\ left = 0
  /\ pc = "idle" /\ size = 0 /\ room = 0 /\ at = 0 /\ blocking = TRUE
  /\ accepted = 0 /\ wire = 0 /\ sent = 0 /\ async = 0 /\ handed = 0 /\ cuts = 0
  /\ mishap = "none"

Writing ==
  \/ WriteBegin \/ WriteRoom \/ WriteFull \/ WriteFullSend \/ WriteFullTransmit
  \/ WriteWait \/ WriteCopy \/ WriteAdd \/ WriteKick \/ WriteSend \/ WriteTransmit
  \/ AsyncDone \/ AsyncSend
  \/ FlushDone \/ Notify \/ End \/ Begun

Host == Suspend \/ Resume \/ Deinit \/ Enumerate \/ Control

Going == mishap = "none"

Next ==
  /\ Going
  /\ \/ \E n \in 1..MaxWrite, b \in BOOLEAN : Write(n, b)
     \/ \E n \in 1..MaxWrite : AsyncWrite(n)
     \/ Flush
     \/ Begin
     \/ Writing
     \/ SendByte
     \/ TxDone
     \/ Sof
     \/ Host

Spec == Init /\ [][Next]_vars

(* The processor keeps running the writer; a connected host takes the data  *)
(* and sends start-of-frames.  Nobody has to write, resume or connect.      *)
FairSpec ==
  /\ Spec
  /\ WF_vars(Going /\ Writing)
  /\ WF_vars(Going /\ SendByte)
  /\ WF_vars(Going /\ TxDone)
  /\ WF_vars(Going /\ Sof)

-----------------------------------------------------------------------------
(* Properties.                                                             *)

(* The counts and indices of the ring, which the writer, the end of a        *)
(* transmission, the start-of-frame and a disconnection all update, stay in  *)
(* its bounds; a packet does not run past the end of the ring, and what is   *)
(* in transmission is counted.                                             *)
TypeOK ==
  /\ tx_data \in [Slot -> 0..MaxBytes]
  /\ tx_read \in Slot /\ tx_write \in Slot /\ tx_count \in 0..BufferSize
  /\ tx_size \in 0..Min({BufferSize, PacketSize}) /\ tx_timeout \in 0..Frames
  /\ tx_size2 \in 0..MaxWrite /\ completion \in BOOLEAN
  /\ state \in {"INIT", "READY", "SUSPENDED", "RESET"} /\ listening \in BOOLEAN
  /\ USBD \in BOOLEAN /\ control \in BOOLEAN /\ suspended \in BOOLEAN
  /\ tx_busy \in BOOLEAN /\ tx_flush \in BOOLEAN
  /\ source \in Sources
  /\ left \in 0..Max({MaxWrite, PacketSize})
  /\ source.in = "ring" => source.at + left <= BufferSize
  /\ source.in = "buffer" => source.at + left <= MaxWrite
  /\ pc \in {"idle", "begin", "room", "full", "fullsend", "fulltransmit", "wait", "copy",
             "add", "kick", "send", "transmit", "asyncdone", "asyncsend", "flush",
             "notify", "end"} \cup Opening
  /\ size \in 0..MaxWrite /\ room \in 0..BufferSize /\ at \in Slot /\ blocking \in BOOLEAN
  /\ accepted \in 0..MaxBytes /\ wire \in 0..MaxBytes
  /\ async \in 0..MaxAsync /\ handed \in 0..MaxAsync
  /\ cuts \in 0..MaxCuts /\ mishap \in Mishaps \cup {"none"}
  /\ mishap = "none" => tx_count >= tx_size

(* The bytes of the ring reach the host once and in order, and none is left  *)
(* out but those given up with a suspension or a disconnection: no slot is   *)
(* overwritten before it is sent, whoever starts the transmission.          *)
InOrder == mishap = "none" => wire = sent /\ sent <= accepted

(* _tx_size says which event ends which transmission: while it is set, the   *)
(* ring is in transmission, or the writer is just about to start it.  Else   *)
(* the end of one would be taken for the end of the other.                  *)
SizeInFlight ==
  mishap = "none" =>
    /\ tx_size # 0 => \/ tx_busy /\ source.in = "ring" /\ ~tx_flush
                      \/ pc \in {"fulltransmit", "transmit"}
    /\ tx_busy /\ ~tx_flush /\ source.in = "ring" => tx_size # 0

(* The caller may reuse its buffer when its callback is handed on: all of    *)
(* the buffer was sent, or the host is gone.  A buffer of 65536 bytes or more *)
(* is the exception: what 16 bits hold of its length was sent.              *)
CallbackAfterData ==
  [][mishap = "none" /\ handed' # handed =>
       \/ source.in = "buffer" /\ tx_busy /\ source.at = tx_size2
       \/ state' # "READY"
       \/ tx_size2 >= HalfWord]_vars

(* While the host stays, what was accepted is sent: small packets by the     *)
(* start-of-frame, everything else by the writer and by the end of the       *)
(* packet before.                                                          *)
Drained ==
  state = "READY" /\ (tx_count # 0 \/ tx_size2 # 0) ~>
    \/ tx_count = 0 /\ tx_size2 = 0
    \/ state # "READY"
    \/ mishap # "none"
=============================================================================
