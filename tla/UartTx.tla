------------------------------- MODULE UartTx -------------------------------
(***************************************************************************)
(* The transmit side of a serial port: the Uart class of Uart.cpp over the  *)
(* driver of stm32l4_uart.c.                                               *)
(*                                                                         *)
(* write() copies bytes into a ring and starts the UART if it is idle;      *)
(* write(buffer, size, callback) hands the caller's buffer over and returns. *)
(* The transfer-complete interrupt calls Uart::EventCallback, which starts  *)
(* the next packet of the ring or the handed buffer.  One context writes    *)
(* (the thread); the interrupt comes between any two of its accesses to     *)
(* what they share.  The UART reads the bytes from the ring, or from the    *)
(* caller's buffer, only as it sends them.                                 *)
(*                                                                         *)
(* Bytes are numbered 1, 2, ... in the order in which they are accepted, so *)
(* a byte of the ring or of the wire is its number.                        *)
(***************************************************************************)
EXTENDS Integers, FiniteSets, FiniteSetsExt

CONSTANTS
  BufferSize,  \* UART_TX_BUFFER_SIZE
  PacketSize,  \* UART_TX_PACKET_SIZE
  HalfWord,    \* 2^16: stm32l4_uart_transmit takes a uint16_t
  MaxWrite,    \* bound: the bytes of one write
  MaxBytes,    \* bound: the bytes accepted
  MaxAsync     \* bound: the writes with a callback

ASSUME SizeAssumption ==
  /\ BufferSize \in Nat \ {0}
  /\ PacketSize \in Nat \ {0}
  /\ HalfWord \in Nat /\ HalfWord > PacketSize
  /\ MaxWrite \in Nat \ {0}
  /\ MaxBytes \in Nat
  /\ MaxAsync \in Nat

VARIABLES
  tx_data,            \* Uart::_tx_data
  tx_read,            \* Uart::_tx_read
  tx_write,           \* Uart::_tx_write
  tx_count,           \* Uart::_tx_count
  tx_size,            \* Uart::_tx_size: bytes of the ring in transmission
  tx_data2,           \* Uart::_tx_data2: its first byte, 0 if NULL
  tx_size2,           \* Uart::_tx_size2
  completion,         \* Uart::_completionCallback is set
  state,              \* uart->state
  source,             \* uart->tx_data: what is being sent, and where in it
  left,               \* bytes of the transmission not yet sent
  pc,                 \* where the writer is
  size,               \* its local size - count
  room,               \* its local tx_count
  blocking,           \* Uart::_blocking && __get_IPSR() == 0
  accepted,           \* history: the bytes accepted
  sent,               \* history: the bytes sent
  wire,               \* history: the last byte sent
  async,              \* history: the writes with a callback that were accepted
  handed,             \* history: the callbacks passed to armv7m_pendsv_enqueue
  overtaken,          \* history: write(..., callback) started nothing (see AsyncSend)
  cut                 \* history: write(..., callback) of HalfWord bytes or more

ringVars == <<tx_data, tx_read, tx_write, tx_count, tx_size>>
asyncVars == <<tx_data2, tx_size2, completion>>
uartVars == <<state, source, left>>
writerVars == <<pc, size, room, blocking>>
history == <<accepted, sent, wire, async, handed, overtaken, cut>>
vars == <<ringVars, asyncVars, uartVars, writerVars, history>>

Slot == 0..BufferSize - 1
Byte == 1..MaxBytes
Ring(p) == [in |-> "ring", at |-> p]
Buffer(b) == [in |-> "buffer", at |-> b]

-----------------------------------------------------------------------------
(* stm32l4_uart.c                                                          *)

(* What is left of a count of 32 bits in the uint16_t that the driver takes. *)
(* If nothing is, the driver sends HalfWord bytes by interrupts, and by DMA  *)
(* none and never ends; here it ends at once, and what depends on it is not  *)
(* stated of a port that was given such a buffer (cut).                    *)
Count16(n) == n % HalfWord

(* stm32l4_uart_transmit(): refused unless the UART is idle, which nobody   *)
(* checks.                                                                 *)
Transmit(from, n) ==
  IF state = "READY"
  THEN /\ state' = "TRANSMIT"
       /\ source' = from
       /\ left' = Count16(n)
  ELSE UNCHANGED uartVars

Done == state = "READY"

(* The byte that the UART reads next.                                      *)
NextByte == IF source.in = "ring" THEN tx_data[source.at] ELSE source.at

(* A byte goes out: TDR is written by stm32l4_uart_transmit, by the TXE     *)
(* interrupt, or by the DMA.                                               *)
SendByte ==
  /\ state = "TRANSMIT"
  /\ left > 0
  /\ wire' = NextByte
  /\ sent' = sent + 1
  /\ left' = left - 1
  /\ source' = [source EXCEPT !.at =
                  IF source.in = "ring" THEN (@ + 1) % BufferSize ELSE @ + 1]
  /\ UNCHANGED <<ringVars, asyncVars, state, writerVars, accepted, async, handed,
                 overtaken, cut>>

-----------------------------------------------------------------------------
(* Uart::EventCallback(UART_EVENT_TRANSMIT), from the transfer-complete     *)
(* interrupt; the interrupt itself sets the state to READY first.          *)

(* Fault: the packet is not limited to a packet.                           *)
PacketUnlimited(count, read) == Min({count, BufferSize - read})

(* The next packet: not past the end of the ring, not more than a packet.   *)
Packet(count, read) == Min({count, BufferSize - read, PacketSize})

(* Transmit, from the interrupt: the state was set to READY just before.    *)
Restart(from, n) ==
  /\ state' = "TRANSMIT"
  /\ source' = from
  /\ left' = Count16(n)

Idle ==
  /\ state' = "READY"
  /\ UNCHANGED <<source, left>>

(* Fault: the handed buffer goes ahead of the rest of the ring.            *)
PacketSentBufferFirst ==
  LET read == (tx_read + tx_size) % BufferSize
      count == tx_count - tx_size
  IN /\ tx_size # 0
     /\ tx_read' = read
     /\ tx_count' = count
     /\ tx_size' = IF tx_size2 = 0 THEN Packet(count, read) ELSE 0
     /\ IF tx_size2 # 0 THEN Restart(Buffer(tx_data2), tx_size2)
        ELSE IF count # 0 THEN Restart(Ring(read), Packet(count, read)) ELSE Idle
     /\ UNCHANGED <<tx_data, tx_write, asyncVars, handed>>

(* Fault: the handed buffer is not looked at when the ring runs empty.      *)
PacketSentRingOnly ==
  LET read == (tx_read + tx_size) % BufferSize
      count == tx_count - tx_size
  IN /\ tx_size # 0
     /\ tx_read' = read
     /\ tx_count' = count
     /\ tx_size' = Packet(count, read)
     /\ IF count # 0 THEN Restart(Ring(read), Packet(count, read)) ELSE Idle
     /\ UNCHANGED <<tx_data, tx_write, asyncVars, handed>>

(* A packet of the ring was sent: start the next one, or the buffer.       *)
PacketSent ==
  LET read == (tx_read + tx_size) % BufferSize
      count == tx_count - tx_size
  IN /\ tx_size # 0
     /\ tx_read' = read
     /\ tx_count' = count
     /\ \/ /\ count # 0
           /\ tx_size' = Packet(count, read)
           /\ Restart(Ring(read), Packet(count, read))
        \/ /\ count = 0
           /\ tx_size' = 0
           /\ IF tx_size2 # 0 THEN Restart(Buffer(tx_data2), tx_size2) ELSE Idle
     /\ UNCHANGED <<tx_data, tx_write, asyncVars, handed>>

(* Fault: the callback is not forgotten when it is handed on.              *)
BufferSentAgain ==
  /\ tx_size = 0
  /\ tx_size2' = 0
  /\ tx_data2' = 0
  /\ handed' = IF completion THEN handed + 1 ELSE handed
  /\ Idle
  /\ UNCHANGED <<ringVars, completion>>

(* The handed buffer was sent: defer its callback.                         *)
BufferSent ==
  /\ tx_size = 0
  /\ tx_size2' = 0
  /\ tx_data2' = 0
  /\ completion' = FALSE
  /\ handed' = IF completion THEN handed + 1 ELSE handed
  /\ Idle
  /\ UNCHANGED ringVars

(* Fault: it comes when the last byte is written to TDR, not when it is sent. *)
TransferCompleteEarly ==
  /\ state = "TRANSMIT"
  /\ left <= 1
  /\ PacketSent \/ BufferSent
  /\ UNCHANGED <<writerVars, accepted, sent, wire, async, overtaken, cut>>

TransferComplete ==
  /\ state = "TRANSMIT"
  /\ left = 0
  /\ PacketSent \/ BufferSent
  /\ UNCHANGED <<writerVars, accepted, sent, wire, async, overtaken, cut>>

-----------------------------------------------------------------------------
(* Uart::write(buffer, size)                                               *)

Goto(l) == pc' = l /\ UNCHANGED <<size, room, blocking>>

Write(n, b) ==
  /\ pc = "idle"
  /\ accepted + n <= MaxBytes
  /\ pc' = IF state = "INIT" THEN "idle" ELSE "begin"
  /\ size' = n
  /\ blocking' = b
  /\ UNCHANGED <<ringVars, asyncVars, uartVars, room, history>>

(* While a handed buffer is being sent nothing is accepted.                *)
WriteBegin ==
  /\ pc = "begin"
  /\ \/ tx_size2 = 0 /\ Goto("room")
     \/ tx_size2 # 0 /\ ~blocking /\ Goto("idle")
  /\ UNCHANGED <<ringVars, asyncVars, uartVars, history>>

WriteRoom ==
  /\ pc = "room"
  /\ room' = BufferSize - tx_count
  /\ pc' = CASE tx_count # BufferSize -> "copy"
             [] tx_count = BufferSize /\ ~blocking -> "kick"
             [] OTHER -> "full"
  /\ UNCHANGED <<ringVars, asyncVars, uartVars, size, blocking, history>>

(* The ring is full: start the UART if it is idle, and wait for room.      *)
WriteFull ==
  /\ pc = "full"
  /\ Goto(IF Done THEN "fullsend" ELSE "wait")
  /\ UNCHANGED <<ringVars, asyncVars, uartVars, history>>

Send ==
  LET n == Packet(tx_count, tx_read) IN
  \/ /\ n # 0
     /\ tx_size' = n
     /\ Transmit(Ring(tx_read), n)
  \/ /\ n = 0
     /\ UNCHANGED <<tx_size, uartVars>>

WriteFullSend ==
  /\ pc = "fullsend"
  /\ Send
  /\ Goto("wait")
  /\ UNCHANGED <<tx_data, tx_read, tx_write, tx_count, asyncVars, history>>

WriteWait ==
  /\ pc = "wait"
  /\ tx_count # BufferSize
  /\ room' = BufferSize - tx_count
  /\ pc' = "copy"
  /\ UNCHANGED <<ringVars, asyncVars, uartVars, size, blocking, history>>

(* What fits is copied, up to the end of the ring ...                      *)
WriteCopy ==
  LET n == Min({room, BufferSize - tx_write, size}) IN
  /\ pc = "copy"
  /\ tx_data' = [s \in Slot |-> IF s \in tx_write..tx_write + n - 1
                                THEN accepted + 1 + (s - tx_write) ELSE tx_data[s]]
  /\ tx_write' = (tx_write + n) % BufferSize
  /\ accepted' = accepted + n
  /\ room' = n
  /\ size' = size - n
  /\ pc' = "add"
  /\ UNCHANGED <<tx_read, tx_count, tx_size, asyncVars, uartVars, blocking, sent, wire,
                 async, handed, overtaken, cut>>

(* ... and then counted.                                                   *)
WriteAdd ==
  /\ pc = "add"
  /\ tx_count' = tx_count + room
  /\ Goto(IF size = 0 THEN "kick" ELSE "room")
  /\ UNCHANGED <<tx_data, tx_read, tx_write, tx_size, asyncVars, uartVars, history>>

(* If the UART is idle there is no interrupt to come: start it.            *)
WriteKick ==
  /\ pc = "kick"
  /\ Goto(IF Done THEN "send" ELSE "idle")
  /\ UNCHANGED <<ringVars, asyncVars, uartVars, history>>

WriteSend ==
  /\ pc = "send"
  /\ Send
  /\ Goto("idle")
  /\ UNCHANGED <<tx_data, tx_read, tx_write, tx_count, asyncVars, history>>

-----------------------------------------------------------------------------
(* Uart::write(buffer, size, callback)                                     *)

AsyncWrite(n) ==
  /\ pc = "idle"
  /\ async < MaxAsync
  /\ accepted + n <= MaxBytes
  /\ state # "INIT"
  /\ tx_size2 = 0
  /\ completion' = TRUE
  /\ tx_data2' = accepted + 1
  /\ tx_size2' = n
  /\ accepted' = accepted + n
  /\ async' = async + 1
  /\ cut' = (cut \/ n >= HalfWord)
  /\ Goto("asyncdone")
  /\ UNCHANGED <<ringVars, uartVars, sent, wire, handed, overtaken>>

AsyncDone ==
  /\ pc = "asyncdone"
  /\ Goto(IF Done THEN "asyncsend" ELSE "idle")
  /\ UNCHANGED <<ringVars, asyncVars, uartVars, history>>

(* The members are read again for the call.  If the interrupt sent the last *)
(* packet of the ring and then the whole buffer since they were set, the    *)
(* UART is idle again and they are NULL and 0: it is started on nothing and *)
(* what it then sends, and how it ends, depends on the mode of the driver.  *)
(* "overtaken" records that; no property speaks of what comes after it.     *)
AsyncSend ==
  /\ pc = "asyncsend"
  /\ Transmit(Buffer(tx_data2), tx_size2)
  /\ overtaken' = (overtaken \/ tx_size2 = 0)
  /\ Goto("idle")
  /\ UNCHANGED <<ringVars, asyncVars, accepted, sent, wire, async, handed, cut>>

-----------------------------------------------------------------------------
(* Uart::flush() and Uart::end(), which begin() also calls of a port that is *)
(* open.  Of one that is not they wait for ever: it is never READY.         *)

Flush ==
  /\ pc = "idle"
  /\ Goto("flush")
  /\ UNCHANGED <<ringVars, asyncVars, uartVars, history>>

(* Fault: the handed buffer is forgotten.                                  *)
FlushedRingOnly == tx_count = 0

Flushed == tx_count = 0 /\ tx_size2 = 0 /\ Done

FlushDone ==
  /\ pc = "flush"
  /\ Flushed
  /\ \E l \in {"idle", "end"} : Goto(l)
  /\ UNCHANGED <<ringVars, asyncVars, uartVars, history>>

(* stm32l4_uart_disable() *)
End ==
  /\ pc = "end"
  /\ state' = "INIT"
  /\ Goto("idle")
  /\ UNCHANGED <<ringVars, asyncVars, source, left, history>>

(* stm32l4_uart_enable() *)
Begin ==
  /\ pc = "idle"
  /\ state = "INIT"
  /\ state' = "READY"
  /\ UNCHANGED <<ringVars, asyncVars, source, left, writerVars, history>>

-----------------------------------------------------------------------------
Init ==
  /\ tx_data = [s \in Slot |-> 0]
  /\ tx_read = 0 /\ tx_write = 0 /\ tx_count = 0 /\ tx_size = 0
  /\ tx_data2 = 0 /\ tx_size2 = 0 /\ completion = FALSE
  /\ state = "INIT" /\ source = Buffer(0) /\ left = 0
  /\ pc = "idle" /\ size = 0 /\ room = 0 /\ blocking = TRUE
  /\ accepted = 0 /\ sent = 0 /\ wire = 0 /\ async = 0 /\ handed = 0
  /\ overtaken = FALSE /\ cut = FALSE

Writing ==
  \/ WriteBegin \/ WriteRoom \/ WriteFull \/ WriteFullSend \/ WriteWait
  \/ WriteCopy \/ WriteAdd \/ WriteKick \/ WriteSend
  \/ AsyncDone \/ AsyncSend
  \/ FlushDone \/ End

Next ==
  \/ \E n \in 1..MaxWrite, b \in BOOLEAN : Write(n, b)
  \/ \E n \in 1..MaxWrite : AsyncWrite(n)
  \/ Flush
  \/ Begin
  \/ Writing
  \/ SendByte
  \/ TransferComplete

Spec == Init /\ [][Next]_vars

(* The processor keeps running the writer, and the UART and its interrupt   *)
(* keep going.  Nobody has to write.                                       *)
FairSpec ==
  /\ Spec
  /\ WF_vars(Writing)
  /\ WF_vars(SendByte)
  /\ WF_vars(TransferComplete)

-----------------------------------------------------------------------------
(* Properties.                                                             *)

(* The counts and indices of the ring, which the writer and the interrupt   *)
(* both update, stay in its bounds, and no transmission exceeds a packet.   *)
TypeOK ==
  /\ tx_data \in [Slot -> 0..MaxBytes]
  /\ tx_read \in Slot /\ tx_write \in Slot
  /\ tx_count \in 0..BufferSize /\ tx_size \in 0..Min({BufferSize, PacketSize})
  /\ tx_data2 \in 0..MaxBytes /\ tx_size2 \in 0..MaxWrite /\ completion \in BOOLEAN
  /\ state \in {"INIT", "READY", "TRANSMIT"}
  /\ source \in [in : {"ring"}, at : Slot] \cup [in : {"buffer"}, at : 0..MaxBytes + 1]
  /\ left \in 0..MaxBytes
  /\ pc \in {"idle", "begin", "room", "full", "fullsend", "wait", "copy", "add", "kick",
             "send", "asyncdone", "asyncsend", "flush", "end"}
  /\ size \in 0..MaxWrite /\ room \in 0..BufferSize /\ blocking \in BOOLEAN
  /\ accepted \in 0..MaxBytes /\ sent \in 0..MaxBytes /\ wire \in 0..MaxBytes
  /\ async \in 0..MaxAsync /\ handed \in 0..MaxAsync
  /\ overtaken \in BOOLEAN /\ cut \in BOOLEAN

(* The bytes on the wire are the accepted bytes, each once and in order,    *)
(* whether they went through the ring or were handed over: a slot is not    *)
(* overwritten before it is sent, and a buffer does not overtake the ring.  *)
(* Of a buffer of 2^16 bytes or more the driver sends the rest only (cut).   *)
InOrder == ~overtaken /\ ~cut => wire = sent /\ sent <= accepted

(* Nothing that was accepted waits for an idle UART: whoever finds the UART *)
(* idle is about to start it, or to look whether it is idle.               *)
NoStall ==
  ~overtaken /\ state = "READY" /\ (tx_count # 0 \/ tx_size2 # 0) =>
    pc \in {"room", "full", "fullsend", "copy", "add", "kick", "send",
            "asyncdone", "asyncsend"}

(* Every callback given to write() is handed on once, or is still to be,    *)
(* and it is still to be exactly while its buffer is.                      *)
OneCallbackEach ==
  ~overtaken =>
    /\ handed + (IF completion THEN 1 ELSE 0) = async
    /\ completion <=> tx_size2 # 0

(* A callback is handed on only when every byte of its buffer was sent, and *)
(* with it everything accepted before: the caller may reuse the buffer.  A   *)
(* buffer of 2^16 bytes or more is called back when its rest was sent (cut). *)
CallbackAfterData ==
  [][~overtaken /\ ~cut /\ handed' # handed => sent >= tx_data2 + tx_size2 - 1]_vars

(* A flush of a port that is open comes to an end, and then everything that  *)
(* was accepted was sent, but what was cut off a buffer.                    *)
FlushEnds ==
  pc = "flush" /\ state # "INIT" ~>
    \/ pc # "flush" /\ sent = accepted
    \/ overtaken \/ cut
=============================================================================
