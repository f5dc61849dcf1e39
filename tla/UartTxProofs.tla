---------------------------- MODULE UartTxProofs ----------------------------
(***************************************************************************)
(* Proofs about UartTx: for every size of the ring and of a packet, every    *)
(* number of bytes and every number of writes with a callback.              *)
(*                                                                         *)
(* The argument: the ring holds the last bytes accepted, in order            *)
(* (RingInOrder); what was sent is what lies before them, and before what is  *)
(* left of the transmission (SentSoFar).  tx_size says whether that is of     *)
(* the ring (InTransmission), and the writer starts one only when it has     *)
(* found the UART idle, where nobody else does (IdleForWriter).             *)
(***************************************************************************)
EXTENDS UartTx, TLAPS

Wrap(x) == x % BufferSize

(* The bytes in the ring, with those copied and not yet counted.            *)
Live == tx_count + (IF pc = "add" THEN room ELSE 0)

(* The counts and indices of the ring agree, whoever updates them.          *)
RingFits ==
  /\ Live <= BufferSize
  /\ tx_write = Wrap(tx_read + Live)
  /\ tx_size <= tx_count
  /\ tx_read + tx_size <= BufferSize
  /\ pc = "copy" => room <= BufferSize - tx_count

(* tx_size is set exactly for a transmission of the ring.                   *)
InTransmission ==
  /\ tx_size # 0 =>
       /\ state = "TRANSMIT" /\ source.in = "ring"
       /\ left <= tx_size
       /\ source.at = Wrap(tx_read + (tx_size - left))
  /\ state = "TRANSMIT" /\ tx_size = 0 => source.in = "buffer"

(* Once the writer has found the UART idle it stays so until he starts it.   *)
IdleForWriter ==
  /\ pc \in {"fullsend", "send", "asyncsend", "end"} => state = "READY"
  /\ state = "INIT" => pc \in {"idle", "flush"}
  /\ pc = "end" \/ state = "INIT" => tx_count = 0 /\ tx_size2 = 0

(* A handed buffer ends what was accepted, and has its callback.             *)
BufferHeld ==
  /\ completion <=> tx_size2 # 0
  /\ handed + (IF completion THEN 1 ELSE 0) = async
  /\ tx_size2 # 0 =>
       /\ pc \in {"idle", "begin", "asyncdone", "asyncsend", "flush"}
       /\ tx_data2 >= 1 /\ accepted = tx_data2 + tx_size2 - 1
  /\ source.in = "buffer" => source.at + left <= MaxBytes + 1
  /\ ~cut => tx_size2 < HalfWord

SendingBuffer == state = "TRANSMIT" /\ source.in = "buffer"

(* No more is sent than was accepted, even when a buffer was overtaken.      *)
Conserved ==
  /\ sent + (IF state = "TRANSMIT" THEN left ELSE 0) + (Live - tx_size)
       + (IF SendingBuffer THEN 0 ELSE tx_size2) <= accepted
  /\ pc \in {"begin", "room", "full", "fullsend", "wait", "copy", "add"} =>
       accepted + size <= MaxBytes

(* The last byte that goes through the ring.                                *)
RingEnd == IF tx_size2 = 0 THEN accepted ELSE tx_data2 - 1

RingInOrder ==
  \A i \in 0..Live - 1 : tx_data[Wrap(tx_read + i)] = RingEnd - Live + 1 + i

(* While a buffer is sent the ring is empty.                                 *)
BufferAlone == SendingBuffer => tx_size2 # 0 /\ tx_count = 0

SentSoFar ==
  /\ wire = sent
  /\ SendingBuffer =>
       /\ left <= tx_size2
       /\ sent = accepted - left
       /\ source.at = sent + 1
  /\ ~SendingBuffer =>
       sent = RingEnd - Live + (IF tx_size # 0 THEN tx_size - left ELSE 0)

(* An idle UART with work is about to be started by the writer.             *)
Started ==
  state = "READY" =>
    /\ tx_count # 0 => pc \in {"room", "full", "fullsend", "copy", "add", "kick", "send"}
    /\ tx_size2 # 0 => pc \in {"asyncdone", "asyncsend"}

Bounds == RingFits /\ InTransmission /\ IdleForWriter /\ BufferHeld /\ Conserved
Order == RingInOrder /\ BufferAlone /\ Started /\ (~cut => SentSoFar)
IInv == TypeOK /\ Bounds /\ (~overtaken => Order)

-----------------------------------------------------------------------------
(* Indices and packets.                                                    *)

(* An index that has passed the end of the ring once starts over.           *)
LEMMA WrapOnce ==
  \A x \in 0..2 * BufferSize - 1 :
    /\ Wrap(x) = IF x < BufferSize THEN x ELSE x - BufferSize
    /\ Wrap(x) \in Slot
<1> TAKE x \in 0..2 * BufferSize - 1
<1>1. BufferSize \in Nat \ {0}
  BY SizeAssumption
<1>2. CASE x < BufferSize
  BY <1>1, <1>2 DEF Wrap, Slot
<1>3. CASE x >= BufferSize
  BY <1>1, <1>3 DEF Wrap, Slot
<1> QED  BY <1>1, <1>2, <1>3

(* Uart.cpp takes a packet that is there, does not pass the end of the ring,  *)
(* and is no larger than a packet may be.                                  *)
LEMMA PacketFits ==
  \A count \in Nat, read \in Slot :
    /\ Packet(count, read) \in Nat
    /\ Packet(count, read) <= count
    /\ Packet(count, read) <= BufferSize - read
    /\ Packet(count, read) <= PacketSize
    /\ Packet(count, read) \in 0..Min({BufferSize, PacketSize})
    /\ count # 0 => Packet(count, read) # 0
<1> TAKE count \in Nat, read \in Slot
<1>1. /\ BufferSize \in Nat \ {0} /\ PacketSize \in Nat \ {0}
      /\ BufferSize - read \in Nat \ {0}
  BY SizeAssumption DEF Slot
<1>2. \A a, b, c \in Nat :
        LET m == Min({a, b, c}) IN m \in {a, b, c} /\ m <= a /\ m <= b /\ m <= c
  BY DEF Min
<1>3. \A a, b \in Nat :
        LET m == Min({a, b}) IN m \in {a, b} /\ m <= a /\ m <= b
  BY DEF Min
<1>4. /\ Packet(count, read) \in {count, BufferSize - read, PacketSize}
      /\ Packet(count, read) <= count /\ Packet(count, read) <= BufferSize - read
      /\ Packet(count, read) <= PacketSize
  BY <1>1, <1>2 DEF Packet
<1>5. Min({BufferSize, PacketSize}) \in {BufferSize, PacketSize}
  BY <1>1, <1>3
<1> QED  BY <1>1, <1>4, <1>5 DEF Slot

(* What the driver takes of a count: all of it if it fits.                   *)
LEMMA CountFits ==
  /\ \A n \in Nat : Count16(n) \in Nat /\ Count16(n) <= n
  /\ \A n \in Nat : n < HalfWord => Count16(n) = n
  /\ \A n \in Nat : n <= PacketSize => Count16(n) = n
<1>1. HalfWord \in Nat /\ PacketSize \in Nat /\ HalfWord > PacketSize
  BY SizeAssumption
<1>2. \A n \in Nat : n < HalfWord => n % HalfWord = n
  BY <1>1
<1>3. \A n \in Nat : n % HalfWord \in Nat /\ n % HalfWord < HalfWord
  BY <1>1
<1>4. \A n \in Nat : n % HalfWord <= n
  BY <1>1, <1>2, <1>3
<1> QED  BY <1>1, <1>2, <1>3, <1>4 DEF Count16

LEMMA SizeFits ==
  /\ Min({BufferSize, PacketSize}) \in Nat
  /\ \A n \in 0..Min({BufferSize, PacketSize}) : n \in Nat /\ n <= BufferSize /\ n <= PacketSize
<1>1. \A a, b \in Nat :
        LET m == Min({a, b}) IN m \in {a, b} /\ m <= a /\ m <= b
  BY DEF Min
<1> QED  BY <1>1, SizeAssumption

(* Seen from an index moved on by k, what was at j is at j - k.              *)
LEMMA WrapMoved ==
  \A r \in Slot, k \in 0..BufferSize, j \in 0..BufferSize :
    k <= j /\ r + k <= BufferSize => Wrap(Wrap(r + k) + (j - k)) = Wrap(r + j)
<1> SUFFICES ASSUME NEW r \in Slot, NEW k \in 0..BufferSize, NEW j \in 0..BufferSize,
                    k <= j, r + k <= BufferSize
             PROVE  Wrap(Wrap(r + k) + (j - k)) = Wrap(r + j)
  OBVIOUS
<1>1. BufferSize \in Nat \ {0}
  BY SizeAssumption
<1>2. r + k \in 0..2 * BufferSize - 1 /\ r + j \in 0..2 * BufferSize - 1
  BY <1>1 DEF Slot
<1>3. Wrap(r + k) = IF r + k < BufferSize THEN r + k ELSE 0
  BY <1>1, <1>2, WrapOnce DEF Slot
<1> DEFINE y == Wrap(r + k) + (j - k)
           z == r + j
<1>4. y \in 0..2 * BufferSize - 1 /\ z \in 0..2 * BufferSize - 1
  BY <1>1, <1>2, <1>3 DEF Slot
<1>5. /\ Wrap(y) = IF y < BufferSize THEN y ELSE y - BufferSize
      /\ Wrap(z) = IF z < BufferSize THEN z ELSE z - BufferSize
  <2> HIDE DEF y, z
  <2> QED  BY <1>4, WrapOnce
<1>6. IF r + k < BufferSize THEN y = z ELSE y = z - BufferSize
  BY <1>1, <1>3 DEF Slot
<1>7. r + k >= BufferSize => y < BufferSize
  BY <1>1, <1>2, <1>3 DEF Slot
<1>8. r + k >= BufferSize => z >= BufferSize
  BY <1>1 DEF Slot
<1>9. Wrap(y) = Wrap(z)
  <2> HIDE DEF y, z
  <2> QED  BY <1>1, <1>4, <1>5, <1>6, <1>7, <1>8 DEF Slot
<1> QED  BY <1>9

-----------------------------------------------------------------------------
LEMMA InitInv == Init => IInv
<1> SUFFICES ASSUME Init PROVE IInv
  OBVIOUS
<1> USE SizeAssumption DEF Init
<1>1. 0 \in 0..Min({BufferSize, PacketSize})
  BY SizeFits
<1>2. TypeOK
  <2>1. tx_data \in [Slot -> 0..MaxBytes] /\ 0 \in Slot
    BY DEF Slot
  <2>2. source \in [in : {"buffer"}, at : 0..MaxBytes + 1]
    BY DEF Buffer
  <2>3. 0 \in 0..MaxWrite /\ 0 \in 0..MaxBytes /\ 0 \in 0..MaxAsync /\ 0 \in 0..BufferSize
    OBVIOUS
  <2> QED
    BY <1>1, <2>1, <2>2, <2>3 DEF TypeOK
<1>3. Wrap(0) = 0
  BY WrapOnce
<1>4. Bounds
  BY <1>3 DEF Bounds, RingFits, InTransmission, IdleForWriter, BufferHeld, Conserved,
    SendingBuffer, Live, Buffer
<1>5. Order
  BY DEF Order, RingInOrder, SentSoFar, BufferAlone, Started, SendingBuffer, RingEnd, Live, Buffer
<1> QED  BY <1>2, <1>4, <1>5 DEF IInv

(* The steps of the writer that only look: pc and locals change.            *)
Look ==
  \/ \E n \in 1..MaxWrite, b \in BOOLEAN : Write(n, b)
  \/ WriteBegin \/ WriteRoom \/ WriteFull \/ WriteWait \/ WriteKick
  \/ AsyncDone \/ Flush \/ FlushDone

LEMMA LookKeeps ==
  ASSUME IInv, Look
  PROVE  IInv'
<1> USE SizeAssumption
<1>1. /\ UNCHANGED <<ringVars, asyncVars, uartVars, history>>
      /\ pc # "add" /\ pc' # "add"
  BY DEF Look, Write, WriteBegin, WriteRoom, WriteFull, WriteWait, WriteKick, AsyncDone, Flush,
    FlushDone, Goto
<1>2. /\ UNCHANGED <<tx_data, tx_read, tx_write, tx_count, tx_size, tx_data2, tx_size2,
                     completion, state, source, left, accepted, sent, wire, async, handed,
                     overtaken, cut>>
      /\ Live' = Live /\ RingEnd' = RingEnd /\ SendingBuffer' = SendingBuffer
  BY <1>1 DEF ringVars, asyncVars, uartVars, history, Live, RingEnd, SendingBuffer
<1>3. /\ pc' \in {"idle", "begin", "room", "full", "fullsend", "wait", "copy", "kick",
                  "send", "asyncdone", "asyncsend", "flush", "end"}
      /\ size' \in 0..MaxWrite /\ room' \in 0..BufferSize /\ blocking' \in BOOLEAN
  BY DEF IInv, TypeOK, Look, Write, WriteBegin, WriteRoom, WriteFull, WriteWait, WriteKick,
    AsyncDone, Flush, FlushDone, Goto
<1>4. TypeOK'
  BY <1>2, <1>3 DEF IInv, TypeOK
<1>5. /\ pc' = "copy" => room' <= BufferSize - tx_count
      /\ pc' \in {"fullsend", "send", "asyncsend", "end"} => state = "READY"
      /\ pc' = "end" => tx_count = 0 /\ tx_size2 = 0
      /\ pc' \in {"begin", "room", "full", "fullsend", "wait", "copy", "add"} =>
           accepted + size' <= MaxBytes
  BY DEF IInv, TypeOK, Bounds, RingFits, IdleForWriter, Conserved, Look, Write, WriteBegin,
    WriteRoom, WriteFull, WriteWait, WriteKick, AsyncDone, Flush, FlushDone, Goto, Done, Flushed
<1>6. /\ state = "INIT" => pc' \in {"idle", "flush"}
      /\ tx_size2 # 0 => pc' \in {"idle", "begin", "asyncdone", "asyncsend", "flush"}
  BY DEF IInv, TypeOK, Bounds, IdleForWriter, BufferHeld, Look, Write, WriteBegin,
    WriteRoom, WriteFull, WriteWait, WriteKick, AsyncDone, Flush, FlushDone, Goto, Done, Flushed
<1>7. Bounds'
  BY <1>2, <1>5, <1>6 DEF IInv, Bounds, RingFits, InTransmission, IdleForWriter, BufferHeld,
    Conserved
<1>8. ASSUME ~overtaken' PROVE Order'
  <2>1. Started'
    BY <1>2, <1>8 DEF IInv, Order, Started, TypeOK, Look, Write, WriteBegin, WriteRoom, WriteFull,
      WriteWait, WriteKick, AsyncDone, Flush, FlushDone, Goto, Done, Flushed
  <2>2. RingInOrder' /\ BufferAlone' /\ (~cut => SentSoFar)'
    BY <1>2, <1>8 DEF IInv, Order, RingInOrder, SentSoFar, BufferAlone
  <2> QED  BY <2>1, <2>2 DEF Order
<1> QED  BY <1>4, <1>7, <1>8 DEF IInv

(* stm32l4_uart_enable() and stm32l4_uart_disable(): nothing is in the ring.  *)
LEMMA BeginEndKeeps ==
  ASSUME IInv, Begin \/ End
  PROVE  IInv'
<1> USE SizeAssumption
<1>1. /\ UNCHANGED <<tx_data, tx_read, tx_write, tx_count, tx_size, tx_data2, tx_size2,
                     completion, source, left, accepted, sent, wire, async, handed,
                     overtaken, cut>>
      /\ UNCHANGED <<size, room, blocking>>
      /\ tx_count = 0 /\ tx_size2 = 0 /\ state \in {"INIT", "READY"}
      /\ state' \in {"INIT", "READY"} /\ pc' = "idle" /\ pc \in {"idle", "end"}
  BY DEF Begin, End, Goto, ringVars, asyncVars, history, writerVars, IInv, Bounds, IdleForWriter
<1>2. Live' = Live /\ RingEnd' = RingEnd /\ ~SendingBuffer /\ ~SendingBuffer'
  BY <1>1 DEF Live, RingEnd, SendingBuffer
<1>3. TypeOK'
  BY <1>1 DEF IInv, TypeOK
<1>4. tx_size = 0
  BY <1>1 DEF IInv, Bounds, InTransmission
<1>5. Bounds'
  BY <1>1, <1>2, <1>4 DEF IInv, Bounds, RingFits, InTransmission, IdleForWriter, BufferHeld,
    Conserved
<1>6. ASSUME ~overtaken' PROVE Order'
  BY <1>1, <1>2, <1>6 DEF IInv, Order, RingInOrder, SentSoFar, BufferAlone, Started
<1> QED  BY <1>3, <1>5, <1>6 DEF IInv

(* The UART takes the next byte, of the ring or of the buffer.               *)
LEMMA SendByteKeeps ==
  ASSUME IInv, SendByte
  PROVE  IInv'
<1> USE SizeAssumption
<1>1. /\ UNCHANGED <<tx_data, tx_read, tx_write, tx_count, tx_size, tx_data2, tx_size2,
                     completion, state, accepted, async, handed, overtaken, cut>>
      /\ UNCHANGED <<pc, size, room, blocking>>
      /\ state = "TRANSMIT" /\ left > 0 /\ left' = left - 1 /\ sent' = sent + 1
  BY DEF SendByte, ringVars, asyncVars, writerVars
<1>2. Live' = Live /\ RingEnd' = RingEnd
  BY <1>1 DEF Live, RingEnd
<1>3. Live \in Nat /\ tx_size \in Nat /\ tx_size <= Live
  BY SizeFits DEF IInv, TypeOK, Live, Bounds, RingFits
<1>4. left' \in 0..MaxBytes /\ sent' \in 0..MaxBytes
  BY <1>1, <1>3 DEF IInv, TypeOK, Bounds, Conserved, SendingBuffer
<1>5. CASE source.in = "ring"
  <2>1. /\ source.at \in Slot /\ wire' = tx_data[source.at]
        /\ source' = [in |-> "ring", at |-> Wrap(source.at + 1)]
    BY <1>5 DEF IInv, TypeOK, SendByte, NextByte, Wrap
  <2>2. Wrap(source.at + 1) \in Slot
    BY <2>1, WrapOnce DEF Slot
  <2>3. TypeOK'
    BY <1>1, <1>4, <2>1, <2>2 DEF IInv, TypeOK
  <2>4. ~SendingBuffer /\ ~SendingBuffer' /\ tx_size # 0
    BY <1>1, <1>5, <2>1 DEF SendingBuffer, IInv, Bounds, InTransmission
  <2>5. /\ tx_read \in Slot /\ tx_size - left \in 0..tx_size - 1
        /\ tx_read + tx_size <= BufferSize /\ source.at = Wrap(tx_read + (tx_size - left))
    BY <1>1, <1>3, <2>4 DEF IInv, TypeOK, Bounds, InTransmission, RingFits
  <2>6. source.at = tx_read + (tx_size - left)
    <3>1. /\ tx_read + (tx_size - left) \in 0..2 * BufferSize - 1
          /\ tx_read + (tx_size - left) < BufferSize
      BY <1>3, <2>5 DEF Slot
    <3> QED  BY <2>5, <3>1, WrapOnce
  <2>7. source'.at = Wrap(tx_read + (tx_size - left'))
    BY <1>1, <1>3, <2>1, <2>5, <2>6 DEF IInv, TypeOK, Slot
  <2>8. Bounds'
    BY <1>1, <1>2, <2>1, <2>4, <2>7 DEF IInv, TypeOK, Bounds, RingFits, InTransmission, IdleForWriter,
      BufferHeld, Conserved
  <2>9. ASSUME ~overtaken' PROVE Order'
    <3>1. RingInOrder /\ BufferAlone /\ Started /\ (~cut => SentSoFar)
      BY <1>1, <2>9 DEF IInv, Order
    <3>2. tx_size - left \in 0..Live - 1 /\ RingEnd \in Int
      BY <1>3, <2>5 DEF IInv, TypeOK, RingEnd
    <3>3. wire' = RingEnd - Live + 1 + (tx_size - left)
      BY <2>1, <2>5, <3>1, <3>2 DEF RingInOrder
    <3>4. ~cut => sent = RingEnd - Live + (tx_size - left)
      BY <2>4, <3>1 DEF SentSoFar
    <3>5. ~cut => wire' = sent' /\ sent' = RingEnd - Live + (tx_size - left')
      BY <1>1, <1>3, <3>2, <3>3, <3>4 DEF IInv, TypeOK
    <3>6. BufferAlone' /\ (~cut => SentSoFar)'
      BY <1>1, <1>2, <2>4, <3>5 DEF SentSoFar, BufferAlone
    <3>7. RingInOrder' /\ Started'
      BY <1>1, <1>2, <3>1 DEF RingInOrder, Started
    <3> QED  BY <3>6, <3>7 DEF Order
  <2> QED  BY <2>3, <2>8, <2>9 DEF IInv
<1>6. CASE source.in = "buffer"
  <2>1. /\ source.at \in 0..MaxBytes + 1 /\ wire' = source.at
        /\ source' = [in |-> "buffer", at |-> source.at + 1]
    BY <1>6 DEF IInv, TypeOK, SendByte, NextByte
  <2>2. source.at + left <= MaxBytes + 1
    BY <1>6 DEF IInv, Bounds, BufferHeld
  <2>3. tx_size = 0 /\ SendingBuffer /\ SendingBuffer'
    BY <1>1, <1>6, <2>1 DEF IInv, Bounds, InTransmission, SendingBuffer
  <2>4. Bounds'
    BY <1>1, <1>2, <1>3, <2>1, <2>2, <2>3 DEF IInv, TypeOK, Bounds, RingFits, InTransmission,
      IdleForWriter, BufferHeld, Conserved
  <2>5. ASSUME ~overtaken' PROVE Order'
    <3>1. RingInOrder' /\ BufferAlone' /\ Started'
      BY <1>1, <1>2, <2>3, <2>5 DEF IInv, Order, RingInOrder, BufferAlone, Started
    <3>2. ASSUME ~cut PROVE SentSoFar'
      <4>1. SentSoFar
        BY <1>1, <2>5, <3>2 DEF IInv, Order
      <4> QED  BY <1>1, <2>1, <2>3, <4>1 DEF IInv, TypeOK, SentSoFar
    <3> QED  BY <1>1, <3>1, <3>2 DEF Order
  <2>6. wire' \in 0..MaxBytes /\ source'.at \in 0..MaxBytes + 1
    BY <1>1, <2>1, <2>2 DEF IInv, TypeOK
  <2>7. TypeOK'
    BY <1>1, <1>4, <2>1, <2>6 DEF IInv, TypeOK
  <2> QED  BY <2>4, <2>5, <2>7 DEF IInv
<1>7. source.in \in {"ring", "buffer"}
  BY DEF IInv, TypeOK
<1> QED  BY <1>5, <1>6, <1>7

(* The end of a packet of the ring: the next one, the buffer, or nothing.     *)
LEMMA PacketSentKeeps ==
  ASSUME IInv, TransferComplete, PacketSent
  PROVE  IInv'
<1> USE SizeAssumption
<1> DEFINE read == Wrap(tx_read + tx_size)
           count == tx_count - tx_size
<1>1. /\ UNCHANGED <<tx_data, tx_write, tx_data2, tx_size2, completion, pc, size, room,
                     blocking, accepted, sent, wire, async, handed, overtaken, cut>>
      /\ state = "TRANSMIT" /\ left = 0 /\ tx_size # 0
      /\ tx_read' = read /\ tx_count' = count
  BY DEF TransferComplete, PacketSent, asyncVars, writerVars, Wrap
<1>2. /\ Live \in 0..BufferSize /\ tx_count \in 0..BufferSize /\ tx_size \in 1..tx_count
      /\ tx_count <= Live /\ tx_read \in Slot /\ tx_read + tx_size <= BufferSize
  BY <1>1, SizeFits DEF IInv, TypeOK, Bounds, RingFits, Live
<1>3. Live' = Live - tx_size /\ RingEnd' = RingEnd
  BY <1>1, <1>2 DEF Live, RingEnd, IInv, TypeOK
<1>4. read \in Slot /\ count \in Nat
  BY <1>2, WrapOnce DEF Slot
<1>5. tx_write' = Wrap(read + (Live - tx_size))
  BY <1>1, <1>2, WrapMoved DEF IInv, Bounds, RingFits
<1>6. Wrap(read) = read
  BY <1>4, WrapOnce DEF Slot
<1>7. ASSUME ~overtaken
      PROVE  /\ RingInOrder'
             /\ ~cut => wire' = sent' /\ sent' = RingEnd' - Live'
  <2>1. RingInOrder /\ (~cut => SentSoFar)
    BY <1>7 DEF IInv, Order
  <2>2. RingEnd \in Int
    BY DEF IInv, TypeOK, RingEnd
  <2>3. ~SendingBuffer
    BY <1>1 DEF IInv, Bounds, InTransmission, SendingBuffer
  <2>4. ~cut => wire' = sent' /\ sent' = RingEnd' - Live'
    BY <1>1, <1>2, <1>3, <2>1, <2>2, <2>3 DEF SentSoFar, BufferAlone, IInv, TypeOK
  <2>5. ASSUME NEW i \in 0..Live' - 1
        PROVE  tx_data'[Wrap(tx_read' + i)] = RingEnd' - Live' + 1 + i
    <3>1. tx_size + i \in 0..Live - 1 /\ tx_size + i \in 0..BufferSize
      BY <1>2, <1>3
    <3>2. Wrap(read + ((tx_size + i) - tx_size)) = Wrap(tx_read + (tx_size + i))
      BY <1>2, <3>1, WrapMoved
    <3>3. (tx_size + i) - tx_size = i
      BY <1>2
    <3>4. tx_data[Wrap(tx_read + (tx_size + i))] = RingEnd - Live + 1 + (tx_size + i)
      BY <2>1, <3>1 DEF RingInOrder
    <3> QED  BY <1>1, <1>2, <1>3, <2>2, <3>2, <3>3, <3>4
  <2> QED  BY <2>4, <2>5 DEF RingInOrder
<1>8. CASE count # 0
  <2> DEFINE n == Packet(count, read)
  <2>1. /\ tx_size' = n /\ left' = n /\ state' = "TRANSMIT"
        /\ source' = [in |-> "ring", at |-> read]
    <3>1. Count16(n) = n
      BY <1>4, PacketFits, CountFits
    <3> QED  BY <1>8, <3>1 DEF PacketSent, Restart, Ring, Wrap
  <2>2. /\ n \in Nat /\ n <= count /\ n <= BufferSize - read /\ n # 0
        /\ n \in 0..Min({BufferSize, PacketSize})
    BY <1>4, <1>8, PacketFits
  <2>3. ~SendingBuffer' /\ ~SendingBuffer
    BY <1>1, <2>1 DEF SendingBuffer, IInv, Bounds, InTransmission
  <2>4. n \in 0..MaxBytes /\ count \in 0..BufferSize
    BY <1>1, <1>2, <2>2, <2>3 DEF IInv, TypeOK, Bounds, Conserved
  <2>5. TypeOK'
    BY <1>1, <1>4, <2>1, <2>2, <2>4 DEF IInv, TypeOK
  <2>6. Bounds'
    <3>1. read + (n - n) = read /\ read + n <= BufferSize
      BY <1>4, <2>2 DEF Slot
    <3>2. RingFits' /\ InTransmission'
      BY <1>1, <1>2, <1>3, <1>5, <1>6, <2>1, <2>2, <3>1 DEF IInv, TypeOK, Bounds, RingFits,
        InTransmission
    <3>3. IdleForWriter' /\ BufferHeld'
      BY <1>1, <1>2, <2>1 DEF IInv, Bounds, IdleForWriter, BufferHeld
    <3>4. Conserved'
      BY <1>1, <1>2, <1>3, <2>1, <2>2, <2>3 DEF IInv, TypeOK, Bounds, Conserved
    <3> QED  BY <3>2, <3>3, <3>4 DEF Bounds
  <2>7. ASSUME ~overtaken' PROVE Order'
    BY <1>1, <1>2, <1>3, <1>7, <2>1, <2>2, <2>3, <2>7
    DEF Order, SentSoFar, BufferAlone, Started, IInv, TypeOK, RingEnd
  <2> QED  BY <2>5, <2>6, <2>7 DEF IInv
<1>9. CASE count = 0 /\ tx_size2 # 0
  <2>1. /\ tx_size' = 0 /\ left' = Count16(tx_size2) /\ state' = "TRANSMIT"
        /\ source' = [in |-> "buffer", at |-> tx_data2]
    BY <1>9 DEF PacketSent, Restart, Buffer, Wrap
  <2>2. SendingBuffer' /\ ~SendingBuffer
    BY <1>1, <2>1 DEF SendingBuffer, IInv, Bounds, InTransmission
  <2>3. /\ pc \in {"idle", "begin", "asyncdone", "asyncsend", "flush"}
        /\ tx_data2 >= 1 /\ accepted = tx_data2 + tx_size2 - 1
        /\ accepted \in 0..MaxBytes /\ tx_data2 \in Nat /\ tx_size2 \in Nat
        /\ left' \in Nat /\ left' <= tx_size2 /\ (~cut => left' = tx_size2)
    BY <1>9, <2>1, CountFits DEF IInv, TypeOK, Bounds, BufferHeld
  <2>4. Live = tx_count /\ Live' = 0
    BY <1>1, <1>2, <1>3, <1>9, <2>3 DEF Live
  <2>5. TypeOK'
    BY <1>1, <1>4, <1>9, <2>1, <2>3, SizeFits DEF IInv, TypeOK
  <2>6. Bounds'
    <3>1. RingFits' /\ InTransmission'
      BY <1>1, <1>2, <1>3, <1>4, <1>5, <1>9, <2>1, <2>3, <2>4 DEF IInv, TypeOK, Bounds, RingFits,
        InTransmission, Slot
    <3>2. IdleForWriter' /\ BufferHeld'
      BY <1>1, <1>2, <1>9, <2>1, <2>3 DEF IInv, Bounds, IdleForWriter, BufferHeld
    <3>3. Conserved'
      BY <1>1, <1>2, <1>3, <1>9, <2>1, <2>2, <2>3, <2>4 DEF IInv, TypeOK, Bounds, Conserved
    <3> QED  BY <3>1, <3>2, <3>3 DEF Bounds
  <2>7. ASSUME ~overtaken' PROVE Order'
    BY <1>1, <1>2, <1>3, <1>7, <1>9, <2>1, <2>2, <2>3, <2>4, <2>7
    DEF Order, SentSoFar, BufferAlone, Started, RingEnd
  <2> QED  BY <2>5, <2>6, <2>7 DEF IInv
<1>10. CASE count = 0 /\ tx_size2 = 0
  <2>1. tx_size' = 0 /\ state' = "READY" /\ UNCHANGED <<source, left>>
    BY <1>10 DEF PacketSent, Idle, Wrap
  <2>2. ~SendingBuffer' /\ ~SendingBuffer
    BY <1>1, <2>1 DEF SendingBuffer, IInv, Bounds, InTransmission
  <2>3. TypeOK'
    BY <1>1, <1>4, <1>10, <2>1, SizeFits DEF IInv, TypeOK
  <2>4. Bounds'
    <3>1. RingFits' /\ InTransmission'
      BY <1>1, <1>2, <1>3, <1>4, <1>5, <1>10, <2>1 DEF IInv, TypeOK, Bounds, RingFits,
        InTransmission, Slot
    <3>2. IdleForWriter' /\ BufferHeld'
      BY <1>1, <1>2, <1>10, <2>1 DEF IInv, Bounds, IdleForWriter, BufferHeld
    <3>3. Conserved'
      BY <1>1, <1>2, <1>3, <1>10, <2>1, <2>2 DEF IInv, TypeOK, Bounds, Conserved
    <3> QED  BY <3>1, <3>2, <3>3 DEF Bounds
  <2>5. ASSUME ~overtaken' PROVE Order'
    BY <1>1, <1>2, <1>3, <1>7, <1>10, <2>1, <2>2, <2>5
    DEF Order, SentSoFar, BufferAlone, Started, RingEnd, IInv, TypeOK
  <2> QED  BY <2>3, <2>4, <2>5 DEF IInv
<1> QED  BY <1>8, <1>9, <1>10

(* The end of the buffer: its callback is handed on, and the ring is empty.   *)
LEMMA BufferSentKeeps ==
  ASSUME IInv, TransferComplete, BufferSent
  PROVE  IInv'
<1> USE SizeAssumption
<1>1. /\ UNCHANGED <<tx_data, tx_read, tx_write, tx_count, tx_size, pc, size, room,
                     blocking, accepted, sent, wire, async, overtaken, cut, source, left>>
      /\ state = "TRANSMIT" /\ left = 0 /\ tx_size = 0
      /\ tx_size2' = 0 /\ tx_data2' = 0 /\ completion' = FALSE /\ state' = "READY"
  BY DEF TransferComplete, BufferSent, Idle, ringVars, writerVars
<1>2. Live' = Live /\ SendingBuffer /\ ~SendingBuffer'
  BY <1>1 DEF Live, SendingBuffer, IInv, Bounds, InTransmission
<1>3. handed' + 0 = async /\ handed' \in 0..MaxAsync
  BY <1>1 DEF IInv, TypeOK, Bounds, BufferHeld, BufferSent
<1>4. TypeOK'
  <2>1. 0 \in 0..MaxWrite /\ 0 \in 0..MaxBytes
    OBVIOUS
  <2> QED  BY <1>1, <1>3, <2>1 DEF IInv, TypeOK
<1>5. Bounds'
  <2>1. RingFits' /\ InTransmission'
    BY <1>1, <1>2 DEF IInv, Bounds, RingFits, InTransmission
  <2>2. IdleForWriter' /\ BufferHeld'
    BY <1>1, <1>3 DEF IInv, Bounds, IdleForWriter, BufferHeld
  <2>3. Conserved'
    BY <1>1, <1>2 DEF IInv, TypeOK, Bounds, Conserved
  <2> QED  BY <2>1, <2>2, <2>3 DEF Bounds
<1>6. ASSUME ~overtaken' PROVE Order'
  <2>1. /\ (~cut => SentSoFar) /\ tx_size2 # 0 /\ tx_count = 0 /\ pc # "add"
    BY <1>1, <1>2, <1>6 DEF IInv, Order, SentSoFar, BufferAlone, Bounds, BufferHeld
  <2>2. Live = 0
    BY <2>1 DEF Live
  <2>3. RingInOrder'
    BY <1>2, <2>2 DEF RingInOrder
  <2>4. BufferAlone' /\ (~cut => SentSoFar)'
    BY <1>1, <1>2, <2>1, <2>2 DEF SentSoFar, BufferAlone, RingEnd, IInv, TypeOK
  <2> QED  BY <1>1, <2>1, <2>3, <2>4 DEF Order, Started
<1> QED  BY <1>4, <1>5, <1>6 DEF IInv

(* The writer starts what is in the ring: nobody else is sending.            *)
LEMMA SendKeeps ==
  ASSUME IInv, WriteFullSend \/ WriteSend
  PROVE  IInv'
<1> USE SizeAssumption
<1> DEFINE n == Packet(tx_count, tx_read)
<1>1. /\ UNCHANGED <<tx_data, tx_read, tx_write, tx_count, tx_data2, tx_size2, completion,
                     accepted, sent, wire, async, handed, overtaken, cut>>
      /\ UNCHANGED <<size, room, blocking>>
      /\ pc \in {"fullsend", "send"} /\ pc' \in {"wait", "idle"}
      /\ pc' = "wait" => pc = "fullsend"
      /\ Send
  BY DEF WriteFullSend, WriteSend, Goto, asyncVars, history
<1>2. state = "READY" /\ tx_size = 0 /\ tx_size2 = 0
  BY <1>1 DEF IInv, Bounds, IdleForWriter, InTransmission, BufferHeld
<1>3. /\ tx_count \in 0..BufferSize /\ tx_read \in Slot /\ Live = tx_count /\ Live' = tx_count
      /\ RingEnd = accepted /\ RingEnd' = accepted /\ ~SendingBuffer
  BY <1>1, <1>2 DEF IInv, TypeOK, Live, RingEnd, SendingBuffer
<1>4. /\ n \in Nat /\ n <= tx_count /\ n <= BufferSize - tx_read
      /\ n \in 0..Min({BufferSize, PacketSize})
      /\ tx_count # 0 => n # 0
  BY <1>3, PacketFits
<1>5. CASE n # 0
  <2>1. /\ tx_size' = n /\ left' = n /\ state' = "TRANSMIT"
        /\ source' = [in |-> "ring", at |-> tx_read]
    <3>1. Count16(n) = n
      BY <1>3, PacketFits, CountFits
    <3> QED  BY <1>1, <1>2, <1>5, <3>1 DEF Send, Transmit, Ring
  <2>2. ~SendingBuffer'
    BY <2>1 DEF SendingBuffer
  <2>3. n \in 0..MaxBytes
    BY <1>2, <1>3, <1>4 DEF IInv, TypeOK, Bounds, Conserved
  <2>4. TypeOK'
    BY <1>1, <1>4, <2>1, <2>3 DEF IInv, TypeOK
  <2>5. tx_read + (n - n) = tx_read /\ tx_read + n <= BufferSize /\ Wrap(tx_read) = tx_read
    BY <1>3, <1>4, WrapOnce DEF Slot
  <2>6. RingFits'
    BY <1>1, <1>2, <1>3, <1>4, <2>1, <2>5 DEF IInv, TypeOK, Bounds, RingFits
  <2>7. InTransmission'
    BY <1>1, <1>4, <1>5, <2>1, <2>5 DEF InTransmission
  <2>8. IdleForWriter' /\ BufferHeld'
    BY <1>1, <1>2, <2>1 DEF IInv, Bounds, IdleForWriter, BufferHeld
  <2>9. Conserved'
    BY <1>1, <1>2, <1>3, <1>4, <2>1, <2>2 DEF IInv, TypeOK, Bounds, Conserved
  <2>10. ASSUME ~overtaken' PROVE Order'
    BY <1>1, <1>2, <1>3, <1>4, <2>1, <2>2, <2>10 DEF IInv, TypeOK, Order, RingInOrder, SentSoFar,
      BufferAlone, Started
  <2> QED  BY <2>4, <2>6, <2>8, <2>9, <2>10, <2>7 DEF IInv, Bounds
<1>6. CASE n = 0
  <2>1. tx_count = 0 /\ UNCHANGED <<tx_size, state, source, left>>
    BY <1>1, <1>4, <1>6 DEF Send, uartVars
  <2>2. TypeOK'
    BY <1>1, <2>1 DEF IInv, TypeOK
  <2>3. ~SendingBuffer'
    BY <1>2, <2>1 DEF SendingBuffer
  <2>4. Bounds'
    BY <1>1, <1>2, <1>3, <2>1, <2>3 DEF IInv, Bounds, RingFits, InTransmission, IdleForWriter,
      BufferHeld, Conserved
  <2>5. ASSUME ~overtaken' PROVE Order'
    BY <1>1, <1>2, <1>3, <2>1, <2>3, <2>5 DEF IInv, Order, RingInOrder, SentSoFar, BufferAlone, Started
  <2> QED  BY <2>2, <2>4, <2>5 DEF IInv
<1> QED  BY <1>5, <1>6

(* Moving on twice is moving on by the sum.                                  *)
LEMMA WrapSum ==
  \A r \in Slot, k \in 0..BufferSize, m \in 0..BufferSize :
    k + m <= BufferSize => Wrap(Wrap(r + k) + m) = Wrap(r + (k + m))
<1> SUFFICES ASSUME NEW r \in Slot, NEW k \in 0..BufferSize, NEW m \in 0..BufferSize,
                    k + m <= BufferSize
             PROVE  Wrap(Wrap(r + k) + m) = Wrap(r + (k + m))
  OBVIOUS
<1>1. BufferSize \in Nat \ {0}
  BY SizeAssumption
<1>2. r + k \in 0..2 * BufferSize - 1
  BY <1>1 DEF Slot
<1>3. Wrap(r + k) = IF r + k < BufferSize THEN r + k ELSE r + k - BufferSize
  BY <1>1, <1>2, WrapOnce DEF Slot
<1> DEFINE y == Wrap(r + k) + m
           z == r + (k + m)
<1>4. y \in 0..2 * BufferSize - 1 /\ z \in 0..2 * BufferSize - 1
  BY <1>1, <1>2, <1>3 DEF Slot
<1>5. IF r + k < BufferSize THEN y = z ELSE y = z - BufferSize /\ y < BufferSize
  BY <1>1, <1>3 DEF Slot
<1>6. r + k >= BufferSize => z >= BufferSize
  BY <1>1 DEF Slot
<1>7. Wrap(y) = Wrap(z)
  <2> HIDE DEF y, z
  <2>1. /\ Wrap(y) = IF y < BufferSize THEN y ELSE y - BufferSize
        /\ Wrap(z) = IF z < BufferSize THEN z ELSE z - BufferSize
    BY <1>4, WrapOnce
  <2> QED  BY <1>1, <1>2, <1>4, <1>5, <1>6, <2>1 DEF Slot
<1> QED  BY <1>7

(* Different places of the ring are different slots.                         *)
LEMMA WrapDiffers ==
  \A r \in Slot, i \in Slot, j \in Slot : i < j => Wrap(r + i) # Wrap(r + j)
<1> SUFFICES ASSUME NEW r \in Slot, NEW i \in Slot, NEW j \in Slot, i < j
             PROVE  Wrap(r + i) # Wrap(r + j)
  OBVIOUS
<1>1. BufferSize \in Nat \ {0}
  BY SizeAssumption
<1> DEFINE y == r + i
           z == r + j
<1>2. y \in 0..2 * BufferSize - 1 /\ z \in 0..2 * BufferSize - 1 /\ y < z /\ z < y + BufferSize
  BY <1>1 DEF Slot
<1>3. Wrap(y) # Wrap(z)
  <2> HIDE DEF y, z
  <2>1. /\ Wrap(y) = IF y < BufferSize THEN y ELSE y - BufferSize
        /\ Wrap(z) = IF z < BufferSize THEN z ELSE z - BufferSize
    BY <1>2, WrapOnce
  <2> QED  BY <1>1, <1>2, <2>1
<1> QED  BY <1>3

(* The writer copies behind what is in the ring, and overwrites none of it.   *)
LEMMA WriteCopyKeeps ==
  ASSUME IInv, WriteCopy
  PROVE  IInv'
<1> USE SizeAssumption
<1> DEFINE n == Min({room, BufferSize - tx_write, size})
<1>1. /\ UNCHANGED <<tx_read, tx_count, tx_size, tx_data2, tx_size2, completion, state, source,
                     left, blocking, sent, wire, async, handed, overtaken, cut>>
      /\ pc = "copy" /\ pc' = "add" /\ room' = n /\ size' = size - n /\ accepted' = accepted + n
      /\ tx_write' = Wrap(tx_write + n)
      /\ tx_data' = [s \in Slot |-> IF s \in tx_write..tx_write + n - 1
                                    THEN accepted + 1 + (s - tx_write) ELSE tx_data[s]]
  BY DEF WriteCopy, asyncVars, uartVars, Wrap
<1>2. /\ tx_write \in Slot /\ tx_read \in Slot /\ tx_count \in 0..BufferSize
      /\ room \in 0..BufferSize /\ size \in 0..MaxWrite /\ accepted \in 0..MaxBytes
      /\ room <= BufferSize - tx_count /\ accepted + size <= MaxBytes
      /\ tx_data \in [Slot -> 0..MaxBytes]
  BY <1>1 DEF IInv, TypeOK, Bounds, RingFits, Conserved
<1>3. n \in Nat /\ n <= room /\ n <= BufferSize - tx_write /\ n <= size
  <2>1. \A a, b, c \in Nat :
          LET m == Min({a, b, c}) IN m \in {a, b, c} /\ m <= a /\ m <= b /\ m <= c
    BY DEF Min
  <2>2. BufferSize - tx_write \in Nat /\ room \in Nat /\ size \in Nat
    BY <1>2 DEF Slot
  <2> QED  BY <2>1, <2>2
<1> HIDE DEF n
<1>4. /\ Live = tx_count /\ Live' = tx_count + n /\ tx_size2 = 0
      /\ RingEnd = accepted /\ RingEnd' = accepted + n /\ SendingBuffer' = SendingBuffer
  BY <1>1, <1>2 DEF Live, RingEnd, SendingBuffer, IInv, Bounds, BufferHeld
<1>5. tx_write = Wrap(tx_read + tx_count)
  BY <1>4 DEF IInv, Bounds, RingFits
<1>6. TypeOK'
  <2>1. tx_data' \in [Slot -> 0..MaxBytes]
    <3>1. \A s \in Slot : s \in tx_write..tx_write + n - 1 =>
                            accepted + 1 + (s - tx_write) \in 0..MaxBytes
      BY <1>2, <1>3 DEF Slot
    <3> QED  BY <1>1, <1>2, <3>1
  <2>2. Wrap(tx_write + n) \in Slot
    <3>1. tx_write + n \in 0..2 * BufferSize - 1
      BY <1>2, <1>3 DEF Slot
    <3> QED  BY <3>1, WrapOnce
  <2>3. accepted + n \in 0..MaxBytes /\ size - n \in 0..MaxWrite /\ n \in 0..BufferSize
    BY <1>2, <1>3
  <2> QED  BY <1>1, <2>1, <2>2, <2>3 DEF IInv, TypeOK
<1>7. Bounds'
  <2>1. Wrap(tx_write + n) = Wrap(tx_read + (tx_count + n))
    BY <1>2, <1>3, <1>5, WrapSum
  <2>2. RingFits'
    BY <1>1, <1>2, <1>3, <1>4, <2>1 DEF IInv, Bounds, RingFits
  <2>3. InTransmission' /\ IdleForWriter' /\ BufferHeld'
    BY <1>1, <1>4 DEF IInv, Bounds, InTransmission, IdleForWriter, BufferHeld
  <2>4. Conserved'
    <3>1. tx_size \in Nat /\ left \in Nat /\ sent \in Nat
      BY SizeFits DEF IInv, TypeOK
    <3> QED  BY <1>1, <1>2, <1>3, <1>4, <3>1 DEF IInv, Bounds, Conserved
  <2> QED  BY <2>2, <2>3, <2>4 DEF Bounds
<1>8. ASSUME ~overtaken' PROVE Order'
  <2>1. RingInOrder /\ BufferAlone /\ Started /\ (~cut => SentSoFar) /\ ~SendingBuffer
    BY <1>1, <1>4, <1>8 DEF IInv, Order, SentSoFar, BufferAlone
  <2>2. ASSUME NEW i \in 0..Live' - 1
        PROVE  tx_data'[Wrap(tx_read' + i)] = RingEnd' - Live' + 1 + i
    <3>1. i \in Slot /\ tx_read + i \in 0..2 * BufferSize - 1
      BY <1>2, <1>3, <1>4 DEF Slot
    <3>2. Wrap(tx_read + i) \in Slot
      BY <3>1, WrapOnce
    <3>3. CASE i < tx_count
      <4>1. ASSUME NEW m \in 0..n - 1 PROVE Wrap(tx_read + i) # tx_write + m
        <5>1. /\ tx_count + m \in Slot /\ i < tx_count + m
              /\ tx_count + m <= BufferSize /\ m \in 0..BufferSize
          BY <1>2, <1>3, <3>3 DEF Slot
        <5>2. Wrap(tx_read + i) # Wrap(tx_read + (tx_count + m))
          BY <1>2, <3>1, <5>1, WrapDiffers
        <5>3. Wrap(tx_write + m) = Wrap(tx_read + (tx_count + m))
          BY <1>2, <1>5, <5>1, WrapSum
        <5>4. tx_write + m \in 0..2 * BufferSize - 1 /\ tx_write + m < BufferSize
          BY <1>2, <1>3 DEF Slot
        <5>5. Wrap(tx_write + m) = tx_write + m
          BY <5>4, WrapOnce
        <5> QED  BY <5>2, <5>3, <5>5
      <4>2. Wrap(tx_read + i) \notin tx_write..tx_write + n - 1
        <5>1. \A s \in tx_write..tx_write + n - 1 :
                s - tx_write \in 0..n - 1 /\ s = tx_write + (s - tx_write)
          BY <1>2, <1>3 DEF Slot
        <5> QED  BY <4>1, <5>1
      <4>3. tx_data'[Wrap(tx_read' + i)] = tx_data[Wrap(tx_read + i)]
        BY <1>1, <3>2, <4>2
      <4>4. tx_data[Wrap(tx_read + i)] = RingEnd - Live + 1 + i
        BY <1>2, <1>4, <2>1, <3>3 DEF RingInOrder
      <4> QED  BY <1>2, <1>3, <1>4, <4>3, <4>4
    <3>4. CASE i >= tx_count
      <4> DEFINE m == i - tx_count
      <4>1. m \in 0..n - 1 /\ m \in 0..BufferSize /\ tx_count + m = i /\ tx_count + m <= BufferSize
        BY <1>2, <1>3, <1>4, <3>1, <3>4 DEF Slot
      <4> HIDE DEF m
      <4>2. Wrap(tx_write + m) = Wrap(tx_read + i)
        BY <1>2, <1>5, <4>1, WrapSum
      <4>3. tx_write + m \in 0..2 * BufferSize - 1 /\ tx_write + m < BufferSize
        BY <1>2, <1>3, <4>1 DEF Slot
      <4>4. Wrap(tx_read + i) = tx_write + m
        BY <4>2, <4>3, WrapOnce
      <4>5. /\ tx_write + m \in tx_write..tx_write + n - 1 /\ tx_write + m \in Slot
            /\ (tx_write + m) - tx_write = m
        BY <1>2, <1>3, <4>1, <4>3 DEF Slot
      <4>6. tx_data'[Wrap(tx_read' + i)] = accepted + 1 + m
        BY <1>1, <4>4, <4>5
      <4> QED  BY <1>2, <1>3, <1>4, <4>1, <4>6
    <3> QED  BY <1>2, <3>1, <3>3, <3>4 DEF Slot
  <2>3. BufferAlone' /\ (~cut => SentSoFar)'
    <3>1. tx_size \in Nat /\ left \in Nat /\ sent \in Nat
      BY SizeFits DEF IInv, TypeOK
    <3> QED  BY <1>1, <1>2, <1>3, <1>4, <2>1, <3>1 DEF SentSoFar, BufferAlone
  <2>4. Started'
    BY <1>1, <1>4, <2>1 DEF Started
  <2> QED  BY <2>2, <2>3, <2>4 DEF Order, RingInOrder
<1> QED  BY <1>6, <1>7, <1>8 DEF IInv

(* The copied bytes are counted.                                             *)
LEMMA WriteAddKeeps ==
  ASSUME IInv, WriteAdd
  PROVE  IInv'
<1> USE SizeAssumption
<1>1. /\ UNCHANGED <<tx_data, tx_read, tx_write, tx_size, tx_data2, tx_size2, completion, state,
                     source, left, accepted, sent, wire, async, handed, overtaken, cut>>
      /\ UNCHANGED <<size, room, blocking>>
      /\ pc = "add" /\ pc' \in {"kick", "room"} /\ tx_count' = tx_count + room
  BY DEF WriteAdd, Goto, asyncVars, uartVars, history
<1>2. /\ Live = tx_count + room /\ Live' = Live /\ RingEnd' = RingEnd /\ tx_size2 = 0
      /\ SendingBuffer' = SendingBuffer
  BY <1>1 DEF Live, RingEnd, SendingBuffer, IInv, Bounds, BufferHeld
<1>3. tx_count \in Nat /\ room \in Nat /\ tx_count + room \in 0..BufferSize /\ tx_size \in Nat
  BY <1>2, SizeFits DEF IInv, TypeOK, Bounds, RingFits
<1>4. TypeOK'
  BY <1>1, <1>3 DEF IInv, TypeOK
<1>5. Bounds'
  BY <1>1, <1>2, <1>3 DEF IInv, Bounds, RingFits, InTransmission, IdleForWriter, BufferHeld,
    Conserved
<1>6. ASSUME ~overtaken' PROVE Order'
  <2>1. RingInOrder' /\ ~SendingBuffer
    BY <1>1, <1>2, <1>6 DEF IInv, Order, RingInOrder, SentSoFar, BufferAlone
  <2>2. BufferAlone' /\ (~cut => SentSoFar)'
    BY <1>1, <1>2, <1>6, <2>1 DEF IInv, Order, SentSoFar, BufferAlone
  <2>3. Started'
    BY <1>1, <1>2, <1>6 DEF Started
  <2> QED  BY <2>1, <2>2, <2>3 DEF Order
<1> QED  BY <1>4, <1>5, <1>6 DEF IInv

(* A buffer is handed over: it follows what is in the ring.                   *)
LEMMA AsyncWriteKeeps ==
  ASSUME IInv, NEW n \in 1..MaxWrite, AsyncWrite(n)
  PROVE  IInv'
<1> USE SizeAssumption
<1>1. /\ UNCHANGED <<tx_data, tx_read, tx_write, tx_count, tx_size, state, source, left, sent,
                     wire, handed, overtaken>>
      /\ cut' = (cut \/ n >= HalfWord)
      /\ UNCHANGED <<size, room, blocking>>
      /\ pc = "idle" /\ pc' = "asyncdone" /\ state # "INIT" /\ tx_size2 = 0
      /\ async < MaxAsync /\ async' = async + 1 /\ completion' = TRUE
      /\ accepted + n <= MaxBytes /\ accepted' = accepted + n
      /\ tx_data2' = accepted + 1 /\ tx_size2' = n
  BY DEF AsyncWrite, Goto, ringVars, uartVars
<1>2. accepted \in 0..MaxBytes /\ n \in 1..MaxWrite /\ async \in Nat /\ completion = FALSE
  BY <1>1 DEF IInv, TypeOK, Bounds, BufferHeld
<1>3. /\ Live = tx_count /\ Live' = tx_count /\ RingEnd = accepted /\ RingEnd' = accepted
      /\ SendingBuffer' = SendingBuffer
  BY <1>1, <1>2 DEF IInv, TypeOK, Live, RingEnd, SendingBuffer
<1>4. TypeOK'
  BY <1>1, <1>2 DEF IInv, TypeOK
<1>5. Bounds'
  <2>1. RingFits' /\ InTransmission' /\ IdleForWriter'
    BY <1>1, <1>3 DEF IInv, Bounds, RingFits, InTransmission, IdleForWriter
  <2>2. BufferHeld'
    <3>1. ASSUME ~cut' PROVE tx_size2' < HalfWord
      <4>1. ~(n >= HalfWord)
        BY <1>1, <3>1, Zenon
      <4> QED  BY <1>1, <1>2, <4>1
    <3> QED  BY <1>1, <1>2, <3>1 DEF IInv, TypeOK, Bounds, BufferHeld
  <2>3. Conserved'
    <3>1. tx_size \in Nat /\ left \in Nat /\ sent \in Nat /\ tx_count \in Nat
      BY SizeFits DEF IInv, TypeOK
    <3> QED  BY <1>1, <1>2, <1>3, <3>1 DEF IInv, Bounds, Conserved
  <2> QED  BY <2>1, <2>2, <2>3 DEF Bounds
<1>6. ASSUME ~overtaken' PROVE Order'
  <2>1. RingInOrder /\ BufferAlone /\ Started /\ (~cut => SentSoFar) /\ ~SendingBuffer
    BY <1>1, <1>6 DEF IInv, Order, SentSoFar, BufferAlone
  <2> QED  BY <1>1, <1>3, <2>1 DEF Order, RingInOrder, SentSoFar, BufferAlone, Started
<1> QED  BY <1>4, <1>5, <1>6 DEF IInv

(* The buffer is started on an idle UART: all of the ring was sent.           *)
LEMMA AsyncSendKeeps ==
  ASSUME IInv, AsyncSend
  PROVE  IInv'
<1> USE SizeAssumption
<1>1. /\ UNCHANGED <<tx_data, tx_read, tx_write, tx_count, tx_size, tx_data2, tx_size2,
                     completion, accepted, sent, wire, async, handed, cut>>
      /\ UNCHANGED <<size, room, blocking>>
      /\ pc = "asyncsend" /\ pc' = "idle" /\ state = "READY"
      /\ state' = "TRANSMIT" /\ left' = Count16(tx_size2)
      /\ source' = [in |-> "buffer", at |-> tx_data2]
      /\ overtaken' = (overtaken \/ tx_size2 = 0)
  BY DEF AsyncSend, Transmit, Buffer, Goto, ringVars, asyncVars, IInv, Bounds, IdleForWriter
<1>2. tx_size = 0 /\ ~SendingBuffer /\ SendingBuffer' /\ Live = tx_count /\ Live' = tx_count
  BY <1>1 DEF IInv, TypeOK, Bounds, InTransmission, SendingBuffer, Live
<1>3. /\ tx_data2 \in 0..MaxBytes /\ tx_size2 \in 0..MaxWrite /\ accepted \in 0..MaxBytes
      /\ tx_count \in Nat /\ sent \in 0..MaxBytes
      /\ tx_size2 # 0 => tx_data2 >= 1 /\ accepted = tx_data2 + tx_size2 - 1
      /\ left' \in Nat /\ left' <= tx_size2 /\ (~cut => left' = tx_size2)
  BY <1>1, CountFits DEF IInv, TypeOK, Bounds, BufferHeld
<1>4. tx_size2 \in 0..MaxBytes /\ tx_data2 + tx_size2 <= MaxBytes + 1
  BY <1>3
<1>5. TypeOK'
  BY <1>1, <1>3, <1>4 DEF IInv, TypeOK
<1>6. Bounds'
  <2>1. RingFits' /\ InTransmission' /\ IdleForWriter' /\ BufferHeld'
    BY <1>1, <1>2, <1>3, <1>4 DEF IInv, Bounds, RingFits, InTransmission, IdleForWriter, BufferHeld
  <2>2. Conserved'
    BY <1>1, <1>2, <1>3 DEF IInv, Bounds, Conserved
  <2> QED  BY <2>1, <2>2 DEF Bounds
<1>7. ASSUME ~overtaken' PROVE Order'
  <2>1. /\ RingInOrder /\ BufferAlone /\ Started /\ (~cut => SentSoFar) /\ tx_size2 # 0
    BY <1>1, <1>7 DEF IInv, Order
  <2>2. tx_count = 0
    BY <1>1, <2>1 DEF Started
  <2>3. ~cut => sent = accepted - tx_size2 /\ tx_data2 = sent + 1
    BY <1>2, <1>3, <2>1, <2>2 DEF SentSoFar, BufferAlone, RingEnd
  <2> QED
    BY <1>1, <1>2, <1>3, <2>1, <2>2, <2>3 DEF Order, RingInOrder, SentSoFar, BufferAlone, Started
<1> QED  BY <1>5, <1>6, <1>7 DEF IInv

-----------------------------------------------------------------------------
LEMMA NextKeeps == IInv /\ [Next]_vars => IInv'
<1> SUFFICES ASSUME IInv, [Next]_vars PROVE IInv'
  OBVIOUS
<1>1. CASE Look
  BY <1>1, LookKeeps
<1>2. CASE Begin \/ End
  BY <1>2, BeginEndKeeps
<1>3. CASE WriteFullSend \/ WriteSend
  BY <1>3, SendKeeps
<1>4. CASE WriteCopy
  BY <1>4, WriteCopyKeeps
<1>5. CASE WriteAdd
  BY <1>5, WriteAddKeeps
<1>6. CASE \E n \in 1..MaxWrite : AsyncWrite(n)
  BY <1>6, AsyncWriteKeeps
<1>7. CASE AsyncSend
  BY <1>7, AsyncSendKeeps
<1>8. CASE SendByte
  BY <1>8, SendByteKeeps
<1>9. CASE TransferComplete
  BY <1>9, PacketSentKeeps, BufferSentKeeps DEF TransferComplete
<1>10. CASE UNCHANGED vars
  <2>1. /\ UNCHANGED ringVars /\ UNCHANGED asyncVars /\ UNCHANGED uartVars
        /\ UNCHANGED writerVars /\ UNCHANGED history
    BY <1>10 DEF vars
  <2>2. /\ Live' = Live /\ RingEnd' = RingEnd /\ SendingBuffer' = SendingBuffer
    BY <2>1 DEF ringVars, asyncVars, uartVars, writerVars, history, Live, RingEnd, SendingBuffer
  <2>3. TypeOK'
    BY <2>1 DEF ringVars, asyncVars, uartVars, writerVars, history, IInv, TypeOK
  <2>4. Bounds'
    BY <2>1, <2>2 DEF ringVars, asyncVars, uartVars, writerVars, history, IInv, Bounds, RingFits,
      InTransmission, IdleForWriter, BufferHeld, Conserved
  <2>5. ASSUME ~overtaken' PROVE Order'
    BY <2>1, <2>2, <2>5 DEF ringVars, asyncVars, uartVars, writerVars, history, IInv, Order,
      RingInOrder, SentSoFar, BufferAlone, Started
  <2> QED  BY <2>3, <2>4, <2>5 DEF IInv
<1> QED
  BY <1>1, <1>2, <1>3, <1>4, <1>5, <1>6, <1>7, <1>8, <1>9, <1>10 DEF Next, Writing, Look

(* The inductive invariant: the ring, the transmission and the handed buffer  *)
(* agree with each other whatever the writer and the interrupt do.           *)
THEOREM Invariance == Spec => []IInv
<1>1. IInv /\ [Next]_vars => IInv'
  BY NextKeeps
<1> QED  BY InitInv, <1>1, PTL DEF Spec

(* The counts and indices stay in their bounds, and a transmission in those   *)
(* of a packet, for every size of ring, packet and write.                    *)
THEOREM TypeCorrect == Spec => []TypeOK
<1>1. IInv => TypeOK
  BY DEF IInv
<1> QED  BY Invariance, <1>1, PTL

(* The bytes on the wire are those accepted, each once and in order, through   *)
(* the ring or out of a handed buffer.                                       *)
THEOREM BytesInOrder == Spec => []InOrder
<1>1. IInv => InOrder
  <2> SUFFICES ASSUME IInv, ~overtaken, ~cut PROVE wire = sent /\ sent <= accepted
    BY DEF InOrder
  <2>1. wire = sent
    BY DEF IInv, Order, SentSoFar, BufferAlone
  <2>2. Live - tx_size \in Nat /\ left \in Nat /\ tx_size2 \in Nat /\ sent \in Nat /\ accepted \in Nat
    BY SizeFits, SizeAssumption DEF IInv, TypeOK, Bounds, RingFits, Live
  <2>3. sent <= accepted
    BY <2>2 DEF IInv, Bounds, Conserved
  <2> QED  BY <2>1, <2>3
<1> QED  BY Invariance, <1>1, PTL

(* An idle UART with something to send is about to be started.               *)
THEOREM NeverStalls == Spec => []NoStall
<1>1. IInv => NoStall
  BY DEF IInv, Order, Started, NoStall
<1> QED  BY Invariance, <1>1, PTL

(* Every write with a callback has it handed on once, or still to be.         *)
THEOREM OneCallback == Spec => []OneCallbackEach
<1>1. IInv => OneCallbackEach
  BY DEF IInv, Bounds, BufferHeld, OneCallbackEach
<1> QED  BY Invariance, <1>1, PTL

(* A callback is handed on when all that was accepted up to the end of its    *)
(* buffer was sent, and not before.                                          *)
THEOREM CallbacksAfterData == Spec => CallbackAfterData
<1>1. IInv /\ [Next]_vars =>
        [~overtaken /\ ~cut /\ handed' # handed => sent >= tx_data2 + tx_size2 - 1]_vars
  <2> SUFFICES ASSUME IInv, Next, ~overtaken, ~cut, handed' # handed
               PROVE  sent >= tx_data2 + tx_size2 - 1
    OBVIOUS
  <2>1. TransferComplete
    BY DEF Next, Writing, Write, AsyncWrite, Flush, Begin, WriteBegin, WriteRoom, WriteFull,
      WriteFullSend, WriteWait, WriteCopy, WriteAdd, WriteKick, WriteSend, AsyncDone, AsyncSend,
      FlushDone, End, SendByte, history
  <2>2. state = "TRANSMIT" /\ left = 0 /\ tx_size = 0
    BY <2>1 DEF TransferComplete, PacketSent, BufferSent
  <2>3. SendingBuffer
    BY <2>2 DEF IInv, Bounds, InTransmission, SendingBuffer
  <2>4. tx_size2 # 0 /\ sent = accepted - left
    BY <2>3 DEF IInv, Order, SentSoFar, BufferAlone
  <2>5. accepted = tx_data2 + tx_size2 - 1 /\ accepted \in Nat
    BY <2>4, SizeAssumption DEF IInv, TypeOK, Bounds, BufferHeld
  <2> QED  BY <2>2, <2>4, <2>5
<1> QED  BY Invariance, <1>1, PTL DEF Spec, CallbackAfterData
=============================================================================
