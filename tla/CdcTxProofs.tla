----------------------------- MODULE CdcTxProofs -----------------------------
(***************************************************************************)
(* Proofs about CdcTx: for every size of the ring, of a packet and of a       *)
(* small packet, every number of bytes, of writes with a callback, and of     *)
(* suspensions and disconnections.                                          *)
(*                                                                         *)
(* The argument: the ring holds the last bytes accepted, in order            *)
(* (RingInOrder), and what was sent or given up lies before them (SentSoFar).  *)
(* tx_size belongs to the packet whose end is awaited, or to the one the      *)
(* writer has chosen (InTransmission); the writer chooses only when the device *)
(* is idle, and it stays idle for him unless the run ends in a mishap          *)
(* (IdleForWriter).  The types are proved in every state; the rest as long as  *)
(* the run goes on, which is where the properties speak.                     *)
(***************************************************************************)
EXTENDS CdcTx, TLAPS

Wrap(x) == x % BufferSize

(* The bytes in the ring, with those copied and not yet counted.            *)
Live == tx_count + (IF pc = "add" THEN room ELSE 0)

(* The counts and indices of the ring agree, whoever updates them.          *)
RingFits ==
  /\ Live <= BufferSize
  /\ tx_write = Wrap(tx_read + Live)
  /\ tx_size <= tx_count
  /\ tx_read + tx_size <= BufferSize
  /\ pc = "copy" => room <= BufferSize - tx_count
  /\ pc \in {"begin", "room", "full", "fullsend", "fulltransmit", "wait", "copy", "add"} =>
       accepted + size <= MaxBytes

(* A packet of the ring is being sent and its end is awaited.               *)
SendingRing == tx_busy /\ ~tx_flush /\ source.in = "ring"

(* tx_size is set exactly for a packet of the ring, whether it is being sent  *)
(* or the writer has chosen it and not yet sent it; of a buffer is sent what   *)
(* the driver makes of its length.                                         *)
InTransmission ==
  /\ tx_size # 0 => SendingRing \/ pc \in {"fulltransmit", "transmit"}
  /\ SendingRing => tx_size # 0 /\ left <= tx_size /\ source.at = tx_read + (tx_size - left)
  /\ pc \in {"fulltransmit", "transmit"} => at = tx_read /\ room = tx_size
  /\ pc \in {"fulltransmit", "transmit"} /\ tx_size = 0 => tx_count = 0
  /\ tx_flush \/ left # 0 => tx_busy
  /\ tx_busy /\ ~tx_flush /\ source.in = "buffer" =>
       tx_size2 # 0 /\ source.at + left = Count16(tx_size2)

(* Once the writer has found the device idle it stays so until he sends.     *)
IdleForWriter ==
  /\ pc \in {"fullsend", "fulltransmit", "transmit"} => ~tx_busy
  /\ pc = "send" /\ tx_count >= PacketSmall => ~tx_busy

(* A port is closed and opened with nothing left to send, and hears nothing   *)
(* while it is closed.                                                     *)
Closed ==
  /\ listening <=> state # "INIT" \/ pc \in Opening
  /\ state = "INIT" => pc \in {"idle", "flush"} \cup Opening
  /\ pc \in {"notify", "end"} \cup Opening \/ state = "INIT" => tx_count = 0 /\ ~tx_busy

(* A handed buffer has its callback.                                        *)
BufferHeld ==
  /\ completion <=> tx_size2 # 0
  /\ handed + (IF completion THEN 1 ELSE 0) = async

RingInOrder ==
  \A i \in 0..Live - 1 : tx_data[Wrap(tx_read + i)] = accepted - Live + 1 + i

(* What was sent is what lies before the ring, and before what is left of the *)
(* packet.                                                                 *)
SentSoFar ==
  /\ wire = sent
  /\ sent = accepted - Live + (IF SendingRing THEN tx_size - left ELSE 0)

Bounds == RingFits /\ InTransmission /\ IdleForWriter /\ Closed /\ BufferHeld
Order == RingInOrder /\ SentSoFar
IInv == TypeOK /\ (Going => Bounds /\ Order)

-----------------------------------------------------------------------------
(* Indices and packets.                                                    *)

(* An index that has passed the end of the ring once starts over.           *)
LEMMA WrapOnce ==
  \A x \in 0..2 * BufferSize - 1 :
    /\ Wrap(x) = IF x < BufferSize THEN x ELSE x - BufferSize
    /\ Wrap(x) \in Slot
<1> TAKE x \in 0..2 * BufferSize - 1
<1>1. BufferSize \in Nat \ {0}
  BY SizeAssumption
<1>2. CASE x < BufferSize
  BY <1>1, <1>2 DEF Wrap, Slot
<1>3. CASE x >= BufferSize
  BY <1>1, <1>3 DEF Wrap, Slot
<1> QED  BY <1>1, <1>2, <1>3

(* Moving on twice is moving on by the sum.                                  *)
LEMMA WrapSum ==
  \A r \in Slot, k \in 0..BufferSize, m \in 0..BufferSize :
    k + m <= BufferSize => Wrap(Wrap(r + k) + m) = Wrap(r + (k + m))
<1> SUFFICES ASSUME NEW r \in Slot, NEW k \in 0..BufferSize, NEW m \in 0..BufferSize,
                    k + m <= BufferSize
             PROVE  Wrap(Wrap(r + k) + m) = Wrap(r + (k + m))
  OBVIOUS
<1>1. BufferSize \in Nat \ {0}
  BY SizeAssumption
<1>2. r + k \in 0..2 * BufferSize - 1
  BY <1>1 DEF Slot
<1>3. Wrap(r + k) = IF r + k < BufferSize THEN r + k ELSE r + k - BufferSize
  BY <1>1, <1>2, WrapOnce DEF Slot
<1> DEFINE y == Wrap(r + k) + m
           z == r + (k + m)
<1>4. y \in 0..2 * BufferSize - 1 /\ z \in 0..2 * BufferSize - 1
  BY <1>1, <1>2, <1>3 DEF Slot
<1>5. IF r + k < BufferSize THEN y = z ELSE y = z - BufferSize /\ y < BufferSize
  BY <1>1, <1>3 DEF Slot
<1>6. r + k >= BufferSize => z >= BufferSize
  BY <1>1 DEF Slot
<1>7. Wrap(y) = Wrap(z)
  <2> HIDE DEF y, z
  <2>1. /\ Wrap(y) = IF y < BufferSize THEN y ELSE y - BufferSize
        /\ Wrap(z) = IF z < BufferSize THEN z ELSE z - BufferSize
    BY <1>4, WrapOnce
  <2> QED  BY <1>1, <1>2, <1>4, <1>5, <1>6, <2>1 DEF Slot
<1> QED  BY <1>7

(* Different places of the ring are different slots.                         *)
LEMMA WrapDiffers ==
  \A r \in Slot, i \in Slot, j \in Slot : i < j => Wrap(r + i) # Wrap(r + j)
<1> SUFFICES ASSUME NEW r \in Slot, NEW i \in Slot, NEW j \in Slot, i < j
             PROVE  Wrap(r + i) # Wrap(r + j)
  OBVIOUS
<1>1. BufferSize \in Nat \ {0}
  BY SizeAssumption
<1> DEFINE y == r + i
           z == r + j
<1>2. y \in 0..2 * BufferSize - 1 /\ z \in 0..2 * BufferSize - 1 /\ y < z /\ z < y + BufferSize
  BY <1>1 DEF Slot
<1>3. Wrap(y) # Wrap(z)
  <2> HIDE DEF y, z
  <2>1. /\ Wrap(y) = IF y < BufferSize THEN y ELSE y - BufferSize
        /\ Wrap(z) = IF z < BufferSize THEN z ELSE z - BufferSize
    BY <1>2, WrapOnce
  <2> QED  BY <1>1, <1>2, <2>1
<1> QED  BY <1>3

(* Uart.cpp takes a packet that is there, does not pass the end of the ring,  *)
(* and is no larger than a packet may be.                                  *)
LEMMA PacketFits ==
  \A count \in Nat, read \in Slot :
    /\ Packet(count, read) \in Nat
    /\ Packet(count, read) <= count
    /\ Packet(count, read) <= BufferSize - read
    /\ Packet(count, read) <= PacketSize
    /\ Packet(count, read) \in 0..Min({BufferSize, PacketSize})
    /\ count # 0 => Packet(count, read) # 0
<1> TAKE count \in Nat, read \in Slot
<1>1. /\ BufferSize \in Nat \ {0} /\ PacketSize \in Nat \ {0}
      /\ BufferSize - read \in Nat \ {0}
  BY SizeAssumption DEF Slot
<1>2. \A a, b, c \in Nat :
        LET m == Min({a, b, c}) IN m \in {a, b, c} /\ m <= a /\ m <= b /\ m <= c
  BY DEF Min
<1>3. \A a, b \in Nat :
        LET m == Min({a, b}) IN m \in {a, b} /\ m <= a /\ m <= b
  BY DEF Min
<1>4. /\ Packet(count, read) \in {count, BufferSize - read, PacketSize}
      /\ Packet(count, read) <= count /\ Packet(count, read) <= BufferSize - read
      /\ Packet(count, read) <= PacketSize
  BY <1>1, <1>2 DEF Packet
<1>5. Min({BufferSize, PacketSize}) \in {BufferSize, PacketSize}
  BY <1>1, <1>3
<1> QED  BY <1>1, <1>4, <1>5 DEF Slot

LEMMA SizeFits ==
  /\ Min({BufferSize, PacketSize}) \in Nat
  /\ \A n \in 0..Min({BufferSize, PacketSize}) : n \in Nat /\ n <= BufferSize /\ n <= PacketSize
<1>1. \A a, b \in Nat :
        LET m == Min({a, b}) IN m \in {a, b} /\ m <= a /\ m <= b
  BY DEF Min
<1> QED  BY <1>1, SizeAssumption

(* What the host takes at once fits in left.                                *)
LEMMA LeftFits ==
  /\ Max({MaxWrite, PacketSize}) \in Nat
  /\ \A n \in Nat : n <= MaxWrite \/ n <= PacketSize => n \in 0..Max({MaxWrite, PacketSize})
<1>1. \A a, b \in Nat :
        LET m == Max({a, b}) IN m \in {a, b} /\ m >= a /\ m >= b
  BY DEF Max
<1> QED  BY <1>1, SizeAssumption

(* What the driver takes of a length: all of it if it fits.                  *)
LEMMA CountFits ==
  /\ \A n \in Nat : Count16(n) \in Nat /\ Count16(n) <= n
  /\ \A n \in Nat : n < HalfWord => Count16(n) = n
  /\ \A n \in Nat : n <= PacketSize => Count16(n) = n
<1>1. HalfWord \in Nat /\ PacketSize \in Nat /\ HalfWord > PacketSize
  BY SizeAssumption
<1>2. \A n \in Nat : n < HalfWord => n % HalfWord = n
  BY <1>1
<1>3. \A n \in Nat : n % HalfWord \in Nat /\ n % HalfWord < HalfWord
  BY <1>1
<1>4. \A n \in Nat : n % HalfWord <= n
  BY <1>1, <1>2, <1>3
<1> QED  BY <1>1, <1>2, <1>3, <1>4 DEF Count16

(* Where a transmission starts, and what one looks like.                     *)
LEMMA SourceFits ==
  /\ \A p \in 0..BufferSize :
       LET s == [in |-> "ring", at |-> p] IN s \in Sources /\ s.in = "ring" /\ s.at = p
  /\ Buffer \in Sources /\ Buffer.in = "buffer" /\ Buffer.at = 0
  /\ \A s \in Sources :
       \/ s.in = "ring" /\ s.at \in 0..BufferSize
       \/ s.in = "buffer" /\ s.at \in 0..MaxWrite
BY SizeAssumption DEF Sources, Buffer

LEMMA FramesFit ==
  \A n \in 0..Frames : Min({n + 1, Frames}) \in 0..Frames
<1>1. \A a, b \in Nat :
        LET m == Min({a, b}) IN m \in {a, b} /\ m <= a /\ m <= b
  BY DEF Min
<1> QED  BY <1>1, SizeAssumption

(* TypeOK in two parts: what a transmission changes, and the rest.           *)
WireTypes ==
  /\ tx_read \in Slot /\ tx_count \in 0..BufferSize
  /\ tx_size \in 0..Min({BufferSize, PacketSize}) /\ tx_timeout \in 0..Frames
  /\ tx_busy \in BOOLEAN /\ tx_flush \in BOOLEAN
  /\ source \in Sources
  /\ left \in 0..Max({MaxWrite, PacketSize})
  /\ source.in = "ring" => source.at + left <= BufferSize
  /\ source.in = "buffer" => source.at + left <= MaxWrite
  /\ mishap = "none" => tx_count >= tx_size

OtherTypes ==
  /\ tx_data \in [Slot -> 0..MaxBytes] /\ tx_write \in Slot
  /\ tx_size2 \in 0..MaxWrite /\ completion \in BOOLEAN
  /\ state \in {"INIT", "READY", "SUSPENDED", "RESET"} /\ listening \in BOOLEAN
  /\ USBD \in BOOLEAN /\ control \in BOOLEAN /\ suspended \in BOOLEAN
  /\ pc \in {"idle", "begin", "room", "full", "fullsend", "fulltransmit", "wait", "copy",
             "add", "kick", "send", "transmit", "asyncdone", "asyncsend", "flush",
             "notify", "end"} \cup Opening
  /\ size \in 0..MaxWrite /\ room \in 0..BufferSize /\ at \in Slot /\ blocking \in BOOLEAN
  /\ accepted \in 0..MaxBytes /\ wire \in 0..MaxBytes
  /\ async \in 0..MaxAsync /\ handed \in 0..MaxAsync
  /\ cuts \in 0..MaxCuts /\ mishap \in Mishaps \cup {"none"}

LEMMA TypeParts == (TypeOK <=> WireTypes /\ OtherTypes) /\ (TypeOK' <=> WireTypes' /\ OtherTypes')
BY Zenon DEF TypeOK, WireTypes, OtherTypes

-----------------------------------------------------------------------------
LEMMA InitInv == Init => IInv
<1> SUFFICES ASSUME Init PROVE IInv
  OBVIOUS
<1> USE SizeAssumption DEF Init
<1>1. 0 \in 0..Min({BufferSize, PacketSize}) /\ 0 \in 0..Max({MaxWrite, PacketSize})
  BY SizeFits, LeftFits
<1>2. tx_data \in [Slot -> 0..MaxBytes] /\ 0 \in Slot
  BY DEF Slot
<1>3. TypeOK
  <2>1. source \in Sources /\ source.in = "buffer" /\ source.at = 0
    BY SourceFits
  <2>2. /\ 0 \in 0..MaxWrite /\ 0 \in 0..MaxBytes /\ 0 \in 0..MaxAsync /\ 0 \in 0..BufferSize
        /\ 0 \in 0..MaxCuts /\ 0 \in 0..Frames
    OBVIOUS
  <2>3. /\ source.in = "ring" => source.at + left <= BufferSize
        /\ source.in = "buffer" => source.at + left <= MaxWrite
    BY <2>1
  <2>4. mishap \in Mishaps \cup {"none"} /\ (mishap = "none" => tx_count >= tx_size)
    OBVIOUS
  <2>5. /\ completion \in BOOLEAN /\ listening \in BOOLEAN /\ USBD \in BOOLEAN
        /\ control \in BOOLEAN /\ suspended \in BOOLEAN /\ tx_busy \in BOOLEAN
        /\ tx_flush \in BOOLEAN /\ blocking \in BOOLEAN
    OBVIOUS
  <2> QED  BY <1>1, <1>2, <2>1, <2>2, <2>3, <2>4, <2>5 DEF TypeOK
<1>4. Wrap(0) = 0
  BY WrapOnce
<1>5. Bounds
  BY <1>4 DEF Bounds, RingFits, InTransmission, IdleForWriter, Closed, BufferHeld, SendingRing,
    Live, Opening
<1>6. Order
  BY DEF Order, RingInOrder, SentSoFar, SendingRing, Live
<1> QED  BY <1>3, <1>5, <1>6 DEF IInv

(* The steps of the writer that only look: pc and locals change.            *)
Look ==
  \/ \E n \in 1..MaxWrite, b \in BOOLEAN : Write(n, b)
  \/ WriteBegin \/ WriteRoom \/ WriteFull \/ WriteWait \/ WriteKick
  \/ WriteSend /\ tx_count < PacketSmall
  \/ AsyncDone \/ Flush \/ FlushDone

LEMMA LookKeeps ==
  ASSUME IInv, Going, Look
  PROVE  IInv'
<1> USE SizeAssumption
<1> USE DEF Write, WriteBegin, WriteRoom, WriteFull, WriteWait, WriteKick, AsyncDone, Flush,
    FlushDone, Goto
<1>0. WriteSend /\ tx_count < PacketSmall =>
        /\ pc = "send" /\ Goto("idle")
        /\ UNCHANGED <<ringVars, asyncVars, portVars, deviceVars, wireVars, tx_flush, history>>
  <2>1. tx_count \in Nat /\ PacketSmall \in Nat
    BY DEF IInv, TypeOK
  <2> QED  BY <2>1 DEF WriteSend
<1>1. /\ UNCHANGED <<ringVars, asyncVars, portVars, deviceVars, wireVars, tx_flush>>
      /\ UNCHANGED <<accepted, wire, sent, async, handed, cuts>>
      /\ mishap' \in {"none", "orphaned"}
      /\ pc # "add" /\ pc' # "add"
  BY <1>0 DEF Look, Note, history, Going
<1>2. /\ UNCHANGED <<tx_data, tx_read, tx_write, tx_count, tx_size, tx_timeout, tx_size2,
                     completion, state, listening, USBD, control, suspended, tx_busy, source,
                     left, tx_flush>>
      /\ Live' = Live /\ SendingRing' = SendingRing
  BY <1>1 DEF ringVars, asyncVars, portVars, deviceVars, wireVars, Live, SendingRing
<1>3. /\ pc' \in {"idle", "begin", "room", "full", "fullsend", "wait", "copy", "kick",
                  "send", "asyncdone", "asyncsend", "flush", "notify", "end"}
      /\ size' \in 0..MaxWrite /\ room' \in 0..BufferSize /\ blocking' \in BOOLEAN
      /\ at' = at
  BY <1>0 DEF IInv, TypeOK, Look
<1>4. TypeOK'
  BY <1>1, <1>2, <1>3 DEF IInv, TypeOK, Mishaps, Going
<1>5. /\ pc' = "copy" => room' <= BufferSize - tx_count
      /\ pc' \in {"fullsend", "send"} => ~tx_busy
      /\ pc' \in {"notify", "end"} => tx_count = 0 /\ ~tx_busy
  BY <1>0 DEF IInv, TypeOK, Bounds, RingFits, Look, Done, CanTransmit, Flushed
<1>6. /\ pc' \in {"begin", "room", "full", "fullsend", "fulltransmit", "wait", "copy", "add"} =>
           accepted + size' <= MaxBytes
      /\ state = "INIT" => pc' \in {"idle", "flush"}
      /\ pc \notin Opening /\ pc' \notin Opening
  BY <1>0 DEF IInv, TypeOK, Bounds, RingFits, Closed, Look, Opening, Flushed, Done, CanTransmit
<1> USE DEF Going
<1>7. Bounds /\ Order
  BY DEF IInv
<1>8. pc \notin {"fulltransmit", "transmit"}
  BY <1>0 DEF Look
<1>9. Bounds'
  BY <1>1, <1>2, <1>3, <1>5, <1>6, <1>7, <1>8 DEF Bounds, RingFits, InTransmission, IdleForWriter,
    Closed, BufferHeld
<1>10. Order'
  BY <1>1, <1>2, <1>7 DEF Order, RingInOrder, SentSoFar
<1> QED  BY <1>4, <1>9, <1>10 DEF IInv

(* The host resumes, enumerates the device or opens the port, and the writer   *)
(* opens, closes or reopens it: the ring and the transmission are left alone.  *)
Turn ==
  \/ Resume \/ Enumerate \/ Control
  \/ Begin \/ Begun \/ End \/ Notify

LEMMA TurnKeeps ==
  ASSUME IInv, Going, Turn
  PROVE  IInv'
<1> USE SizeAssumption DEF Going
<1> USE DEF Resume, Enumerate, Control, Begin, Begun, End, Notify, Goto
<1>1. /\ UNCHANGED <<ringVars, asyncVars, wireVars, tx_flush>>
      /\ UNCHANGED <<accepted, wire, sent, async, handed, cuts>>
      /\ mishap' \in {"none", "outdated"}
      /\ UNCHANGED <<size, room, at, blocking>>
      /\ \/ pc' = pc
         \/ pc' = "idle" /\ pc \in {"notify", "end"} \cup Opening
         \/ pc' \in Opening /\ pc = "idle" /\ state = "INIT"
  BY DEF Turn, writerVars, portVars, deviceVars, history, Note, Opening, Found
<1>2. /\ UNCHANGED <<tx_data, tx_read, tx_write, tx_count, tx_size, tx_timeout, tx_size2,
                     completion, tx_busy, source, left, tx_flush>>
      /\ Live' = Live /\ SendingRing' = SendingRing
  BY <1>1 DEF ringVars, asyncVars, wireVars, Live, SendingRing, Opening
<1>3. /\ state' \in {"INIT", "READY", "SUSPENDED", "RESET"} /\ listening' \in BOOLEAN
      /\ USBD' \in BOOLEAN /\ control' \in BOOLEAN /\ suspended' \in BOOLEAN
  <2>1. (state # "INIT") \in BOOLEAN
    OBVIOUS
  <2>2. /\ state \in {"INIT", "READY", "SUSPENDED", "RESET"} /\ listening \in BOOLEAN
        /\ USBD \in BOOLEAN /\ control \in BOOLEAN /\ suspended \in BOOLEAN
    BY DEF IInv, TypeOK
  <2> QED  BY <2>1, <2>2, Zenon DEF Turn, portVars, deviceVars, Opening
<1>4. TypeOK'
  <2>1. mishap' \in Mishaps \cup {"none"} /\ (mishap' = "none" => tx_count' >= tx_size')
    BY <1>1, <1>2 DEF IInv, TypeOK, Mishaps
  <2> QED  BY <1>1, <1>2, <1>3, <2>1 DEF IInv, TypeOK
<1>5. Bounds /\ Order
  BY DEF IInv
<1>6. Closed'
  <2>1. /\ listening <=> state # "INIT" \/ pc \in Opening
        /\ state = "INIT" => pc \in {"idle", "flush"} \cup Opening
        /\ pc \in {"notify", "end"} \cup Opening \/ state = "INIT" => tx_count = 0 /\ ~tx_busy
        /\ listening \in BOOLEAN
    BY <1>5 DEF Bounds, Closed, IInv, TypeOK
  <2>2. /\ listening' <=> state' # "INIT" \/ pc' \in Opening
        /\ state' = "INIT" => pc' \in {"idle", "flush"} \cup Opening
    BY <1>1, <2>1 DEF Turn, portVars, deviceVars, writerVars, Opening, Found
  <2>3. state' = "INIT" => state = "INIT" \/ pc = "end"
    BY <2>1 DEF Turn, portVars, deviceVars, writerVars, Opening, Found
  <2> QED  BY <1>1, <1>2, <2>1, <2>2, <2>3 DEF Closed, Opening
<1>7. Bounds'
  BY <1>1, <1>2, <1>5, <1>6 DEF Bounds, RingFits, InTransmission, IdleForWriter, BufferHeld,
    Opening
<1>8. Order'
  BY <1>1, <1>2, <1>5 DEF Order, RingInOrder, SentSoFar
<1> QED  BY <1>4, <1>7, <1>8 DEF IInv

(* The numbers that the steps of a transmission compute with.               *)
LEMMA Numbers ==
  ASSUME IInv, Going
  PROVE  /\ tx_read \in Slot /\ tx_write \in Slot /\ tx_count \in 0..BufferSize
         /\ Live \in 0..BufferSize /\ tx_count <= Live
         /\ tx_size \in 0..tx_count /\ tx_size <= PacketSize
         /\ tx_read + tx_size <= BufferSize
         /\ left \in Nat /\ accepted \in 0..MaxBytes /\ wire \in 0..MaxBytes
         /\ SendingRing => tx_size # 0 /\ left <= tx_size
         /\ sent \in Nat /\ sent <= accepted
         /\ room \in 0..BufferSize
         /\ Bounds /\ Order
<1> USE SizeAssumption DEF Going
<1>1. Bounds /\ Order
  BY DEF IInv
<1>2. /\ tx_read \in Slot /\ tx_write \in Slot /\ tx_count \in 0..BufferSize
      /\ room \in 0..BufferSize
      /\ tx_size \in Nat /\ tx_size <= PacketSize
      /\ accepted \in 0..MaxBytes /\ wire \in 0..MaxBytes
  BY SizeFits DEF IInv, TypeOK
<1>3. left \in Nat
  BY LeftFits DEF IInv, TypeOK
<1>4. /\ Live \in 0..BufferSize /\ tx_count <= Live /\ tx_size \in 0..tx_count
      /\ tx_read + tx_size <= BufferSize
  BY <1>1, <1>2 DEF Bounds, RingFits, Live
<1>5. SendingRing => tx_size # 0 /\ left <= tx_size
  BY <1>1 DEF Bounds, InTransmission
<1>6. wire = sent /\ sent = accepted - Live + (IF SendingRing THEN tx_size - left ELSE 0)
  BY <1>1 DEF Order, SentSoFar
<1>7. sent <= accepted /\ sent \in Nat
  BY <1>2, <1>3, <1>4, <1>5, <1>6
<1> QED  BY <1>1, <1>2, <1>3, <1>4, <1>5, <1>7

(* The host takes a byte, of the ring, of the buffer or of a packet given up.  *)
LEMMA SendByteKeeps ==
  ASSUME IInv, Going, SendByte
  PROVE  IInv'
<1> USE SizeAssumption DEF Going
<1>1. /\ UNCHANGED <<tx_data, tx_read, tx_write, tx_count, tx_size, tx_timeout, tx_size2,
                     completion, state, listening, USBD, control, suspended, tx_busy, tx_flush,
                     accepted, async, handed, cuts, mishap>>
      /\ UNCHANGED <<pc, size, room, at, blocking>>
      /\ left > 0 /\ left' = left - 1
  BY DEF SendByte, ringVars, asyncVars, portVars, deviceVars, writerVars
<1>2. Live' = Live
  BY <1>1 DEF Live
<1>3. left' \in 0..Max({MaxWrite, PacketSize}) /\ left \in Nat
  BY <1>1, LeftFits DEF IInv, TypeOK
<1>4. CASE source.in = "ring"
  <2>1. /\ source \in [in : {"ring"}, at : 0..BufferSize] /\ source.at + left <= BufferSize
        /\ source' = [in |-> "ring", at |-> source.at + 1]
        /\ IF tx_flush THEN UNCHANGED <<wire, sent>>
           ELSE wire' = tx_data[source.at] /\ sent' = sent + 1
    <3>1. source \in [in : {"ring"}, at : 0..BufferSize] /\ source.at + left <= BufferSize
      BY <1>4 DEF IInv, TypeOK, Sources
    <3>2. source' = [in |-> "ring", at |-> source.at + 1]
      BY <3>1 DEF SendByte
    <3> QED  BY <1>4, <3>1, <3>2 DEF SendByte
  <2>2. source.at \in Slot /\ source.at + 1 \in 0..BufferSize
    BY <1>1, <1>3, <2>1 DEF Slot
  <2>3. SendingRing' = SendingRing /\ source'.in = "ring" /\ source'.at = source.at + 1
    BY <1>1, <1>4, <2>1 DEF SendingRing
  <2>4. wire' \in 0..MaxBytes
    BY <2>1, <2>2 DEF IInv, TypeOK
  <2>5. TypeOK'
    <3>1. source' \in Sources
      BY <2>1, <2>2, SourceFits
    <3>2. source'.at + left' <= BufferSize
      BY <1>1, <1>3, <2>1, <2>2, <2>3 DEF Slot
    <3> QED  BY <1>1, <1>3, <2>3, <2>4, <3>1, <3>2 DEF IInv, TypeOK
  <2>6. SendingRing => /\ tx_size - left' = tx_size - left + 1
                       /\ source'.at = tx_read + (tx_size - left')
    BY <1>1, <2>2, <2>3, Numbers DEF Bounds, InTransmission, Slot
  <2>7. Bounds'
    BY <1>1, <1>2, <1>3, <2>3, <2>6, Numbers DEF Bounds, RingFits, InTransmission, IdleForWriter,
      Closed, BufferHeld
  <2>8. Order'
    <3>1. RingInOrder'
      BY <1>1, <1>2, Numbers DEF Order, RingInOrder
    <3>2. wire = sent /\ sent = accepted - Live + (IF SendingRing THEN tx_size - left ELSE 0)
      BY Numbers DEF Order, SentSoFar
    <3>3. CASE SendingRing
      <4>1. /\ tx_size - left \in 0..Live - 1 /\ source.at = tx_read + (tx_size - left)
            /\ tx_read + (tx_size - left) < BufferSize
        BY <1>1, <1>3, <2>2, <3>3, Numbers DEF Bounds, InTransmission, Slot
      <4>2. source.at = Wrap(tx_read + (tx_size - left))
        <5>1. source.at \in 0..2 * BufferSize - 1 /\ source.at < BufferSize
          BY <2>2 DEF Slot
        <5> QED  BY <4>1, <5>1, WrapOnce
      <4>3. tx_data[source.at] = accepted - Live + 1 + (tx_size - left)
        BY <4>1, <4>2, Numbers DEF Order, RingInOrder
      <4>4. ~tx_flush
        BY <3>3 DEF SendingRing
      <4> QED
        BY <1>1, <1>2, <1>3, <2>1, <2>3, <2>6, <3>1, <3>2, <3>3, <4>3, <4>4, Numbers
        DEF Order, SentSoFar
    <3>4. CASE ~SendingRing
      <4>1. tx_busy
        BY <1>1, <1>3, Numbers DEF Bounds, InTransmission
      <4>2. tx_flush
        BY <1>4, <3>4, <4>1 DEF SendingRing
      <4> QED  BY <1>1, <1>2, <2>1, <2>3, <3>1, <3>2, <3>4, <4>2 DEF Order, SentSoFar
    <3> QED  BY <3>3, <3>4
  <2> QED  BY <2>5, <2>7, <2>8 DEF IInv
<1>5. CASE source.in = "buffer"
  <2>1. /\ source \in [in : {"buffer"}, at : 0..MaxWrite] /\ source.at + left <= MaxWrite
        /\ source' = [in |-> "buffer", at |-> source.at + 1]
        /\ UNCHANGED <<wire, sent>>
    <3>1. source \in [in : {"buffer"}, at : 0..MaxWrite] /\ source.at + left <= MaxWrite
      BY <1>5 DEF IInv, TypeOK, Sources
    <3>2. source' = [in |-> "buffer", at |-> source.at + 1]
      BY <3>1 DEF SendByte
    <3> QED  BY <1>5, <3>1, <3>2 DEF SendByte
  <2>2. /\ ~SendingRing /\ ~SendingRing'
        /\ source'.in = "buffer" /\ source'.at = source.at + 1 /\ source.at \in Nat
    BY <1>5, <2>1 DEF SendingRing
  <2>3. TypeOK'
    <3>1. source'.at + left' <= MaxWrite /\ source.at + 1 \in 0..MaxWrite
      BY <1>1, <1>3, <2>1, <2>2
    <3>2. source' \in Sources
      BY <2>1, <3>1 DEF Sources
    <3> QED  BY <1>1, <1>3, <2>1, <2>2, <3>1, <3>2 DEF IInv, TypeOK
  <2>4. Bounds'
    <3>1. source'.at + left' = source.at + left
      BY <1>1, <1>3, <2>2
    <3>2. InTransmission'
      BY <1>1, <1>3, <1>5, <2>2, <3>1, Numbers DEF Bounds, InTransmission
    <3> QED
      BY <1>1, <1>2, <3>2, Numbers DEF Bounds, RingFits, IdleForWriter, Closed, BufferHeld
  <2>5. Order'
    BY <1>1, <1>2, <2>1, <2>2, Numbers DEF Order, RingInOrder, SentSoFar
  <2> QED  BY <2>3, <2>4, <2>5 DEF IInv
<1>6. source.in \in {"ring", "buffer"}
  BY SourceFits DEF IInv, TypeOK
<1> QED  BY <1>4, <1>5, <1>6

(* The end of a packet of the ring: the next one, the buffer, or nothing.     *)
LEMMA PacketSentKeeps ==
  ASSUME IInv, Going, TxDone, ~tx_flush, listening, PacketSent
  PROVE  IInv'
<1> USE SizeAssumption DEF Going
<1> DEFINE read == Wrap(tx_read + tx_size)
           count == tx_count - tx_size
<1>1. /\ UNCHANGED <<tx_data, tx_write, tx_size2, completion, state, listening, USBD, control,
                     suspended, pc, size, room, at, blocking, accepted, wire, sent, async,
                     handed, cuts, mishap>>
      /\ tx_busy /\ left = 0 /\ tx_size # 0 /\ tx_flush' = FALSE /\ tx_timeout' = 0
      /\ tx_read' = read /\ tx_count' = count
  BY DEF TxDone, Transmitted, PacketSent, BufferEnded, asyncVars, portVars, deviceVars,
               writerVars, Wrap
<1>2. /\ SendingRing
      /\ pc \notin {"fullsend", "fulltransmit", "transmit", "notify", "end"} \cup Opening
  BY <1>1, Numbers DEF Bounds, InTransmission, IdleForWriter, Closed, SendingRing
<1>3. state # "INIT"
  BY <1>1, Numbers DEF Bounds, Closed
<1>4. /\ tx_size \in 1..tx_count /\ tx_count \in 0..BufferSize
      /\ tx_read + tx_size \in 0..BufferSize
      /\ count \in 0..BufferSize /\ tx_size \in 0..BufferSize /\ Live - tx_size \in 0..BufferSize
  BY <1>1, Numbers DEF Slot
<1>5. Live' = Live - tx_size
  BY <1>1, <1>4, Numbers DEF Live
<1>6. read \in Slot /\ read \in 0..BufferSize - 1
  <2>1. tx_read + tx_size \in 0..2 * BufferSize - 1
    BY <1>4
  <2> QED  BY <2>1, WrapOnce DEF Slot
<1>7. Wrap(read + (Live - tx_size)) = Wrap(tx_read + Live)
  <2>1. tx_size + (Live - tx_size) = Live
    BY <1>4, Numbers
  <2> QED  BY <1>4, <2>1, Numbers, WrapSum
<1>8. tx_write' = Wrap(tx_read' + Live')
  BY <1>1, <1>5, <1>7, Numbers DEF Bounds, RingFits
<1>9. RingInOrder'
  <2> SUFFICES ASSUME NEW i \in 0..Live' - 1
               PROVE  tx_data'[Wrap(tx_read' + i)] = accepted' - Live' + 1 + i
    BY DEF RingInOrder
  <2>1. /\ tx_size + i \in 0..Live - 1 /\ i \in 0..BufferSize /\ tx_size + i <= BufferSize
    BY <1>4, <1>5, Numbers
  <2>2. Wrap(read + i) = Wrap(tx_read + (tx_size + i))
    BY <1>4, <2>1, Numbers, WrapSum
  <2>3. tx_data[Wrap(tx_read + (tx_size + i))] = accepted - Live + 1 + (tx_size + i)
    BY <2>1, Numbers DEF Order, RingInOrder
  <2>4. accepted - Live + 1 + (tx_size + i) = accepted - (Live - tx_size) + 1 + i
    BY <1>4, <2>1, Numbers
  <2> HIDE DEF read
  <2> QED  BY <1>1, <1>5, <2>2, <2>3, <2>4
<1>10. wire = sent /\ sent = accepted - (Live - tx_size)
  BY <1>1, <1>2, <1>4, Numbers DEF Order, SentSoFar
<1> DEFINE n == Packet(count, read)
<1>11. /\ n \in Nat /\ n <= count /\ n <= BufferSize - read /\ n <= PacketSize
       /\ n \in 0..Min({BufferSize, PacketSize}) /\ (count # 0 => n # 0)
  BY <1>4, <1>6, PacketFits
<1>12. /\ pc' = "copy" => room' <= BufferSize - tx_count'
       /\ BufferHeld' /\ Closed'
       /\ pc' \in {"fullsend", "fulltransmit", "transmit"} => ~tx_busy'
       /\ pc' \in {"begin", "room", "full", "fullsend", "fulltransmit", "wait", "copy", "add"} =>
            accepted' + size' <= MaxBytes
       /\ pc' = "send" /\ tx_count' >= PacketSmall => ~tx_busy'
  <2>1. PacketSmall \in Nat
    OBVIOUS
  <2>2. BufferHeld' /\ Closed'
    BY <1>1, <1>2, <1>3, Numbers DEF Bounds, BufferHeld, Closed
  <2>3. pc = "copy" => room <= BufferSize - count
    BY <1>4, Numbers DEF Bounds, RingFits
  <2>4. pc' = "send" /\ tx_count' >= PacketSmall => ~tx_busy
    BY <1>1, <1>4, <2>1, Numbers DEF Bounds, IdleForWriter
  <2>5. ~(pc' = "send" /\ tx_count' >= PacketSmall)
    BY <1>1, <2>4
  <2> HIDE DEF read, count
  <2> QED  BY <1>1, <1>2, <2>2, <2>3, <2>5, Numbers DEF Bounds, RingFits
<1>13. \/ /\ count # 0 /\ tx_size' = n /\ left' = n /\ tx_busy' = TRUE
          /\ source' = [in |-> "ring", at |-> read]
       \/ /\ count = 0 /\ tx_size2 # 0 /\ tx_size' = 0 /\ left' = Count16(tx_size2)
          /\ tx_busy' = TRUE /\ source' = Buffer
       \/ /\ count = 0 /\ tx_size2 = 0 /\ tx_size' = 0 /\ left' = left /\ tx_busy' = FALSE
          /\ source' = source
  <2>1. Count16(n) = n
    BY <1>11, CountFits
  <2> QED  BY <2>1 DEF PacketSent, Start, Ring, Wrap
<1> HIDE DEF read, count, n
<1>14. OtherTypes'
  BY <1>1, TypeParts DEF IInv, OtherTypes
<1>15. CASE tx_size' = n /\ left' = n /\ tx_busy' = TRUE /\ source' = [in |-> "ring", at |-> read]
            /\ count # 0
  <2>1. SendingRing' /\ source'.in = "ring" /\ source'.at = read
    BY <1>1, <1>15 DEF SendingRing
  <2>2. TypeOK'
    <3>1. read \in 0..BufferSize /\ read + n <= BufferSize
      BY <1>6, <1>11
    <3>2. source' \in Sources
      BY <1>15, <3>1, SourceFits
    <3>3. n \in 0..Max({MaxWrite, PacketSize})
      BY <1>11, LeftFits
    <3>4. tx_count' >= tx_size' /\ tx_timeout' \in 0..Frames /\ tx_read' \in Slot
          /\ tx_count' \in 0..BufferSize
      BY <1>1, <1>4, <1>6, <1>11, <1>15
    <3>5. source'.at + left' <= BufferSize
      BY <1>15, <2>1, <3>1
    <3>6. tx_size' \in 0..Min({BufferSize, PacketSize})
            /\ left' \in 0..Max({MaxWrite, PacketSize})
          /\ tx_busy' \in BOOLEAN
      BY <1>11, <1>15, <3>3
    <3>7. WireTypes'
      BY <1>1, <2>1, <3>2, <3>4, <3>5, <3>6 DEF WireTypes
    <3> QED  BY <1>14, <3>7, TypeParts
  <2>3. RingFits'
    <3>1. tx_size' <= tx_count' /\ tx_read' + tx_size' <= BufferSize /\ Live' <= BufferSize
      BY <1>1, <1>4, <1>5, <1>6, <1>11, <1>15
    <3> QED  BY <1>8, <1>12, <3>1 DEF RingFits
  <2>4. InTransmission'
    <3>1. tx_size' # 0 /\ left' <= tx_size' /\ source'.at = tx_read' + (tx_size' - left')
      BY <1>1, <1>4, <1>6, <1>11, <1>15, <2>1
    <3> QED  BY <1>1, <1>2, <1>15, <2>1, <3>1 DEF InTransmission
  <2>5. IdleForWriter'
    BY <1>12 DEF IdleForWriter
  <2>6. SentSoFar'
    BY <1>1, <1>4, <1>5, <1>10, <1>11, <1>15, <2>1, Numbers DEF SentSoFar
  <2> QED  BY <1>9, <1>12, <2>2, <2>3, <2>4, <2>5, <2>6 DEF IInv, Bounds, Order
<1>16. CASE tx_size' = 0 /\ count = 0
  <2>1. /\ ~SendingRing'
        /\ left' \in Nat /\ left' <= MaxWrite /\ (left' # 0 => tx_busy') /\ tx_busy' \in BOOLEAN
        /\ source' \in Sources
        /\ source'.in = "ring" => source'.at + left' <= BufferSize
        /\ source'.in = "buffer" => source'.at + left' <= MaxWrite
        /\ tx_busy' => tx_size2 # 0 /\ source'.at + left' = Count16(tx_size2)
    <3>1. \/ /\ tx_size2 # 0 /\ left' = Count16(tx_size2) /\ tx_busy' = TRUE /\ source' = Buffer
          \/ /\ tx_size2 = 0 /\ left' = left /\ tx_busy' = FALSE /\ source' = source
      BY <1>13, <1>16
    <3>2. /\ Buffer.in = "buffer" /\ Buffer.at = 0 /\ Buffer \in Sources
          /\ tx_size2 \in 0..MaxWrite
          /\ Count16(tx_size2) \in Nat /\ Count16(tx_size2) <= tx_size2
      BY SourceFits, CountFits DEF IInv, TypeOK
    <3>3. /\ source \in Sources
          /\ source.in = "ring" => source.at + left <= BufferSize
          /\ source.in = "buffer" => source.at + left <= MaxWrite
      BY DEF IInv, TypeOK
    <3>4. tx_busy \in BOOLEAN /\ left' \in Nat /\ left' <= MaxWrite
      BY <1>1, <3>1, <3>2
    <3>5. ~SendingRing' /\ (left' # 0 => tx_busy') /\ tx_busy' \in BOOLEAN
      BY <1>1, <3>1, <3>2 DEF SendingRing
    <3>6. CASE source' = Buffer /\ tx_size2 # 0 /\ left' = Count16(tx_size2)
      BY <3>2, <3>4, <3>5, <3>6
    <3>7. CASE source' = source /\ left' = left /\ tx_busy' = FALSE
      BY <3>3, <3>4, <3>5, <3>7
    <3> QED  BY <3>1, <3>6, <3>7
  <2>2. TypeOK'
    <3>1. left' \in 0..Max({MaxWrite, PacketSize}) /\ tx_size' \in 0..Min({BufferSize, PacketSize})
      BY <2>1, <1>16, LeftFits, SizeFits
    <3>2. tx_count' >= tx_size' /\ tx_timeout' \in 0..Frames /\ tx_read' \in Slot
          /\ tx_count' \in 0..BufferSize
      BY <1>1, <1>4, <1>6, <1>16
    <3>3. WireTypes'
      BY <1>1, <2>1, <3>1, <3>2 DEF WireTypes
    <3> QED  BY <1>14, <3>3, TypeParts
  <2>3. RingFits'
    <3>1. tx_size' <= tx_count' /\ tx_read' + tx_size' <= BufferSize /\ Live' <= BufferSize
      BY <1>1, <1>4, <1>5, <1>6, <1>16
    <3> QED  BY <1>8, <1>12, <3>1 DEF RingFits
  <2>4. InTransmission'
    BY <1>1, <1>2, <1>16, <2>1 DEF InTransmission
  <2>5. IdleForWriter'
    BY <1>12 DEF IdleForWriter
  <2>6. SentSoFar'
    BY <1>1, <1>4, <1>5, <1>10, <1>16, <2>1, Numbers DEF SentSoFar
  <2> QED  BY <1>9, <1>12, <2>2, <2>3, <2>4, <2>5, <2>6 DEF IInv, Bounds, Order
<1> QED  BY <1>13, <1>15, <1>16

(* The end of the handed buffer: its callback is handed on.                  *)
LEMMA BufferSentKeeps ==
  ASSUME IInv, Going, TxDone, ~tx_flush, listening, BufferEnded, tx_busy' = FALSE,
         UNCHANGED <<source, left>>
  PROVE  IInv'
<1> USE SizeAssumption DEF Going
<1>1. /\ UNCHANGED <<tx_data, tx_read, tx_write, tx_count, tx_size, state, listening, USBD,
                     control, suspended, pc, size, room, at, blocking, accepted, wire, sent,
                     async, cuts, mishap, source, left>>
      /\ tx_busy /\ left = 0 /\ tx_size = 0 /\ tx_flush' = FALSE /\ tx_timeout' = 0
      /\ tx_busy' = FALSE /\ tx_size2' = 0 /\ completion' = FALSE
      /\ handed' = IF completion THEN handed + 1 ELSE handed
  BY DEF TxDone, Transmitted, PacketSent, BufferEnded, portVars, deviceVars, writerVars
<1>2. Live' = Live /\ ~SendingRing /\ ~SendingRing'
  BY <1>1, Numbers DEF Live, SendingRing, Bounds, InTransmission
<1>3. handed' + 0 = async /\ handed' \in 0..MaxAsync
  BY <1>1, Numbers DEF Bounds, BufferHeld, IInv, TypeOK
<1>4. TypeOK'
  <2>1. 0 \in 0..Frames /\ 0 \in 0..MaxWrite /\ WireTypes /\ OtherTypes
    BY TypeParts DEF IInv
  <2>2. tx_timeout' \in 0..Frames /\ tx_size2' \in 0..MaxWrite /\ tx_busy' \in BOOLEAN
        /\ tx_flush' \in BOOLEAN /\ completion' \in BOOLEAN
    BY <1>1, <2>1
  <2>3. WireTypes'
    BY <1>1, <2>1, <2>2 DEF WireTypes
  <2>4. OtherTypes'
    BY <1>1, <1>3, <2>1, <2>2 DEF OtherTypes
  <2> QED  BY <2>3, <2>4, TypeParts
<1>5. Bounds'
  <2>1. RingFits' /\ IdleForWriter' /\ Closed'
    BY <1>1, <1>2, Numbers DEF Bounds, RingFits, IdleForWriter, Closed
  <2>2. InTransmission' /\ BufferHeld'
    BY <1>1, <1>2, <1>3, Numbers DEF Bounds, InTransmission, BufferHeld
  <2> QED  BY <2>1, <2>2 DEF Bounds
<1>6. Order'
  BY <1>1, <1>2, Numbers DEF Order, RingInOrder, SentSoFar
<1> QED  BY <1>4, <1>5, <1>6 DEF IInv

(* The end of a transmission that was given up: nobody is told.              *)
LEMMA GivenUpKeeps ==
  ASSUME IInv, Going, TxDone, tx_flush \/ ~listening, tx_busy' = FALSE,
         Note(tx_size2 # 0, "orphaned"),
         UNCHANGED <<ringVars, asyncVars, source, left, handed>>
  PROVE  IInv'
<1> USE SizeAssumption DEF Going
<1>1. /\ UNCHANGED <<tx_data, tx_read, tx_write, tx_count, tx_size, tx_timeout, tx_size2,
                     completion, state, listening, USBD, control, suspended, pc, size, room, at,
                     blocking, accepted, wire, sent, async, cuts, handed, source, left>>
      /\ tx_busy /\ left = 0 /\ tx_flush' = FALSE /\ tx_busy' = FALSE
      /\ mishap' \in {"none", "orphaned"}
  BY DEF TxDone, Note, ringVars, asyncVars, portVars, deviceVars, writerVars
<1>2. tx_flush
  BY <1>1, Numbers DEF Bounds, Closed
<1>3. Live' = Live /\ ~SendingRing /\ ~SendingRing' /\ tx_size = 0
      /\ pc \notin {"fulltransmit", "transmit"}
  BY <1>1, <1>2, Numbers DEF Live, SendingRing, Bounds, InTransmission, IdleForWriter
<1>4. TypeOK'
  <2>1. WireTypes'
    BY <1>1, TypeParts DEF IInv, WireTypes
  <2>2. OtherTypes'
    BY <1>1, TypeParts DEF IInv, OtherTypes, Mishaps
  <2> QED  BY <2>1, <2>2, TypeParts
<1>5. Bounds'
  BY <1>1, <1>3, Numbers DEF Bounds, RingFits, IdleForWriter, Closed, InTransmission, BufferHeld
<1>6. Order'
  BY <1>1, <1>3, Numbers DEF Order, RingInOrder, SentSoFar
<1> QED  BY <1>4, <1>5, <1>6 DEF IInv

LEMMA TxDoneKeeps ==
  ASSUME IInv, Going, TxDone
  PROVE  IInv'
<1>1. CASE ~tx_flush /\ listening /\ PacketSent
  BY <1>1, PacketSentKeeps
<1>2. CASE ~tx_flush /\ listening /\ BufferEnded /\ tx_busy' = FALSE /\ UNCHANGED <<source, left>>
  BY <1>2, BufferSentKeeps
<1>3. CASE /\ tx_flush \/ ~listening
           /\ tx_busy' = FALSE /\ Note(tx_size2 # 0, "orphaned")
           /\ UNCHANGED <<ringVars, asyncVars, source, left, handed>>
  BY <1>3, GivenUpKeeps
<1> QED  BY <1>1, <1>2, <1>3 DEF TxDone, Transmitted

(* A start-of-frame sends what is in the ring when nobody else does.         *)
LEMMA SofKeeps ==
  ASSUME IInv, Going, Sof
  PROVE  IInv'
<1> USE SizeAssumption DEF Going
<1>1. /\ UNCHANGED <<tx_data, tx_read, tx_write, tx_count, tx_size2,
                     completion, state, listening, USBD, control, suspended, pc, size, room, at,
                     blocking, accepted, wire, sent, async, cuts, handed, tx_flush>>
      /\ listening /\ SofDue
      /\ tx_timeout' \in 0..Frames
      /\ Live' = Live
  <2>1. tx_timeout' = Min({tx_timeout + 1, Frames}) /\ tx_timeout \in 0..Frames
    BY DEF Sof, IInv, TypeOK
  <2>2. tx_timeout' \in 0..Frames
    BY <2>1, FramesFit
  <2> QED  BY <2>2 DEF Sof, Live, asyncVars, portVars, deviceVars, writerVars
<1>2. tx_count # 0 /\ tx_size = 0 /\ tx_size2 = 0 /\ ~SendingRing
  BY <1>1, Numbers DEF SofDue, Bounds, InTransmission
<1>3. CASE UNCHANGED <<tx_size, wireVars, mishap>>
  <2>1. UNCHANGED <<tx_size, tx_busy, source, left, mishap>> /\ SendingRing' = SendingRing
    BY <1>1, <1>3 DEF wireVars, SendingRing
  <2>2. TypeOK'
    <3>1. WireTypes'
      BY <1>1, <2>1, TypeParts DEF IInv, WireTypes
    <3>2. OtherTypes'
      BY <1>1, <2>1, TypeParts DEF IInv, OtherTypes
    <3> QED  BY <3>1, <3>2, TypeParts
  <2>3. Bounds'
    BY <1>1, <2>1, Numbers DEF Bounds, RingFits, IdleForWriter, Closed, InTransmission, BufferHeld
  <2>4. Order'
    BY <1>1, <2>1, Numbers DEF Order, RingInOrder, SentSoFar
  <2> QED  BY <2>2, <2>3, <2>4 DEF IInv
<1> DEFINE n == Packet(tx_count, tx_read)
<1>4. CASE /\ tx_size' = n /\ Transmit(Ring(tx_read), n)
           /\ mishap' = CASE ~CanTransmit -> "refused"
                          [] CanTransmit /\ AboutToSend -> "collided"
                          [] OTHER -> "none"
  <2>1. /\ n \in Nat /\ n <= tx_count /\ n <= BufferSize - tx_read /\ n <= PacketSize
        /\ n \in 0..Min({BufferSize, PacketSize}) /\ n # 0
    <3>1. tx_count \in Nat /\ tx_read \in Slot
      BY Numbers
    <3> QED  BY <1>2, <3>1, PacketFits
  <2> HIDE DEF n
  <2>2. mishap' \in {"refused", "collided", "none"}
    BY <1>4
  <2>3. OtherTypes'
    BY <1>1, <2>2, TypeParts DEF IInv, OtherTypes, Mishaps
  <2>4. CASE ~CanTransmit
    <3>1. UNCHANGED <<tx_busy, source, left>> /\ mishap' # "none"
      BY <1>4, <2>4 DEF Transmit, wireVars
    <3>2. WireTypes'
      BY <1>1, <1>4, <2>1, <3>1, TypeParts DEF IInv, WireTypes
    <3> QED  BY <2>3, <3>1, <3>2, TypeParts DEF IInv
  <2>5. CASE CanTransmit
    <3>1. /\ tx_busy' = TRUE /\ left' = n /\ source' = [in |-> "ring", at |-> tx_read]
          /\ ~tx_busy /\ state = "READY"
      BY <1>4, <2>1, <2>5, CountFits DEF Transmit, Start, Ring, CanTransmit
    <3>2. source'.in = "ring" /\ source'.at = tx_read
      BY <3>1
    <3>3. TypeOK'
      <4>1. tx_read \in 0..BufferSize /\ tx_read + n <= BufferSize
        BY <2>1, Numbers DEF Slot
      <4>2. source' \in Sources
        BY <3>1, <4>1, SourceFits
      <4>3. n \in 0..Max({MaxWrite, PacketSize})
        BY <2>1, LeftFits
      <4>4. tx_count' >= tx_size' /\ source'.at + left' <= BufferSize
            /\ tx_read' \in Slot /\ tx_count' \in 0..BufferSize
            /\ tx_size' \in 0..Min({BufferSize, PacketSize})
            /\ left' \in 0..Max({MaxWrite, PacketSize})
            /\ tx_busy' \in BOOLEAN /\ tx_flush' \in BOOLEAN
        BY <1>1, <1>4, <2>1, <3>1, <3>2, <4>1, <4>3, Numbers DEF IInv, TypeOK
      <4>5. WireTypes'
        BY <1>1, <3>2, <4>2, <4>4 DEF WireTypes
      <4> QED  BY <2>3, <4>5, TypeParts
    <3>4. SUFFICES ASSUME Going' PROVE Bounds' /\ Order'
      BY <3>3 DEF IInv
    <3>5. ~AboutToSend
      BY <1>4, <2>5, <3>4
    <3>6. ~tx_flush /\ SendingRing'
      <4>1. ~tx_flush
        BY <3>1, Numbers DEF Bounds, InTransmission
      <4> QED  BY <1>1, <3>1, <3>2, <4>1 DEF SendingRing
    <3>7. RingFits'
      <4>1. tx_size' <= tx_count /\ tx_read + tx_size' <= BufferSize
        BY <1>4, <2>1, Numbers DEF Slot
      <4> QED  BY <1>1, <4>1, Numbers DEF Bounds, RingFits
    <3>8. InTransmission'
      <4>1. tx_size' # 0 /\ left' <= tx_size' /\ source'.at = tx_read + (tx_size' - left')
        BY <1>4, <2>1, <3>1, <3>2, Numbers DEF Slot
      <4> QED  BY <1>1, <3>1, <3>5, <3>6, <4>1 DEF InTransmission, AboutToSend
    <3>9. IdleForWriter' /\ Closed' /\ BufferHeld'
      BY <1>1, <1>2, <3>1, <3>5, Numbers DEF Bounds, IdleForWriter, AboutToSend, Closed, BufferHeld
    <3>10. Order'
      <4>1. tx_size' - left' = 0
        BY <1>4, <2>1, <3>1
      <4>2. sent = accepted - Live + 0
        BY <1>2, Numbers DEF Order, SentSoFar
      <4> QED  BY <1>1, <3>6, <4>1, <4>2, Numbers DEF Order, RingInOrder, SentSoFar
    <3> QED  BY <3>7, <3>8, <3>9, <3>10 DEF Bounds
  <2> QED  BY <2>4, <2>5
<1> QED  BY <1>3, <1>4 DEF Sof

(* The host suspends or disconnects the device.  Nothing of the ring is sent   *)
(* after that without the writer or a start-of-frame: a packet that was being  *)
(* sent is given up, and with it all of the ring.                            *)
LEMMA CutKeeps ==
  ASSUME IInv, Going, Suspend \/ Deinit
  PROVE  IInv'
<1> USE SizeAssumption DEF Going
<1>1. /\ UNCHANGED <<tx_data, tx_write, listening, source, accepted, async>>
      /\ UNCHANGED <<pc, size, room, at, blocking>>
      /\ cuts < MaxCuts /\ cuts' = cuts + 1
  BY DEF Suspend, Deinit, wireVars, writerVars
<1>2. /\ USBD' \in BOOLEAN /\ control' \in BOOLEAN /\ suspended' \in BOOLEAN
      /\ state' \in {"INIT", "READY", "SUSPENDED", "RESET"}
      /\ tx_busy' \in BOOLEAN /\ tx_flush' \in BOOLEAN
  <2>1. USBD \in BOOLEAN /\ control \in BOOLEAN /\ tx_busy \in BOOLEAN
    BY DEF IInv, TypeOK
  <2> QED  BY <2>1 DEF Suspend, Deinit, wireVars
<1>3. ~SendingRing' /\ (tx_busy' => tx_busy)
  BY DEF Suspend, Deinit, wireVars, SendingRing
<1>4. /\ left' = left \/ left' = 0
      /\ tx_flush' \/ left' # 0 => tx_busy'
  BY Numbers DEF Suspend, Deinit, wireVars, Bounds, InTransmission
<1>5. /\ left' \in 0..Max({MaxWrite, PacketSize})
      /\ source \in Sources
      /\ source.in = "ring" => source.at + left' <= BufferSize
      /\ source.in = "buffer" => source.at + left' <= MaxWrite
      /\ tx_busy' => left' = left
  <2>1. /\ left \in 0..Max({MaxWrite, PacketSize}) /\ 0 \in 0..Max({MaxWrite, PacketSize})
        /\ source \in Sources
        /\ source.in = "ring" => source.at + left <= BufferSize
        /\ source.in = "buffer" => source.at + left <= MaxWrite
    BY LeftFits DEF IInv, TypeOK
  <2>2. /\ source.in = "ring" => source.at \in 0..BufferSize
        /\ source.in = "buffer" => source.at \in 0..MaxWrite
    BY <2>1, SourceFits
  <2>3. tx_busy' => left' = left
    BY DEF Suspend, Deinit, wireVars
  <2> QED  BY <1>4, <2>1, <2>2, <2>3
<1>6. listening /\ pc \notin Opening => (state' # "INIT" <=> state # "INIT")
  BY Numbers DEF Suspend, Deinit, Bounds, Closed
<1>7. OtherTypes /\ WireTypes /\ cuts' \in 0..MaxCuts /\ 0 \in 0..Frames /\ 0 \in 0..BufferSize
      /\ 0 \in 0..Min({BufferSize, PacketSize}) /\ 0 \in 0..MaxWrite
  <2>1. OtherTypes /\ WireTypes
    BY TypeParts DEF IInv
  <2> QED  BY <1>1, <2>1, SizeFits DEF OtherTypes
<1>8. CASE tx_busy /\ ~tx_flush /\ listening /\ tx_timeout' = 0 /\ PacketCut
  <2>1. /\ tx_read' = tx_write /\ tx_count' = 0 /\ tx_size' = 0
        /\ wire' = accepted /\ sent' = accepted
        /\ UNCHANGED <<tx_size2, completion, handed>>
        /\ mishap' \in {"none", "orphaned", "straddled"}
        /\ Going' => pc # "add"
    BY <1>8 DEF PacketCut, asyncVars
  <2>2. TypeOK'
    <3>1. tx_read' \in Slot /\ tx_count' \in 0..BufferSize /\ tx_timeout' \in 0..Frames
          /\ tx_size' \in 0..Min({BufferSize, PacketSize}) /\ tx_count' >= tx_size'
      BY <1>7, <1>8, <2>1, Numbers
    <3>2. WireTypes'
      BY <1>1, <1>2, <1>5, <3>1 DEF WireTypes
    <3>3. OtherTypes'
      BY <1>1, <1>2, <1>7, <2>1 DEF OtherTypes, Mishaps
    <3> QED  BY <3>2, <3>3, TypeParts
  <2>3. SUFFICES ASSUME Going' PROVE Bounds' /\ Order'
    BY <2>2 DEF IInv
  <2>4. Live' = 0 /\ pc \notin {"fullsend", "fulltransmit", "transmit"} \cup Opening
    BY <1>1, <1>8, <2>1, <2>3, Numbers DEF Live, Bounds, IdleForWriter, Closed
  <2>5. Wrap(tx_write + 0) = tx_write /\ tx_write \in 0..BufferSize - 1
    <3>1. tx_write \in 0..2 * BufferSize - 1 /\ tx_write < BufferSize
      BY Numbers DEF Slot
    <3> QED  BY <3>1, WrapOnce, Numbers DEF Slot
  <2>6. RingFits'
    <3>1. pc' = "copy" => room' <= BufferSize - tx_count'
      BY <1>1, <2>1, Numbers
    <3> QED  BY <1>1, <2>1, <2>4, <2>5, <3>1, Numbers DEF Bounds, RingFits
  <2>7. InTransmission'
    <3>1. ~(tx_busy' /\ ~tx_flush')
      BY <1>8 DEF Suspend, Deinit, wireVars
    <3> QED  BY <1>1, <1>3, <1>4, <2>1, <2>4, <3>1 DEF InTransmission
  <2>8. IdleForWriter'
    <3>1. ~(0 >= PacketSmall)
      OBVIOUS
    <3> QED  BY <1>1, <2>1, <2>4, <3>1 DEF IdleForWriter
  <2>9. Closed' /\ BufferHeld'
    <3>1. listening' /\ state' # "INIT"
      BY <1>1, <1>6, <1>8, <2>4, Numbers DEF Bounds, Closed
    <3>2. Closed'
      BY <1>1, <1>3, <1>8, <2>1, <3>1, Numbers DEF Bounds, Closed
    <3>3. BufferHeld'
      BY <1>1, <2>1, Numbers DEF Bounds, BufferHeld
    <3> QED  BY <3>2, <3>3
  <2>10. Order'
    BY <1>1, <1>3, <2>1, <2>4, Numbers DEF Order, RingInOrder, SentSoFar
  <2> QED  BY <2>6, <2>7, <2>8, <2>9, <2>10 DEF Bounds
<1>9. CASE /\ tx_busy /\ ~tx_flush /\ listening /\ tx_timeout' = 0
           /\ BufferEnded /\ UNCHANGED <<wire, sent, mishap>>
  <2>1. /\ UNCHANGED <<tx_read, tx_count, tx_size, wire, sent, mishap>>
        /\ tx_size = 0 /\ tx_size2' = 0 /\ completion' = FALSE
        /\ handed' = IF completion THEN handed + 1 ELSE handed
    BY <1>9 DEF BufferEnded
  <2>2. Live' = Live /\ ~SendingRing
    BY <1>1, <2>1, Numbers DEF Live
  <2>3. handed' + 0 = async /\ handed' \in 0..MaxAsync
    BY <2>1, Numbers DEF Bounds, BufferHeld, IInv, TypeOK
  <2>4. TypeOK'
    <3>1. tx_timeout' \in 0..Frames /\ tx_size2' \in 0..MaxWrite /\ completion' \in BOOLEAN
      BY <1>7, <1>9, <2>1
    <3>2. WireTypes'
      BY <1>1, <1>2, <1>5, <1>7, <2>1, <3>1 DEF WireTypes
    <3>3. OtherTypes'
      BY <1>1, <1>2, <1>7, <2>1, <2>3, <3>1 DEF OtherTypes
    <3> QED  BY <3>2, <3>3, TypeParts
  <2>5. Bounds'
    <3>1. RingFits' /\ IdleForWriter' /\ Closed'
      BY <1>1, <1>3, <1>6, <1>9, <2>1, <2>2, Numbers DEF Bounds, RingFits, IdleForWriter, Closed
    <3>2. ~(tx_busy' /\ ~tx_flush')
      BY <1>9 DEF Suspend, Deinit, wireVars
    <3>3. InTransmission' /\ BufferHeld'
      BY <1>1, <1>3, <1>4, <2>1, <2>2, <2>3, <3>2, Numbers DEF Bounds, InTransmission, BufferHeld
    <3> QED  BY <3>1, <3>3 DEF Bounds
  <2>6. Order'
    BY <1>1, <1>3, <2>1, <2>2, Numbers DEF Order, RingInOrder, SentSoFar
  <2> QED  BY <2>4, <2>5, <2>6 DEF IInv
<1>10. CASE /\ ~tx_busy \/ tx_flush \/ ~listening
            /\ UNCHANGED <<ringVars, asyncVars, handed, wire, sent>>
            /\ (Suspend /\ UNCHANGED mishap) \/ (Deinit /\ Note(~listening, "revived"))
  <2>1. /\ UNCHANGED <<tx_read, tx_count, tx_size, tx_timeout, tx_size2, completion, handed,
                       wire, sent>>
        /\ mishap' \in {"none", "revived"}
    BY <1>10 DEF ringVars, asyncVars, Note
  <2>2. ~SendingRing /\ Live' = Live
    BY <1>1, <1>10, <2>1, Numbers DEF SendingRing, Bounds, Closed, Live
  <2>3. TypeOK'
    <3>1. WireTypes'
      BY <1>1, <1>2, <1>5, <1>7, <2>1 DEF WireTypes
    <3>2. OtherTypes'
      BY <1>1, <1>2, <1>7, <2>1 DEF OtherTypes, Mishaps
    <3> QED  BY <3>1, <3>2, TypeParts
  <2>4. SUFFICES ASSUME Going' PROVE Bounds' /\ Order'
    BY <2>3 DEF IInv
  <2>5. /\ listening' <=> state' # "INIT" \/ pc' \in Opening
        /\ state' = "INIT" => state = "INIT"
    BY <1>1, <1>10, <2>4, Numbers DEF Suspend, Deinit, Note, Bounds, Closed
  <2>6. RingFits' /\ IdleForWriter' /\ Closed'
    BY <1>1, <1>3, <2>1, <2>2, <2>5, Numbers DEF Bounds, RingFits, IdleForWriter, Closed
  <2>7. InTransmission' /\ BufferHeld'
    <3>1. ~(tx_busy' /\ ~tx_flush')
      BY <1>10 DEF Suspend, Deinit, wireVars
    <3> QED  BY <1>1, <1>3, <1>4, <2>1, <2>2, <3>1, Numbers DEF Bounds, InTransmission, BufferHeld
  <2>8. Order'
    BY <1>1, <1>3, <2>1, <2>2, Numbers DEF Order, RingInOrder, SentSoFar
  <2> QED  BY <2>6, <2>7, <2>8 DEF Bounds
<1> QED  BY <1>8, <1>9, <1>10 DEF Suspend, Deinit, Interrupted

(* The writer chooses a packet of the ring: the device is idle.              *)
LEMMA ChooseKeeps ==
  ASSUME IInv, Going, NEW next \in {"fulltransmit", "transmit"}, Choose(next),
         \/ pc = "fullsend" /\ next = "fulltransmit"
         \/ pc = "send" /\ tx_count >= PacketSmall /\ next = "transmit"
  PROVE  IInv'
<1> USE SizeAssumption DEF Going
<1> DEFINE n == Packet(tx_count, tx_read)
<1>1. /\ UNCHANGED <<tx_data, tx_read, tx_write, tx_count, tx_timeout, tx_size2, completion,
                     state, listening, USBD, control, suspended, tx_busy, source, left, tx_flush,
                     accepted, wire, sent, async, handed, cuts, mishap, size, blocking>>
      /\ at' = tx_read /\ room' = n /\ tx_size' = n /\ pc' = next
  BY DEF Choose, asyncVars, portVars, deviceVars, wireVars, history
<1>2. /\ n \in Nat /\ n <= tx_count /\ n <= BufferSize - tx_read /\ n <= PacketSize
      /\ n \in 0..Min({BufferSize, PacketSize}) /\ (tx_count # 0 => n # 0)
  <2>1. tx_count \in Nat /\ tx_read \in Slot
    BY Numbers
  <2> QED  BY <2>1, PacketFits
<1> HIDE DEF n
<1>3. ~tx_busy /\ ~SendingRing /\ ~SendingRing'
  BY <1>1, Numbers DEF Bounds, IdleForWriter, SendingRing
<1>4. Live' = Live /\ Live = tx_count
  BY <1>1, Numbers DEF Live
<1>5. TypeOK'
  <2>1. WireTypes /\ OtherTypes /\ tx_count >= n /\ n \in 0..BufferSize /\ tx_read \in Slot
    BY <1>2, TypeParts, Numbers DEF IInv
  <2>2. WireTypes'
    BY <1>1, <1>2, <2>1 DEF WireTypes
  <2>3. OtherTypes'
    BY <1>1, <2>1 DEF OtherTypes
  <2> QED  BY <2>2, <2>3, TypeParts
<1>6. Bounds'
  <2>1. tx_read + n <= BufferSize
    BY <1>2, Numbers DEF Slot
  <2>2. RingFits'
    BY <1>1, <1>2, <1>4, <2>1, Numbers DEF Bounds, RingFits
  <2>3. InTransmission'
    BY <1>1, <1>2, <1>3, Numbers DEF Bounds, InTransmission
  <2>4. IdleForWriter' /\ BufferHeld' /\ Closed'
    BY <1>1, <1>3, Numbers DEF Bounds, IdleForWriter, BufferHeld, Closed, Opening
  <2> QED  BY <2>2, <2>3, <2>4 DEF Bounds
<1>7. Order'
  BY <1>1, <1>3, <1>4, Numbers DEF Order, RingInOrder, SentSoFar
<1> QED  BY <1>5, <1>6, <1>7 DEF IInv

(* The writer sends the packet he chose; refused, the ring is given up.       *)
LEMMA LaunchKeeps ==
  ASSUME IInv, Going, NEW next \in {"wait", "idle"}, Launch(next),
         \/ pc = "fulltransmit" /\ next = "wait"
         \/ pc = "transmit" /\ next = "idle"
  PROVE  IInv'
<1> USE SizeAssumption DEF Going
<1>1. /\ UNCHANGED <<tx_data, tx_write, tx_timeout, tx_size2, completion, state, listening,
                     USBD, control, suspended, tx_flush, accepted, async, handed, cuts>>
      /\ UNCHANGED <<size, room, at, blocking>>
      /\ pc' = next
  BY DEF Launch, Goto, asyncVars, portVars, deviceVars
<1>2. /\ ~tx_busy /\ ~tx_flush /\ at = tx_read /\ room = tx_size /\ left = 0
      /\ ~SendingRing /\ Live = tx_count /\ state # "INIT"
      /\ tx_size = 0 => tx_count = 0
  BY Numbers DEF Bounds, InTransmission, IdleForWriter, Closed, SendingRing, Live,
    Opening
<1>3. WireTypes /\ OtherTypes
  BY TypeParts DEF IInv
<1>4. CASE CanTransmit
  <2>1. /\ UNCHANGED <<tx_read, tx_count, tx_size, wire, sent>>
        /\ tx_busy' = TRUE /\ left' = tx_size /\ source' = [in |-> "ring", at |-> tx_read]
        /\ mishap' \in {"none", "overtaken"} /\ (Going' => tx_size # 0)
    <3>1. Count16(tx_size) = tx_size
      BY CountFits, Numbers
    <3> QED  BY <1>2, <1>4, <3>1 DEF Launch, Note, Transmit, Start, Ring
  <2>2. source'.in = "ring" /\ source'.at = tx_read /\ SendingRing' /\ Live' = Live
    BY <1>1, <1>2, <2>1 DEF SendingRing, Live
  <2>3. TypeOK'
    <3>1. tx_read \in 0..BufferSize /\ source'.at + left' <= BufferSize /\ tx_count' >= tx_size'
          /\ left' \in 0..Max({MaxWrite, PacketSize}) /\ tx_busy' \in BOOLEAN
      BY <2>1, <2>2, LeftFits, Numbers DEF Slot
    <3>2. source' \in Sources
      BY <2>1, <3>1, SourceFits
    <3>3. WireTypes'
      BY <1>1, <1>3, <2>1, <2>2, <3>1, <3>2 DEF WireTypes
    <3>4. OtherTypes'
      BY <1>1, <1>3, <2>1 DEF OtherTypes, Mishaps
    <3> QED  BY <3>3, <3>4, TypeParts
  <2>4. SUFFICES ASSUME Going' PROVE Bounds' /\ Order'
    BY <2>3 DEF IInv
  <2>5. RingFits' /\ IdleForWriter'
    BY <1>1, <2>1, <2>2, Numbers DEF Bounds, RingFits, IdleForWriter
  <2>6. InTransmission'
    <3>1. left' <= tx_size' /\ source'.at = tx_read' + (tx_size' - left')
      BY <2>1, <2>2, Numbers DEF Slot
    <3> QED  BY <1>1, <2>1, <2>2, <2>4, <3>1 DEF InTransmission
  <2>7. BufferHeld' /\ Closed'
    BY <1>1, <1>2, <2>1, Numbers DEF Bounds, BufferHeld, Closed, Opening
  <2>8. Order'
    <3>1. tx_size' - left' = 0
      BY <2>1, Numbers
    <3>2. sent = accepted - Live + 0
      BY <1>2, Numbers DEF Order, SentSoFar
    <3> QED  BY <1>1, <2>1, <2>2, <3>1, <3>2, Numbers DEF Order, RingInOrder, SentSoFar
  <2> QED  BY <2>5, <2>6, <2>7, <2>8 DEF Bounds
<1>5. CASE ~CanTransmit
  <2>1. /\ UNCHANGED <<tx_busy, source, left, mishap>>
        /\ tx_size' = 0 /\ tx_count' = 0 /\ tx_read' = tx_write
        /\ wire' = accepted /\ sent' = accepted
    BY <1>5 DEF Launch, Transmit, wireVars
  <2>2. ~SendingRing' /\ Live' = 0
    BY <1>1, <1>2, <2>1 DEF SendingRing, Live
  <2>3. TypeOK'
    <3>1. tx_read' \in Slot /\ tx_count' \in 0..BufferSize /\ wire' \in 0..MaxBytes
          /\ tx_size' \in 0..Min({BufferSize, PacketSize}) /\ tx_count' >= tx_size'
      BY <2>1, SizeFits, Numbers
    <3>2. WireTypes'
      BY <1>1, <1>3, <2>1, <3>1 DEF WireTypes
    <3>3. OtherTypes'
      BY <1>1, <1>3, <2>1, <3>1 DEF OtherTypes
    <3> QED  BY <3>2, <3>3, TypeParts
  <2>4. Wrap(tx_write + 0) = tx_write /\ tx_write \in 0..BufferSize - 1
    <3>1. tx_write \in 0..2 * BufferSize - 1 /\ tx_write < BufferSize
      BY Numbers DEF Slot
    <3> QED  BY <3>1, WrapOnce, Numbers DEF Slot
  <2>5. RingFits'
    BY <1>1, <2>1, <2>2, <2>4, Numbers DEF Bounds, RingFits
  <2>6. InTransmission'
    BY <1>1, <1>2, <2>1, <2>2 DEF InTransmission
  <2>7. IdleForWriter' /\ BufferHeld' /\ Closed'
    BY <1>1, <1>2, <2>1, Numbers DEF Bounds, IdleForWriter, BufferHeld, Closed
  <2>8. Order'
    BY <1>1, <2>1, <2>2, Numbers DEF Order, RingInOrder, SentSoFar
  <2> QED  BY <2>3, <2>5, <2>6, <2>7, <2>8 DEF IInv, Bounds
<1> QED  BY <1>4, <1>5

(* The writer copies behind what is in the ring, and overwrites none of it.   *)
LEMMA WriteCopyKeeps ==
  ASSUME IInv, Going, WriteCopy
  PROVE  IInv'
<1> USE SizeAssumption DEF Going
<1> DEFINE n == Min({room, BufferSize - tx_write, size})
<1>1. /\ UNCHANGED <<tx_read, tx_count, tx_size, tx_timeout, tx_size2, completion, state,
                     listening, USBD, control, suspended, tx_busy, source, left, tx_flush, at,
                     blocking, wire, sent, async, handed, cuts, mishap>>
      /\ pc = "copy" /\ pc' = "add" /\ room' = n /\ size' = size - n /\ accepted' = accepted + n
      /\ tx_write' = Wrap(tx_write + n)
      /\ tx_data' = [s \in Slot |-> IF s \in tx_write..tx_write + n - 1
                                    THEN accepted + 1 + (s - tx_write) ELSE tx_data[s]]
  BY DEF WriteCopy, asyncVars, portVars, deviceVars, wireVars, Wrap
<1>2. /\ tx_write \in Slot /\ tx_read \in Slot /\ tx_count \in 0..BufferSize
      /\ room \in 0..BufferSize /\ size \in 0..MaxWrite /\ accepted \in 0..MaxBytes
      /\ room <= BufferSize - tx_count /\ accepted + size <= MaxBytes
      /\ tx_data \in [Slot -> 0..MaxBytes]
  BY <1>1, Numbers DEF IInv, TypeOK, Bounds, RingFits
<1>3. n \in Nat /\ n <= room /\ n <= BufferSize - tx_write /\ n <= size
  <2>1. \A a, b, c \in Nat :
          LET m == Min({a, b, c}) IN m \in {a, b, c} /\ m <= a /\ m <= b /\ m <= c
    BY DEF Min
  <2>2. BufferSize - tx_write \in Nat /\ room \in Nat /\ size \in Nat
    BY <1>2 DEF Slot
  <2> QED  BY <2>1, <2>2
<1> HIDE DEF n
<1>4. Live = tx_count /\ Live' = tx_count + n /\ SendingRing' = SendingRing
  BY <1>1, <1>2 DEF Live, SendingRing
<1>5. tx_write = Wrap(tx_read + tx_count)
  BY <1>4, Numbers DEF Bounds, RingFits
<1>6. TypeOK'
  <2>1. tx_data' \in [Slot -> 0..MaxBytes]
    <3>1. \A s \in Slot : s \in tx_write..tx_write + n - 1 =>
                            accepted + 1 + (s - tx_write) \in 0..MaxBytes
      BY <1>2, <1>3 DEF Slot
    <3> QED  BY <1>1, <1>2, <3>1
  <2>2. Wrap(tx_write + n) \in Slot
    <3>1. tx_write + n \in 0..2 * BufferSize - 1
      BY <1>2, <1>3 DEF Slot
    <3> QED  BY <3>1, WrapOnce
  <2>3. accepted + n \in 0..MaxBytes /\ size - n \in 0..MaxWrite /\ n \in 0..BufferSize
    BY <1>2, <1>3
  <2>4. WireTypes /\ OtherTypes
    BY TypeParts DEF IInv
  <2>5. WireTypes'
    BY <1>1, <2>4 DEF WireTypes
  <2>6. OtherTypes'
    BY <1>1, <2>1, <2>2, <2>3, <2>4 DEF OtherTypes
  <2> QED  BY <2>5, <2>6, TypeParts
<1>7. Bounds'
  <2>1. Wrap(tx_write + n) = Wrap(tx_read + (tx_count + n))
    BY <1>2, <1>3, <1>5, WrapSum
  <2>2. RingFits'
    BY <1>1, <1>2, <1>3, <1>4, <2>1, Numbers DEF Bounds, RingFits
  <2>3. InTransmission' /\ IdleForWriter' /\ BufferHeld' /\ Closed'
    BY <1>1, <1>4, Numbers DEF Bounds, InTransmission, IdleForWriter, BufferHeld, Closed,
      Opening
  <2> QED  BY <2>2, <2>3 DEF Bounds
<1>8. SentSoFar'
  BY <1>1, <1>2, <1>3, <1>4, Numbers DEF Order, SentSoFar
<1>9. RingInOrder'
  <2> SUFFICES ASSUME NEW i \in 0..Live' - 1
               PROVE  tx_data'[Wrap(tx_read' + i)] = accepted' - Live' + 1 + i
    BY DEF RingInOrder
  <2>1. i \in Slot /\ tx_read + i \in 0..2 * BufferSize - 1
    BY <1>2, <1>3, <1>4 DEF Slot
  <2>2. Wrap(tx_read + i) \in Slot
    BY <2>1, WrapOnce
  <2>3. CASE i < tx_count
    <3>1. ASSUME NEW m \in 0..n - 1 PROVE Wrap(tx_read + i) # tx_write + m
      <4>1. /\ tx_count + m \in Slot /\ i < tx_count + m
            /\ tx_count + m <= BufferSize /\ m \in 0..BufferSize
        BY <1>2, <1>3, <2>3 DEF Slot
      <4>2. Wrap(tx_read + i) # Wrap(tx_read + (tx_count + m))
        BY <1>2, <2>1, <4>1, WrapDiffers
      <4>3. Wrap(tx_write + m) = Wrap(tx_read + (tx_count + m))
        BY <1>2, <1>5, <4>1, WrapSum
      <4>4. tx_write + m \in 0..2 * BufferSize - 1 /\ tx_write + m < BufferSize
        BY <1>2, <1>3 DEF Slot
      <4>5. Wrap(tx_write + m) = tx_write + m
        BY <4>4, WrapOnce
      <4> QED  BY <4>2, <4>3, <4>5
    <3>2. Wrap(tx_read + i) \notin tx_write..tx_write + n - 1
      <4>1. \A s \in tx_write..tx_write + n - 1 :
              s - tx_write \in 0..n - 1 /\ s = tx_write + (s - tx_write)
        BY <1>2, <1>3 DEF Slot
      <4> QED  BY <3>1, <4>1
    <3>3. tx_data'[Wrap(tx_read' + i)] = tx_data[Wrap(tx_read + i)]
      BY <1>1, <2>2, <3>2
    <3>4. tx_data[Wrap(tx_read + i)] = accepted - Live + 1 + i
      BY <1>2, <1>4, <2>3, Numbers DEF Order, RingInOrder
    <3> QED  BY <1>1, <1>2, <1>3, <1>4, <3>3, <3>4
  <2>4. CASE i >= tx_count
    <3> DEFINE m == i - tx_count
    <3>1. m \in 0..n - 1 /\ m \in 0..BufferSize /\ tx_count + m = i /\ tx_count + m <= BufferSize
      BY <1>2, <1>3, <1>4, <2>1, <2>4 DEF Slot
    <3> HIDE DEF m
    <3>2. Wrap(tx_write + m) = Wrap(tx_read + i)
      BY <1>2, <1>5, <3>1, WrapSum
    <3>3. tx_write + m \in 0..2 * BufferSize - 1 /\ tx_write + m < BufferSize
      BY <1>2, <1>3, <3>1 DEF Slot
    <3>4. Wrap(tx_read + i) = tx_write + m
      BY <3>2, <3>3, WrapOnce
    <3>5. /\ tx_write + m \in tx_write..tx_write + n - 1 /\ tx_write + m \in Slot
          /\ (tx_write + m) - tx_write = m
      BY <1>2, <1>3, <3>1, <3>3 DEF Slot
    <3>6. tx_data'[Wrap(tx_read' + i)] = accepted + 1 + m
      BY <1>1, <3>4, <3>5
    <3> QED  BY <1>1, <1>2, <1>3, <1>4, <3>1, <3>6
  <2> QED  BY <1>2, <2>1, <2>3, <2>4 DEF Slot
<1> QED  BY <1>6, <1>7, <1>8, <1>9 DEF IInv, Order

(* The copied bytes are counted.                                             *)
LEMMA WriteAddKeeps ==
  ASSUME IInv, Going, WriteAdd
  PROVE  IInv'
<1> USE SizeAssumption DEF Going
<1>1. /\ UNCHANGED <<tx_data, tx_read, tx_write, tx_size, tx_timeout, tx_size2, completion,
                     state, listening, USBD, control, suspended, tx_busy, source, left, tx_flush,
                     accepted, wire, sent, async, handed, cuts, mishap>>
      /\ UNCHANGED <<size, room, at, blocking>>
      /\ pc = "add" /\ pc' \in {"kick", "room"} /\ tx_count' = tx_count + room
  BY DEF WriteAdd, Goto, asyncVars, portVars, deviceVars, wireVars, history
<1>2. Live = tx_count + room /\ Live' = Live /\ SendingRing' = SendingRing
  BY <1>1, Numbers DEF Live, SendingRing
<1>3. tx_count' \in 0..BufferSize /\ tx_count' >= tx_size
  BY <1>1, <1>2, Numbers
<1>4. TypeOK'
  <2>1. WireTypes /\ OtherTypes
    BY TypeParts DEF IInv
  <2>2. WireTypes' /\ OtherTypes'
    BY <1>1, <1>3, <2>1 DEF WireTypes, OtherTypes
  <2> QED  BY <2>2, TypeParts
<1>5. Bounds'
  BY <1>1, <1>2, <1>3, Numbers DEF Bounds, RingFits, InTransmission, IdleForWriter,
                                    Closed, BufferHeld, Opening
<1>6. Order'
  BY <1>1, <1>2, Numbers DEF Order, RingInOrder, SentSoFar
<1> QED  BY <1>4, <1>5, <1>6 DEF IInv

(* A buffer is handed over.                                                 *)
LEMMA AsyncWriteKeeps ==
  ASSUME IInv, Going, NEW n \in 1..MaxWrite, AsyncWrite(n)
  PROVE  IInv'
<1> USE SizeAssumption DEF Going
<1>1. /\ UNCHANGED <<tx_data, tx_read, tx_write, tx_count, tx_size, tx_timeout, state, listening,
                     USBD, control, suspended, tx_busy, source, left, tx_flush, accepted, wire,
                     sent, handed, cuts, mishap>>
      /\ UNCHANGED <<size, room, at, blocking>>
      /\ pc = "idle" /\ pc' = "asyncdone" /\ state = "READY" /\ tx_size2 = 0
      /\ async < MaxAsync /\ async' = async + 1 /\ completion' = TRUE /\ tx_size2' = n
  BY DEF AsyncWrite, Goto, ringVars, portVars, deviceVars, wireVars
<1>2. async \in Nat /\ completion = FALSE /\ n # 0 /\ handed = async
  BY <1>1, Numbers DEF IInv, TypeOK, Bounds, BufferHeld
<1>3. Live' = Live /\ SendingRing' = SendingRing
  BY <1>1, Numbers DEF Live, SendingRing
<1>4. TypeOK'
  <2>1. WireTypes /\ OtherTypes
    BY TypeParts DEF IInv
  <2>2. WireTypes'
    BY <1>1, <2>1 DEF WireTypes
  <2>3. async' \in 0..MaxAsync /\ tx_size2' \in 0..MaxWrite
    BY <1>1, <1>2
  <2>4. OtherTypes'
    BY <1>1, <2>1, <2>3 DEF OtherTypes
  <2> QED  BY <2>2, <2>4, TypeParts
<1>5. Bounds'
  <2>1. RingFits' /\ InTransmission' /\ IdleForWriter' /\ Closed'
    BY <1>1, <1>3, Numbers DEF Bounds, RingFits, InTransmission, IdleForWriter, Closed, Opening
  <2>2. BufferHeld'
    BY <1>1, <1>2 DEF BufferHeld
  <2> QED  BY <2>1, <2>2 DEF Bounds
<1>6. Order'
  BY <1>1, <1>3, Numbers DEF Order, RingInOrder, SentSoFar
<1> QED  BY <1>4, <1>5, <1>6 DEF IInv

(* The buffer is started, or refused.                                       *)
LEMMA AsyncSendKeeps ==
  ASSUME IInv, Going, AsyncSend
  PROVE  IInv'
<1> USE SizeAssumption DEF Going
<1>1. /\ UNCHANGED <<tx_data, tx_read, tx_write, tx_count, tx_size, tx_timeout, completion, state,
                     listening, USBD, control, suspended, tx_flush, accepted, wire,
                     sent, async, handed, cuts>>
      /\ UNCHANGED <<size, room, at, blocking>>
      /\ pc = "asyncsend" /\ pc' = "idle"
  BY DEF AsyncSend, Goto, ringVars, portVars, deviceVars
<1>2. WireTypes /\ OtherTypes /\ tx_size2 \in 0..MaxWrite
  BY TypeParts DEF IInv, OtherTypes
<1>3. CASE CanTransmit
  <2>1. /\ tx_busy' = TRUE /\ left' = Count16(tx_size2) /\ source' = Buffer
        /\ tx_size2' = tx_size2 /\ mishap' \in {"none", "overtaken"} /\ ~tx_busy
        /\ state = "READY" /\ (Going' => tx_size2 # 0)
    BY <1>3 DEF AsyncSend, Transmit, Start, CanTransmit
  <2>2. /\ source'.in = "buffer" /\ source'.at = 0 /\ source' \in Sources
        /\ ~SendingRing /\ ~SendingRing' /\ Live' = Live /\ tx_size = 0
        /\ left' \in Nat /\ left' <= MaxWrite
    <3>1. source'.in = "buffer" /\ source'.at = 0 /\ source' \in Sources
      BY <2>1, SourceFits
    <3>2. left' \in Nat /\ left' <= MaxWrite
      BY <1>2, <2>1, CountFits
    <3> QED  BY <1>1, <2>1, <3>1, <3>2, Numbers DEF SendingRing, Live, Bounds, InTransmission
  <2>3. TypeOK'
    <3>1. left' \in 0..Max({MaxWrite, PacketSize}) /\ tx_busy' \in BOOLEAN
          /\ source'.at + left' <= MaxWrite
      BY <1>2, <2>1, <2>2, LeftFits
    <3>2. WireTypes'
      BY <1>1, <1>2, <2>1, <2>2, <3>1, Numbers DEF WireTypes
    <3>3. OtherTypes'
      BY <1>1, <1>2, <2>1 DEF OtherTypes, Mishaps
    <3> QED  BY <3>2, <3>3, TypeParts
  <2>4. ASSUME Going' PROVE Bounds'
    <3>1. tx_size2 # 0 /\ source'.at + left' = Count16(tx_size2)
      BY <2>1, <2>2, <2>4
    <3>2. InTransmission'
      BY <1>1, <2>1, <2>2, <3>1, Numbers DEF Bounds, InTransmission
    <3> QED
      BY <1>1, <2>1, <2>2, <3>2, Numbers DEF Bounds, RingFits, IdleForWriter, Closed, BufferHeld,
        Opening
  <2>5. Order'
    BY <1>1, <2>2, Numbers DEF Order, RingInOrder, SentSoFar
  <2> QED  BY <2>3, <2>4, <2>5 DEF IInv
<1>4. CASE ~CanTransmit
  <2>1. UNCHANGED <<tx_busy, source, left>> /\ tx_size2' = 0 /\ mishap' = "orphaned"
    BY <1>4 DEF AsyncSend, Transmit, wireVars
  <2>2. WireTypes'
    BY <1>1, <1>2, <2>1 DEF WireTypes
  <2>3. OtherTypes'
    BY <1>1, <1>2, <2>1 DEF OtherTypes, Mishaps
  <2> QED  BY <2>1, <2>2, <2>3, TypeParts DEF IInv
<1> QED  BY <1>3, <1>4

-----------------------------------------------------------------------------
LEMMA NextKeeps == IInv /\ [Next]_vars => IInv'
<1> SUFFICES ASSUME IInv, [Next]_vars PROVE IInv'
  OBVIOUS
<1>1. CASE UNCHANGED vars
  <2>1. /\ UNCHANGED <<ringVars, asyncVars, portVars, deviceVars, wireVars, tx_flush>>
        /\ UNCHANGED <<writerVars, history>>
    BY <1>1 DEF vars
  <2>2. /\ UNCHANGED <<tx_data, tx_read, tx_write, tx_count, tx_size, tx_timeout, tx_size2,
                       completion, state, listening, USBD, control, suspended, tx_busy, source,
                       left, tx_flush, accepted, wire, sent, async, handed, cuts, mishap>>
        /\ UNCHANGED <<pc, size, room, at, blocking>>
    BY <2>1 DEF ringVars, asyncVars, portVars, deviceVars, wireVars, writerVars, history
  <2>3. Live' = Live /\ SendingRing' = SendingRing
    BY <2>2 DEF Live, SendingRing
  <2>4. TypeOK'
    BY <2>2 DEF IInv, TypeOK
  <2>5. ASSUME Going' PROVE Bounds' /\ Order'
    BY <2>2, <2>3, <2>5 DEF IInv, Going, Bounds, RingFits, InTransmission, IdleForWriter, Closed,
      BufferHeld, Order, RingInOrder, SentSoFar
  <2> QED  BY <2>4, <2>5 DEF IInv
<1>2. ASSUME Next PROVE IInv'
  <2>1. Going
    BY <1>2 DEF Next
  <2>2. CASE Look
    BY <2>1, <2>2, LookKeeps
  <2>3. CASE Turn
    BY <2>1, <2>3, TurnKeeps
  <2>4. CASE Suspend \/ Deinit
    BY <2>1, <2>4, CutKeeps
  <2>5. CASE WriteFullSend \/ (WriteSend /\ ~(tx_count < PacketSmall))
    <3>1. tx_count \in Nat /\ PacketSmall \in Nat
      BY <2>1, Numbers, SizeAssumption
    <3>2. \/ pc = "fullsend" /\ Choose("fulltransmit")
          \/ pc = "send" /\ tx_count >= PacketSmall /\ Choose("transmit")
      BY <2>5, <3>1 DEF WriteFullSend, WriteSend
    <3> QED  BY <2>1, <3>2, ChooseKeeps
  <2>6. CASE WriteFullTransmit \/ WriteTransmit
    BY <2>1, <2>6, LaunchKeeps DEF WriteFullTransmit, WriteTransmit
  <2>7. CASE WriteCopy
    BY <2>1, <2>7, WriteCopyKeeps
  <2>8. CASE WriteAdd
    BY <2>1, <2>8, WriteAddKeeps
  <2>9. CASE \E n \in 1..MaxWrite : AsyncWrite(n)
    BY <2>1, <2>9, AsyncWriteKeeps
  <2>10. CASE AsyncSend
    BY <2>1, <2>10, AsyncSendKeeps
  <2>11. CASE SendByte
    BY <2>1, <2>11, SendByteKeeps
  <2>12. CASE TxDone
    BY <2>1, <2>12, TxDoneKeeps
  <2>13. CASE Sof
    BY <2>1, <2>13, SofKeeps
  <2> QED
    BY <1>2, <2>2, <2>3, <2>4, <2>5, <2>6, <2>7, <2>8, <2>9, <2>10, <2>11, <2>12, <2>13
    DEF Next, Writing, Host, Look, Turn
<1> QED  BY <1>1, <1>2

(* The inductive invariant: ring, packet, writer and host agree as long as no   *)
(* mishap ends the run.                                                      *)
THEOREM Invariance == Spec => []IInv
<1>1. IInv /\ [Next]_vars => IInv'
  BY NextKeeps
<1> QED  BY InitInv, <1>1, PTL DEF Spec

(* The counts and indices stay in their bounds, in every state, for every size  *)
(* of ring, packet and write.                                                *)
THEOREM TypeCorrect == Spec => []TypeOK
<1>1. IInv => TypeOK
  BY DEF IInv
<1> QED  BY Invariance, <1>1, PTL

(* The host gets the bytes of the ring once and in order, whoever starts the    *)
(* transmission and however often it is suspended or disconnected.            *)
THEOREM BytesInOrder == Spec => []InOrder
<1>1. IInv => InOrder
  <2> SUFFICES ASSUME IInv, Going PROVE wire = sent /\ sent <= accepted
    BY DEF InOrder, Going
  <2> QED  BY Numbers DEF Order, SentSoFar
<1> QED  BY Invariance, <1>1, PTL

(* _tx_size tells the end of a packet of the ring from that of the buffer.      *)
THEOREM SizeTellsWhich == Spec => []SizeInFlight
<1>1. IInv => SizeInFlight
  BY DEF IInv, Going, Bounds, InTransmission, SendingRing, SizeInFlight
<1> QED  BY Invariance, <1>1, PTL

(* The callback is handed on when all of its buffer was sent, or the host has    *)
(* gone, unless the buffer is longer than 16 bits count.                      *)
THEOREM CallbacksAfterData == Spec => CallbackAfterData
<1>1. IInv /\ [Next]_vars =>
        [mishap = "none" /\ handed' # handed =>
           \/ source.in = "buffer" /\ tx_busy /\ source.at = tx_size2
           \/ state' # "READY"
           \/ tx_size2 >= HalfWord]_vars
  <2> SUFFICES ASSUME IInv, Next, handed' # handed
               PROVE  \/ source.in = "buffer" /\ tx_busy /\ source.at = tx_size2
                      \/ state' # "READY"
                      \/ tx_size2 >= HalfWord
    OBVIOUS
  <2>1. Going
    BY DEF Next
  <2>2. TxDone \/ Suspend \/ Deinit
    BY DEF Next, Writing, Host, Write, AsyncWrite, Flush, Begin, WriteBegin, WriteRoom, WriteFull,
      WriteFullSend, WriteFullTransmit, WriteWait, WriteCopy, WriteAdd, WriteKick, WriteSend,
      WriteTransmit, Choose, Launch, AsyncDone, AsyncSend, FlushDone, Notify, End, Begun, SendByte, Sof,
      Resume, Enumerate, Control, history
  <2>3. CASE Suspend \/ Deinit
    BY <2>3 DEF Suspend, Deinit
  <2>4. CASE TxDone
    <3>1. tx_busy /\ left = 0 /\ ~tx_flush /\ tx_size = 0
      BY <2>4 DEF TxDone, Transmitted, PacketSent, BufferEnded
    <3>2. source.in # "ring"
      BY <2>1, <3>1, Numbers DEF Bounds, InTransmission, SendingRing
    <3>3. source.in = "buffer" /\ source.at \in Nat /\ tx_size2 \in Nat /\ HalfWord \in Nat
      BY <3>2, SourceFits, SizeAssumption DEF IInv, TypeOK
    <3>4. source.at + left = Count16(tx_size2)
      BY <2>1, <3>1, <3>3, Numbers DEF Bounds, InTransmission
    <3>5. ~(tx_size2 >= HalfWord) => source.at = tx_size2
      BY <3>1, <3>3, <3>4, CountFits
    <3> QED  BY <3>1, <3>3, <3>5
  <2> QED  BY <2>2, <2>3, <2>4
<1> QED  BY Invariance, <1>1, PTL DEF Spec, CallbackAfterData

=============================================================================
