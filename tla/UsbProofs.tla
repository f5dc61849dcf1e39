------------------------------ MODULE UsbProofs ------------------------------
(***************************************************************************)
(* Proofs about two functions of the USB device, for every size and number.  *)
(*                                                                         *)
(* CdcRx, bytes from the host: those received and not yet read lie in the     *)
(* ring in one piece, or in two with the end of this turn between them        *)
(* (RingFits), each in its slot (BytesInPlace); the reader's stale copies of   *)
(* rx_count and rx_wrap still name bytes that are there (ReaderFits); and     *)
(* where a packet may come there is room for it (RoomWhereArmed).  The types   *)
(* are proved in every state; the rest as long as the run goes on.            *)
(*                                                                         *)
(* MassStorage, the medium the host and the sketch share: VOLUME excludes      *)
(* SCSI and MEDIUM (VolumeAlone); a call holds VOLUME, and so does what it     *)
(* has read of the lock (HeldByCall); a transfer holds SCSI                   *)
(* (HeldByTransfer).  The transport keeps its endpoints in step with          *)
(* bot_state (InStep), so a packet can only come for the command that took    *)
(* the lock.  A change the host has not seen stays in MODIFIED, or is about    *)
(* to be put there (Remembered).                                            *)
(***************************************************************************)
EXTENDS CdcRx, MassStorage, TLAPS
-----------------------------------------------------------------------------
(* CdcRx.                                                                  *)

(* The bytes received and not yet read.                                     *)
Unread == received - taken

(* They lie in one piece, or in two: up to the end of this turn, and on from   *)
(* the start of the ring.                                                   *)
Straight == rx_read + Unread = rx_write
Wrapped ==
  /\ rx_read + Unread = rx_wrap + rx_write
  /\ rx_read < rx_wrap /\ rx_write <= rx_read

(* The bytes the reader has taken and not yet counted off.                   *)
Uncounted == CASE pc \in {"unwrap", "sub"} -> part
               [] pc = "subrest" -> total - part
               [] OTHER -> 0

RingFits ==
  /\ Unread >= 0
  /\ Straight \/ Wrapped
  /\ rx_count = Unread + Uncounted
  /\ rx_count <= rx_wrap
  /\ Straight /\ pc # "unwrap" /\ state # "INIT" => rx_wrap = Size

(* What the reader will take is there, in one piece.                        *)
ReaderFits ==
  /\ pc \in {"wrap", "copy"} => total <= Unread
  /\ pc \in {"copy", "unwrap", "sub", "copyrest", "subrest"} => part <= total
  /\ pc = "copy" =>
       /\ part < total => rx_read + part = wrap
       /\ rx_read + part = wrap => Wrapped /\ wrap = rx_wrap
       /\ Wrapped => rx_read + part <= rx_wrap /\ (rx_read + part = rx_wrap => wrap = rx_wrap)
  /\ pc = "unwrap" => Straight /\ rx_read = 0 /\ part >= 1
  /\ pc \in {"unwrap", "sub", "copyrest"} =>
       /\ total - part <= Unread
       /\ part < total /\ Wrapped => rx_read + (total - part) < rx_wrap

(* Where a packet may come there is room for it.                            *)
RoomWhereArmed ==
  /\ armed # None /\ state # "INIT" =>
       /\ rx_count + MaxPacket <= rx_wrap
       /\ armed # rx_write => Unread = 0
  /\ pc = "arm" => rx_count + MaxPacket <= rx_wrap
  /\ state = "INIT" => pc \in {"idle"} \cup Opening /\ Unread = 0 /\ rx_read = 0 /\ rx_write = 0
  /\ pc \in Opening => state = "INIT" /\ rx_wrap = Size

Holds(s) == IF Straight THEN rx_read <= s /\ s < rx_write
                        ELSE (rx_read <= s /\ s < rx_wrap) \/ s < rx_write
Place(s) == IF rx_read <= s THEN s - rx_read ELSE rx_wrap - rx_read + s

(* A slot has its unread byte, or one that was read.                        *)
BytesInPlace ==
  /\ ordered
  /\ \A s \in Slot : IF Holds(s) THEN rx_data[s] = taken + 1 + Place(s)
                                ELSE rx_data[s] <= taken

IInv ==
  /\ TypeOK
  /\ Going => RingFits /\ ReaderFits /\ RoomWhereArmed /\ BytesInPlace

-----------------------------------------------------------------------------
(* TypeOK in two parts: what a packet or a read moves, and the rest.         *)
RingTypes ==
  /\ rx_data \in [Slot -> 0..MaxBytes]
  /\ rx_read \in 0..Size /\ rx_write \in 0..Size - MaxPacket
  /\ rx_wrap \in 0..Size /\ rx_count \in 0..Size
  /\ armed \in (0..Size - MaxPacket) \cup {Null, None}
  /\ RxBuffer \in (0..Size - MaxPacket) \cup {Null}
  /\ received \in 0..MaxBytes /\ taken \in 0..MaxBytes
  /\ total \in 0..MaxRead /\ part \in 0..MaxRead /\ wrap \in 0..Size

OtherTypes ==
  /\ rx_busy \in BOOLEAN
  /\ state \in {"INIT", "READY", "RESET"} /\ USBD \in BOOLEAN /\ control \in BOOLEAN
  /\ pc \in {"idle", "wrap", "copy", "unwrap", "sub", "copyrest", "subrest", "check",
             "room", "arm", "busy"} \cup Opening
  /\ ordered \in BOOLEAN
  /\ cuts \in 0..MaxCuts /\ mishap \in Mishaps \cup {"none"}

LEMMA TypeParts == (TypeOK <=> RingTypes /\ OtherTypes) /\ (TypeOK' <=> RingTypes' /\ OtherTypes')
BY Zenon DEF TypeOK, RingTypes, OtherTypes

(* What the lemmas below count with.                                        *)
LEMMA Numbers ==
  ASSUME IInv, Going
  PROVE  /\ Size \in Nat /\ MaxPacket \in Nat \ {0} /\ Size >= MaxPacket
         /\ MaxRead \in Nat /\ MaxBytes \in Nat /\ MaxCuts \in Nat
         /\ rx_read \in Nat /\ rx_read <= Size
         /\ rx_write \in Nat /\ rx_write + MaxPacket <= Size
         /\ rx_wrap \in Nat /\ rx_wrap <= Size /\ rx_count \in Nat /\ rx_count <= Size
         /\ total \in Nat /\ part \in Nat /\ wrap \in Nat
         /\ total <= MaxRead /\ part <= MaxRead /\ wrap <= Size
         /\ received \in Nat /\ received <= MaxBytes /\ taken \in Nat /\ taken <= received
         /\ Unread \in Nat /\ Unread = received - taken
         /\ RingFits /\ ReaderFits /\ RoomWhereArmed /\ BytesInPlace
         /\ RingTypes /\ OtherTypes
<1>1. RingTypes /\ OtherTypes /\ RingFits /\ ReaderFits /\ RoomWhereArmed /\ BytesInPlace
  BY TypeParts DEF IInv
<1> QED  BY <1>1, SizeAssumption DEF RingTypes, RingFits, Unread

(* Room says that a packet fits, as long as the count is below the wrap.      *)
LEMMA RoomFits ==
  \A w \in Nat, count \in Nat : count <= w /\ Room(w, count) => count + MaxPacket <= w
BY SizeAssumption DEF Room

LEMMA MinOfTwo ==
  \A a, b \in Nat : Min({a, b}) \in Nat /\ Min({a, b}) <= a /\ Min({a, b}) <= b
                    /\ Min({a, b}) \in {a, b}
<1>1. \A a, b \in Nat :
        LET m == Min({a, b}) IN m \in {a, b} /\ m <= a /\ m <= b
  BY DEF Min
<1> QED  BY <1>1

(* The unread bytes lie in one piece or in two, never in both ways; and they  *)
(* leave no slot of the ring behind.                                        *)
LEMMA Pieces ==
  ASSUME IInv, Going
  PROVE  /\ ~(Straight /\ Wrapped)
         /\ state # "INIT" => rx_read <= rx_wrap
         /\ \A s \in Slot : Holds(s) => Place(s) \in Nat /\ Place(s) < Unread
<1> USE Numbers
<1>1. ~(Straight /\ Wrapped)
  BY DEF Straight, Wrapped
<1>2. Straight \/ Wrapped
  BY DEF RingFits
<1>3. state # "INIT" => rx_read <= rx_wrap
  <2>1. CASE Straight /\ pc # "unwrap"
    BY <2>1 DEF Straight, RingFits
  <2>2. CASE Straight /\ pc = "unwrap"
    BY <2>2 DEF Straight, ReaderFits
  <2>3. CASE Wrapped
    BY <2>3 DEF Wrapped
  <2> QED  BY <1>2, <2>1, <2>2, <2>3
<1>4. ASSUME NEW s \in Slot, Holds(s)
      PROVE  Place(s) \in Nat /\ Place(s) < Unread
  <2>1. CASE Straight
    BY <1>4, <2>1 DEF Straight, Holds, Place, Slot
  <2>2. CASE Wrapped
    BY <1>1, <1>4, <2>2 DEF Wrapped, Holds, Place, Slot
  <2> QED  BY <1>2, <2>1, <2>2
<1> QED  BY <1>1, <1>3, <1>4

(* No slot has a byte that was not received.                                *)
LEMMA DataReceived ==
  ASSUME IInv, Going
  PROVE  \A s \in Slot : rx_data[s] \in Nat /\ rx_data[s] <= received
<1> USE Numbers
<1> TAKE s \in Slot
<1>1. rx_data[s] \in Nat
  BY DEF RingTypes
<1>2. CASE Holds(s)
  BY <1>2, Pieces DEF BytesInPlace
<1>3. CASE ~Holds(s)
  BY <1>1, <1>3 DEF BytesInPlace
<1> QED  BY <1>1, <1>2, <1>3

(* The next m bytes are there, from rx_read on.                              *)
LEMMA NextBytes ==
  ASSUME IInv, Going, NEW m \in Nat, m <= Unread, Wrapped => rx_read + m <= rx_wrap
  PROVE  \A i \in 0..m - 1 : rx_read + i \in Slot /\ rx_data[rx_read + i] = taken + 1 + i
<1> USE Numbers
<1> TAKE i \in 0..m - 1
<1>1. Straight \/ Wrapped
  BY DEF RingFits
<1>2. /\ rx_read + i \in Slot /\ Holds(rx_read + i)
      /\ Place(rx_read + i) = i
  <2>1. CASE Straight
    BY <2>1 DEF Straight, Holds, Place, Slot
  <2>2. CASE Wrapped
    BY <2>2, Pieces DEF Wrapped, Holds, Place, Slot
  <2> QED  BY <1>1, <2>1, <2>2
<1> DEFINE s == rx_read + i
<1>3. rx_data[s] = taken + 1 + Place(s)
  BY <1>2 DEF BytesInPlace
<1> QED  BY <1>2, <1>3

-----------------------------------------------------------------------------
LEMMA InitInv == Init => IInv
<1> SUFFICES ASSUME Init PROVE IInv
  OBVIOUS
<1> USE SizeAssumption DEF Init
<1>1. RingTypes
  <2>1. rx_data \in [Slot -> 0..MaxBytes]
    BY DEF Slot
  <2>2. 0 \in 0..Size /\ 0 \in 0..Size - MaxPacket /\ 0 \in 0..MaxBytes /\ 0 \in 0..MaxRead
    OBVIOUS
  <2> QED  BY <2>1, <2>2 DEF RingTypes
<1>2. OtherTypes
  <2>1. 0 \in 0..MaxCuts
    OBVIOUS
  <2>2. ordered \in BOOLEAN
    BY Zenon
  <2>3. rx_busy \in BOOLEAN /\ USBD \in BOOLEAN /\ control \in BOOLEAN
    OBVIOUS
  <2> QED  BY <2>1, <2>2, <2>3 DEF OtherTypes
<1>3. Unread = 0 /\ Straight
  BY DEF Unread, Straight
<1>4. RingFits
  BY <1>3 DEF RingFits, Uncounted
<1>5. ReaderFits
  BY DEF ReaderFits
<1>6. RoomWhereArmed
  BY <1>3 DEF RoomWhereArmed, Opening
<1>7. BytesInPlace
  BY <1>3 DEF BytesInPlace, Holds, Slot
<1> QED  BY <1>1, <1>2, <1>4, <1>5, <1>6, <1>7, TypeParts DEF IInv

(* The steps that leave the ring alone: of the host, and of the reader when   *)
(* he looks, and when he arms the endpoint.                                  *)
Look ==
  \/ Enumerate \/ Deinit \/ Control
  \/ \E n \in 1..MaxRead : Read(n)
  \/ ReadWrap \/ ReadCheck \/ ReadRoom \/ Arm \/ Busy

LEMMA LookKeeps ==
  ASSUME IInv, Going, Look
  PROVE  IInv'
<1> USE Numbers
<1> USE DEF Enumerate, Deinit, Control, Read, ReadWrap, ReadCheck, ReadRoom, Arm, Busy, Goto
<1>1. /\ UNCHANGED ringVars /\ UNCHANGED byteVars
  BY DEF Look
<1>2. /\ UNCHANGED <<rx_data, rx_read, rx_write, rx_wrap, rx_count, received, taken, ordered>>
      /\ Unread' = Unread /\ Straight' = Straight /\ Wrapped' = Wrapped
  BY <1>1 DEF ringVars, byteVars, Unread, Straight, Wrapped
<1>3. /\ armed' \in {armed, RxBuffer, None, rx_write}
      /\ RxBuffer' \in {RxBuffer, rx_write}
      /\ total' \in 0..MaxRead /\ part' \in 0..MaxRead /\ wrap' \in 0..Size
  <2>1. CASE \E n \in 1..MaxRead : Read(n)
    <3>1. PICK n \in 1..MaxRead : Read(n)
      BY <2>1
    <3> QED  BY <3>1, MinOfTwo DEF endpointVars, RingTypes
  <2>2. CASE ReadWrap
    <3>1. rx_wrap - rx_read \in Nat
      BY <2>2, Pieces DEF RoomWhereArmed
    <3>2. part' = Min({total, rx_wrap - rx_read})
      BY <2>2
    <3>3. part' \in Nat /\ part' <= total
      BY <3>1, <3>2, MinOfTwo
    <3>4. /\ armed' = armed /\ RxBuffer' = RxBuffer
          /\ total' = total /\ wrap' = rx_wrap
      BY <2>2 DEF endpointVars
    <3> QED  BY <3>3, <3>4 DEF RingTypes
  <2>3. CASE Look /\ ~ReadWrap /\ ~\E n \in 1..MaxRead : Read(n)
    BY <2>3 DEF Look, endpointVars, readerVars, RingTypes
  <2> QED  BY <2>1, <2>2, <2>3
<1>4. RingTypes'
  BY <1>2, <1>3 DEF RingTypes, None
<1>5. OtherTypes'
  <2>1. /\ rx_busy' \in BOOLEAN /\ USBD' \in BOOLEAN /\ control' \in BOOLEAN
    BY DEF Look, OtherTypes, deviceVars, endpointVars
  <2>2. state' \in {"INIT", "READY", "RESET"}
    BY DEF Look, OtherTypes, deviceVars
  <2>3. cuts' = cuts \/ (cuts < MaxCuts /\ cuts' = cuts + 1)
    BY DEF Look
  <2>4. cuts' \in 0..MaxCuts
    BY <2>3 DEF OtherTypes
  <2>5. pc' \in {"idle", "wrap", "copy", "unwrap", "sub", "copyrest", "subrest", "check",
                 "room", "arm", "busy"} \cup Opening
    BY DEF Look, OtherTypes, readerVars
  <2>6. mishap' \in Mishaps \cup {"none"}
    BY DEF Look, OtherTypes, Note, Mishaps
  <2> QED  BY <1>2, <2>1, <2>2, <2>4, <2>5, <2>6 DEF OtherTypes
<1> SUFFICES ASSUME Going'
             PROVE  RingFits' /\ ReaderFits' /\ RoomWhereArmed' /\ BytesInPlace'
  BY <1>4, <1>5, TypeParts DEF IInv
<1>6. state = "INIT" <=> state' = "INIT"
  BY DEF Look, Going, Note, deviceVars
<1>7. RingFits'
  <2>1. (Uncounted = 0 /\ Uncounted' = 0) \/ UNCHANGED <<pc, total, part>>
    BY DEF Look, Uncounted, readerVars
  <2>2. Uncounted' = Uncounted
    BY <2>1 DEF Uncounted
  <2>3. pc = "unwrap" => pc' = "unwrap"
    BY DEF Look, readerVars
  <2> QED  BY <1>2, <1>6, <2>2, <2>3 DEF RingFits
<1>8. ReaderFits'
  <2>1. CASE \E n \in 1..MaxRead : Read(n)
    <3>1. PICK n \in 1..MaxRead : Read(n)
      BY <2>1
    <3>2. total' = Min({n, rx_count}) /\ pc' = "wrap" /\ pc = "idle"
      BY <3>1
    <3>3. total' <= rx_count
      BY <3>2, MinOfTwo
    <3>4. rx_count = Unread
      BY <3>2 DEF RingFits, Uncounted
    <3> QED  BY <1>2, <3>2, <3>3, <3>4 DEF ReaderFits
  <2>2. CASE ReadWrap
    <3>1. rx_wrap - rx_read \in Nat
      BY <2>2, Pieces DEF RoomWhereArmed
    <3>2. /\ part' = Min({total, rx_wrap - rx_read}) /\ total' = total
          /\ wrap' = rx_wrap /\ pc' = "copy" /\ pc = "wrap" /\ state # "INIT"
      BY <2>2 DEF RoomWhereArmed, Opening
    <3>3. /\ part' \in Nat /\ part' <= total /\ part' <= rx_wrap - rx_read
          /\ part' < total => part' = rx_wrap - rx_read
      BY <3>1, <3>2, MinOfTwo
    <3>4. total <= Unread
      BY <3>2 DEF ReaderFits
    <3>5. Straight => rx_read + part' < rx_wrap
      BY <3>2, <3>3, <3>4 DEF Straight, RingFits
    <3>6. Straight \/ Wrapped
      BY DEF RingFits
    <3> QED  BY <1>2, <3>2, <3>3, <3>4, <3>5, <3>6 DEF ReaderFits
  <2>3. CASE Look /\ ~ReadWrap /\ ~\E n \in 1..MaxRead : Read(n)
    <3>1. /\ UNCHANGED <<total, part, wrap>>
          /\ pc' = pc \/ pc' \in {"idle", "room", "arm", "busy"}
      BY <2>3 DEF Look, readerVars
    <3> QED  BY <1>2, <3>1 DEF ReaderFits
  <2> QED  BY <2>1, <2>2, <2>3
<1>9. RoomWhereArmed'
  <2>1. \/ armed' = armed
        \/ armed' = None
        \/ state = "INIT"
        \/ armed' = rx_write /\ (pc = "arm" \/ Room(rx_wrap, rx_count))
    BY DEF Look, endpointVars, Note, Going
  <2>2. rx_count <= rx_wrap
    BY DEF RingFits
  <2>3. armed' # None /\ state # "INIT" =>
          /\ rx_count + MaxPacket <= rx_wrap
          /\ armed' # rx_write => Unread = 0
    BY <2>1, <2>2, RoomFits DEF RoomWhereArmed
  <2>4. pc' = "arm" => pc = "arm" \/ Room(rx_wrap, rx_count)
    BY DEF Look, readerVars
  <2>5. pc' = "arm" => rx_count + MaxPacket <= rx_wrap
    BY <2>2, <2>4, RoomFits DEF RoomWhereArmed
  <2>6. state = "INIT" => pc' = pc
    BY DEF Look, readerVars, RoomWhereArmed, Opening
  <2>7. pc' \in Opening => pc' = pc
    BY DEF Look, readerVars, Opening
  <2> QED  BY <1>2, <1>6, <2>3, <2>5, <2>6, <2>7 DEF RoomWhereArmed
<1>10. BytesInPlace'
  BY <1>2 DEF BytesInPlace, Holds, Place
<1> QED  BY <1>7, <1>8, <1>9, <1>10

(* A packet for a port that is not open.                                     *)
LEMMA DroppedKeeps ==
  ASSUME IInv, Going, NEW n \in 0..MaxPacket, RxReady(n), state = "INIT"
  PROVE  IInv'
<1> USE Numbers
<1>1. /\ armed # None /\ armed' = None /\ rx_busy' = FALSE
      /\ rx_data' = [s \in Slot |-> IF s \in armed..armed + n - 1 THEN 0 ELSE rx_data[s]]
      /\ mishap' \in {"none", "nowhere"}
      /\ UNCHANGED <<rx_read, rx_write, rx_wrap, rx_count, received, taken, ordered, state,
                     USBD, control, RxBuffer, pc, total, part, wrap, cuts>>
  <2>1. /\ armed # None /\ armed' = None /\ rx_busy' = FALSE
        /\ mishap' \in {"none", "nowhere"}
        /\ UNCHANGED <<rx_read, rx_write, rx_wrap, rx_count, received, taken, ordered, state,
                       USBD, control, RxBuffer, pc, total, part, wrap, cuts>>
    BY DEF RxReady, Note, deviceVars, readerVars
  <2>2. rx_data' = [s \in Slot |-> CASE s \notin armed..armed + n - 1 -> rx_data[s]
                                     [] s \in armed..armed + n - 1 /\ state = "INIT" -> 0
                                     [] OTHER -> received + 1 + (s - armed)]
    BY DEF RxReady
  <2> QED  BY <2>1, <2>2
<1>2. RingTypes'
  BY <1>1 DEF RingTypes
<1>3. OtherTypes'
  BY <1>1 DEF OtherTypes, Mishaps
<1>4. Unread' = Unread /\ Straight' = Straight /\ Wrapped' = Wrapped
  BY <1>1 DEF Unread, Straight, Wrapped
<1>5. RingFits' /\ ReaderFits' /\ RoomWhereArmed'
  BY <1>1, <1>4 DEF RingFits, ReaderFits, RoomWhereArmed, Uncounted
<1>6. BytesInPlace'
  <2>1. Unread = 0 /\ rx_read = 0 /\ rx_write = 0
    BY DEF RoomWhereArmed
  <2>2. \A s \in Slot : ~Holds(s)
    BY <2>1 DEF Holds, Straight, Slot
  <2>3. \A s \in Slot : rx_data'[s] = 0 \/ rx_data'[s] = rx_data[s]
    BY <1>1
  <2>4. \A s \in Slot : rx_data'[s] <= taken
    BY <2>2, <2>3 DEF BytesInPlace
  <2>5. \A s \in Slot : ~Holds(s)'
    BY <1>1, <1>4, <2>2 DEF Holds
  <2> QED  BY <1>1, <2>4, <2>5 DEF BytesInPlace
<1> QED  BY <1>2, <1>3, <1>5, <1>6, TypeParts DEF IInv

(* A packet for a port that is open: the bytes go on where the last ended.     *)
LEMMA PacketKeeps ==
  ASSUME IInv, Going, NEW n \in 0..MaxPacket, RxReady(n), state # "INIT"
  PROVE  IInv'
<1> USE Numbers
<1> DEFINE end == rx_write + n
<1>1. /\ armed # None /\ received + n <= MaxBytes
      /\ rx_data' = [s \in Slot |-> IF s \in armed..armed + n - 1
                                    THEN received + 1 + (s - armed) ELSE rx_data[s]]
      /\ received' = received + n /\ rx_count' = rx_count + n
      /\ rx_wrap' = IF Turn(end) THEN end ELSE rx_wrap
      /\ rx_write' = IF Turn(end) THEN 0 ELSE end
      /\ rx_busy' = (state # "RESET" /\ Room(rx_wrap', rx_count'))
      /\ armed' = IF rx_busy' THEN rx_write' ELSE None
      /\ RxBuffer' = IF rx_busy' THEN rx_write' ELSE RxBuffer
      /\ UNCHANGED <<rx_read, taken, ordered, state, USBD, control, pc, total, part, wrap,
                     cuts>>
  <2>1. rx_data' = [s \in Slot |-> CASE s \notin armed..armed + n - 1 -> rx_data[s]
                                     [] s \in armed..armed + n - 1 /\ state = "INIT" -> 0
                                     [] OTHER -> received + 1 + (s - armed)]
    BY DEF RxReady
  <2>2. rx_data' = [s \in Slot |-> IF s \in armed..armed + n - 1
                                   THEN received + 1 + (s - armed) ELSE rx_data[s]]
    BY <2>1
  <2> QED  BY <2>2 DEF RxReady, deviceVars, readerVars
<1>2. mishap' = IF armed # rx_write THEN "stale"
                ELSE IF Turn(end) /\ received' - taken > end THEN "rewrapped"
                ELSE IF rx_count' > rx_wrap' THEN "underflowed"
                ELSE IF pc = "arm" /\ ~Room(rx_wrap', rx_count') THEN "twice"
                ELSE "none"
  BY DEF RxReady
<1>3. n \in Nat /\ n <= MaxPacket /\ end \in Nat /\ end <= Size
  OBVIOUS
<1>4. /\ rx_count + MaxPacket <= rx_wrap
      /\ armed # rx_write => Unread = 0
  BY <1>1 DEF RoomWhereArmed
<1>5. RingTypes'
  <2>1. armed \in Int
    BY <1>1 DEF RingTypes, Null
  <2>2. ASSUME NEW s \in Slot
        PROVE  rx_data'[s] \in 0..MaxBytes
    <3>1. CASE s \in armed..armed + n - 1
      <4>1. rx_data'[s] = received + 1 + (s - armed)
        BY <1>1, <3>1
      <4>2. received + 1 + (s - armed) \in 0..MaxBytes
        <5>1. received + n <= MaxBytes
          BY <1>1
        <5>2. s \in Int /\ armed <= s /\ s <= armed + n - 1
          BY <1>3, <2>1, <3>1
        <5> QED  BY <1>3, <2>1, <5>1, <5>2
      <4> QED  BY <4>1, <4>2
    <3>2. CASE s \notin armed..armed + n - 1
      BY <1>1, <3>2 DEF RingTypes
    <3> QED  BY <3>1, <3>2
  <2>3. rx_data' \in [Slot -> 0..MaxBytes]
    BY <1>1, <2>2
  <2>4. /\ rx_wrap' \in 0..Size /\ rx_write' \in 0..Size - MaxPacket
        /\ rx_count' \in 0..Size /\ received' \in 0..MaxBytes
    BY <1>1, <1>3, <1>4 DEF Turn
  <2>5. /\ armed' \in (0..Size - MaxPacket) \cup {Null, None}
        /\ RxBuffer' \in (0..Size - MaxPacket) \cup {Null}
    BY <1>1, <2>4 DEF RingTypes
  <2> QED  BY <1>1, <2>3, <2>4, <2>5 DEF RingTypes
<1>6. OtherTypes'
  <2>1. rx_busy' \in BOOLEAN
    BY <1>1
  <2>2. mishap' \in Mishaps \cup {"none"}
    BY <1>2 DEF Mishaps
  <2> QED  BY <1>1, <2>1, <2>2 DEF OtherTypes
<1> SUFFICES ASSUME Going'
             PROVE  RingFits' /\ ReaderFits' /\ RoomWhereArmed' /\ BytesInPlace'
  BY <1>5, <1>6, TypeParts DEF IInv
<1>7. /\ armed = rx_write
      /\ ~(Turn(end) /\ received' - taken > end)
      /\ rx_count' <= rx_wrap'
      /\ pc = "arm" => Room(rx_wrap', rx_count')
  <2>1. /\ armed = rx_write
        /\ ~(Turn(end) /\ received' - taken > end)
        /\ ~(rx_count' > rx_wrap')
        /\ pc = "arm" => Room(rx_wrap', rx_count')
    BY <1>2 DEF Going
  <2>2. rx_count' \in Nat /\ rx_wrap' \in Nat
    BY <1>5 DEF RingTypes
  <2> QED  BY <2>1, <2>2
<1>8. Unread' = Unread + n /\ Uncounted' = Uncounted
  BY <1>1, <1>3 DEF Unread, Uncounted
<1>9. /\ Unread <= rx_count
      /\ rx_count = Unread + Uncounted
      /\ Straight \/ Wrapped
  <2>1. Uncounted \in Nat
    BY DEF Uncounted, ReaderFits
  <2> QED  BY <2>1 DEF RingFits
<1>10. Straight /\ ~Turn(end) => Straight'
  BY <1>1, <1>3, <1>8 DEF Straight
<1>11. Straight /\ Turn(end) => Wrapped' /\ ~Straight' /\ n >= 1
  BY <1>1, <1>3, <1>8 DEF Straight, Wrapped, Turn
<1>12. Wrapped => ~Turn(end)
  BY <1>1, <1>3, <1>7 DEF Wrapped
<1>13. Wrapped => Wrapped' /\ ~Straight' /\ rx_write + MaxPacket <= rx_read
  BY <1>1, <1>3, <1>4, <1>8, <1>9, <1>12 DEF Wrapped, Straight
<1>14. pc = "unwrap" => Straight /\ ~Turn(end)
  <2>1. pc = "unwrap" => Straight /\ rx_read = 0 /\ part >= 1 /\ Uncounted = part
    BY DEF ReaderFits, Uncounted
  <2> QED  BY <1>1, <1>3, <1>7, <1>9, <2>1 DEF Straight
<1>15. RingFits'
  <2>1. Unread' >= 0 /\ (Straight' \/ Wrapped')
    BY <1>3, <1>8, <1>9, <1>10, <1>11, <1>13
  <2>2. rx_count' = Unread' + Uncounted'
    <3>1. Uncounted \in Int
      BY DEF Uncounted
    <3> QED  BY <1>1, <1>3, <1>8, <1>9, <3>1
  <2>3. Straight' /\ pc # "unwrap" => rx_wrap' = Size
    BY <1>1, <1>9, <1>10, <1>11, <1>13 DEF RingFits
  <2> QED  BY <1>1, <1>7, <2>1, <2>2, <2>3 DEF RingFits
<1>16. Straight /\ Wrapped' => Turn(end)
  BY <1>1, <1>3, <1>8, <1>10, <1>15, Pieces DEF Straight, Wrapped
<1>17. ReaderFits'
  <2>1. CASE Straight
    <3>1. pc = "copy" /\ Wrapped' => rx_read + part < rx_wrap'
      BY <1>1, <1>3, <1>11, <1>16, <2>1 DEF Straight, ReaderFits
    <3>2. pc = "copy" => rx_read + part # wrap
      BY <2>1, Pieces DEF ReaderFits
    <3>3. pc \in {"unwrap", "sub", "copyrest"} /\ Wrapped' => rx_read + (total - part) < rx_wrap'
      BY <1>1, <1>3, <1>11, <1>16, <2>1 DEF Straight, ReaderFits
    <3>4. pc = "unwrap" => Straight' /\ rx_read = 0 /\ part >= 1
      BY <1>10, <1>14 DEF ReaderFits
    <3> QED  BY <1>1, <1>3, <1>8, <3>1, <3>2, <3>3, <3>4 DEF ReaderFits
  <2>2. CASE Wrapped
    BY <1>1, <1>3, <1>8, <1>12, <1>13, <1>14, <2>2, Pieces DEF ReaderFits
  <2> QED  BY <1>9, <2>1, <2>2
<1>18. RoomWhereArmed'
  <2>1. rx_count' \in Nat /\ rx_wrap' \in Nat
    BY <1>5 DEF RingTypes
  <2>2. Room(rx_wrap', rx_count') => rx_count' + MaxPacket <= rx_wrap'
    BY <1>7, <2>1, RoomFits
  <2> QED  BY <1>1, <1>7, <2>2 DEF RoomWhereArmed
<1>19. BytesInPlace'
  <2> SUFFICES ASSUME NEW s \in Slot
               PROVE  IF Holds(s)' THEN rx_data'[s] = taken + 1 + Place(s)'
                                   ELSE rx_data'[s] <= taken
    BY <1>1 DEF BytesInPlace
  <2>1. s \in Nat /\ s < Size
    BY DEF Slot
  <2>2. CASE s \in rx_write..end - 1
    <3>1. rx_data'[s] = received + 1 + (s - rx_write)
      BY <1>1, <1>7, <2>2
    <3>2. Holds(s)' /\ Place(s)' = Unread + (s - rx_write)
      <4>1. CASE Straight
        BY <1>1, <1>3, <1>10, <1>11, <2>1, <2>2, <4>1 DEF Straight, Holds, Place
      <4>2. CASE Wrapped
        BY <1>1, <1>3, <1>12, <1>13, <2>1, <2>2, <4>2 DEF Wrapped, Holds, Place
      <4> QED  BY <1>9, <4>1, <4>2
    <3> QED  BY <2>1, <3>1, <3>2
  <2>3. CASE s \notin rx_write..end - 1
    <3>1. rx_data'[s] = rx_data[s]
      BY <1>1, <1>7, <2>3
    <3>2. (Holds(s)' <=> Holds(s)) /\ (Holds(s) => Place(s)' = Place(s))
      <4>1. CASE Straight
        BY <1>1, <1>3, <1>10, <1>11, <2>1, <2>3, <4>1 DEF Straight, Holds, Place
      <4>2. CASE Wrapped
        BY <1>1, <1>3, <1>12, <1>13, <2>1, <2>3, <4>2, Pieces DEF Holds, Place
      <4> QED  BY <1>9, <4>1, <4>2
    <3> QED  BY <3>1, <3>2 DEF BytesInPlace
  <2> QED  BY <2>2, <2>3
<1> QED  BY <1>15, <1>17, <1>18, <1>19

-----------------------------------------------------------------------------
(* The steps of the reader that move bytes or the ring's bounds.              *)

(* The bytes up to the end of this turn are read.                            *)
LEMMA CopyKeeps ==
  ASSUME IInv, Going, ReadCopy
  PROVE  IInv'
<1> USE Numbers
<1> DEFINE atEnd == rx_read + part = wrap
<1>1. /\ pc = "copy"
      /\ ordered' = (ordered /\ \A i \in 0..part - 1 : rx_data[rx_read + i] = taken + 1 + i)
      /\ taken' = taken + part
      /\ rx_read' = IF atEnd THEN 0 ELSE rx_read + part
      /\ pc' = IF atEnd THEN "unwrap" ELSE "sub"
      /\ UNCHANGED <<rx_data, rx_write, rx_wrap, rx_count, state, USBD, control, rx_busy, armed,
                     RxBuffer, total, part, wrap, received, cuts, mishap>>
  BY DEF ReadCopy, Deliver, Goto, deviceVars, endpointVars
<1>2. /\ total <= Unread /\ part <= total
      /\ part < total => atEnd
      /\ atEnd => Wrapped /\ wrap = rx_wrap
      /\ Wrapped => rx_read + part <= rx_wrap
      /\ Wrapped /\ ~atEnd => rx_read + part < rx_wrap
  BY <1>1 DEF ReaderFits
<1>3. /\ Uncounted = 0 /\ rx_count = Unread /\ state # "INIT"
      /\ Straight \/ Wrapped
      /\ Straight => rx_wrap = Size
  BY <1>1 DEF Uncounted, RingFits, RoomWhereArmed, Opening
<1>4. \A i \in 0..part - 1 : rx_data[rx_read + i] = taken + 1 + i
  BY <1>2, NextBytes
<1>5. ordered' = TRUE
  BY <1>1, <1>4, Zenon DEF BytesInPlace
<1>6. Unread' = Unread - part /\ Uncounted' = part
  BY <1>1 DEF Unread, Uncounted
<1>7. atEnd => /\ Straight' /\ ~Wrapped' /\ rx_read' = 0 /\ part >= 1 /\ rx_write <= rx_read
               /\ Unread = part + rx_write /\ part = rx_wrap - rx_read
  BY <1>1, <1>2, <1>6 DEF Straight, Wrapped
<1>8. ~atEnd => /\ part = total /\ rx_read' = rx_read + part
                /\ Straight' <=> Straight
                /\ Wrapped => Wrapped'
  BY <1>1, <1>2, <1>6 DEF Straight, Wrapped
<1>9. RingTypes'
  BY <1>1, <1>2, <1>3, <1>7, <1>8 DEF RingTypes, Straight
<1>10. OtherTypes'
  BY <1>1, <1>5 DEF OtherTypes
<1>11. RingFits'
  BY <1>1, <1>2, <1>3, <1>6, <1>7, <1>8 DEF RingFits
<1>12. ReaderFits'
  BY <1>1, <1>2, <1>6, <1>7, <1>8 DEF ReaderFits
<1>13. RoomWhereArmed'
  BY <1>1, <1>2, <1>6, <1>7, <1>8 DEF RoomWhereArmed, Opening
<1>14. BytesInPlace'
  <2> SUFFICES ASSUME NEW s \in Slot
               PROVE  IF Holds(s)' THEN rx_data[s] = taken' + 1 + Place(s)'
                                   ELSE rx_data[s] <= taken'
    BY <1>1, <1>5 DEF BytesInPlace
  <2>1. s \in Nat /\ s < Size
    BY DEF Slot
  <2>2. IF Holds(s) THEN rx_data[s] = taken + 1 + Place(s) ELSE rx_data[s] <= taken
    BY DEF BytesInPlace
  <2>3. rx_data[s] \in Nat
    BY DEF RingTypes
  <2>4. CASE atEnd
    <3>1. CASE s < rx_write
      <4>1. Holds(s) /\ Place(s) = part + s
        BY <1>2, <1>7, <2>1, <2>4, <3>1, Pieces DEF Holds, Place
      <4>2. Holds(s)' /\ Place(s)' = s
        BY <1>1, <1>7, <2>1, <2>4, <3>1 DEF Holds, Place
      <4> QED  BY <1>1, <2>1, <2>2, <4>1, <4>2
    <3>2. CASE s >= rx_write
      <4>1. ~Holds(s)'
        BY <1>1, <1>7, <2>1, <2>4, <3>2 DEF Holds
      <4>2. Holds(s) => Place(s) + 1 <= part /\ Place(s) \in Nat
        BY <1>2, <1>7, <2>1, <2>4, <3>2, Pieces DEF Holds, Place
      <4> QED  BY <1>1, <2>2, <2>3, <4>1, <4>2
    <3> QED  BY <2>1, <3>1, <3>2
  <2>5. CASE ~atEnd
    <3>1. Holds(s)' => Holds(s) /\ Place(s)' = Place(s) - part /\ Place(s) \in Nat
      <4>1. CASE Straight
        BY <1>1, <1>8, <2>1, <2>5, <4>1 DEF Straight, Holds, Place
      <4>2. CASE Wrapped
        BY <1>1, <1>2, <1>8, <2>1, <2>5, <4>2, Pieces DEF Wrapped, Holds, Place
      <4> QED  BY <1>3, <4>1, <4>2
    <3>2. Holds(s) /\ ~Holds(s)' => Place(s) \in Nat /\ Place(s) + 1 <= part
      <4>1. CASE Straight
        BY <1>1, <1>8, <2>1, <2>5, <4>1 DEF Straight, Holds, Place
      <4>2. CASE Wrapped
        BY <1>1, <1>2, <1>8, <2>1, <2>5, <4>2, Pieces DEF Wrapped, Holds, Place
      <4> QED  BY <1>3, <4>1, <4>2
    <3> QED  BY <1>1, <2>2, <2>3, <3>1, <3>2
  <2> QED  BY <2>4, <2>5
<1> QED  BY <1>9, <1>10, <1>11, <1>12, <1>13, <1>14, TypeParts DEF IInv

(* The end of the ring is the end of the turn again, and the bytes read are   *)
(* counted off: nothing is moved.                                           *)
Count == ReadUnwrap \/ ReadSub \/ ReadSubRest

LEMMA CountKeeps ==
  ASSUME IInv, Going, Count
  PROVE  IInv'
<1> USE Numbers
<1> USE DEF ReadUnwrap, ReadSub, ReadSubRest, Goto
<1>1. /\ UNCHANGED <<rx_data, rx_read, rx_write, state, USBD, control, rx_busy, armed, RxBuffer,
                     total, part, wrap, received, taken, ordered, cuts, mishap>>
      /\ rx_wrap' = IF pc = "unwrap" THEN Size ELSE rx_wrap
      /\ rx_count' = CASE pc = "unwrap" -> rx_count
                       [] pc = "sub" -> rx_count - part
                       [] OTHER -> rx_count - (total - part)
      /\ pc = "unwrap" => pc' = "sub"
      /\ pc = "sub" => pc' = IF total > part THEN "copyrest" ELSE "check"
      /\ pc = "subrest" => pc' = "check"
      /\ pc \in {"unwrap", "sub", "subrest"}
  BY DEF Count, deviceVars, endpointVars, byteVars
<1>2. Unread' = Unread /\ Straight' = Straight
  BY <1>1 DEF Unread, Straight
<1>3. /\ part <= total /\ rx_count = Unread + Uncounted
      /\ Straight \/ Wrapped
      /\ rx_count <= rx_wrap
      /\ pc = "unwrap" => Straight
  BY <1>1 DEF ReaderFits, RingFits
<1>4. rx_count' = Unread + Uncounted' /\ rx_count' \in Nat /\ rx_count' <= rx_count
  BY <1>1, <1>3 DEF Uncounted
<1>5. pc # "unwrap" => rx_wrap' = rx_wrap /\ Wrapped' = Wrapped
  BY <1>1, <1>2 DEF Wrapped, Unread
<1>6. pc = "unwrap" => Straight' /\ rx_wrap' = Size /\ ~Wrapped'
  BY <1>1, <1>2, <1>3 DEF Straight, Wrapped
<1>7. RingTypes'
  BY <1>1, <1>4 DEF RingTypes
<1>8. OtherTypes'
  BY <1>1 DEF OtherTypes
<1>9. RingFits'
  BY <1>1, <1>2, <1>3, <1>4, <1>5, <1>6 DEF RingFits
<1>10. ReaderFits'
  BY <1>1, <1>2, <1>3, <1>5, <1>6 DEF ReaderFits
<1>11. RoomWhereArmed'
  BY <1>1, <1>2, <1>4 DEF RoomWhereArmed, Opening
<1>12. BytesInPlace'
  <2>1. \A s \in Slot : Holds(s)' = Holds(s)
    BY <1>1, <1>2, <1>3 DEF Holds
  <2>2. \A s \in Slot : Holds(s) => Place(s)' = Place(s)
    BY <1>1, <1>3 DEF Holds, Place
  <2> QED  BY <1>1, <2>1, <2>2 DEF BytesInPlace
<1> QED  BY <1>7, <1>8, <1>9, <1>10, <1>11, <1>12, TypeParts DEF IInv

(* The rest is read, from the start of the ring.                             *)
LEMMA RestKeeps ==
  ASSUME IInv, Going, ReadRest
  PROVE  IInv'
<1> USE Numbers
<1> DEFINE m == total - part
<1>1. /\ pc = "copyrest" /\ pc' = "subrest"
      /\ ordered' = (ordered /\ \A i \in 0..m - 1 : rx_data[rx_read + i] = taken + 1 + i)
      /\ taken' = taken + m
      /\ rx_read' = rx_read + total - part
      /\ UNCHANGED <<rx_data, rx_write, rx_wrap, rx_count, state, USBD, control, rx_busy, armed,
                     RxBuffer, total, part, wrap, received, cuts, mishap>>
  BY DEF ReadRest, Deliver, Goto, deviceVars, endpointVars
<1>2. /\ m \in Nat /\ m <= Unread /\ rx_read' = rx_read + m
      /\ Wrapped => rx_read + m < rx_wrap
  BY <1>1 DEF ReaderFits, Wrapped
<1>3. /\ rx_count = Unread /\ state # "INIT"
      /\ Straight \/ Wrapped
  BY <1>1 DEF Uncounted, RingFits, RoomWhereArmed, Opening
<1>4. \A i \in 0..m - 1 : rx_data[rx_read + i] = taken + 1 + i
  <2>1. Wrapped => rx_read + m <= rx_wrap
    BY <1>2
  <2> HIDE DEF m
  <2> QED  BY <1>2, <2>1, NextBytes
<1>5. ordered' = TRUE
  BY <1>1, <1>4, Zenon DEF BytesInPlace
<1>6. Unread' = Unread - m /\ Uncounted' = m
  BY <1>1, <1>2 DEF Unread, Uncounted
<1> HIDE DEF m
<1>7. /\ Straight' <=> Straight
      /\ Wrapped => Wrapped'
  BY <1>1, <1>2, <1>6 DEF Straight, Wrapped
<1>8. RingTypes'
  BY <1>1, <1>2, <1>3, <1>7 DEF RingTypes, Straight
<1>9. OtherTypes'
  BY <1>1, <1>5 DEF OtherTypes
<1>10. RingFits'
  BY <1>1, <1>2, <1>3, <1>6, <1>7 DEF RingFits
<1>11. ReaderFits'
  BY <1>1 DEF ReaderFits
<1>12. RoomWhereArmed'
  BY <1>1, <1>2, <1>6 DEF RoomWhereArmed, Opening
<1>13. BytesInPlace'
  <2> SUFFICES ASSUME NEW s \in Slot
               PROVE  IF Holds(s)' THEN rx_data[s] = taken' + 1 + Place(s)'
                                   ELSE rx_data[s] <= taken'
    BY <1>1, <1>5 DEF BytesInPlace
  <2>1. s \in Nat /\ s < Size
    BY DEF Slot
  <2>2. IF Holds(s) THEN rx_data[s] = taken + 1 + Place(s) ELSE rx_data[s] <= taken
    BY DEF BytesInPlace
  <2>3. rx_data[s] \in Nat
    BY DEF RingTypes
  <2>4. Holds(s)' => Holds(s) /\ Place(s)' = Place(s) - m /\ Place(s) \in Nat
    <3>1. CASE Straight
      BY <1>1, <1>2, <1>7, <2>1, <3>1 DEF Straight, Holds, Place
    <3>2. CASE Wrapped
      BY <1>1, <1>2, <1>7, <2>1, <3>2, Pieces DEF Wrapped, Holds, Place
    <3> QED  BY <1>3, <3>1, <3>2
  <2>5. Holds(s) /\ ~Holds(s)' => Place(s) \in Nat /\ Place(s) + 1 <= m
    <3>1. CASE Straight
      BY <1>1, <1>2, <1>7, <2>1, <3>1 DEF Straight, Holds, Place
    <3>2. CASE Wrapped
      BY <1>1, <1>2, <1>7, <2>1, <3>2, Pieces DEF Wrapped, Holds, Place
    <3> QED  BY <1>3, <3>1, <3>2
  <2> QED  BY <1>1, <1>2, <2>2, <2>3, <2>4, <2>5
<1> QED  BY <1>8, <1>9, <1>10, <1>11, <1>12, <1>13, TypeParts DEF IInv

(* The port is opened on an empty ring, and closed on what was not read.      *)
LEMMA OpenKeeps ==
  ASSUME IInv, Going, Begin \/ End
  PROVE  IInv'
<1> USE Numbers
<1> USE DEF Begin, End, Goto
<1>1. /\ pc = "idle" /\ pc' \in {"idle"} \cup Opening /\ state' = "INIT"
      /\ rx_read' = 0 /\ rx_write' = 0 /\ rx_count' = 0
      /\ rx_wrap' = IF pc' = "idle" THEN 0 ELSE Size
      /\ taken' = IF state = "INIT" THEN taken ELSE received
      /\ UNCHANGED <<rx_data, USBD, control, rx_busy, armed, RxBuffer, total, part, wrap,
                     received, ordered, cuts, mishap>>
  BY DEF endpointVars, byteVars, deviceVars, Found, Opening
<1>2. taken' = received
  BY <1>1 DEF RoomWhereArmed
<1>3. Unread' = 0 /\ Straight' /\ Uncounted' = 0
  BY <1>1, <1>2 DEF Unread, Straight, Uncounted, Opening
<1>4. RingTypes'
  BY <1>1, <1>2 DEF RingTypes
<1>5. OtherTypes'
  BY <1>1 DEF OtherTypes
<1>6. RingFits'
  BY <1>1, <1>3 DEF RingFits
<1>7. ReaderFits'
  BY <1>1 DEF ReaderFits, Opening
<1>8. RoomWhereArmed'
  BY <1>1, <1>3 DEF RoomWhereArmed
<1>9. BytesInPlace'
  <2>1. \A s \in Slot : ~Holds(s)'
    BY <1>1, <1>3 DEF Holds, Slot
  <2> QED  BY <1>1, <1>2, <2>1, DataReceived DEF BytesInPlace
<1> QED  BY <1>4, <1>5, <1>6, <1>7, <1>8, <1>9, TypeParts DEF IInv

(* The opened port has what its look at the device has found.               *)
LEMMA BegunKeeps ==
  ASSUME IInv, Going, Begun
  PROVE  IInv'
<1> USE Numbers
<1>1. /\ pc \in Opening /\ pc' \in {"idle", "arm"}
      /\ state' \in {"READY", "RESET"}
      /\ mishap' \in {"none", "outdated"}
      /\ UNCHANGED <<rx_data, rx_read, rx_write, rx_wrap, rx_count, USBD, control, rx_busy, armed,
                     RxBuffer, total, part, wrap, received, taken, ordered, cuts>>
  BY DEF Begun, Note, Goto, ringVars, endpointVars, byteVars
<1>2. Unread = 0 /\ rx_read = 0 /\ rx_write = 0 /\ rx_wrap = Size
  BY <1>1 DEF RoomWhereArmed
<1>3. Uncounted = 0 /\ rx_count = 0
  BY <1>1, <1>2 DEF RingFits, Uncounted, Opening
<1>4. Unread' = 0 /\ Straight' /\ Uncounted' = 0
  BY <1>1, <1>2 DEF Unread, Straight, Uncounted
<1>5. RingTypes'
  BY <1>1 DEF RingTypes
<1>6. OtherTypes'
  BY <1>1 DEF OtherTypes, Mishaps
<1>7. RingFits'
  BY <1>1, <1>2, <1>3, <1>4 DEF RingFits
<1>8. ReaderFits'
  BY <1>1 DEF ReaderFits
<1>9. RoomWhereArmed'
  BY <1>1, <1>2, <1>3, <1>4 DEF RoomWhereArmed, Opening
<1>10. BytesInPlace'
  <2>1. \A s \in Slot : ~Holds(s)'
    BY <1>1, <1>2, <1>4 DEF Holds, Slot
  <2>2. taken = received
    BY <1>2
  <2> QED  BY <1>1, <2>1, <2>2, DataReceived DEF BytesInPlace
<1> QED  BY <1>5, <1>6, <1>7, <1>8, <1>9, <1>10, TypeParts DEF IInv

-----------------------------------------------------------------------------
LEMMA NextKeeps == IInv /\ [Next]_vars => IInv'
<1> SUFFICES ASSUME IInv, [Next]_vars PROVE IInv'
  OBVIOUS
<1>1. CASE UNCHANGED vars
  <2>1. /\ UNCHANGED <<rx_data, rx_read, rx_write, rx_wrap, rx_count, rx_busy, state, USBD,
                       control, armed, RxBuffer, pc, total, part, wrap, received, taken, ordered,
                       cuts, mishap>>
    BY <1>1 DEF vars, ringVars, deviceVars, endpointVars, readerVars, byteVars
  <2> QED  BY <2>1 DEF IInv, TypeOK, Going, RingFits, ReaderFits, RoomWhereArmed, BytesInPlace,
    Unread, Straight, Wrapped, Uncounted, Holds, Place
<1>2. CASE Next
  <2>1. Going
    BY <1>2 DEF Next
  <2>2. CASE \E n \in 0..MaxPacket : RxReady(n)
    BY <2>1, <2>2, DroppedKeeps, PacketKeeps
  <2>3. CASE Look
    BY <2>1, <2>3, LookKeeps
  <2>4. CASE ReadCopy
    BY <2>1, <2>4, CopyKeeps
  <2>5. CASE Count
    BY <2>1, <2>5, CountKeeps
  <2>6. CASE ReadRest
    BY <2>1, <2>6, RestKeeps
  <2>7. CASE Begin \/ End
    BY <2>1, <2>7, OpenKeeps
  <2>8. CASE Begun
    BY <2>1, <2>8, BegunKeeps
  <2> QED  BY <1>2, <2>2, <2>3, <2>4, <2>5, <2>6, <2>7, <2>8 DEF Next, Reading, Look, Count
<1> QED  BY <1>1, <1>2

(* The inductive invariant holds in every state of the program.              *)
THEOREM Invariance == Spec => []IInv
<1> QED  BY InitInv, NextKeeps, PTL DEF Spec

(* The indices stay in the ring, the count is never taken below zero, and a   *)
(* packet ends inside the ring.                                            *)
THEOREM TypeCorrect == Spec => []TypeOK
<1>1. IInv => TypeOK
  BY DEF IInv
<1> QED  BY <1>1, Invariance, PTL

(* Every byte is read once and in its turn, a peek shows the next, and no     *)
(* packet is on its way to a byte not read (InOrder): stm32l4_usbd_cdc_receive *)
(* and stm32l4_usbd_cdc_rx_ready.                                           *)
THEOREM BytesInOrder == Spec => []InOrder
<1>1. IInv => InOrder
  <2> SUFFICES ASSUME IInv, Going PROVE InOrder
    BY DEF InOrder, Going
  <2> USE Numbers
  <2>1. ordered
    BY DEF BytesInPlace
  <2>2. ASSUME pc = "idle", rx_count # 0
        PROVE  rx_data[rx_read] = taken + 1
    <3>1. Unread # 0 /\ Unread \in Nat
      BY <2>2 DEF RingFits, Uncounted
    <3>2. Wrapped => rx_read + 1 <= rx_wrap
      BY DEF Wrapped
    <3>3. \A i \in 0..1 - 1 : rx_data[rx_read + i] = taken + 1 + i
      BY <3>1, <3>2, NextBytes
    <3>4. rx_data[rx_read + 0] = taken + 1 + 0
      BY <3>3
    <3> QED  BY <3>4
  <2>3. ASSUME armed # None, state # "INIT", NEW s \in Slot \cap (armed..armed + MaxPacket - 1)
        PROVE  rx_data[s] <= taken
    <3>1. CASE armed = rx_write
      <4>1. Unread + MaxPacket <= rx_wrap
        <5>1. Uncounted \in Nat
          BY DEF Uncounted, ReaderFits
        <5> QED  BY <2>3, <5>1 DEF RoomWhereArmed, RingFits
      <4>2. s \in Nat /\ rx_write <= s /\ s < rx_write + MaxPacket
        BY <2>3, <3>1
      <4>3. ~Holds(s)
        <5>1. CASE Straight
          BY <4>2, <5>1 DEF Holds
        <5>2. CASE Wrapped
          BY <4>1, <4>2, <5>2, Pieces DEF Wrapped, Holds
        <5> QED  BY <5>1, <5>2 DEF RingFits
      <4> QED  BY <2>3, <4>3 DEF BytesInPlace
    <3>2. CASE armed # rx_write
      <4>1. Unread = 0
        BY <2>3, <3>2 DEF RoomWhereArmed
      <4>2. taken = received
        BY <4>1
      <4> QED  BY <2>3, <4>2, DataReceived
    <3> QED  BY <3>1, <3>2
  <2> QED  BY <2>1, <2>2, <2>3 DEF InOrder
<1> QED  BY <1>1, Invariance, PTL
-----------------------------------------------------------------------------
(* MassStorage.                                                            *)

VolumeAlone == "VOLUME" \in lock => lock \cap {"SCSI", "MEDIUM"} = {}

HeldByCall ==
  /\ thread = "swap" => seen \cap {"SCSI", "MEDIUM"} = {}
  /\ Using => "VOLUME" \in lock
  /\ thread = "store" => "VOLUME" \in seen /\ seen \cap {"SCSI", "MEDIUM"} = {}

HeldByTransfer ==
  /\ "SCSI" \in lock <=> InTransfer \/ leaked
  /\ leaked => ~InTransfer

InStep ==
  /\ bot_state = "DATA_IN" => in \in {"none", "data"}
  /\ out = "data" => bot_state = "DATA_OUT"
  /\ stalled => in = "none" /\ out # "data"
  /\ ~config => bot_state = "IDLE"
  /\ bot_status = "ERROR" => stalled

Remembered ==
  /\ unseen => viewed /\ ~InTransfer
  /\ viewed => "ACCESSED" \in lock
  /\ viewed /\ thread = "store" => "ACCESSED" \in seen
  /\ unseen => "MODIFIED" \in lock \/ thread \in {"load", "store"}

Core ==
  /\ VolumeAlone
  /\ HeldByCall
  /\ HeldByTransfer
  /\ InStep
  /\ Remembered
  /\ ~clash
  /\ ~blind

StorageInv == StorageTypeOK /\ (~unlocked => Core)

LEMMA InitVolumeKeeps ==
  ASSUME StorageInv, ~unlocked, InitVolume
  PROVE  StorageInv'
<1>1. StorageTypeOK'
  BY BlocksAssumption DEF StorageInv, StorageTypeOK, Bit, InitVolume, botVars, noteVars
<1>2. ASSUME ~unlocked' PROVE Core'
  BY <1>2 DEF StorageInv, StorageTypeOK, Bit, Core, VolumeAlone, HeldByCall, HeldByTransfer, InStep,
    Remembered, InTransfer, Using, InitVolume, botVars, noteVars
<1> QED  BY <1>1, <1>2 DEF StorageInv

LEMMA InitSwapKeeps ==
  ASSUME StorageInv, ~unlocked, InitSwap
  PROVE  StorageInv'
<1>1. StorageTypeOK'
  <2>1. lock' \subseteq Bit /\ seen' \subseteq Bit
    BY DEF StorageInv, StorageTypeOK, Bit, InitSwap, botVars, noteVars
  <2>2. /\ volume' \in {"NONE", "INITIALIZED", "MOUNTED", "CARDREMOVED", "UNUSABLE"}
        /\ thread' \in {"idle", "swap", "init", "use", "load", "store", "free"}
    BY DEF StorageInv, StorageTypeOK, Bit, InitSwap, botVars, noteVars
  <2>3. bot_state' \in {"IDLE", "DATA_OUT", "DATA_IN", "LAST_DATA_IN", "SEND_DATA"}
    BY DEF StorageInv, StorageTypeOK, Bit, InitSwap, botVars, noteVars
  <2>4. blocks' \in 0..MaxBlocks
    BY BlocksAssumption DEF StorageInv, StorageTypeOK, Bit, InitSwap, botVars, noteVars
  <2>5. /\ bot_status' \in {"NORMAL", "RECOVERY", "ERROR"}
        /\ out' \in {"none", "cbw", "data"} /\ in' \in {"none", "data", "csw"}
    BY DEF StorageInv, StorageTypeOK, Bit, InitSwap, botVars, noteVars
  <2>6. /\ deleting' \in BOOLEAN /\ config' \in BOOLEAN /\ stalled' \in BOOLEAN
        /\ leaked' \in BOOLEAN /\ viewed' \in BOOLEAN /\ unseen' \in BOOLEAN
        /\ clash' \in BOOLEAN /\ blind' \in BOOLEAN /\ unlocked' \in BOOLEAN
    BY DEF StorageInv, StorageTypeOK, Bit, InitSwap, botVars, noteVars
  <2> QED  BY <2>1, <2>2, <2>3, <2>4, <2>5, <2>6 DEF StorageTypeOK
<1>2. ASSUME ~unlocked' PROVE Core'
  BY <1>2 DEF StorageInv, StorageTypeOK, Bit, Core, VolumeAlone, HeldByCall, HeldByTransfer, InStep,
    Remembered, InTransfer, Using, InitSwap, botVars, noteVars
<1> QED  BY <1>1, <1>2 DEF StorageInv

LEMMA InitDoneKeeps ==
  ASSUME StorageInv, ~unlocked, InitDone
  PROVE  StorageInv'
<1>1. StorageTypeOK'
  BY BlocksAssumption DEF StorageInv, StorageTypeOK, Bit, InitDone, botVars, noteVars
<1>2. ASSUME ~unlocked' PROVE Core'
  BY <1>2 DEF StorageInv, StorageTypeOK, Bit, Core, VolumeAlone, HeldByCall, HeldByTransfer, InStep,
    Remembered, InTransfer, Using, InitDone, botVars, noteVars
<1> QED  BY <1>1, <1>2 DEF StorageInv

LEMMA CallKeeps ==
  ASSUME NEW delete \in BOOLEAN, StorageInv, ~unlocked, Call(delete)
  PROVE  StorageInv'
<1>1. StorageTypeOK'
  BY BlocksAssumption DEF StorageInv, StorageTypeOK, Bit, Call, botVars, noteVars
<1>2. ASSUME ~unlocked' PROVE Core'
  BY <1>2 DEF StorageInv, StorageTypeOK, Bit, Core, VolumeAlone, HeldByCall, HeldByTransfer, InStep,
    Remembered, InTransfer, Using, Call, botVars, noteVars
<1> QED  BY <1>1, <1>2 DEF StorageInv

LEMMA ModifyKeeps ==
  ASSUME StorageInv, ~unlocked, Modify
  PROVE  StorageInv'
<1>1. StorageTypeOK'
  BY BlocksAssumption DEF StorageInv, StorageTypeOK, Bit, Modify, botVars
<1>2. ASSUME ~unlocked' PROVE Core'
  BY <1>2 DEF StorageInv, StorageTypeOK, Bit, Core, VolumeAlone, HeldByCall, HeldByTransfer, InStep,
    Remembered, InTransfer, Using, Modify, botVars
<1> QED  BY <1>1, <1>2 DEF StorageInv

LEMMA ModifyLoadKeeps ==
  ASSUME StorageInv, ~unlocked, ModifyLoad
  PROVE  StorageInv'
<1>1. StorageTypeOK'
  BY BlocksAssumption DEF StorageInv, StorageTypeOK, Bit, ModifyLoad, botVars, noteVars
<1>2. ASSUME ~unlocked' PROVE Core'
  BY <1>2 DEF StorageInv, StorageTypeOK, Bit, Core, VolumeAlone, HeldByCall, HeldByTransfer, InStep,
    Remembered, InTransfer, Using, ModifyLoad, botVars, noteVars
<1> QED  BY <1>1, <1>2 DEF StorageInv

LEMMA ModifyStoreKeeps ==
  ASSUME StorageInv, ~unlocked, ModifyStore
  PROVE  StorageInv'
<1>1. StorageTypeOK'
  BY BlocksAssumption DEF StorageInv, StorageTypeOK, Bit, ModifyStore, botVars, noteVars
<1>2. ASSUME ~unlocked' PROVE Core'
  BY <1>2 DEF StorageInv, StorageTypeOK, Bit, Core, VolumeAlone, HeldByCall, HeldByTransfer, InStep,
    Remembered, InTransfer, Using, ModifyStore, botVars, noteVars
<1> QED  BY <1>1, <1>2 DEF StorageInv

LEMMA ReturnKeeps ==
  ASSUME StorageInv, ~unlocked, Return
  PROVE  StorageInv'
<1>1. StorageTypeOK'
  BY BlocksAssumption DEF StorageInv, StorageTypeOK, Bit, Return, botVars, noteVars
<1>2. ASSUME ~unlocked' PROVE Core'
  BY <1>2 DEF StorageInv, StorageTypeOK, Bit, Core, VolumeAlone, HeldByCall, HeldByTransfer, InStep,
    Remembered, InTransfer, Using, Return, botVars, noteVars
<1> QED  BY <1>1, <1>2 DEF StorageInv

LEMMA FreeKeeps ==
  ASSUME StorageInv, ~unlocked, Free
  PROVE  StorageInv'
<1>1. StorageTypeOK'
  BY BlocksAssumption DEF StorageInv, StorageTypeOK, Bit, Free, botVars, noteVars
<1>2. ASSUME ~unlocked' PROVE Core'
  BY <1>2 DEF StorageInv, StorageTypeOK, Bit, Core, VolumeAlone, HeldByCall, HeldByTransfer, InStep,
    Remembered, InTransfer, Using, Free, botVars, noteVars
<1> QED  BY <1>1, <1>2 DEF StorageInv

LEMMA RefuseKeeps ==
  ASSUME StorageInv, ~unlocked, Refuse
  PROVE  StorageInv'
<1>1. StorageTypeOK'
  BY BlocksAssumption DEF StorageInv, StorageTypeOK, Bit, Refuse, Command, Changed, Ready, Abort,
    threadVars
<1>2. ASSUME ~unlocked' PROVE Core'
  BY <1>2 DEF StorageInv, StorageTypeOK, Bit, Core, VolumeAlone, HeldByCall, HeldByTransfer, InStep,
    Remembered, InTransfer, Using, Refuse, Command, Changed, Ready, Abort, threadVars
<1> QED  BY <1>1, <1>2 DEF StorageInv

LEMMA MisfitKeeps ==
  ASSUME StorageInv, ~unlocked, Misfit
  PROVE  StorageInv'
<1>1. StorageTypeOK'
  BY BlocksAssumption DEF StorageInv, StorageTypeOK, Bit, Misfit, Command, Changed, Ready, Abort,
    Acquired, threadVars
<1>2. ASSUME ~unlocked' PROVE Core'
  BY <1>2 DEF StorageInv, StorageTypeOK, Bit, Core, VolumeAlone, HeldByCall, HeldByTransfer, InStep,
    Remembered, InTransfer, Using, Misfit, Command, Changed, Ready, Abort, Acquired,
    threadVars
<1> QED  BY <1>1, <1>2 DEF StorageInv

LEMMA Read10Keeps ==
  ASSUME NEW n \in 0..MaxBlocks, StorageInv, ~unlocked, Read10(n)
  PROVE  StorageInv'
<1>1. StorageTypeOK'
  <2>1. lock' \subseteq Bit /\ seen' \subseteq Bit
    BY DEF StorageInv, StorageTypeOK, Bit, Read10, Command, Changed, Ready, Abort, Acquired,
      ProcessRead, Moved, Failed, Touch, threadVars
  <2>2. /\ volume' \in {"NONE", "INITIALIZED", "MOUNTED", "CARDREMOVED", "UNUSABLE"}
        /\ thread' \in {"idle", "swap", "init", "use", "load", "store", "free"}
    BY DEF StorageInv, StorageTypeOK, Bit, Read10, Command, Changed, Ready, Abort, Acquired,
      ProcessRead, Moved, Failed, Touch, threadVars
  <2>3. bot_state' \in {"IDLE", "DATA_OUT", "DATA_IN", "LAST_DATA_IN", "SEND_DATA"}
    BY DEF StorageInv, StorageTypeOK, Bit, Read10, Command, Changed, Ready, Abort, Acquired,
      ProcessRead, Moved, Failed, Touch, threadVars
  <2>4. blocks' \in 0..MaxBlocks
    BY BlocksAssumption DEF StorageInv, StorageTypeOK, Bit, Read10, Command, Changed, Ready, Abort,
      Acquired, ProcessRead, Moved, Failed, Touch, threadVars
  <2>5. /\ bot_status' \in {"NORMAL", "RECOVERY", "ERROR"}
        /\ out' \in {"none", "cbw", "data"} /\ in' \in {"none", "data", "csw"}
    BY DEF StorageInv, StorageTypeOK, Bit, Read10, Command, Changed, Ready, Abort, Acquired,
      ProcessRead, Moved, Failed, Touch, threadVars
  <2>6. /\ deleting' \in BOOLEAN /\ config' \in BOOLEAN /\ stalled' \in BOOLEAN
        /\ leaked' \in BOOLEAN /\ viewed' \in BOOLEAN /\ unseen' \in BOOLEAN
        /\ clash' \in BOOLEAN /\ blind' \in BOOLEAN /\ unlocked' \in BOOLEAN
    BY DEF StorageInv, StorageTypeOK, Bit, Read10, Command, Changed, Ready, Abort, Acquired,
      ProcessRead, Moved, Failed, Touch, threadVars
  <2> QED  BY <2>1, <2>2, <2>3, <2>4, <2>5, <2>6 DEF StorageTypeOK
<1>2. ASSUME ~unlocked' PROVE Core'
  BY <1>2 DEF StorageInv, StorageTypeOK, Bit, Core, VolumeAlone, HeldByCall, HeldByTransfer, InStep,
    Remembered, InTransfer, Using, Read10, Command, Changed, Ready, Abort, Acquired,
    ProcessRead, Moved, Failed, Touch, threadVars
<1> QED  BY <1>1, <1>2 DEF StorageInv

LEMMA Write10Keeps ==
  ASSUME NEW n \in 0..MaxBlocks, StorageInv, ~unlocked, Write10(n)
  PROVE  StorageInv'
<1>1. StorageTypeOK'
  <2>1. lock' \subseteq Bit /\ seen' \subseteq Bit
    BY DEF StorageInv, StorageTypeOK, Bit, Write10, Command, Changed, Ready, Acquired, threadVars
  <2>2. /\ volume' \in {"NONE", "INITIALIZED", "MOUNTED", "CARDREMOVED", "UNUSABLE"}
        /\ thread' \in {"idle", "swap", "init", "use", "load", "store", "free"}
    BY DEF StorageInv, StorageTypeOK, Bit, Write10, Command, Changed, Ready, Acquired, threadVars
  <2>3. bot_state' \in {"IDLE", "DATA_OUT", "DATA_IN", "LAST_DATA_IN", "SEND_DATA"}
    BY DEF StorageInv, StorageTypeOK, Bit, Write10, Command, Changed, Ready, Acquired, threadVars
  <2>4. blocks' \in 0..MaxBlocks
    BY BlocksAssumption DEF StorageInv, StorageTypeOK, Bit, Write10, Command, Changed, Ready,
      Acquired, threadVars
  <2>5. /\ bot_status' \in {"NORMAL", "RECOVERY", "ERROR"}
        /\ out' \in {"none", "cbw", "data"} /\ in' \in {"none", "data", "csw"}
    BY DEF StorageInv, StorageTypeOK, Bit, Write10, Command, Changed, Ready, Acquired, threadVars
  <2>6. /\ deleting' \in BOOLEAN /\ config' \in BOOLEAN /\ stalled' \in BOOLEAN
        /\ leaked' \in BOOLEAN /\ viewed' \in BOOLEAN /\ unseen' \in BOOLEAN
        /\ clash' \in BOOLEAN /\ blind' \in BOOLEAN /\ unlocked' \in BOOLEAN
    BY DEF StorageInv, StorageTypeOK, Bit, Write10, Command, Changed, Ready, Acquired, threadVars
  <2> QED  BY <2>1, <2>2, <2>3, <2>4, <2>5, <2>6 DEF StorageTypeOK
<1>2. ASSUME ~unlocked' PROVE Core'
  BY <1>2 DEF StorageInv, StorageTypeOK, Bit, Core, VolumeAlone, HeldByCall, HeldByTransfer, InStep,
    Remembered, InTransfer, Using, Write10, Command, Changed, Ready, Acquired,
    threadVars
<1> QED  BY <1>1, <1>2 DEF StorageInv

LEMMA PreventKeeps ==
  ASSUME NEW on \in BOOLEAN, StorageInv, ~unlocked, Prevent(on)
  PROVE  StorageInv'
<1>1. StorageTypeOK'
  BY BlocksAssumption DEF StorageInv, StorageTypeOK, Bit, Prevent, Command, Ready, SendCSW,
    threadVars, noteVars
<1>2. ASSUME ~unlocked' PROVE Core'
  BY <1>2 DEF StorageInv, StorageTypeOK, Bit, Core, VolumeAlone, HeldByCall, HeldByTransfer, InStep,
    Remembered, InTransfer, Using, Prevent, Command, Ready, SendCSW, threadVars,
    noteVars
<1> QED  BY <1>1, <1>2 DEF StorageInv

LEMMA EjectKeeps ==
  ASSUME StorageInv, ~unlocked, Eject
  PROVE  StorageInv'
<1>1. StorageTypeOK'
  <2>1. lock' \subseteq Bit /\ seen' \subseteq Bit
    BY DEF StorageInv, StorageTypeOK, Bit, Eject, Command, Ready, SendCSW, threadVars
  <2>2. /\ volume' \in {"NONE", "INITIALIZED", "MOUNTED", "CARDREMOVED", "UNUSABLE"}
        /\ thread' \in {"idle", "swap", "init", "use", "load", "store", "free"}
    BY DEF StorageInv, StorageTypeOK, Bit, Eject, Command, Ready, SendCSW, threadVars
  <2>3. bot_state' \in {"IDLE", "DATA_OUT", "DATA_IN", "LAST_DATA_IN", "SEND_DATA"}
    BY DEF StorageInv, StorageTypeOK, Bit, Eject, Command, Ready, SendCSW, threadVars
  <2>4. blocks' \in 0..MaxBlocks
    BY BlocksAssumption DEF StorageInv, StorageTypeOK, Bit, Eject, Command, Ready, SendCSW,
      threadVars
  <2>5. /\ bot_status' \in {"NORMAL", "RECOVERY", "ERROR"}
        /\ out' \in {"none", "cbw", "data"} /\ in' \in {"none", "data", "csw"}
    BY DEF StorageInv, StorageTypeOK, Bit, Eject, Command, Ready, SendCSW, threadVars
  <2>6. /\ deleting' \in BOOLEAN /\ config' \in BOOLEAN /\ stalled' \in BOOLEAN
        /\ leaked' \in BOOLEAN /\ viewed' \in BOOLEAN /\ unseen' \in BOOLEAN
        /\ clash' \in BOOLEAN /\ blind' \in BOOLEAN /\ unlocked' \in BOOLEAN
    BY DEF StorageInv, StorageTypeOK, Bit, Eject, Command, Ready, SendCSW, threadVars
  <2> QED  BY <2>1, <2>2, <2>3, <2>4, <2>5, <2>6 DEF StorageTypeOK
<1>2. ASSUME ~unlocked' PROVE Core'
  BY <1>2 DEF StorageInv, StorageTypeOK, Bit, Core, VolumeAlone, HeldByCall, HeldByTransfer, InStep,
    Remembered, InTransfer, Using, Eject, Command, Ready, SendCSW, threadVars
<1> QED  BY <1>1, <1>2 DEF StorageInv

LEMMA OtherCommandKeeps ==
  ASSUME StorageInv, ~unlocked, OtherCommand
  PROVE  StorageInv'
<1>1. StorageTypeOK'
  <2>1. lock' \subseteq Bit /\ seen' \subseteq Bit
    BY DEF StorageInv, StorageTypeOK, Bit, OtherCommand, Command, SendCSW, Abort, threadVars,
      noteVars
  <2>2. /\ volume' \in {"NONE", "INITIALIZED", "MOUNTED", "CARDREMOVED", "UNUSABLE"}
        /\ thread' \in {"idle", "swap", "init", "use", "load", "store", "free"}
    BY DEF StorageInv, StorageTypeOK, Bit, OtherCommand, Command, SendCSW, Abort, threadVars,
      noteVars
  <2>3. bot_state' \in {"IDLE", "DATA_OUT", "DATA_IN", "LAST_DATA_IN", "SEND_DATA"}
    BY DEF StorageInv, StorageTypeOK, Bit, OtherCommand, Command, SendCSW, Abort, threadVars,
      noteVars
  <2>4. blocks' \in 0..MaxBlocks
    BY BlocksAssumption DEF StorageInv, StorageTypeOK, Bit, OtherCommand, Command, SendCSW, Abort,
      threadVars, noteVars
  <2>5. /\ bot_status' \in {"NORMAL", "RECOVERY", "ERROR"}
        /\ out' \in {"none", "cbw", "data"} /\ in' \in {"none", "data", "csw"}
    BY DEF StorageInv, StorageTypeOK, Bit, OtherCommand, Command, SendCSW, Abort, threadVars,
      noteVars
  <2>6. /\ deleting' \in BOOLEAN /\ config' \in BOOLEAN /\ stalled' \in BOOLEAN
        /\ leaked' \in BOOLEAN /\ viewed' \in BOOLEAN /\ unseen' \in BOOLEAN
        /\ clash' \in BOOLEAN /\ blind' \in BOOLEAN /\ unlocked' \in BOOLEAN
    BY DEF StorageInv, StorageTypeOK, Bit, OtherCommand, Command, SendCSW, Abort, threadVars,
      noteVars
  <2> QED  BY <2>1, <2>2, <2>3, <2>4, <2>5, <2>6 DEF StorageTypeOK
<1>2. ASSUME ~unlocked' PROVE Core'
  BY <1>2 DEF StorageInv, StorageTypeOK, Bit, Core, VolumeAlone, HeldByCall, HeldByTransfer, InStep,
    Remembered, InTransfer, Using, OtherCommand, Command, SendCSW, Abort, threadVars,
    noteVars
<1> QED  BY <1>1, <1>2 DEF StorageInv

LEMMA BadCommandKeeps ==
  ASSUME StorageInv, ~unlocked, BadCommand
  PROVE  StorageInv'
<1>1. StorageTypeOK'
  BY BlocksAssumption DEF StorageInv, StorageTypeOK, Bit, BadCommand, Command, threadVars, noteVars
<1>2. ASSUME ~unlocked' PROVE Core'
  BY <1>2 DEF StorageInv, StorageTypeOK, Bit, Core, VolumeAlone, HeldByCall, HeldByTransfer, InStep,
    Remembered, InTransfer, Using, BadCommand, Command, threadVars, noteVars
<1> QED  BY <1>1, <1>2 DEF StorageInv

LEMMA DataInKeeps ==
  ASSUME StorageInv, ~unlocked, DataIn
  PROVE  StorageInv'
<1>1. StorageTypeOK'
  <2>1. lock' \subseteq Bit /\ seen' \subseteq Bit
    BY DEF StorageInv, StorageTypeOK, Bit, DataIn, ProcessRead, TransferError, Moved, Failed, Touch,
      SendCSW, threadVars
  <2>2. /\ volume' \in {"NONE", "INITIALIZED", "MOUNTED", "CARDREMOVED", "UNUSABLE"}
        /\ thread' \in {"idle", "swap", "init", "use", "load", "store", "free"}
    BY DEF StorageInv, StorageTypeOK, Bit, DataIn, ProcessRead, TransferError, Moved, Failed, Touch,
      SendCSW, threadVars
  <2>3. bot_state' \in {"IDLE", "DATA_OUT", "DATA_IN", "LAST_DATA_IN", "SEND_DATA"}
    BY DEF StorageInv, StorageTypeOK, Bit, DataIn, ProcessRead, TransferError, Moved, Failed, Touch,
      SendCSW, threadVars
  <2>4. blocks' \in 0..MaxBlocks
    BY BlocksAssumption DEF StorageInv, StorageTypeOK, Bit, DataIn, ProcessRead, TransferError,
      Moved, Failed, Touch, SendCSW, threadVars
  <2>5. /\ bot_status' \in {"NORMAL", "RECOVERY", "ERROR"}
        /\ out' \in {"none", "cbw", "data"} /\ in' \in {"none", "data", "csw"}
    BY DEF StorageInv, StorageTypeOK, Bit, DataIn, ProcessRead, TransferError, Moved, Failed, Touch,
      SendCSW, threadVars
  <2>6. /\ deleting' \in BOOLEAN /\ config' \in BOOLEAN /\ stalled' \in BOOLEAN
        /\ leaked' \in BOOLEAN /\ viewed' \in BOOLEAN /\ unseen' \in BOOLEAN
        /\ clash' \in BOOLEAN /\ blind' \in BOOLEAN /\ unlocked' \in BOOLEAN
    BY DEF StorageInv, StorageTypeOK, Bit, DataIn, ProcessRead, TransferError, Moved, Failed, Touch,
      SendCSW, threadVars
  <2> QED  BY <2>1, <2>2, <2>3, <2>4, <2>5, <2>6 DEF StorageTypeOK
<1>2. ASSUME ~unlocked' PROVE Core'
  BY <1>2 DEF StorageInv, StorageTypeOK, Bit, Core, VolumeAlone, HeldByCall, HeldByTransfer, InStep,
    Remembered, InTransfer, Using, DataIn, ProcessRead, TransferError, Moved, Failed,
    Touch, SendCSW, threadVars
<1> QED  BY <1>1, <1>2 DEF StorageInv

LEMMA DataOutKeeps ==
  ASSUME StorageInv, ~unlocked, DataOut
  PROVE  StorageInv'
<1>1. StorageTypeOK'
  <2>1. lock' \subseteq Bit /\ seen' \subseteq Bit
    BY DEF StorageInv, StorageTypeOK, Bit, DataOut, ProcessWrite, TransferError, Moved, Failed,
      Touch, SendCSW, threadVars
  <2>2. /\ volume' \in {"NONE", "INITIALIZED", "MOUNTED", "CARDREMOVED", "UNUSABLE"}
        /\ thread' \in {"idle", "swap", "init", "use", "load", "store", "free"}
    BY DEF StorageInv, StorageTypeOK, Bit, DataOut, ProcessWrite, TransferError, Moved, Failed,
      Touch, SendCSW, threadVars
  <2>3. bot_state' \in {"IDLE", "DATA_OUT", "DATA_IN", "LAST_DATA_IN", "SEND_DATA"}
    BY DEF StorageInv, StorageTypeOK, Bit, DataOut, ProcessWrite, TransferError, Moved, Failed,
      Touch, SendCSW, threadVars
  <2>4. blocks' \in 0..MaxBlocks
    BY BlocksAssumption DEF StorageInv, StorageTypeOK, Bit, DataOut, ProcessWrite, TransferError,
      Moved, Failed, Touch, SendCSW, threadVars
  <2>5. /\ bot_status' \in {"NORMAL", "RECOVERY", "ERROR"}
        /\ out' \in {"none", "cbw", "data"} /\ in' \in {"none", "data", "csw"}
    BY DEF StorageInv, StorageTypeOK, Bit, DataOut, ProcessWrite, TransferError, Moved, Failed,
      Touch, SendCSW, threadVars
  <2>6. /\ deleting' \in BOOLEAN /\ config' \in BOOLEAN /\ stalled' \in BOOLEAN
        /\ leaked' \in BOOLEAN /\ viewed' \in BOOLEAN /\ unseen' \in BOOLEAN
        /\ clash' \in BOOLEAN /\ blind' \in BOOLEAN /\ unlocked' \in BOOLEAN
    BY DEF StorageInv, StorageTypeOK, Bit, DataOut, ProcessWrite, TransferError, Moved, Failed,
      Touch, SendCSW, threadVars
  <2> QED  BY <2>1, <2>2, <2>3, <2>4, <2>5, <2>6 DEF StorageTypeOK
<1>2. ASSUME ~unlocked' PROVE Core'
  BY <1>2 DEF StorageInv, StorageTypeOK, Bit, Core, VolumeAlone, HeldByCall, HeldByTransfer, InStep,
    Remembered, InTransfer, Using, DataOut, ProcessWrite, TransferError, Moved, Failed,
    Touch, SendCSW, threadVars
<1> QED  BY <1>1, <1>2 DEF StorageInv

LEMMA ClearFeatureKeeps ==
  ASSUME StorageInv, ~unlocked, ClearFeature
  PROVE  StorageInv'
<1>1. StorageTypeOK'
  <2>1. lock' \subseteq Bit /\ seen' \subseteq Bit
    BY DEF StorageInv, StorageTypeOK, Bit, ClearFeature, SendCSW, threadVars
  <2>2. /\ volume' \in {"NONE", "INITIALIZED", "MOUNTED", "CARDREMOVED", "UNUSABLE"}
        /\ thread' \in {"idle", "swap", "init", "use", "load", "store", "free"}
    BY DEF StorageInv, StorageTypeOK, Bit, ClearFeature, SendCSW, threadVars
  <2>3. bot_state' \in {"IDLE", "DATA_OUT", "DATA_IN", "LAST_DATA_IN", "SEND_DATA"}
    BY DEF StorageInv, StorageTypeOK, Bit, ClearFeature, SendCSW, threadVars
  <2>4. blocks' \in 0..MaxBlocks
    BY BlocksAssumption DEF StorageInv, StorageTypeOK, Bit, ClearFeature, SendCSW, threadVars
  <2>5. /\ bot_status' \in {"NORMAL", "RECOVERY", "ERROR"}
        /\ out' \in {"none", "cbw", "data"} /\ in' \in {"none", "data", "csw"}
    BY DEF StorageInv, StorageTypeOK, Bit, ClearFeature, SendCSW, threadVars
  <2>6. /\ deleting' \in BOOLEAN /\ config' \in BOOLEAN /\ stalled' \in BOOLEAN
        /\ leaked' \in BOOLEAN /\ viewed' \in BOOLEAN /\ unseen' \in BOOLEAN
        /\ clash' \in BOOLEAN /\ blind' \in BOOLEAN /\ unlocked' \in BOOLEAN
    BY DEF StorageInv, StorageTypeOK, Bit, ClearFeature, SendCSW, threadVars
  <2> QED  BY <2>1, <2>2, <2>3, <2>4, <2>5, <2>6 DEF StorageTypeOK
<1>2. ASSUME ~unlocked' PROVE Core'
  BY <1>2 DEF StorageInv, StorageTypeOK, Bit, Core, VolumeAlone, HeldByCall, HeldByTransfer, InStep,
    Remembered, InTransfer, Using, ClearFeature, SendCSW, threadVars
<1> QED  BY <1>1, <1>2 DEF StorageInv

LEMMA BotResetKeeps ==
  ASSUME StorageInv, ~unlocked, BotReset
  PROVE  StorageInv'
<1>1. StorageTypeOK'
  BY BlocksAssumption DEF StorageInv, StorageTypeOK, Bit, BotReset, threadVars
<1>2. ASSUME ~unlocked' PROVE Core'
  BY <1>2 DEF StorageInv, StorageTypeOK, Bit, Core, VolumeAlone, HeldByCall, HeldByTransfer, InStep,
    Remembered, InTransfer, Using, BotReset, threadVars
<1> QED  BY <1>1, <1>2 DEF StorageInv

LEMMA ConfigureKeeps ==
  ASSUME StorageInv, ~unlocked, Configure
  PROVE  StorageInv'
<1>1. StorageTypeOK'
  BY BlocksAssumption DEF StorageInv, StorageTypeOK, Bit, Configure, threadVars, noteVars
<1>2. ASSUME ~unlocked' PROVE Core'
  BY <1>2 DEF StorageInv, StorageTypeOK, Bit, Core, VolumeAlone, HeldByCall, HeldByTransfer, InStep,
    Remembered, InTransfer, Using, Configure, threadVars, noteVars
<1> QED  BY <1>1, <1>2 DEF StorageInv

LEMMA DeconfigureKeeps ==
  ASSUME StorageInv, ~unlocked, Deconfigure
  PROVE  StorageInv'
<1>1. StorageTypeOK'
  BY BlocksAssumption DEF StorageInv, StorageTypeOK, Bit, Deconfigure, threadVars
<1>2. ASSUME ~unlocked' PROVE Core'
  BY <1>2 DEF StorageInv, StorageTypeOK, Bit, Core, VolumeAlone, HeldByCall, HeldByTransfer, InStep,
    Remembered, InTransfer, Using, Deconfigure, threadVars
<1> QED  BY <1>1, <1>2 DEF StorageInv

(* A step that changes nothing keeps the invariant.                        *)
LEMMA StutterKeeps ==
  ASSUME StorageInv, UNCHANGED storageVars
  PROVE  StorageInv'
  BY DEF StorageInv, StorageTypeOK, Core, VolumeAlone, HeldByCall, HeldByTransfer, InStep,
    Remembered, InTransfer, Using, storageVars, threadVars, botVars, noteVars

(* One step of the sketch, or one event of the bus.                         *)
LEMMA StorageNextKeeps ==
  ASSUME StorageInv, StorageNext
  PROVE  StorageInv'
<1>1. ~unlocked
  BY DEF StorageNext
<1>2. CASE FileSystem
  BY <1>1, <1>2, InitVolumeKeeps, InitSwapKeeps, InitDoneKeeps, CallKeeps, ModifyKeeps,
    ModifyLoadKeeps, ModifyStoreKeeps, ReturnKeeps, FreeKeeps DEF FileSystem
<1>3. CASE Host
  BY <1>1, <1>3, RefuseKeeps, MisfitKeeps, Read10Keeps, Write10Keeps, PreventKeeps,
    EjectKeeps, OtherCommandKeeps, BadCommandKeeps, DataInKeeps, DataOutKeeps,
    ClearFeatureKeeps, BotResetKeeps, ConfigureKeeps, DeconfigureKeeps DEF Host
<1> QED  BY <1>2, <1>3 DEF StorageNext

LEMMA InitInvariant == StorageInit => StorageInv
<1>1. StorageInit => StorageTypeOK
  <2> SUFFICES ASSUME StorageInit PROVE StorageTypeOK
    OBVIOUS
  <2>1. blocks \in 0..MaxBlocks
    BY BlocksAssumption DEF StorageInit
  <2>2. lock \subseteq Bit /\ seen \subseteq Bit
    BY DEF StorageInit
  <2> QED  BY <2>1, <2>2 DEF StorageInit, StorageTypeOK
<1>2. StorageInit => Core
  BY DEF StorageInit, Core, VolumeAlone, HeldByCall, HeldByTransfer, InStep, Remembered,
    InTransfer, Using
<1> QED  BY <1>1, <1>2 DEF StorageInv

THEOREM StorageInvariance == StorageSpec => []StorageInv
<1>1. StorageInv /\ [StorageNext]_storageVars => StorageInv'
  BY StorageNextKeeps, StutterKeeps
<1> QED  BY InitInvariant, <1>1, PTL DEF StorageSpec

(* The host and the file system are never on the medium together, and SCSI is  *)
(* set for as long as a transfer may still touch it: acquire(), read() and     *)
(* write() of dosfs_storage.c against f_initvolume().                         *)
THEOREM HostAndSketchExclude == StorageSpec => []Exclusive
<1>1. StorageInv => Exclusive
  BY DEF StorageInv, Core, VolumeAlone, HeldByCall, HeldByTransfer, Exclusive
<1> QED  BY StorageInvariance, <1>1, PTL

(* A host that has used the medium hears of a change before it uses it again:  *)
(* is_changed() of dosfs_storage.c against the stores of MODIFIED.             *)
THEOREM HostIsTold == StorageSpec => []Told
<1>1. StorageInv => Told
  BY DEF StorageInv, Core, Told
<1> QED  BY StorageInvariance, <1>1, PTL

(* The variables keep their types; blocks never leaves the length of the       *)
(* transfer, whose last packet is counted down in the callback.                *)
THEOREM StorageTypeCorrect == StorageSpec => []StorageTypeOK
<1>1. StorageInv => StorageTypeOK
  BY DEF StorageInv
<1> QED  BY StorageInvariance, <1>1, PTL
=============================================================================
