--------------------------- MODULE SflashOperators ---------------------------
(***************************************************************************)
(* What each operator of Sflash does to a device, for every geometry, every  *)
(* choice of victims and of blocks: the lemmas of SflashProofs.              *)
(*                                                                         *)
(* Good says how flash and RAM fit while the device is mounted.  A block that *)
(* is in use is what its info word says, and it is the one the tables lead to *)
(* from the address or the segment of the word (Used, TableEntry,            *)
(* AddressEntry); the caches hold the translation blocks they are tagged with *)
(* (Cached, Cached2); a block that is not written is blank (Blanks); what is  *)
(* counted is counted right (Counted, Scored).  Each operation is a function  *)
(* from devices to devices: that it keeps Good, and what it does to Where,    *)
(* the block an address is found in, is a lemma per operator.  Inside a write *)
(* or a discard Good does not hold; Almost, Placed and Doomed say what does.  *)
(* Ok says of a device that was so changed that power may be lost before any  *)
(* of the steps so far that CrashBefore names: a mount recovers the flash     *)
(* (Survives).                                                              *)
(***************************************************************************)
EXTENDS Sflash, FiniteSetTheorems, WellFoundedInduction, TLAPS

(* An info word, a block and the flash, as records.                        *)
BlockImage == [user : User, map : [Entry -> Content]]
UnitImage == [info : [0..Blocks - 1 -> InfoWord], block : [Index -> BlockImage]]
Flash == [Unit -> UnitImage]
StepName == {"xlate", "xlate2", "merge", "retire", "promote", "reserve", "data", "written",
             "map", "commit", "unmap", "delete", "discard", "abandon", "duplicate",
             "victim", "copy", "reclaim", "erase", "header", "sector"}
Step == [step : StepName, before : Flash, sticks : BOOLEAN]
Ftl == [sector_table : [Sector -> Unit \cup {NoUnit}],
        block_table : [{a \in Address : Direct(a)} -> Content],
        xlate_table : [Segments -> Content], xlate2_table : [Segments -> Content],
        xlate_logical : Content \cup {Reserved}, xlate_cache : [Entry -> Content],
        xlate2_logical : Content \cup {Reserved}, xlate2_cache : [Entry -> Content],
        alloc_sector : Sector, alloc_mask : SUBSET Index, alloc_free : Int,
        score : [Sector -> Nat], allocated : [Sector -> BOOLEAN],
        reclaim : Unit \cup {NoUnit}]
Device == [nor : Flash, ftl : Ftl, steps : Seq(Step)]
Sticks(d) == \A k \in DOMAIN d.steps : d.steps[k].sticks

(* One program or erase: it changes one unit, and is one step more.        *)
LEMMA PutOne ==
  ASSUME NEW d \in Device, NEW step \in StepName, NEW u \in Unit, NEW image \in UnitImage,
         NEW sticks \in BOOLEAN, NEW r, r = Put(d, step, u, image, sticks)
  PROVE  /\ r \in Device
         /\ r.nor = [d.nor EXCEPT ![u] = image]
         /\ r.ftl = d.ftl
         /\ Sticks(r) <=> Sticks(d) /\ sticks
<1> DEFINE new == [step |-> step, before |-> d.nor, sticks |-> sticks]
<1>1. d.nor \in Flash /\ d.ftl \in Ftl /\ d.steps \in Seq(Step)
  BY DEF Device
<1>2. new \in Step
  BY <1>1 DEF Step
<1>3. r.nor = [d.nor EXCEPT ![u] = image] /\ r.ftl = d.ftl /\ r.steps = Append(d.steps, new)
  BY DEF Put, Device
<1>4. r = [nor |-> r.nor, ftl |-> r.ftl, steps |-> r.steps]
  BY DEF Put, Device
<1>5. [d.nor EXCEPT ![u] = image] \in Flash
  BY <1>1 DEF Flash
<1>6. Append(d.steps, new) \in Seq(Step)
  BY <1>1, <1>2
<1>7. r \in Device
  BY <1>1, <1>3, <1>4, <1>5, <1>6 DEF Device
<1>8. Sticks(r) <=> Sticks(d) /\ sticks
  <2> DEFINE n == Len(d.steps)
  <2>1. /\ n \in Nat /\ DOMAIN d.steps = 1..n /\ DOMAIN r.steps = 1..n + 1
        /\ r.steps[n + 1] = new /\ \A k \in 1..n : r.steps[k] = d.steps[k]
    BY <1>1, <1>2, <1>3
  <2>2. new.sticks = sticks
    OBVIOUS
  <2> HIDE DEF new, n
  <2>3. \A k : k \in 1..n + 1 <=> k \in 1..n \/ k = n + 1
    BY <2>1
  <2> QED  BY <2>1, <2>2, <2>3 DEF Sticks
<1> QED  BY <1>3, <1>7, <1>8

(* Segment and entry of an address.                                        *)
LEMMA DivMod ==
  \A x \in Nat, n \in Nat \ {0} : /\ x \div n \in Nat /\ x % n \in 0..n - 1
                           /\ x = n * (x \div n) + (x % n)
OBVIOUS

LEMMA ModSmall == \A x \in Nat, n \in Nat \ {0} : x < n => x % n = x /\ (x + n) % n = x
<1> SUFFICES ASSUME NEW x \in Nat, NEW n \in Nat \ {0}, x < n PROVE x % n = x /\ (x + n) % n = x
  OBVIOUS
<1>1. x % n = x
  OBVIOUS
<1>2. (x + n) % n = x
  OBVIOUS
<1> QED BY <1>1, <1>2

(* A logical block is none of the marks of the tables.                     *)
LEMMA Logicals ==
  /\ NotAllocated \notin Logical /\ Deleted \notin Logical /\ Reserved \notin Logical /\ Junk \notin Logical
  /\ Reserved \notin Content
  /\ NotAllocated # Deleted /\ NotAllocated # Reserved /\ NotAllocated # Junk
  /\ \A l \in Logical : l = <<l[1], l[2]>> /\ l[1] \in Sector /\ l[2] \in Index
  /\ \A l \in Logical, m \in Logical : l[1] = m[1] /\ l[2] = m[2] => l = m
BY GeometryAssumption DEF Logical, NotAllocated, Deleted, Reserved, Junk, Content, Sector, Index

(* There are finitely many blocks.                                         *)
LEMMA FiniteLogicals ==
  /\ IsFiniteSet(Index) /\ Cardinality(Index) = Blocks - 1
  /\ IsFiniteSet(Logical) /\ Cardinality(Logical) = (Units - 1) * (Blocks - 1)
<1>1. Index = 1..Blocks - 1 /\ Sector = 0..Units - 2 /\ Blocks - 1 \in Int /\ Units - 2 \in Int
  BY GeometryAssumption DEF Index, Sector
<1>2. IsFiniteSet(Index) /\ Cardinality(Index) = Blocks - 1
  BY <1>1, FS_Interval, GeometryAssumption
<1>3. IsFiniteSet(Sector) /\ Cardinality(Sector) = Units - 1
  BY SMTT(30), <1>1, FS_Interval, GeometryAssumption
<1> QED  BY <1>2, <1>3, FS_Product DEF Logical
-----------------------------------------------------------------------------
(* The flash as it is seen through the sector table.                       *)

(* Every unit but the one kept for reclaiming is one sector's.              *)
Sectors(d) ==
  /\ \A s \in Sector : d.ftl.sector_table[s] \in Unit /\ d.ftl.sector_table[s] # d.ftl.reclaim
  /\ \A s, t \in Sector : d.ftl.sector_table[s] = d.ftl.sector_table[t] => s = t
  /\ d.ftl.reclaim \in Unit
  /\ \A u \in Unit : u = d.ftl.reclaim \/ \E s \in Sector : u = d.ftl.sector_table[s]

(* A logical block looks the same.                                         *)
SameAt(d, r, l) ==
  InfoAt(r, l) = InfoAt(d, l) /\ MapAt(r, l) = MapAt(d, l) /\ UserAt(r, l) = UserAt(d, l)

SameFlash(d, r) == r.nor = d.nor /\ r.steps = d.steps

(* Only logical block l may have changed.                                  *)
Touched(d, r, l) ==
  /\ r \in Device
  /\ r.ftl = d.ftl
  /\ \A m \in Logical : m # l => SameAt(d, r, m)
  /\ \A u \in Unit : r.nor[u].info[0] = d.nor[u].info[0]
  /\ r.nor[d.ftl.reclaim] = d.nor[d.ftl.reclaim]

(* What is seen of a block whose unit, or whose image, is known, ...       *)
LEMMA Seen ==
  ASSUME NEW d \in Device, Sectors(d), NEW l \in Logical
  PROVE  /\ UnitOf(d, l) = d.ftl.sector_table[l[1]] /\ UnitOf(d, l) \in Unit
         /\ UnitOf(d, l) # NoUnit /\ UnitOf(d, l) # d.ftl.reclaim
         /\ l[2] \in Index /\ l[2] # 0 /\ l[2] \in 0..Blocks - 1
         /\ d.nor[UnitOf(d, l)] \in UnitImage
         /\ InfoAt(d, l) = d.nor[UnitOf(d, l)].info[l[2]] /\ InfoAt(d, l) \in InfoWord
         /\ MapAt(d, l) = d.nor[UnitOf(d, l)].block[l[2]].map /\ MapAt(d, l) \in [Entry -> Content]
         /\ UserAt(d, l) = d.nor[UnitOf(d, l)].block[l[2]].user /\ UserAt(d, l) \in User
<1>1. l[1] \in Sector /\ l[2] \in Index /\ l[2] # 0 /\ l[2] \in 0..Blocks - 1
  BY GeometryAssumption DEF Logical, Index
<1>2. /\ UnitOf(d, l) = d.ftl.sector_table[l[1]] /\ UnitOf(d, l) \in Unit
      /\ UnitOf(d, l) # d.ftl.reclaim
  BY <1>1 DEF UnitOf, Sectors
<1>3. UnitOf(d, l) # NoUnit
  BY <1>2, GeometryAssumption DEF Unit, NoUnit
<1> DEFINE u == UnitOf(d, l)
<1>4. d.nor[u] \in UnitImage
  BY <1>2 DEF Device, Flash
<1>5. d.nor[u].info[l[2]] \in InfoWord /\ d.nor[u].block[l[2]] \in BlockImage
  BY <1>1, <1>4 DEF UnitImage
<1>6. d.nor[u].block[l[2]].map \in [Entry -> Content] /\ d.nor[u].block[l[2]].user \in User
  BY <1>5 DEF BlockImage
<1>7. /\ InfoAt(d, l) = d.nor[u].info[l[2]] /\ MapAt(d, l) = d.nor[u].block[l[2]].map
      /\ UserAt(d, l) = d.nor[u].block[l[2]].user
  BY SMTT(30), <1>1, <1>3 DEF InfoAt, MapAt, UserAt
<1> QED  BY Zenon, <1>1, <1>2, <1>3, <1>4, <1>5, <1>6, <1>7

(* ... and of the other blocks of that unit, ...                           *)
LEMMA NotSeen ==
  ASSUME NEW d, NEW l \in {NotAllocated, Reserved}
  PROVE  MapAt(d, l) = BlankMap
<1>1. l[1] \notin Sector \/ l[2] = 0
  BY GeometryAssumption DEF NotAllocated, Reserved, Sector
<1> QED  BY <1>1 DEF MapAt, UnitOf

(* Two logical blocks are two places of the flash.                         *)
LEMMA Apart ==
  ASSUME NEW d \in Device, Sectors(d), NEW l \in Logical, NEW m \in Logical, m # l
  PROVE  UnitOf(d, m) # UnitOf(d, l) \/ m[2] # l[2]
BY Seen, Logicals DEF Sectors

(* ... and of all blocks when the flash is the same.                       *)
LEMMA SameViews ==
  ASSUME NEW d, NEW r, SameFlash(d, r), r.ftl.sector_table = d.ftl.sector_table
  PROVE  /\ \A l : SameAt(d, r, l)
         /\ Sticks(r) <=> Sticks(d)
<1>1. \A l : UnitOf(r, l) = UnitOf(d, l)
  BY DEF UnitOf
<1>2. \A l : SameAt(d, r, l)
  BY <1>1 DEF SameAt, SameFlash, InfoAt, MapAt, UserAt
<1> QED  BY <1>2 DEF SameFlash, Sticks

(* A unit differs from what it was in one block.                           *)
Differs(old, image, k) ==
  /\ \A i \in 0..Blocks - 1 : i # k => image.info[i] = old.info[i]
  /\ \A i \in Index : i # k => image.block[i] = old.block[i]

(* A program of one block.                                                 *)
LEMMA PutBlock ==
  ASSUME NEW d \in Device, Sectors(d), NEW l \in Logical, NEW step \in StepName,
         NEW image \in UnitImage, NEW sticks \in BOOLEAN,
         Differs(d.nor[UnitOf(d, l)], image, l[2]),
         NEW r, r = Put(d, step, UnitOf(d, l), image, sticks)
  PROVE  /\ Touched(d, r, l)
         /\ InfoAt(r, l) = image.info[l[2]]
         /\ MapAt(r, l) = image.block[l[2]].map /\ UserAt(r, l) = image.block[l[2]].user
         /\ Sticks(r) <=> Sticks(d) /\ sticks
<1> DEFINE u == UnitOf(d, l)
<1>1. /\ u \in Unit /\ u # d.ftl.reclaim /\ l[2] \in Index /\ l[2] # 0 /\ l[2] \in 0..Blocks - 1
      /\ d.nor[u] \in UnitImage
  BY Seen
<1>2. /\ r \in Device /\ r.nor = [d.nor EXCEPT ![u] = image] /\ r.ftl = d.ftl
      /\ Sticks(r) <=> Sticks(d) /\ sticks
  BY <1>1, PutOne
<1>3. d.nor \in Flash /\ DOMAIN d.nor = Unit
  BY DEF Device, Flash
<1>4. r.nor[u] = image /\ \A w \in Unit : w # u => r.nor[w] = d.nor[w]
  BY <1>1, <1>2, <1>3
<1>5. \A i \in 0..Blocks - 1 : i # l[2] => image.info[i] = d.nor[u].info[i]
  BY DEF Differs
<1>6. \A i \in Index : i # l[2] => image.block[i] = d.nor[u].block[i]
  BY DEF Differs
<1>7. Sectors(r)
  BY SMTT(30), <1>2 DEF Sectors
<1>8. \A m \in Logical : UnitOf(r, m) = UnitOf(d, m)
  BY ZenonT(40), <1>2 DEF UnitOf
<1>9. ASSUME NEW m \in Logical
       PROVE  /\ InfoAt(r, m) = r.nor[UnitOf(d, m)].info[m[2]]
              /\ MapAt(r, m) = r.nor[UnitOf(d, m)].block[m[2]].map
              /\ UserAt(r, m) = r.nor[UnitOf(d, m)].block[m[2]].user
  <2>1. /\ InfoAt(r, m) = r.nor[UnitOf(r, m)].info[m[2]]
        /\ MapAt(r, m) = r.nor[UnitOf(r, m)].block[m[2]].map
        /\ UserAt(r, m) = r.nor[UnitOf(r, m)].block[m[2]].user
    <3>1. r \in Device
      BY <1>2
    <3> HIDE DEF u
    <3> QED  BY <1>7, <3>1, Seen
  <2>2. UnitOf(r, m) = UnitOf(d, m)
    BY <1>8
  <2> QED  BY <2>1, <2>2
<1>10. /\ InfoAt(r, l) = image.info[l[2]]
       /\ MapAt(r, l) = image.block[l[2]].map /\ UserAt(r, l) = image.block[l[2]].user
  BY <1>4, <1>9
<1>11. ASSUME NEW m \in Logical, m # l PROVE SameAt(d, r, m)
  <2>1. UnitOf(d, m) # u \/ m[2] # l[2]
    BY <1>11, Apart
  <2>2. /\ UnitOf(d, m) \in Unit /\ m[2] \in Index /\ m[2] \in 0..Blocks - 1
        /\ InfoAt(d, m) = d.nor[UnitOf(d, m)].info[m[2]]
        /\ MapAt(d, m) = d.nor[UnitOf(d, m)].block[m[2]].map
        /\ UserAt(d, m) = d.nor[UnitOf(d, m)].block[m[2]].user
    BY Seen
  <2>3. /\ InfoAt(r, m) = r.nor[UnitOf(d, m)].info[m[2]]
        /\ MapAt(r, m) = r.nor[UnitOf(d, m)].block[m[2]].map
        /\ UserAt(r, m) = r.nor[UnitOf(d, m)].block[m[2]].user
    BY <1>9
  <2>4. CASE UnitOf(d, m) # u
    BY <1>4, <2>2, <2>3, <2>4 DEF SameAt
  <2>5. CASE UnitOf(d, m) = u /\ m[2] # l[2]
    <3>1. r.nor[UnitOf(d, m)] = image
      BY <1>4, <2>5
    <3>2. image.info[m[2]] = d.nor[UnitOf(d, m)].info[m[2]]
      BY <1>5, <2>2, <2>5
    <3>3. image.block[m[2]] = d.nor[UnitOf(d, m)].block[m[2]]
      BY <1>6, <2>2, <2>5
    <3> QED  BY <2>2, <2>3, <3>1, <3>2, <3>3 DEF SameAt
  <2> QED  BY <2>1, <2>4, <2>5
<1>12. \A w \in Unit : r.nor[w].info[0] = d.nor[w].info[0]
  <2>1. 0 \in 0..Blocks - 1 /\ 0 # l[2]
    BY <1>1, GeometryAssumption
  <2>2. image.info[0] = d.nor[u].info[0]
    BY <1>5, <2>1
  <2> HIDE DEF u
  <2> QED  BY <1>4, <2>2
<1>13. r.nor[d.ftl.reclaim] = d.nor[d.ftl.reclaim]
  BY <1>1, <1>4 DEF Sectors
<1> QED  BY <1>2, <1>11, <1>12, <1>13, <1>10 DEF Touched
-----------------------------------------------------------------------------
(* The programs of an operation, as they are seen.                         *)

LEMMA Images ==
  /\ \A type \in SUBSET (0..3), of \in {-1} \cup 0..Units + Addresses : Info(type, of) \in InfoWord
  /\ BlankInfo \in InfoWord /\ BlankMap \in [Entry -> Content]
  /\ BlankBlock \in BlockImage /\ StaleBlock \in BlockImage
BY DEF Info, InfoWord, BlankInfo, BlankMap, BlankBlock, StaleBlock, BlockImage, RESERVED, User, Content

(* Bits of the type of an info word are cleared, and some are left.         *)
LEMMA TypeNarrowed ==
  ASSUME NEW d \in Device, Sectors(d), NEW l \in Logical, NEW step \in StepName,
         NEW type \in SUBSET (0..3), type # DELETED,
         type \subseteq InfoAt(d, l).type,
         NEW r, r = InfoType(d, step, l, type)
  PROVE  /\ Touched(d, r, l)
         /\ InfoAt(r, l) = Info(type, InfoAt(d, l).of)
         /\ MapAt(r, l) = MapAt(d, l) /\ UserAt(r, l) = UserAt(d, l)
         /\ Sticks(r) <=> Sticks(d)
<1> DEFINE u == UnitOf(d, l)
           old == InfoAt(d, l)
           word == Info(type, old.of)
           image == [d.nor[u] EXCEPT !.info[l[2]] = word]
           sticks == type \subseteq old.type
<1>1. /\ u # NoUnit /\ d.nor[u] \in UnitImage /\ old \in InfoWord
      /\ l[2] \in Index /\ l[2] \in 0..Blocks - 1
      /\ MapAt(d, l) = d.nor[u].block[l[2]].map /\ UserAt(d, l) = d.nor[u].block[l[2]].user
  BY Seen
<1>2. r = Put(d, step, u, image, sticks)
  <2>1. old.type \cap type = type /\ old.type \cap type # DELETED
    OBVIOUS
  <2> HIDE DEF u, old
  <2> QED  BY <1>1, <2>1 DEF InfoType, u, old
<1>3. word \in InfoWord
  BY <1>1, Images DEF InfoWord
<1>4. d.nor[u].info \in [0..Blocks - 1 -> InfoWord] /\ d.nor[u].block \in [Index -> BlockImage]
  BY <1>1 DEF UnitImage
<1>5. sticks \in BOOLEAN
  OBVIOUS
<1>6. sticks
  OBVIOUS
<1> HIDE DEF u, old, word, sticks
<1>7. /\ image \in UnitImage /\ Differs(d.nor[u], image, l[2])
      /\ image.info[l[2]] = word /\ image.block[l[2]] = d.nor[u].block[l[2]]
  BY <1>1, <1>3, <1>4 DEF UnitImage, Differs
<1> HIDE DEF image
<1>8. /\ Touched(d, r, l)
      /\ InfoAt(r, l) = image.info[l[2]]
      /\ MapAt(r, l) = image.block[l[2]].map /\ UserAt(r, l) = image.block[l[2]].user
      /\ Sticks(r) <=> Sticks(d) /\ sticks
  <2>1. /\ image \in UnitImage /\ sticks \in BOOLEAN
        /\ Differs(d.nor[UnitOf(d, l)], image, l[2])
        /\ r = Put(d, step, UnitOf(d, l), image, sticks)
    BY <1>2, <1>5, <1>7 DEF u
  <2> QED  BY <2>1, PutBlock
<1> QED  BY <1>1, <1>7, <1>8, <1>6 DEF word, old

(* All bits are cleared: the block is deleted.                             *)
LEMMA TypeDeleted ==
  ASSUME NEW d \in Device, Sectors(d), NEW l \in Logical, NEW step \in StepName,
         NEW r, r = InfoType(d, step, l, DELETED)
  PROVE  /\ Touched(d, r, l)
         /\ InfoAt(r, l) = Info(DELETED, -1)
         /\ MapAt(r, l) = BlankMap /\ UserAt(r, l) = Stale
         /\ Sticks(r) <=> Sticks(d)
<1> DEFINE u == UnitOf(d, l)
           word == Info(DELETED, -1)
           image == [d.nor[u] EXCEPT !.info[l[2]] = word,
                                     !.block = [@ EXCEPT ![l[2]] = StaleBlock]]
           sticks == DELETED \subseteq InfoAt(d, l).type
<1>1. /\ u # NoUnit /\ d.nor[u] \in UnitImage
      /\ l[2] \in Index /\ l[2] # 0 /\ l[2] \in 0..Blocks - 1
  BY Seen
<1>2. r = Put(d, step, u, image, sticks)
  BY <1>1 DEF InfoType, DELETED
<1>3. word \in InfoWord /\ StaleBlock \in BlockImage
  BY Images DEF DELETED
<1>4. d.nor[u].info \in [0..Blocks - 1 -> InfoWord] /\ d.nor[u].block \in [Index -> BlockImage]
  BY <1>1 DEF UnitImage
<1>5. sticks \in BOOLEAN /\ sticks = TRUE
  BY DEF DELETED
<1> HIDE DEF u, word, sticks
<1>6. /\ image \in UnitImage /\ Differs(d.nor[u], image, l[2])
      /\ image.info[l[2]] = word /\ image.block[l[2]] = StaleBlock
  BY <1>1, <1>3, <1>4 DEF UnitImage, Differs
<1> HIDE DEF image
<1>7. /\ Touched(d, r, l)
      /\ InfoAt(r, l) = image.info[l[2]]
      /\ MapAt(r, l) = image.block[l[2]].map /\ UserAt(r, l) = image.block[l[2]].user
      /\ Sticks(r) <=> Sticks(d) /\ sticks
  <2>1. /\ image \in UnitImage /\ sticks \in BOOLEAN
        /\ Differs(d.nor[UnitOf(d, l)], image, l[2])
        /\ r = Put(d, step, UnitOf(d, l), image, sticks)
    BY <1>2, <1>5, <1>6 DEF u
  <2> QED  BY <2>1, PutBlock
<1> QED  BY <1>5, <1>6, <1>7 DEF word, StaleBlock

(* The info word of a block is written.                                    *)
LEMMA EntryWritten ==
  ASSUME NEW d \in Device, Sectors(d), NEW l \in Logical, NEW step \in StepName,
         NEW type \in SUBSET (0..3), NEW of \in {-1} \cup 0..Units + Addresses,
         NEW r, r = InfoEntry(d, step, l, type, of)
  PROVE  /\ Touched(d, r, l)
         /\ InfoAt(r, l) = Info(type, of)
         /\ MapAt(r, l) = MapAt(d, l) /\ UserAt(r, l) = UserAt(d, l)
         /\ Sticks(r) <=> Sticks(d) /\ InfoAt(d, l) = BlankInfo
<1> DEFINE u == UnitOf(d, l)
           word == Info(type, of)
           image == [d.nor[u] EXCEPT !.info[l[2]] = word]
           sticks == d.nor[u].info[l[2]] = BlankInfo
<1>1. /\ u # NoUnit /\ d.nor[u] \in UnitImage
      /\ l[2] \in Index /\ l[2] \in 0..Blocks - 1
      /\ MapAt(d, l) = d.nor[u].block[l[2]].map /\ UserAt(d, l) = d.nor[u].block[l[2]].user
      /\ InfoAt(d, l) = d.nor[u].info[l[2]]
  BY Seen
<1>2. r = Put(d, step, u, image, sticks)
  BY <1>1 DEF InfoEntry
<1>3. word \in InfoWord
  BY Images
<1>4. d.nor[u].info \in [0..Blocks - 1 -> InfoWord] /\ d.nor[u].block \in [Index -> BlockImage]
  BY <1>1 DEF UnitImage
<1>5. sticks \in BOOLEAN /\ (sticks <=> InfoAt(d, l) = BlankInfo)
  BY <1>1
<1> HIDE DEF u, word, sticks
<1>6. /\ image \in UnitImage /\ Differs(d.nor[u], image, l[2])
      /\ image.info[l[2]] = word /\ image.block[l[2]] = d.nor[u].block[l[2]]
  BY <1>1, <1>3, <1>4 DEF UnitImage, Differs
<1> HIDE DEF image
<1>7. /\ Touched(d, r, l)
      /\ InfoAt(r, l) = image.info[l[2]]
      /\ MapAt(r, l) = image.block[l[2]].map /\ UserAt(r, l) = image.block[l[2]].user
      /\ Sticks(r) <=> Sticks(d) /\ sticks
  <2>1. /\ image \in UnitImage /\ sticks \in BOOLEAN
        /\ Differs(d.nor[UnitOf(d, l)], image, l[2])
        /\ r = Put(d, step, UnitOf(d, l), image, sticks)
    BY <1>2, <1>5, <1>6 DEF u
  <2> QED  BY <2>1, PutBlock
<1> QED  BY <1>1, <1>5, <1>6, <1>7 DEF word

(* What is left of an entry is an entry.                                   *)
LEMMA AndTyped ==
  \A w, x \in Content : AndLogical(w, x) \in Content
BY SMTT(30) DEF AndLogical, Content

(* An image with one entry of one block changed, field by field.           *)
EntryChanged(b, n, e, w) == [b EXCEPT !.block[n].map[e] = w]
LEMMA EntryEdited ==
  \A b \in UnitImage : \A n, e, w, c :
    c = EntryChanged(b, n, e, w) => /\ c.info = b.info
                                    /\ c.block = [b.block EXCEPT ![n].map[e] = w]
                                    /\ c = [info |-> c.info, block |-> c.block]
BY SMTT(30) DEF UnitImage, EntryChanged

(* A block with another entry.                                             *)
MapChanged(b, e, w) == [b EXCEPT !.map[e] = w]
LEMMA MapEdited ==
  \A b \in BlockImage : \A e \in Entry, w \in Content : MapChanged(b, e, w) \in BlockImage
BY SMTT(30) DEF BlockImage, MapChanged

(* A block with another payload.                                           *)
UserChanged(b, user) == [b EXCEPT !.user = user]
LEMMA UserEdited ==
  \A b \in BlockImage : \A user :
    UserChanged(b, user).user = user /\ UserChanged(b, user).map = b.map
BY SMTT(30) DEF BlockImage, UserChanged

(* An entry of a translation block is written.                             *)
LEMMA MapEntryWritten ==
  ASSUME NEW d \in Device, Sectors(d), NEW l \in Logical, NEW step \in StepName,
         NEW e \in Entry, NEW x \in Content,
         NEW r, r = WriteEntry(d, step, l, e, x)
  PROVE  /\ Touched(d, r, l)
         /\ InfoAt(r, l) = InfoAt(d, l) /\ UserAt(r, l) = UserAt(d, l)
         /\ MapAt(r, l) = [MapAt(d, l) EXCEPT ![e] = AndLogical(@, x)]
         /\ Sticks(r) <=> Sticks(d) /\ AndLogical(MapAt(d, l)[e], x) = x
<1> DEFINE u == UnitOf(d, l)
           w == AndLogical(MapAt(d, l)[e], x)
           image == [d.nor[u] EXCEPT !.block[l[2]].map[e] = w]
           sticks == w = x
<1>1. /\ u # NoUnit /\ d.nor[u] \in UnitImage
      /\ l[2] \in Index /\ l[2] \in 0..Blocks - 1
      /\ MapAt(d, l) = d.nor[u].block[l[2]].map /\ UserAt(d, l) = d.nor[u].block[l[2]].user
      /\ InfoAt(d, l) = d.nor[u].info[l[2]] /\ MapAt(d, l) \in [Entry -> Content]
  BY SMTT(30), Seen
<1>2. r = Put(d, step, u, image, sticks)
  BY Zenon, <1>1 DEF WriteEntry
<1>3. w \in Content
  BY <1>1, AndTyped
<1>4. d.nor[u].info \in [0..Blocks - 1 -> InfoWord] /\ d.nor[u].block \in [Index -> BlockImage]
  BY <1>1 DEF UnitImage
<1>5. sticks \in BOOLEAN
  OBVIOUS
<1> HIDE DEF u, w, sticks
<1>6. d.nor[u].block[l[2]] \in BlockImage
  BY SMTT(30), <1>1, <1>4
<1>7. /\ image.info = d.nor[u].info
      /\ image.block = [d.nor[u].block EXCEPT ![l[2]].map[e] = w]
      /\ image = [info |-> image.info, block |-> image.block]
  <2> DEFINE b == d.nor[u]
             n == l[2]
  <2>1. b \in UnitImage /\ image = EntryChanged(b, n, e, w)
    BY Zenon, <1>1 DEF EntryChanged
  <2> HIDE DEF image, b, n
  <2>2. /\ image.info = b.info /\ image.block = [b.block EXCEPT ![n].map[e] = w]
        /\ image = [info |-> image.info, block |-> image.block]
    BY <2>1, EntryEdited
  <2> QED  BY Zenon, <2>2 DEF b, n
<1>8. [d.nor[u].block[l[2]] EXCEPT !.map[e] = w] \in BlockImage
  <2> DEFINE b == d.nor[u].block[l[2]]
  <2>1. b \in BlockImage
    BY Zenon, <1>6
  <2> HIDE DEF b
  <2>2. MapChanged(b, e, w) \in BlockImage
    BY <1>3, <2>1, MapEdited
  <2> QED  BY Zenon, <2>2 DEF MapChanged, b
<1>9. /\ image.block \in [Index -> BlockImage] /\ image.info \in [0..Blocks - 1 -> InfoWord]
      /\ image.block[l[2]] = [d.nor[u].block[l[2]] EXCEPT !.map[e] = w]
      /\ Differs(d.nor[u], image, l[2])
  BY ZenonT(40), <1>1, <1>4, <1>7, <1>8 DEF Differs
<1>10. image \in UnitImage
  BY ZenonT(40), <1>7, <1>9 DEF UnitImage
<1>11. /\ image.block[l[2]].map = [d.nor[u].block[l[2]].map EXCEPT ![e] = w]
       /\ image.block[l[2]].user = d.nor[u].block[l[2]].user
  BY Zenon, <1>6, <1>9 DEF BlockImage
<1> HIDE DEF image
<1>12. /\ Touched(d, r, l)
       /\ InfoAt(r, l) = image.info[l[2]]
       /\ MapAt(r, l) = image.block[l[2]].map /\ UserAt(r, l) = image.block[l[2]].user
       /\ Sticks(r) <=> Sticks(d) /\ sticks
  <2>1. /\ image \in UnitImage /\ sticks \in BOOLEAN
        /\ Differs(d.nor[UnitOf(d, l)], image, l[2])
        /\ r = Put(d, step, UnitOf(d, l), image, sticks)
    BY SMTT(30), <1>2, <1>5, <1>9, <1>10 DEF u
  <2> QED  BY <2>1, PutBlock
<1>13. MapAt(r, l) = [MapAt(d, l) EXCEPT ![e] = AndLogical(@, x)]
  BY Zenon, <1>1, <1>11, <1>12 DEF w
<1> QED  BY Zenon, <1>1, <1>7, <1>11, <1>12, <1>13 DEF w, sticks

(* A whole translation block is written.                                   *)
LEMMA MapWritten ==
  ASSUME NEW d \in Device, Sectors(d), NEW l \in Logical, NEW step \in StepName,
         NEW map \in [Entry -> Content], AndMap(MapAt(d, l), map) = map,
         NEW r, r = WriteMap(d, step, l, map)
  PROVE  /\ Touched(d, r, l)
         /\ InfoAt(r, l) = InfoAt(d, l) /\ UserAt(r, l) = UserAt(d, l)
         /\ MapAt(r, l) = map
         /\ Sticks(r) <=> Sticks(d)
<1> DEFINE u == UnitOf(d, l)
           w == AndMap(MapAt(d, l), map)
           image == [d.nor[u] EXCEPT !.block[l[2]].map = w]
           sticks == w = map
<1>1. /\ u # NoUnit /\ d.nor[u] \in UnitImage
      /\ l[2] \in Index /\ l[2] \in 0..Blocks - 1
      /\ UserAt(d, l) = d.nor[u].block[l[2]].user
      /\ InfoAt(d, l) = d.nor[u].info[l[2]]
  BY Seen
<1>2. r = Put(d, step, u, image, sticks)
  BY <1>1 DEF WriteMap
<1>3. w = map /\ sticks \in BOOLEAN /\ sticks = TRUE
  OBVIOUS
<1>4. d.nor[u].info \in [0..Blocks - 1 -> InfoWord] /\ d.nor[u].block \in [Index -> BlockImage]
  BY <1>1 DEF UnitImage
<1> HIDE DEF u, w, sticks
<1>5. d.nor[u].block[l[2]] \in BlockImage
  BY <1>1, <1>4
<1>6. /\ image.info = d.nor[u].info
      /\ image.block = [d.nor[u].block EXCEPT ![l[2]].map = w]
      /\ image = [info |-> image.info, block |-> image.block]
  BY <1>1 DEF UnitImage
<1>7. [d.nor[u].block[l[2]] EXCEPT !.map = w] \in BlockImage
  BY SMTT(30), <1>3, <1>5 DEF BlockImage
<1>8. /\ image.block \in [Index -> BlockImage] /\ image.info \in [0..Blocks - 1 -> InfoWord]
      /\ image.block[l[2]] = [d.nor[u].block[l[2]] EXCEPT !.map = w]
      /\ Differs(d.nor[u], image, l[2])
  BY ZenonT(40), <1>1, <1>4, <1>6, <1>7 DEF Differs
<1>9. image \in UnitImage
  BY SMTT(30), <1>6, <1>8 DEF UnitImage
<1>10. /\ image.block[l[2]].map = w
       /\ image.block[l[2]].user = d.nor[u].block[l[2]].user
  BY ZenonT(40), <1>5, <1>8 DEF BlockImage
<1> HIDE DEF image
<1>11. /\ Touched(d, r, l)
       /\ InfoAt(r, l) = image.info[l[2]]
       /\ MapAt(r, l) = image.block[l[2]].map /\ UserAt(r, l) = image.block[l[2]].user
       /\ Sticks(r) <=> Sticks(d) /\ sticks
  <2>1. /\ image \in UnitImage /\ sticks \in BOOLEAN
        /\ Differs(d.nor[UnitOf(d, l)], image, l[2])
        /\ r = Put(d, step, UnitOf(d, l), image, sticks)
    BY SMTT(30), <1>2, <1>3, <1>8, <1>9 DEF u
  <2> QED  BY <2>1, PutBlock
<1> QED  BY <1>1, <1>3, <1>6, <1>10, <1>11

(* The data of a block is written.                                         *)
LEMMA UserWritten ==
  ASSUME NEW d \in Device, Sectors(d), NEW l \in Logical, NEW step \in StepName,
         NEW user \in User,
         NEW r, r = WriteUser(d, step, l, user)
  PROVE  /\ Touched(d, r, l)
         /\ InfoAt(r, l) = InfoAt(d, l) /\ MapAt(r, l) = MapAt(d, l)
         /\ UserAt(r, l) = user
         /\ Sticks(r) <=> Sticks(d) /\ UserAt(d, l) = Nothing
<1> DEFINE u == UnitOf(d, l)
           image == [d.nor[u] EXCEPT !.block[l[2]].user = user]
           sticks == UserAt(d, l) = Nothing
<1>1. /\ u # NoUnit /\ d.nor[u] \in UnitImage
      /\ l[2] \in Index /\ l[2] \in 0..Blocks - 1
      /\ MapAt(d, l) = d.nor[u].block[l[2]].map
      /\ InfoAt(d, l) = d.nor[u].info[l[2]]
  BY Seen
<1>2. r = Put(d, step, u, image, sticks)
  BY <1>1 DEF WriteUser
<1>3. sticks \in BOOLEAN
  OBVIOUS
<1>4. d.nor[u].info \in [0..Blocks - 1 -> InfoWord] /\ d.nor[u].block \in [Index -> BlockImage]
  BY <1>1 DEF UnitImage
<1> HIDE DEF u, sticks
<1>5. d.nor[u].block[l[2]] \in BlockImage
  BY <1>1, <1>4
<1>6. /\ image.info = d.nor[u].info
      /\ image.block = [d.nor[u].block EXCEPT ![l[2]].user = user]
      /\ image = [info |-> image.info, block |-> image.block]
  BY <1>1 DEF UnitImage
<1>7. [d.nor[u].block[l[2]] EXCEPT !.user = user] \in BlockImage
  BY SMTT(30), <1>5 DEF BlockImage
<1>8. /\ image.block \in [Index -> BlockImage] /\ image.info \in [0..Blocks - 1 -> InfoWord]
      /\ image.block[l[2]] = [d.nor[u].block[l[2]] EXCEPT !.user = user]
      /\ Differs(d.nor[u], image, l[2])
  BY ZenonT(40), <1>1, <1>4, <1>6, <1>7 DEF Differs
<1>9. image \in UnitImage
  BY ZenonT(40), <1>6, <1>8 DEF UnitImage
<1>10. /\ image.block[l[2]].user = user
       /\ image.block[l[2]].map = d.nor[u].block[l[2]].map
  <2> DEFINE b == d.nor[u].block[l[2]]
             c == image.block[l[2]]
  <2>1. b \in BlockImage /\ c = UserChanged(b, user)
    BY Zenon, <1>5, <1>8 DEF UserChanged
  <2> HIDE DEF b, c
  <2>2. c.user = user /\ c.map = b.map
    BY <2>1, UserEdited
  <2> QED  BY Zenon, <2>2 DEF b, c
<1> HIDE DEF image
<1>11. /\ Touched(d, r, l)
       /\ InfoAt(r, l) = image.info[l[2]]
       /\ MapAt(r, l) = image.block[l[2]].map /\ UserAt(r, l) = image.block[l[2]].user
       /\ Sticks(r) <=> Sticks(d) /\ sticks
  <2>1. /\ image \in UnitImage /\ sticks \in BOOLEAN
        /\ Differs(d.nor[UnitOf(d, l)], image, l[2])
        /\ r = Put(d, step, UnitOf(d, l), image, sticks)
    BY <1>2, <1>3, <1>8, <1>9 DEF u
  <2> QED  BY <2>1, PutBlock
<1> QED  BY <1>1, <1>6, <1>10, <1>11 DEF sticks

(* The tables in RAM, but for what is said otherwise.                      *)
SameTables(d, r) ==
  /\ r.ftl.sector_table = d.ftl.sector_table /\ r.ftl.block_table = d.ftl.block_table
  /\ r.ftl.xlate_table = d.ftl.xlate_table /\ r.ftl.xlate2_table = d.ftl.xlate2_table
  /\ r.ftl.reclaim = d.ftl.reclaim
SameCache(d, r) ==
  r.ftl.xlate_logical = d.ftl.xlate_logical /\ r.ftl.xlate_cache = d.ftl.xlate_cache
SameCache2(d, r) ==
  r.ftl.xlate2_logical = d.ftl.xlate2_logical /\ r.ftl.xlate2_cache = d.ftl.xlate2_cache
SameAlloc(d, r) ==
  /\ r.ftl.alloc_sector = d.ftl.alloc_sector /\ r.ftl.alloc_mask = d.ftl.alloc_mask
  /\ r.ftl.alloc_free = d.ftl.alloc_free /\ r.ftl.allocated = d.ftl.allocated

(* What a program of block l leaves alone, the RAM apart.                  *)
Spared(d, r, l) ==
  /\ \A m \in Logical : m # l => SameAt(d, r, m)
  /\ \A u \in Unit : r.nor[u].info[0] = d.nor[u].info[0]
  /\ r.nor[d.ftl.reclaim] = d.nor[d.ftl.reclaim]

(* A block is deleted, and its sector scores.                              *)
LEMMA Deletes ==
  ASSUME NEW d \in Device, Sectors(d), NEW l \in Logical, NEW step \in StepName,
         NEW r, r = Delete(d, step, l)
  PROVE  /\ r \in Device /\ Spared(d, r, l)
         /\ SameTables(d, r) /\ SameCache(d, r) /\ SameCache2(d, r) /\ SameAlloc(d, r)
         /\ r.ftl.score = [d.ftl.score EXCEPT ![l[1]] = OneMore(@)]
         /\ InfoAt(r, l) = Info(DELETED, -1) /\ MapAt(r, l) = BlankMap /\ UserAt(r, l) = Stale
         /\ Sticks(r) <=> Sticks(d)
<1> DEFINE x == InfoType(d, step, l, DELETED)
<1>1. /\ Touched(d, x, l)
      /\ InfoAt(x, l) = Info(DELETED, -1) /\ MapAt(x, l) = BlankMap /\ UserAt(x, l) = Stale
      /\ Sticks(x) <=> Sticks(d)
  BY TypeDeleted
<1>2. x \in Device /\ x.ftl = d.ftl /\ l[1] \in Sector
  BY <1>1, Logicals DEF Touched
<1>3. r = [x EXCEPT !.ftl.score[l[1]] = OneMore(@)]
  BY <1>2 DEF Delete
<1> HIDE DEF x
<1>4. SameFlash(x, r) /\ r = [nor |-> x.nor, ftl |-> r.ftl, steps |-> x.steps]
  BY <1>2, <1>3 DEF SameFlash, Device
<1>5. r.ftl = [d.ftl EXCEPT !.score[l[1]] = OneMore(@)]
  BY <1>2, <1>3 DEF Device
<1>6. d.ftl \in Ftl
  BY DEF Device
<1>7. /\ SameTables(d, r) /\ SameCache(d, r) /\ SameCache2(d, r) /\ SameAlloc(d, r)
      /\ r.ftl.score = [d.ftl.score EXCEPT ![l[1]] = OneMore(@)]
  BY <1>5, <1>6 DEF SameTables, SameCache, SameCache2, SameAlloc, Ftl
<1>8. OneMore(d.ftl.score[l[1]]) \in Nat
  <2>1. d.ftl.score[l[1]] \in Nat
    BY <1>2, <1>6 DEF Ftl
  <2> QED  BY <2>1, GeometryAssumption DEF OneMore
<1>9. r.ftl \in Ftl
  <2> DEFINE score == [d.ftl.score EXCEPT ![l[1]] = OneMore(@)]
  <2>1. score \in [Sector -> Nat]
    BY <1>2, <1>6, <1>8 DEF Ftl
  <2>2. r.ftl = [d.ftl EXCEPT !.score = score]
    BY <1>5, <1>6 DEF Ftl
  <2> HIDE DEF score
  <2> QED  BY <1>6, <2>1, <2>2 DEF Ftl
<1>10. r \in Device
  BY <1>2, <1>4, <1>9 DEF Device
<1>11. (\A m : SameAt(x, r, m)) /\ (Sticks(r) <=> Sticks(x))
  BY <1>2, <1>4, <1>7, SameViews DEF SameTables
<1>12. Spared(d, r, l)
  BY <1>1, <1>4, <1>11 DEF Spared, Touched, SameAt, SameFlash
<1> QED  BY <1>1, <1>7, <1>10, <1>11, <1>12 DEF SameAt
-----------------------------------------------------------------------------
(* The invariant between the steps of an operation.                        *)

(* The translation of an address, and its block, without the caches.       *)
Primary(d, a) == MapAt(d, d.ftl.xlate_table[Segment(a)])[XlateIndex(a)]
Secondary(d, a) == MapAt(d, d.ftl.xlate2_table[Segment(a)])[XlateIndex(a)]
Where(d, a) ==
  IF Direct(a) THEN d.ftl.block_table[a]
  ELSE IF Primary(d, a) = Deleted /\ Secondary(d, a) # NotAllocated THEN Secondary(d, a)
  ELSE Primary(d, a)

(* The unit that is kept for reclaiming.                                   *)
Kept == [Blank EXCEPT !.info[0] = Info(RESERVED, -1)]

(* Every unit says what it is.                                             *)
Headers(d) ==
  /\ \A s \in Sector : d.nor[d.ftl.sector_table[s]].info[0] = Info(ERASE, s)
  /\ d.nor[d.ftl.reclaim] = Kept

(* A block that is not written to is as it was erased.                     *)
Blanks(d) ==
  \A l \in Logical : ~InfoAt(d, l).written =>
    InfoAt(d, l) = BlankInfo /\ MapAt(d, l) = BlankMap /\ UserAt(d, l) = Nothing

(* A block in use is the one that the tables have for what it says it is.   *)
Used(d, l) ==
  \/ ~InfoAt(d, l).written
  \/ InfoAt(d, l).type = DELETED
  \/ /\ InfoAt(d, l).type = XLATE
     /\ InfoAt(d, l).of \in Segments /\ d.ftl.xlate_table[InfoAt(d, l).of] = l
  \/ /\ InfoAt(d, l).type = XLATE_SECONDARY
     /\ InfoAt(d, l).of \in Segments /\ d.ftl.xlate2_table[InfoAt(d, l).of] = l
  \/ /\ InfoAt(d, l).type = DATA_COMMITTED
     /\ InfoAt(d, l).of \in Address /\ Where(d, InfoAt(d, l).of) = l

(* ... and what the tables have is in use.                                 *)
TableEntry(d, seg) ==
  LET l == d.ftl.xlate_table[seg]
      l2 == d.ftl.xlate2_table[seg]
  IN /\ l = NotAllocated \/ (l \in Logical /\ InfoAt(d, l) = Info(XLATE, seg))
     /\ \/ l2 = NotAllocated
        \/ /\ l2 \in Logical /\ InfoAt(d, l2) = Info(XLATE_SECONDARY, seg)
           /\ l # NotAllocated

Named == Logical \cup {NotAllocated, Deleted}
AddressEntry(d, a) ==
  /\ Direct(a) => d.ftl.block_table[a] \in Logical \cup {NotAllocated}
  /\ ~Direct(a) => /\ Primary(d, a) \in Named /\ Secondary(d, a) \in Named
                   /\ Secondary(d, a) # NotAllocated => Primary(d, a) = Deleted
  /\ Where(d, a) \in Logical => InfoAt(d, Where(d, a)) = Info(DATA_COMMITTED, a)

(* A cache is what it was read from.                                       *)
Cached(d) ==
  \/ d.ftl.xlate_logical = Reserved
  \/ /\ \E seg \in Segments : d.ftl.xlate_logical = d.ftl.xlate_table[seg]
     /\ d.ftl.xlate_logical \in Logical
     /\ d.ftl.xlate_cache = MapAt(d, d.ftl.xlate_logical)
Cached2(d) ==
  \/ d.ftl.xlate2_logical = Reserved
  \/ /\ \E seg \in Segments : d.ftl.xlate2_logical = d.ftl.xlate2_table[seg]
     /\ d.ftl.xlate2_logical \in Logical
     /\ d.ftl.xlate2_cache = MapAt(d, d.ftl.xlate2_logical)

(* The free blocks, but for the one that was just allocated.               *)
Free(d, held) == {l \in Logical : ~InfoAt(d, l).written /\ l # held}
Counted(d, held) ==
  /\ d.ftl.alloc_free = Cardinality(Free(d, held))
  /\ d.ftl.alloc_mask # {} =>
       d.ftl.alloc_mask = {i \in Index : <<d.ftl.alloc_sector, i>> \in Free(d, held)}
  /\ \A l \in Free(d, held) : ~d.ftl.allocated[l[1]]

Dead(d, s) == {i \in Index : InfoAt(d, <<s, i>>).written /\ InfoAt(d, <<s, i>>).type = DELETED}
Scored(d) == \A s \in Sector : d.ftl.score[s] = Cardinality(Dead(d, s))

Good(d) ==
  /\ d \in Device /\ Sectors(d) /\ Headers(d) /\ Blanks(d)
  /\ \A l \in Logical : Used(d, l)
  /\ \A seg \in Segments : TableEntry(d, seg)
  /\ \A a \in Address : AddressEntry(d, a)
  /\ Cached(d) /\ Cached2(d) /\ Counted(d, NotAllocated) /\ Scored(d)

(* What a read of an address finds has not changed.                        *)
SameData(d, r) ==
  \A a \in Address : /\ Where(r, a) = Where(d, a)
                     /\ Where(d, a) \in Logical => UserAt(r, Where(d, a)) = UserAt(d, Where(d, a))
-----------------------------------------------------------------------------
(* The caches.                                                             *)

(* Nothing but the RAM has changed, and it still counts what is free.        *)
LEMMA RamOnly ==
  ASSUME NEW d, NEW r, Good(d), r \in Device, SameFlash(d, r), SameTables(d, r),
         Counted(r, NotAllocated), r.ftl.score = d.ftl.score, Cached(r), Cached2(r)
  PROVE  /\ Good(r) /\ SameData(d, r) /\ (Sticks(r) <=> Sticks(d))
         /\ \A a : Primary(r, a) = Primary(d, a) /\ Secondary(r, a) = Secondary(d, a)
<1>1. (\A l : SameAt(d, r, l)) /\ (Sticks(r) <=> Sticks(d))
  BY SameViews DEF SameTables
<1>2. Sectors(r) /\ Headers(r)
  BY DEF Good, Sectors, Headers, SameTables, SameFlash
<1>3. Blanks(r)
  BY <1>1 DEF Good, Blanks, SameAt
<1>4. \A a : /\ Primary(r, a) = Primary(d, a) /\ Secondary(r, a) = Secondary(d, a)
             /\ Where(r, a) = Where(d, a)
  BY <1>1 DEF SameAt, SameTables, Primary, Secondary, Where
<1>5. \A l \in Logical : Used(r, l)
  BY <1>1, <1>4 DEF Good, Used, SameAt, SameTables
<1>6. \A seg \in Segments : TableEntry(r, seg)
  BY <1>1 DEF Good, TableEntry, SameAt, SameTables
<1>7. \A a \in Address : AddressEntry(r, a)
  BY <1>1, <1>4 DEF Good, AddressEntry, SameAt, SameTables
<1>8. Scored(r)
  <2>1. \A s \in Sector : Dead(r, s) = Dead(d, s)
    BY <1>1 DEF Dead, SameAt
  <2> QED  BY <2>1 DEF Good, Scored
<1>9. SameData(d, r)
  BY <1>1, <1>4 DEF SameData, SameAt
<1> QED  BY <1>1, <1>2, <1>3, <1>4, <1>5, <1>6, <1>7, <1>8, <1>9 DEF Good

(* Nothing but a cache has changed.                                        *)
LEMMA CacheOnly ==
  ASSUME NEW d, NEW r, Good(d), r \in Device, SameFlash(d, r), SameTables(d, r),
         SameAlloc(d, r), r.ftl.score = d.ftl.score, Cached(r), Cached2(r)
  PROVE  /\ Good(r) /\ SameData(d, r) /\ (Sticks(r) <=> Sticks(d))
         /\ \A a : Primary(r, a) = Primary(d, a) /\ Secondary(r, a) = Secondary(d, a)
<1>1. \A l : SameAt(d, r, l)
  BY SameViews DEF SameTables
<1>2. Free(r, NotAllocated) = Free(d, NotAllocated)
  BY <1>1 DEF Free, SameAt
<1>3. Counted(r, NotAllocated)
  BY <1>2 DEF Good, Counted, SameAlloc
<1> QED  BY <1>3, RamOnly

(* A translation block is read into its cache, unless it is there.          *)
LEMMA XlateCached ==
  ASSUME NEW d \in Device, Sectors(d), Cached(d), NEW seg \in Segments,
         d.ftl.xlate_table[seg] \in Logical,
         NEW r, r = LoadXlate(d, seg)
  PROVE  /\ r \in Device /\ SameFlash(d, r) /\ SameTables(d, r) /\ SameCache2(d, r)
         /\ SameAlloc(d, r) /\ r.ftl.score = d.ftl.score
         /\ r.ftl.xlate_logical = d.ftl.xlate_table[seg]
         /\ r.ftl.xlate_cache = MapAt(d, d.ftl.xlate_table[seg])
         /\ (\A m : SameAt(d, r, m)) /\ (Sticks(r) <=> Sticks(d)) /\ Cached(r)
<1> DEFINE l == d.ftl.xlate_table[seg]
<1>1. l \in Logical /\ l # Reserved /\ l \in Content
  BY Logicals DEF Content
<1>2. d.ftl \in Ftl /\ MapAt(d, l) \in [Entry -> Content]
  BY <1>1, Seen DEF Device
<1>3. CASE d.ftl.xlate_logical = l
  <2>1. r = d
    BY <1>3 DEF LoadXlate
  <2>2. d.ftl.xlate_cache = MapAt(d, l)
    BY <1>1, <1>3 DEF Cached
  <2> QED  BY <1>3, <2>1, <2>2 DEF SameFlash, SameTables, SameCache2, SameAlloc, SameAt
<1>4. CASE d.ftl.xlate_logical # l
  <2>1. r = [d EXCEPT !.ftl.xlate_logical = l, !.ftl.xlate_cache = MapAt(d, l)]
    BY <1>4 DEF LoadXlate
  <2> HIDE DEF l
  <2>2. /\ SameFlash(d, r) /\ r = [nor |-> d.nor, ftl |-> r.ftl, steps |-> d.steps]
        /\ r.ftl = [d.ftl EXCEPT !.xlate_logical = l, !.xlate_cache = MapAt(d, l)]
    BY <1>2, <2>1 DEF SameFlash, Device
  <2>3. /\ SameTables(d, r) /\ SameCache2(d, r) /\ SameAlloc(d, r) /\ r.ftl.score = d.ftl.score
        /\ r.ftl.xlate_logical = l /\ r.ftl.xlate_cache = MapAt(d, l) /\ r.ftl \in Ftl
    BY ZenonT(40), <1>1, <1>2, <2>2 DEF SameTables, SameCache2, SameAlloc, Ftl
  <2>4. r \in Device
    BY <1>2, <2>2, <2>3 DEF Device
  <2>5. (\A m : SameAt(d, r, m)) /\ (Sticks(r) <=> Sticks(d))
    BY <2>2, <2>3, SameViews DEF SameTables
  <2>6. Cached(r)
    BY <1>1, <2>3, <2>5 DEF Cached, SameAt, SameTables, l
  <2> QED  BY <2>2, <2>3, <2>4, <2>5, <2>6 DEF l
<1> QED  BY <1>3, <1>4

LEMMA Xlate2Cached ==
  ASSUME NEW d \in Device, Sectors(d), Cached2(d), NEW seg \in Segments,
         d.ftl.xlate2_table[seg] \in Logical,
         NEW r, r = LoadXlate2(d, seg)
  PROVE  /\ r \in Device /\ SameFlash(d, r) /\ SameTables(d, r) /\ SameCache(d, r)
         /\ SameAlloc(d, r) /\ r.ftl.score = d.ftl.score
         /\ r.ftl.xlate2_logical = d.ftl.xlate2_table[seg]
         /\ r.ftl.xlate2_cache = MapAt(d, d.ftl.xlate2_table[seg])
         /\ (\A m : SameAt(d, r, m)) /\ (Sticks(r) <=> Sticks(d)) /\ Cached2(r)
<1> DEFINE l == d.ftl.xlate2_table[seg]
<1>1. l \in Logical /\ l # Reserved /\ l \in Content
  BY Logicals DEF Content
<1>2. d.ftl \in Ftl /\ MapAt(d, l) \in [Entry -> Content]
  BY <1>1, Seen DEF Device
<1>3. CASE d.ftl.xlate2_logical = l
  <2>1. r = d
    BY <1>3 DEF LoadXlate2
  <2>2. d.ftl.xlate2_cache = MapAt(d, l)
    BY <1>1, <1>3 DEF Cached2
  <2> QED  BY <1>3, <2>1, <2>2 DEF SameFlash, SameTables, SameCache, SameAlloc, SameAt
<1>4. CASE d.ftl.xlate2_logical # l
  <2>1. r = [d EXCEPT !.ftl.xlate2_logical = l, !.ftl.xlate2_cache = MapAt(d, l)]
    BY <1>4 DEF LoadXlate2
  <2> HIDE DEF l
  <2>2. /\ SameFlash(d, r) /\ r = [nor |-> d.nor, ftl |-> r.ftl, steps |-> d.steps]
        /\ r.ftl = [d.ftl EXCEPT !.xlate2_logical = l, !.xlate2_cache = MapAt(d, l)]
    BY <1>2, <2>1 DEF SameFlash, Device
  <2>3. /\ SameTables(d, r) /\ SameCache(d, r) /\ SameAlloc(d, r) /\ r.ftl.score = d.ftl.score
        /\ r.ftl.xlate2_logical = l /\ r.ftl.xlate2_cache = MapAt(d, l) /\ r.ftl \in Ftl
    BY ZenonT(40), <1>1, <1>2, <2>2 DEF SameTables, SameCache, SameAlloc, Ftl
  <2>4. r \in Device
    BY <1>2, <2>2, <2>3 DEF Device
  <2>5. (\A m : SameAt(d, r, m)) /\ (Sticks(r) <=> Sticks(d))
    BY <2>2, <2>3, SameViews DEF SameTables
  <2>6. Cached2(r)
    BY <1>1, <2>3, <2>5 DEF Cached2, SameAt, SameTables, l
  <2> QED  BY <2>2, <2>3, <2>4, <2>5, <2>6 DEF l
<1> QED  BY <1>3, <1>4

(* ... which changes nothing else.                                         *)
LEMMA XlateLoaded ==
  ASSUME NEW d, Good(d), NEW seg \in Segments, d.ftl.xlate_table[seg] # NotAllocated,
         NEW r, r = LoadXlate(d, seg)
  PROVE  /\ Good(r) /\ SameFlash(d, r) /\ SameTables(d, r) /\ SameCache2(d, r) /\ SameAlloc(d, r)
         /\ r.ftl.score = d.ftl.score
         /\ r.ftl.xlate_logical = d.ftl.xlate_table[seg]
         /\ r.ftl.xlate_cache = MapAt(d, d.ftl.xlate_table[seg])
         /\ SameData(d, r) /\ (Sticks(r) <=> Sticks(d))
         /\ \A a : Primary(r, a) = Primary(d, a) /\ Secondary(r, a) = Secondary(d, a)
<1>1. d \in Device /\ Sectors(d) /\ Cached(d) /\ Cached2(d) /\ d.ftl.xlate_table[seg] \in Logical
  BY DEF Good, TableEntry
<1>2. /\ r \in Device /\ SameFlash(d, r) /\ SameTables(d, r) /\ SameCache2(d, r)
      /\ SameAlloc(d, r) /\ r.ftl.score = d.ftl.score
      /\ r.ftl.xlate_logical = d.ftl.xlate_table[seg]
      /\ r.ftl.xlate_cache = MapAt(d, d.ftl.xlate_table[seg])
      /\ (\A m : SameAt(d, r, m)) /\ (Sticks(r) <=> Sticks(d)) /\ Cached(r)
  BY <1>1, XlateCached
<1>3. Cached2(r)
  BY <1>1, <1>2 DEF Cached2, SameCache2, SameTables, SameAt
<1>4. /\ Good(r) /\ SameData(d, r)
      /\ \A a : Primary(r, a) = Primary(d, a) /\ Secondary(r, a) = Secondary(d, a)
  BY <1>2, <1>3, CacheOnly
<1> QED  BY <1>2, <1>4

LEMMA Xlate2Loaded ==
  ASSUME NEW d, Good(d), NEW seg \in Segments, d.ftl.xlate2_table[seg] # NotAllocated,
         NEW r, r = LoadXlate2(d, seg)
  PROVE  /\ Good(r) /\ SameFlash(d, r) /\ SameTables(d, r) /\ SameCache(d, r) /\ SameAlloc(d, r)
         /\ r.ftl.score = d.ftl.score
         /\ r.ftl.xlate2_logical = d.ftl.xlate2_table[seg]
         /\ r.ftl.xlate2_cache = MapAt(d, d.ftl.xlate2_table[seg])
         /\ SameData(d, r) /\ (Sticks(r) <=> Sticks(d))
         /\ \A a : Primary(r, a) = Primary(d, a) /\ Secondary(r, a) = Secondary(d, a)
<1>1. d \in Device /\ Sectors(d) /\ Cached(d) /\ Cached2(d) /\ d.ftl.xlate2_table[seg] \in Logical
  BY DEF Good, TableEntry
<1>2. /\ r \in Device /\ SameFlash(d, r) /\ SameTables(d, r) /\ SameCache(d, r)
      /\ SameAlloc(d, r) /\ r.ftl.score = d.ftl.score
      /\ r.ftl.xlate2_logical = d.ftl.xlate2_table[seg]
      /\ r.ftl.xlate2_cache = MapAt(d, d.ftl.xlate2_table[seg])
      /\ (\A m : SameAt(d, r, m)) /\ (Sticks(r) <=> Sticks(d)) /\ Cached2(r)
  BY <1>1, Xlate2Cached
<1>3. Cached(r)
  BY <1>1, <1>2 DEF Cached, SameCache, SameTables, SameAt
<1>4. /\ Good(r) /\ SameData(d, r)
      /\ \A a : Primary(r, a) = Primary(d, a) /\ Secondary(r, a) = Secondary(d, a)
  BY <1>2, <1>3, CacheOnly
<1> QED  BY <1>2, <1>4
-----------------------------------------------------------------------------
(* Reading.                                                                *)

(* An address and its entry determine each other.                          *)
LEMMA Entered ==
  /\ \A a \in Address : ~Direct(a) => Segment(a) \in Segments /\ XlateIndex(a) \in Entry
  /\ \A a, b \in Address : ~Direct(a) /\ ~Direct(b) /\ Segment(a) = Segment(b)
                           /\ XlateIndex(a) = XlateIndex(b) => a = b
  /\ Segments \subseteq Address
<1>1. ASSUME NEW a \in Address, ~Direct(a)
      PROVE  /\ a - XlateOffset \in Nat /\ a = (a - XlateOffset) + XlateOffset
             /\ Segment(a) \in Nat /\ XlateIndex(a) \in Entry
             /\ a - XlateOffset = Entries * Segment(a) + XlateIndex(a)
  <2> DEFINE x == a - XlateOffset
  <2>1. x \in Nat /\ a = x + XlateOffset
    BY <1>1, GeometryAssumption DEF Address, Direct
  <2> HIDE DEF x
  <2>2. x \div Entries \in Nat /\ x % Entries \in 0..Entries - 1
        /\ x = Entries * (x \div Entries) + (x % Entries)
    BY <2>1, DivMod, GeometryAssumption
  <2> QED  BY <2>1, <2>2 DEF x, Segment, XlateIndex, Entry
<1>2. \A a \in Address : ~Direct(a) => Segment(a) \in Segments /\ XlateIndex(a) \in Entry
  BY <1>1 DEF Segments
<1>3. \A a, b \in Address : ~Direct(a) /\ ~Direct(b) /\ Segment(a) = Segment(b)
                            /\ XlateIndex(a) = XlateIndex(b) => a = b
  <2> SUFFICES ASSUME NEW a \in Address, NEW b \in Address, ~Direct(a), ~Direct(b),
                      Segment(a) = Segment(b), XlateIndex(a) = XlateIndex(b)
               PROVE  a = b
    OBVIOUS
  <2>1. a - XlateOffset = b - XlateOffset
    BY <1>1
  <2> QED  BY <2>1, <1>1
<1>4. Segments \subseteq Address
  <2> SUFFICES ASSUME NEW a \in Address, ~Direct(a) PROVE Segment(a) \in Address
    BY DEF Segments
  <2>1. a - XlateOffset \in Nat /\ a - XlateOffset <= a /\ a \in 0..Addresses - 1
    BY <1>1, GeometryAssumption DEF Address
  <2>2. Segment(a) \in Nat /\ XlateIndex(a) \in Nat
        /\ a - XlateOffset = Entries * Segment(a) + XlateIndex(a)
    BY <1>1 DEF Entry
  <2>3. \A k, n \in Nat : n # 0 => k <= n * k
    OBVIOUS
  <2>4. Segment(a) <= Entries * Segment(a) /\ Entries * Segment(a) \in Nat
    BY <2>2, <2>3, GeometryAssumption
  <2>5. Segment(a) <= a
    BY <2>1, <2>2, <2>4
  <2> QED  BY <2>1, <2>2, <2>5, GeometryAssumption DEF Address
<1> QED  BY <1>2, <1>3, <1>4

LEMMA BlankEntries ==
  \A e \in Entry : BlankMap[e] = NotAllocated
BY DEF BlankMap

(* The lookup finds the translation, whatever the caches hold.             *)
LEMMA Finds ==
  ASSUME NEW d, Good(d), NEW a \in Address, NEW r, r = Loaded(d, a)
  PROVE  /\ Lookup(d, a) = Where(d, a)
         /\ Good(r) /\ SameFlash(d, r) /\ SameTables(d, r) /\ SameAlloc(d, r)
         /\ r.ftl.score = d.ftl.score
         /\ SameData(d, r) /\ (Sticks(r) <=> Sticks(d))
         /\ Primary(r, a) = Primary(d, a) /\ Secondary(r, a) = Secondary(d, a)
<1> DEFINE seg == Segment(a)
           e == XlateIndex(a)
           d1 == LoadXlate(d, seg)
           d2 == LoadXlate2(d1, seg)
<1>1. CASE Direct(a)
  <2>1. r = d /\ Lookup(d, a) = Where(d, a)
    BY <1>1 DEF Loaded, Lookup, Where
  <2> QED  BY <2>1 DEF SameFlash, SameTables, SameAlloc, SameData
<1>2. CASE ~Direct(a) /\ d.ftl.xlate_table[seg] = NotAllocated
  <2>1. seg \in Segments /\ e \in Entry
    BY <1>2, Entered
  <2>2. d.ftl.xlate2_table[seg] = NotAllocated
    BY <1>2, <2>1, Logicals DEF Good, TableEntry
  <2>3. Primary(d, a) = NotAllocated /\ Secondary(d, a) = NotAllocated
    BY <1>2, <2>1, <2>2, NotSeen, BlankEntries DEF Primary, Secondary
  <2>4. r = d /\ Lookup(d, a) = NotAllocated
    BY <1>2 DEF Loaded, Lookup
  <2>5. Lookup(d, a) = Where(d, a)
    BY <1>2, <2>3, <2>4 DEF Where
  <2> QED  BY <2>4, <2>5 DEF SameFlash, SameTables, SameAlloc, SameData
<1>3. CASE ~Direct(a) /\ d.ftl.xlate_table[seg] # NotAllocated
  <2>1. seg \in Segments /\ e \in Entry
    BY <1>3, Entered
  <2>2. /\ Good(d1) /\ SameFlash(d, d1) /\ SameTables(d, d1) /\ SameAlloc(d, d1)
        /\ d1.ftl.score = d.ftl.score
        /\ d1.ftl.xlate_cache = MapAt(d, d.ftl.xlate_table[seg])
        /\ SameData(d, d1) /\ (Sticks(d1) <=> Sticks(d))
        /\ Primary(d1, a) = Primary(d, a) /\ Secondary(d1, a) = Secondary(d, a)
    BY <1>3, <2>1, XlateLoaded
  <2>3. d1.ftl.xlate_cache[e] = Primary(d, a)
    BY <2>2 DEF Primary
  <2>4. d1.ftl.xlate2_table = d.ftl.xlate2_table
    BY <2>2 DEF SameTables
  <2> HIDE DEF d1, seg, e
  <2>5. CASE Primary(d, a) # Deleted \/ d.ftl.xlate2_table[seg] = NotAllocated
    <3>1. r = d1
      BY <1>3, <2>3, <2>5 DEF Loaded, d1, seg, e
    <3>2. d.ftl.xlate2_table[seg] = NotAllocated => Secondary(d, a) = NotAllocated
      BY <2>1, NotSeen, BlankEntries DEF Secondary, seg, e
    <3>3. Where(d, a) = Primary(d, a)
      BY <1>3, <2>5, <3>2 DEF Where
    <3>4. Lookup(d, a) = Primary(d, a)
      BY <1>3, <2>3, <2>5, <3>1 DEF Lookup, seg, e
    <3> QED  BY <2>2, <3>1, <3>3, <3>4
  <2>6. CASE Primary(d, a) = Deleted /\ d.ftl.xlate2_table[seg] # NotAllocated
    <3>1. r = d2
      BY <1>3, <2>3, <2>6 DEF Loaded, d1, seg, e
    <3>2. /\ Good(d2) /\ SameFlash(d1, d2) /\ SameTables(d1, d2) /\ SameAlloc(d1, d2)
          /\ SameCache(d1, d2) /\ d2.ftl.score = d1.ftl.score
          /\ d2.ftl.xlate2_cache = MapAt(d1, d1.ftl.xlate2_table[seg])
          /\ SameData(d1, d2) /\ (Sticks(d2) <=> Sticks(d1))
          /\ Primary(d2, a) = Primary(d1, a) /\ Secondary(d2, a) = Secondary(d1, a)
      BY <2>1, <2>2, <2>4, <2>6, Xlate2Loaded
    <3>3. d2.ftl.xlate2_cache[e] = Secondary(d, a)
      BY <2>2, <3>2 DEF Secondary, seg, e
    <3>4. d2.ftl.xlate_cache[e] = Primary(d, a)
      BY <2>3, <3>2 DEF SameCache
    <3> HIDE DEF d2
    <3>5. Lookup(d, a) = IF Secondary(d, a) # NotAllocated THEN Secondary(d, a) ELSE Primary(d, a)
      BY <1>3, <2>6, <3>1, <3>3, <3>4 DEF Lookup, seg, e
    <3>6. Lookup(d, a) = Where(d, a)
      BY <1>3, <2>6, <3>5 DEF Where
    <3> QED  BY <2>2, <3>1, <3>2, <3>6 DEF SameFlash, SameTables, SameAlloc, SameData
  <2> QED  BY <2>5, <2>6
<1> QED  BY <1>1, <1>2, <1>3
-----------------------------------------------------------------------------
(* Allocating.                                                             *)

LEMMA Least == \A T \in SUBSET Nat : T # {} => Min(T) \in T /\ \A y \in T : Min(T) <= y
<1> SUFFICES ASSUME NEW T \in SUBSET Nat, T # {}
             PROVE  Min(T) \in T /\ \A y \in T : Min(T) <= y
  OBVIOUS
<1>1. PICK x \in T : \A y \in T : ~(<<y, x>> \in OpToRel(<, Nat))
  BY Zenon, WFMin, NatLessThanWellFounded
<1>2. \A y \in T : ~(y < x)
  BY <1>1 DEF OpToRel
<1>3. \A y \in T : x <= y
  BY <1>2
<1> QED  BY <1>3 DEF Min

(* Going round the sectors reaches each of them.                           *)
LEMMA Rounds ==
  /\ \A s \in Sector, n \in Nat : After(s, n) \in Sector
  /\ \A s, t \in Sector : \E n \in 0..Units - 2 : After(s, n) = t
<1> DEFINE m == Units - 1
<1>1. m \in Nat \ {0} /\ Sector = 0..m - 1 /\ 0..Units - 2 = 0..m - 1
  BY GeometryAssumption DEF Sector
<1>2. \A s, n : After(s, n) = (s + n) % m
  BY DEF After
<1> HIDE DEF m
<1>3. \A s \in Sector, n \in Nat : After(s, n) \in Sector
  <2> SUFFICES ASSUME NEW s \in Sector, NEW n \in Nat PROVE (s + n) % m \in 0..m - 1
    BY <1>1, <1>2
  <2>1. s + n \in Nat
    BY <1>1
  <2> QED  BY <1>1, <2>1, DivMod
<1>4. ASSUME NEW s \in Sector, NEW t \in Sector PROVE \E n \in 0..m - 1 : (s + n) % m = t
  <2>1. s \in 0..m - 1 /\ t \in 0..m - 1
    BY <1>1
  <2>2. CASE s <= t
    <3>1. t - s \in 0..m - 1 /\ s + (t - s) = t /\ t % m = t
      BY <1>1, <2>1, <2>2, ModSmall
    <3> QED  BY <3>1
  <2>3. CASE t < s
    <3>1. (t + m) - s \in 0..m - 1 /\ s + ((t + m) - s) = t + m /\ (t + m) % m = t
      BY <1>1, <2>1, <2>3, ModSmall
    <3> QED  BY <3>1
  <2> QED  BY <2>1, <2>2, <2>3
<1>5. \A s, t \in Sector : \E n \in 0..Units - 2 : After(s, n) = t
  <2> TAKE s, t \in Sector
  <2>1. PICK n \in 0..m - 1 : (s + n) % m = t
    BY <1>4
  <2>2. n \in 0..Units - 2 /\ After(s, n) = t
    BY <1>1, <1>2, <2>1
  <2> QED  BY <2>2
<1> QED  BY <1>3, <1>5

(* The count of free blocks is at most that of all.                        *)
LEMMA FreeFinite ==
  ASSUME NEW d, NEW held
  PROVE  /\ IsFiniteSet(Free(d, held)) /\ Cardinality(Free(d, held)) \in Nat
         /\ Cardinality(Free(d, held)) <= (Units - 1) * (Blocks - 1)
         /\ Cardinality(Free(d, held)) # 0 => Free(d, held) # {}
<1>1. Free(d, held) \subseteq Logical
  BY DEF Free
<1> QED  BY <1>1, FiniteLogicals, FS_Subset, FS_CardinalityType, FS_EmptySet

(* What allocating keeps: all but the blocks to allocate and, if the cache  *)
(* of the secondary block was used for something else, that cache.          *)
Kindly(d, r) ==
  /\ r \in Device /\ SameFlash(d, r) /\ SameTables(d, r) /\ SameCache(d, r)
  /\ r.ftl.score = d.ftl.score
  /\ SameCache2(d, r) \/ r.ftl.xlate2_logical = Reserved

(* There is a sector to fill.                                              *)
LEMMA Fills ==
  ASSUME NEW d \in Device, Sectors(d), Counted(d, NotAllocated), d.ftl.alloc_free # 0,
         NEW r, r = Refilled(d)
  PROVE  /\ Kindly(d, r)
         /\ r.ftl.alloc_free = d.ftl.alloc_free
         /\ r.ftl.alloc_mask # {}
         /\ r.ftl.alloc_mask = {i \in Index : <<r.ftl.alloc_sector, i>> \in Free(d, NotAllocated)}
         /\ \A l \in Free(d, NotAllocated) : ~r.ftl.allocated[l[1]]
<1>1. CASE d.ftl.alloc_mask # {}
  <2>1. r = d
    BY <1>1 DEF Refilled
  <2> QED  BY <1>1, <2>1 DEF Counted, Kindly, SameFlash, SameTables, SameCache, SameCache2
<1>2. CASE d.ftl.alloc_mask = {}
  <2> DEFINE Usable(n) == LET s == After(d.ftl.alloc_sector, n) IN
                            ~d.ftl.allocated[s] /\ FreeIn(d, s) # {}
             N == {n \in 0..Units - 2 : Usable(n)}
             skip == Min(N)
             s == After(d.ftl.alloc_sector, skip)
             skipped == {After(d.ftl.alloc_sector, n) : n \in 0..skip - 1}
  <2>1. d.ftl \in Ftl /\ d.ftl.alloc_sector \in Sector
    BY DEF Device, Ftl
  <2>2. \A t \in Sector, i \in Index : i \in FreeIn(d, t) <=> <<t, i>> \in Free(d, NotAllocated)
    BY Logicals DEF FreeIn, Free, Logical
  <2>3. N # {}
    <3>1. PICK l \in Free(d, NotAllocated) : TRUE
      BY FreeFinite DEF Counted
    <3>2. l = <<l[1], l[2]>> /\ l[1] \in Sector /\ l[2] \in Index /\ ~d.ftl.allocated[l[1]]
      BY <3>1, Logicals DEF Free, Counted
    <3>3. l[2] \in FreeIn(d, l[1])
      BY <2>2, <3>1, <3>2
    <3>4. PICK n \in 0..Units - 2 : After(d.ftl.alloc_sector, n) = l[1]
      BY <2>1, <3>2, Rounds
    <3>5. Usable(n)
      BY <3>2, <3>3, <3>4
    <3> QED  BY <3>5
  <2>4. skip \in N /\ \A n \in N : skip <= n
    <3>1. N \in SUBSET Nat
      BY GeometryAssumption
    <3> QED  BY <2>3, <3>1, Least
  <2>5. skip \in Nat /\ skip \in 0..Units - 2 /\ Usable(skip)
    <3>1. \A n \in N : n \in 0..Units - 2 /\ Usable(n)
      OBVIOUS
    <3>2. \A n \in 0..Units - 2 : n \in Nat
      BY GeometryAssumption
    <3> HIDE DEF N, skip, Usable
    <3> QED  BY <2>4, <3>1, <3>2
  <2>6. s \in Sector /\ ~d.ftl.allocated[s] /\ FreeIn(d, s) # {}
    BY <2>1, <2>5, Rounds
  <2>7. \A t \in skipped : d.ftl.allocated[t] \/ FreeIn(d, t) = {}
    <3> SUFFICES ASSUME NEW n \in 0..skip - 1
                 PROVE  ~Usable(n)
      OBVIOUS
    <3>1. n \in 0..Units - 2 /\ ~(skip <= n)
      BY <2>5, GeometryAssumption
    <3> QED  BY <2>4, <3>1
  <2>8. r = [DropXlate2(d) EXCEPT
               !.ftl.alloc_sector = s,
               !.ftl.alloc_mask = FreeIn(d, s),
               !.ftl.allocated = [t \in Sector |-> @[t] \/ t \in skipped]]
    BY <1>2 DEF Refilled
  <2> HIDE DEF s, skip, skipped
  <2> DEFINE x == DropXlate2(d)
             allocated == [t \in Sector |-> d.ftl.allocated[t] \/ t \in skipped]
  <2>9. x = [d EXCEPT !.ftl.xlate2_logical = Reserved, !.ftl.xlate2_cache = BlankMap]
    BY DEF DropXlate2
  <2>10. d.ftl.allocated \in [Sector -> BOOLEAN]
    BY <2>1 DEF Ftl
  <2>11. allocated \in [Sector -> BOOLEAN]
    BY <2>10
  <2> HIDE DEF x
  <2>12. /\ SameFlash(d, x) /\ x = [nor |-> d.nor, ftl |-> x.ftl, steps |-> d.steps]
         /\ x.ftl = [d.ftl EXCEPT !.xlate2_logical = Reserved, !.xlate2_cache = BlankMap]
    BY <2>9 DEF SameFlash, Device
  <2>13. x.ftl.allocated = d.ftl.allocated
    BY <2>1, <2>12 DEF Ftl
  <2>14. r = [x EXCEPT !.ftl.alloc_sector = s,
                       !.ftl.alloc_mask = FreeIn(d, s),
                       !.ftl.allocated = allocated]
    BY <2>1, <2>8, <2>12, <2>13 DEF Ftl, x
  <2> HIDE DEF allocated
  <2>15. /\ SameFlash(x, r) /\ r = [nor |-> x.nor, ftl |-> r.ftl, steps |-> x.steps]
         /\ r.ftl = [x.ftl EXCEPT !.alloc_sector = s, !.alloc_mask = FreeIn(d, s),
                                  !.allocated = allocated]
    BY <2>12, <2>14 DEF SameFlash
  <2>16. /\ SameFlash(d, r) /\ r = [nor |-> d.nor, ftl |-> r.ftl, steps |-> d.steps]
        /\ r.ftl = [d.ftl EXCEPT
                      !.xlate2_logical = Reserved, !.xlate2_cache = BlankMap,
                      !.alloc_sector = s, !.alloc_mask = FreeIn(d, s),
                      !.allocated = allocated]
    BY <2>12, <2>15 DEF SameFlash
  <2>17. FreeIn(d, s) \subseteq Index
    BY DEF FreeIn
  <2>18. /\ SameTables(d, r) /\ SameCache(d, r) /\ r.ftl.score = d.ftl.score
         /\ r.ftl.xlate2_logical = Reserved /\ r.ftl.alloc_free = d.ftl.alloc_free
         /\ r.ftl.alloc_sector = s /\ r.ftl.alloc_mask = FreeIn(d, s)
         /\ r.ftl.allocated = allocated
    BY <2>1, <2>16 DEF SameTables, SameCache, Ftl
  <2>19. r.ftl \in Ftl
    BY ZenonT(40), <2>1, <2>6, <2>16, <2>17, <2>11, Images DEF Ftl
  <2>20. Kindly(d, r)
    BY <2>16, <2>18, <2>19 DEF Kindly, Device
  <2>21. FreeIn(d, s) = {i \in Index : <<s, i>> \in Free(d, NotAllocated)}
    BY <2>2, <2>6, <2>17
  <2>22. ASSUME NEW l \in Free(d, NotAllocated) PROVE ~r.ftl.allocated[l[1]]
    <3>1. l = <<l[1], l[2]>> /\ l[1] \in Sector /\ l[2] \in Index /\ ~d.ftl.allocated[l[1]]
      BY Logicals DEF Free, Counted
    <3>2. FreeIn(d, l[1]) # {}
      BY <2>2, <3>1
    <3>3. l[1] \notin skipped
      BY <2>7, <3>1, <3>2
    <3> QED  BY <2>18, <3>1, <3>3 DEF allocated
  <2> QED  BY <2>6, <2>18, <2>20, <2>21, <2>22
<1> QED  BY <1>1, <1>2

(* A block that was free is allocated.                                     *)
LEMMA Allocates ==
  ASSUME NEW d \in Device, Sectors(d), Counted(d, NotAllocated), d.ftl.alloc_free # 0,
         NEW q, q = Allocate(d), NEW l, l = NextFree(d)
  PROVE  /\ Kindly(d, q)
         /\ l \in Logical /\ ~InfoAt(d, l).written
         /\ Counted(q, l) /\ q.ftl.alloc_free = d.ftl.alloc_free - 1
<1> DEFINE r == Refilled(d)
           s == r.ftl.alloc_sector
           i == Min(r.ftl.alloc_mask)
           mask == r.ftl.alloc_mask \ {i}
<1>1. /\ Kindly(d, r)
      /\ r.ftl.alloc_free = d.ftl.alloc_free
      /\ r.ftl.alloc_mask # {}
      /\ r.ftl.alloc_mask = {j \in Index : <<s, j>> \in Free(d, NotAllocated)}
      /\ \A m \in Free(d, NotAllocated) : ~r.ftl.allocated[m[1]]
  BY Fills
<1>2. r \in Device /\ r.ftl \in Ftl /\ s \in Sector
  BY <1>1 DEF Kindly, Device, Ftl
<1>3. i \in r.ftl.alloc_mask /\ i \in Index
  <2>1. r.ftl.alloc_mask \in SUBSET Nat
    BY <1>1, GeometryAssumption DEF Index
  <2> QED  BY <1>1, <2>1, Least
<1>4. q = Take(r) /\ l = <<s, i>>
  BY DEF Allocate, NextFree, FirstFree
<1> HIDE DEF r
<1>5. l \in Free(d, NotAllocated) /\ l[1] = s /\ l[2] = i
  BY <1>1, <1>3, <1>4
<1>6. l \in Logical /\ ~InfoAt(d, l).written
  BY <1>5 DEF Free
<1>7. q = [r EXCEPT !.ftl.alloc_mask = mask,
                    !.ftl.alloc_free = @ - 1,
                    !.ftl.allocated[s] = @ \/ mask = {},
                    !.ftl.alloc_sector = IF mask = {} THEN After(s, 1) ELSE s]
  BY <1>4 DEF Take
<1> HIDE DEF mask, s, i
<1>8. /\ SameFlash(r, q) /\ q = [nor |-> r.nor, ftl |-> q.ftl, steps |-> r.steps]
      /\ q.ftl = [r.ftl EXCEPT !.alloc_mask = mask,
                               !.alloc_free = r.ftl.alloc_free - 1,
                               !.allocated = [r.ftl.allocated EXCEPT ![s] = @ \/ mask = {}],
                               !.alloc_sector = IF mask = {} THEN After(s, 1) ELSE s]
  BY <1>2, <1>7 DEF SameFlash, Device, Ftl
<1>9. mask \subseteq Index /\ After(s, 1) \in Sector
  BY <1>1, <1>2, Rounds DEF mask
<1>10. /\ SameTables(r, q) /\ SameCache(r, q) /\ SameCache2(r, q) /\ q.ftl.score = r.ftl.score
       /\ q.ftl.alloc_mask = mask /\ q.ftl.alloc_free = r.ftl.alloc_free - 1
       /\ q.ftl.allocated = [r.ftl.allocated EXCEPT ![s] = @ \/ mask = {}]
       /\ q.ftl.alloc_sector = IF mask = {} THEN After(s, 1) ELSE s
  BY <1>2, <1>8 DEF SameTables, SameCache, SameCache2, Ftl
<1>11. [r.ftl.allocated EXCEPT ![s] = @ \/ mask = {}] \in [Sector -> BOOLEAN]
  BY <1>2 DEF Ftl
<1>12. q.ftl \in Ftl
  <2> DEFINE next == IF mask = {} THEN After(s, 1) ELSE s
             free == r.ftl.alloc_free - 1
             allocated == [r.ftl.allocated EXCEPT ![s] = @ \/ mask = {}]
  <2>1. next \in Sector /\ free \in Int /\ allocated \in [Sector -> BOOLEAN]
    BY <1>2, <1>9, <1>11 DEF Ftl
  <2>2. q.ftl = [r.ftl EXCEPT !.alloc_mask = mask, !.alloc_free = free,
                              !.allocated = allocated, !.alloc_sector = next]
    BY <1>8
  <2> HIDE DEF next, free, allocated
  <2> QED  BY ZenonT(40), <1>2, <1>9, <2>1, <2>2 DEF Ftl
<1>13. q \in Device
  BY <1>2, <1>8, <1>12 DEF Device
<1>14. Kindly(d, q)
  BY <1>1, <1>8, <1>10, <1>13 DEF Kindly, SameFlash, SameTables, SameCache, SameCache2
<1>15. \A m : SameAt(d, q, m)
  BY <1>14, SameViews DEF Kindly, SameTables
<1>16. Free(q, l) = Free(d, NotAllocated) \ {l}
  BY <1>15, Logicals DEF Free, SameAt
<1>17. q.ftl.alloc_free = Cardinality(Free(q, l))
  <2>1. Cardinality(Free(d, NotAllocated) \ {l}) = Cardinality(Free(d, NotAllocated)) - 1
    BY <1>5, FreeFinite, FS_RemoveElement
  <2> QED  BY <1>1, <1>10, <1>16, <2>1 DEF Counted
<1>18. ASSUME mask # {}
       PROVE  q.ftl.alloc_mask = {j \in Index : <<q.ftl.alloc_sector, j>> \in Free(q, l)}
  <2>1. q.ftl.alloc_sector = s
    BY <1>10, <1>18
  <2>2. \A j \in Index : <<s, j>> = l <=> j = i
    BY <1>4, <1>5
  <2> QED  BY <1>1, <1>10, <1>16, <2>1, <2>2 DEF mask, s
<1>19. ASSUME NEW m \in Free(q, l) PROVE ~q.ftl.allocated[m[1]]
  <2>1. m \in Free(d, NotAllocated) /\ m # l /\ m = <<m[1], m[2]>> /\ m[1] \in Sector /\ m[2] \in Index
    BY <1>16, Logicals DEF Free
  <2>2. ~r.ftl.allocated[m[1]]
    BY <1>1, <2>1
  <2>3. m[1] = s => m[2] \in mask
    BY <1>1, <1>4, <2>1 DEF mask, s
  <2>4. DOMAIN r.ftl.allocated = Sector
    BY <1>2 DEF Ftl
  <2> QED  BY <1>10, <2>1, <2>2, <2>3, <2>4
<1>20. Counted(q, l)
  BY <1>10, <1>17, <1>18, <1>19 DEF Counted
<1> QED  BY <1>1, <1>6, <1>10, <1>14, <1>20
-----------------------------------------------------------------------------
(* A new translation block.                                                *)

(* The types of an info word are sets of bits, ...                         *)
LEMMA Types ==
  /\ RESERVED \in SUBSET (0..3) /\ XLATE \in SUBSET (0..3) /\ XLATE_SECONDARY \in SUBSET (0..3)
  /\ DATA_WRITTEN \in SUBSET (0..3) /\ DATA_COMMITTED \in SUBSET (0..3)
  /\ DATA_DELETED \in SUBSET (0..3) /\ DELETED \in SUBSET (0..3)
  /\ RECLAIM \in SUBSET (0..3) /\ ERASE \in SUBSET (0..3) /\ VICTIM \in SUBSET (0..3)
BY DEF RESERVED, XLATE, XLATE_SECONDARY, DATA_WRITTEN, DATA_COMMITTED, DATA_DELETED, DELETED,
       RECLAIM, ERASE, VICTIM

(* ... no two the same.                                                    *)
LEMMA Distinct ==
  /\ DELETED # XLATE /\ DELETED # XLATE_SECONDARY /\ DELETED # DATA_COMMITTED
  /\ XLATE # XLATE_SECONDARY /\ XLATE # DATA_COMMITTED /\ XLATE_SECONDARY # DATA_COMMITTED
  /\ DELETED # RESERVED /\ RESERVED # XLATE /\ RESERVED # XLATE_SECONDARY
  /\ RESERVED # DATA_COMMITTED
<1>1. /\ 0 \in RESERVED /\ 1 \in RESERVED /\ 2 \in RESERVED /\ 3 \in RESERVED
      /\ 0 \notin XLATE /\ 1 \notin XLATE /\ 2 \in XLATE /\ 3 \in XLATE
      /\ 0 \in XLATE_SECONDARY /\ 1 \notin XLATE_SECONDARY /\ 3 \in XLATE_SECONDARY
      /\ 0 \notin DATA_COMMITTED /\ 1 \in DATA_COMMITTED /\ 3 \notin DATA_COMMITTED
      /\ \A x : x \notin DELETED
  BY DEF RESERVED, XLATE, XLATE_SECONDARY, DATA_COMMITTED, DELETED
<1> QED  BY <1>1

LEMMA InfoFields ==
  \A type, of : Info(type, of).written /\ Info(type, of).type = type /\ Info(type, of).of = of
BY DEF Info

LEMMA SegmentInfo ==
  Segments \subseteq {-1} \cup 0..Units + Addresses /\ Address \subseteq {-1} \cup 0..Units + Addresses
<1>1. Address \subseteq 0..Units + Addresses
  BY GeometryAssumption DEF Address
<1> QED  BY <1>1, Entered

(* A new translation block is a blank one, in the table and in the cache; ...*)
LEMMA XlateNew ==
  ASSUME NEW d \in Device, Sectors(d), Counted(d, NotAllocated), d.ftl.alloc_free # 0,
         NEW seg \in Segments, NEW r, r = NewXlate(d, seg), NEW l, l = NextFree(d)
  PROVE  /\ r \in Device /\ l \in Logical /\ ~InfoAt(d, l).written /\ Spared(d, r, l)
         /\ InfoAt(r, l) = Info(XLATE, seg)
         /\ MapAt(r, l) = MapAt(d, l) /\ UserAt(r, l) = UserAt(d, l)
         /\ r.ftl.sector_table = d.ftl.sector_table /\ r.ftl.block_table = d.ftl.block_table
         /\ r.ftl.xlate_table = [d.ftl.xlate_table EXCEPT ![seg] = l]
         /\ r.ftl.xlate2_table = d.ftl.xlate2_table
         /\ r.ftl.reclaim = d.ftl.reclaim /\ r.ftl.score = d.ftl.score
         /\ r.ftl.xlate_logical = l /\ r.ftl.xlate_cache = BlankMap
         /\ SameCache2(d, r) \/ r.ftl.xlate2_logical = Reserved
         /\ Counted(r, NotAllocated) /\ r.ftl.alloc_free = d.ftl.alloc_free - 1
         /\ Sticks(r) <=> Sticks(d) /\ InfoAt(d, l) = BlankInfo
<1> DEFINE q == Allocate(d)
           x == [q EXCEPT !.ftl.xlate_table[seg] = l,
                          !.ftl.xlate_logical = l,
                          !.ftl.xlate_cache = BlankMap]
<1>1. /\ Kindly(d, q) /\ l \in Logical /\ ~InfoAt(d, l).written
      /\ Counted(q, l) /\ q.ftl.alloc_free = d.ftl.alloc_free - 1
  BY Allocates
<1>2. r = InfoEntry(x, "xlate", l, XLATE, seg)
  BY DEF NewXlate
<1> HIDE DEF q
<1>3. q \in Device /\ q.ftl \in Ftl /\ l \in Content /\ l # NotAllocated /\ l # Reserved
  BY <1>1, Logicals DEF Kindly, Device, Content
<1>4. x = [q EXCEPT !.ftl = [q.ftl EXCEPT
                         !.xlate_table = [q.ftl.xlate_table EXCEPT ![seg] = l],
                         !.xlate_logical = l, !.xlate_cache = BlankMap]]
  BY <1>3 DEF Device, Ftl
<1> HIDE DEF x
<1>5. /\ SameFlash(q, x) /\ x = [nor |-> q.nor, ftl |-> x.ftl, steps |-> q.steps]
      /\ x.ftl = [q.ftl EXCEPT !.xlate_table = [q.ftl.xlate_table EXCEPT ![seg] = l],
                               !.xlate_logical = l, !.xlate_cache = BlankMap]
  BY <1>3, <1>4 DEF SameFlash, Device
<1>6. /\ x.ftl.sector_table = q.ftl.sector_table /\ x.ftl.block_table = q.ftl.block_table
      /\ x.ftl.xlate_table = [q.ftl.xlate_table EXCEPT ![seg] = l]
      /\ x.ftl.xlate2_table = q.ftl.xlate2_table
      /\ x.ftl.reclaim = q.ftl.reclaim /\ x.ftl.score = q.ftl.score
      /\ x.ftl.xlate_logical = l /\ x.ftl.xlate_cache = BlankMap
      /\ SameCache2(q, x) /\ SameAlloc(q, x)
  BY <1>3, <1>5 DEF SameCache2, SameAlloc, Ftl
<1>7. [q.ftl.xlate_table EXCEPT ![seg] = l] \in [Segments -> Content]
  BY <1>3 DEF Ftl
<1>8. x.ftl \in Ftl
  BY ZenonT(40), <1>3, <1>5, <1>7, Images DEF Ftl
<1>9. x \in Device
  BY <1>3, <1>5, <1>8 DEF Device
<1>10. Sectors(x) /\ SameFlash(d, x) /\ x.ftl.sector_table = d.ftl.sector_table
  BY <1>1, <1>5, <1>6 DEF Kindly, Sectors, SameTables, SameFlash
<1>11. (\A m : SameAt(d, x, m)) /\ (Sticks(x) <=> Sticks(d))
  BY <1>10, SameViews
<1>12. /\ Touched(x, r, l)
       /\ InfoAt(r, l) = Info(XLATE, seg)
       /\ MapAt(r, l) = MapAt(x, l) /\ UserAt(r, l) = UserAt(x, l)
       /\ Sticks(r) <=> Sticks(x) /\ InfoAt(x, l) = BlankInfo
  <2>1. seg \in {-1} \cup 0..Units + Addresses
    BY SegmentInfo
  <2>2. x \in Device /\ Sectors(x) /\ l \in Logical
    BY <1>1, <1>9, <1>10
  <2>3. XLATE \in SUBSET (0..3)
    BY Types
  <2>4. "xlate" \in StepName
    BY DEF StepName
  <2> QED  BY <1>2, <2>1, <2>2, <2>3, <2>4, EntryWritten
<1>13. r \in Device /\ r.ftl = x.ftl
  BY <1>12 DEF Touched
<1>14. x.ftl.reclaim = d.ftl.reclaim /\ x.nor = d.nor
  BY <1>1, <1>6, <1>10 DEF Kindly, SameTables, SameFlash
<1>15. Spared(d, r, l)
  BY <1>11, <1>12, <1>14 DEF Touched, Spared, SameAt
<1>16. Free(r, NotAllocated) = Free(q, l)
  <2>1. \A m : SameAt(d, q, m)
    BY <1>1, SameViews DEF Kindly, SameTables
  <2> QED  BY <1>12, <1>15, <2>1, Logicals, InfoFields DEF Free, Spared, SameAt
<1>17. Counted(r, NotAllocated) /\ r.ftl.alloc_free = d.ftl.alloc_free - 1
  BY ZenonT(40), <1>1, <1>6, <1>13, <1>16 DEF Counted, SameAlloc
<1>18. SameCache2(d, r) \/ r.ftl.xlate2_logical = Reserved
  BY <1>1, <1>6, <1>13 DEF Kindly, SameCache2
<1>19. /\ r.ftl.sector_table = d.ftl.sector_table /\ r.ftl.block_table = d.ftl.block_table
       /\ r.ftl.xlate_table = [d.ftl.xlate_table EXCEPT ![seg] = l]
       /\ r.ftl.xlate2_table = d.ftl.xlate2_table
       /\ r.ftl.reclaim = d.ftl.reclaim /\ r.ftl.score = d.ftl.score
       /\ r.ftl.xlate_logical = l /\ r.ftl.xlate_cache = BlankMap
  BY <1>1, <1>6, <1>13 DEF Kindly, SameTables
<1> QED  BY <1>1, <1>11, <1>12, <1>13, <1>15, <1>17, <1>18, <1>19 DEF SameAt

(* ... so is a new second one.                                             *)
LEMMA Xlate2New ==
  ASSUME NEW d \in Device, Sectors(d), Counted(d, NotAllocated), d.ftl.alloc_free # 0,
         NEW seg \in Segments, NEW r, r = NewXlate2(d, seg), NEW l, l = NextFree(d)
  PROVE  /\ r \in Device /\ l \in Logical /\ ~InfoAt(d, l).written /\ Spared(d, r, l)
         /\ InfoAt(r, l) = Info(XLATE_SECONDARY, seg)
         /\ MapAt(r, l) = MapAt(d, l) /\ UserAt(r, l) = UserAt(d, l)
         /\ r.ftl.sector_table = d.ftl.sector_table /\ r.ftl.block_table = d.ftl.block_table
         /\ r.ftl.xlate_table = d.ftl.xlate_table
         /\ r.ftl.xlate2_table = [d.ftl.xlate2_table EXCEPT ![seg] = l]
         /\ r.ftl.reclaim = d.ftl.reclaim /\ r.ftl.score = d.ftl.score
         /\ SameCache(d, r)
         /\ r.ftl.xlate2_logical = l /\ r.ftl.xlate2_cache = BlankMap
         /\ Counted(r, NotAllocated) /\ r.ftl.alloc_free = d.ftl.alloc_free - 1
         /\ Sticks(r) <=> Sticks(d) /\ InfoAt(d, l) = BlankInfo
<1> DEFINE q == Allocate(d)
           x == [q EXCEPT !.ftl.xlate2_table[seg] = l,
                          !.ftl.xlate2_logical = l,
                          !.ftl.xlate2_cache = BlankMap]
<1>1. /\ Kindly(d, q) /\ l \in Logical /\ ~InfoAt(d, l).written
      /\ Counted(q, l) /\ q.ftl.alloc_free = d.ftl.alloc_free - 1
  BY Allocates
<1>2. r = InfoEntry(x, "xlate2", l, XLATE_SECONDARY, seg)
  BY DEF NewXlate2
<1> HIDE DEF q
<1>3. q \in Device /\ q.ftl \in Ftl /\ l \in Content /\ l # NotAllocated /\ l # Reserved
  BY <1>1, Logicals DEF Kindly, Device, Content
<1>4. x = [q EXCEPT !.ftl = [q.ftl EXCEPT
                         !.xlate2_table = [q.ftl.xlate2_table EXCEPT ![seg] = l],
                         !.xlate2_logical = l, !.xlate2_cache = BlankMap]]
  BY <1>3 DEF Device, Ftl
<1> HIDE DEF x
<1>5. /\ SameFlash(q, x) /\ x = [nor |-> q.nor, ftl |-> x.ftl, steps |-> q.steps]
      /\ x.ftl = [q.ftl EXCEPT !.xlate2_table = [q.ftl.xlate2_table EXCEPT ![seg] = l],
                               !.xlate2_logical = l, !.xlate2_cache = BlankMap]
  BY <1>3, <1>4 DEF SameFlash, Device
<1>6. /\ x.ftl.sector_table = q.ftl.sector_table /\ x.ftl.block_table = q.ftl.block_table
      /\ x.ftl.xlate2_table = [q.ftl.xlate2_table EXCEPT ![seg] = l]
      /\ x.ftl.xlate_table = q.ftl.xlate_table
      /\ x.ftl.reclaim = q.ftl.reclaim /\ x.ftl.score = q.ftl.score
      /\ x.ftl.xlate2_logical = l /\ x.ftl.xlate2_cache = BlankMap
      /\ SameCache(q, x) /\ SameAlloc(q, x)
  BY <1>3, <1>5 DEF SameCache, SameAlloc, Ftl
<1>7. [q.ftl.xlate2_table EXCEPT ![seg] = l] \in [Segments -> Content]
  BY <1>3 DEF Ftl
<1>8. x.ftl \in Ftl
  BY ZenonT(40), <1>3, <1>5, <1>7, Images DEF Ftl
<1>9. x \in Device
  BY <1>3, <1>5, <1>8 DEF Device
<1>10. Sectors(x) /\ SameFlash(d, x) /\ x.ftl.sector_table = d.ftl.sector_table
  BY <1>1, <1>5, <1>6 DEF Kindly, Sectors, SameTables, SameFlash
<1>11. (\A m : SameAt(d, x, m)) /\ (Sticks(x) <=> Sticks(d))
  BY <1>10, SameViews
<1>12. /\ Touched(x, r, l)
       /\ InfoAt(r, l) = Info(XLATE_SECONDARY, seg)
       /\ MapAt(r, l) = MapAt(x, l) /\ UserAt(r, l) = UserAt(x, l)
       /\ Sticks(r) <=> Sticks(x) /\ InfoAt(x, l) = BlankInfo
  <2>1. seg \in {-1} \cup 0..Units + Addresses
    BY SegmentInfo
  <2>2. x \in Device /\ Sectors(x) /\ l \in Logical
    BY <1>1, <1>9, <1>10
  <2>3. XLATE_SECONDARY \in SUBSET (0..3)
    BY Types
  <2>4. "xlate2" \in StepName
    BY DEF StepName
  <2> QED  BY <1>2, <2>1, <2>2, <2>3, <2>4, EntryWritten
<1>13. r \in Device /\ r.ftl = x.ftl
  BY <1>12 DEF Touched
<1>14. x.ftl.reclaim = d.ftl.reclaim /\ x.nor = d.nor
  BY <1>1, <1>6, <1>10 DEF Kindly, SameTables, SameFlash
<1>15. Spared(d, r, l)
  BY <1>11, <1>12, <1>14 DEF Touched, Spared, SameAt
<1>16. Free(r, NotAllocated) = Free(q, l)
  <2>1. \A m : SameAt(d, q, m)
    BY <1>1, SameViews DEF Kindly, SameTables
  <2> QED  BY <1>12, <1>15, <2>1, Logicals, InfoFields DEF Free, Spared, SameAt
<1>17. Counted(r, NotAllocated) /\ r.ftl.alloc_free = d.ftl.alloc_free - 1
  BY ZenonT(40), <1>1, <1>6, <1>13, <1>16 DEF Counted, SameAlloc
<1>18. /\ r.ftl.sector_table = d.ftl.sector_table /\ r.ftl.block_table = d.ftl.block_table
       /\ r.ftl.xlate2_table = [d.ftl.xlate2_table EXCEPT ![seg] = l]
       /\ r.ftl.xlate_table = d.ftl.xlate_table
       /\ r.ftl.reclaim = d.ftl.reclaim /\ r.ftl.score = d.ftl.score
       /\ r.ftl.xlate2_logical = l /\ r.ftl.xlate2_cache = BlankMap /\ SameCache(d, r)
  BY <1>1, <1>6, <1>13 DEF Kindly, SameTables, SameCache
<1> QED  BY <1>1, <1>11, <1>12, <1>13, <1>15, <1>17, <1>18 DEF SameAt

(* What changes a block leaves sectors and headers as they were.           *)
LEMMA HeadersSpared ==
  ASSUME NEW d, NEW r, NEW l, Sectors(d), Headers(d), Spared(d, r, l),
         r.ftl.sector_table = d.ftl.sector_table, r.ftl.reclaim = d.ftl.reclaim
  PROVE  Sectors(r) /\ Headers(r)
BY SMTT(30) DEF Sectors, Headers, Spared

(* The deleted blocks depend on the info words alone.                      *)
LEMMA DeadIs ==
  ASSUME NEW d, NEW r,
         \A l \in Logical : (InfoAt(r, l).written /\ InfoAt(r, l).type = DELETED)
                              <=> (InfoAt(d, l).written /\ InfoAt(d, l).type = DELETED)
  PROVE  \A s \in Sector : Dead(r, s) = Dead(d, s)
<1>1. \A s \in Sector, i \in Index : <<s, i>> \in Logical
  BY DEF Logical
<1> QED  BY <1>1 DEF Dead

(* The tables hold logical blocks that are in use, or nothing.              *)
LEMMA TablesHold ==
  ASSUME NEW d, Good(d)
  PROVE  /\ \A seg \in Segments :
              /\ d.ftl.xlate_table[seg] \in Logical \cup {NotAllocated}
              /\ d.ftl.xlate2_table[seg] \in Logical \cup {NotAllocated}
              /\ d.ftl.xlate_table[seg] # NotAllocated =>
                   InfoAt(d, d.ftl.xlate_table[seg]) = Info(XLATE, seg)
              /\ d.ftl.xlate2_table[seg] # NotAllocated =>
                   /\ InfoAt(d, d.ftl.xlate2_table[seg]) = Info(XLATE_SECONDARY, seg)
                   /\ d.ftl.xlate_table[seg] # NotAllocated
         /\ \A a \in Address : Where(d, a) \in Named
BY Logicals DEF Good, TableEntry, AddressEntry, Where, Named

(* Nothing but a new translation block is added.                           *)
LEMMA XlateAdded ==
  ASSUME NEW d, Good(d), d.ftl.alloc_free # 0,
         NEW seg \in Segments, d.ftl.xlate_table[seg] = NotAllocated,
         NEW r, r = NewXlate(d, seg)
  PROVE  /\ Good(r) /\ SameData(d, r) /\ (Sticks(r) <=> Sticks(d))
         /\ r.ftl.alloc_free = d.ftl.alloc_free - 1
         /\ r.ftl.xlate_table[seg] # NotAllocated
         /\ \A a \in Address : ~Direct(a) /\ Segment(a) = seg => Primary(r, a) = NotAllocated
<1> DEFINE l == NextFree(d)
<1>1. /\ r \in Device /\ l \in Logical /\ ~InfoAt(d, l).written /\ Spared(d, r, l)
      /\ InfoAt(r, l) = Info(XLATE, seg)
      /\ MapAt(r, l) = MapAt(d, l) /\ UserAt(r, l) = UserAt(d, l)
      /\ r.ftl.sector_table = d.ftl.sector_table /\ r.ftl.block_table = d.ftl.block_table
      /\ r.ftl.xlate_table = [d.ftl.xlate_table EXCEPT ![seg] = l]
      /\ r.ftl.xlate2_table = d.ftl.xlate2_table
      /\ r.ftl.reclaim = d.ftl.reclaim /\ r.ftl.score = d.ftl.score
      /\ r.ftl.xlate_logical = l /\ r.ftl.xlate_cache = BlankMap
      /\ SameCache2(d, r) \/ r.ftl.xlate2_logical = Reserved
      /\ Counted(r, NotAllocated) /\ r.ftl.alloc_free = d.ftl.alloc_free - 1
      /\ Sticks(r) <=> Sticks(d) /\ InfoAt(d, l) = BlankInfo
  BY XlateNew DEF Good
<1> HIDE DEF l
<1>2. InfoAt(d, l) = BlankInfo /\ MapAt(d, l) = BlankMap /\ l # NotAllocated /\ l # Reserved
  BY <1>1, Logicals DEF Good, Blanks
<1>3. /\ \A m \in Logical : MapAt(r, m) = MapAt(d, m) /\ UserAt(r, m) = UserAt(d, m)
      /\ \A m \in Logical : m # l => InfoAt(r, m) = InfoAt(d, m)
      /\ MapAt(r, NotAllocated) = MapAt(d, NotAllocated)
      /\ MapAt(d, NotAllocated) = BlankMap
  BY <1>1, NotSeen DEF Spared, SameAt
<1>4. /\ r.ftl.xlate_table[seg] = l
      /\ \A s \in Segments : s # seg => r.ftl.xlate_table[s] = d.ftl.xlate_table[s]
  <2>1. DOMAIN d.ftl.xlate_table = Segments
    BY DEF Good, Device, Ftl
  <2> QED  BY <1>1, <2>1
<1>5. ASSUME NEW a \in Address, ~Direct(a)
      PROVE  Primary(r, a) = Primary(d, a) /\ Secondary(r, a) = Secondary(d, a)
             /\ (Segment(a) = seg => Primary(r, a) = NotAllocated)
  <2>1. Segment(a) \in Segments /\ XlateIndex(a) \in Entry
    BY <1>5, Entered
  <2>2. Secondary(r, a) = Secondary(d, a)
    BY <1>1, <1>3, <2>1, TablesHold DEF Secondary
  <2>3. Segment(a) # seg => Primary(r, a) = Primary(d, a)
    BY <1>3, <1>4, <2>1, TablesHold DEF Primary
  <2>4. Segment(a) = seg => Primary(r, a) = NotAllocated /\ Primary(d, a) = NotAllocated
    BY <1>1, <1>2, <1>3, <1>4, <2>1, BlankEntries DEF Primary
  <2> QED  BY <2>2, <2>3, <2>4
<1>6. \A a \in Address : Where(r, a) = Where(d, a)
  BY <1>1, <1>5 DEF Where
<1>7. \A a \in Address : Where(d, a) \in Logical => Where(d, a) # l
  BY <1>1, InfoFields DEF Good, AddressEntry
<1>8. SameData(d, r)
  BY <1>3, <1>6 DEF SameData
<1>9. Sectors(r) /\ Headers(r)
  BY <1>1, HeadersSpared DEF Good
<1>10. Blanks(r)
  BY <1>1, <1>3, InfoFields DEF Good, Blanks
<1>11. ASSUME NEW m \in Logical PROVE Used(r, m)
  <2>1. CASE m = l
    BY <1>1, <1>4, <2>1, InfoFields DEF Used
  <2>2. CASE m # l
    <3>1. InfoAt(r, m) = InfoAt(d, m) /\ Used(d, m)
      BY <1>3, <2>2 DEF Good
    <3>2. m # NotAllocated
      BY Logicals
    <3> QED  BY <1>1, <1>4, <1>6, <3>1, <3>2 DEF Used
  <2> QED  BY <2>1, <2>2
<1>12. ASSUME NEW s \in Segments PROVE TableEntry(r, s)
  <2>1. TableEntry(d, s)
    BY DEF Good
  <2>2. /\ d.ftl.xlate_table[s] # l /\ d.ftl.xlate2_table[s] # l
        /\ s = seg => d.ftl.xlate2_table[s] = NotAllocated
    BY <1>1, <1>2, TablesHold, InfoFields
  <2>3. CASE s = seg
    BY <1>1, <1>4, <2>2, <2>3 DEF TableEntry
  <2>4. CASE s # seg
    BY <1>1, <1>3, <1>4, <2>1, <2>2, <2>4 DEF TableEntry
  <2> QED  BY <2>3, <2>4
<1>13. \A a \in Address : AddressEntry(r, a)
  BY <1>1, <1>3, <1>5, <1>6, <1>7 DEF Good, AddressEntry
<1>14. Cached(r)
  BY <1>1, <1>2, <1>4 DEF Cached
<1>15. Cached2(r)
  <2>1. CASE r.ftl.xlate2_logical = Reserved
    BY <2>1 DEF Cached2
  <2>2. CASE SameCache2(d, r)
    BY <1>1, <1>3, <2>2 DEF Good, Cached2, SameCache2
  <2> QED  BY <1>1, <2>1, <2>2
<1>16. Scored(r)
  <2>1. \A m \in Logical : (InfoAt(r, m).written /\ InfoAt(r, m).type = DELETED)
                             <=> (InfoAt(d, m).written /\ InfoAt(d, m).type = DELETED)
    BY <1>1, <1>3, InfoFields, Distinct
  <2>2. \A s \in Sector : Dead(r, s) = Dead(d, s)
    BY <2>1, DeadIs
  <2> QED  BY <1>1, <2>2 DEF Good, Scored
<1>17. Good(r)
  BY <1>1, <1>9, <1>10, <1>11, <1>12, <1>13, <1>14, <1>15, <1>16 DEF Good
<1> QED  BY <1>1, <1>2, <1>4, <1>5, <1>8, <1>17

(* ... or a secondary one.                                                 *)
LEMMA Xlate2Added ==
  ASSUME NEW d, Good(d), d.ftl.alloc_free # 0,
         NEW seg \in Segments, d.ftl.xlate2_table[seg] = NotAllocated,
         d.ftl.xlate_table[seg] # NotAllocated,
         NEW r, r = NewXlate2(d, seg)
  PROVE  /\ Good(r) /\ SameData(d, r) /\ (Sticks(r) <=> Sticks(d))
         /\ r.ftl.alloc_free = d.ftl.alloc_free - 1
         /\ r.ftl.xlate_table[seg] # NotAllocated
         /\ r.ftl.xlate2_table[seg] # NotAllocated
         /\ \A a \in Address : ~Direct(a) /\ Segment(a) = seg => Secondary(r, a) = NotAllocated
<1> DEFINE l == NextFree(d)
<1>1. /\ r \in Device /\ l \in Logical /\ ~InfoAt(d, l).written /\ Spared(d, r, l)
      /\ InfoAt(r, l) = Info(XLATE_SECONDARY, seg)
      /\ MapAt(r, l) = MapAt(d, l) /\ UserAt(r, l) = UserAt(d, l)
      /\ r.ftl.sector_table = d.ftl.sector_table /\ r.ftl.block_table = d.ftl.block_table
      /\ r.ftl.xlate_table = d.ftl.xlate_table
      /\ r.ftl.xlate2_table = [d.ftl.xlate2_table EXCEPT ![seg] = l]
      /\ r.ftl.reclaim = d.ftl.reclaim /\ r.ftl.score = d.ftl.score
      /\ SameCache(d, r)
      /\ r.ftl.xlate2_logical = l /\ r.ftl.xlate2_cache = BlankMap
      /\ Counted(r, NotAllocated) /\ r.ftl.alloc_free = d.ftl.alloc_free - 1
      /\ Sticks(r) <=> Sticks(d) /\ InfoAt(d, l) = BlankInfo
  BY Xlate2New DEF Good
<1> HIDE DEF l
<1>2. InfoAt(d, l) = BlankInfo /\ MapAt(d, l) = BlankMap /\ l # NotAllocated /\ l # Reserved
  BY <1>1, Logicals DEF Good, Blanks
<1>3. /\ \A m \in Logical : MapAt(r, m) = MapAt(d, m) /\ UserAt(r, m) = UserAt(d, m)
      /\ \A m \in Logical : m # l => InfoAt(r, m) = InfoAt(d, m)
      /\ MapAt(r, NotAllocated) = MapAt(d, NotAllocated)
      /\ MapAt(d, NotAllocated) = BlankMap
  BY <1>1, NotSeen DEF Spared, SameAt
<1>4. /\ r.ftl.xlate2_table[seg] = l
      /\ \A s \in Segments : s # seg => r.ftl.xlate2_table[s] = d.ftl.xlate2_table[s]
  <2>1. DOMAIN d.ftl.xlate2_table = Segments
    BY DEF Good, Device, Ftl
  <2> QED  BY <1>1, <2>1
<1>5. ASSUME NEW a \in Address, ~Direct(a)
      PROVE  Primary(r, a) = Primary(d, a) /\ Secondary(r, a) = Secondary(d, a)
             /\ (Segment(a) = seg => Secondary(r, a) = NotAllocated)
  <2>1. Segment(a) \in Segments /\ XlateIndex(a) \in Entry
    BY <1>5, Entered
  <2>2. Primary(r, a) = Primary(d, a)
    BY <1>1, <1>3, <2>1, TablesHold DEF Primary
  <2>3. Segment(a) # seg => Secondary(r, a) = Secondary(d, a)
    BY <1>3, <1>4, <2>1, TablesHold DEF Secondary
  <2>4. Segment(a) = seg => Secondary(r, a) = NotAllocated /\ Secondary(d, a) = NotAllocated
    BY <1>1, <1>2, <1>3, <1>4, <2>1, BlankEntries DEF Secondary
  <2> QED  BY <2>2, <2>3, <2>4
<1>6. \A a \in Address : Where(r, a) = Where(d, a)
  BY <1>1, <1>5 DEF Where
<1>7. \A a \in Address : Where(d, a) \in Logical => Where(d, a) # l
  BY <1>1, InfoFields DEF Good, AddressEntry
<1>8. SameData(d, r)
  BY <1>3, <1>6 DEF SameData
<1>9. Sectors(r) /\ Headers(r)
  BY <1>1, HeadersSpared DEF Good
<1>10. Blanks(r)
  BY <1>1, <1>3, InfoFields DEF Good, Blanks
<1>11. ASSUME NEW m \in Logical PROVE Used(r, m)
  <2>1. CASE m = l
    BY <1>1, <1>4, <2>1, InfoFields DEF Used
  <2>2. CASE m # l
    <3>1. InfoAt(r, m) = InfoAt(d, m) /\ Used(d, m)
      BY <1>3, <2>2 DEF Good
    <3>2. m # NotAllocated
      BY Logicals
    <3> QED  BY <1>1, <1>4, <1>6, <3>1, <3>2 DEF Used
  <2> QED  BY <2>1, <2>2
<1>12. ASSUME NEW s \in Segments PROVE TableEntry(r, s)
  <2>1. TableEntry(d, s)
    BY DEF Good
  <2>2. d.ftl.xlate_table[s] # l /\ d.ftl.xlate2_table[s] # l
    BY <1>1, <1>2, TablesHold, InfoFields
  <2>3. CASE s = seg
    BY <1>1, <1>3, <1>4, <2>1, <2>2, <2>3 DEF TableEntry
  <2>4. CASE s # seg
    BY <1>1, <1>3, <1>4, <2>1, <2>2, <2>4 DEF TableEntry
  <2> QED  BY <2>3, <2>4
<1>13. \A a \in Address : AddressEntry(r, a)
  BY <1>1, <1>3, <1>5, <1>6, <1>7 DEF Good, AddressEntry
<1>14. Cached(r)
  BY <1>1, <1>3 DEF Good, Cached, SameCache
<1>15. Cached2(r)
  BY <1>1, <1>2, <1>4 DEF Cached2
<1>16. Scored(r)
  <2>1. \A m \in Logical : (InfoAt(r, m).written /\ InfoAt(r, m).type = DELETED)
                             <=> (InfoAt(d, m).written /\ InfoAt(d, m).type = DELETED)
    BY <1>1, <1>3, InfoFields, Distinct
  <2>2. \A s \in Sector : Dead(r, s) = Dead(d, s)
    BY <2>1, DeadIs
  <2> QED  BY <1>1, <2>2 DEF Good, Scored
<1>17. Good(r)
  BY <1>1, <1>9, <1>10, <1>11, <1>12, <1>13, <1>14, <1>15, <1>16 DEF Good
<1> QED  BY <1>1, <1>2, <1>4, <1>5, <1>8, <1>17
-----------------------------------------------------------------------------
(* Deleting.                                                               *)

IsDead(d, l) == InfoAt(d, l).written /\ InfoAt(d, l).type = DELETED

(* The score of a sector stays the number of its deleted blocks.            *)
LEMMA Scores ==
  ASSUME NEW d \in Device, Scored(d), NEW l \in Logical, ~IsDead(d, l),
         NEW r, r.ftl.score = [d.ftl.score EXCEPT ![l[1]] = OneMore(@)],
         \A m \in Logical : IsDead(r, m) <=> IsDead(d, m) \/ m = l
  PROVE  Scored(r)
<1> DEFINE t == l[1]
           i == l[2]
<1>1. t \in Sector /\ i \in Index /\ l = <<t, i>>
  BY Logicals
<1>2. \A s \in Sector, j \in Index : <<s, j>> \in Logical /\ (<<s, j>> = l <=> s = t /\ j = i)
  BY <1>1 DEF Logical
<1>3. \A s \in Sector : Dead(d, s) \subseteq Index /\ Dead(r, s) \subseteq Index
  BY DEF Dead
<1>4. i \notin Dead(d, t) /\ Dead(r, t) = Dead(d, t) \cup {i}
  BY <1>1, <1>2 DEF Dead, IsDead
<1>5. \A s \in Sector : s # t => Dead(r, s) = Dead(d, s)
  BY <1>2 DEF Dead, IsDead
<1>6. DOMAIN d.ftl.score = Sector
  BY DEF Device, Ftl
<1> HIDE DEF t, i
<1>7. IsFiniteSet(Dead(d, t)) /\ Cardinality(Dead(d, t)) \in Nat
  BY <1>1, <1>3, FiniteLogicals, FS_Subset, FS_CardinalityType
<1>8. Cardinality(Dead(r, t)) = Cardinality(Dead(d, t)) + 1
  BY <1>4, <1>7, FS_AddElement
<1>9. Cardinality(Dead(r, t)) <= Blocks - 1
  BY <1>1, <1>3, FiniteLogicals, FS_Subset
<1>10. OneMore(Cardinality(Dead(d, t))) = Cardinality(Dead(d, t)) + 1
  <2> DEFINE n == Cardinality(Dead(d, t))
  <2>1. n + 1 \in Nat /\ n + 1 < Blocks /\ Blocks \in Nat \ {0}
    BY <1>7, <1>8, <1>9, GeometryAssumption
  <2>2. (n + 1) % Blocks = n + 1
    BY <2>1, ModSmall
  <2> QED  BY <2>2 DEF OneMore
<1>11. d.ftl.score[t] = Cardinality(Dead(d, t))
  BY <1>1 DEF Scored
<1>12. r.ftl.score[t] = Cardinality(Dead(r, t))
  BY <1>1, <1>6, <1>8, <1>10, <1>11 DEF t
<1>13. \A s \in Sector : s # t => r.ftl.score[s] = Cardinality(Dead(r, s))
  BY <1>1, <1>5, <1>6 DEF Scored, t
<1> QED  BY <1>12, <1>13 DEF Scored
-----------------------------------------------------------------------------
(* Merging.                                                                *)

(* The entries of two translation blocks.                                  *)
Merged(d) ==
  [e \in Entry |-> IF d.ftl.xlate2_cache[e] # NotAllocated THEN d.ftl.xlate2_cache[e]
                                                           ELSE d.ftl.xlate_cache[e]]

Retired(d, l, l2) == Delete(WriteMap(d, "merge", l2, Merged(d)), "retire", l)
MergeStart(d, seg, l, l2) ==
  LET d2 == InfoType(Retired(d, l, l2), "promote", l2, XLATE)
  IN [d2 EXCEPT !.ftl.xlate_cache = Merged(d),
                !.ftl.xlate_logical = l2,
                !.ftl.xlate_table[seg] = l2]

(* Which programs of a translation entry leave the value programmed.       *)
LEMMA AndIs ==
  \A w, x \in Content : w = NotAllocated \/ w = x \/ x = Deleted => AndLogical(w, x) = x
BY SMTT(30), Logicals DEF AndLogical

(* The secondary block takes the place of the other, which is deleted.      *)
HalfMerged(d, seg, l, l2, d3) ==
  /\ d3 \in Device /\ l # l2 /\ (Sticks(d3) <=> Sticks(d))
  /\ d3.ftl.sector_table = d.ftl.sector_table /\ d3.ftl.block_table = d.ftl.block_table
  /\ d3.ftl.xlate_table = [d.ftl.xlate_table EXCEPT ![seg] = l2]
  /\ d3.ftl.xlate2_table = d.ftl.xlate2_table /\ d3.ftl.reclaim = d.ftl.reclaim
  /\ d3.ftl.score = [d.ftl.score EXCEPT ![l[1]] = OneMore(@)]
  /\ d3.ftl.xlate_logical = l2 /\ d3.ftl.xlate_cache = Merged(d)
  /\ SameAlloc(d, d3)
  /\ \A m \in Logical : m # l /\ m # l2 => SameAt(d, d3, m)
  /\ \A u \in Unit : d3.nor[u].info[0] = d.nor[u].info[0]
  /\ d3.nor[d.ftl.reclaim] = d.nor[d.ftl.reclaim]
  /\ InfoAt(d3, l) = Info(DELETED, -1) /\ MapAt(d3, l) = BlankMap /\ UserAt(d3, l) = Stale
  /\ InfoAt(d3, l2) = Info(XLATE, seg) /\ MapAt(d3, l2) = Merged(d)
  /\ UserAt(d3, l2) = UserAt(d, l2)
  /\ Retired(d, l, l2) \in Device
  /\ Retired(d, l, l2).ftl.sector_table = d.ftl.sector_table
  /\ InfoAt(Retired(d, l, l2), l2) = Info(XLATE_SECONDARY, seg)
  /\ d3.nor = InfoType(Retired(d, l, l2), "promote", l2, XLATE).nor

LEMMA MergeHalf ==
  ASSUME NEW d, Good(d), NEW seg \in Segments,
         NEW l \in Logical, NEW l2 \in Logical,
         l = d.ftl.xlate_table[seg], l2 = d.ftl.xlate2_table[seg],
         d.ftl.xlate_logical = l, d.ftl.xlate2_logical = l2,
         NEW d3, d3 = MergeStart(d, seg, l, l2)
  PROVE  HalfMerged(d, seg, l, l2, d3)
<1> DEFINE x == WriteMap(d, "merge", l2, Merged(d))
           map == Merged(d)
           d1 == Delete(x, "retire", l)
           d2 == InfoType(d1, "promote", l2, XLATE)
<1>1. /\ InfoAt(d, l) = Info(XLATE, seg) /\ InfoAt(d, l2) = Info(XLATE_SECONDARY, seg)
      /\ l # NotAllocated /\ l2 # NotAllocated /\ l2 # Reserved /\ l # Reserved /\ l2 \in Content
  BY TablesHold, Logicals DEF Content
<1>2. l # l2
  BY <1>1, InfoFields, Distinct
<1>3. d \in Device /\ d.ftl \in Ftl /\ Sectors(d)
  BY SMTT(30) DEF Good, Device
<1>4. /\ d.ftl.xlate_cache = MapAt(d, l) /\ d.ftl.xlate2_cache = MapAt(d, l2)
      /\ MapAt(d, l) \in [Entry -> Content] /\ MapAt(d, l2) \in [Entry -> Content]
  BY <1>1, <1>3, Seen DEF Good, Cached, Cached2
<1>5. map \in [Entry -> Content] /\ AndMap(MapAt(d, l2), map) = map
  <2>1. map \in [Entry -> Content]
    BY <1>4 DEF Merged
  <2>2. \A e \in Entry : AndLogical(MapAt(d, l2)[e], map[e]) = map[e]
    <3> TAKE e \in Entry
    <3>1. MapAt(d, l2)[e] = NotAllocated \/ MapAt(d, l2)[e] = map[e]
      BY <1>4 DEF Merged
    <3>2. MapAt(d, l2)[e] \in Content /\ map[e] \in Content
      BY <1>4, <2>1
    <3> HIDE DEF map
    <3> QED  BY <3>1, <3>2, AndIs
  <2> HIDE DEF map
  <2> QED  BY <2>1, <2>2 DEF AndMap
<1>6. /\ Touched(d, x, l2)
      /\ InfoAt(x, l2) = InfoAt(d, l2) /\ UserAt(x, l2) = UserAt(d, l2) /\ MapAt(x, l2) = map
      /\ Sticks(x) <=> Sticks(d)
  <2>1. "merge" \in StepName
    BY DEF StepName
  <2> QED  BY <1>3, <1>5, <2>1, MapWritten
<1> HIDE DEF x, map, d1, d2
<1>7. x \in Device /\ Sectors(x) /\ x.ftl = d.ftl
  BY <1>3, <1>6 DEF Touched, Sectors
<1>8. /\ d1 \in Device /\ Spared(x, d1, l)
      /\ SameTables(x, d1) /\ SameCache(x, d1) /\ SameCache2(x, d1) /\ SameAlloc(x, d1)
      /\ d1.ftl.score = [x.ftl.score EXCEPT ![l[1]] = OneMore(@)]
      /\ InfoAt(d1, l) = Info(DELETED, -1) /\ MapAt(d1, l) = BlankMap /\ UserAt(d1, l) = Stale
      /\ Sticks(d1) <=> Sticks(x)
  <2>1. "retire" \in StepName
    BY DEF StepName
  <2>2. d1 = Delete(x, "retire", l)
    BY DEF d1
  <2> QED  BY SMTT(30), <1>7, <2>1, <2>2, Deletes
<1>9. Sectors(d1)
  BY <1>7, <1>8 DEF Sectors, SameTables
<1>10. /\ InfoAt(d1, l2) = Info(XLATE_SECONDARY, seg) /\ MapAt(d1, l2) = map
       /\ UserAt(d1, l2) = UserAt(d, l2)
  BY <1>1, <1>2, <1>6, <1>8 DEF Spared, SameAt
<1>11. XLATE_SECONDARY \cap XLATE = XLATE /\ XLATE # DELETED /\ XLATE \subseteq XLATE_SECONDARY
  BY Distinct DEF XLATE, XLATE_SECONDARY
<1>12. /\ Touched(d1, d2, l2)
       /\ InfoAt(d2, l2) = Info(XLATE, seg)
       /\ MapAt(d2, l2) = map /\ UserAt(d2, l2) = UserAt(d, l2)
       /\ Sticks(d2) <=> Sticks(d1)
  <2>1. "promote" \in StepName /\ XLATE \in SUBSET (0..3)
    BY Types DEF StepName
  <2>2. InfoAt(d1, l2).of = seg /\ XLATE \subseteq InfoAt(d1, l2).type /\ XLATE # DELETED
    BY <1>10, <1>11, InfoFields
  <2>3. d1 \in Device /\ Sectors(d1) /\ d2 = InfoType(d1, "promote", l2, XLATE)
    BY <1>8, <1>9 DEF d2
  <2>4. /\ Touched(d1, d2, l2)
        /\ InfoAt(d2, l2) = Info(XLATE, InfoAt(d1, l2).of)
        /\ MapAt(d2, l2) = MapAt(d1, l2) /\ UserAt(d2, l2) = UserAt(d1, l2)
        /\ Sticks(d2) <=> Sticks(d1)
    BY <2>1, <2>2, <2>3, TypeNarrowed
  <2> QED  BY <1>10, <2>2, <2>4
<1>13. d2 \in Device /\ d2.ftl = d1.ftl /\ d2.ftl \in Ftl
  BY SMTT(30), <1>12 DEF Touched, Device
<1>14. d3 = [d2 EXCEPT !.ftl = [d2.ftl EXCEPT
                !.xlate_cache = map, !.xlate_logical = l2,
                !.xlate_table = [d2.ftl.xlate_table EXCEPT ![seg] = l2]]]
  BY Zenon, <1>13 DEF MergeStart, Retired, Device, Ftl, map, d1, d2, x
<1>15. /\ SameFlash(d2, d3) /\ d3 = [nor |-> d2.nor, ftl |-> d3.ftl, steps |-> d2.steps]
       /\ d3.ftl = [d2.ftl EXCEPT
                      !.xlate_cache = map, !.xlate_logical = l2,
                      !.xlate_table = [d2.ftl.xlate_table EXCEPT ![seg] = l2]]
  BY <1>13, <1>14 DEF SameFlash, Device
<1>16. /\ d3.ftl.sector_table = d2.ftl.sector_table /\ d3.ftl.block_table = d2.ftl.block_table
       /\ d3.ftl.xlate_table = [d2.ftl.xlate_table EXCEPT ![seg] = l2]
       /\ d3.ftl.xlate2_table = d2.ftl.xlate2_table /\ d3.ftl.reclaim = d2.ftl.reclaim
       /\ d3.ftl.score = d2.ftl.score
       /\ d3.ftl.xlate_logical = l2 /\ d3.ftl.xlate_cache = map /\ SameAlloc(d2, d3)
  BY <1>13, <1>15 DEF SameAlloc, Ftl
<1>17. [d2.ftl.xlate_table EXCEPT ![seg] = l2] \in [Segments -> Content]
  BY SMTT(30), <1>1, <1>13 DEF Ftl
<1>18. d3.ftl \in Ftl
  BY ZenonT(40), <1>1, <1>5, <1>13, <1>15, <1>17 DEF Ftl
<1>19. d3 \in Device
  BY <1>13, <1>15, <1>18 DEF Device
<1>20. (\A m : SameAt(d2, d3, m)) /\ (Sticks(d3) <=> Sticks(d2))
  BY <1>15, <1>16, SameViews
<1>21. \A m \in Logical : m # l /\ m # l2 => SameAt(d, d3, m)
  BY ZenonT(40), <1>6, <1>8, <1>12, <1>20 DEF Touched, Spared, SameAt
<1>22. /\ InfoAt(d3, l) = Info(DELETED, -1) /\ MapAt(d3, l) = BlankMap /\ UserAt(d3, l) = Stale
       /\ InfoAt(d3, l2) = Info(XLATE, seg) /\ MapAt(d3, l2) = map
       /\ UserAt(d3, l2) = UserAt(d, l2)
  BY ZenonT(40), <1>2, <1>8, <1>12, <1>20 DEF Touched, SameAt
<1>23. /\ \A u \in Unit : d3.nor[u].info[0] = d.nor[u].info[0]
       /\ d3.nor[d.ftl.reclaim] = d.nor[d.ftl.reclaim]
  <2>1. d3.nor = d2.nor
    BY <1>15 DEF SameFlash
  <2>2. /\ \A u \in Unit : d2.nor[u].info[0] = d1.nor[u].info[0]
        /\ d2.nor[d1.ftl.reclaim] = d1.nor[d1.ftl.reclaim]
    BY <1>12 DEF Touched
  <2>3. /\ \A u \in Unit : d1.nor[u].info[0] = x.nor[u].info[0]
        /\ d1.nor[x.ftl.reclaim] = x.nor[x.ftl.reclaim]
        /\ d1.ftl.reclaim = x.ftl.reclaim /\ x.ftl.reclaim = d.ftl.reclaim
    BY <1>7, <1>8 DEF Spared, SameTables
  <2>4. /\ \A u \in Unit : x.nor[u].info[0] = d.nor[u].info[0]
        /\ x.nor[d.ftl.reclaim] = d.nor[d.ftl.reclaim]
    BY SMTT(30), <1>6 DEF Touched
  <2> QED  BY <2>1, <2>2, <2>3, <2>4
<1>24. /\ d3.ftl.sector_table = d.ftl.sector_table /\ d3.ftl.block_table = d.ftl.block_table
       /\ d3.ftl.xlate_table = [d.ftl.xlate_table EXCEPT ![seg] = l2]
       /\ d3.ftl.xlate2_table = d.ftl.xlate2_table /\ d3.ftl.reclaim = d.ftl.reclaim
       /\ d3.ftl.score = [d.ftl.score EXCEPT ![l[1]] = OneMore(@)]
       /\ SameAlloc(d, d3)
  BY ZenonT(40), <1>7, <1>8, <1>13, <1>16 DEF SameTables, SameAlloc
<1>25. Sticks(d3) <=> Sticks(d)
  BY SMTT(30), <1>6, <1>8, <1>12, <1>20
<1>26. /\ d1 = Retired(d, l, l2) /\ d1.ftl.sector_table = d.ftl.sector_table
       /\ d3.nor = InfoType(d1, "promote", l2, XLATE).nor
  BY Zenon, <1>7, <1>8, <1>15 DEF d1, d2, x, Retired, SameTables, SameFlash
<1> QED  BY Zenon, <1>2, <1>8, <1>10, <1>16, <1>19, <1>21, <1>22, <1>23, <1>24, <1>25, <1>26
         DEF map, HalfMerged

(* The merged translations are found, and there is a new secondary block.   *)
LEMMA MergeDone ==
  ASSUME NEW d, Good(d), d.ftl.alloc_free # 0, NEW seg \in Segments,
         d.ftl.xlate_table[seg] # NotAllocated, d.ftl.xlate2_table[seg] # NotAllocated,
         d.ftl.xlate_logical = d.ftl.xlate_table[seg],
         d.ftl.xlate2_logical = d.ftl.xlate2_table[seg],
         NEW r, r = Merge(d, seg)
  PROVE  /\ Good(r) /\ SameData(d, r) /\ (Sticks(r) <=> Sticks(d))
         /\ r.ftl.alloc_free = d.ftl.alloc_free - 1
         /\ r.ftl.xlate_table[seg] # NotAllocated
         /\ r.ftl.xlate2_table[seg] # NotAllocated
         /\ \A a \in Address : ~Direct(a) /\ Segment(a) = seg => Secondary(r, a) = NotAllocated
<1> DEFINE l == d.ftl.xlate_logical
           l2 == d.ftl.xlate2_logical
           d3 == MergeStart(d, seg, l, l2)
           n == NextFree(d3)
           map == Merged(d)
<1>1. r = NewXlate2(d3, seg)
  BY Zenon DEF Merge, MergeStart, Retired, Merged
<1>2. l \in Logical /\ l2 \in Logical /\ l = d.ftl.xlate_table[seg] /\ l2 = d.ftl.xlate2_table[seg]
  BY TablesHold
<1>3. /\ InfoAt(d, l) = Info(XLATE, seg) /\ InfoAt(d, l2) = Info(XLATE_SECONDARY, seg)
  BY <1>2, TablesHold
<1>4. /\ d \in Device /\ Sectors(d) /\ Headers(d) /\ Blanks(d)
      /\ l = d.ftl.xlate_logical /\ l2 = d.ftl.xlate2_logical
  BY DEF Good
<1>5. /\ d3 \in Device /\ l # l2 /\ (Sticks(d3) <=> Sticks(d))
      /\ d3.ftl.sector_table = d.ftl.sector_table /\ d3.ftl.block_table = d.ftl.block_table
      /\ d3.ftl.xlate_table = [d.ftl.xlate_table EXCEPT ![seg] = l2]
      /\ d3.ftl.xlate2_table = d.ftl.xlate2_table /\ d3.ftl.reclaim = d.ftl.reclaim
      /\ d3.ftl.score = [d.ftl.score EXCEPT ![l[1]] = OneMore(@)]
      /\ d3.ftl.xlate_logical = l2 /\ d3.ftl.xlate_cache = map
      /\ SameAlloc(d, d3)
      /\ \A m \in Logical : m # l /\ m # l2 => SameAt(d, d3, m)
      /\ \A u \in Unit : d3.nor[u].info[0] = d.nor[u].info[0]
      /\ d3.nor[d.ftl.reclaim] = d.nor[d.ftl.reclaim]
      /\ InfoAt(d3, l) = Info(DELETED, -1) /\ MapAt(d3, l) = BlankMap /\ UserAt(d3, l) = Stale
      /\ InfoAt(d3, l2) = Info(XLATE, seg) /\ MapAt(d3, l2) = map
      /\ UserAt(d3, l2) = UserAt(d, l2)
  <2> HIDE DEF l, l2, d3, map
  <2>1. d3 = MergeStart(d, seg, l, l2) /\ map = Merged(d)
    BY DEF d3, map
  <2>2. HalfMerged(d, seg, l, l2, d3)
    BY SMTT(30), <1>2, <1>4, <2>1, MergeHalf
  <2> QED  BY <2>1, <2>2 DEF HalfMerged
<1> HIDE DEF l, l2, d3, n, map
<1>6. Sectors(d3)
  BY <1>4, <1>5 DEF Sectors
<1>7. Counted(d3, NotAllocated) /\ d3.ftl.alloc_free = d.ftl.alloc_free
  <2>1. \A m \in Logical : InfoAt(d3, m).written <=> InfoAt(d, m).written
    BY <1>2, <1>3, <1>5, InfoFields DEF SameAt
  <2>2. Free(d3, NotAllocated) = Free(d, NotAllocated)
    BY <2>1 DEF Free
  <2> QED  BY <1>5, <2>2 DEF Good, Counted, SameAlloc
<1>8. /\ r \in Device /\ n \in Logical /\ ~InfoAt(d3, n).written /\ Spared(d3, r, n)
      /\ InfoAt(r, n) = Info(XLATE_SECONDARY, seg)
      /\ MapAt(r, n) = MapAt(d3, n) /\ UserAt(r, n) = UserAt(d3, n)
      /\ r.ftl.sector_table = d3.ftl.sector_table /\ r.ftl.block_table = d3.ftl.block_table
      /\ r.ftl.xlate_table = d3.ftl.xlate_table
      /\ r.ftl.xlate2_table = [d3.ftl.xlate2_table EXCEPT ![seg] = n]
      /\ r.ftl.reclaim = d3.ftl.reclaim /\ r.ftl.score = d3.ftl.score
      /\ SameCache(d3, r)
      /\ r.ftl.xlate2_logical = n /\ r.ftl.xlate2_cache = BlankMap
      /\ Counted(r, NotAllocated) /\ r.ftl.alloc_free = d3.ftl.alloc_free - 1
      /\ Sticks(r) <=> Sticks(d3) /\ InfoAt(d3, n) = BlankInfo
  <2>1. d3.ftl.alloc_free # 0 /\ d3 \in Device /\ n = NextFree(d3)
    BY <1>5, <1>7 DEF n
  <2> QED  BY <1>1, <1>6, <1>7, <2>1, Xlate2New
<1>9. n # l /\ n # l2
  BY <1>5, <1>8, InfoFields
<1>10. /\ ~InfoAt(d, n).written /\ InfoAt(d, n) = BlankInfo
       /\ MapAt(r, n) = BlankMap /\ UserAt(r, n) = Nothing
  BY <1>4, <1>5, <1>8, <1>9 DEF SameAt, Blanks
<1>11. \A m \in Logical : m # l /\ m # l2 /\ m # n => SameAt(d, r, m)
  BY SMTT(30), <1>5, <1>8 DEF Spared, SameAt
<1>12. /\ InfoAt(r, l) = Info(DELETED, -1) /\ MapAt(r, l) = BlankMap /\ UserAt(r, l) = Stale
       /\ InfoAt(r, l2) = Info(XLATE, seg) /\ MapAt(r, l2) = map /\ UserAt(r, l2) = UserAt(d, l2)
  BY <1>2, <1>5, <1>8, <1>9 DEF Spared, SameAt
<1>13. MapAt(r, NotAllocated) = BlankMap /\ MapAt(d, NotAllocated) = BlankMap
  BY NotSeen
<1>14. /\ r.ftl.xlate_table[seg] = l2 /\ r.ftl.xlate2_table[seg] = n
       /\ \A s \in Segments : s # seg => /\ r.ftl.xlate_table[s] = d.ftl.xlate_table[s]
                                         /\ r.ftl.xlate2_table[s] = d.ftl.xlate2_table[s]
  <2>1. DOMAIN d.ftl.xlate2_table = Segments /\ DOMAIN d.ftl.xlate_table = Segments
    BY <1>4 DEF Device, Ftl
  <2> QED  BY <1>5, <1>8, <2>1
<1>15. \A s \in Segments : s # seg =>
         /\ d.ftl.xlate_table[s] \notin {l, l2, n} /\ d.ftl.xlate2_table[s] \notin {l, l2, n}
         /\ d.ftl.xlate_table[s] \in Logical \cup {NotAllocated}
         /\ d.ftl.xlate2_table[s] \in Logical \cup {NotAllocated}
  BY <1>2, <1>3, <1>8, <1>10, TablesHold, InfoFields, Distinct, Logicals
<1>16. \A a \in Address : Where(d, a) \in Logical => Where(d, a) \notin {l, l2, n}
  BY <1>3, <1>10, InfoFields, Distinct DEF Good, AddressEntry
<1>17. ASSUME NEW a \in Address, ~Direct(a), Segment(a) = seg
       PROVE  /\ Secondary(r, a) = NotAllocated
              /\ Primary(r, a) = IF Secondary(d, a) # NotAllocated THEN Secondary(d, a)
                                 ELSE Primary(d, a)
  <2>1. XlateIndex(a) \in Entry
    BY <1>17, Entered
  <2>2. Secondary(r, a) = NotAllocated
    BY <1>10, <1>14, <1>17, <2>1, BlankEntries DEF Secondary
  <2>3. d.ftl.xlate_cache = MapAt(d, l) /\ d.ftl.xlate2_cache = MapAt(d, l2)
    BY <1>2, <1>4, Logicals DEF Good, Cached, Cached2
  <2>4. Primary(r, a) = map[XlateIndex(a)]
    BY <1>12, <1>14, <1>17 DEF Primary
  <2>5. Secondary(d, a) = MapAt(d, l2)[XlateIndex(a)] /\ Primary(d, a) = MapAt(d, l)[XlateIndex(a)]
    BY <1>2, <1>17 DEF Primary, Secondary
  <2> QED  BY <2>1, <2>2, <2>3, <2>4, <2>5 DEF map, Merged
<1>18. ASSUME NEW a \in Address, ~Direct(a), Segment(a) # seg
       PROVE  Primary(r, a) = Primary(d, a) /\ Secondary(r, a) = Secondary(d, a)
  <2>1. Segment(a) \in Segments
    BY <1>18, Entered
  <2> QED  BY <1>11, <1>13, <1>14, <1>15, <1>18, <2>1 DEF Primary, Secondary, SameAt
<1>19. \A a \in Address : Where(r, a) = Where(d, a)
  <2>1. \A a \in Address : AddressEntry(d, a)
    BY DEF Good
  <2>2. r.ftl.block_table = d.ftl.block_table
    BY <1>5, <1>8
  <2> QED  BY <1>17, <1>18, <2>1, <2>2, Logicals DEF Where, AddressEntry
<1>20. SameData(d, r)
  BY <1>11, <1>16, <1>19 DEF SameData, SameAt
<1>21. Sectors(r) /\ Headers(r)
  <2>1. r.ftl.sector_table = d.ftl.sector_table /\ r.ftl.reclaim = d.ftl.reclaim
    BY <1>5, <1>8
  <2>2. \A u \in Unit : r.nor[u].info[0] = d.nor[u].info[0]
    BY <1>5, <1>8 DEF Spared
  <2>3. r.nor[d.ftl.reclaim] = d.nor[d.ftl.reclaim]
    BY <1>5, <1>8 DEF Spared
  <2> QED  BY SMTT(30), <1>4, <2>1, <2>2, <2>3 DEF Sectors, Headers
<1>22. Blanks(r)
  BY <1>4, <1>8, <1>11, <1>12, InfoFields DEF Blanks, SameAt
<1>23. ASSUME NEW m \in Logical PROVE Used(r, m)
  <2>1. CASE m = l
    BY <1>12, <2>1, InfoFields DEF Used
  <2>2. CASE m = l2
    BY <1>12, <1>14, <2>2, InfoFields DEF Used
  <2>3. CASE m = n
    BY <1>8, <1>14, <2>3, InfoFields DEF Used
  <2>4. CASE m # l /\ m # l2 /\ m # n
    <3>1. InfoAt(r, m) = InfoAt(d, m) /\ Used(d, m)
      BY <1>11, <2>4 DEF Good, SameAt
    <3> QED  BY <1>2, <1>14, <1>19, <2>4, <3>1 DEF Used
  <2> QED  BY <2>1, <2>2, <2>3, <2>4
<1>24. ASSUME NEW s \in Segments PROVE TableEntry(r, s)
  <2>1. CASE s = seg
    BY <1>2, <1>8, <1>12, <1>14, <2>1, Logicals DEF TableEntry
  <2>2. CASE s # seg
    <3>1. TableEntry(d, s)
      BY DEF Good
    <3> QED  BY <1>11, <1>14, <1>15, <2>2, <3>1 DEF TableEntry, SameAt
  <2> QED  BY <2>1, <2>2
<1>25. ASSUME NEW a \in Address PROVE AddressEntry(r, a)
  <2>1. AddressEntry(d, a)
    BY DEF Good
  <2>2. Where(r, a) \in Logical => InfoAt(r, Where(r, a)) = Info(DATA_COMMITTED, a)
    BY <1>11, <1>16, <1>19, <2>1 DEF AddressEntry, SameAt
  <2>3. r.ftl.block_table = d.ftl.block_table
    BY <1>5, <1>8
  <2>4. CASE Direct(a)
    BY <2>1, <2>2, <2>3, <2>4 DEF AddressEntry
  <2>5. CASE ~Direct(a)
    <3>1. /\ Primary(d, a) \in Named /\ Secondary(d, a) \in Named
          /\ Secondary(d, a) # NotAllocated => Primary(d, a) = Deleted
      BY <2>1, <2>5 DEF AddressEntry
    <3>2. /\ Primary(r, a) \in Named /\ Secondary(r, a) \in Named
          /\ Secondary(r, a) # NotAllocated => Primary(r, a) = Deleted
      BY SMTT(30), <1>17, <1>18, <2>5, <3>1 DEF Named
    <3> QED  BY <2>2, <2>5, <3>2 DEF AddressEntry
  <2> QED  BY <2>4, <2>5
<1>26. Cached(r) /\ Cached2(r)
  <2>1. Cached(r)
    <3>1. r.ftl.xlate_logical = l2 /\ r.ftl.xlate_cache = map
      BY Zenon, <1>5, <1>8 DEF SameCache
    <3> QED  BY Zenon, <1>2, <1>12, <1>14, <3>1 DEF Cached
  <2>2. Cached2(r)
    BY Zenon, <1>8, <1>10, <1>14 DEF Cached2
  <2> QED  BY Zenon, <2>1, <2>2
<1>27. Scored(r)
  <2>1. \A m \in Logical : IsDead(r, m) <=> IsDead(d, m) \/ m = l
    BY <1>3, <1>8, <1>10, <1>11, <1>12, InfoFields, Distinct DEF IsDead, SameAt
  <2>2. ~IsDead(d, l) /\ Scored(d)
    BY <1>3, InfoFields, Distinct DEF IsDead, Good
  <2>3. r.ftl.score = [d.ftl.score EXCEPT ![l[1]] = OneMore(@)]
    BY <1>5, <1>8
  <2> QED  BY <1>2, <1>4, <2>1, <2>2, <2>3, Scores
<1>28. Good(r)
  BY <1>8, <1>21, <1>22, <1>23, <1>24, <1>25, <1>26, <1>27 DEF Good
<1>29. /\ Sticks(r) <=> Sticks(d)
       /\ r.ftl.alloc_free = d.ftl.alloc_free - 1
  <2>1. Sticks(d3) <=> Sticks(d)
    BY <1>5
  <2>2. (Sticks(r) <=> Sticks(d3)) /\ r.ftl.alloc_free = d3.ftl.alloc_free - 1
    <3>1. InfoAt(d3, n) = BlankInfo
      BY <1>5, <1>8, <1>9, <1>10 DEF SameAt
    <3> QED  BY <1>8, <3>1
  <2> QED  BY <1>7, <2>1, <2>2
<1>30. r.ftl.xlate_table[seg] # NotAllocated /\ r.ftl.xlate2_table[seg] # NotAllocated
  BY <1>2, <1>8, <1>14, Logicals
<1> QED  BY SMTT(30), <1>17, <1>20, <1>28, <1>29, <1>30

(* Nothing changed in one step and nothing in the next.                    *)
LEMMA SameDataTwice ==
  ASSUME NEW d, NEW q, NEW r, SameData(d, q), SameData(q, r)
  PROVE  SameData(d, r)
BY DEF SameData

(* After the preparation the entry of the address can be written.           *)
Writable(d, a) ==
  ~Direct(a) => /\ d.ftl.xlate_table[Segment(a)] # NotAllocated
                /\ \/ Primary(d, a) = NotAllocated
                   \/ /\ d.ftl.xlate2_table[Segment(a)] # NotAllocated
                      /\ Secondary(d, a) = NotAllocated

(* Before a block is placed there is a translation block with room for it. *)
LEMMA Prepares ==
  ASSUME NEW d, Good(d), d.ftl.alloc_free > 1, NEW a \in Address,
         NEW r, r = Prepared(d, a)
  PROVE  /\ Good(r) /\ SameData(d, r) /\ (Sticks(r) <=> Sticks(d))
         /\ r.ftl.alloc_free > 0 /\ Writable(r, a)
<1> DEFINE seg == Segment(a)
           e == XlateIndex(a)
           x == LoadXlate(d, seg)
           y == LoadXlate2(x, seg)
<1>1. d.ftl.alloc_free \in Int /\ d.ftl.alloc_free # 0
  BY DEF Good, Device, Ftl
<1>2. CASE Direct(a)
  <2>1. r = d
    BY <1>2 DEF Prepared
  <2> QED  BY <1>1, <1>2, <2>1 DEF Writable, SameData
<1>3. ASSUME ~Direct(a), d.ftl.xlate_table[seg] = NotAllocated
      PROVE  /\ Good(r) /\ SameData(d, r) /\ (Sticks(r) <=> Sticks(d))
             /\ r.ftl.alloc_free > 0 /\ Writable(r, a)
  <2>1. r = NewXlate(d, seg) /\ seg \in Segments
    BY <1>3, Entered DEF Prepared
  <2> HIDE DEF seg
  <2>2. /\ Good(r) /\ SameData(d, r) /\ (Sticks(r) <=> Sticks(d))
        /\ r.ftl.alloc_free = d.ftl.alloc_free - 1
        /\ r.ftl.xlate_table[seg] # NotAllocated
        /\ \A b \in Address : ~Direct(b) /\ Segment(b) = seg => Primary(r, b) = NotAllocated
    BY <1>1, <1>3, <2>1, XlateAdded
  <2>3. Writable(r, a)
    BY <1>3, <2>2 DEF Writable, seg
  <2> QED  BY <1>1, <2>2, <2>3
<1>4. ASSUME ~Direct(a), d.ftl.xlate_table[seg] # NotAllocated
      PROVE  /\ Good(r) /\ SameData(d, r) /\ (Sticks(r) <=> Sticks(d))
             /\ r.ftl.alloc_free > 0 /\ Writable(r, a)
  <2>1. seg \in Segments /\ e \in Entry
    BY <1>4, Entered
  <2>2. r = CASE x.ftl.xlate_cache[e] = NotAllocated -> x
              [] /\ x.ftl.xlate_cache[e] # NotAllocated
                 /\ x.ftl.xlate2_table[seg] = NotAllocated -> NewXlate2(x, seg)
              [] OTHER -> IF y.ftl.xlate2_cache[e] = NotAllocated THEN y ELSE Merge(y, seg)
    BY <1>4 DEF Prepared
  <2>3. x = LoadXlate(d, seg) /\ y = LoadXlate2(x, seg) /\ seg = Segment(a) /\ e = XlateIndex(a)
    OBVIOUS
  <2> HIDE DEF seg, e, x, y
  <2>4. /\ Good(x) /\ SameTables(d, x) /\ SameAlloc(d, x)
        /\ x.ftl.xlate_logical = d.ftl.xlate_table[seg]
        /\ x.ftl.xlate_cache = MapAt(d, d.ftl.xlate_table[seg])
        /\ SameData(d, x) /\ (Sticks(x) <=> Sticks(d))
        /\ \A b : Primary(x, b) = Primary(d, b) /\ Secondary(x, b) = Secondary(d, b)
    BY <1>4, <2>1, <2>3, XlateLoaded
  <2>5. /\ x.ftl.xlate_table[seg] = x.ftl.xlate_logical /\ x.ftl.xlate_table[seg] # NotAllocated
        /\ x.ftl.alloc_free = d.ftl.alloc_free /\ x.ftl.alloc_free # 0
        /\ Primary(x, a) = x.ftl.xlate_cache[e]
    BY <1>1, <1>4, <2>3, <2>4 DEF SameTables, SameAlloc, Primary
  <2>6. CASE x.ftl.xlate_cache[e] = NotAllocated
    <3>1. r = x
      BY <2>2, <2>6
    <3> QED  BY <1>1, <2>3, <2>4, <2>5, <2>6, <3>1 DEF Writable
  <2>7. ASSUME x.ftl.xlate_cache[e] # NotAllocated, x.ftl.xlate2_table[seg] = NotAllocated
        PROVE  /\ Good(r) /\ SameData(d, r) /\ (Sticks(r) <=> Sticks(d))
               /\ r.ftl.alloc_free > 0 /\ Writable(r, a)
    <3>1. r = NewXlate2(x, seg)
      BY <2>2, <2>7
    <3>2. /\ Good(r) /\ SameData(x, r) /\ (Sticks(r) <=> Sticks(x))
          /\ r.ftl.alloc_free = x.ftl.alloc_free - 1
          /\ r.ftl.xlate_table[seg] # NotAllocated
          /\ r.ftl.xlate2_table[seg] # NotAllocated
          /\ \A b \in Address : ~Direct(b) /\ Segment(b) = seg => Secondary(r, b) = NotAllocated
      BY <2>1, <2>4, <2>5, <2>7, <3>1, Xlate2Added
    <3>3. SameData(d, r)
      BY <2>4, <3>2, SameDataTwice
    <3>4. Writable(r, a)
      BY <1>4, <2>3, <3>2 DEF Writable
    <3> QED  BY <1>1, <2>4, <2>5, <3>2, <3>3, <3>4
  <2>8. ASSUME x.ftl.xlate_cache[e] # NotAllocated, x.ftl.xlate2_table[seg] # NotAllocated
        PROVE  /\ Good(r) /\ SameData(d, r) /\ (Sticks(r) <=> Sticks(d))
               /\ r.ftl.alloc_free > 0 /\ Writable(r, a)
    <3>1. r = IF y.ftl.xlate2_cache[e] = NotAllocated THEN y ELSE Merge(y, seg)
      BY <2>2, <2>8
    <3>2. /\ Good(y) /\ SameTables(x, y) /\ SameCache(x, y) /\ SameAlloc(x, y)
          /\ y.ftl.xlate2_logical = x.ftl.xlate2_table[seg]
          /\ y.ftl.xlate2_cache = MapAt(x, x.ftl.xlate2_table[seg])
          /\ SameData(x, y) /\ (Sticks(y) <=> Sticks(x))
          /\ \A b : Primary(y, b) = Primary(x, b) /\ Secondary(y, b) = Secondary(x, b)
      BY <2>1, <2>3, <2>4, <2>8, Xlate2Loaded
    <3>3. /\ y.ftl.xlate_table[seg] # NotAllocated /\ y.ftl.xlate2_table[seg] # NotAllocated
          /\ y.ftl.xlate_logical = y.ftl.xlate_table[seg]
          /\ y.ftl.xlate2_logical = y.ftl.xlate2_table[seg]
          /\ y.ftl.alloc_free = d.ftl.alloc_free
          /\ Secondary(y, a) = y.ftl.xlate2_cache[e]
      BY <2>3, <2>5, <2>8, <3>2 DEF SameTables, SameAlloc, SameCache, Secondary
    <3>4. SameData(d, y) /\ (Sticks(y) <=> Sticks(d))
      BY <2>4, <3>2, SameDataTwice
    <3>5. CASE y.ftl.xlate2_cache[e] = NotAllocated
      <4>1. r = y
        BY <3>1, <3>5
      <4>2. Writable(r, a)
        BY <2>3, <3>3, <3>5, <4>1 DEF Writable
      <4> QED  BY <1>1, <3>2, <3>3, <3>4, <4>1, <4>2
    <3>6. CASE y.ftl.xlate2_cache[e] # NotAllocated
      <4>1. r = Merge(y, seg) /\ y.ftl.alloc_free # 0
        BY <1>1, <3>1, <3>3, <3>6
      <4>2. /\ Good(r) /\ SameData(y, r) /\ (Sticks(r) <=> Sticks(y))
            /\ r.ftl.alloc_free = y.ftl.alloc_free - 1
            /\ r.ftl.xlate_table[seg] # NotAllocated
            /\ r.ftl.xlate2_table[seg] # NotAllocated
            /\ \A b \in Address : ~Direct(b) /\ Segment(b) = seg => Secondary(r, b) = NotAllocated
        BY <2>1, <3>2, <3>3, <4>1, MergeDone
      <4>3. SameData(d, r)
        BY <3>4, <4>2, SameDataTwice
      <4>4. Writable(r, a)
        BY <1>4, <2>3, <4>2 DEF Writable
      <4> QED  BY <1>1, <3>3, <3>4, <4>2, <4>3, <4>4
    <3> QED  BY <3>5, <3>6
  <2> QED  BY <2>6, <2>7, <2>8
<1> QED  BY <1>2, <1>3, <1>4
-----------------------------------------------------------------------------
(* Translating.                                                            *)

(* The caches with another entry.                                          *)
WithEntry(d, e, x) == [d EXCEPT !.ftl.xlate_cache[e] = x]
WithEntry2(d, e, x) == [d EXCEPT !.ftl.xlate2_cache[e] = x]

(* ... and a translation block.                                            *)
Altered(map, e, x) == [map EXCEPT ![e] = x]

(* An entry is written, in the cache and in the flash.                      *)
LEMMA EntryMapped ==
  ASSUME NEW d \in Device, Sectors(d), NEW l \in Logical, d.ftl.xlate_logical = l,
         d.ftl.xlate_cache = MapAt(d, l), NEW e \in Entry, NEW x \in Named, NEW step \in StepName,
         MapAt(d, l)[e] = NotAllocated \/ x = Deleted,
         NEW r, r = WriteEntry(WithEntry(d, e, x), step, l, e, x)
  PROVE  /\ r \in Device /\ Spared(d, r, l) /\ (Sticks(r) <=> Sticks(d))
         /\ SameTables(d, r) /\ SameCache2(d, r) /\ SameAlloc(d, r) /\ r.ftl.score = d.ftl.score
         /\ r.ftl.xlate_logical = l /\ r.ftl.xlate_cache = MapAt(r, l)
         /\ InfoAt(r, l) = InfoAt(d, l) /\ UserAt(r, l) = UserAt(d, l)
         /\ MapAt(r, l) = Altered(MapAt(d, l), e, x)
<1> DEFINE c == WithEntry(d, e, x)
<1>1. /\ d.ftl \in Ftl /\ MapAt(d, l) \in [Entry -> Content] /\ x \in Content
      /\ MapAt(d, l)[e] \in Content
  BY Seen DEF Device, Named, Content
<1>2. c = [d EXCEPT !.ftl = [d.ftl EXCEPT !.xlate_cache = [d.ftl.xlate_cache EXCEPT ![e] = x]]]
  BY <1>1 DEF WithEntry, Device, Ftl
<1>3. r = WriteEntry(c, step, l, e, x)
  OBVIOUS
<1> HIDE DEF c
<1>4. /\ SameFlash(d, c) /\ c = [nor |-> d.nor, ftl |-> c.ftl, steps |-> d.steps]
      /\ c.ftl = [d.ftl EXCEPT !.xlate_cache = [d.ftl.xlate_cache EXCEPT ![e] = x]]
  BY <1>1, <1>2 DEF SameFlash, Device
<1>5. [d.ftl.xlate_cache EXCEPT ![e] = x] \in [Entry -> Content]
  BY <1>1
<1>6. /\ SameTables(d, c) /\ SameCache2(d, c) /\ SameAlloc(d, c) /\ c.ftl.score = d.ftl.score
      /\ c.ftl.xlate_logical = l /\ c.ftl.xlate_cache = Altered(MapAt(d, l), e, x)
  BY <1>1, <1>4 DEF Altered, SameTables, SameCache2, SameAlloc, Ftl
<1>7. c.ftl \in Ftl
  BY <1>1, <1>4, <1>5 DEF Ftl
<1>8. c \in Device
  BY <1>1, <1>4, <1>7 DEF Device
<1>9. (\A m : SameAt(d, c, m)) /\ (Sticks(c) <=> Sticks(d))
  BY <1>4, <1>6, SameViews DEF SameTables
<1>10. Sectors(c)
  BY <1>6 DEF Sectors, SameTables
<1>11. /\ Touched(c, r, l)
       /\ InfoAt(r, l) = InfoAt(c, l) /\ UserAt(r, l) = UserAt(c, l)
       /\ MapAt(r, l) = [MapAt(c, l) EXCEPT ![e] = AndLogical(@, x)]
       /\ Sticks(r) <=> Sticks(c) /\ AndLogical(MapAt(c, l)[e], x) = x
  <2>1. c \in Device /\ Sectors(c) /\ x \in Content /\ r = WriteEntry(c, step, l, e, x)
    BY <1>1, <1>3, <1>8, <1>10
  <2> QED  BY <2>1, MapEntryWritten
<1>12. MapAt(c, l) = MapAt(d, l) /\ AndLogical(MapAt(c, l)[e], x) = x
  BY <1>1, <1>9, AndIs DEF SameAt
<1>13. MapAt(r, l) = Altered(MapAt(d, l), e, x)
  BY <1>11, <1>12 DEF Altered
<1>14. Spared(d, r, l)
  BY <1>4, <1>6, <1>9, <1>11 DEF Touched, Spared, SameAt, SameFlash, SameTables
<1>15. r \in Device /\ r.ftl = c.ftl
  BY <1>11 DEF Touched
<1>16. InfoAt(r, l) = InfoAt(d, l) /\ UserAt(r, l) = UserAt(d, l)
  BY <1>9, <1>11 DEF SameAt
<1>17. Sticks(r) <=> Sticks(d)
  BY <1>9, <1>11, <1>12
<1>18. /\ SameTables(d, r) /\ SameCache2(d, r) /\ SameAlloc(d, r) /\ r.ftl.score = d.ftl.score
       /\ r.ftl.xlate_logical = l /\ r.ftl.xlate_cache = MapAt(r, l)
  BY <1>6, <1>13, <1>15 DEF SameTables, SameCache2, SameAlloc
<1> QED  BY <1>13, <1>14, <1>15, <1>16, <1>17, <1>18

(* The same of the second translation block.                               *)
LEMMA Entry2Mapped ==
  ASSUME NEW d \in Device, Sectors(d), NEW l \in Logical, d.ftl.xlate2_logical = l,
         d.ftl.xlate2_cache = MapAt(d, l), NEW e \in Entry, NEW x \in Named, NEW step \in StepName,
         MapAt(d, l)[e] = NotAllocated \/ x = Deleted,
         NEW r, r = WriteEntry(WithEntry2(d, e, x), step, l, e, x)
  PROVE  /\ r \in Device /\ Spared(d, r, l) /\ (Sticks(r) <=> Sticks(d))
         /\ SameTables(d, r) /\ SameCache(d, r) /\ SameAlloc(d, r) /\ r.ftl.score = d.ftl.score
         /\ r.ftl.xlate2_logical = l /\ r.ftl.xlate2_cache = MapAt(r, l)
         /\ InfoAt(r, l) = InfoAt(d, l) /\ UserAt(r, l) = UserAt(d, l)
         /\ MapAt(r, l) = Altered(MapAt(d, l), e, x)
<1> DEFINE c == WithEntry2(d, e, x)
<1>1. /\ d.ftl \in Ftl /\ MapAt(d, l) \in [Entry -> Content] /\ x \in Content
      /\ MapAt(d, l)[e] \in Content
  BY Seen DEF Device, Named, Content
<1>2. c = [d EXCEPT !.ftl = [d.ftl EXCEPT !.xlate2_cache = [d.ftl.xlate2_cache EXCEPT ![e] = x]]]
  BY <1>1 DEF WithEntry2, Device, Ftl
<1>3. r = WriteEntry(c, step, l, e, x)
  OBVIOUS
<1> HIDE DEF c
<1>4. /\ SameFlash(d, c) /\ c = [nor |-> d.nor, ftl |-> c.ftl, steps |-> d.steps]
      /\ c.ftl = [d.ftl EXCEPT !.xlate2_cache = [d.ftl.xlate2_cache EXCEPT ![e] = x]]
  BY <1>1, <1>2 DEF SameFlash, Device
<1>5. [d.ftl.xlate2_cache EXCEPT ![e] = x] \in [Entry -> Content]
  BY <1>1
<1>6. /\ SameTables(d, c) /\ SameCache(d, c) /\ SameAlloc(d, c) /\ c.ftl.score = d.ftl.score
      /\ c.ftl.xlate2_logical = l /\ c.ftl.xlate2_cache = Altered(MapAt(d, l), e, x)
  BY <1>1, <1>4 DEF Altered, SameTables, SameCache, SameAlloc, Ftl
<1>7. c.ftl \in Ftl
  BY <1>1, <1>4, <1>5 DEF Ftl
<1>8. c \in Device
  BY <1>1, <1>4, <1>7 DEF Device
<1>9. (\A m : SameAt(d, c, m)) /\ (Sticks(c) <=> Sticks(d))
  BY <1>4, <1>6, SameViews DEF SameTables
<1>10. Sectors(c)
  BY <1>6 DEF Sectors, SameTables
<1>11. /\ Touched(c, r, l)
       /\ InfoAt(r, l) = InfoAt(c, l) /\ UserAt(r, l) = UserAt(c, l)
       /\ MapAt(r, l) = [MapAt(c, l) EXCEPT ![e] = AndLogical(@, x)]
       /\ Sticks(r) <=> Sticks(c) /\ AndLogical(MapAt(c, l)[e], x) = x
  <2>1. c \in Device /\ Sectors(c) /\ x \in Content /\ r = WriteEntry(c, step, l, e, x)
    BY <1>1, <1>3, <1>8, <1>10
  <2> QED  BY <2>1, MapEntryWritten
<1>12. MapAt(c, l) = MapAt(d, l) /\ AndLogical(MapAt(c, l)[e], x) = x
  BY <1>1, <1>9, AndIs DEF SameAt
<1>13. MapAt(r, l) = Altered(MapAt(d, l), e, x)
  BY <1>11, <1>12 DEF Altered
<1>14. Spared(d, r, l)
  BY <1>4, <1>6, <1>9, <1>11 DEF Touched, Spared, SameAt, SameFlash, SameTables
<1>15. r \in Device /\ r.ftl = c.ftl
  BY <1>11 DEF Touched
<1>16. InfoAt(r, l) = InfoAt(d, l) /\ UserAt(r, l) = UserAt(d, l)
  BY <1>9, <1>11 DEF SameAt
<1>17. Sticks(r) <=> Sticks(d)
  BY <1>9, <1>11, <1>12
<1>18. /\ SameTables(d, r) /\ SameCache(d, r) /\ SameAlloc(d, r) /\ r.ftl.score = d.ftl.score
       /\ r.ftl.xlate2_logical = l /\ r.ftl.xlate2_cache = MapAt(r, l)
  BY <1>6, <1>13, <1>15 DEF SameTables, SameCache, SameAlloc
<1> QED  BY <1>13, <1>14, <1>15, <1>16, <1>17, <1>18

(* All of the invariant but the blocks to allocate.                        *)
Almost(d) ==
  /\ d \in Device /\ Sectors(d) /\ Headers(d) /\ Blanks(d)
  /\ \A l \in Logical : Used(d, l)
  /\ \A seg \in Segments : TableEntry(d, seg)
  /\ \A a \in Address : AddressEntry(d, a)
  /\ Cached(d) /\ Cached2(d) /\ Scored(d)

(* Address a is in block "new" instead of block "old".                      *)
Replaced(q, r, a, new, old) ==
  /\ \A m \in Logical : m # new /\ m # old =>
       /\ InfoAt(r, m) = InfoAt(q, m) /\ UserAt(r, m) = UserAt(q, m)
       /\ ~InfoAt(q, m).written => MapAt(r, m) = MapAt(q, m)
  /\ new = NotAllocated => Where(r, a) \in {NotAllocated, Deleted}
  /\ new # NotAllocated => /\ new \in Logical /\ ~InfoAt(q, new).written
                           /\ Where(r, a) = new /\ InfoAt(r, new) = Info(DATA_COMMITTED, a)
  /\ old = IF Where(q, a) \in Logical THEN Where(q, a) ELSE NotAllocated
  /\ old # NotAllocated => InfoAt(r, old) = Info(DELETED, -1)
  /\ r.ftl.score = IF old = NotAllocated THEN q.ftl.score
                   ELSE [q.ftl.score EXCEPT ![old[1]] = OneMore(@)]

(* ... and only its translation has changed.                               *)
Translated(q, r, a) ==
  /\ r.ftl.sector_table = q.ftl.sector_table /\ r.ftl.reclaim = q.ftl.reclaim
  /\ r.ftl.xlate_table = q.ftl.xlate_table /\ r.ftl.xlate2_table = q.ftl.xlate2_table
  /\ \A u \in Unit : r.nor[u].info[0] = q.nor[u].info[0]
  /\ r.nor[q.ftl.reclaim] = q.nor[q.ftl.reclaim]
  /\ \A b \in Address : b # a =>
       /\ Direct(b) => r.ftl.block_table[b] = q.ftl.block_table[b]
       /\ ~Direct(b) => Primary(r, b) = Primary(q, b) /\ Secondary(r, b) = Secondary(q, b)
  /\ Direct(a) => r.ftl.block_table[a] \in Logical \cup {NotAllocated}
  /\ ~Direct(a) => /\ Primary(r, a) \in Named /\ Secondary(r, a) \in Named
                   /\ Secondary(r, a) # NotAllocated => Primary(r, a) = Deleted

(* An address that moves to a new block leaves the device good.            *)
LEMMA Retranslates ==
  ASSUME NEW q, Almost(q), NEW r, r \in Device, NEW a \in Address, NEW new, NEW old,
         Counted(q, new), Replaced(q, r, a, new, old), Translated(q, r, a),
         Cached(r), Cached2(r), SameAlloc(q, r)
  PROVE  /\ Good(r)
         /\ \A b \in Address \ {a} :
              /\ Where(r, b) = Where(q, b)
              /\ Where(q, b) \in Logical => UserAt(r, Where(q, b)) = UserAt(q, Where(q, b))
<1>1. \A b \in Address : b # a => Where(r, b) = Where(q, b)
  BY DEF Translated, Where
<1>2. \A b \in Address : AddressEntry(q, b)
  BY DEF Almost
<1>3. new \in Logical => ~InfoAt(q, new).written
  BY Logicals DEF Replaced
<1>4. old \in Logical => InfoAt(q, old) = Info(DATA_COMMITTED, a) /\ old = Where(q, a)
  BY <1>2, Logicals DEF Replaced, AddressEntry
<1>5. \A b \in Address : b # a /\ Where(q, b) \in Logical =>
        /\ InfoAt(q, Where(q, b)) = Info(DATA_COMMITTED, b)
        /\ Where(q, b) # new /\ Where(q, b) # old
  BY <1>2, <1>3, <1>4, InfoFields DEF AddressEntry
<1>6. \A b \in Address \ {a} :
        /\ Where(r, b) = Where(q, b)
        /\ Where(q, b) \in Logical => UserAt(r, Where(q, b)) = UserAt(q, Where(q, b))
  BY <1>1, <1>5 DEF Replaced
<1>7. Sectors(r) /\ Headers(r)
  BY SMTT(30) DEF Translated, Almost, Sectors, Headers
<1>8. old \in Logical => InfoAt(r, old) = Info(DELETED, -1)
  BY Logicals DEF Replaced
<1>9. new \in Logical => InfoAt(r, new) = Info(DATA_COMMITTED, a) /\ Where(r, a) = new
  BY Logicals DEF Replaced
<1>10. Blanks(r)
  BY <1>8, <1>9, InfoFields DEF Replaced, Almost, Blanks
<1>11. ASSUME NEW m \in Logical PROVE Used(r, m)
  <2>1. CASE m = new
    BY <1>9, <2>1, InfoFields DEF Used
  <2>2. CASE m = old
    BY <1>8, <2>2, InfoFields DEF Used
  <2>3. CASE m # new /\ m # old
    <3>1. InfoAt(r, m) = InfoAt(q, m) /\ Used(q, m)
      BY <2>3 DEF Replaced, Almost
    <3>2. r.ftl.xlate_table = q.ftl.xlate_table /\ r.ftl.xlate2_table = q.ftl.xlate2_table
      BY DEF Translated
    <3>3. Where(q, a) # m
      BY <2>3 DEF Replaced
    <3> QED  BY <1>1, <3>1, <3>2, <3>3 DEF Used
  <2> QED  BY <2>1, <2>2, <2>3
<1>12. ASSUME NEW s \in Segments PROVE TableEntry(r, s)
  <2>1. TableEntry(q, s)
    BY DEF Almost
  <2>2. r.ftl.xlate_table = q.ftl.xlate_table /\ r.ftl.xlate2_table = q.ftl.xlate2_table
    BY DEF Translated
  <2>3. ASSUME NEW m \in Logical, NEW type \in {XLATE, XLATE_SECONDARY}, InfoAt(q, m) = Info(type, s)
        PROVE  InfoAt(r, m) = Info(type, s)
    BY <1>3, <1>4, <2>3, InfoFields, Distinct DEF Replaced
  <2> QED  BY <2>1, <2>2, <2>3 DEF TableEntry
<1>13. ASSUME NEW b \in Address PROVE AddressEntry(r, b)
  <2>1. CASE b = a
    <3>1. Where(r, a) \in Logical => InfoAt(r, Where(r, a)) = Info(DATA_COMMITTED, a)
      BY Logicals DEF Replaced
    <3> QED  BY <2>1, <3>1 DEF Translated, AddressEntry
  <2>2. CASE b # a
    <3>1. Where(r, b) \in Logical => InfoAt(r, Where(r, b)) = Info(DATA_COMMITTED, b)
      BY <1>1, <1>5, <2>2 DEF Replaced
    <3> QED  BY <1>2, <2>2, <3>1 DEF Translated, AddressEntry
  <2> QED  BY <2>1, <2>2
<1>14. Counted(r, NotAllocated)
  <2>1. \A m \in Logical : InfoAt(r, m).written <=> InfoAt(q, m).written \/ m = new
    BY <1>3, <1>4, <1>8, <1>9, InfoFields DEF Replaced
  <2>2. Free(r, NotAllocated) = Free(q, new)
    BY <2>1, Logicals DEF Free
  <2> QED  BY <2>2 DEF Counted, SameAlloc
<1>15. Scored(r)
  <2>1. q \in Device /\ Scored(q)
    BY DEF Almost
  <2>2. CASE old = NotAllocated
    <3>1. \A m \in Logical : m # old
      BY <2>2, Logicals
    <3>2. \A m \in Logical : (InfoAt(r, m).written /\ InfoAt(r, m).type = DELETED)
                               <=> (InfoAt(q, m).written /\ InfoAt(q, m).type = DELETED)
      BY <1>3, <1>9, <3>1, InfoFields, Distinct DEF Replaced
    <3>3. \A s \in Sector : Dead(r, s) = Dead(q, s)
      BY <3>2, DeadIs
    <3> QED  BY <2>1, <2>2, <3>3 DEF Scored, Replaced
  <2>3. CASE old # NotAllocated
    <3>1. old \in Logical
      BY <2>3 DEF Replaced
    <3>2. \A m \in Logical : IsDead(r, m) <=> IsDead(q, m) \/ m = old
      BY <1>3, <1>4, <1>8, <1>9, InfoFields, Distinct DEF Replaced, IsDead
    <3>3. ~IsDead(q, old)
      BY <1>4, <3>1, InfoFields, Distinct DEF IsDead
    <3>4. r.ftl.score = [q.ftl.score EXCEPT ![old[1]] = OneMore(@)]
      BY <2>3 DEF Replaced
    <3> QED  BY <2>1, <3>1, <3>2, <3>3, <3>4, Scores
  <2> QED  BY <2>2, <2>3
<1>16. Good(r)
  BY <1>7, <1>10, <1>11, <1>12, <1>13, <1>14, <1>15 DEF Good
<1> QED  BY <1>6, <1>16

(* A device of which all but what is allocated is the same.                 *)
LEMMA AlmostKept ==
  ASSUME NEW d, Almost(d), NEW r, Kindly(d, r)
  PROVE  /\ Almost(r) /\ SameData(d, r) /\ (Sticks(r) <=> Sticks(d)) /\ \A m : SameAt(d, r, m)
         /\ \A a : Primary(r, a) = Primary(d, a) /\ Secondary(r, a) = Secondary(d, a)
<1>1. (\A l : SameAt(d, r, l)) /\ (Sticks(r) <=> Sticks(d))
  BY SameViews DEF SameTables, Kindly
<1>2. Sectors(r) /\ Headers(r)
  BY DEF Almost, Sectors, Headers, SameTables, SameFlash, Kindly
<1>3. Blanks(r)
  BY <1>1 DEF Almost, Blanks, SameAt
<1>4. SameTables(d, r) /\ SameCache(d, r)
  BY DEF Kindly
<1>5. \A a : /\ Primary(r, a) = Primary(d, a) /\ Secondary(r, a) = Secondary(d, a)
             /\ Where(r, a) = Where(d, a)
  BY <1>1, <1>4 DEF SameAt, SameTables, Primary, Secondary, Where
<1>6. \A l \in Logical : Used(r, l)
  BY <1>1, <1>4, <1>5 DEF Almost, Used, SameAt, SameTables
<1>7. \A seg \in Segments : TableEntry(r, seg)
  BY <1>1, <1>4 DEF Almost, TableEntry, SameAt, SameTables
<1>8. \A a \in Address : AddressEntry(r, a)
  BY <1>1, <1>4, <1>5 DEF Almost, AddressEntry, SameAt, SameTables
<1>9. Scored(r)
  <2>1. \A s \in Sector : Dead(r, s) = Dead(d, s)
    BY <1>1 DEF Dead, SameAt
  <2> QED  BY <2>1 DEF Almost, Scored, Kindly
<1>10. SameData(d, r)
  BY <1>1, <1>5 DEF SameData, SameAt
<1>11. Cached(r)
  BY <1>1, <1>4 DEF Almost, Cached, SameCache, SameTables, SameAt
<1>12. Cached2(r)
  BY <1>1, <1>4 DEF Almost, Cached2, SameCache2, SameTables, SameAt, Kindly
<1>13. r \in Device
  BY DEF Kindly
<1> QED  BY <1>1, <1>2, <1>3, <1>5, <1>6, <1>7, <1>8, <1>9, <1>10, <1>11, <1>12, <1>13 DEF Almost

(* Block l is allocated, and everything else is as it was.                 *)
Held(d, l) ==
  /\ Almost(d) /\ l \in Logical /\ Counted(d, l)
  /\ InfoAt(d, l) = BlankInfo /\ MapAt(d, l) = BlankMap /\ UserAt(d, l) = Nothing

(* A block that was allocated is nobody's.                                 *)
LEMMA Holds ==
  ASSUME NEW d, Good(d), d.ftl.alloc_free > 0, NEW q, q = Allocate(d), NEW l, l = NextFree(d)
  PROVE  /\ Held(q, l) /\ SameData(d, q) /\ (Sticks(q) <=> Sticks(d))
         /\ \A a : Writable(d, a) => Writable(q, a)
<1>1. Almost(d)
  BY DEF Good, Almost
<1>2. d \in Device /\ Sectors(d) /\ Counted(d, NotAllocated) /\ d.ftl.alloc_free # 0
  BY DEF Good
<1>3. /\ Kindly(d, q)
      /\ l \in Logical /\ ~InfoAt(d, l).written
      /\ Counted(q, l) /\ q.ftl.alloc_free = d.ftl.alloc_free - 1
  BY <1>2, Allocates
<1>4. /\ Almost(q) /\ SameData(d, q) /\ (Sticks(q) <=> Sticks(d)) /\ \A m : SameAt(d, q, m)
      /\ \A a : Primary(q, a) = Primary(d, a) /\ Secondary(q, a) = Secondary(d, a)
  BY <1>1, <1>3, AlmostKept
<1>5. InfoAt(q, l) = BlankInfo /\ MapAt(q, l) = BlankMap /\ UserAt(q, l) = Nothing
  BY <1>1, <1>3, <1>4 DEF Almost, Blanks, SameAt
<1>6. \A a : Writable(d, a) => Writable(q, a)
  BY <1>3, <1>4 DEF Writable, Kindly, SameTables
<1> QED  BY <1>3, <1>4, <1>5, <1>6 DEF Held
-----------------------------------------------------------------------------
(* Writing.                                                                *)

(* The data is written into the block, which is still reserved.            *)
LEMMA DataWritten ==
  ASSUME NEW q, NEW l, Held(q, l), NEW a \in Address, NEW user \in User,
         NEW r, r = WriteUser(InfoEntry(q, "reserve", l, RESERVED, a), "data", l, user)
  PROVE  /\ Touched(q, r, l) /\ Sectors(r) /\ (Sticks(r) <=> Sticks(q))
         /\ InfoAt(r, l) = Info(RESERVED, a) /\ MapAt(r, l) = BlankMap /\ UserAt(r, l) = user
<1> DEFINE x == InfoEntry(q, "reserve", l, RESERVED, a)
<1>1. "reserve" \in StepName /\ "data" \in StepName
  BY DEF StepName
<1>2. q \in Device /\ Sectors(q) /\ l \in Logical
  BY DEF Held, Almost
<1>3. RESERVED \in SUBSET (0..3) /\ a \in {-1} \cup 0..Units + Addresses
  BY Types, SegmentInfo
<1>4. x = InfoEntry(q, "reserve", l, RESERVED, a) /\ r = WriteUser(x, "data", l, user)
  OBVIOUS
<1> HIDE DEF x
<1>5. /\ Touched(q, x, l) /\ InfoAt(x, l) = Info(RESERVED, a)
      /\ MapAt(x, l) = MapAt(q, l) /\ UserAt(x, l) = UserAt(q, l)
      /\ Sticks(x) <=> Sticks(q) /\ InfoAt(q, l) = BlankInfo
  BY <1>1, <1>2, <1>3, <1>4, EntryWritten
<1>6. x \in Device /\ Sectors(x)
  BY <1>2, <1>5 DEF Touched, Sectors
<1>7. /\ Touched(x, r, l)
      /\ InfoAt(r, l) = InfoAt(x, l) /\ MapAt(r, l) = MapAt(x, l)
      /\ UserAt(r, l) = user
      /\ Sticks(r) <=> Sticks(x) /\ UserAt(x, l) = Nothing
  BY <1>1, <1>2, <1>4, <1>6, UserWritten
<1>8. Touched(q, r, l) /\ Sectors(r)
  BY <1>5, <1>6, <1>7 DEF Touched, Sectors, SameAt
<1>9. InfoAt(q, l) = BlankInfo /\ MapAt(q, l) = BlankMap /\ UserAt(q, l) = Nothing
  BY DEF Held
<1>10. Sticks(r) <=> Sticks(q)
  BY <1>5, <1>7, <1>9
<1> QED  BY <1>5, <1>7, <1>8, <1>9, <1>10

(* The data of an address is found where it was placed, and the others     *)
(* where they were.                                                        *)
Placed(q, r, l, a, user) ==
  /\ Good(r) /\ Where(r, a) = l /\ UserAt(r, l) = user /\ l \in Logical
  /\ \A b \in Address \ {a} :
       /\ Where(r, b) = Where(q, b)
       /\ Where(q, b) \in Logical => UserAt(r, Where(q, b)) = UserAt(q, Where(q, b))
  /\ Sticks(r) <=> Sticks(q)

(* Placing a block that the block table translates, ...                    *)
LEMMA PlacedDirect ==
  ASSUME NEW q, NEW l, Held(q, l), NEW a \in Address, Direct(a), NEW user \in User,
         NEW r, r = Place(q, l, a, user)
  PROVE  Placed(q, r, l, a, user)
<1> DEFINE d1 == WriteUser(InfoEntry(q, "reserve", l, RESERVED, a), "data", l, user)
           x == InfoType(d1, "commit", l, DATA_COMMITTED)
           d2 == [x EXCEPT !.ftl.block_table[a] = l]
           old == q.ftl.block_table[a]
<1>1. r = IF old = NotAllocated THEN d2 ELSE Delete(d2, "delete", old)
  BY DEF Place
<1>2. d1 = WriteUser(InfoEntry(q, "reserve", l, RESERVED, a), "data", l, user)
  OBVIOUS
<1>3. x = InfoType(d1, "commit", l, DATA_COMMITTED)
  OBVIOUS
<1>4. d2 = [x EXCEPT !.ftl.block_table[a] = l]
  OBVIOUS
<1> HIDE DEF d1, x, d2
<1>5. /\ Touched(q, d1, l) /\ Sectors(d1) /\ (Sticks(d1) <=> Sticks(q))
      /\ InfoAt(d1, l) = Info(RESERVED, a) /\ MapAt(d1, l) = BlankMap /\ UserAt(d1, l) = user
  BY <1>2, DataWritten
<1>6. /\ Almost(q) /\ q \in Device /\ q.ftl \in Ftl /\ Sectors(q) /\ l \in Logical
      /\ l # NotAllocated /\ l \in Content /\ Counted(q, l)
      /\ InfoAt(q, l) = BlankInfo /\ MapAt(q, l) = BlankMap
  BY Logicals DEF Held, Almost, Device, Content
<1>7. "commit" \in StepName /\ "delete" \in StepName
  BY DEF StepName
<1>8. /\ Touched(d1, x, l)
      /\ InfoAt(x, l) = Info(DATA_COMMITTED, InfoAt(d1, l).of)
      /\ MapAt(x, l) = MapAt(d1, l) /\ UserAt(x, l) = UserAt(d1, l)
      /\ Sticks(x) <=> Sticks(d1)
  <2>1. DATA_COMMITTED \in SUBSET (0..3) /\ DATA_COMMITTED # DELETED
    BY Types, Distinct
  <2>2. DATA_COMMITTED \subseteq InfoAt(d1, l).type
    BY <1>5, InfoFields DEF DATA_COMMITTED, RESERVED
  <2>3. d1 \in Device
    BY <1>5 DEF Touched
  <2> QED  BY <1>3, <1>5, <1>6, <1>7, <2>1, <2>2, <2>3, TypeNarrowed
<1>9. /\ Touched(q, x, l) /\ x.ftl = q.ftl /\ x \in Device /\ (Sticks(x) <=> Sticks(q))
      /\ InfoAt(x, l) = Info(DATA_COMMITTED, a) /\ MapAt(x, l) = BlankMap /\ UserAt(x, l) = user
  BY <1>5, <1>8, InfoFields DEF Touched, SameAt
<1>10. a \in {b \in Address : Direct(b)}
  OBVIOUS
<1>11. d2 = [x EXCEPT !.ftl = [x.ftl EXCEPT !.block_table = [x.ftl.block_table EXCEPT ![a] = l]]]
  BY <1>4, <1>6, <1>9 DEF Device, Ftl
<1>12. /\ SameFlash(x, d2) /\ d2 = [nor |-> x.nor, ftl |-> d2.ftl, steps |-> x.steps]
       /\ d2.ftl = [x.ftl EXCEPT !.block_table = [x.ftl.block_table EXCEPT ![a] = l]]
  BY <1>9, <1>11 DEF SameFlash, Device
<1>13. /\ d2.ftl.block_table = [q.ftl.block_table EXCEPT ![a] = l]
       /\ d2.ftl.sector_table = q.ftl.sector_table /\ d2.ftl.reclaim = q.ftl.reclaim
       /\ d2.ftl.xlate_table = q.ftl.xlate_table /\ d2.ftl.xlate2_table = q.ftl.xlate2_table
       /\ SameCache(q, d2) /\ SameCache2(q, d2) /\ SameAlloc(q, d2) /\ d2.ftl.score = q.ftl.score
  BY <1>6, <1>9, <1>12 DEF SameCache, SameCache2, SameAlloc, Ftl
<1>14. /\ [q.ftl.block_table EXCEPT ![a] = l] \in [{b \in Address : Direct(b)} -> Content]
       /\ d2.ftl.block_table[a] = l
       /\ \A b \in Address : b # a /\ Direct(b) => d2.ftl.block_table[b] = q.ftl.block_table[b]
  BY <1>6, <1>10, <1>13 DEF Ftl
<1>15. d2.ftl \in Ftl
  <2>1. ASSUME NEW f \in Ftl, NEW t \in [{b \in Address : Direct(b)} -> Content]
        PROVE  [f EXCEPT !.block_table = t] \in Ftl
    BY DEF Ftl
  <2>2. q.ftl \in Ftl /\ x.ftl = q.ftl
    BY <1>6, <1>9 DEF Device
  <2>3. [q.ftl EXCEPT !.block_table = [q.ftl.block_table EXCEPT ![a] = l]] \in Ftl
    BY <1>14, <2>1, <2>2
  <2> QED  BY <1>12, <2>2, <2>3
<1>16. d2 \in Device
  BY <1>9, <1>12, <1>15 DEF Device
<1>17. (\A m : SameAt(x, d2, m)) /\ (Sticks(d2) <=> Sticks(x))
  BY <1>9, <1>12, <1>13, SameViews
<1>18. /\ Sectors(d2) /\ Spared(q, d2, l) /\ (Sticks(d2) <=> Sticks(q))
       /\ InfoAt(d2, l) = Info(DATA_COMMITTED, a) /\ MapAt(d2, l) = BlankMap /\ UserAt(d2, l) = user
  BY <1>6, <1>9, <1>12, <1>13, <1>17 DEF Sectors, Spared, Touched, SameAt, SameFlash
<1>19. old \in Logical \cup {NotAllocated} /\ old = Where(q, a)
       /\ (old # NotAllocated => InfoAt(q, old) = Info(DATA_COMMITTED, a) /\ old # l)
  BY <1>6, InfoFields DEF Almost, AddressEntry, Where, BlankInfo
<1> HIDE DEF old
<1>20. /\ r \in Device /\ SameTables(d2, r) /\ SameCache(d2, r) /\ SameCache2(d2, r)
       /\ SameAlloc(d2, r)
       /\ \A m \in Logical : m # old => SameAt(d2, r, m)
       /\ \A u \in Unit : r.nor[u].info[0] = d2.nor[u].info[0]
       /\ r.nor[d2.ftl.reclaim] = d2.nor[d2.ftl.reclaim]
       /\ r.ftl.score = IF old = NotAllocated THEN d2.ftl.score
                        ELSE [d2.ftl.score EXCEPT ![old[1]] = OneMore(@)]
       /\ old # NotAllocated => InfoAt(r, old) = Info(DELETED, -1)
       /\ Sticks(r) <=> Sticks(d2)
  <2>1. CASE old = NotAllocated
    <3>1. r = d2
      BY <1>1, <2>1
    <3> QED  BY <1>16, <2>1, <3>1 DEF SameTables, SameCache, SameCache2, SameAlloc, SameAt
  <2>2. CASE old # NotAllocated
    <3>1. r = Delete(d2, "delete", old) /\ old \in Logical
      BY <1>1, <1>19, <2>2
    <3>2. /\ r \in Device /\ Spared(d2, r, old)
          /\ SameTables(d2, r) /\ SameCache(d2, r) /\ SameCache2(d2, r) /\ SameAlloc(d2, r)
          /\ r.ftl.score = [d2.ftl.score EXCEPT ![old[1]] = OneMore(@)]
          /\ InfoAt(r, old) = Info(DELETED, -1) /\ MapAt(r, old) = BlankMap /\ UserAt(r, old) = Stale
          /\ Sticks(r) <=> Sticks(d2)
      BY <1>7, <1>16, <1>18, <3>1, Deletes
    <3> QED  BY <2>2, <3>2 DEF Spared
  <2> QED  BY <2>1, <2>2
<1>21. \A m \in Logical : m # l /\ m # old => SameAt(q, r, m)
  BY <1>18, <1>20 DEF Spared, SameAt
<1>22. InfoAt(r, l) = Info(DATA_COMMITTED, a) /\ UserAt(r, l) = user
  BY <1>6, <1>18, <1>19, <1>20 DEF SameAt
<1>23. /\ r.ftl.block_table = d2.ftl.block_table
       /\ r.ftl.sector_table = q.ftl.sector_table /\ r.ftl.reclaim = q.ftl.reclaim
       /\ r.ftl.xlate_table = q.ftl.xlate_table /\ r.ftl.xlate2_table = q.ftl.xlate2_table
       /\ SameCache(q, r) /\ SameCache2(q, r) /\ SameAlloc(q, r)
  BY <1>13, <1>20 DEF SameTables, SameCache, SameCache2, SameAlloc
<1>24. \A m \in Logical : InfoAt(q, m).written /\ InfoAt(q, m).type # DATA_COMMITTED
                            => m # l /\ m # old
  BY <1>6, <1>19, InfoFields, Logicals DEF BlankInfo
<1>25. \A seg \in Segments : /\ MapAt(r, q.ftl.xlate_table[seg]) = MapAt(q, q.ftl.xlate_table[seg])
                             /\ MapAt(r, q.ftl.xlate2_table[seg]) = MapAt(q, q.ftl.xlate2_table[seg])
  <2>1. MapAt(r, NotAllocated) = MapAt(q, NotAllocated)
    BY NotSeen
  <2> QED  BY <1>6, <1>21, <1>24, <2>1, InfoFields, Distinct DEF Almost, TableEntry, SameAt
<1>26. \A b \in Address : ~Direct(b) => Primary(r, b) = Primary(q, b) /\ Secondary(r, b) = Secondary(q, b)
  BY <1>23, <1>25, Entered DEF Primary, Secondary
<1>27. Translated(q, r, a)
  <2>1. \A u \in Unit : r.nor[u].info[0] = q.nor[u].info[0]
    BY <1>18, <1>20 DEF Spared
  <2>2. r.nor[q.ftl.reclaim] = q.nor[q.ftl.reclaim]
    BY <1>13, <1>18, <1>20 DEF Spared
  <2> QED  BY <1>6, <1>14, <1>23, <1>26, <2>1, <2>2 DEF Translated
<1>28. Replaced(q, r, a, l, old)
  <2>1. Where(r, a) = l
    BY <1>14, <1>23 DEF Where
  <2>2. ~InfoAt(q, l).written
    BY <1>6 DEF BlankInfo
  <2>3. old = IF Where(q, a) \in Logical THEN Where(q, a) ELSE NotAllocated
    BY <1>19, Logicals
  <2>4. r.ftl.score = IF old = NotAllocated THEN q.ftl.score
                      ELSE [q.ftl.score EXCEPT ![old[1]] = OneMore(@)]
    BY <1>13, <1>20
  <2>5. old # NotAllocated => InfoAt(r, old) = Info(DELETED, -1)
    BY <1>20
  <2> QED  BY <1>6, <1>21, <1>22, <2>1, <2>2, <2>3, <2>4, <2>5 DEF Replaced, SameAt
<1>29. Cached(r) /\ Cached2(r)
  <2>1. Cached(q) /\ Cached2(q)
    BY <1>6 DEF Almost
  <2> QED  BY <1>23, <1>25, <2>1 DEF Cached, Cached2, SameCache, SameCache2
<1>30. /\ Good(r)
       /\ \A b \in Address \ {a} :
            /\ Where(r, b) = Where(q, b)
            /\ Where(q, b) \in Logical => UserAt(r, Where(q, b)) = UserAt(q, Where(q, b))
  BY <1>6, <1>20, <1>23, <1>27, <1>28, <1>29, Retranslates
<1>31. Sticks(r) <=> Sticks(q)
  BY <1>18, <1>20
<1>32. Where(r, a) = l
  BY <1>6, <1>28 DEF Replaced
<1> QED  BY <1>6, <1>22, <1>30, <1>31, <1>32 DEF Placed

(* Only the translation of a large address and its blocks have changed.     *)
Moved(q, r, a, new, old) ==
  LET l == q.ftl.xlate_table[Segment(a)]
      l2 == q.ftl.xlate2_table[Segment(a)]
  IN /\ r \in Device /\ SameTables(q, r) /\ SameAlloc(q, r)
     /\ \A m \in Logical : m # new /\ m # old =>
          /\ InfoAt(r, m) = InfoAt(q, m) /\ UserAt(r, m) = UserAt(q, m)
          /\ m # l /\ m # l2 => MapAt(r, m) = MapAt(q, m)
     /\ \A f \in Entry : f # XlateIndex(a) => /\ MapAt(r, l)[f] = MapAt(q, l)[f]
                                              /\ MapAt(r, l2)[f] = MapAt(q, l2)[f]
     /\ \A u \in Unit : r.nor[u].info[0] = q.nor[u].info[0]
     /\ r.nor[q.ftl.reclaim] = q.nor[q.ftl.reclaim]

(* Moving the block of an address disturbs no other address.               *)
LEMMA Moves ==
  ASSUME NEW q, Almost(q), NEW a \in Address, ~Direct(a), NEW r, NEW new, NEW old,
         Moved(q, r, a, new, old),
         new \in Logical => ~InfoAt(q, new).written,
         old \in Logical => InfoAt(q, old) = Info(DATA_COMMITTED, a)
  PROVE  /\ \A b \in Address : b # a =>
              /\ Direct(b) => r.ftl.block_table[b] = q.ftl.block_table[b]
              /\ ~Direct(b) => Primary(r, b) = Primary(q, b) /\ Secondary(r, b) = Secondary(q, b)
         /\ \A m \in Logical : m # new /\ m # old =>
              /\ InfoAt(r, m) = InfoAt(q, m) /\ UserAt(r, m) = UserAt(q, m)
              /\ ~InfoAt(q, m).written => MapAt(r, m) = MapAt(q, m)
         /\ \A s \in Segments : s # Segment(a) =>
              /\ MapAt(r, q.ftl.xlate_table[s]) = MapAt(q, q.ftl.xlate_table[s])
              /\ MapAt(r, q.ftl.xlate2_table[s]) = MapAt(q, q.ftl.xlate2_table[s])
<1> DEFINE seg == Segment(a)
           l == q.ftl.xlate_table[seg]
           l2 == q.ftl.xlate2_table[seg]
<1>1. seg \in Segments
  BY Entered
<1>2. \A s \in Segments :
        /\ q.ftl.xlate_table[s] \in Logical =>
             InfoAt(q, q.ftl.xlate_table[s]) = Info(XLATE, s)
        /\ q.ftl.xlate2_table[s] \in Logical =>
             InfoAt(q, q.ftl.xlate2_table[s]) = Info(XLATE_SECONDARY, s)
        /\ q.ftl.xlate_table[s] \in Logical \cup {NotAllocated}
        /\ q.ftl.xlate2_table[s] \in Logical \cup {NotAllocated}
  BY Logicals DEF Almost, TableEntry
<1>3. /\ \A m \in Logical : m # new /\ m # old =>
           /\ InfoAt(r, m) = InfoAt(q, m) /\ UserAt(r, m) = UserAt(q, m)
           /\ m # l /\ m # l2 => MapAt(r, m) = MapAt(q, m)
      /\ \A f \in Entry : f # XlateIndex(a) => /\ MapAt(r, l)[f] = MapAt(q, l)[f]
                                               /\ MapAt(r, l2)[f] = MapAt(q, l2)[f]
      /\ SameTables(q, r)
  BY DEF Moved
<1>4. MapAt(r, NotAllocated) = MapAt(q, NotAllocated)
  BY NotSeen
<1> HIDE DEF seg, l, l2
<1>5. (l \in Logical => InfoAt(q, l).written) /\ (l2 \in Logical => InfoAt(q, l2).written)
  BY <1>1, <1>2, InfoFields DEF l, l2
<1>6. ASSUME NEW s \in Segments, s # seg
      PROVE  /\ MapAt(r, q.ftl.xlate_table[s]) = MapAt(q, q.ftl.xlate_table[s])
             /\ MapAt(r, q.ftl.xlate2_table[s]) = MapAt(q, q.ftl.xlate2_table[s])
  <2>1. ASSUME NEW m \in Logical, NEW type \in {XLATE, XLATE_SECONDARY}, InfoAt(q, m) = Info(type, s)
        PROVE  m # new /\ m # old
    BY <2>1, InfoFields, Distinct
  <2>2. ASSUME NEW m \in Logical, NEW type \in {XLATE, XLATE_SECONDARY}, InfoAt(q, m) = Info(type, s)
        PROVE  m # l /\ m # l2
    BY <1>1, <1>2, <1>6, <2>2, InfoFields DEF l, l2
  <2> QED  BY <1>2, <1>3, <1>4, <1>6, <2>1, <2>2
<1>7. ASSUME NEW b \in Address, b # a, ~Direct(b)
      PROVE  Primary(r, b) = Primary(q, b) /\ Secondary(r, b) = Secondary(q, b)
  <2>1. Segment(b) \in Segments /\ XlateIndex(b) \in Entry
        /\ (Segment(b) = seg => XlateIndex(b) # XlateIndex(a))
    BY <1>7, Entered DEF seg
  <2>2. CASE Segment(b) = seg
    BY <1>3, <2>1, <2>2 DEF Primary, Secondary, SameTables, l, l2
  <2>3. CASE Segment(b) # seg
    BY <1>3, <1>6, <2>1, <2>3 DEF Primary, Secondary, SameTables
  <2> QED  BY <2>2, <2>3
<1>8. \A m \in Logical : m # new /\ m # old =>
        /\ InfoAt(r, m) = InfoAt(q, m) /\ UserAt(r, m) = UserAt(q, m)
        /\ ~InfoAt(q, m).written => MapAt(r, m) = MapAt(q, m)
  BY <1>3, <1>5
<1> QED  BY <1>3, <1>6, <1>7, <1>8 DEF SameTables, seg

(* The entry of a block whose data is written is set, and then the block    *)
(* counts.                                                                 *)
Committed(d, r, lx, e, l, a) ==
  /\ r \in Device /\ Sectors(r) /\ SameTables(d, r) /\ SameAlloc(d, r)
  /\ r.ftl.score = d.ftl.score
  /\ \A m \in Logical : m # l /\ m # lx => SameAt(d, r, m)
  /\ InfoAt(r, lx) = InfoAt(d, lx) /\ UserAt(r, lx) = UserAt(d, lx)
  /\ MapAt(r, lx) = Altered(MapAt(d, lx), e, l)
  /\ InfoAt(r, l) = Info(DATA_COMMITTED, a)
  /\ MapAt(r, l) = MapAt(d, l) /\ UserAt(r, l) = UserAt(d, l)
  /\ \A u \in Unit : r.nor[u].info[0] = d.nor[u].info[0]
  /\ r.nor[d.ftl.reclaim] = d.nor[d.ftl.reclaim]
  /\ Sticks(r) <=> Sticks(d)

(* A block entered in the first translation block, and committed; ...      *)
LEMMA FirstCommitted ==
  ASSUME NEW d \in Device, Sectors(d), NEW lx \in Logical, d.ftl.xlate_logical = lx,
         d.ftl.xlate_cache = MapAt(d, lx), NEW e \in Entry, NEW l \in Logical, l # lx,
         MapAt(d, lx)[e] = NotAllocated, NEW a \in Address, InfoAt(d, l) = Info(DATA_WRITTEN, a),
         NEW r, r = InfoType(WriteEntry(WithEntry(d, e, l), "map", lx, e, l),
                             "commit", l, DATA_COMMITTED)
  PROVE  /\ Committed(d, r, lx, e, l, a) /\ SameCache2(d, r)
         /\ r.ftl.xlate_logical = lx /\ r.ftl.xlate_cache = MapAt(r, lx)
<1> DEFINE w == WriteEntry(WithEntry(d, e, l), "map", lx, e, l)
<1>1. "map" \in StepName /\ "commit" \in StepName /\ l \in Named
  BY DEF StepName, Named
<1>2. /\ w \in Device /\ Spared(d, w, lx) /\ (Sticks(w) <=> Sticks(d))
      /\ SameTables(d, w) /\ SameCache2(d, w) /\ SameAlloc(d, w) /\ w.ftl.score = d.ftl.score
      /\ w.ftl.xlate_logical = lx /\ w.ftl.xlate_cache = MapAt(w, lx)
      /\ InfoAt(w, lx) = InfoAt(d, lx) /\ UserAt(w, lx) = UserAt(d, lx)
      /\ MapAt(w, lx) = Altered(MapAt(d, lx), e, l)
  <2>1. w = WriteEntry(WithEntry(d, e, l), "map", lx, e, l)
    OBVIOUS
  <2> HIDE DEF w
  <2>2. MapAt(d, lx)[e] = NotAllocated \/ l = Deleted
    OBVIOUS
  <2> QED  BY <1>1, <2>1, <2>2, EntryMapped
<1>3. r = InfoType(w, "commit", l, DATA_COMMITTED)
  OBVIOUS
<1> HIDE DEF w
<1>4. Sectors(w)
  BY <1>2 DEF Sectors, SameTables
<1>5. /\ Touched(w, r, l)
      /\ InfoAt(r, l) = Info(DATA_COMMITTED, InfoAt(w, l).of)
      /\ MapAt(r, l) = MapAt(w, l) /\ UserAt(r, l) = UserAt(w, l)
      /\ Sticks(r) <=> Sticks(w)
  <2>1. InfoAt(w, l) = Info(DATA_WRITTEN, a)
    BY <1>2 DEF Spared, SameAt
  <2>2. DATA_COMMITTED \subseteq InfoAt(w, l).type
    BY <2>1, InfoFields DEF DATA_COMMITTED, DATA_WRITTEN
  <2>3. DATA_COMMITTED \in SUBSET (0..3) /\ DATA_COMMITTED # DELETED /\ w \in Device
    BY <1>2, Types, Distinct
  <2> QED  BY <1>1, <1>3, <1>4, <2>2, <2>3, TypeNarrowed
<1>6. InfoAt(r, l) = Info(DATA_COMMITTED, a)
  BY <1>2, <1>5, InfoFields DEF Spared, SameAt
<1>7. r \in Device /\ r.ftl = w.ftl
  BY <1>5 DEF Touched
<1>8. Sectors(r) /\ SameTables(d, r) /\ SameAlloc(d, r) /\ r.ftl.score = d.ftl.score /\ SameCache2(d, r)
  BY <1>2, <1>4, <1>7 DEF Sectors, SameTables, SameAlloc, SameCache2
<1>9. /\ \A m \in Logical : m # l /\ m # lx => SameAt(d, r, m)
      /\ InfoAt(r, lx) = InfoAt(d, lx) /\ UserAt(r, lx) = UserAt(d, lx)
      /\ MapAt(r, lx) = MapAt(w, lx)
      /\ MapAt(r, l) = MapAt(d, l) /\ UserAt(r, l) = UserAt(d, l)
  BY <1>2, <1>5 DEF Touched, Spared, SameAt
<1>10. /\ \A u \in Unit : r.nor[u].info[0] = d.nor[u].info[0]
       /\ r.nor[d.ftl.reclaim] = d.nor[d.ftl.reclaim]
  BY <1>2, <1>5 DEF Touched, Spared, SameTables
<1>11. Sticks(r) <=> Sticks(d)
  BY <1>2, <1>5
<1>12. MapAt(r, lx) = Altered(MapAt(d, lx), e, l)
  BY <1>2, <1>9
<1>13. r.ftl.xlate_logical = lx /\ r.ftl.xlate_cache = MapAt(r, lx)
  BY <1>2, <1>7, <1>9
<1> QED  BY <1>6, <1>7, <1>8, <1>9, <1>10, <1>11, <1>12, <1>13 DEF Committed

(* ... or in the second one.                                               *)
LEMMA SecondCommitted ==
  ASSUME NEW d \in Device, Sectors(d), NEW lx \in Logical, d.ftl.xlate2_logical = lx,
         d.ftl.xlate2_cache = MapAt(d, lx), NEW e \in Entry, NEW l \in Logical, l # lx,
         MapAt(d, lx)[e] = NotAllocated, NEW a \in Address, InfoAt(d, l) = Info(DATA_WRITTEN, a),
         NEW r, r = InfoType(WriteEntry(WithEntry2(d, e, l), "map", lx, e, l),
                             "commit", l, DATA_COMMITTED)
  PROVE  /\ Committed(d, r, lx, e, l, a) /\ SameCache(d, r)
         /\ r.ftl.xlate2_logical = lx /\ r.ftl.xlate2_cache = MapAt(r, lx)
<1> DEFINE w == WriteEntry(WithEntry2(d, e, l), "map", lx, e, l)
<1>1. "map" \in StepName /\ "commit" \in StepName /\ l \in Named
  BY DEF StepName, Named
<1>2. /\ w \in Device /\ Spared(d, w, lx) /\ (Sticks(w) <=> Sticks(d))
      /\ SameTables(d, w) /\ SameCache(d, w) /\ SameAlloc(d, w) /\ w.ftl.score = d.ftl.score
      /\ w.ftl.xlate2_logical = lx /\ w.ftl.xlate2_cache = MapAt(w, lx)
      /\ InfoAt(w, lx) = InfoAt(d, lx) /\ UserAt(w, lx) = UserAt(d, lx)
      /\ MapAt(w, lx) = Altered(MapAt(d, lx), e, l)
  <2>1. w = WriteEntry(WithEntry2(d, e, l), "map", lx, e, l)
    OBVIOUS
  <2> HIDE DEF w
  <2>2. MapAt(d, lx)[e] = NotAllocated \/ l = Deleted
    OBVIOUS
  <2> QED  BY <1>1, <2>1, <2>2, Entry2Mapped
<1>3. r = InfoType(w, "commit", l, DATA_COMMITTED)
  OBVIOUS
<1> HIDE DEF w
<1>4. Sectors(w)
  BY <1>2 DEF Sectors, SameTables
<1>5. /\ Touched(w, r, l)
      /\ InfoAt(r, l) = Info(DATA_COMMITTED, InfoAt(w, l).of)
      /\ MapAt(r, l) = MapAt(w, l) /\ UserAt(r, l) = UserAt(w, l)
      /\ Sticks(r) <=> Sticks(w)
  <2>1. InfoAt(w, l) = Info(DATA_WRITTEN, a)
    BY <1>2 DEF Spared, SameAt
  <2>2. DATA_COMMITTED \subseteq InfoAt(w, l).type
    BY <2>1, InfoFields DEF DATA_COMMITTED, DATA_WRITTEN
  <2>3. DATA_COMMITTED \in SUBSET (0..3) /\ DATA_COMMITTED # DELETED /\ w \in Device
    BY <1>2, Types, Distinct
  <2> QED  BY <1>1, <1>3, <1>4, <2>2, <2>3, TypeNarrowed
<1>6. InfoAt(r, l) = Info(DATA_COMMITTED, a)
  BY <1>2, <1>5, InfoFields DEF Spared, SameAt
<1>7. r \in Device /\ r.ftl = w.ftl
  BY <1>5 DEF Touched
<1>8. Sectors(r) /\ SameTables(d, r) /\ SameAlloc(d, r) /\ r.ftl.score = d.ftl.score /\ SameCache(d, r)
  BY <1>2, <1>4, <1>7 DEF Sectors, SameTables, SameAlloc, SameCache
<1>9. /\ \A m \in Logical : m # l /\ m # lx => SameAt(d, r, m)
      /\ InfoAt(r, lx) = InfoAt(d, lx) /\ UserAt(r, lx) = UserAt(d, lx)
      /\ MapAt(r, lx) = MapAt(w, lx)
      /\ MapAt(r, l) = MapAt(d, l) /\ UserAt(r, l) = UserAt(d, l)
  BY <1>2, <1>5 DEF Touched, Spared, SameAt
<1>10. /\ \A u \in Unit : r.nor[u].info[0] = d.nor[u].info[0]
       /\ r.nor[d.ftl.reclaim] = d.nor[d.ftl.reclaim]
  BY <1>2, <1>5 DEF Touched, Spared, SameTables
<1>11. Sticks(r) <=> Sticks(d)
  BY <1>2, <1>5
<1>12. MapAt(r, lx) = Altered(MapAt(d, lx), e, l)
  BY <1>2, <1>9
<1>13. r.ftl.xlate2_logical = lx /\ r.ftl.xlate2_cache = MapAt(r, lx)
  BY <1>2, <1>7, <1>9
<1> QED  BY <1>6, <1>7, <1>8, <1>9, <1>10, <1>11, <1>12, <1>13 DEF Committed

LEMMA Alters ==
  ASSUME NEW map \in [Entry -> Content], NEW e \in Entry, NEW x
  PROVE  /\ Altered(map, e, x)[e] = x
         /\ \A f \in Entry : f # e => Altered(map, e, x)[f] = map[f]
BY DEF Altered

(* The data of address a is written into block l, and nothing else.         *)
Filled(q, x, l, a, user) ==
  /\ x \in Device /\ Sectors(x) /\ SameTables(q, x) /\ SameAlloc(q, x) /\ x.ftl.score = q.ftl.score
  /\ \A m \in Logical : m # l => SameAt(q, x, m)
  /\ InfoAt(x, l) = Info(DATA_WRITTEN, a) /\ MapAt(x, l) = BlankMap /\ UserAt(x, l) = user
  /\ \A u \in Unit : x.nor[u].info[0] = q.nor[u].info[0]
  /\ x.nor[q.ftl.reclaim] = q.nor[q.ftl.reclaim]
  /\ Sticks(x) <=> Sticks(q)

(* A block that is reserved, written and marked holds the data.            *)
LEMMA Fills2 ==
  ASSUME NEW q, NEW l, Held(q, l), NEW a \in Address, NEW user \in User,
         NEW x, x = InfoType(WriteUser(InfoEntry(q, "reserve", l, RESERVED, a), "data", l, user),
                             "written", l, DATA_WRITTEN)
  PROVE  Filled(q, x, l, a, user) /\ SameCache(q, x) /\ SameCache2(q, x)
<1> DEFINE d1 == WriteUser(InfoEntry(q, "reserve", l, RESERVED, a), "data", l, user)
<1>1. d1 = WriteUser(InfoEntry(q, "reserve", l, RESERVED, a), "data", l, user)
      /\ x = InfoType(d1, "written", l, DATA_WRITTEN)
  OBVIOUS
<1> HIDE DEF d1
<1>2. /\ Touched(q, d1, l) /\ Sectors(d1) /\ (Sticks(d1) <=> Sticks(q))
      /\ InfoAt(d1, l) = Info(RESERVED, a) /\ MapAt(d1, l) = BlankMap /\ UserAt(d1, l) = user
  BY <1>1, DataWritten
<1>3. "written" \in StepName /\ l \in Logical /\ d1 \in Device
  BY <1>2 DEF StepName, Held, Touched
<1>4. /\ Touched(d1, x, l)
      /\ InfoAt(x, l) = Info(DATA_WRITTEN, InfoAt(d1, l).of)
      /\ MapAt(x, l) = MapAt(d1, l) /\ UserAt(x, l) = UserAt(d1, l)
      /\ Sticks(x) <=> Sticks(d1)
  <2>1. DATA_WRITTEN \in SUBSET (0..3) /\ DATA_WRITTEN # DELETED
    BY Types DEF DATA_WRITTEN, DELETED
  <2>2. DATA_WRITTEN \subseteq InfoAt(d1, l).type
    BY <1>2, InfoFields DEF DATA_WRITTEN, RESERVED
  <2> QED  BY <1>1, <1>2, <1>3, <2>1, <2>2, TypeNarrowed
<1>5. x \in Device /\ x.ftl = q.ftl
  BY <1>2, <1>4 DEF Touched
<1>6. /\ Sectors(x) /\ SameTables(q, x) /\ SameAlloc(q, x) /\ x.ftl.score = q.ftl.score
      /\ SameCache(q, x) /\ SameCache2(q, x)
  BY <1>2, <1>4, <1>5 DEF Touched, Sectors, SameTables, SameAlloc, SameCache, SameCache2
<1>7. /\ \A m \in Logical : m # l => SameAt(q, x, m)
      /\ \A u \in Unit : x.nor[u].info[0] = q.nor[u].info[0]
      /\ x.nor[q.ftl.reclaim] = q.nor[q.ftl.reclaim]
  BY <1>2, <1>4 DEF Touched, SameAt
<1>8. InfoAt(x, l) = Info(DATA_WRITTEN, a) /\ MapAt(x, l) = BlankMap /\ UserAt(x, l) = user
  BY <1>2, <1>4, InfoFields
<1>9. Sticks(x) <=> Sticks(q)
  BY <1>2, <1>4
<1> QED  BY <1>5, <1>6, <1>7, <1>8, <1>9 DEF Filled

(* ... whatever is loaded into the caches.                                 *)
LEMMA FilledStill ==
  ASSUME NEW q, NEW x, NEW y, NEW l \in Logical, NEW a, NEW user, Filled(q, x, l, a, user),
         y \in Device, SameFlash(x, y), SameTables(x, y), SameAlloc(x, y),
         y.ftl.score = x.ftl.score
  PROVE  Filled(q, y, l, a, user)
<1>1. (\A m : SameAt(x, y, m)) /\ (Sticks(y) <=> Sticks(x))
  BY SameViews DEF SameTables
<1>2. Sectors(y) /\ SameTables(q, y) /\ SameAlloc(q, y)
  BY DEF Filled, Sectors, SameTables, SameAlloc
<1>3. y.nor = x.nor
  BY DEF SameFlash
<1> QED  BY <1>1, <1>2, <1>3 DEF Filled, SameAt

(* What the translation blocks of an address are.                          *)
LEMMA Holders ==
  ASSUME NEW q, Almost(q), NEW a \in Address, ~Direct(a)
  PROVE  LET l1 == q.ftl.xlate_table[Segment(a)]
             l2 == q.ftl.xlate2_table[Segment(a)]
         IN /\ Segment(a) \in Segments /\ XlateIndex(a) \in Entry
            /\ l1 \in Logical \cup {NotAllocated} /\ l2 \in Logical \cup {NotAllocated}
            /\ l1 # NotAllocated => InfoAt(q, l1) = Info(XLATE, Segment(a))
            /\ l2 # NotAllocated => InfoAt(q, l2) = Info(XLATE_SECONDARY, Segment(a))
            /\ l1 # NotAllocated => l1 # l2
            /\ MapAt(q, l1) \in [Entry -> Content] /\ MapAt(q, l2) \in [Entry -> Content]
            /\ Primary(q, a) = MapAt(q, l1)[XlateIndex(a)]
            /\ Secondary(q, a) = MapAt(q, l2)[XlateIndex(a)]
<1> DEFINE l1 == q.ftl.xlate_table[Segment(a)]
           l2 == q.ftl.xlate2_table[Segment(a)]
<1>1. Segment(a) \in Segments /\ XlateIndex(a) \in Entry
  BY Entered
<1>2. TableEntry(q, Segment(a)) /\ q \in Device /\ Sectors(q)
  BY <1>1 DEF Almost
<1>3. /\ l1 \in Logical \cup {NotAllocated} /\ l2 \in Logical \cup {NotAllocated}
      /\ l1 # NotAllocated => InfoAt(q, l1) = Info(XLATE, Segment(a))
      /\ l2 # NotAllocated => InfoAt(q, l2) = Info(XLATE_SECONDARY, Segment(a))
  BY <1>2, Logicals DEF TableEntry
<1>4. l1 # NotAllocated => l1 # l2
  BY <1>3, InfoFields, Distinct
<1>5. MapAt(q, l1) \in [Entry -> Content] /\ MapAt(q, l2) \in [Entry -> Content]
  <2> HIDE DEF l1, l2
  <2>1. MapAt(q, NotAllocated) \in [Entry -> Content]
    BY SMTT(30), NotSeen, Images
  <2> QED  BY <1>2, <1>3, <2>1, Seen
<1> QED  BY <1>1, <1>3, <1>4, <1>5 DEF Primary, Secondary

(* What dosfs_sflash_ftl_modify() does once the translation blocks are      *)
(* loaded.                                                                 *)
Entered1(y, e, l) ==
  InfoType(WriteEntry(WithEntry(y, e, l), "map", y.ftl.xlate_logical, e, l),
           "commit", l, DATA_COMMITTED)
Entered2(z, e, l) ==
  InfoType(WriteEntry(WithEntry2(z, e, l), "map", z.ftl.xlate2_logical, e, l),
           "commit", l, DATA_COMMITTED)
Unmapped(p, e) ==
  WriteEntry(WithEntry(p, e, Deleted), "unmap", p.ftl.xlate_logical, e, Deleted)

(* Modify, written with the operators used here.                           *)
LEMMA ModifyIs ==
  ASSUME NEW x, NEW a, NEW l, NEW y, y = LoadXlate(x, Segment(a)),
         NEW e, e = XlateIndex(a), NEW old, old = y.ftl.xlate_cache[e],
         NEW p, p = Entered2(LoadXlate2(y, Segment(a)), e, l)
  PROVE  Modify(x, a, l) = IF old = NotAllocated THEN Entered1(y, e, l)
                           ELSE IF old = Deleted THEN p
                           ELSE Delete(Unmapped(p, e), "delete", old)
BY Logicals DEF Modify, Entered1, Entered2, Unmapped, WithEntry, WithEntry2

(* The first translation of an address.                                     *)
LEMMA PlacedFirst ==
  ASSUME NEW q, NEW l, Held(q, l), NEW a \in Address, ~Direct(a), NEW user \in User,
         q.ftl.xlate_table[Segment(a)] # NotAllocated, Primary(q, a) = NotAllocated,
         NEW y, Filled(q, y, l, a, user), SameCache2(q, y),
         y.ftl.xlate_logical = q.ftl.xlate_table[Segment(a)],
         y.ftl.xlate_cache = MapAt(y, q.ftl.xlate_table[Segment(a)]),
         NEW r, r = Entered1(y, XlateIndex(a), l)
  PROVE  Placed(q, r, l, a, user)
<1> DEFINE seg == Segment(a)
           e == XlateIndex(a)
           l1 == q.ftl.xlate_table[seg]
           l2 == q.ftl.xlate2_table[seg]
<1>1. Almost(q) /\ l \in Logical /\ Counted(q, l) /\ InfoAt(q, l) = BlankInfo /\ ~InfoAt(q, l).written
  BY DEF Held, BlankInfo
<1>2. /\ seg \in Segments /\ e \in Entry
      /\ l1 \in Logical \cup {NotAllocated} /\ l2 \in Logical \cup {NotAllocated}
      /\ l1 # NotAllocated => InfoAt(q, l1) = Info(XLATE, seg)
      /\ l2 # NotAllocated => InfoAt(q, l2) = Info(XLATE_SECONDARY, seg)
      /\ l1 # NotAllocated => l1 # l2
      /\ MapAt(q, l1) \in [Entry -> Content] /\ MapAt(q, l2) \in [Entry -> Content]
      /\ Primary(q, a) = MapAt(q, l1)[e]
      /\ Secondary(q, a) = MapAt(q, l2)[e]
  BY <1>1, Holders
<1>3. l1 \in Logical /\ l # l1 /\ l # l2 /\ l # NotAllocated /\ l # Deleted /\ l1 # l2
  BY <1>1, <1>2, InfoFields, Logicals
<1>4. /\ r = Entered1(y, e, l) /\ Primary(q, a) = NotAllocated
      /\ y.ftl.xlate_logical = l1 /\ y.ftl.xlate_cache = MapAt(y, l1)
      /\ l1 = q.ftl.xlate_table[seg] /\ l2 = q.ftl.xlate2_table[seg]
  OBVIOUS
<1>5. /\ y \in Device /\ Sectors(y) /\ SameTables(q, y) /\ SameAlloc(q, y)
      /\ y.ftl.score = q.ftl.score
      /\ \A m \in Logical : m # l => SameAt(q, y, m)
      /\ InfoAt(y, l) = Info(DATA_WRITTEN, a) /\ MapAt(y, l) = BlankMap /\ UserAt(y, l) = user
      /\ \A u \in Unit : y.nor[u].info[0] = q.nor[u].info[0]
      /\ y.nor[q.ftl.reclaim] = q.nor[q.ftl.reclaim]
      /\ Sticks(y) <=> Sticks(q)
  BY DEF Filled
<1> HIDE DEF seg, e, l1, l2
<1>6. MapAt(y, l1) = MapAt(q, l1) /\ MapAt(y, l1)[e] = NotAllocated
  BY <1>2, <1>3, <1>4, <1>5 DEF SameAt
<1>7. /\ Committed(y, r, l1, e, l, a) /\ SameCache2(y, r)
      /\ r.ftl.xlate_logical = l1 /\ r.ftl.xlate_cache = MapAt(r, l1)
  <2>1. r = InfoType(WriteEntry(WithEntry(y, e, l), "map", l1, e, l), "commit", l, DATA_COMMITTED)
    BY <1>4 DEF Entered1
  <2>2. y \in Device /\ Sectors(y) /\ InfoAt(y, l) = Info(DATA_WRITTEN, a)
    BY <1>5
  <2> QED  BY <1>1, <1>2, <1>3, <1>4, <1>6, <2>1, <2>2, FirstCommitted
<1>8. /\ r \in Device /\ Sectors(r) /\ SameTables(q, r) /\ SameAlloc(q, r)
      /\ r.ftl.score = q.ftl.score /\ SameCache2(q, r)
  BY <1>5, <1>7 DEF Committed, SameTables, SameAlloc, SameCache2
<1>9. /\ \A m \in Logical : m # l /\ m # l1 => SameAt(q, r, m)
      /\ InfoAt(r, l1) = InfoAt(q, l1) /\ UserAt(r, l1) = UserAt(q, l1)
      /\ MapAt(r, l1) = Altered(MapAt(q, l1), e, l)
      /\ InfoAt(r, l) = Info(DATA_COMMITTED, a) /\ UserAt(r, l) = user
  BY <1>3, <1>5, <1>6, <1>7 DEF Committed, SameAt
<1>10. /\ MapAt(r, l1)[e] = l
       /\ \A f \in Entry : f # e => MapAt(r, l1)[f] = MapAt(q, l1)[f]
       /\ MapAt(r, l2) = MapAt(q, l2)
  <2>1. MapAt(r, l2) = MapAt(q, l2)
    <3>1. MapAt(r, NotAllocated) = MapAt(q, NotAllocated)
      BY NotSeen
    <3> QED  BY <1>2, <1>3, <1>9, <3>1 DEF SameAt
  <2> QED  BY <1>2, <1>9, <2>1, Alters
<1>11. /\ \A u \in Unit : r.nor[u].info[0] = q.nor[u].info[0]
       /\ r.nor[q.ftl.reclaim] = q.nor[q.ftl.reclaim]
  BY <1>5, <1>7 DEF Committed, SameTables
<1>12. Moved(q, r, a, l, NotAllocated)
  BY <1>3, <1>8, <1>9, <1>10, <1>11 DEF Moved, SameAt, l1, l2, seg, e
<1>13. /\ \A b \in Address : b # a =>
            /\ Direct(b) => r.ftl.block_table[b] = q.ftl.block_table[b]
            /\ ~Direct(b) => Primary(r, b) = Primary(q, b) /\ Secondary(r, b) = Secondary(q, b)
       /\ \A m \in Logical : m # l /\ m # NotAllocated =>
            /\ InfoAt(r, m) = InfoAt(q, m) /\ UserAt(r, m) = UserAt(q, m)
            /\ ~InfoAt(q, m).written => MapAt(r, m) = MapAt(q, m)
       /\ \A s \in Segments : s # Segment(a) =>
            /\ MapAt(r, q.ftl.xlate_table[s]) = MapAt(q, q.ftl.xlate_table[s])
            /\ MapAt(r, q.ftl.xlate2_table[s]) = MapAt(q, q.ftl.xlate2_table[s])
  BY <1>1, <1>12, Moves, Logicals
<1>14. AddressEntry(q, a)
  BY <1>1 DEF Almost
<1>15. Secondary(q, a) = NotAllocated /\ Where(q, a) = NotAllocated
  BY <1>4, <1>14, Logicals DEF AddressEntry, Where
<1>16. Primary(r, a) = l /\ Secondary(r, a) = NotAllocated
  BY <1>2, <1>4, <1>8, <1>10, <1>15 DEF Primary, Secondary, SameTables, seg, e
<1>17. Where(r, a) = l
  BY <1>3, <1>16 DEF Where
<1>18. Translated(q, r, a)
  BY <1>1, <1>8, <1>11, <1>13, <1>16 DEF Translated, SameTables, Named
<1>19. Replaced(q, r, a, l, NotAllocated)
  BY <1>1, <1>3, <1>8, <1>9, <1>13, <1>15, <1>17, Logicals DEF Replaced
<1>20. Cached(r)
  BY <1>2, <1>3, <1>4, <1>7, <1>8 DEF Cached, SameTables
<1>21. Cached2(r)
  <2>1. \A s \in Segments : MapAt(r, q.ftl.xlate2_table[s]) = MapAt(q, q.ftl.xlate2_table[s])
    BY <1>4, <1>10, <1>13 DEF seg
  <2> QED  BY <1>1, <1>8, <2>1 DEF Almost, Cached2, SameCache2, SameTables
<1>22. /\ Good(r)
       /\ \A b \in Address \ {a} :
            /\ Where(r, b) = Where(q, b)
            /\ Where(q, b) \in Logical => UserAt(r, Where(q, b)) = UserAt(q, Where(q, b))
  BY <1>1, <1>8, <1>18, <1>19, <1>20, <1>21, Retranslates
<1>23. Sticks(r) <=> Sticks(q)
  BY <1>5, <1>7 DEF Committed
<1> QED  BY <1>1, <1>9, <1>17, <1>22, <1>23 DEF Placed

(* A translation that replaces another one.                                 *)
LEMMA PlacedAgain ==
  ASSUME NEW q, NEW l, Held(q, l), NEW a \in Address, ~Direct(a), NEW user \in User,
         q.ftl.xlate_table[Segment(a)] # NotAllocated,
         q.ftl.xlate2_table[Segment(a)] # NotAllocated,
         Primary(q, a) # NotAllocated, Secondary(q, a) = NotAllocated,
         NEW z, Filled(q, z, l, a, user),
         z.ftl.xlate_logical = q.ftl.xlate_table[Segment(a)],
         z.ftl.xlate_cache = MapAt(z, q.ftl.xlate_table[Segment(a)]),
         z.ftl.xlate2_logical = q.ftl.xlate2_table[Segment(a)],
         z.ftl.xlate2_cache = MapAt(z, q.ftl.xlate2_table[Segment(a)]),
         NEW p, p = Entered2(z, XlateIndex(a), l),
         NEW r, r = IF Primary(q, a) = Deleted THEN p
                    ELSE Delete(Unmapped(p, XlateIndex(a)), "delete", Primary(q, a))
  PROVE  Placed(q, r, l, a, user)
<1> DEFINE seg == Segment(a)
           e == XlateIndex(a)
           l1 == q.ftl.xlate_table[seg]
           l2 == q.ftl.xlate2_table[seg]
           w == Unmapped(p, e)
           to == Primary(q, a)
           old == IF to = Deleted THEN NotAllocated ELSE to
<1>1. Almost(q) /\ l \in Logical /\ Counted(q, l) /\ InfoAt(q, l) = BlankInfo /\ ~InfoAt(q, l).written
  BY DEF Held, BlankInfo
<1>2. /\ seg \in Segments /\ e \in Entry
      /\ l1 \in Logical \cup {NotAllocated} /\ l2 \in Logical \cup {NotAllocated}
      /\ l1 # NotAllocated => InfoAt(q, l1) = Info(XLATE, seg)
      /\ l2 # NotAllocated => InfoAt(q, l2) = Info(XLATE_SECONDARY, seg)
      /\ l1 # NotAllocated => l1 # l2
      /\ MapAt(q, l1) \in [Entry -> Content] /\ MapAt(q, l2) \in [Entry -> Content]
      /\ Primary(q, a) = MapAt(q, l1)[e]
      /\ Secondary(q, a) = MapAt(q, l2)[e]
  BY <1>1, Holders
<1>3. l1 \in Logical /\ l2 \in Logical /\ l # l1 /\ l # l2 /\ l # NotAllocated /\ l # Deleted /\ l1 # l2
  BY <1>1, <1>2, InfoFields, Logicals
<1>4. /\ p = Entered2(z, e, l) /\ to = Primary(q, a) /\ to # NotAllocated
      /\ Secondary(q, a) = NotAllocated
      /\ z.ftl.xlate_logical = l1 /\ z.ftl.xlate_cache = MapAt(z, l1)
      /\ z.ftl.xlate2_logical = l2 /\ z.ftl.xlate2_cache = MapAt(z, l2)
      /\ l1 = q.ftl.xlate_table[seg] /\ l2 = q.ftl.xlate2_table[seg]
      /\ r = IF to = Deleted THEN p ELSE Delete(w, "delete", to)
      /\ w = Unmapped(p, e)
  OBVIOUS
<1>5. /\ z \in Device /\ Sectors(z) /\ SameTables(q, z) /\ SameAlloc(q, z)
      /\ z.ftl.score = q.ftl.score
      /\ \A m \in Logical : m # l => SameAt(q, z, m)
      /\ InfoAt(z, l) = Info(DATA_WRITTEN, a) /\ MapAt(z, l) = BlankMap /\ UserAt(z, l) = user
      /\ \A u \in Unit : z.nor[u].info[0] = q.nor[u].info[0]
      /\ z.nor[q.ftl.reclaim] = q.nor[q.ftl.reclaim]
      /\ Sticks(z) <=> Sticks(q)
  BY DEF Filled
<1>6. /\ AddressEntry(q, a) /\ to \in Logical \cup {Deleted}
      /\ to \in Logical => /\ InfoAt(q, to) = Info(DATA_COMMITTED, a)
                           /\ to # l /\ to # l1 /\ to # l2 /\ to # NotAllocated /\ to # Deleted
      /\ Where(q, a) = to
  <2>1. AddressEntry(q, a) /\ Where(q, a) = to
    BY <1>1, <1>4 DEF Almost, Where
  <2>2. to \in Logical \cup {Deleted}
    BY <1>4, <2>1 DEF AddressEntry, Named
  <2>3. to \in Logical => InfoAt(q, to) = Info(DATA_COMMITTED, a)
    BY <2>1 DEF AddressEntry
  <2> HIDE DEF to
  <2> QED  BY <1>1, <1>2, <1>3, <2>1, <2>2, <2>3, InfoFields, Distinct, Logicals
<1> HIDE DEF seg, e, l1, l2, w, to, old
<1>7. /\ MapAt(z, l2) = MapAt(q, l2) /\ MapAt(z, l2)[e] = NotAllocated
      /\ MapAt(z, l1) = MapAt(q, l1)
  BY <1>2, <1>3, <1>4, <1>5 DEF SameAt
<1>8. /\ Committed(z, p, l2, e, l, a) /\ SameCache(z, p)
      /\ p.ftl.xlate2_logical = l2 /\ p.ftl.xlate2_cache = MapAt(p, l2)
  <2>1. p = InfoType(WriteEntry(WithEntry2(z, e, l), "map", l2, e, l), "commit", l, DATA_COMMITTED)
    BY <1>4 DEF Entered2
  <2>2. z \in Device /\ Sectors(z) /\ InfoAt(z, l) = Info(DATA_WRITTEN, a)
    BY <1>5
  <2> QED  BY <1>1, <1>2, <1>3, <1>4, <1>7, <2>1, <2>2, SecondCommitted
<1>9. /\ p \in Device /\ Sectors(p) /\ SameTables(q, p) /\ SameAlloc(q, p)
      /\ p.ftl.score = q.ftl.score
      /\ \A m \in Logical : m # l /\ m # l2 => SameAt(q, p, m)
      /\ InfoAt(p, l2) = InfoAt(q, l2) /\ UserAt(p, l2) = UserAt(q, l2)
      /\ MapAt(p, l2) = Altered(MapAt(q, l2), e, l)
      /\ InfoAt(p, l) = Info(DATA_COMMITTED, a) /\ UserAt(p, l) = user
  BY <1>3, <1>5, <1>7, <1>8 DEF Committed, SameAt, SameTables, SameAlloc
<1>10. /\ p.ftl.xlate_logical = l1 /\ p.ftl.xlate_cache = MapAt(p, l1)
       /\ MapAt(p, l1) = MapAt(q, l1)
  BY <1>3, <1>4, <1>7, <1>8, <1>9 DEF SameCache, SameAt
<1>11. /\ \A u \in Unit : p.nor[u].info[0] = q.nor[u].info[0]
       /\ p.nor[q.ftl.reclaim] = q.nor[q.ftl.reclaim] /\ (Sticks(p) <=> Sticks(q))
  BY <1>5, <1>8 DEF Committed, SameTables
<1>12. /\ r \in Device /\ SameTables(q, r) /\ SameAlloc(q, r)
       /\ r.ftl.score = IF old = NotAllocated THEN q.ftl.score
                        ELSE [q.ftl.score EXCEPT ![old[1]] = OneMore(@)]
       /\ \A m \in Logical : m # l /\ m # l1 /\ m # l2 /\ m # old => SameAt(q, r, m)
       /\ InfoAt(r, l1) = InfoAt(q, l1) /\ UserAt(r, l1) = UserAt(q, l1)
       /\ InfoAt(r, l2) = InfoAt(q, l2) /\ UserAt(r, l2) = UserAt(q, l2)
       /\ MapAt(r, l1) = IF old = NotAllocated THEN MapAt(q, l1) ELSE Altered(MapAt(q, l1), e, Deleted)
       /\ MapAt(r, l2) = Altered(MapAt(q, l2), e, l)
       /\ InfoAt(r, l) = Info(DATA_COMMITTED, a) /\ UserAt(r, l) = user
       /\ old # NotAllocated => InfoAt(r, old) = Info(DELETED, -1)
       /\ \A u \in Unit : r.nor[u].info[0] = q.nor[u].info[0]
       /\ r.nor[q.ftl.reclaim] = q.nor[q.ftl.reclaim]
       /\ r.ftl.xlate_logical = l1 /\ r.ftl.xlate_cache = MapAt(r, l1)
       /\ r.ftl.xlate2_logical = l2 /\ r.ftl.xlate2_cache = MapAt(r, l2)
       /\ Sticks(r) <=> Sticks(q)
  <2>1. CASE to = Deleted
    <3>1. r = p /\ old = NotAllocated
      BY SMTT(30), <1>4, <2>1 DEF old
    <3> QED  BY <1>3, <1>8, <1>9, <1>10, <1>11, <3>1 DEF SameAt
  <2>2. CASE to # Deleted
    <3>1. r = Delete(w, "delete", to) /\ old = to /\ to \in Logical
      BY <1>4, <1>6, <2>2 DEF old
    <3>2. "unmap" \in StepName /\ "delete" \in StepName /\ Deleted \in Named
      BY DEF StepName, Named
    <3>3. w = WriteEntry(WithEntry(p, e, Deleted), "unmap", l1, e, Deleted)
      BY <1>4, <1>10 DEF Unmapped
    <3>4. /\ w \in Device /\ Spared(p, w, l1) /\ (Sticks(w) <=> Sticks(p))
          /\ SameTables(p, w) /\ SameCache2(p, w) /\ SameAlloc(p, w) /\ w.ftl.score = p.ftl.score
          /\ w.ftl.xlate_logical = l1 /\ w.ftl.xlate_cache = MapAt(w, l1)
          /\ InfoAt(w, l1) = InfoAt(p, l1) /\ UserAt(w, l1) = UserAt(p, l1)
          /\ MapAt(w, l1) = Altered(MapAt(p, l1), e, Deleted)
      <4>1. MapAt(p, l1)[e] = NotAllocated \/ Deleted = Deleted
        OBVIOUS
      <4>2. p \in Device /\ Sectors(p) /\ p.ftl.xlate_logical = l1 /\ p.ftl.xlate_cache = MapAt(p, l1)
        BY <1>9, <1>10
      <4> QED  BY <1>2, <1>3, <3>2, <3>3, <4>1, <4>2, EntryMapped
    <3>5. Sectors(w)
      BY <1>9, <3>4 DEF Sectors, SameTables
    <3>6. /\ r \in Device /\ Spared(w, r, to)
          /\ SameTables(w, r) /\ SameCache(w, r) /\ SameCache2(w, r) /\ SameAlloc(w, r)
          /\ r.ftl.score = [w.ftl.score EXCEPT ![to[1]] = OneMore(@)]
          /\ InfoAt(r, to) = Info(DELETED, -1) /\ MapAt(r, to) = BlankMap /\ UserAt(r, to) = Stale
          /\ Sticks(r) <=> Sticks(w)
      BY <3>1, <3>2, <3>4, <3>5, Deletes
    <3>7. to # l /\ to # l1 /\ to # l2 /\ to # NotAllocated
      BY <1>6, <3>1
    <3>8. SameTables(q, r) /\ SameAlloc(q, r)
      BY <1>9, <3>4, <3>6 DEF SameTables, SameAlloc
    <3>9. /\ \A m \in Logical : m # l /\ m # l1 /\ m # l2 /\ m # to => SameAt(q, r, m)
          /\ InfoAt(r, l1) = InfoAt(q, l1) /\ UserAt(r, l1) = UserAt(q, l1)
          /\ MapAt(r, l1) = MapAt(w, l1)
      BY <1>3, <1>9, <3>4, <3>6, <3>7 DEF Spared, SameAt
    <3>10. /\ InfoAt(r, l2) = InfoAt(q, l2) /\ UserAt(r, l2) = UserAt(q, l2)
           /\ MapAt(r, l2) = MapAt(p, l2)
           /\ InfoAt(r, l) = Info(DATA_COMMITTED, a) /\ UserAt(r, l) = user
      BY SMTT(30), <1>1, <1>3, <1>9, <3>4, <3>6, <3>7 DEF Spared, SameAt
    <3>11. /\ \A u \in Unit : r.nor[u].info[0] = q.nor[u].info[0]
           /\ r.nor[q.ftl.reclaim] = q.nor[q.ftl.reclaim] /\ (Sticks(r) <=> Sticks(q))
      <4>1. p.ftl.reclaim = q.ftl.reclaim /\ w.ftl.reclaim = q.ftl.reclaim
        BY <1>9, <3>4 DEF SameTables
      <4> QED  BY SMTT(30), <1>11, <3>4, <3>6, <4>1 DEF Spared
    <3>12. r.ftl.xlate_logical = l1 /\ r.ftl.xlate_cache = MapAt(r, l1)
      BY <3>4, <3>6, <3>9 DEF SameCache
    <3>13. r.ftl.xlate2_logical = l2 /\ r.ftl.xlate2_cache = MapAt(r, l2)
      BY <1>8, <3>4, <3>6, <3>10 DEF SameCache2
    <3>14. r.ftl.score = [q.ftl.score EXCEPT ![to[1]] = OneMore(@)]
      BY <1>9, <3>4, <3>6
    <3>15. MapAt(r, l1) = Altered(MapAt(q, l1), e, Deleted) /\ MapAt(r, l2) = Altered(MapAt(q, l2), e, l)
      BY <1>9, <1>10, <3>4, <3>9, <3>10
    <3> QED  BY <3>1, <3>6, <3>7, <3>8, <3>9, <3>10, <3>11, <3>12, <3>13, <3>14, <3>15
  <2> QED  BY <2>1, <2>2
<1>13. /\ MapAt(r, l2)[e] = l /\ MapAt(r, l1)[e] = Deleted
       /\ \A f \in Entry : f # e => /\ MapAt(r, l1)[f] = MapAt(q, l1)[f]
                                     /\ MapAt(r, l2)[f] = MapAt(q, l2)[f]
  <2>1. old = NotAllocated => MapAt(q, l1)[e] = Deleted
    BY <1>2, <1>4, <1>6 DEF old
  <2> QED  BY <1>2, <1>12, <2>1, Alters
<1>14. old = IF Where(q, a) \in Logical THEN Where(q, a) ELSE NotAllocated
  BY <1>6, Logicals DEF old
<1>15. old \in Logical => InfoAt(q, old) = Info(DATA_COMMITTED, a)
  BY SMTT(30), <1>6, Logicals DEF old
<1>16. Moved(q, r, a, l, old)
  BY ZenonT(40), <1>3, <1>12, <1>13 DEF Moved, SameAt, l1, l2, seg, e
<1>17. /\ \A b \in Address : b # a =>
            /\ Direct(b) => r.ftl.block_table[b] = q.ftl.block_table[b]
            /\ ~Direct(b) => Primary(r, b) = Primary(q, b) /\ Secondary(r, b) = Secondary(q, b)
       /\ \A m \in Logical : m # l /\ m # old =>
            /\ InfoAt(r, m) = InfoAt(q, m) /\ UserAt(r, m) = UserAt(q, m)
            /\ ~InfoAt(q, m).written => MapAt(r, m) = MapAt(q, m)
       /\ \A s \in Segments : s # Segment(a) =>
            /\ MapAt(r, q.ftl.xlate_table[s]) = MapAt(q, q.ftl.xlate_table[s])
            /\ MapAt(r, q.ftl.xlate2_table[s]) = MapAt(q, q.ftl.xlate2_table[s])
  BY <1>1, <1>15, <1>16, Moves
<1>18. Primary(r, a) = Deleted /\ Secondary(r, a) = l
  BY Zenon, <1>4, <1>12, <1>13 DEF Primary, Secondary, SameTables, seg, e
<1>19. Where(r, a) = l
  BY SMTT(30), <1>3, <1>18 DEF Where
<1>20. Translated(q, r, a)
  BY ZenonT(40), <1>1, <1>12, <1>17, <1>18 DEF Translated, SameTables, Named
<1>21. Replaced(q, r, a, l, old)
  BY SMTT(30), <1>1, <1>3, <1>12, <1>14, <1>17, <1>19 DEF Replaced
<1>22. Cached(r) /\ Cached2(r)
  BY Zenon, <1>2, <1>3, <1>4, <1>12 DEF Cached, Cached2, SameTables
<1>23. /\ Good(r)
       /\ \A b \in Address \ {a} :
            /\ Where(r, b) = Where(q, b)
            /\ Where(q, b) \in Logical => UserAt(r, Where(q, b)) = UserAt(q, Where(q, b))
  BY <1>1, <1>12, <1>20, <1>21, <1>22, Retranslates
<1> QED  BY <1>1, <1>12, <1>19, <1>23 DEF Placed

(* A block that was allocated is written.                                   *)
LEMMA Places ==
  ASSUME NEW q, NEW l, Held(q, l), NEW a \in Address, Writable(q, a), NEW user \in User,
         NEW r, r = Place(q, l, a, user)
  PROVE  Placed(q, r, l, a, user)
<1>1. CASE Direct(a)
  BY <1>1, PlacedDirect
<1>2. CASE ~Direct(a)
  <2> DEFINE x == InfoType(WriteUser(InfoEntry(q, "reserve", l, RESERVED, a), "data", l, user),
                           "written", l, DATA_WRITTEN)
             seg == Segment(a)
             e == XlateIndex(a)
             l1 == q.ftl.xlate_table[seg]
             l2 == q.ftl.xlate2_table[seg]
             y == LoadXlate(x, seg)
             z == LoadXlate2(y, seg)
             p == Entered2(z, e, l)
             old == y.ftl.xlate_cache[e]
  <2>1. r = Modify(x, a, l)
    BY <1>2 DEF Place
  <2>2. Filled(q, x, l, a, user) /\ SameCache(q, x) /\ SameCache2(q, x)
    BY Fills2
  <2>3. Almost(q) /\ l \in Logical /\ InfoAt(q, l) = BlankInfo /\ ~InfoAt(q, l).written
    BY DEF Held, BlankInfo
  <2>4. /\ seg \in Segments /\ e \in Entry
        /\ l1 \in Logical \cup {NotAllocated} /\ l2 \in Logical \cup {NotAllocated}
        /\ l1 # NotAllocated => InfoAt(q, l1) = Info(XLATE, seg)
        /\ l2 # NotAllocated => InfoAt(q, l2) = Info(XLATE_SECONDARY, seg)
        /\ l1 # NotAllocated => l1 # l2
        /\ MapAt(q, l1) \in [Entry -> Content] /\ MapAt(q, l2) \in [Entry -> Content]
        /\ Primary(q, a) = MapAt(q, l1)[e]
        /\ Secondary(q, a) = MapAt(q, l2)[e]
    BY <1>2, <2>3, Holders
  <2>5. l1 # NotAllocated /\ (Primary(q, a) = NotAllocated \/ (l2 # NotAllocated /\ Secondary(q, a) = NotAllocated))
    BY <1>2 DEF Writable
  <2>6. /\ x \in Device /\ Sectors(x) /\ SameTables(q, x)
        /\ \A m \in Logical : m # l => SameAt(q, x, m)
    BY <2>2 DEF Filled
  <2>7. /\ y = LoadXlate(x, seg) /\ z = LoadXlate2(y, seg) /\ p = Entered2(z, e, l)
        /\ old = y.ftl.xlate_cache[e]
        /\ seg = Segment(a) /\ e = XlateIndex(a)
        /\ l1 = q.ftl.xlate_table[seg] /\ l2 = q.ftl.xlate2_table[seg]
    OBVIOUS
  <2>8. r = IF old = NotAllocated THEN Entered1(y, e, l)
            ELSE IF old = Deleted THEN p
            ELSE Delete(Unmapped(p, e), "delete", old)
    BY <2>1, ModifyIs
  <2> HIDE DEF x, seg, e, l1, l2, y, z, p, old
  <2>9. /\ \A s \in Segments : /\ MapAt(x, q.ftl.xlate_table[s]) = MapAt(q, q.ftl.xlate_table[s])
                                /\ MapAt(x, q.ftl.xlate2_table[s]) = MapAt(q, q.ftl.xlate2_table[s])
    <3>1. MapAt(x, NotAllocated) = MapAt(q, NotAllocated)
      BY NotSeen
    <3> QED  BY <2>3, <2>6, <3>1, InfoFields DEF Almost, TableEntry, SameAt
  <2>10. Cached(x) /\ Cached2(x)
    BY <2>2, <2>3, <2>6, <2>9 DEF Almost, Cached, Cached2, SameCache, SameCache2, SameTables
  <2>11. /\ l1 \in Logical /\ l # l1 /\ x.ftl.xlate_table[seg] = l1 /\ x.ftl.xlate2_table[seg] = l2
    BY <2>3, <2>4, <2>5, <2>6, <2>7, InfoFields DEF SameTables
  <2>12. /\ y \in Device /\ SameFlash(x, y) /\ SameTables(x, y) /\ SameCache2(x, y)
         /\ SameAlloc(x, y) /\ y.ftl.score = x.ftl.score
         /\ y.ftl.xlate_logical = l1
         /\ y.ftl.xlate_cache = MapAt(x, l1)
         /\ (\A m : SameAt(x, y, m)) /\ (Sticks(y) <=> Sticks(x)) /\ Cached(y)
    BY <2>4, <2>6, <2>7, <2>10, <2>11, XlateCached
  <2>13. Filled(q, y, l, a, user) /\ SameCache2(q, y) /\ Sectors(y)
    <3>1. Filled(q, y, l, a, user)
      BY <2>2, <2>3, <2>12, FilledStill
    <3> QED  BY <2>2, <2>12, <3>1 DEF SameCache2, Filled
  <2>14. old = Primary(q, a) /\ y.ftl.xlate_cache = MapAt(y, l1) /\ MapAt(y, l1) = MapAt(q, l1)
    BY <2>4, <2>6, <2>7, <2>11, <2>12 DEF SameAt
  <2>15. CASE old = NotAllocated
    <3>1. r = Entered1(y, e, l) /\ Primary(q, a) = NotAllocated
      BY <2>8, <2>14, <2>15
    <3>2. /\ q.ftl.xlate_table[Segment(a)] # NotAllocated
          /\ y.ftl.xlate_logical = q.ftl.xlate_table[Segment(a)]
          /\ y.ftl.xlate_cache = MapAt(y, q.ftl.xlate_table[Segment(a)])
          /\ r = Entered1(y, XlateIndex(a), l)
      BY <2>5, <2>7, <2>12, <2>14, <3>1
    <3> QED  BY <1>2, <2>13, <3>1, <3>2, PlacedFirst
  <2>16. CASE old # NotAllocated
    <3>1. l2 \in Logical /\ l # l2 /\ Secondary(q, a) = NotAllocated
      BY <2>3, <2>4, <2>5, <2>14, <2>16, InfoFields
    <3>2. Cached2(y) /\ y.ftl.xlate2_table[seg] = l2
      BY <2>10, <2>11, <2>12 DEF Cached2, SameCache2, SameTables, SameAt
    <3>3. /\ z \in Device /\ SameFlash(y, z) /\ SameTables(y, z) /\ SameCache(y, z)
          /\ SameAlloc(y, z) /\ z.ftl.score = y.ftl.score
          /\ z.ftl.xlate2_logical = l2
          /\ z.ftl.xlate2_cache = MapAt(y, l2)
          /\ (\A m : SameAt(y, z, m)) /\ (Sticks(z) <=> Sticks(y)) /\ Cached2(z)
      BY <2>4, <2>7, <2>12, <2>13, <3>1, <3>2, Xlate2Cached
    <3>4. Filled(q, z, l, a, user)
      BY <2>3, <2>13, <3>3, FilledStill
    <3>5. /\ z.ftl.xlate_logical = l1 /\ z.ftl.xlate_cache = MapAt(z, l1)
          /\ z.ftl.xlate2_logical = l2 /\ z.ftl.xlate2_cache = MapAt(z, l2)
      BY <2>12, <2>14, <3>3 DEF SameCache, SameAt
    <3>6. r = IF Primary(q, a) = Deleted THEN p
              ELSE Delete(Unmapped(p, XlateIndex(a)), "delete", Primary(q, a))
      BY <2>7, <2>8, <2>14, <2>16
    <3>7. /\ q.ftl.xlate_table[Segment(a)] # NotAllocated
          /\ q.ftl.xlate2_table[Segment(a)] # NotAllocated
          /\ Primary(q, a) # NotAllocated /\ Secondary(q, a) = NotAllocated
          /\ z.ftl.xlate_logical = q.ftl.xlate_table[Segment(a)]
          /\ z.ftl.xlate_cache = MapAt(z, q.ftl.xlate_table[Segment(a)])
          /\ z.ftl.xlate2_logical = q.ftl.xlate2_table[Segment(a)]
          /\ z.ftl.xlate2_cache = MapAt(z, q.ftl.xlate2_table[Segment(a)])
          /\ p = Entered2(z, XlateIndex(a), l)
      BY <2>5, <2>7, <2>14, <2>16, <3>1, <3>5, Logicals
    <3> QED  BY <1>2, <3>4, <3>6, <3>7, PlacedAgain
  <2> QED  BY <2>15, <2>16
<1> QED  BY <1>1, <1>2

(* dosfs_sflash_ftl_write: the address has the data, and no other has changed.*)
LEMMA Writes ==
  ASSUME NEW d, Good(d), d.ftl.alloc_free > 1, NEW a \in Address, NEW user \in User,
         NEW r, r = WriteBlock(d, a, user)
  PROVE  /\ Good(r) /\ Where(r, a) \in Logical /\ UserAt(r, Where(r, a)) = user
         /\ \A b \in Address \ {a} :
              /\ Where(r, b) = Where(d, b)
              /\ Where(d, b) \in Logical => UserAt(r, Where(d, b)) = UserAt(d, Where(d, b))
         /\ Sticks(r) <=> Sticks(d)
<1> DEFINE x == Prepared(d, a)
           q == Allocate(x)
           l == NextFree(x)
<1>1. r = Place(q, l, a, user) /\ x = Prepared(d, a) /\ q = Allocate(x) /\ l = NextFree(x)
  BY DEF WriteBlock
<1> HIDE DEF x, q, l
<1>2. /\ Good(x) /\ SameData(d, x) /\ (Sticks(x) <=> Sticks(d))
      /\ x.ftl.alloc_free > 0 /\ Writable(x, a)
  BY <1>1, Prepares
<1>3. /\ Held(q, l) /\ SameData(x, q) /\ (Sticks(q) <=> Sticks(x))
      /\ \A b : Writable(x, b) => Writable(q, b)
  BY <1>1, <1>2, Holds
<1>4. Placed(q, r, l, a, user)
  BY <1>1, <1>2, <1>3, Places
<1>5. SameData(d, q)
  BY <1>2, <1>3, SameDataTwice
<1> QED  BY <1>2, <1>3, <1>4, <1>5 DEF Placed, SameData
-----------------------------------------------------------------------------
(* An operation has taken place: what was being written is what was         *)
(* written last.                                                           *)

Aged(a, taken, user) ==
  CASE user = Pending(a) -> IF taken THEN Current(a) ELSE Stale
    [] user = Current(a) -> IF taken THEN Stale ELSE user
    [] OTHER -> user

Later(d, a, taken) == [nor |-> Settled(d.nor, a, taken), ftl |-> d.ftl, steps |-> << >>]

(* The contents a block can have, and how they age.                        *)
LEMMA Users ==
  /\ Nothing \in User /\ Stale \in User
  /\ \A a \in Address : Current(a) \in User /\ Pending(a) \in User
  /\ \A a \in Address \cup {-1} : Nothing # Pending(a) /\ Nothing # Current(a) /\ Pending(a) # Current(a)
  /\ \A a \in Address : Stale # Current(a) /\ Stale # Pending(a)
  /\ \A a, b \in Address \cup {-1} : /\ a # b => Current(a) # Current(b) /\ Pending(a) # Pending(b)
                                    /\ Current(a) # Pending(b)
BY DEF User, Nothing, Stale, Current, Pending, Address

LEMMA AgedUser ==
  /\ \A a \in Address, taken \in BOOLEAN, user \in User : Aged(a, taken, user) \in User
  /\ \A a \in Address, taken \in BOOLEAN : Aged(a, taken, Nothing) = Nothing
  /\ \A a \in Address, b \in Address, taken \in BOOLEAN : b # a => Aged(a, taken, Current(b)) = Current(b)
  /\ \A a \in Address : Aged(a, TRUE, Pending(a)) = Current(a)
BY Users DEF Aged

LEMMA AgedNone == \A user \in User : Aged(-1, FALSE, user) = user
<1>1. \A a \in Address : Current(a) # Pending(-1) /\ Pending(a) # Pending(-1)
  BY DEF Current, Pending, Address
<1>2. Stale # Pending(-1) /\ Nothing # Pending(-1)
  BY DEF Stale, Nothing, Pending
<1> QED  BY <1>1, <1>2 DEF Aged, User

AgesWell(a, taken) ==
  /\ \A user \in User : Aged(a, taken, user) \in User
  /\ Aged(a, taken, Nothing) = Nothing

(* Renaming contents leaves info words and translations alone, ...         *)
LEMMA SettledFlash ==
  ASSUME NEW image \in Flash, NEW a, NEW taken, AgesWell(a, taken),
         NEW new, new = Settled(image, a, taken)
  PROVE  /\ new \in Flash
         /\ \A u \in Unit : /\ new[u].info = image[u].info
                            /\ \A i \in Index :
                                 /\ new[u].block[i].map = image[u].block[i].map
                                 /\ new[u].block[i].user = Aged(a, taken, image[u].block[i].user)
                            /\ image[u] = Kept => new[u] = Kept
<1> DEFINE Block(b) == [user |-> Aged(a, taken, b.user), map |-> b.map]
<1>1. new = [u \in Unit |-> [info |-> image[u].info,
                            block |-> [i \in Index |-> Block(image[u].block[i])]]]
  BY DEF Settled, Aged
<1>2. \A b \in BlockImage : /\ Block(b) \in BlockImage /\ Block(b).map = b.map
                            /\ Block(b).user = Aged(a, taken, b.user)
  BY DEF BlockImage, AgesWell
<1>3. Block(BlankBlock) = BlankBlock
  BY DEF BlankBlock, AgesWell
<1> HIDE DEF Block
<1>4. ASSUME NEW u \in Unit
      PROVE  /\ new[u] \in UnitImage /\ new[u].info = image[u].info
             /\ \A i \in Index : /\ new[u].block[i].map = image[u].block[i].map
                                 /\ new[u].block[i].user = Aged(a, taken, image[u].block[i].user)
             /\ image[u] = Kept => new[u] = Kept
  <2>1. image[u] \in UnitImage /\ \A i \in Index : image[u].block[i] \in BlockImage
    BY DEF Flash, UnitImage
  <2>2. /\ new[u] = [info |-> image[u].info,
                     block |-> [i \in Index |-> Block(image[u].block[i])]]
        /\ new[u].info = image[u].info
        /\ new[u].block = [i \in Index |-> Block(image[u].block[i])]
    BY <1>1
  <2>3. new[u] \in UnitImage
    BY <1>2, <2>1, <2>2 DEF UnitImage
  <2>4. \A i \in Index : /\ new[u].block[i].map = image[u].block[i].map
                         /\ new[u].block[i].user = Aged(a, taken, image[u].block[i].user)
    BY <1>2, <2>1, <2>2
  <2>5. ASSUME image[u] = Kept PROVE new[u] = Kept
    <3>1. /\ Kept = [info |-> Kept.info, block |-> Blank.block]
          /\ Blank.block = [i \in Index |-> BlankBlock]
      <4>1. Blank = [info |-> Blank.info, block |-> Blank.block]
        BY DEF Blank
      <4>2. Blank.block = [i \in Index |-> BlankBlock]
        BY DEF Blank
      <4> HIDE DEF Blank
      <4>3. Kept = [info |-> [Blank.info EXCEPT ![0] = Info(RESERVED, -1)], block |-> Blank.block]
        BY <4>1 DEF Kept
      <4> QED  BY <4>2, <4>3
    <3>2. \A i \in Index : image[u].block[i] = BlankBlock
      BY <2>5, <3>1
    <3>3. [i \in Index |-> Block(image[u].block[i])] = [i \in Index |-> BlankBlock]
      BY <1>3, <3>2
    <3> QED  BY <2>2, <2>5, <3>1, <3>3
  <2> QED  BY <2>2, <2>3, <2>4, <2>5
<1>5. new \in Flash
  <2>1. new = [u \in Unit |-> new[u]]
    BY <1>1
  <2> QED  BY <1>4, <2>1 DEF Flash
<1> QED  BY <1>4, <1>5

(* ... and the device good.                                                *)
LEMMA Settles ==
  ASSUME NEW d, Good(d), NEW a, NEW taken, AgesWell(a, taken), NEW r, r = Later(d, a, taken)
  PROVE  /\ Good(r)
         /\ \A b \in Address : Where(r, b) = Where(d, b)
         /\ \A m \in Logical : UserAt(r, m) = Aged(a, taken, UserAt(d, m))
<1>1. r.nor = Settled(d.nor, a, taken) /\ r.ftl = d.ftl /\ r.steps = << >>
  BY DEF Later
<1>2. d \in Device /\ d.nor \in Flash /\ d.ftl \in Ftl /\ Sectors(d)
  BY DEF Good, Device
<1>3. /\ r.nor \in Flash
      /\ \A u \in Unit : /\ r.nor[u].info = d.nor[u].info
                         /\ \A i \in Index :
                              /\ r.nor[u].block[i].map = d.nor[u].block[i].map
                              /\ r.nor[u].block[i].user = Aged(a, taken, d.nor[u].block[i].user)
                         /\ d.nor[u] = Kept => r.nor[u] = Kept
  BY <1>1, <1>2, SettledFlash
<1>4. r \in Device
  <2>1. << >> \in Seq(Step)
    OBVIOUS
  <2>2. r = [nor |-> r.nor, ftl |-> r.ftl, steps |-> r.steps]
    BY DEF Later
  <2> QED  BY <1>1, <1>2, <1>3, <2>1, <2>2 DEF Device
<1>5. Sectors(r)
  BY <1>1, <1>2 DEF Sectors
<1>6. Headers(r)
  <2>1. Headers(d) /\ d.ftl.reclaim \in Unit /\ \A s \in Sector : d.ftl.sector_table[s] \in Unit
    BY <1>2 DEF Good, Sectors
  <2> QED  BY <1>1, <1>3, <2>1 DEF Headers
<1>7. ASSUME NEW m \in Logical
      PROVE  /\ InfoAt(r, m) = InfoAt(d, m) /\ MapAt(r, m) = MapAt(d, m)
             /\ UserAt(r, m) = Aged(a, taken, UserAt(d, m))
  <2>1. /\ UnitOf(d, m) \in Unit /\ m[2] \in Index
        /\ InfoAt(d, m) = d.nor[UnitOf(d, m)].info[m[2]]
        /\ MapAt(d, m) = d.nor[UnitOf(d, m)].block[m[2]].map
        /\ UserAt(d, m) = d.nor[UnitOf(d, m)].block[m[2]].user
    BY <1>2, Seen
  <2>2. /\ InfoAt(r, m) = r.nor[UnitOf(r, m)].info[m[2]]
        /\ MapAt(r, m) = r.nor[UnitOf(r, m)].block[m[2]].map
        /\ UserAt(r, m) = r.nor[UnitOf(r, m)].block[m[2]].user
    BY <1>4, <1>5, Seen
  <2>3. UnitOf(r, m) = UnitOf(d, m)
    BY <1>1 DEF UnitOf
  <2> QED  BY <1>3, <2>1, <2>2, <2>3
<1>8. \A seg \in Segments :
        /\ MapAt(r, d.ftl.xlate_table[seg]) = MapAt(d, d.ftl.xlate_table[seg])
        /\ MapAt(r, d.ftl.xlate2_table[seg]) = MapAt(d, d.ftl.xlate2_table[seg])
  <2>1. MapAt(r, NotAllocated) = MapAt(d, NotAllocated)
    BY NotSeen
  <2> QED  BY <1>7, <2>1, TablesHold
<1>9. \A b \in Address : ~Direct(b) => Primary(r, b) = Primary(d, b) /\ Secondary(r, b) = Secondary(d, b)
  BY <1>1, <1>8, Entered DEF Primary, Secondary
<1>10. \A b \in Address : Where(r, b) = Where(d, b)
  BY <1>1, <1>9 DEF Where
<1>11. Blanks(r)
  BY <1>7 DEF Good, Blanks, AgesWell
<1>12. \A l \in Logical : Used(r, l)
  BY <1>1, <1>7, <1>10 DEF Good, Used
<1>13. \A seg \in Segments : TableEntry(r, seg)
  BY <1>1, <1>7 DEF Good, TableEntry
<1>14. \A b \in Address : AddressEntry(r, b)
  BY <1>1, <1>7, <1>9, <1>10 DEF Good, AddressEntry
<1>15. Counted(r, NotAllocated)
  <2>1. Free(r, NotAllocated) = Free(d, NotAllocated)
    BY <1>7 DEF Free
  <2> QED  BY <1>1, <2>1 DEF Good, Counted
<1>16. Scored(r)
  <2>1. \A s \in Sector : Dead(r, s) = Dead(d, s)
    BY <1>7, DeadIs
  <2> QED  BY <1>1, <2>1 DEF Good, Scored
<1>17. Cached(r) /\ Cached2(r)
  BY <1>1, <1>7 DEF Good, Cached, Cached2
<1>18. Good(r)
  BY <1>4, <1>5, <1>6, <1>11, <1>12, <1>13, <1>14, <1>15, <1>16, <1>17 DEF Good
<1> QED  BY <1>7, <1>10, <1>18
-----------------------------------------------------------------------------
(* Discarding.                                                             *)

(* The entry of address a that translated it to block l says that there is  *)
(* none any more.                                                          *)
Unentered(q, w, a, l, lx) ==
  /\ w \in Device /\ SameTables(q, w) /\ SameAlloc(q, w) /\ w.ftl.score = q.ftl.score
  /\ \A m \in Logical : m # l /\ m # lx => SameAt(q, w, m)
  /\ InfoAt(w, lx) = InfoAt(q, lx) /\ UserAt(w, lx) = UserAt(q, lx)
  /\ MapAt(w, lx) = Altered(MapAt(q, lx), XlateIndex(a), Deleted)
  /\ \A u \in Unit : w.nor[u].info[0] = q.nor[u].info[0]
  /\ w.nor[q.ftl.reclaim] = q.nor[q.ftl.reclaim]
  /\ Sticks(w) <=> Sticks(q)

(* Address a is not translated any more.                                   *)
Forgotten(q, r, a) ==
  /\ Good(r) /\ Where(r, a) \in {NotAllocated, Deleted}
  /\ \A b \in Address \ {a} :
       /\ Where(r, b) = Where(q, b)
       /\ Where(q, b) \in Logical => UserAt(r, Where(q, b)) = UserAt(q, Where(q, b))
  /\ Sticks(r) <=> Sticks(q)

(* An address whose entry is deleted, and then its block, is forgotten.    *)
LEMMA Unmaps ==
  ASSUME NEW q, Good(q), NEW a \in Address, ~Direct(a), NEW l \in Logical, l = Where(q, a),
         NEW w, Cached(w), Cached2(w), NEW lx,
         lx = (IF Primary(q, a) = Deleted THEN q.ftl.xlate2_table[Segment(a)]
                                         ELSE q.ftl.xlate_table[Segment(a)]),
         Unentered(q, w, a, l, lx), NEW r, r = Delete(w, "delete", l)
  PROVE  Forgotten(q, r, a)
<1> DEFINE seg == Segment(a)
           e == XlateIndex(a)
           l1 == q.ftl.xlate_table[seg]
           l2 == q.ftl.xlate2_table[seg]
<1>1. Almost(q) /\ Counted(q, NotAllocated) /\ "delete" \in StepName
  BY DEF Good, Almost, StepName
<1>2. /\ seg \in Segments /\ e \in Entry
      /\ l1 \in Logical \cup {NotAllocated} /\ l2 \in Logical \cup {NotAllocated}
      /\ l1 # NotAllocated => InfoAt(q, l1) = Info(XLATE, seg)
      /\ l2 # NotAllocated => InfoAt(q, l2) = Info(XLATE_SECONDARY, seg)
      /\ l1 # NotAllocated => l1 # l2
      /\ MapAt(q, l1) \in [Entry -> Content] /\ MapAt(q, l2) \in [Entry -> Content]
      /\ Primary(q, a) = MapAt(q, l1)[e]
      /\ Secondary(q, a) = MapAt(q, l2)[e]
  BY <1>1, Holders
<1>3. AddressEntry(q, a) /\ TableEntry(q, seg)
  BY <1>1, <1>2 DEF Almost
<1>4. InfoAt(q, l) = Info(DATA_COMMITTED, a) /\ l # NotAllocated /\ l # Deleted
  BY <1>3, Logicals DEF AddressEntry
<1>5. /\ lx = IF Primary(q, a) = Deleted THEN l2 ELSE l1
      /\ l1 = q.ftl.xlate_table[seg] /\ l2 = q.ftl.xlate2_table[seg]
      /\ MapAt(w, lx) = Altered(MapAt(q, lx), e, Deleted)
  BY DEF Unentered
<1>6. /\ w \in Device /\ SameTables(q, w) /\ SameAlloc(q, w) /\ w.ftl.score = q.ftl.score
      /\ \A m \in Logical : m # l /\ m # lx => SameAt(q, w, m)
      /\ InfoAt(w, lx) = InfoAt(q, lx) /\ UserAt(w, lx) = UserAt(q, lx)
      /\ \A u \in Unit : w.nor[u].info[0] = q.nor[u].info[0]
      /\ w.nor[q.ftl.reclaim] = q.nor[q.ftl.reclaim]
      /\ Sticks(w) <=> Sticks(q)
  BY DEF Unentered
<1>7. seg = Segment(a) /\ e = XlateIndex(a)
  OBVIOUS
<1> HIDE DEF seg, e, l1, l2
<1>8. MapAt(q, NotAllocated) = BlankMap /\ BlankMap[e] = NotAllocated
      /\ MapAt(w, NotAllocated) = BlankMap /\ MapAt(r, NotAllocated) = BlankMap
  BY <1>2, NotSeen, BlankEntries
<1>9. lx \in Logical /\ l1 \in Logical
  <2>1. CASE Primary(q, a) = Deleted
    <3>1. Secondary(q, a) # NotAllocated
      BY <1>4, <2>1 DEF Where
    <3>2. l2 # NotAllocated
      BY <1>2, <1>8, <3>1
    <3>3. l1 # NotAllocated
      BY <1>2, <1>3, <1>5, <3>2 DEF TableEntry
    <3> QED  BY <1>2, <1>5, <2>1, <3>2, <3>3
  <2>2. CASE Primary(q, a) # Deleted
    <3>1. Primary(q, a) = l
      BY <2>2 DEF Where
    <3>2. l1 # NotAllocated
      BY <1>2, <1>4, <1>8, <3>1
    <3> QED  BY <1>2, <1>5, <2>2, <3>2
  <2> QED  BY <2>1, <2>2
<1>10. l # l1 /\ l # l2 /\ l1 # l2 /\ l # lx
  BY <1>2, <1>4, <1>5, <1>9, InfoFields, Distinct, Logicals
<1>11. Sectors(w)
  BY <1>1, <1>6 DEF Almost, Sectors, SameTables
<1>12. /\ r \in Device /\ Spared(w, r, l)
       /\ SameTables(w, r) /\ SameCache(w, r) /\ SameCache2(w, r) /\ SameAlloc(w, r)
       /\ r.ftl.score = [w.ftl.score EXCEPT ![l[1]] = OneMore(@)]
       /\ InfoAt(r, l) = Info(DELETED, -1) /\ MapAt(r, l) = BlankMap /\ UserAt(r, l) = Stale
       /\ Sticks(r) <=> Sticks(w)
  BY SMTT(30), <1>1, <1>6, <1>11, Deletes
<1>13. /\ SameTables(q, r) /\ SameAlloc(q, r)
       /\ r.ftl.score = [q.ftl.score EXCEPT ![l[1]] = OneMore(@)]
       /\ \A u \in Unit : r.nor[u].info[0] = q.nor[u].info[0]
       /\ r.nor[q.ftl.reclaim] = q.nor[q.ftl.reclaim]
       /\ Sticks(r) <=> Sticks(q)
  BY SMTT(30), <1>6, <1>12 DEF SameTables, SameAlloc, Spared
<1>14. /\ \A m \in Logical : m # l => SameAt(w, r, m)
       /\ \A m \in Logical : m # l /\ m # lx => SameAt(q, r, m)
       /\ InfoAt(r, lx) = InfoAt(q, lx) /\ UserAt(r, lx) = UserAt(q, lx)
       /\ MapAt(r, lx) = Altered(MapAt(q, lx), e, Deleted)
  BY SMTT(30), <1>5, <1>6, <1>9, <1>10, <1>12 DEF Spared, SameAt
<1>15. /\ MapAt(r, lx)[e] = Deleted
       /\ \A f \in Entry : f # e => MapAt(r, lx)[f] = MapAt(q, lx)[f]
  <2>1. MapAt(q, lx) \in [Entry -> Content]
    BY <1>2, <1>5
  <2> QED  BY <1>2, <1>14, <2>1, Alters
<1>16. /\ l1 # lx => MapAt(r, l1) = MapAt(q, l1)
       /\ l2 # lx => MapAt(r, l2) = MapAt(q, l2)
  BY SMTT(30), <1>2, <1>8, <1>9, <1>10, <1>14 DEF SameAt
<1>17. Moved(q, r, a, NotAllocated, l)
  <2>1. \A f \in Entry : f # e => /\ MapAt(r, l1)[f] = MapAt(q, l1)[f]
                                  /\ MapAt(r, l2)[f] = MapAt(q, l2)[f]
    BY <1>5, <1>15, <1>16
  <2>2. \A m \in Logical : m # NotAllocated /\ m # l =>
          /\ InfoAt(r, m) = InfoAt(q, m) /\ UserAt(r, m) = UserAt(q, m)
          /\ m # l1 /\ m # l2 => MapAt(r, m) = MapAt(q, m)
    BY <1>5, <1>14 DEF SameAt
  <2> QED  BY SMTT(30), <1>5, <1>7, <1>12, <1>13, <2>1, <2>2 DEF Moved
<1>18. /\ \A b \in Address : b # a =>
            /\ Direct(b) => r.ftl.block_table[b] = q.ftl.block_table[b]
            /\ ~Direct(b) => Primary(r, b) = Primary(q, b) /\ Secondary(r, b) = Secondary(q, b)
       /\ \A m \in Logical : m # NotAllocated /\ m # l =>
            /\ InfoAt(r, m) = InfoAt(q, m) /\ UserAt(r, m) = UserAt(q, m)
            /\ ~InfoAt(q, m).written => MapAt(r, m) = MapAt(q, m)
  BY <1>1, <1>4, <1>17, Moves, Logicals
<1>19. Primary(r, a) = MapAt(r, l1)[e] /\ Secondary(r, a) = MapAt(r, l2)[e]
  BY <1>5, <1>7, <1>13 DEF Primary, Secondary, SameTables
<1>20. /\ Primary(r, a) = Deleted
       /\ Secondary(r, a) \in {NotAllocated, Deleted}
  <2>3. Primary(q, a) = MapAt(q, l1)[e] /\ Secondary(q, a) = MapAt(q, l2)[e]
    BY Zenon, <1>2
  <2>4. lx = IF Primary(q, a) = Deleted THEN l2 ELSE l1
    BY Zenon, <1>5
  <2>5. l1 # l2
    BY Zenon, <1>10
  <2>1. CASE Primary(q, a) = Deleted
    <3>1. lx = l2
      BY <2>1, <2>4
    <3>2. MapAt(r, l2)[e] = Deleted /\ MapAt(r, l1) = MapAt(q, l1)
      BY <1>15, <1>16, <2>5, <3>1
    <3> QED  BY <1>19, <2>1, <2>3, <3>2
  <2>2. CASE Primary(q, a) # Deleted
    <3>1. Secondary(q, a) = NotAllocated
      BY <1>3, <2>2 DEF AddressEntry
    <3>2. lx = l1
      BY <2>2, <2>4
    <3>3. MapAt(r, l1)[e] = Deleted /\ MapAt(r, l2) = MapAt(q, l2)
      BY <1>15, <1>16, <2>5, <3>2
    <3> QED  BY <1>19, <2>3, <3>1, <3>3
  <2> QED  BY <2>1, <2>2
<1>21. Where(r, a) \in {NotAllocated, Deleted}
  BY <1>20 DEF Where
<1>22. Translated(q, r, a)
  BY <1>13, <1>18, <1>20 DEF Translated, SameTables, Named
<1>23. Replaced(q, r, a, NotAllocated, l)
  BY <1>4, <1>12, <1>13, <1>18, <1>21 DEF Replaced
<1>24. ASSUME NEW m, \E s \in Segments : m = q.ftl.xlate_table[s] \/ m = q.ftl.xlate2_table[s],
              m \in Logical
       PROVE  MapAt(r, m) = MapAt(w, m)
  <2>1. m # l
    BY <1>1, <1>4, <1>24, InfoFields, Distinct, Logicals DEF Almost, TableEntry
  <2> QED  BY <1>14, <1>24, <2>1 DEF SameAt
<1>25. Cached(r)
  BY <1>6, <1>12, <1>24 DEF Cached, SameCache, SameTables
<1>26. Cached2(r)
  BY <1>6, <1>12, <1>24 DEF Cached2, SameCache2, SameTables
<1>27. /\ Good(r)
       /\ \A b \in Address \ {a} :
            /\ Where(r, b) = Where(q, b)
            /\ Where(q, b) \in Logical => UserAt(r, Where(q, b)) = UserAt(q, Where(q, b))
  BY <1>1, <1>12, <1>13, <1>22, <1>23, <1>25, <1>26, Retranslates
<1> QED  BY <1>13, <1>21, <1>27 DEF Forgotten

Unmapped2(z, e) ==
  WriteEntry(WithEntry2(z, e, Deleted), "unmap", z.ftl.xlate2_logical, e, Deleted)

(* Trim, written with the operators used here.                             *)
LEMMA TrimIs ==
  ASSUME NEW x, NEW a, NEW l, NEW y, y = LoadXlate(x, Segment(a)), NEW e, e = XlateIndex(a),
         NEW z, z = LoadXlate2(y, Segment(a))
  PROVE  Trim(x, a, l) = Delete(IF y.ftl.xlate_cache[e] # Deleted THEN Unmapped(y, e)
                                ELSE IF y.ftl.xlate2_table[Segment(a)] = NotAllocated THEN y
                                ELSE Unmapped2(z, e), "delete", l)
BY DEF Trim, Unmapped, Unmapped2, WithEntry, WithEntry2

(* A block whose discard was begun, whatever is loaded into the caches.     *)
Doomed(q, y, l) ==
  /\ y \in Device /\ Sectors(y) /\ SameTables(q, y) /\ SameAlloc(q, y)
  /\ y.ftl.score = q.ftl.score
  /\ \A m \in Logical : m # l => SameAt(q, y, m)
  /\ \A u \in Unit : y.nor[u].info[0] = q.nor[u].info[0]
  /\ y.nor[q.ftl.reclaim] = q.nor[q.ftl.reclaim]
  /\ Sticks(y) <=> Sticks(q)
  /\ Cached(y) /\ Cached2(y)

(* Loading the caches leaves a doomed block doomed.                        *)
LEMMA DoomedStill ==
  ASSUME NEW q, NEW x, NEW y, NEW l \in Logical, Doomed(q, x, l),
         y \in Device, SameFlash(x, y), SameTables(x, y), SameAlloc(x, y),
         y.ftl.score = x.ftl.score, Cached(y), Cached2(y)
  PROVE  Doomed(q, y, l)
<1>1. (\A m : SameAt(x, y, m)) /\ (Sticks(y) <=> Sticks(x))
  BY SameViews DEF SameTables
<1>2. Sectors(y) /\ SameTables(q, y) /\ SameAlloc(q, y) /\ y.ftl.score = q.ftl.score
  BY DEF Doomed, Sectors, SameTables, SameAlloc
<1>3. \A m \in Logical : m # l => SameAt(q, y, m)
  BY <1>1 DEF Doomed, SameAt
<1> QED  BY <1>1, <1>2, <1>3 DEF Doomed, SameFlash

(* dosfs_sflash_ftl_trim forgets the address, ...                          *)
LEMMA Trims ==
  ASSUME NEW q, Good(q), NEW a \in Address, ~Direct(a), NEW l \in Logical, l = Where(q, a),
         NEW x, x = InfoType(q, "discard", l, DATA_DELETED),
         NEW r, r = Trim(x, a, l)
  PROVE  Forgotten(q, r, a)
<1> DEFINE seg == Segment(a)
           e == XlateIndex(a)
           l1 == q.ftl.xlate_table[seg]
           l2 == q.ftl.xlate2_table[seg]
           y == LoadXlate(x, seg)
           z == LoadXlate2(y, seg)
           lx == IF Primary(q, a) = Deleted THEN l2 ELSE l1
<1>1. Almost(q) /\ "discard" \in StepName /\ "unmap" \in StepName /\ q \in Device /\ Sectors(q)
  BY DEF Good, Almost, StepName
<1>2. /\ seg \in Segments /\ e \in Entry
      /\ l1 \in Logical \cup {NotAllocated} /\ l2 \in Logical \cup {NotAllocated}
      /\ l1 # NotAllocated => InfoAt(q, l1) = Info(XLATE, seg)
      /\ l2 # NotAllocated => InfoAt(q, l2) = Info(XLATE_SECONDARY, seg)
      /\ l1 # NotAllocated => l1 # l2
      /\ MapAt(q, l1) \in [Entry -> Content] /\ MapAt(q, l2) \in [Entry -> Content]
      /\ Primary(q, a) = MapAt(q, l1)[e]
      /\ Secondary(q, a) = MapAt(q, l2)[e]
  BY <1>1, Holders
<1>3. AddressEntry(q, a) /\ TableEntry(q, seg)
  BY <1>1, <1>2 DEF Almost
<1>4. InfoAt(q, l) = Info(DATA_COMMITTED, a) /\ l # NotAllocated /\ l # Deleted
  BY <1>3, Logicals DEF AddressEntry
<1>5. /\ seg = Segment(a) /\ e = XlateIndex(a) /\ y = LoadXlate(x, seg) /\ z = LoadXlate2(y, seg)
      /\ l1 = q.ftl.xlate_table[seg] /\ l2 = q.ftl.xlate2_table[seg]
      /\ lx = IF Primary(q, a) = Deleted THEN l2 ELSE l1
  OBVIOUS
<1> HIDE DEF seg, e, l1, l2, y, z, lx
<1>6. BlankMap[e] = NotAllocated /\ MapAt(q, NotAllocated) = BlankMap
  BY <1>2, BlankEntries, NotSeen
<1>7. l1 \in Logical /\ lx \in Logical
  <2>1. CASE Primary(q, a) = Deleted
    <3>1. Secondary(q, a) # NotAllocated
      BY <1>4, <2>1 DEF Where
    <3>2. l2 # NotAllocated
      BY <1>2, <1>6, <3>1
    <3>3. l1 # NotAllocated
      BY <1>2, <1>3, <1>5, <3>2 DEF TableEntry
    <3> QED  BY <1>2, <1>5, <2>1, <3>2, <3>3
  <2>2. CASE Primary(q, a) # Deleted
    <3>1. Primary(q, a) = l
      BY <2>2 DEF Where
    <3>2. l1 # NotAllocated
      BY <1>2, <1>4, <1>6, <3>1
    <3> QED  BY <1>2, <1>5, <2>2, <3>2
  <2> QED  BY <2>1, <2>2
<1>8. l # l1 /\ l # l2 /\ l # lx
  BY <1>2, <1>4, <1>5, <1>7, InfoFields, Distinct, Logicals
<1>9. Doomed(q, x, l)
  <2>1. DATA_DELETED \subseteq InfoAt(q, l).type
    BY <1>4, InfoFields DEF DATA_DELETED, DATA_COMMITTED
  <2> DEFINE type == DATA_DELETED
  <2>2. type \in SUBSET (0..3) /\ type # DELETED
    BY Types DEF DATA_DELETED, DELETED
  <2>3. type \subseteq InfoAt(q, l).type /\ x = InfoType(q, "discard", l, type)
    BY <2>1
  <2> HIDE DEF type
  <2>4. Touched(q, x, l) /\ MapAt(x, l) = MapAt(q, l) /\ (Sticks(x) <=> Sticks(q))
    BY <1>1, <2>2, <2>3, TypeNarrowed
  <2>5. /\ x \in Device /\ x.ftl = q.ftl /\ (\A m \in Logical : m # l => SameAt(q, x, m))
        /\ \A u \in Unit : x.nor[u].info[0] = q.nor[u].info[0]
        /\ x.nor[q.ftl.reclaim] = q.nor[q.ftl.reclaim]
    BY <2>4 DEF Touched
  <2>6. Sectors(x) /\ SameTables(q, x) /\ SameAlloc(q, x) /\ x.ftl.score = q.ftl.score
    BY <1>1, <2>5 DEF Sectors, SameTables, SameAlloc
  <2>7. \A m \in Logical : MapAt(x, m) = MapAt(q, m)
    BY <2>4, <2>5 DEF SameAt
  <2>8. Cached(x) /\ Cached2(x)
    BY <2>5, <2>7 DEF Good, Cached, Cached2
  <2> QED  BY <2>4, <2>5, <2>6, <2>8 DEF Doomed
<1>10. /\ Doomed(q, y, l)
       /\ y.ftl.xlate_logical = l1 /\ y.ftl.xlate_cache = MapAt(q, l1)
  <2>1. x \in Device /\ Sectors(x) /\ Cached(x) /\ x.ftl.xlate_table[seg] \in Logical
        /\ x.ftl.xlate_table = q.ftl.xlate_table
    BY <1>5, <1>7, <1>9 DEF Doomed, SameTables
  <2>2. /\ y \in Device /\ SameFlash(x, y) /\ SameTables(x, y) /\ SameCache2(x, y)
        /\ SameAlloc(x, y) /\ y.ftl.score = x.ftl.score
        /\ y.ftl.xlate_logical = x.ftl.xlate_table[seg]
        /\ y.ftl.xlate_cache = MapAt(x, x.ftl.xlate_table[seg])
        /\ (\A m : SameAt(x, y, m)) /\ Cached(y)
    BY <1>2, <1>5, <2>1, XlateCached
  <2>3. Cached2(y)
    BY <1>9, <2>2 DEF Doomed, Cached2, SameCache2, SameTables, SameAt
  <2>4. Doomed(q, y, l)
    BY <1>9, <2>2, <2>3, DoomedStill
  <2>5. MapAt(x, l1) = MapAt(q, l1)
    BY <1>7, <1>8, <1>9 DEF Doomed, SameAt
  <2> QED  BY <1>5, <2>1, <2>2, <2>4, <2>5
<1>11. MapAt(y, l1) = MapAt(q, l1) /\ SameTables(q, y)
  BY <1>7, <1>8, <1>10 DEF Doomed, SameAt
<1>12. r = Delete(IF y.ftl.xlate_cache[e] # Deleted THEN Unmapped(y, e)
                  ELSE IF y.ftl.xlate2_table[seg] = NotAllocated THEN y
                  ELSE Unmapped2(z, e), "delete", l)
  BY <1>5, TrimIs
<1>13. Deleted \in Named
  BY DEF Named
<1>14. CASE Primary(q, a) # Deleted
  <2> DEFINE w == Unmapped(y, e)
  <2>1. lx = l1 /\ r = Delete(w, "delete", l)
    BY <1>2, <1>5, <1>10, <1>12, <1>14
  <2>2. w = WriteEntry(WithEntry(y, e, Deleted), "unmap", l1, e, Deleted)
    BY <1>10 DEF Unmapped
  <2> HIDE DEF w
  <2>3. y \in Device /\ Sectors(y) /\ y.ftl.xlate_logical = l1 /\ y.ftl.xlate_cache = MapAt(y, l1)
        /\ (MapAt(y, l1)[e] = NotAllocated \/ Deleted = Deleted)
    BY <1>10, <1>11 DEF Doomed
  <2>4. /\ w \in Device /\ Spared(y, w, l1) /\ (Sticks(w) <=> Sticks(y))
        /\ SameTables(y, w) /\ SameCache2(y, w) /\ SameAlloc(y, w) /\ w.ftl.score = y.ftl.score
        /\ w.ftl.xlate_logical = l1 /\ w.ftl.xlate_cache = MapAt(w, l1)
        /\ InfoAt(w, l1) = InfoAt(y, l1) /\ UserAt(w, l1) = UserAt(y, l1)
        /\ MapAt(w, l1) = Altered(MapAt(y, l1), e, Deleted)
    BY SMTT(30), <1>1, <1>2, <1>7, <1>13, <2>2, <2>3, EntryMapped
  <2>5. Unentered(q, w, a, l, lx)
    <3>1. /\ \A m \in Logical : m # l /\ m # l1 => SameAt(q, w, m)
          /\ InfoAt(w, l1) = InfoAt(q, l1) /\ UserAt(w, l1) = UserAt(q, l1)
      BY <1>7, <1>8, <1>10, <2>4 DEF Doomed, Spared, SameAt
    <3>2. /\ \A u \in Unit : w.nor[u].info[0] = q.nor[u].info[0]
          /\ w.nor[q.ftl.reclaim] = q.nor[q.ftl.reclaim]
          /\ Sticks(w) <=> Sticks(q)
      BY <1>10, <2>4 DEF Doomed, Spared, SameTables
    <3>3. SameTables(q, w) /\ SameAlloc(q, w) /\ w.ftl.score = q.ftl.score
      BY <1>10, <2>4 DEF Doomed, SameTables, SameAlloc
    <3> QED  BY <1>5, <1>11, <2>1, <2>4, <3>1, <3>2, <3>3 DEF Unentered
  <2>6. Cached(w)
    BY <1>2, <1>5, <1>7, <1>11, <2>4 DEF Cached, SameTables
  <2>7. Cached2(w)
    <3>1. \A s \in Segments : y.ftl.xlate2_table[s] \in Logical => y.ftl.xlate2_table[s] # l1
      BY <1>1, <1>2, <1>7, <1>11, InfoFields, Distinct, Logicals DEF Almost, TableEntry, SameTables
    <3> QED  BY <1>10, <2>4, <3>1 DEF Doomed, Cached2, SameCache2, SameTables, Spared, SameAt
  <2>8. lx = IF Primary(q, a) = Deleted THEN q.ftl.xlate2_table[Segment(a)]
                                        ELSE q.ftl.xlate_table[Segment(a)]
    BY <1>5
  <2> QED  BY <2>1, <2>5, <2>6, <2>7, <2>8, Unmaps
<1>15. CASE Primary(q, a) = Deleted
  <2> DEFINE w == Unmapped2(z, e)
  <2>1. lx = l2 /\ l2 \in Logical
    BY <1>5, <1>7, <1>15
  <2>2. r = Delete(w, "delete", l)
    <3>1. y.ftl.xlate_cache[e] = Deleted
      BY <1>2, <1>10, <1>15
    <3>2. y.ftl.xlate2_table[seg] # NotAllocated
      BY <1>5, <1>11, <2>1, Logicals DEF SameTables
    <3> QED  BY <1>12, <3>1, <3>2
  <2>3. /\ z \in Device /\ SameFlash(y, z) /\ SameTables(y, z) /\ SameCache(y, z)
        /\ SameAlloc(y, z) /\ z.ftl.score = y.ftl.score
        /\ z.ftl.xlate2_logical = l2 /\ z.ftl.xlate2_cache = MapAt(y, l2)
        /\ (\A m : SameAt(y, z, m)) /\ Cached2(z)
    <3>1. y \in Device /\ Sectors(y) /\ Cached2(y) /\ y.ftl.xlate2_table[seg] = l2
          /\ y.ftl.xlate2_table[seg] \in Logical
      BY <1>5, <1>10, <1>11, <2>1 DEF Doomed, SameTables
    <3> QED  BY <1>2, <1>5, <3>1, Xlate2Cached
  <2>4. Cached(z)
    BY <1>10, <2>3 DEF Doomed, Cached, SameCache, SameTables, SameAt
  <2>5. Doomed(q, z, l)
    BY <1>10, <2>3, <2>4, DoomedStill
  <2>6. /\ z.ftl.xlate2_cache = MapAt(z, l2) /\ MapAt(z, l2) = MapAt(q, l2) /\ SameTables(q, z)
        /\ z.ftl.xlate_logical = l1
    BY <1>8, <1>10, <2>1, <2>3, <2>5 DEF Doomed, SameAt, SameCache
  <2>7. w = WriteEntry(WithEntry2(z, e, Deleted), "unmap", l2, e, Deleted)
    BY <2>3 DEF Unmapped2
  <2> HIDE DEF w
  <2>8. z \in Device /\ Sectors(z) /\ z.ftl.xlate2_logical = l2 /\ z.ftl.xlate2_cache = MapAt(z, l2)
        /\ (MapAt(z, l2)[e] = NotAllocated \/ Deleted = Deleted)
    BY <2>3, <2>5, <2>6 DEF Doomed
  <2>9. /\ w \in Device /\ Spared(z, w, l2) /\ (Sticks(w) <=> Sticks(z))
        /\ SameTables(z, w) /\ SameCache(z, w) /\ SameAlloc(z, w) /\ w.ftl.score = z.ftl.score
        /\ w.ftl.xlate2_logical = l2 /\ w.ftl.xlate2_cache = MapAt(w, l2)
        /\ InfoAt(w, l2) = InfoAt(z, l2) /\ UserAt(w, l2) = UserAt(z, l2)
        /\ MapAt(w, l2) = Altered(MapAt(z, l2), e, Deleted)
    BY SMTT(30), <1>1, <1>2, <1>13, <2>1, <2>7, <2>8, Entry2Mapped
  <2>10. Unentered(q, w, a, l, lx)
    <3>1. /\ \A m \in Logical : m # l /\ m # l2 => SameAt(q, w, m)
          /\ InfoAt(w, l2) = InfoAt(q, l2) /\ UserAt(w, l2) = UserAt(q, l2)
      BY <1>8, <2>1, <2>5, <2>9 DEF Doomed, Spared, SameAt
    <3>2. /\ \A u \in Unit : w.nor[u].info[0] = q.nor[u].info[0]
          /\ w.nor[q.ftl.reclaim] = q.nor[q.ftl.reclaim]
          /\ Sticks(w) <=> Sticks(q)
      BY <2>5, <2>9 DEF Doomed, Spared, SameTables
    <3>3. SameTables(q, w) /\ SameAlloc(q, w) /\ w.ftl.score = q.ftl.score
      BY <2>5, <2>9 DEF Doomed, SameTables, SameAlloc
    <3> QED  BY <1>5, <2>1, <2>6, <2>9, <3>1, <3>2, <3>3 DEF Unentered
  <2>11. Cached2(w)
    BY <1>2, <1>5, <2>1, <2>6, <2>9 DEF Cached2, SameTables
  <2>12. Cached(w)
    <3>1. l1 # l2
      BY <1>2, <1>7, Logicals
    <3> QED  BY <1>7, <2>4, <2>6, <2>9, <3>1 DEF Cached, SameCache, SameTables, Spared, SameAt
  <2>13. lx = IF Primary(q, a) = Deleted THEN q.ftl.xlate2_table[Segment(a)]
                                         ELSE q.ftl.xlate_table[Segment(a)]
    BY <1>5
  <2> QED  BY <2>1, <2>2, <2>10, <2>11, <2>12, <2>13, Unmaps
<1> QED  BY <1>14, <1>15

(* ... and so does dosfs_sflash_ftl_discard.                               *)
LEMMA Discards ==
  ASSUME NEW d, Good(d), NEW a \in Address, ~Direct(a), NEW r, r = DiscardBlock(d, a)
  PROVE  Forgotten(d, r, a)
<1> DEFINE q == Loaded(d, a)
<1>1. /\ Lookup(d, a) = Where(d, a) /\ Good(q) /\ SameData(d, q) /\ (Sticks(q) <=> Sticks(d))
  BY Finds
<1>2. Where(d, a) \in Named
  BY TablesHold
<1>3. r = IF Where(d, a) \in {NotAllocated, Deleted} THEN q
          ELSE Trim(InfoType(q, "discard", Where(d, a), DATA_DELETED), a, Where(d, a))
  BY <1>1 DEF DiscardBlock
<1> HIDE DEF q
<1>4. CASE Where(d, a) \in {NotAllocated, Deleted}
  BY <1>1, <1>3, <1>4 DEF SameData, Forgotten
<1>5. CASE Where(d, a) \notin {NotAllocated, Deleted}
  <2> DEFINE l == Where(d, a)
             x == InfoType(q, "discard", l, DATA_DELETED)
  <2>1. l \in Logical /\ l = Where(q, a)
    BY <1>1, <1>2, <1>5 DEF Named, SameData
  <2>2. x = InfoType(q, "discard", l, DATA_DELETED) /\ r = Trim(x, a, l)
    BY <1>3, <1>5
  <2> HIDE DEF l, x
  <2>3. Forgotten(q, r, a)
    BY <1>1, <2>1, <2>2, Trims
  <2> QED  BY <1>1, <2>3 DEF Forgotten, SameData
<1> QED  BY <1>4, <1>5
-----------------------------------------------------------------------------
(* Reclaiming.                                                             *)

(* What the unit that is copied to holds in the end: the live blocks of     *)
(* the victim.                                                             *)
Rescued(victim, s, type, live) ==
  [info |-> [i \in 0..Blocks - 1 |-> IF i = 0 THEN Info(type, s)
                                     ELSE IF i \in live THEN victim.info[i] ELSE BlankInfo],
   block |-> [i \in Index |-> IF i \in live THEN victim.block[i] ELSE BlankBlock]]

(* The unit that is kept for a reclaim.                                    *)
LEMMA KeptImage ==
  /\ Kept \in UnitImage /\ Blank \in UnitImage
  /\ Kept.info[0] = Info(RESERVED, -1) /\ \A i \in Index : Kept.info[i] = BlankInfo
  /\ Kept.block = [i \in Index |-> BlankBlock]
<1>1. /\ 0 \in 0..Blocks - 1 /\ Index \subseteq 0..Blocks - 1 /\ 0 \notin Index
  BY GeometryAssumption DEF Index
<1>2. Blank = [info |-> [i \in 0..Blocks - 1 |-> BlankInfo], block |-> [i \in Index |-> BlankBlock]]
  BY DEF Blank
<1>3. Blank \in UnitImage
  BY <1>2, Images DEF UnitImage
<1>4. Info(RESERVED, -1) \in InfoWord
  BY Images, Types
<1>5. Kept = [info |-> [Blank.info EXCEPT ![0] = Info(RESERVED, -1)], block |-> Blank.block]
  <2>1. Blank = [info |-> Blank.info, block |-> Blank.block]
    BY <1>2
  <2> QED  BY <2>1 DEF Kept
<1>6. Kept \in UnitImage
  BY <1>3, <1>4, <1>5 DEF UnitImage
<1>7. /\ Kept.info[0] = Info(RESERVED, -1) /\ \A i \in Index : Kept.info[i] = BlankInfo
      /\ Kept.block = [i \in Index |-> BlankBlock]
  BY <1>1, <1>2, <1>5
<1> QED  BY <1>3, <1>6, <1>7

(* What the victim's live blocks become in it.                             *)
LEMMA RescuedImage ==
  ASSUME NEW victim \in UnitImage, NEW s \in Sector, NEW type \in SUBSET (0..3), NEW live
  PROVE  /\ Rescued(victim, s, type, live) \in UnitImage
         /\ Rescued(victim, s, type, live).info[0] = Info(type, s)
         /\ \A i \in Index :
              /\ Rescued(victim, s, type, live).info[i]
                   = IF i \in live THEN victim.info[i] ELSE BlankInfo
              /\ Rescued(victim, s, type, live).block[i]
                   = IF i \in live THEN victim.block[i] ELSE BlankBlock
         /\ \A other : Rescued(victim, s, other, live)
                         = [Rescued(victim, s, type, live) EXCEPT !.info[0] = Info(other, s)]
<1> DEFINE x == Rescued(victim, s, type, live)
           info == [i \in 0..Blocks - 1 |-> IF i = 0 THEN Info(type, s)
                                     ELSE IF i \in live THEN victim.info[i] ELSE BlankInfo]
           block == [i \in Index |-> IF i \in live THEN victim.block[i] ELSE BlankBlock]
<1>1. 0 \in 0..Blocks - 1 /\ Index \subseteq 0..Blocks - 1 /\ 0 \notin Index
      /\ s \in {-1} \cup 0..Units + Addresses
  BY GeometryAssumption DEF Index, Sector
<1>2. Info(type, s) \in InfoWord
  BY <1>1, Images
<1>3. info \in [0..Blocks - 1 -> InfoWord]
  BY <1>2, Images DEF UnitImage
<1>4. block \in [Index -> BlockImage]
  BY Images DEF UnitImage
<1>5. x = [info |-> info, block |-> block]
  BY DEF Rescued
<1>6. x.info[0] = Info(type, s) /\ \A i \in Index :
        /\ x.info[i] = IF i \in live THEN victim.info[i] ELSE BlankInfo
        /\ x.block[i] = IF i \in live THEN victim.block[i] ELSE BlankBlock
  BY <1>1, <1>5
<1>7. ASSUME NEW other
      PROVE  Rescued(victim, s, other, live) = [x EXCEPT !.info[0] = Info(other, s)]
  <2>1. Rescued(victim, s, other, live)
          = [info |-> [i \in 0..Blocks - 1 |-> IF i = 0 THEN Info(other, s)
                                     ELSE IF i \in live THEN victim.info[i] ELSE BlankInfo],
             block |-> block]
    BY DEF Rescued
  <2>2. [i \in 0..Blocks - 1 |-> IF i = 0 THEN Info(other, s)
                                     ELSE IF i \in live THEN victim.info[i] ELSE BlankInfo]
          = [info EXCEPT ![0] = Info(other, s)]
    BY <1>1
  <2> HIDE DEF info, block
  <2>3. [x EXCEPT !.info[0] = Info(other, s)]
          = [info |-> [info EXCEPT ![0] = Info(other, s)], block |-> block]
    BY <1>5
  <2> QED  BY <2>1, <2>2, <2>3
<1> HIDE DEF info, block
<1>8. x \in UnitImage
  BY <1>3, <1>4, <1>5 DEF UnitImage
<1> QED  BY <1>6, <1>7, <1>8

(* A program of a unit that needs no bit to be set.                        *)
PutSurely(d, step, u, image) == Put(d, step, u, image, TRUE)

(* A program of a unit.                                                    *)
LEMMA PutAny ==
  ASSUME NEW d \in Device, NEW step \in StepName, NEW u \in Unit, NEW image \in UnitImage,
         NEW sticks \in BOOLEAN, NEW r, r = Put(d, step, u, image, sticks)
  PROVE  /\ r \in Device /\ r.ftl = d.ftl /\ (sticks => (Sticks(r) <=> Sticks(d)))
         /\ r.nor[u] = image /\ \A x \in Unit : x # u => r.nor[x] = d.nor[x]
<1>1. /\ r \in Device /\ r.nor = [d.nor EXCEPT ![u] = image] /\ r.ftl = d.ftl
      /\ Sticks(r) <=> Sticks(d) /\ sticks
  BY PutOne
<1>2. d.nor \in Flash
  BY DEF Device
<1> QED  BY <1>1, <1>2 DEF Flash

(* A program that is known to stick.                                       *)
LEMMA PutSure ==
  ASSUME NEW d \in Device, NEW step \in StepName, NEW u \in Unit, NEW image \in UnitImage,
         NEW r, r = PutSurely(d, step, u, image)
  PROVE  /\ r \in Device /\ r.ftl = d.ftl /\ (Sticks(r) <=> Sticks(d))
         /\ r.nor[u] = image /\ \A x \in Unit : x # u => r.nor[x] = d.nor[x]
<1>1. ASSUME NEW sticks \in BOOLEAN, r = Put(d, step, u, image, sticks)
      PROVE  /\ r \in Device /\ r.ftl = d.ftl /\ (sticks => (Sticks(r) <=> Sticks(d)))
             /\ r.nor[u] = image /\ \A x \in Unit : x # u => r.nor[x] = d.nor[x]
  BY <1>1, PutAny
<1>2. r = Put(d, step, u, image, TRUE)
  BY DEF PutSurely
<1> QED  BY <1>1, <1>2

(* The live blocks of the victim are copied.                               *)
LEMMA Copies ==
  ASSUME NEW d \in Device, NEW s \in Sector, NEW v \in Unit, NEW r \in Unit, r # v,
         d.nor[r] = Kept, d.nor[v].info[0].of = s, NEW live,
         NEW q, q = Copied(d, v, r, live)
  PROVE  /\ q \in Device /\ q.ftl = d.ftl /\ (Sticks(q) <=> Sticks(d))
         /\ q.nor[r] = Rescued(d.nor[v], s, RECLAIM, live)
         /\ \A u \in Unit : u # r => q.nor[u] = d.nor[u]
<1> DEFINE block == [i \in Index |-> IF i \in live THEN d.nor[v].block[i] ELSE BlankBlock]
           copy == [info |-> d.nor[r].info, block |-> block]
           info == [i \in 0..Blocks - 1 |-> IF i = 0 THEN Info(RECLAIM, s)
                                       ELSE IF i \in live THEN d.nor[v].info[i] ELSE BlankInfo]
           p == PutSurely(d, "copy", r, copy)
           image == [copy EXCEPT !.info = info]
<1>1. d.nor[v] \in UnitImage /\ d.nor[r] \in UnitImage
  BY DEF Device, Flash
<1>2. /\ (\A i \in Index : d.nor[r].block[i] = BlankBlock)
      /\ d.nor[r].info[0].type = RESERVED
  BY KeptImage, InfoFields
<1>3. q = PutSurely(p, "reclaim", r, image)
  BY <1>2 DEF Copied, PutSurely
<1>4. block \in [Index -> BlockImage]
  BY <1>1, Images DEF UnitImage
<1>5. copy \in UnitImage
  BY <1>1, <1>4 DEF UnitImage
<1>6. image = Rescued(d.nor[v], s, RECLAIM, live)
  <2>1. Rescued(d.nor[v], s, RECLAIM, live) = [info |-> info, block |-> block]
    BY DEF Rescued
  <2> HIDE DEF info, block
  <2> QED  BY <2>1
<1>7. image \in UnitImage
  <2>1. RECLAIM \in SUBSET (0..3)
    BY DEF RECLAIM
  <2>2. Rescued(d.nor[v], s, RECLAIM, live) \in UnitImage
    BY SMTT(30), <1>1, <2>1, RescuedImage
  <2> QED  BY <1>6, <2>2
<1>8. p = PutSurely(d, "copy", r, copy)
  OBVIOUS
<1> HIDE DEF block, copy, info, p, image
<1>9. /\ p \in Device /\ p.ftl = d.ftl /\ (Sticks(p) <=> Sticks(d))
      /\ p.nor[r] = copy /\ \A x \in Unit : x # r => p.nor[x] = d.nor[x]
  <2>1. "copy" \in StepName
    BY DEF StepName
  <2> QED  BY <2>1, <1>5, <1>8, PutSure
<1>10. /\ q \in Device /\ q.ftl = p.ftl /\ (Sticks(q) <=> Sticks(p))
       /\ q.nor[r] = image /\ \A x \in Unit : x # r => q.nor[x] = p.nor[x]
  <2>1. "reclaim" \in StepName /\ p \in Device
    BY <1>9 DEF StepName
  <2> QED  BY <2>1, <1>3, <1>7, PutSure
<1> QED  BY <1>6, <1>9, <1>10

(* The RAM when the units have changed places.                             *)
SwappedRam(ram, s, r, v) ==
  [ram EXCEPT !.xlate_logical = Reserved, !.xlate_cache = BlankMap,
              !.sector_table = [ram.sector_table EXCEPT ![s] = r],
              !.reclaim = v]

(* The victim is erased and kept, and then the copy is marked as the sector. *)
Swapping(d, v, s, r) ==
  [DropXlate(PutSurely(PutSurely(d, "erase", v, Blank), "header", v, Kept))
     EXCEPT !.ftl.sector_table[s] = r, !.ftl.reclaim = v]

(* Flash n is that of q but for the mark of unit r as sector s.             *)
Adopts(n, q, r, s) ==
  /\ n \in Flash /\ n[r].info[0] = Info(RECLAIM, s)
  /\ q.nor = [n EXCEPT ![r] = [n[r] EXCEPT !.info[0] = Info(ERASE, s)]]

LEMMA SwapHalf ==
  ASSUME NEW d \in Device, NEW s \in Sector, NEW v \in Unit, NEW r \in Unit, r # v,
         NEW d3, d3 = Swapping(d, v, s, r)
  PROVE  /\ d3 \in Device /\ (Sticks(d3) <=> Sticks(d)) /\ d3.ftl = SwappedRam(d.ftl, s, r, v)
         /\ UnitOf(d3, <<s, 0>>) = r /\ r # NoUnit
         /\ d3.nor[v] = Kept /\ \A u \in Unit : u # v => d3.nor[u] = d.nor[u]
<1> DEFINE d1 == PutSurely(d, "erase", v, Blank)
           d2 == PutSurely(d1, "header", v, Kept)
<1>2. d1 = PutSurely(d, "erase", v, Blank) /\ d2 = PutSurely(d1, "header", v, Kept)
  OBVIOUS
<1>3. d3 = [DropXlate(d2) EXCEPT !.ftl.sector_table[s] = r, !.ftl.reclaim = v]
  BY DEF Swapping
<1> HIDE DEF d1, d2
<1>4. /\ d1 \in Device /\ d1.ftl = d.ftl /\ (Sticks(d1) <=> Sticks(d))
      /\ d1.nor[v] = Blank /\ \A x \in Unit : x # v => d1.nor[x] = d.nor[x]
  <2>1. "erase" \in StepName
    BY DEF StepName
  <2> QED  BY <1>2, <2>1, KeptImage, PutSure
<1>5. /\ d2 \in Device /\ d2.ftl = d1.ftl /\ (Sticks(d2) <=> Sticks(d1))
      /\ d2.nor[v] = Kept /\ \A x \in Unit : x # v => d2.nor[x] = d1.nor[x]
  <2>1. "header" \in StepName /\ d1 \in Device /\ Kept \in UnitImage
        /\ d2 = PutSurely(d1, "header", v, Kept)
    BY <1>2, <1>4, KeptImage DEF StepName
  <2> HIDE DEF Kept
  <2> QED  BY <2>1, PutSure
<1>6. d2.nor \in Flash /\ d2.ftl \in Ftl /\ d2.steps \in Seq(Step)
      /\ d2 = [nor |-> d2.nor, ftl |-> d2.ftl, steps |-> d2.steps]
  BY <1>5 DEF Device
<1>7. /\ d3.nor = d2.nor /\ d3.steps = d2.steps
      /\ d3 = [nor |-> d2.nor, ftl |-> d3.ftl, steps |-> d2.steps]
      /\ d3.ftl = [d2.ftl EXCEPT !.xlate_logical = Reserved, !.xlate_cache = BlankMap,
                                 !.sector_table = [d2.ftl.sector_table EXCEPT ![s] = r],
                                 !.reclaim = v]
  <2>1. d3 = [d2 EXCEPT !.ftl = [d2.ftl EXCEPT !.xlate_logical = Reserved, !.xlate_cache = BlankMap,
                                 !.sector_table = [d2.ftl.sector_table EXCEPT ![s] = r],
                                 !.reclaim = v]]
    BY <1>3, <1>6 DEF DropXlate, Ftl
  <2> QED  BY <1>6, <2>1
<1>8. d3.ftl \in Ftl
  <2>1. [d2.ftl.sector_table EXCEPT ![s] = r] \in [Sector -> Unit \cup {NoUnit}]
    BY <1>6 DEF Ftl
  <2> QED  BY ZenonT(40), <1>6, <1>7, <2>1, Images DEF Ftl
<1>9. d3 \in Device /\ (Sticks(d3) <=> Sticks(d2))
  BY <1>6, <1>7, <1>8 DEF Device, Sticks
<1>10. UnitOf(d3, <<s, 0>>) = r /\ r # NoUnit
  <2>1. d3.ftl.sector_table[s] = r
    BY <1>6, <1>7 DEF Ftl
  <2> QED  BY <2>1, GeometryAssumption DEF UnitOf, Unit, NoUnit
<1>11. d3.nor[v] = Kept /\ \A u \in Unit : u # v => d3.nor[u] = d.nor[u]
  BY <1>4, <1>5, <1>7
<1>12. d3.ftl = SwappedRam(d.ftl, s, r, v)
  BY <1>4, <1>5, <1>7 DEF SwappedRam
<1> QED  BY <1>4, <1>5, <1>9, <1>10, <1>11, <1>12

LEMMA Swaps ==
  ASSUME NEW d \in Device, NEW s \in Sector, NEW v \in Unit, NEW r \in Unit, r # v,
         NEW victim \in UnitImage, NEW live, d.nor[r] = Rescued(victim, s, RECLAIM, live),
         NEW q, q = Swap(d, v, s, r)
  PROVE  /\ q \in Device /\ (Sticks(q) <=> Sticks(d))
         /\ q.ftl = SwappedRam(d.ftl, s, r, v)
         /\ q.nor[v] = Kept /\ q.nor[r] = Rescued(victim, s, ERASE, live)
         /\ \A u \in Unit : u # r /\ u # v => q.nor[u] = d.nor[u]
         /\ Adopts(Swapping(d, v, s, r).nor, q, r, s)
<1> DEFINE d3 == Swapping(d, v, s, r)
           old == Rescued(victim, s, RECLAIM, live)
           image == Rescued(victim, s, ERASE, live)
<1>1. q = InfoType(d3, "sector", <<s, 0>>, ERASE)
  BY DEF Swap, Swapping, PutSurely, Kept
<1>2. d3 = Swapping(d, v, s, r)
  OBVIOUS
<1> HIDE DEF d3
<1>10. /\ d3 \in Device /\ (Sticks(d3) <=> Sticks(d)) /\ d3.ftl = SwappedRam(d.ftl, s, r, v)
       /\ UnitOf(d3, <<s, 0>>) = r /\ r # NoUnit
       /\ d3.nor[v] = Kept /\ \A u \in Unit : u # v => d3.nor[u] = d.nor[u]
  BY <1>2, SwapHalf
<1>11. d3.nor[r] = old
  BY <1>10
<1>12. /\ old \in UnitImage /\ old.info[0] = Info(RECLAIM, s)
       /\ image = [old EXCEPT !.info[0] = Info(ERASE, s)]
  <2>1. RECLAIM \in SUBSET (0..3)
    BY DEF RECLAIM
  <2> QED  BY SMTT(30), <2>1, RescuedImage
<1>13. image \in UnitImage
  <2>1. ERASE \in SUBSET (0..3)
    BY DEF ERASE
  <2> QED  BY <2>1, RescuedImage
<1> HIDE DEF old, image
<1>14. q = PutSurely(d3, "sector", r, image)
  <2>1. InfoAt(d3, <<s, 0>>) = Info(RECLAIM, s)
    BY <1>10, <1>11, <1>12 DEF InfoAt
  <2>2. /\ RECLAIM \cap ERASE = ERASE /\ ERASE # DELETED /\ ERASE \subseteq RECLAIM
    BY DEF RECLAIM, ERASE, DELETED
  <2>3. [d3.nor[r] EXCEPT !.info[0] = Info(ERASE, s)] = image
    BY <1>11, <1>12
  <2> DEFINE l == <<s, 0>>
  <2>4. /\ q = InfoType(d3, "sector", l, ERASE) /\ UnitOf(d3, l) = r /\ l[2] = 0
        /\ InfoAt(d3, l).type \cap ERASE = ERASE /\ ERASE # DELETED /\ InfoAt(d3, l).of = s
        /\ ERASE \subseteq InfoAt(d3, l).type
    BY <1>1, <1>10, <2>1, <2>2, InfoFields
  <2> HIDE DEF l
  <2>5. q = Put(d3, "sector", r, [d3.nor[r] EXCEPT !.info[0] = Info(ERASE, s)], TRUE)
    BY <1>10, <2>4 DEF InfoType
  <2> QED  BY <2>3, <2>5 DEF PutSurely
<1>15. /\ q \in Device /\ q.ftl = d3.ftl /\ (Sticks(q) <=> Sticks(d3))
       /\ q.nor[r] = image /\ \A x \in Unit : x # r => q.nor[x] = d3.nor[x]
  <2>1. "sector" \in StepName
    BY DEF StepName
  <2> QED  BY SMTT(30), <1>10, <1>13, <1>14, <2>1, PutSure
<1>16. q.nor = [d3.nor EXCEPT ![r] = [d3.nor[r] EXCEPT !.info[0] = Info(ERASE, s)]]
  <2>1. d3.nor \in Flash /\ q.nor \in Flash
    BY <1>10, <1>15 DEF Device
  <2>2. [d3.nor[r] EXCEPT !.info[0] = Info(ERASE, s)] = image
    BY <1>11, <1>12
  <2>3. q.nor = [d3.nor EXCEPT ![r] = image]
    BY <1>15, <2>1 DEF Flash
  <2> QED  BY <2>2, <2>3
<1>17. d3.nor \in Flash /\ d3.nor[r].info[0] = Info(RECLAIM, s)
  BY <1>10, <1>11, <1>12 DEF Device
<1>18. Adopts(Swapping(d, v, s, r).nor, q, r, s)
  BY <1>2, <1>16, <1>17 DEF Adopts
<1> QED  BY <1>10, <1>11, <1>15, <1>18 DEF image

(* The blocks of a sector that are neither free nor deleted.                *)
Live(d, s) == {i \in Index : InfoAt(d, <<s, i>>).written} \ Dead(d, s)

(* A unit is marked as the victim.                                         *)
Marked(image, s) == [image EXCEPT !.info[0] = Info(@.type \cap VICTIM, s)]

(* The mark of a victim.                                                   *)
LEMMA Marks ==
  ASSUME NEW old \in UnitImage, NEW s \in Sector, old.info[0] = Info(ERASE, s),
         NEW new, new = Marked(old, s)
  PROVE  /\ new \in UnitImage /\ new.info[0] = Info(VICTIM, s)
         /\ \A i \in Index : new.info[i] = old.info[i] /\ new.block[i] = old.block[i]
<1> DEFINE word == Info(VICTIM, s)
<1>1. 0 \in 0..Blocks - 1 /\ Index \subseteq 0..Blocks - 1 /\ 0 \notin Index
      /\ s \in {-1} \cup 0..Units + Addresses
  BY GeometryAssumption DEF Index, Sector
<1>2. word \in InfoWord
  <2>1. VICTIM \in SUBSET (0..3)
    BY DEF VICTIM
  <2> QED  BY <1>1, <2>1, Images
<1>3. ERASE \cap VICTIM = VICTIM
  BY DEF ERASE, VICTIM
<1>4. old = [info |-> old.info, block |-> old.block] /\ old.info \in [0..Blocks - 1 -> InfoWord]
      /\ old.block \in [Index -> BlockImage]
  BY DEF UnitImage
<1>5. word = Info(old.info[0].type \cap VICTIM, s) /\ word = Info(VICTIM, s)
  BY ZenonT(40), <1>3, InfoFields
<1> HIDE DEF word
<1>6. new = [info |-> [old.info EXCEPT ![0] = word], block |-> old.block]
  BY <1>4, <1>5 DEF Marked
<1>7. /\ [old.info EXCEPT ![0] = word] \in [0..Blocks - 1 -> InfoWord]
      /\ [old.info EXCEPT ![0] = word][0] = word
      /\ \A i \in Index : [old.info EXCEPT ![0] = word][i] = old.info[i]
  BY <1>1, <1>2, <1>4
<1> DEFINE info == [old.info EXCEPT ![0] = word]
<1>8. /\ info \in [0..Blocks - 1 -> InfoWord] /\ info[0] = Info(VICTIM, s)
      /\ \A i \in Index : info[i] = old.info[i]
      /\ new = [info |-> info, block |-> old.block]
  BY <1>5, <1>6, <1>7
<1> HIDE DEF info
<1>9. new.info = info /\ new.block = old.block
  BY <1>8
<1> QED  BY <1>4, <1>8, <1>9 DEF UnitImage

(* What a unit holds that is deleted, and that is not.                      *)
DeadIn(image) == {i \in Index : image.info[i].written /\ image.info[i].type = DELETED}
LiveIn(image) == {i \in Index : image.info[i].written} \ DeadIn(image)

(* The caches are used to copy the live blocks.                            *)
Buffered(d, live) == IF live = {} THEN d ELSE DropXlate2(d)

(* What follows the mark, and all of it: the mark sticks unless it repeats   *)
(* one.                                                                    *)
FromMarked(d, v, s, r, dead, live) ==
  Credited(Swap(Buffered(Copied(d, v, r, live), live), v, s, r), s, dead, live)
ReclaimSteps(d, v, s, r, dead, live) ==
  FromMarked(Put(d, "victim", v, Marked(d.nor[v], s), d.nor[v].info[0].type = ERASE),
             v, s, r, dead, live)

(* Reclaim, written with the operators used here.                          *)
LEMMA ReclaimIs ==
  ASSUME NEW d, NEW v, d.nor[v].info[0].type = ERASE \/ d.nor[v].info[0].type = VICTIM,
         NEW s, s = d.nor[v].info[0].of, NEW dead, dead = DeadIn(d.nor[v]),
         NEW live, live = LiveIn(d.nor[v])
  PROVE  Reclaim(d, v) = ReclaimSteps(d, v, s, d.ftl.reclaim, dead, live)
<1>1. \A type : type = ERASE \/ type = VICTIM =>
        ((VICTIM \subseteq type /\ type # VICTIM) = (type = ERASE))
  <2>1. VICTIM \subseteq ERASE /\ ERASE # VICTIM
    BY DEF VICTIM, ERASE
  <2> QED  BY <2>1
<1>2. (VICTIM \subseteq d.nor[v].info[0].type /\ d.nor[v].info[0].type # VICTIM)
        = (d.nor[v].info[0].type = ERASE)
  BY <1>1
<1> QED  BY ZenonT(40), <1>2 DEF Reclaim, ReclaimSteps, FromMarked, Marked, Buffered, DeadIn, LiveIn

(* A sector is marked as full if it is.                                    *)
Marking(allocated, s, live) == [allocated EXCEPT ![s] = (Index \ live = {})]

(* The RAM after the sector is reclaimed.                                  *)
LEMMA Credits ==
  ASSUME NEW d \in Device, NEW s \in Sector, NEW dead, NEW live, IsFiniteSet(dead),
         NEW q, q = Credited(d, s, dead, live)
  PROVE  /\ q \in Device /\ SameFlash(d, q)
         /\ SameTables(d, q) /\ SameCache(d, q) /\ SameCache2(d, q)
         /\ q.ftl.alloc_sector = s /\ q.ftl.alloc_mask = Index \ live
         /\ q.ftl.alloc_free = d.ftl.alloc_free + Cardinality(dead)
         /\ q.ftl.score = [d.ftl.score EXCEPT ![s] = 0]
         /\ q.ftl.allocated = Marking(d.ftl.allocated, s, live)
<1> DEFINE score == [d.ftl.score EXCEPT ![s] = 0]
           full == [d.ftl.allocated EXCEPT ![s] = (Index \ live = {})]
           free == d.ftl.alloc_free + Cardinality(dead)
           mask == Index \ live
<1>1. d.nor \in Flash /\ d.ftl \in Ftl /\ d.steps \in Seq(Step)
      /\ d = [nor |-> d.nor, ftl |-> d.ftl, steps |-> d.steps]
  BY DEF Device
<1>2. q = [d EXCEPT !.ftl = [d.ftl EXCEPT !.alloc_sector = s, !.alloc_mask = mask,
                                          !.alloc_free = free, !.score = score,
                                          !.allocated = full]]
  BY <1>1 DEF Credited, Ftl
<1>3. score \in [Sector -> Nat] /\ full \in [Sector -> BOOLEAN] /\ mask \in SUBSET Index
  BY <1>1 DEF Ftl
<1>4. free \in Int
  BY <1>1, FS_CardinalityType DEF Ftl
<1> HIDE DEF score, full, free, mask
<1>5. /\ SameFlash(d, q) /\ q = [nor |-> d.nor, ftl |-> q.ftl, steps |-> d.steps]
      /\ q.ftl = [d.ftl EXCEPT !.alloc_sector = s, !.alloc_mask = mask, !.alloc_free = free,
                               !.score = score, !.allocated = full]
  BY <1>1, <1>2 DEF SameFlash
<1>6. /\ SameTables(d, q) /\ SameCache(d, q) /\ SameCache2(d, q)
      /\ q.ftl.alloc_sector = s /\ q.ftl.alloc_mask = mask /\ q.ftl.alloc_free = free
      /\ q.ftl.score = score /\ q.ftl.allocated = full
  BY <1>1, <1>5 DEF SameTables, SameCache, SameCache2, Ftl
<1>7. q.ftl \in Ftl
  BY ZenonT(40), <1>1, <1>3, <1>4, <1>5 DEF Ftl
<1>8. q \in Device
  BY <1>1, <1>5, <1>7 DEF Device
<1> QED  BY <1>5, <1>6, <1>8 DEF score, full, free, mask, Marking

(* The buffer of a reclaim is the second cache.                            *)
LEMMA Xlate2Dropped ==
  ASSUME NEW d \in Device, NEW r, r = DropXlate2(d)
  PROVE  /\ r \in Device /\ SameFlash(d, r) /\ SameTables(d, r) /\ SameCache(d, r) /\ SameAlloc(d, r)
         /\ r.ftl.score = d.ftl.score /\ r.ftl.xlate2_logical = Reserved
<1>1. d.ftl \in Ftl /\ d = [nor |-> d.nor, ftl |-> d.ftl, steps |-> d.steps]
      /\ BlankMap \in [Entry -> Content]
  BY Images DEF Device
<1> HIDE DEF BlankMap
<1>2. /\ SameFlash(d, r) /\ r = [nor |-> d.nor, ftl |-> r.ftl, steps |-> d.steps]
      /\ r.ftl = [d.ftl EXCEPT !.xlate2_logical = Reserved, !.xlate2_cache = BlankMap]
  BY <1>1 DEF DropXlate2, SameFlash
<1>3. /\ SameTables(d, r) /\ SameCache(d, r) /\ SameAlloc(d, r) /\ r.ftl.score = d.ftl.score
      /\ r.ftl.xlate2_logical = Reserved /\ r.ftl \in Ftl
  BY ZenonT(40), <1>1, <1>2 DEF SameTables, SameCache, SameAlloc, Ftl
<1> QED  BY <1>1, <1>2, <1>3 DEF Device

(* The unit kept for reclaiming has become sector s, whose dead blocks are  *)
(* free again, and its unit is kept instead.                               *)
Reclaimed(d, q, s) ==
  LET v == d.ftl.sector_table[s]
      r == d.ftl.reclaim
  IN /\ q \in Device
     /\ q.ftl.sector_table = [d.ftl.sector_table EXCEPT ![s] = r] /\ q.ftl.reclaim = v
     /\ q.ftl.block_table = d.ftl.block_table
     /\ q.ftl.xlate_table = d.ftl.xlate_table /\ q.ftl.xlate2_table = d.ftl.xlate2_table
     /\ q.ftl.xlate_logical = Reserved
     /\ IF Live(d, s) = {} THEN SameCache2(d, q) ELSE q.ftl.xlate2_logical = Reserved
     /\ q.ftl.alloc_sector = s /\ q.ftl.alloc_mask = Index \ Live(d, s)
     /\ q.ftl.alloc_free = d.ftl.alloc_free + Cardinality(Dead(d, s))
     /\ q.ftl.score = [d.ftl.score EXCEPT ![s] = 0]
     /\ q.ftl.allocated = Marking(d.ftl.allocated, s, Live(d, s))
     /\ q.nor[v] = Kept /\ q.nor[r].info[0] = Info(ERASE, s)
     /\ \A i \in Index :
          /\ q.nor[r].info[i] = IF i \in Live(d, s) THEN d.nor[v].info[i] ELSE BlankInfo
          /\ q.nor[r].block[i] = IF i \in Live(d, s) THEN d.nor[v].block[i] ELSE BlankBlock
     /\ \A u \in Unit : u # r /\ u # v => q.nor[u] = d.nor[u]

(* A device on which the unit of sector s is marked, and nothing else is done. *)
IsMarked(d, x, s) ==
  /\ x \in Device /\ x.ftl = d.ftl
  /\ x.nor[d.ftl.sector_table[s]] = Marked(d.nor[d.ftl.sector_table[s]], s)
  /\ \A u \in Unit : u # d.ftl.sector_table[s] => x.nor[u] = d.nor[u]

(* ... and on which all is done but the mark of the copy.                   *)
Adopting(x, v, s, r, live) == Swapping(Buffered(Copied(x, v, r, live), live), v, s, r)

(* What a reclaim works on.                                                *)
LEMMA ReclaimUnits ==
  ASSUME NEW d, Good(d), NEW s \in Sector, NEW v, v = d.ftl.sector_table[s],
         NEW r, r = d.ftl.reclaim
  PROVE  /\ d \in Device /\ Sectors(d) /\ v \in Unit /\ r \in Unit /\ r # v
         /\ d.nor[v].info[0] = Info(ERASE, s) /\ d.nor[r] = Kept /\ d.nor[v] \in UnitImage
         /\ Dead(d, s) = DeadIn(d.nor[v]) /\ Live(d, s) = LiveIn(d.nor[v])
         /\ Live(d, s) \subseteq Index /\ IsFiniteSet(Dead(d, s))
<1>1. /\ d \in Device /\ Sectors(d) /\ v \in Unit /\ r \in Unit /\ r # v
      /\ d.nor[v].info[0] = Info(ERASE, s) /\ d.nor[r] = Kept
      /\ d.nor[v] \in UnitImage
  BY DEF Good, Sectors, Headers, Device, Flash, UnitImage
<1>2. \A i \in Index : InfoAt(d, <<s, i>>) = d.nor[v].info[i]
  <2> TAKE i \in Index
  <2>1. <<s, i>> \in Logical /\ <<s, i>>[1] = s /\ <<s, i>>[2] = i
    BY DEF Logical
  <2> QED  BY <1>1, <2>1, Seen
<1>3. Dead(d, s) = DeadIn(d.nor[v]) /\ Live(d, s) = LiveIn(d.nor[v]) /\ Live(d, s) \subseteq Index
  BY ZenonT(40), <1>2 DEF Dead, Live, DeadIn, LiveIn
<1>4. IsFiniteSet(Dead(d, s))
  BY Zenon, <1>3, FiniteLogicals, FS_Subset DEF DeadIn
<1> QED  BY ZenonT(40), <1>1, <1>3, <1>4

(* The unit of sector s is marked, and what follows.                        *)
MarkedAt(d, s) ==
  PutSurely(d, "victim", d.ftl.sector_table[s], Marked(d.nor[d.ftl.sector_table[s]], s))
Finished(d, x, s) ==
  FromMarked(x, d.ftl.sector_table[s], s, d.ftl.reclaim, Dead(d, s), Live(d, s))

LEMMA MarksUnit ==
  ASSUME NEW d, Good(d), NEW s \in Sector
  PROVE  /\ IsMarked(d, MarkedAt(d, s), s) /\ (Sticks(MarkedAt(d, s)) <=> Sticks(d))
         /\ Reclaim(d, d.ftl.sector_table[s]) = Finished(d, MarkedAt(d, s), s)
<1> DEFINE v == d.ftl.sector_table[s]
           old == d.nor[v]
           victim == Marked(old, s)
           x == MarkedAt(d, s)
<1>1. /\ d \in Device /\ v \in Unit /\ old.info[0] = Info(ERASE, s) /\ old \in UnitImage
      /\ Dead(d, s) = DeadIn(old) /\ Live(d, s) = LiveIn(old)
  BY ReclaimUnits
<1>2. v = d.ftl.sector_table[s] /\ old = d.nor[v] /\ victim = Marked(old, s)
  OBVIOUS
<1>3. x = PutSurely(d, "victim", v, victim)
  BY DEF MarkedAt
<1>4. x = MarkedAt(d, s)
  OBVIOUS
<1> HIDE DEF v, old, victim, x
<1>5. s = old.info[0].of /\ old.info[0].type = ERASE
  BY SMTT(30), <1>1, InfoFields
<1>6. victim \in UnitImage
  BY SMTT(30), <1>1, <1>2, Marks
<1>7. Reclaim(d, v) = ReclaimSteps(d, v, s, d.ftl.reclaim, Dead(d, s), Live(d, s))
  <2>1. d.nor[v].info[0].type = ERASE /\ s = d.nor[v].info[0].of
        /\ Dead(d, s) = DeadIn(d.nor[v]) /\ Live(d, s) = LiveIn(d.nor[v])
    BY Zenon, <1>1, <1>2, <1>5
  <2> QED  BY SMTT(30), <2>1, ReclaimIs
<1>8. /\ x \in Device /\ x.ftl = d.ftl /\ (Sticks(x) <=> Sticks(d))
      /\ x.nor[v] = victim /\ \A u \in Unit : u # v => x.nor[u] = d.nor[u]
  <2>1. "victim" \in StepName
    BY DEF StepName
  <2>2. d \in Device /\ v \in Unit
    BY <1>1
  <2> QED  BY <1>3, <1>6, <2>1, <2>2, PutSure
<1>9. IsMarked(d, x, s)
  BY <1>2, <1>8 DEF IsMarked
<1>10. ReclaimSteps(d, v, s, d.ftl.reclaim, Dead(d, s), Live(d, s)) = Finished(d, x, s)
  <2>1. (d.nor[v].info[0].type = ERASE) = TRUE
    BY <1>2, <1>5
  <2>2. x = Put(d, "victim", v, Marked(d.nor[v], s), TRUE)
    BY <1>2, <1>3 DEF PutSurely
  <2>3. Put(d, "victim", v, Marked(d.nor[v], s), d.nor[v].info[0].type = ERASE) = x
    BY ZenonT(40), <2>1, <2>2
  <2> QED  BY <1>2, <2>3 DEF ReclaimSteps, Finished
<1> QED  BY <1>2, <1>4, <1>7, <1>8, <1>9, <1>10

(* dosfs_sflash_ftl_reclaim as a relation, ...                             *)
LEMMA Reclaims ==
  ASSUME NEW d, Good(d), NEW s \in Sector, NEW marked, IsMarked(d, marked, s)
  PROVE  LET v == d.ftl.sector_table[s]
             r == d.ftl.reclaim
             q == Finished(d, marked, s)
         IN /\ Reclaimed(d, q, s) /\ (Sticks(q) <=> Sticks(marked))
            /\ Adopts(Adopting(marked, v, s, r, Live(d, s)).nor, q, r, s)
<1> DEFINE v == d.ftl.sector_table[s]
           r == d.ftl.reclaim
           q == Finished(d, marked, s)
           dead == Dead(d, s)
           live == Live(d, s)
           victim == Marked(d.nor[v], s)
           copied == Copied(marked, v, r, live)
           x == Buffered(copied, live)
           y == Swap(x, v, s, r)
           n == Swapping(x, v, s, r).nor
<1>1. /\ d \in Device /\ Sectors(d) /\ v \in Unit /\ r \in Unit /\ r # v
      /\ d.nor[v].info[0] = Info(ERASE, s) /\ d.nor[r] = Kept
      /\ d.nor[v] \in UnitImage /\ live \subseteq Index
  BY ReclaimUnits
<1>5. IsFiniteSet(dead)
  BY ReclaimUnits
<1>6. /\ copied = Copied(marked, v, r, live)
      /\ x = Buffered(copied, live)
      /\ y = Swap(x, v, s, r) /\ n = Swapping(x, v, s, r).nor
      /\ Adopting(marked, v, s, r, live).nor = n
      /\ v = d.ftl.sector_table[s] /\ r = d.ftl.reclaim
      /\ dead = Dead(d, s) /\ live = Live(d, s) /\ q = Finished(d, marked, s)
  BY DEF Adopting
<1>7. victim = Marked(d.nor[v], s)
  OBVIOUS
<1>10. q = Credited(y, s, dead, live)
  BY DEF FromMarked, Finished
<1> HIDE DEF victim, copied, x, y, n, dead, live, v, r, q
<1>9. /\ victim \in UnitImage /\ victim.info[0].of = s
      /\ \A i \in Index : victim.info[i] = d.nor[v].info[i] /\ victim.block[i] = d.nor[v].block[i]
  <2>1. d.nor[v] \in UnitImage /\ d.nor[v].info[0] = Info(ERASE, s)
    BY <1>1
  <2> QED  BY <1>7, <2>1, Marks, InfoFields
<1>11. /\ marked \in Device /\ marked.ftl = d.ftl
       /\ marked.nor[v] = victim /\ \A u \in Unit : u # v => marked.nor[u] = d.nor[u]
  BY <1>6, <1>7 DEF IsMarked
<1>12. /\ copied \in Device /\ copied.ftl = marked.ftl /\ (Sticks(copied) <=> Sticks(marked))
       /\ copied.nor[r] = Rescued(victim, s, RECLAIM, live)
       /\ \A u \in Unit : u # r => copied.nor[u] = marked.nor[u]
  <2>1. marked \in Device /\ marked.nor[r] = Kept /\ marked.nor[v].info[0].of = s
        /\ copied = Copied(marked, v, r, live)
    BY ZenonT(40), <1>1, <1>6, <1>9, <1>11
  <2>2. /\ copied \in Device /\ copied.ftl = marked.ftl /\ (Sticks(copied) <=> Sticks(marked))
        /\ copied.nor[r] = Rescued(marked.nor[v], s, RECLAIM, live)
        /\ \A u \in Unit : u # r => copied.nor[u] = marked.nor[u]
    BY <1>1, <2>1, Copies
  <2> QED  BY SMTT(30), <1>11, <2>2
<1>13. /\ x \in Device /\ SameFlash(copied, x) /\ SameTables(copied, x) /\ SameAlloc(copied, x)
       /\ x.ftl.score = copied.ftl.score
       /\ IF live = {} THEN SameCache2(copied, x) ELSE x.ftl.xlate2_logical = Reserved
  <2>1. CASE live = {}
    BY <1>6, <1>12, <2>1 DEF Buffered, SameFlash, SameTables, SameAlloc, SameCache2
  <2>2. CASE live # {}
    <3>1. x = DropXlate2(copied) /\ copied \in Device
      BY <1>6, <1>12, <2>2 DEF Buffered
    <3> QED  BY <2>2, <3>1, Xlate2Dropped
  <2> QED  BY <2>1, <2>2
<1>14. /\ y \in Device /\ (Sticks(y) <=> Sticks(x))
       /\ y.ftl = SwappedRam(x.ftl, s, r, v)
       /\ y.nor[v] = Kept /\ y.nor[r] = Rescued(victim, s, ERASE, live)
       /\ \A u \in Unit : u # r /\ u # v => y.nor[u] = x.nor[u]
       /\ Adopts(n, y, r, s)
  <2>1. x.nor[r] = Rescued(victim, s, RECLAIM, live) /\ y = Swap(x, v, s, r) /\ x \in Device
    BY ZenonT(40), <1>6, <1>12, <1>13 DEF SameFlash
  <2>2. victim \in UnitImage /\ v \in Unit /\ r \in Unit /\ r # v
    BY <1>1, <1>9
  <2>3. n = Swapping(x, v, s, r).nor
    BY <1>6
  <2> QED  BY SMTT(30), <2>1, <2>2, <2>3, Swaps
<1>15. /\ q \in Device /\ SameFlash(y, q)
       /\ SameTables(y, q) /\ SameCache(y, q) /\ SameCache2(y, q)
       /\ q.ftl.alloc_sector = s /\ q.ftl.alloc_mask = Index \ live
       /\ q.ftl.alloc_free = y.ftl.alloc_free + Cardinality(dead)
       /\ q.ftl.score = [y.ftl.score EXCEPT ![s] = 0]
       /\ q.ftl.allocated = Marking(y.ftl.allocated, s, live)
  <2>1. q = Credited(y, s, dead, live) /\ y \in Device
    BY Zenon, <1>6, <1>10, <1>14
  <2> QED  BY SMTT(30), <1>5, <2>1, Credits
<1>16. SameTables(d, x) /\ SameAlloc(d, x) /\ x.ftl.score = d.ftl.score
       /\ IF live = {} THEN SameCache2(d, x) ELSE x.ftl.xlate2_logical = Reserved
  BY <1>11, <1>12, <1>13 DEF SameTables, SameAlloc, SameCache2
<1>17. x.ftl \in Ftl
  BY <1>13 DEF Device
<1>18. /\ y.ftl.sector_table = [d.ftl.sector_table EXCEPT ![s] = r] /\ y.ftl.reclaim = v
       /\ y.ftl.block_table = d.ftl.block_table
       /\ y.ftl.xlate_table = d.ftl.xlate_table /\ y.ftl.xlate2_table = d.ftl.xlate2_table
       /\ y.ftl.xlate_logical = Reserved
       /\ y.ftl.xlate2_logical = x.ftl.xlate2_logical /\ y.ftl.xlate2_cache = x.ftl.xlate2_cache
       /\ y.ftl.alloc_free = d.ftl.alloc_free /\ y.ftl.score = d.ftl.score
       /\ y.ftl.allocated = d.ftl.allocated
  BY <1>14, <1>16, <1>17 DEF SwappedRam, Ftl, SameTables, SameAlloc
<1>19. Sticks(q) <=> Sticks(marked)
  BY <1>12, <1>13, <1>14, <1>15 DEF SameFlash, Sticks
<1>20. /\ q.ftl.sector_table = [d.ftl.sector_table EXCEPT ![s] = r] /\ q.ftl.reclaim = v
       /\ q.ftl.block_table = d.ftl.block_table
       /\ q.ftl.xlate_table = d.ftl.xlate_table /\ q.ftl.xlate2_table = d.ftl.xlate2_table
       /\ q.ftl.xlate_logical = Reserved
       /\ IF live = {} THEN SameCache2(d, q) ELSE q.ftl.xlate2_logical = Reserved
  BY <1>15, <1>16, <1>18 DEF SameTables, SameCache, SameCache2
<1>21. /\ q.nor[v] = Kept /\ q.nor[r] = Rescued(victim, s, ERASE, live)
       /\ \A u \in Unit : u # r /\ u # v => q.nor[u] = d.nor[u]
  <2>1. q.nor = y.nor /\ x.nor = copied.nor
    BY <1>13, <1>15 DEF SameFlash
  <2>2. \A u \in Unit : u # r /\ u # v => y.nor[u] = x.nor[u] /\ copied.nor[u] = marked.nor[u]
    BY <1>12, <1>14
  <2>3. \A u \in Unit : u # v => marked.nor[u] = d.nor[u]
    BY <1>11
  <2>4. y.nor[v] = Kept /\ y.nor[r] = Rescued(victim, s, ERASE, live)
    BY <1>14
  <2> QED  BY <2>1, <2>2, <2>3, <2>4
<1>22. /\ q.nor[r].info[0] = Info(ERASE, s)
       /\ \A i \in Index :
            /\ q.nor[r].info[i] = IF i \in live THEN d.nor[v].info[i] ELSE BlankInfo
            /\ q.nor[r].block[i] = IF i \in live THEN d.nor[v].block[i] ELSE BlankBlock
  <2>1. ERASE \in SUBSET (0..3)
    BY DEF ERASE
  <2>2. /\ q.nor[r].info[0] = Info(ERASE, s)
        /\ \A i \in Index :
             /\ q.nor[r].info[i] = IF i \in live THEN victim.info[i] ELSE BlankInfo
             /\ q.nor[r].block[i] = IF i \in live THEN victim.block[i] ELSE BlankBlock
    <3>1. victim \in UnitImage
      BY <1>9
    <3> QED  BY <1>21, <2>1, <3>1, RescuedImage
  <2> QED  BY <1>9, <2>2
<1>23. /\ q.ftl.alloc_sector = s /\ q.ftl.alloc_mask = Index \ live
       /\ q.ftl.alloc_free = d.ftl.alloc_free + Cardinality(dead)
       /\ q.ftl.score = [d.ftl.score EXCEPT ![s] = 0]
       /\ q.ftl.allocated = Marking(d.ftl.allocated, s, live)
  BY <1>15, <1>18
<1>24. q \in Device
  BY SMTT(30), <1>15
<1>25. Adopts(Adopting(marked, v, s, r, live).nor, q, r, s)
  <2>1. q.nor = y.nor
    BY <1>15 DEF SameFlash
  <2> QED  BY ZenonT(40), <1>6, <1>14, <2>1 DEF Adopts
<1>26. Reclaimed(d, q, s)
  BY Zenon, <1>6, <1>20, <1>21, <1>22, <1>23, <1>24 DEF Reclaimed
<1> QED  BY <1>6, <1>19, <1>25, <1>26

(* ... which keeps the sectors and headers, ...                            *)
LEMMA ReclaimedSectors ==
  ASSUME NEW d, Good(d), NEW s \in Sector, NEW q, Reclaimed(d, q, s)
  PROVE  Sectors(q) /\ Headers(q)
<1> DEFINE v == d.ftl.sector_table[s]
           r == d.ftl.reclaim
<1>1. /\ \A t \in Sector : d.ftl.sector_table[t] \in Unit /\ d.ftl.sector_table[t] # r
      /\ \A t, w \in Sector : d.ftl.sector_table[t] = d.ftl.sector_table[w] => t = w
      /\ r \in Unit
      /\ \A u \in Unit : u = r \/ \E t \in Sector : u = d.ftl.sector_table[t]
      /\ \A t \in Sector : d.nor[d.ftl.sector_table[t]].info[0] = Info(ERASE, t)
      /\ d.ftl.sector_table \in [Sector -> Unit \cup {NoUnit}]
  BY DEF Good, Sectors, Headers, Device, Ftl
<1>2. /\ q.ftl.sector_table = [d.ftl.sector_table EXCEPT ![s] = r] /\ q.ftl.reclaim = v
      /\ q.nor[v] = Kept /\ q.nor[r].info[0] = Info(ERASE, s)
      /\ \A u \in Unit : u # r /\ u # v => q.nor[u] = d.nor[u]
  BY DEF Reclaimed
<1>3. /\ q.ftl.sector_table[s] = r
      /\ \A t \in Sector : t # s => /\ q.ftl.sector_table[t] = d.ftl.sector_table[t]
                                    /\ q.ftl.sector_table[t] # v
  BY <1>1, <1>2
<1> HIDE DEF r
<1>4. Sectors(q)
  <2>1. \A t \in Sector : q.ftl.sector_table[t] \in Unit /\ q.ftl.sector_table[t] # v
    BY <1>1, <1>3
  <2>2. \A t, w \in Sector : q.ftl.sector_table[t] = q.ftl.sector_table[w] => t = w
    BY <1>1, <1>3
  <2>3. \A u \in Unit : u = v \/ \E t \in Sector : u = q.ftl.sector_table[t]
    BY <1>1, <1>3
  <2> QED  BY <1>1, <1>2, <2>1, <2>2, <2>3 DEF Sectors
<1>5. Headers(q)
  BY SMTT(30), <1>1, <1>2, <1>3 DEF Headers
<1> QED  BY <1>4, <1>5

(* The sector's deleted blocks are free, and all other blocks as they were. *)
LEMMA ReclaimedViews ==
  ASSUME NEW d, Good(d), NEW s \in Sector, NEW q, Reclaimed(d, q, s), NEW l \in Logical
  PROVE  /\ ~(l[1] = s /\ IsDead(d, l)) => SameAt(d, q, l)
         /\ l[1] = s /\ IsDead(d, l) =>
              InfoAt(q, l) = BlankInfo /\ MapAt(q, l) = BlankMap /\ UserAt(q, l) = Nothing
<1> DEFINE v == d.ftl.sector_table[s]
           r == d.ftl.reclaim
<1>1. d \in Device /\ Sectors(d) /\ q \in Device /\ Sectors(q)
  <2>1. Sectors(q)
    BY ReclaimedSectors
  <2> QED  BY <2>1 DEF Good, Reclaimed
<1> DEFINE u == UnitOf(d, l)
           w == UnitOf(q, l)
           i == l[2]
<1>2. /\ u = d.ftl.sector_table[l[1]] /\ u \in Unit /\ u # r
      /\ l[1] \in Sector /\ i \in Index
      /\ InfoAt(d, l) = d.nor[u].info[i]
      /\ MapAt(d, l) = d.nor[u].block[i].map
      /\ UserAt(d, l) = d.nor[u].block[i].user
  BY <1>1, Seen, Logicals
<1>3. /\ w = q.ftl.sector_table[l[1]]
      /\ InfoAt(q, l) = q.nor[w].info[i]
      /\ MapAt(q, l) = q.nor[w].block[i].map
      /\ UserAt(q, l) = q.nor[w].block[i].user
  BY <1>1, Seen
<1>4. d.ftl.sector_table \in [Sector -> Unit \cup {NoUnit}]
      /\ \A t \in Sector : d.ftl.sector_table[t] = v => t = s
  BY SMTT(30), <1>1 DEF Device, Ftl, Sectors
<1>5. /\ q.ftl.sector_table = [d.ftl.sector_table EXCEPT ![s] = r]
      /\ \A k \in Index :
           /\ q.nor[r].info[k] = IF k \in Live(d, s) THEN d.nor[v].info[k] ELSE BlankInfo
           /\ q.nor[r].block[k] = IF k \in Live(d, s) THEN d.nor[v].block[k] ELSE BlankBlock
      /\ \A x \in Unit : x # r /\ x # v => q.nor[x] = d.nor[x]
  BY ZenonT(40) DEF Reclaimed
<1>6. v = d.ftl.sector_table[s]
  BY SMTT(30)
<1> HIDE DEF u, w, i, v, r
<1>7. CASE l[1] # s
  <2>1. u # v /\ w = u
    BY ZenonT(40), <1>2, <1>3, <1>4, <1>5, <1>7
  <2>2. q.nor[w] = d.nor[u]
    BY Zenon, <1>2, <1>5, <2>1
  <2> QED  BY ZenonT(40), <1>2, <1>3, <1>7, <2>2 DEF SameAt
<1>8. CASE l[1] = s
  <2>1. u = v /\ w = r
    BY Zenon, <1>2, <1>3, <1>4, <1>5, <1>6, <1>8
  <2>2. l = <<s, i>>
    BY SMTT(30), <1>8, Logicals DEF i
  <2>3. i \in Live(d, s) <=> InfoAt(d, l).written /\ ~IsDead(d, l)
    BY Zenon, <1>2, <2>2 DEF Live, Dead, IsDead
  <2>4. CASE i \in Live(d, s)
    <3>1. q.nor[w].info[i] = d.nor[u].info[i] /\ q.nor[w].block[i] = d.nor[u].block[i]
      BY SMTT(30), <1>2, <1>5, <2>1, <2>4
    <3>2. SameAt(d, q, l)
      BY Zenon, <1>2, <1>3, <3>1 DEF SameAt
    <3> QED  BY <2>3, <2>4, <3>2
  <2>5. CASE i \notin Live(d, s)
    <3>1. q.nor[w].info[i] = BlankInfo /\ q.nor[w].block[i] = BlankBlock
      BY SMTT(30), <1>2, <1>5, <2>1, <2>5
    <3>2. InfoAt(q, l) = BlankInfo /\ MapAt(q, l) = BlankMap /\ UserAt(q, l) = Nothing
      BY <1>3, <3>1 DEF BlankBlock
    <3>3. ~InfoAt(d, l).written =>
            InfoAt(d, l) = BlankInfo /\ MapAt(d, l) = BlankMap /\ UserAt(d, l) = Nothing
      BY DEF Good, Blanks
    <3>4. IsDead(d, l) \/ SameAt(d, q, l)
      BY <2>3, <2>5, <3>2, <3>3 DEF SameAt
    <3> QED  BY <1>8, <3>2, <3>4
  <2> QED  BY SMTT(30), <2>4, <2>5
<1> QED  BY <1>7, <1>8

(* The blocks of a set of places in a sector are as many as the places.     *)
LEMMA PlacesCounted ==
  ASSUME NEW s \in Sector, NEW I \in SUBSET Index, NEW S, S = {<<s, i>> : i \in I}
  PROVE  S \subseteq Logical /\ IsFiniteSet(S) /\ Cardinality(S) = Cardinality(I)
<1> DEFINE f == [i \in I |-> <<s, i>>]
<1>1. IsFiniteSet(I)
  BY FiniteLogicals, FS_Subset
<1>2. f \in [I -> S] /\ \A i, j \in I : f[i] = f[j] => i = j
  OBVIOUS
<1>3. \A y \in S : \E i \in I : f[i] = y
  OBVIOUS
<1>4. f \in Bijection(I, S)
  BY <1>2, <1>3 DEF Bijection, Injection, Surjection, IsInjective
<1>5. ExistsBijection(I, S)
  BY <1>4 DEF ExistsBijection
<1>6. S \subseteq Logical
  BY DEF Logical
<1> QED  BY <1>1, <1>5, <1>6, FS_Bijection

(* ... and the counts.                                                     *)
LEMMA ReclaimedCount ==
  ASSUME NEW d, Good(d), NEW s \in Sector, NEW q, Reclaimed(d, q, s)
  PROVE  Counted(q, NotAllocated) /\ Scored(q)
<1> DEFINE dead == Dead(d, s)
           live == Live(d, s)
           D == {<<s, i>> : i \in dead}
           F == Free(d, NotAllocated)
           G == Free(q, NotAllocated)
<1>1. /\ d.ftl.alloc_free = Cardinality(F)
      /\ \A l \in F : ~d.ftl.allocated[l[1]]
      /\ Scored(d) /\ d.ftl.score \in [Sector -> Nat] /\ d.ftl.allocated \in [Sector -> BOOLEAN]
  BY DEF Good, Counted, Device, Ftl
<1>2. dead \subseteq Index /\ live \subseteq Index
  BY DEF Dead, Live
<1>3. D \subseteq Logical /\ IsFiniteSet(D) /\ Cardinality(D) = Cardinality(dead)
  BY <1>2, PlacesCounted
<1>4. \A l \in Logical : l \in D <=> l[1] = s /\ IsDead(d, l)
  <2> TAKE l \in Logical
  <2>1. l = <<l[1], l[2]>> /\ l[2] \in Index
    BY Logicals
  <2>2. ASSUME l \in D PROVE l[1] = s /\ IsDead(d, l)
    <3>1. PICK i \in dead : l = <<s, i>>
      BY <2>2
    <3> QED  BY <3>1 DEF Dead, IsDead
  <2>3. ASSUME l[1] = s, IsDead(d, l) PROVE l \in D
    <3>1. l = <<s, l[2]>>
      BY <2>1, <2>3
    <3>2. l[2] \in dead
      BY <2>1, <2>3, <3>1 DEF Dead, IsDead
    <3> QED  BY <3>1, <3>2
  <2> QED  BY <2>2, <2>3
<1>5. \A l \in Logical : /\ l \notin D => SameAt(d, q, l)
                         /\ l \in D => InfoAt(q, l) = BlankInfo
  BY <1>4, ReclaimedViews
<1>6. \A l \in Logical : l \in D => InfoAt(d, l).written
  BY <1>4 DEF IsDead
<1>7. \A l \in Logical : (l \in F <=> ~InfoAt(d, l).written) /\ (l \in G <=> ~InfoAt(q, l).written)
  BY Logicals DEF Free
<1>8. F \subseteq Logical /\ G \subseteq Logical /\ ~BlankInfo.written
  BY DEF Free, BlankInfo
<1> HIDE DEF F, G, D, dead, live
<1>9. G = F \cup D
  BY <1>3, <1>5, <1>6, <1>7, <1>8 DEF SameAt
<1>10. F \cap D = {}
  BY <1>3, <1>6, <1>7
<1>11. Cardinality(G) = Cardinality(F) + Cardinality(dead)
  <2>1. IsFiniteSet(F) /\ Cardinality(F) \in Nat
    BY FreeFinite DEF F
  <2>2. Cardinality(dead) \in Nat
    BY <1>2, FiniteLogicals, FS_Subset, FS_CardinalityType
  <2>3. Cardinality(F \cup D) = Cardinality(F) + Cardinality(D) - Cardinality({})
    BY <1>3, <1>10, <2>1, FS_Union
  <2>4. Cardinality({}) = 0
    BY SMTT(30), FS_EmptySet
  <2> QED  BY <1>3, <1>9, <2>1, <2>2, <2>3, <2>4
<1>12. /\ q.ftl.alloc_sector = s /\ q.ftl.alloc_mask = Index \ live
       /\ q.ftl.alloc_free = d.ftl.alloc_free + Cardinality(dead)
       /\ q.ftl.score = [d.ftl.score EXCEPT ![s] = 0]
       /\ q.ftl.allocated = Marking(d.ftl.allocated, s, live)
  BY DEF Reclaimed, dead, live
<1>13. \A i \in Index : i \in Index \ live <=> <<s, i>> \in G
  <2> TAKE i \in Index
  <2> DEFINE l == <<s, i>>
  <2>1. l \in Logical /\ l[1] = s /\ l = <<s, i>>
    BY DEF Logical
  <2>2. i \in live <=> InfoAt(d, l).written /\ ~IsDead(d, l)
    BY DEF Live, Dead, IsDead, live
  <2> HIDE DEF l
  <2>3. l \in D <=> IsDead(d, l)
    BY <1>4, <2>1
  <2>4. l \in F <=> ~InfoAt(d, l).written
    BY <1>7, <2>1
  <2>5. i \in Index \ live <=> l \in G
    BY <1>9, <2>2, <2>3, <2>4 DEF IsDead
  <2> QED  BY <2>1, <2>5
<1>14. Index \ live = {i \in Index : <<s, i>> \in G}
  BY <1>13
<1>15. \A l \in G : ~q.ftl.allocated[l[1]]
  <2> TAKE l \in G
  <2>1. l[1] \in Sector /\ l[2] \in Index /\ l = <<l[1], l[2]>> /\ l \in Logical
    BY <1>8, Logicals
  <2>2. CASE l[1] = s
    <3>1. l[2] \in Index \ live
      BY <1>13, <2>1, <2>2
    <3> QED  BY <1>1, <1>12, <2>1, <2>2, <3>1 DEF Marking
  <2>3. CASE l[1] # s
    <3>1. l \in F
      BY <1>4, <1>9, <2>1, <2>3
    <3> QED  BY <1>1, <1>12, <2>1, <2>3, <3>1 DEF Marking
  <2> QED  BY <2>2, <2>3
<1>16. Counted(q, NotAllocated)
  BY <1>1, <1>11, <1>12, <1>14, <1>15 DEF Counted, G
<1>17. Scored(q)
  <2> SUFFICES ASSUME NEW t \in Sector PROVE q.ftl.score[t] = Cardinality(Dead(q, t))
    BY DEF Scored
  <2>1. CASE t = s
    <3>1. ASSUME NEW i \in Index PROVE i \notin Dead(q, s)
      <4> DEFINE l == <<s, i>>
      <4>1. l \in Logical /\ l[1] = s /\ l = <<s, i>>
        BY DEF Logical
      <4> HIDE DEF l
      <4>2. l \in D \/ (~IsDead(d, l) /\ SameAt(d, q, l))
        BY <1>4, <1>5, <4>1
      <4>3. ~IsDead(q, l)
        BY <1>5, <1>8, <4>1, <4>2 DEF IsDead, SameAt
      <4> QED  BY <4>1, <4>3 DEF Dead, IsDead
    <3>2. Dead(q, s) = {}
      BY <3>1 DEF Dead
    <3>3. Cardinality({}) = 0
      BY FS_EmptySet
    <3> QED  BY <1>1, <1>12, <2>1, <3>2, <3>3
  <2>2. CASE t # s
    <3>1. \A i \in Index : InfoAt(q, <<t, i>>) = InfoAt(d, <<t, i>>)
      <4> TAKE i \in Index
      <4> DEFINE l == <<t, i>>
      <4>1. l \in Logical /\ l[1] = t /\ l = <<t, i>>
        BY DEF Logical
      <4> HIDE DEF l
      <4>2. SameAt(d, q, l)
        BY <1>4, <1>5, <2>2, <4>1
      <4> QED  BY <4>1, <4>2 DEF SameAt
    <3>2. Dead(q, t) = Dead(d, t)
      BY <3>1 DEF Dead
    <3> QED  BY <1>1, <1>12, <2>2, <3>2 DEF Scored
  <2> QED  BY <2>1, <2>2
<1> QED  BY <1>16, <1>17

(* Nothing is lost when a sector is reclaimed.                             *)
LEMMA ReclaimedKeeps ==
  ASSUME NEW d, Good(d), NEW s \in Sector, NEW q, Reclaimed(d, q, s)
  PROVE  Good(q) /\ SameData(d, q)
<1>2. Sectors(q) /\ Headers(q) /\ Counted(q, NotAllocated) /\ Scored(q)
  BY ReclaimedSectors, ReclaimedCount
<1>3. \A l \in Logical :
        /\ ~IsDead(d, l) => SameAt(d, q, l)
        /\ \/ SameAt(d, q, l)
           \/ InfoAt(q, l) = BlankInfo /\ MapAt(q, l) = BlankMap /\ UserAt(q, l) = Nothing
  BY SMTT(30), ReclaimedViews
<1>4. /\ q.ftl.block_table = d.ftl.block_table
      /\ q.ftl.xlate_table = d.ftl.xlate_table /\ q.ftl.xlate2_table = d.ftl.xlate2_table
      /\ q.ftl.xlate_logical = Reserved
      /\ IF Live(d, s) = {} THEN SameCache2(d, q) ELSE q.ftl.xlate2_logical = Reserved
      /\ q \in Device
  BY DEF Reclaimed
<1>5. \A l \in Logical : \A type, of :
        InfoAt(d, l) = Info(type, of) /\ type \in {XLATE, XLATE_SECONDARY, DATA_COMMITTED}
          => SameAt(d, q, l)
  BY <1>3, InfoFields, Distinct DEF IsDead
<1>6. MapAt(q, NotAllocated) = MapAt(d, NotAllocated)
  BY NotSeen
<1>7. \A seg \in Segments :
        /\ d.ftl.xlate_table[seg] \in Logical => SameAt(d, q, d.ftl.xlate_table[seg])
        /\ d.ftl.xlate2_table[seg] \in Logical => SameAt(d, q, d.ftl.xlate2_table[seg])
        /\ MapAt(q, d.ftl.xlate_table[seg]) = MapAt(d, d.ftl.xlate_table[seg])
        /\ MapAt(q, d.ftl.xlate2_table[seg]) = MapAt(d, d.ftl.xlate2_table[seg])
  <2> TAKE seg \in Segments
  <2>1. /\ d.ftl.xlate_table[seg] \in Logical => SameAt(d, q, d.ftl.xlate_table[seg])
        /\ d.ftl.xlate2_table[seg] \in Logical => SameAt(d, q, d.ftl.xlate2_table[seg])
    BY <1>5, TablesHold, Logicals
  <2>2. d.ftl.xlate_table[seg] \in Logical \cup {NotAllocated}
        /\ d.ftl.xlate2_table[seg] \in Logical \cup {NotAllocated}
    BY TablesHold
  <2> QED  BY <1>6, <2>1, <2>2 DEF SameAt
<1>8. \A a \in Address : ~Direct(a) => Primary(q, a) = Primary(d, a) /\ Secondary(q, a) = Secondary(d, a)
  BY <1>4, <1>7, Entered DEF Primary, Secondary
<1>9. \A a \in Address : Where(q, a) = Where(d, a)
  BY <1>4, <1>8 DEF Where
<1>10. \A a \in Address : Where(d, a) \in Logical => SameAt(d, q, Where(d, a))
  BY <1>5 DEF Good, AddressEntry
<1>11. Blanks(q)
  BY <1>3 DEF Good, Blanks, SameAt
<1>12. ASSUME NEW l \in Logical PROVE Used(q, l)
  <2>1. CASE SameAt(d, q, l)
    <3>1. Used(d, l)
      BY DEF Good
    <3> QED  BY <1>4, <1>9, <2>1, <3>1 DEF Used, SameAt
  <2>2. CASE InfoAt(q, l) = BlankInfo
    BY <2>2 DEF Used, BlankInfo
  <2> QED  BY <1>3, <2>1, <2>2
<1>13. ASSUME NEW seg \in Segments PROVE TableEntry(q, seg)
  <2>1. TableEntry(d, seg)
    BY DEF Good
  <2> QED  BY <1>4, <1>7, <2>1 DEF TableEntry, SameAt
<1>14. ASSUME NEW a \in Address PROVE AddressEntry(q, a)
  <2>1. AddressEntry(d, a)
    BY DEF Good
  <2> QED  BY <1>4, <1>8, <1>9, <1>10, <2>1 DEF AddressEntry, SameAt
<1>15. Cached(q)
  BY <1>4 DEF Cached
<1>16. Cached2(q)
  <2>1. CASE q.ftl.xlate2_logical = Reserved
    BY <2>1 DEF Cached2
  <2>2. CASE SameCache2(d, q)
    <3>1. Cached2(d)
      BY DEF Good
    <3> QED  BY <1>4, <1>7, <2>2, <3>1 DEF Cached2, SameCache2
  <2> QED  BY <1>4, <2>1, <2>2
<1>17. Good(q)
  BY <1>2, <1>4, <1>11, <1>12, <1>13, <1>14, <1>15, <1>16 DEF Good
<1>18. SameData(d, q)
  BY <1>9, <1>10 DEF SameData, SameAt
<1> QED  BY <1>17, <1>18

LEMMA ReclaimKeeps ==
  ASSUME NEW d, Good(d), NEW s \in Sector, NEW q, q = Reclaim(d, d.ftl.sector_table[s])
  PROVE  Good(q) /\ SameData(d, q) /\ (Sticks(q) <=> Sticks(d))
<1> DEFINE x == MarkedAt(d, s)
<1>1. IsMarked(d, x, s) /\ (Sticks(x) <=> Sticks(d)) /\ q = Finished(d, x, s)
  BY MarksUnit
<1> HIDE DEF x
<1>2. Reclaimed(d, q, s) /\ (Sticks(q) <=> Sticks(x))
  BY <1>1, Reclaims
<1> QED  BY <1>1, <1>2, ReclaimedKeeps
-----------------------------------------------------------------------------
(* Where power may be lost within an operation.                            *)

(* The flash and the tables hold what was written last to the addresses of  *)
(* set P, and nothing else.                                                *)
Keeps(d, P) ==
  \A a \in Address : /\ Where(d, a) \in Logical <=> a \in P
                     /\ a \in P => UserAt(d, Where(d, a)) = Current(a)

(* An operation that changes no data.                                      *)
LEMMA KeepsSame ==
  ASSUME NEW d, NEW r, NEW P \in SUBSET Address, SameData(d, r), Keeps(d, P)
  PROVE  Keeps(r, P)
BY DEF SameData, Keeps

(* A block that was reserved, and that the mount deletes.                   *)
Emptied(image, i) ==
  [image EXCEPT !.info[i] = Info(DELETED, -1), !.block = [@ EXCEPT ![i] = StaleBlock]]
HalfDone(g, n, t) ==
  /\ InfoAt([nor |-> n, ftl |-> g.ftl], t).written
  /\ InfoAt([nor |-> n, ftl |-> g.ftl], t).type = RESERVED
  /\ g.nor = [n EXCEPT ![UnitOf(g, t)] = Emptied(@, t[2])]

(* A block that was merged, and that the mount promotes.                    *)
HalfPromoted(g, n, seg) ==
  LET y == [nor |-> n, ftl |-> g.ftl, steps |-> << >>]
      l2 == g.ftl.xlate_table[seg]
  IN /\ l2 \in Logical /\ g.ftl.xlate2_table[seg] = NotAllocated
     /\ InfoAt(y, l2) = Info(XLATE_SECONDARY, seg)
     /\ g.nor = InfoType(y, "promote", l2, XLATE).nor

(* The unit of sector s is marked as a victim, and perhaps its blocks are     *)
(* copied: the mount reclaims it.                                          *)
HalfReclaimed(g, n, s) ==
  LET v == g.ftl.sector_table[s]
      r == g.ftl.reclaim
  IN /\ n[v] = Marked(g.nor[v], s) /\ n[r].info[0] = Info(RESERVED, -1)
     /\ \A u \in Unit : u # v /\ u # r => n[u] = g.nor[u]

(* What power may be lost in that has the mount program bits over zeros.     *)
LostInMerge == "promote" \in CrashBefore
LostInReclaim == CrashBefore \cap {"copy", "reclaim"} # {}

(* A mount finds all that was written on flash n, if that is the flash of a *)
(* good device g but for what a loss of power left half done.              *)
Damaged(g, n) ==
  \/ n = g.nor
  \/ n \in Flash /\ \E t \in Logical : HalfDone(g, n, t)
  \/ LostInMerge /\ n \in Flash /\ \E seg \in Segments : HalfPromoted(g, n, seg)
  \/ LostInReclaim /\ n \in Flash /\ \E s \in Sector : HalfReclaimed(g, n, s)
  \/ \E s \in Sector : Adopts(n, g, g.ftl.sector_table[s], s)
Survives(P, n) == \E g : Good(g) /\ g.steps = << >> /\ Keeps(g, P) /\ Damaged(g, n)

(* Power may be lost before any program so far.                            *)
Listing(s) == \E S : s \in Seq(S)
Ok(P, d) ==
  /\ d = [nor |-> d.nor, ftl |-> d.ftl, steps |-> d.steps] /\ Listing(d.steps)
  /\ \A k \in DOMAIN d.steps : d.steps[k].step \in CrashBefore => Survives(P, d.steps[k].before)

(* Power may be lost before this step.                                     *)
Survivable(P, d, step) == step \in CrashBefore => Survives(P, d.nor)

LEMMA OkPut ==
  ASSUME NEW P, NEW d, Ok(P, d), NEW step, Survivable(P, d, step),
         NEW u, NEW image, NEW sticks, NEW r, r = Put(d, step, u, image, sticks)
  PROVE  Ok(P, r)
<1> DEFINE new == [step |-> step, before |-> d.nor, sticks |-> sticks]
<1>1. CASE u \notin Unit
  BY <1>1 DEF Put
<1>2. CASE u \in Unit
  <2>1. d = [nor |-> d.nor, ftl |-> d.ftl, steps |-> d.steps]
    BY DEF Ok
  <2>2. PICK S : d.steps \in Seq(S)
    BY DEF Ok, Listing
  <2>3. /\ r = [nor |-> r.nor, ftl |-> r.ftl, steps |-> r.steps]
        /\ r.steps = Append(d.steps, new)
    BY <1>2, <2>1 DEF Put
  <2>4. d.steps \in Seq(S \cup {new}) /\ new \in S \cup {new}
    BY <2>2
  <2> DEFINE n == Len(d.steps)
  <2>5. /\ r.steps \in Seq(S \cup {new}) /\ DOMAIN d.steps = 1..n /\ n \in Nat
        /\ DOMAIN r.steps = 1..n + 1
        /\ r.steps[n + 1] = new /\ \A k \in 1..n : r.steps[k] = d.steps[k]
    BY <2>3, <2>4
  <2>6. new.step = step /\ new.before = d.nor
    OBVIOUS
  <2> HIDE DEF new, n
  <2>7. \A k : k \in 1..n + 1 <=> k \in 1..n \/ k = n + 1
    BY <2>5
  <2>8. \A k \in DOMAIN r.steps :
          r.steps[k].step \in CrashBefore => Survives(P, r.steps[k].before)
    BY <2>5, <2>6, <2>7 DEF Ok, Survivable
  <2> QED  BY <2>3, <2>5, <2>8 DEF Ok, Listing
<1> QED  BY <1>1, <1>2

(* The RAM does not matter.                                                *)
SameImage(d, r) ==
  r = [nor |-> d.nor, ftl |-> r.ftl, steps |-> d.steps]

LEMMA OkRam ==
  ASSUME NEW P, NEW d, Ok(P, d), NEW r, SameImage(d, r)
  PROVE  Ok(P, r) /\ r.nor = d.nor
BY DEF Ok, SameImage

(* Nor does whether the programs stick.                                    *)
LEMMA OkOverZeros ==
  ASSUME NEW P, NEW q, NEW d, Ok(P, d), NEW r, r = OverZeros(q, d)
  PROVE  Ok(P, r)
<1>1. /\ d = [nor |-> d.nor, ftl |-> d.ftl, steps |-> d.steps]
      /\ \A k \in DOMAIN d.steps : d.steps[k].step \in CrashBefore => Survives(P, d.steps[k].before)
  BY DEF Ok
<1>2. PICK S : d.steps \in Seq(S)
  BY DEF Ok, Listing
<1> DEFINE n == Len(d.steps)
<1>3. n \in Nat /\ DOMAIN d.steps = 1..n
  BY <1>2
<1> DEFINE Clear(k) == IF k \in DOMAIN q.steps THEN d.steps[k] ELSE [d.steps[k] EXCEPT !.sticks = FALSE]
<1>4. /\ r = [nor |-> d.nor, ftl |-> d.ftl, steps |-> r.steps]
      /\ r.steps = [k \in DOMAIN d.steps |-> Clear(k)]
  BY <1>1 DEF OverZeros
<1>5. \A k : Clear(k).step = d.steps[k].step /\ Clear(k).before = d.steps[k].before
  OBVIOUS
<1> HIDE DEF Clear
<1>6. r = [nor |-> r.nor, ftl |-> r.ftl, steps |-> r.steps]
  BY <1>4
<1> DEFINE T == {Clear(k) : k \in 1..n}
<1>7. r.steps = [k \in 1..n |-> Clear(k)] /\ \A k \in 1..n : Clear(k) \in T
  BY <1>3, <1>4
<1> HIDE DEF T, n
<1>8. r.steps \in Seq(T)
  BY <1>3, <1>7
<1>9. \A k \in DOMAIN r.steps : r.steps[k].step \in CrashBefore => Survives(P, r.steps[k].before)
  BY <1>1, <1>4, <1>5
<1> QED  BY <1>6, <1>8, <1>9 DEF Ok, Listing

LEMMA OkInfoType ==
  ASSUME NEW P, NEW d, Ok(P, d), NEW step, Survivable(P, d, step),
         NEW l, NEW type, NEW r, r = InfoType(d, step, l, type)
  PROVE  Ok(P, r)
BY OkPut DEF InfoType

LEMMA OkInfoEntry ==
  ASSUME NEW P, NEW d, Ok(P, d), NEW step, Survivable(P, d, step),
         NEW l, NEW type, NEW of, NEW r, r = InfoEntry(d, step, l, type, of)
  PROVE  Ok(P, r)
BY SMTT(30), OkPut DEF InfoEntry

LEMMA OkWriteEntry ==
  ASSUME NEW P, NEW d, Ok(P, d), NEW step, Survivable(P, d, step),
         NEW l, NEW e, NEW x, NEW r, r = WriteEntry(d, step, l, e, x)
  PROVE  Ok(P, r)
BY OkPut DEF WriteEntry

LEMMA OkWriteMap ==
  ASSUME NEW P, NEW d, Ok(P, d), NEW step, Survivable(P, d, step),
         NEW l, NEW map, NEW r, r = WriteMap(d, step, l, map)
  PROVE  Ok(P, r)
BY OkPut DEF WriteMap

LEMMA OkWriteUser ==
  ASSUME NEW P, NEW d, Ok(P, d), NEW step, Survivable(P, d, step),
         NEW l, NEW user, NEW r, r = WriteUser(d, step, l, user)
  PROVE  Ok(P, r)
BY OkPut DEF WriteUser

LEMMA OkDelete ==
  ASSUME NEW P, NEW d, Ok(P, d), NEW step, Survivable(P, d, step),
         NEW l, NEW r, r = Delete(d, step, l)
  PROVE  Ok(P, r)
<1> DEFINE x == InfoType(d, step, l, DELETED)
<1>1. x = InfoType(d, step, l, DELETED)
  OBVIOUS
<1>2. r = IF l[1] \in Sector THEN [x EXCEPT !.ftl.score[l[1]] = OneMore(@)] ELSE x
  BY DEF Delete
<1> HIDE DEF x
<1>3. Ok(P, x)
  BY <1>1, OkInfoType
<1>4. CASE l[1] \in Sector
  <2>1. r = [x EXCEPT !.ftl.score[l[1]] = OneMore(@)]
    BY <1>2, <1>4
  <2>2. SameImage(x, r)
    BY <1>3, <2>1 DEF Ok, SameImage
  <2> QED  BY <1>3, <2>2, OkRam
<1>5. CASE l[1] \notin Sector
  BY <1>2, <1>3, <1>5
<1> QED  BY <1>4, <1>5

(* The caches, and the allocation of a block.                              *)
LEMMA OkLoaded ==
  ASSUME NEW P, NEW d, Ok(P, d), NEW seg
  PROVE  /\ Ok(P, LoadXlate(d, seg)) /\ LoadXlate(d, seg).nor = d.nor
         /\ Ok(P, LoadXlate2(d, seg)) /\ LoadXlate2(d, seg).nor = d.nor
<1> DEFINE x == LoadXlate(d, seg)
           y == LoadXlate2(d, seg)
<1>1. SameImage(d, x)
  BY DEF LoadXlate, Ok, SameImage
<1>2. SameImage(d, y)
  BY DEF LoadXlate2, Ok, SameImage
<1> HIDE DEF x, y
<1>3. Ok(P, x) /\ x.nor = d.nor /\ Ok(P, y) /\ y.nor = d.nor
  BY <1>1, <1>2, OkRam
<1> QED  BY <1>3 DEF x, y

(* Fields of the RAM that are set.                                         *)
LEMMA Dropped2Image ==
  ASSUME NEW d, d = [nor |-> d.nor, ftl |-> d.ftl, steps |-> d.steps],
         NEW u, NEW v, NEW r, r = [d EXCEPT !.ftl.xlate2_logical = u, !.ftl.xlate2_cache = v]
  PROVE  SameImage(d, r)
BY DEF SameImage

LEMMA RefilledImage ==
  ASSUME NEW d, d = [nor |-> d.nor, ftl |-> d.ftl, steps |-> d.steps],
         NEW u, NEW v, NEW w,
         NEW r, r = [d EXCEPT !.ftl.alloc_sector = u, !.ftl.alloc_mask = v, !.ftl.allocated = w]
  PROVE  SameImage(d, r)
BY DEF SameImage

LEMMA TakenImage ==
  ASSUME NEW d, d = [nor |-> d.nor, ftl |-> d.ftl, steps |-> d.steps], NEW r, r = Take(d)
  PROVE  SameImage(d, r)
BY DEF SameImage, Take

LEMMA OkAllocate ==
  ASSUME NEW P, NEW d, Ok(P, d), NEW r, r = Allocate(d)
  PROVE  Ok(P, r) /\ r.nor = d.nor
<1> DEFINE x == Refilled(d)
           y == DropXlate2(d)
<1>0. d = [nor |-> d.nor, ftl |-> d.ftl, steps |-> d.steps]
  BY DEF Ok
<1>1. SameImage(d, y)
  BY Zenon, <1>0, Dropped2Image DEF DropXlate2
<1>2. SameImage(d, x)
  <2>1. CASE d.ftl.alloc_mask # {}
    <3>1. x = d
      BY <2>1 DEF Refilled
    <3> QED  BY <1>0, <3>1 DEF SameImage
  <2>2. CASE d.ftl.alloc_mask = {}
    <3>1. PICK s, mask, allocated :
            x = [y EXCEPT !.ftl.alloc_sector = s, !.ftl.alloc_mask = mask, !.ftl.allocated = allocated]
      BY Zenon, <2>2 DEF Refilled
    <3> HIDE DEF x, y
    <3>2. y = [nor |-> y.nor, ftl |-> y.ftl, steps |-> y.steps] /\ y.nor = d.nor /\ y.steps = d.steps
      BY <1>1 DEF SameImage
    <3>3. SameImage(y, x)
      BY Zenon, <3>1, <3>2, RefilledImage
    <3> QED  BY SMTT(30), <3>2, <3>3 DEF SameImage
  <2> QED  BY <2>1, <2>2
<1>3. r = Take(x)
  BY DEF Allocate
<1> HIDE DEF x, y
<1>4. x = [nor |-> x.nor, ftl |-> x.ftl, steps |-> x.steps] /\ x.nor = d.nor /\ x.steps = d.steps
  BY <1>2 DEF SameImage
<1>6. SameImage(x, r)
  BY <1>3, <1>4, TakenImage
<1>7. SameImage(d, r)
  BY <1>4, <1>6 DEF SameImage
<1> QED  BY <1>7, OkRam

(* The steps before which the theorems let power be lost: a mount finds all  *)
(* that was written, if need be after it has repaired the flash (Damaged).   *)
Recoverable == {"xlate", "xlate2", "merge", "reserve", "data", "written", "discard", "abandon",
                "promote", "victim", "copy", "reclaim", "sector"}
PowerLostWithin == CrashBefore \subseteq Recoverable

LEMMA QuietStep ==
  ASSUME PowerLostWithin, NEW P, NEW d, NEW step, step \notin Recoverable
  PROVE  Survivable(P, d, step)
BY DEF PowerLostWithin, Survivable

LEMMA OkEntered ==
  ASSUME PowerLostWithin, NEW P, NEW d, Ok(P, d), NEW e, NEW l
  PROVE  Ok(P, Entered1(d, e, l)) /\ Ok(P, Entered2(d, e, l))
<1> DEFINE x == WithEntry(d, e, l)
           y == WithEntry2(d, e, l)
           xw == WriteEntry(x, "map", d.ftl.xlate_logical, e, l)
           yw == WriteEntry(y, "map", d.ftl.xlate2_logical, e, l)
<1>1. SameImage(d, x) /\ SameImage(d, y)
  BY DEF WithEntry, WithEntry2, Ok, SameImage
<1>2. "map" \notin Recoverable /\ "commit" \notin Recoverable
  BY DEF Recoverable
<1> HIDE DEF x, y
<1>3. Ok(P, x) /\ Ok(P, y)
  BY <1>1, OkRam
<1>4. Survivable(P, x, "map") /\ Survivable(P, y, "map")
  BY <1>2, QuietStep
<1>5. Ok(P, xw) /\ Ok(P, yw)
  BY <1>3, <1>4, OkWriteEntry
<1> HIDE DEF xw, yw
<1>6. Survivable(P, xw, "commit") /\ Survivable(P, yw, "commit")
  BY <1>2, QuietStep
<1>7. /\ Ok(P, InfoType(xw, "commit", l, DATA_COMMITTED))
      /\ Ok(P, InfoType(yw, "commit", l, DATA_COMMITTED))
  BY <1>5, <1>6, OkInfoType
<1> QED  BY <1>7 DEF Entered1, Entered2, x, y, xw, yw

(* Nothing was in progress: nothing ages.                                  *)
LEMMA SettledNone ==
  ASSUME NEW image \in Flash
  PROVE  Settled(image, -1, FALSE) = image
<1> DEFINE no == FALSE
           new == Settled(image, -1, FALSE)
<1>1. AgesWell(-1, FALSE)
  <2>1. Nothing \in User
    BY Users
  <2> QED  BY <2>1, AgedNone DEF AgesWell
<1>2. /\ new \in Flash
      /\ \A u \in Unit : /\ new[u].info = image[u].info
                         /\ \A i \in Index :
                              /\ new[u].block[i].map = image[u].block[i].map
                              /\ new[u].block[i].user = Aged(-1, FALSE, image[u].block[i].user)
  <2>1. new = Settled(image, -1, no) /\ AgesWell(-1, no)
    BY <1>1
  <2> HIDE DEF new, no
  <2>2. /\ new \in Flash
        /\ \A u \in Unit : /\ new[u].info = image[u].info
                           /\ \A i \in Index :
                                /\ new[u].block[i].map = image[u].block[i].map
                                /\ new[u].block[i].user = Aged(-1, no, image[u].block[i].user)
    BY <2>1, SettledFlash
  <2> QED  BY <2>2 DEF no
<1> HIDE DEF new
<1>3. ASSUME NEW u \in Unit PROVE new[u] = image[u]
  <2>1. new[u] \in UnitImage /\ image[u] \in UnitImage
    BY <1>2 DEF Flash
  <2>2. ASSUME NEW i \in Index PROVE new[u].block[i] = image[u].block[i]
    <3>1. new[u].block[i] \in BlockImage /\ image[u].block[i] \in BlockImage
      BY <2>1 DEF UnitImage
    <3>2. image[u].block[i].user \in User
      BY <3>1 DEF BlockImage
    <3>3. new[u].block[i].user = image[u].block[i].user
      BY <1>2, <3>2, AgedNone
    <3>4. new[u].block[i].map = image[u].block[i].map
      BY <1>2
    <3> QED  BY <3>1, <3>3, <3>4 DEF BlockImage
  <2>3. new[u].block \in [Index -> BlockImage] /\ image[u].block \in [Index -> BlockImage]
    BY <2>1 DEF UnitImage
  <2>4. new[u].block = image[u].block
    BY <2>2, <2>3
  <2>5. new[u].info = image[u].info
    BY <1>2
  <2> QED  BY <2>1, <2>4, <2>5 DEF UnitImage
<1>4. new = image
  BY <1>2, <1>3 DEF Flash
<1> QED  BY <1>4 DEF new

(* The list of the programs is dropped when an operation is over.          *)
LEMMA OperationOver ==
  ASSUME NEW d, Good(d), NEW r, r = [nor |-> d.nor, ftl |-> d.ftl, steps |-> << >>]
  PROVE  Good(r) /\ SameData(d, r)
<1>1. d.nor \in Flash
  BY DEF Good, Device
<1>2. r = Later(d, -1, FALSE)
  BY <1>1, SettledNone DEF Later
<1>3. AgesWell(-1, FALSE)
  <2>1. Nothing \in User
    BY Users
  <2> QED  BY <2>1, AgedNone DEF AgesWell
<1> DEFINE no == FALSE
<1>4. /\ Good(r)
      /\ \A b \in Address : Where(r, b) = Where(d, b)
      /\ \A m \in Logical : UserAt(r, m) = Aged(-1, no, UserAt(d, m))
  <2>1. r = Later(d, -1, no) /\ AgesWell(-1, no)
    BY <1>2, <1>3
  <2> HIDE DEF no
  <2> QED  BY <2>1, Settles
<1>5. \A m \in Logical : UserAt(r, m) = UserAt(d, m)
  <2>1. \A m \in Logical : UserAt(d, m) \in User
    BY Seen DEF Good
  <2> QED  BY <1>4, <2>1, AgedNone
<1> QED  BY <1>4, <1>5 DEF SameData

(* What is entered, or forgotten, in the translation of an address.         *)
LEMMA OkUnmapped ==
  ASSUME PowerLostWithin, NEW P, NEW d, Ok(P, d), NEW e
  PROVE  Ok(P, Unmapped(d, e)) /\ Ok(P, Unmapped2(d, e))
<1> DEFINE x == WithEntry(d, e, Deleted)
           y == WithEntry2(d, e, Deleted)
<1>1. SameImage(d, x) /\ SameImage(d, y)
  BY DEF WithEntry, WithEntry2, Ok, SameImage
<1>2. "unmap" \notin Recoverable
  BY DEF Recoverable
<1> HIDE DEF x, y
<1>3. Ok(P, x) /\ Ok(P, y)
  BY <1>1, OkRam
<1>4. Survivable(P, x, "unmap") /\ Survivable(P, y, "unmap")
  BY <1>2, QuietStep
<1>5. /\ Ok(P, WriteEntry(x, "unmap", d.ftl.xlate_logical, e, Deleted))
      /\ Ok(P, WriteEntry(y, "unmap", d.ftl.xlate2_logical, e, Deleted))
  BY <1>3, <1>4, OkWriteEntry
<1> QED  BY <1>5 DEF Unmapped, Unmapped2, x, y

LEMMA OkDeleted ==
  ASSUME PowerLostWithin, NEW P, NEW d, Ok(P, d), NEW l
  PROVE  Ok(P, Delete(d, "delete", l))
<1>1. "delete" \notin Recoverable
  BY DEF Recoverable
<1>2. Survivable(P, d, "delete")
  BY <1>1, QuietStep
<1> QED  BY <1>2, OkDelete

LEMMA OkModify ==
  ASSUME PowerLostWithin, NEW P, NEW x, Ok(P, x), NEW a, NEW l
  PROVE  Ok(P, Modify(x, a, l))
<1> DEFINE y == LoadXlate(x, Segment(a))
           z == LoadXlate2(y, Segment(a))
           e == XlateIndex(a)
           old == y.ftl.xlate_cache[e]
           p == Entered2(z, e, l)
           u == Unmapped(p, e)
<1>1. Modify(x, a, l) = IF old = NotAllocated THEN Entered1(y, e, l)
                        ELSE IF old = Deleted THEN p
                        ELSE Delete(u, "delete", old)
  BY ModifyIs
<1>2. y = LoadXlate(x, Segment(a)) /\ z = LoadXlate2(y, Segment(a))
      /\ p = Entered2(z, e, l) /\ u = Unmapped(p, e)
  OBVIOUS
<1> HIDE DEF y, z, e, old, p, u
<1>3. Ok(P, y)
  BY <1>2, OkLoaded
<1>4. Ok(P, z)
  BY <1>2, <1>3, OkLoaded
<1>5. Ok(P, Entered1(y, e, l)) /\ Ok(P, p)
  BY <1>2, <1>3, <1>4, OkEntered
<1>6. Ok(P, u)
  BY <1>2, <1>5, OkUnmapped
<1>7. Ok(P, Delete(u, "delete", old))
  BY <1>6, OkDeleted
<1> QED  BY <1>1, <1>5, <1>7

LEMMA OkTrim ==
  ASSUME PowerLostWithin, NEW P, NEW x, Ok(P, x), NEW a, NEW l
  PROVE  Ok(P, Trim(x, a, l))
<1> DEFINE y == LoadXlate(x, Segment(a))
           z == LoadXlate2(y, Segment(a))
           e == XlateIndex(a)
           w == IF y.ftl.xlate_cache[e] # Deleted THEN Unmapped(y, e)
                ELSE IF y.ftl.xlate2_table[Segment(a)] = NotAllocated THEN y
                ELSE Unmapped2(z, e)
<1>1. Trim(x, a, l) = Delete(w, "delete", l)
  BY TrimIs
<1>2. y = LoadXlate(x, Segment(a)) /\ z = LoadXlate2(y, Segment(a))
  OBVIOUS
<1>3. w = Unmapped(y, e) \/ w = y \/ w = Unmapped2(z, e)
  OBVIOUS
<1> HIDE DEF y, z, e, w
<1>4. Ok(P, y)
  BY <1>2, OkLoaded
<1>5. Ok(P, z)
  BY <1>2, <1>4, OkLoaded
<1>6. Ok(P, Unmapped(y, e)) /\ Ok(P, Unmapped2(z, e))
  BY <1>4, <1>5, OkUnmapped
<1>7. Ok(P, w)
  BY <1>3, <1>4, <1>6
<1> QED  BY <1>1, <1>7, OkDeleted

(* A new translation block.                                                *)
LEMMA TabledImage ==
  ASSUME NEW d, d = [nor |-> d.nor, ftl |-> d.ftl, steps |-> d.steps],
         NEW seg, NEW l, NEW m,
         NEW r, r = [d EXCEPT !.ftl.xlate_table[seg] = l, !.ftl.xlate_logical = l,
                              !.ftl.xlate_cache = m]
  PROVE  SameImage(d, r)
BY DEF SameImage

LEMMA Tabled2Image ==
  ASSUME NEW d, d = [nor |-> d.nor, ftl |-> d.ftl, steps |-> d.steps],
         NEW seg, NEW l, NEW m,
         NEW r, r = [d EXCEPT !.ftl.xlate2_table[seg] = l, !.ftl.xlate2_logical = l,
                              !.ftl.xlate2_cache = m]
  PROVE  SameImage(d, r)
BY DEF SameImage

LEMMA OkNewXlate ==
  ASSUME NEW P, NEW d, Ok(P, d), NEW seg
  PROVE  /\ Survivable(P, d, "xlate") => Ok(P, NewXlate(d, seg))
         /\ Survivable(P, d, "xlate2") => Ok(P, NewXlate2(d, seg))
<1> DEFINE q == Allocate(d)
           l == NextFree(d)
           x == [q EXCEPT !.ftl.xlate_table[seg] = l, !.ftl.xlate_logical = l,
                          !.ftl.xlate_cache = BlankMap]
           y == [q EXCEPT !.ftl.xlate2_table[seg] = l, !.ftl.xlate2_logical = l,
                          !.ftl.xlate2_cache = BlankMap]
<1>1. NewXlate(d, seg) = InfoEntry(x, "xlate", l, XLATE, seg)
      /\ NewXlate2(d, seg) = InfoEntry(y, "xlate2", l, XLATE_SECONDARY, seg)
  BY DEF NewXlate, NewXlate2
<1>2. Ok(P, q) /\ q.nor = d.nor
  BY OkAllocate
<1>3. q = [nor |-> q.nor, ftl |-> q.ftl, steps |-> q.steps]
  BY <1>2 DEF Ok
<1> HIDE DEF q, l
<1>4. SameImage(q, x) /\ SameImage(q, y)
  BY Zenon, <1>3, TabledImage, Tabled2Image
<1> HIDE DEF x, y
<1>5. Ok(P, x) /\ Ok(P, y) /\ x.nor = d.nor /\ y.nor = d.nor
  BY <1>2, <1>4, OkRam
<1>6. /\ Survivable(P, d, "xlate") => Survivable(P, x, "xlate")
      /\ Survivable(P, d, "xlate2") => Survivable(P, y, "xlate2")
  BY <1>5 DEF Survivable
<1>7. ASSUME Survivable(P, d, "xlate") PROVE Ok(P, NewXlate(d, seg))
  <2>1. Ok(P, x) /\ Survivable(P, x, "xlate")
    BY <1>5, <1>6, <1>7
  <2>2. Ok(P, InfoEntry(x, "xlate", l, XLATE, seg))
    BY <2>1, OkInfoEntry
  <2> QED  BY <1>1, <2>2
<1>8. ASSUME Survivable(P, d, "xlate2") PROVE Ok(P, NewXlate2(d, seg))
  <2>1. Ok(P, y) /\ Survivable(P, y, "xlate2")
    BY <1>5, <1>6, <1>8
  <2>2. Ok(P, InfoEntry(y, "xlate2", l, XLATE_SECONDARY, seg))
    BY <2>1, OkInfoEntry
  <2> QED  BY <1>1, <2>2
<1> QED  BY <1>7, <1>8
-----------------------------------------------------------------------------
(* Power is lost in a merge.                                               *)

(* The secondary block has taken the place of the other, and there is no    *)
(* new one yet: what a mount finds on the flash.                           *)
Unpaired(d, seg) ==
  [d EXCEPT !.ftl.xlate2_table[seg] = NotAllocated, !.ftl.xlate2_logical = Reserved]

(* What segment seg without its second translation block leaves as it was. *)
LeftAlone(d, seg, h) ==
  /\ h \in Device /\ SameFlash(d, h)
  /\ h.ftl.sector_table = d.ftl.sector_table /\ h.ftl.block_table = d.ftl.block_table
  /\ h.ftl.xlate_table = d.ftl.xlate_table
  /\ h.ftl.xlate2_table = [d.ftl.xlate2_table EXCEPT ![seg] = NotAllocated]
  /\ h.ftl.reclaim = d.ftl.reclaim /\ h.ftl.score = d.ftl.score
  /\ SameCache(d, h) /\ SameAlloc(d, h) /\ h.ftl.xlate2_logical = Reserved

LEMMA UnpairedRam ==
  ASSUME NEW d \in Device, NEW seg \in Segments, NEW h, h = Unpaired(d, seg)
  PROVE  LeftAlone(d, seg, h)
<1> DEFINE table == [d.ftl.xlate2_table EXCEPT ![seg] = NotAllocated]
<1>1. d = [nor |-> d.nor, ftl |-> d.ftl, steps |-> d.steps] /\ d.ftl \in Ftl
      /\ NotAllocated \in Content
  BY DEF Device, Content
<1>2. table \in [Segments -> Content]
  BY <1>1 DEF Ftl
<1>3. h = [d EXCEPT !.ftl = [d.ftl EXCEPT !.xlate2_table = table, !.xlate2_logical = Reserved]]
  BY <1>1 DEF Unpaired, Ftl
<1> HIDE DEF table
<1>4. /\ SameFlash(d, h) /\ h = [nor |-> d.nor, ftl |-> h.ftl, steps |-> d.steps]
      /\ h.ftl = [d.ftl EXCEPT !.xlate2_table = table, !.xlate2_logical = Reserved]
  BY <1>1, <1>3 DEF SameFlash
<1>5. /\ h.ftl.sector_table = d.ftl.sector_table /\ h.ftl.block_table = d.ftl.block_table
      /\ h.ftl.xlate_table = d.ftl.xlate_table /\ h.ftl.xlate2_table = table
      /\ h.ftl.reclaim = d.ftl.reclaim /\ h.ftl.score = d.ftl.score
      /\ SameCache(d, h) /\ SameAlloc(d, h) /\ h.ftl.xlate2_logical = Reserved
      /\ h.ftl \in Ftl
  BY ZenonT(40), <1>1, <1>2, <1>4 DEF SameCache, SameAlloc, Ftl
<1>6. h \in Device
  BY <1>1, <1>4, <1>5 DEF Device
<1> QED  BY ZenonT(40), <1>4, <1>5, <1>6 DEF LeftAlone, table

LEMMA MergeUnpaired ==
  ASSUME NEW d, Good(d), NEW seg \in Segments,
         NEW l \in Logical, NEW l2 \in Logical,
         l = d.ftl.xlate_table[seg], l2 = d.ftl.xlate2_table[seg],
         d.ftl.xlate_logical = l, d.ftl.xlate2_logical = l2,
         NEW d3, d3 = MergeStart(d, seg, l, l2), NEW h, h = Unpaired(d3, seg)
  PROVE  /\ Good(h) /\ SameData(d, h) /\ h.nor = d3.nor
         /\ h.ftl.xlate_table[seg] = l2 /\ h.ftl.xlate2_table[seg] = NotAllocated
         /\ h.ftl.sector_table = d.ftl.sector_table
<1>3. /\ InfoAt(d, l) = Info(XLATE, seg) /\ InfoAt(d, l2) = Info(XLATE_SECONDARY, seg)
      /\ l # NotAllocated /\ l2 # NotAllocated
  BY TablesHold, Logicals
<1>4. d \in Device /\ Sectors(d) /\ Headers(d) /\ Blanks(d)
  BY DEF Good
<1>5. /\ d3 \in Device /\ l # l2 /\ (Sticks(d3) <=> Sticks(d))
      /\ d3.ftl.sector_table = d.ftl.sector_table /\ d3.ftl.block_table = d.ftl.block_table
      /\ d3.ftl.xlate_table = [d.ftl.xlate_table EXCEPT ![seg] = l2]
      /\ d3.ftl.xlate2_table = d.ftl.xlate2_table /\ d3.ftl.reclaim = d.ftl.reclaim
      /\ d3.ftl.score = [d.ftl.score EXCEPT ![l[1]] = OneMore(@)]
      /\ d3.ftl.xlate_logical = l2 /\ d3.ftl.xlate_cache = Merged(d)
      /\ SameAlloc(d, d3)
      /\ \A m \in Logical : m # l /\ m # l2 => SameAt(d, d3, m)
      /\ \A u \in Unit : d3.nor[u].info[0] = d.nor[u].info[0]
      /\ d3.nor[d.ftl.reclaim] = d.nor[d.ftl.reclaim]
      /\ InfoAt(d3, l) = Info(DELETED, -1) /\ MapAt(d3, l) = BlankMap /\ UserAt(d3, l) = Stale
      /\ InfoAt(d3, l2) = Info(XLATE, seg) /\ MapAt(d3, l2) = Merged(d)
      /\ UserAt(d3, l2) = UserAt(d, l2)
  <2>1. HalfMerged(d, seg, l, l2, d3)
    BY SMTT(30), MergeHalf
  <2> QED  BY Zenon, <2>1 DEF HalfMerged
<1>6. /\ h \in Device /\ SameFlash(d3, h)
      /\ h.ftl.sector_table = d3.ftl.sector_table /\ h.ftl.block_table = d3.ftl.block_table
      /\ h.ftl.xlate_table = d3.ftl.xlate_table
      /\ h.ftl.xlate2_table = [d3.ftl.xlate2_table EXCEPT ![seg] = NotAllocated]
      /\ h.ftl.reclaim = d3.ftl.reclaim /\ h.ftl.score = d3.ftl.score
      /\ SameCache(d3, h) /\ SameAlloc(d3, h) /\ h.ftl.xlate2_logical = Reserved
  <2>1. d3 \in Device
    BY ZenonT(40), <1>5
  <2>2. LeftAlone(d3, seg, h)
    BY Zenon, <2>1, UnpairedRam
  <2> QED  BY Zenon, <2>2 DEF LeftAlone
<1>7. (\A m : SameAt(d3, h, m)) /\ h.nor = d3.nor
  BY ZenonT(40), <1>6, SameViews DEF SameFlash
<1>8. /\ \A m \in Logical : m # l /\ m # l2 => SameAt(d, h, m)
      /\ InfoAt(h, l) = Info(DELETED, -1) /\ MapAt(h, l) = BlankMap /\ UserAt(h, l) = Stale
      /\ InfoAt(h, l2) = Info(XLATE, seg) /\ MapAt(h, l2) = Merged(d) /\ UserAt(h, l2) = UserAt(d, l2)
  BY ZenonT(40), <1>5, <1>7 DEF SameAt
<1>9. Counted(h, NotAllocated)
  <2>1. \A m \in Logical : InfoAt(h, m).written <=> InfoAt(d, m).written
    BY <1>3, <1>8, InfoFields DEF SameAt
  <2>2. Free(h, NotAllocated) = Free(d, NotAllocated)
    BY SMTT(30), <2>1 DEF Free
  <2>3. SameAlloc(d, d3) /\ SameAlloc(d3, h)
    BY Zenon, <1>5, <1>6
  <2>4. Counted(d, NotAllocated)
    BY DEF Good
  <2> QED  BY ZenonT(40), <2>2, <2>3, <2>4 DEF Counted, SameAlloc
<1>13. MapAt(h, NotAllocated) = BlankMap /\ MapAt(d, NotAllocated) = BlankMap
  BY NotSeen
<1>14. /\ h.ftl.xlate_table[seg] = l2 /\ h.ftl.xlate2_table[seg] = NotAllocated
       /\ \A s \in Segments : s # seg => /\ h.ftl.xlate_table[s] = d.ftl.xlate_table[s]
                                         /\ h.ftl.xlate2_table[s] = d.ftl.xlate2_table[s]
  <2>1. DOMAIN d.ftl.xlate2_table = Segments /\ DOMAIN d.ftl.xlate_table = Segments
    BY <1>4 DEF Device, Ftl
  <2>2. /\ h.ftl.xlate_table = [d.ftl.xlate_table EXCEPT ![seg] = l2]
        /\ h.ftl.xlate2_table = [d.ftl.xlate2_table EXCEPT ![seg] = NotAllocated]
    BY <1>5, <1>6, Zenon
  <2> QED  BY <2>1, <2>2
<1>15. \A s \in Segments : s # seg =>
         /\ d.ftl.xlate_table[s] \notin {l, l2} /\ d.ftl.xlate2_table[s] \notin {l, l2}
         /\ d.ftl.xlate_table[s] \in Logical \cup {NotAllocated}
         /\ d.ftl.xlate2_table[s] \in Logical \cup {NotAllocated}
  BY <1>3, TablesHold, InfoFields, Distinct
<1>16. \A a \in Address : Where(d, a) \in Logical => Where(d, a) \notin {l, l2}
  BY <1>3, InfoFields, Distinct DEF Good, AddressEntry
<1>17. ASSUME NEW a \in Address, ~Direct(a), Segment(a) = seg
       PROVE  /\ Secondary(h, a) = NotAllocated
              /\ Primary(h, a) = IF Secondary(d, a) # NotAllocated THEN Secondary(d, a)
                                 ELSE Primary(d, a)
  <2>1. XlateIndex(a) \in Entry
    BY SMTT(30), <1>17, Entered
  <2>2. Secondary(h, a) = NotAllocated
    BY ZenonT(40), <1>13, <1>14, <1>17, <2>1, BlankEntries DEF Secondary
  <2>3. d.ftl.xlate_cache = MapAt(d, l) /\ d.ftl.xlate2_cache = MapAt(d, l2)
    BY Logicals DEF Good, Cached, Cached2
  <2>4. Primary(h, a) = Merged(d)[XlateIndex(a)]
    BY Zenon, <1>8, <1>14, <1>17 DEF Primary
  <2>5. Secondary(d, a) = MapAt(d, l2)[XlateIndex(a)] /\ Primary(d, a) = MapAt(d, l)[XlateIndex(a)]
    BY <1>17 DEF Primary, Secondary
  <2> QED  BY <2>1, <2>2, <2>3, <2>4, <2>5 DEF Merged
<1>18. ASSUME NEW a \in Address, ~Direct(a), Segment(a) # seg
       PROVE  Primary(h, a) = Primary(d, a) /\ Secondary(h, a) = Secondary(d, a)
  <2>1. Segment(a) \in Segments
    BY SMTT(30), <1>18, Entered
  <2> DEFINE s == Segment(a)
  <2>2. /\ h.ftl.xlate_table[s] = d.ftl.xlate_table[s] /\ h.ftl.xlate2_table[s] = d.ftl.xlate2_table[s]
        /\ d.ftl.xlate_table[s] \notin {l, l2} /\ d.ftl.xlate2_table[s] \notin {l, l2}
        /\ d.ftl.xlate_table[s] \in Logical \cup {NotAllocated}
        /\ d.ftl.xlate2_table[s] \in Logical \cup {NotAllocated}
    BY Zenon, <1>14, <1>15, <1>18, <2>1
  <2> HIDE DEF s
  <2>3. /\ MapAt(h, d.ftl.xlate_table[s]) = MapAt(d, d.ftl.xlate_table[s])
        /\ MapAt(h, d.ftl.xlate2_table[s]) = MapAt(d, d.ftl.xlate2_table[s])
    BY SMTT(30), <1>8, <1>13, <2>2 DEF SameAt
  <2> QED  BY <2>2, <2>3 DEF Primary, Secondary, s
<1>19. \A a \in Address : Where(h, a) = Where(d, a)
  <2>1. \A a \in Address : AddressEntry(d, a)
    BY SMTT(30) DEF Good
  <2>2. h.ftl.block_table = d.ftl.block_table
    BY Zenon, <1>5, <1>6
  <2> QED  BY <1>17, <1>18, <2>1, <2>2, Logicals DEF Where, AddressEntry
<1>20. SameData(d, h)
  BY <1>8, <1>16, <1>19 DEF SameData, SameAt
<1>21. Sectors(h) /\ Headers(h)
  <2>1. h.ftl.sector_table = d.ftl.sector_table /\ h.ftl.reclaim = d.ftl.reclaim
    BY ZenonT(40), <1>5, <1>6
  <2>2. \A u \in Unit : h.nor[u].info[0] = d.nor[u].info[0]
    BY ZenonT(40), <1>5, <1>7
  <2>3. h.nor[d.ftl.reclaim] = d.nor[d.ftl.reclaim]
    BY Zenon, <1>5, <1>7
  <2>4. Sectors(h)
    BY SMTT(30), <1>4, <2>1 DEF Sectors
  <2>5. Headers(h)
    <3>1. \A s \in Sector : d.ftl.sector_table[s] \in Unit
      BY <1>4 DEF Sectors
    <3> QED  BY Zenon, <1>4, <2>1, <2>2, <2>3, <3>1 DEF Headers
  <2> QED  BY SMTT(30), <2>4, <2>5
<1>22. Blanks(h)
  BY <1>4, <1>8, InfoFields DEF Blanks, SameAt
<1>23. ASSUME NEW m \in Logical PROVE Used(h, m)
  <2>1. CASE m = l
    <3>1. InfoAt(h, m) = Info(DELETED, -1)
      BY Zenon, <1>8, <2>1
    <3> QED  BY <3>1, InfoFields DEF Used
  <2>2. CASE m = l2
    <3>1. InfoAt(h, m) = Info(XLATE, seg) /\ h.ftl.xlate_table[seg] = m
      BY Zenon, <1>8, <1>14, <2>2
    <3> QED  BY <3>1, InfoFields DEF Used
  <2>4. CASE m # l /\ m # l2
    <3>1. InfoAt(h, m) = InfoAt(d, m) /\ Used(d, m)
      BY <1>8, <2>4 DEF Good, SameAt
    <3>2. ~InfoAt(h, m).written \/ InfoAt(h, m).type = DELETED
          \/ /\ InfoAt(h, m).type = XLATE /\ InfoAt(h, m).of \in Segments
             /\ d.ftl.xlate_table[InfoAt(h, m).of] = m
          \/ /\ InfoAt(h, m).type = XLATE_SECONDARY /\ InfoAt(h, m).of \in Segments
             /\ d.ftl.xlate2_table[InfoAt(h, m).of] = m
          \/ /\ InfoAt(h, m).type = DATA_COMMITTED /\ InfoAt(h, m).of \in Address
             /\ Where(d, InfoAt(h, m).of) = m
      BY <3>1, Zenon DEF Used
    <3>3. \A k \in Segments : /\ d.ftl.xlate_table[k] = m => h.ftl.xlate_table[k] = m
                              /\ d.ftl.xlate2_table[k] = m => h.ftl.xlate2_table[k] = m
      BY Zenon, <1>14, <2>4
    <3> QED  BY Zenon, <1>19, <3>2, <3>3 DEF Used
  <2> QED  BY SMTT(30), <2>1, <2>2, <2>4
<1>24. ASSUME NEW s \in Segments PROVE TableEntry(h, s)
  <2>1. CASE s = seg
    BY ZenonT(40), <1>8, <1>14, <2>1, Logicals DEF TableEntry
  <2>2. CASE s # seg
    <3>1. TableEntry(d, s)
      BY DEF Good
    <3> QED  BY Zenon, <1>8, <1>14, <1>15, <2>2, <3>1 DEF TableEntry, SameAt
  <2> QED  BY SMTT(30), <2>1, <2>2
<1>25. ASSUME NEW a \in Address PROVE AddressEntry(h, a)
  <2>1. AddressEntry(d, a)
    BY DEF Good
  <2>2. Where(h, a) \in Logical => InfoAt(h, Where(h, a)) = Info(DATA_COMMITTED, a)
    BY SMTT(30), <1>8, <1>16, <1>19, <2>1 DEF AddressEntry, SameAt
  <2>3. h.ftl.block_table = d.ftl.block_table
    BY Zenon, <1>5, <1>6
  <2>4. CASE Direct(a)
    BY <2>1, <2>2, <2>3, <2>4 DEF AddressEntry
  <2>5. CASE ~Direct(a)
    <3>1. /\ Primary(d, a) \in Named /\ Secondary(d, a) \in Named
          /\ Secondary(d, a) # NotAllocated => Primary(d, a) = Deleted
      BY <2>1, <2>5 DEF AddressEntry
    <3>2. /\ Primary(h, a) \in Named /\ Secondary(h, a) \in Named
          /\ Secondary(h, a) # NotAllocated => Primary(h, a) = Deleted
      BY SMTT(30), <1>17, <1>18, <2>5, <3>1 DEF Named
    <3> QED  BY <2>2, <2>5, <3>2 DEF AddressEntry
  <2> QED  BY <2>4, <2>5
<1>26. Cached(h) /\ Cached2(h)
  <2>1. h.ftl.xlate_logical = l2 /\ h.ftl.xlate_cache = MapAt(h, l2)
    <3>1. d3.ftl.xlate_logical = l2 /\ d3.ftl.xlate_cache = Merged(d) /\ SameCache(d3, h)
      BY Zenon, <1>5, <1>6
    <3>2. MapAt(h, l2) = Merged(d)
      BY SMTT(30), <1>8
    <3> QED  BY SMTT(30), <3>1, <3>2 DEF SameCache
  <2>2. l2 = h.ftl.xlate_table[seg] /\ h.ftl.xlate2_logical = Reserved
    BY Zenon, <1>6, <1>14
  <2> QED  BY Zenon, <2>1, <2>2 DEF Cached, Cached2
<1>27. Scored(h)
  <2>1. \A m \in Logical : IsDead(h, m) <=> IsDead(d, m) \/ m = l
    BY <1>3, <1>8, InfoFields, Distinct DEF IsDead, SameAt
  <2>2. ~IsDead(d, l) /\ Scored(d)
    BY SMTT(30), <1>3, InfoFields, Distinct DEF IsDead, Good
  <2>3. h.ftl.score = [d.ftl.score EXCEPT ![l[1]] = OneMore(@)]
    BY Zenon, <1>5, <1>6
  <2>4. d \in Device
    BY SMTT(30), <1>4
  <2> QED  BY <2>1, <2>2, <2>3, <2>4, Scores
<1>28. Good(h)
  BY Zenon, <1>6, <1>9, <1>21, <1>22, <1>23, <1>24, <1>25, <1>26, <1>27 DEF Good
<1> QED  BY Zenon, <1>5, <1>6, <1>7, <1>14, <1>20, <1>28

(* What a program of an info word makes of the flash.                       *)
LEMMA InfoTypeImage ==
  ASSUME NEW x, x = [nor |-> x.nor, ftl |-> x.ftl, steps |-> x.steps],
         NEW y, y = [nor |-> y.nor, ftl |-> y.ftl, steps |-> y.steps],
         NEW l, x.nor = y.nor, UnitOf(x, l) = UnitOf(y, l), NEW step, NEW type
  PROVE  InfoType(x, step, l, type).nor = InfoType(y, step, l, type).nor
<1> DEFINE u == UnitOf(x, l)
<1>1. InfoAt(x, l) = InfoAt(y, l)
  BY DEF InfoAt
<1>2. \A image, sticks : Put(x, step, u, image, sticks).nor = Put(y, step, u, image, sticks).nor
  <2> SUFFICES ASSUME NEW image, NEW sticks
               PROVE  Put(x, step, u, image, sticks).nor = Put(y, step, u, image, sticks).nor
    OBVIOUS
  <2> HIDE DEF u
  <2> QED  BY DEF Put
<1>3. UnitOf(x, l) = u /\ UnitOf(y, l) = u
  BY SMTT(30)
<1> HIDE DEF u
<1> QED  BY <1>1, <1>2, <1>3 DEF InfoType

(* The old block is deleted, and the new one is still a secondary block.     *)
LEMMA RetiredSurvivable ==
  ASSUME NEW P \in SUBSET Address, NEW d, Good(d), Keeps(d, P), NEW seg \in Segments,
         NEW l \in Logical, NEW l2 \in Logical,
         l = d.ftl.xlate_table[seg], l2 = d.ftl.xlate2_table[seg],
         d.ftl.xlate_logical = l, d.ftl.xlate2_logical = l2,
         NEW y, y = Retired(d, l, l2)
  PROVE  Survivable(P, y, "promote")
<1> DEFINE d3 == MergeStart(d, seg, l, l2)
           h == Unpaired(d3, seg)
           g == [nor |-> h.nor, ftl |-> h.ftl, steps |-> << >>]
           x == [nor |-> y.nor, ftl |-> g.ftl, steps |-> << >>]
<1>1. /\ d3 = MergeStart(d, seg, l, l2) /\ h = Unpaired(d3, seg)
      /\ g = [nor |-> h.nor, ftl |-> h.ftl, steps |-> << >>]
      /\ g.nor = h.nor /\ g.ftl = h.ftl /\ g.steps = << >>
      /\ x = [nor |-> y.nor, ftl |-> g.ftl, steps |-> << >>]
      /\ x = [nor |-> x.nor, ftl |-> x.ftl, steps |-> x.steps] /\ x.nor = y.nor /\ x.ftl = g.ftl
  BY SMTT(30)
<1> HIDE DEF d3, h, g, x
<1>2. /\ Good(h) /\ SameData(d, h) /\ h.nor = d3.nor
      /\ h.ftl.xlate_table[seg] = l2 /\ h.ftl.xlate2_table[seg] = NotAllocated
      /\ h.ftl.sector_table = d.ftl.sector_table
  BY SMTT(30), <1>1, MergeUnpaired
<1>3. /\ y \in Device /\ y.ftl.sector_table = d.ftl.sector_table
      /\ InfoAt(y, l2) = Info(XLATE_SECONDARY, seg)
      /\ d3.nor = InfoType(y, "promote", l2, XLATE).nor
  <2>1. HalfMerged(d, seg, l, l2, d3)
    BY SMTT(30), <1>1, MergeHalf
  <2> QED  BY Zenon, <2>1 DEF HalfMerged
<1>4. Good(g) /\ SameData(h, g)
  BY ZenonT(40), <1>1, <1>2, OperationOver
<1>5. Keeps(g, P)
  <2>1. Keeps(h, P)
    BY SMTT(30), <1>2, KeepsSame
  <2> QED  BY <1>4, <2>1, KeepsSame
<1>6. UnitOf(x, l2) = UnitOf(y, l2)
  BY ZenonT(40), <1>1, <1>2, <1>3 DEF UnitOf
<1>7. InfoAt(x, l2) = Info(XLATE_SECONDARY, seg)
  BY ZenonT(40), <1>1, <1>3, <1>6 DEF InfoAt
<1>8. g.nor = InfoType(x, "promote", l2, XLATE).nor
  <2>1. /\ y = [nor |-> y.nor, ftl |-> y.ftl, steps |-> y.steps]
        /\ x = [nor |-> x.nor, ftl |-> x.ftl, steps |-> x.steps] /\ x.nor = y.nor
    BY <1>1, <1>3 DEF Device
  <2>2. InfoType(x, "promote", l2, XLATE).nor = InfoType(y, "promote", l2, XLATE).nor
    BY SMTT(30), <1>6, <2>1, InfoTypeImage
  <2> QED  BY ZenonT(40), <1>1, <1>2, <1>3, <2>2
<1>9. HalfPromoted(g, y.nor, seg) /\ y.nor \in Flash
  BY Zenon, <1>1, <1>2, <1>3, <1>7, <1>8 DEF HalfPromoted, Device
<1> QED  BY Zenon, <1>1, <1>4, <1>5, <1>9 DEF Survivable, Survives, Damaged, LostInMerge
=============================================================================
