------------------------------- MODULE Sflash -------------------------------
(***************************************************************************)
(* The flash translation layer of dosfs_sflash.c: 512 byte blocks at        *)
(* addresses that may be rewritten and discarded, over a NOR flash whose    *)
(* bits can only be cleared until a whole erase unit is erased.            *)
(*                                                                         *)
(* Every erase unit starts with one info word per block of it; word 0 is    *)
(* the header of the unit.  A unit is a logical sector, except one, which   *)
(* is kept for reclaiming: the live blocks of a victim are copied to it,    *)
(* and the victim is erased and kept instead.  The block of an address is   *)
(* found through block_table, if the address is small, or else through a    *)
(* translation block (XLATE), whose entries can be written once and then    *)
(* deleted, and a second one (XLATE_SECONDARY) that patches it.            *)
(*                                                                         *)
(* One operation runs at a time, and while it runs nobody sees the flash or *)
(* the RAM; but power may be lost between any two of the programs and       *)
(* erases it performs, which leaves the flash as it is then.  So operations *)
(* are operators on a record d of the flash, the RAM and the list of the    *)
(* programs and erases so far, each with the flash before it; an action     *)
(* carries one out, or cuts it short before one of them.  A program of a    *)
(* page or less and an erase are atomic; the two pages of a block are one   *)
(* program, as are the copies of a reclaim and the two pages of its new     *)
(* header, because what they write does not count before a later program.   *)
(*                                                                         *)
(* Erase counts are left out: any sector may be the victim.                *)
(***************************************************************************)
EXTENDS Integers, Sequences, FiniteSets, FiniteSetsExt

CONSTANTS
  Units,        \* data_size / DOSFS_SFLASH_ERASE_SIZE
  Blocks,       \* DOSFS_SFLASH_BLOCK_INFO_ENTRIES
  XlateOffset,  \* DOSFS_SFLASH_XLATE_OFFSET
  Entries,      \* DOSFS_SFLASH_XLATE_ENTRIES
  Addresses,    \* bound: the addresses in use are 0..Addresses - 1
  Spare,        \* the 16 of dosfs_sflash_ftl_write
  Clobbered,    \* the entries of a translation block in INFO_EXTENDED_SIZE bytes
  Discarded,    \* bound: the addresses the file system discards
  CrashBefore   \* the steps before which power may be lost

ASSUME GeometryAssumption ==
  /\ Units \in Nat /\ Units >= 2
  /\ Blocks \in Nat /\ Blocks >= 2
  /\ XlateOffset \in Nat
  /\ Entries \in Nat \ {0}
  /\ Addresses \in Nat
  /\ Spare \in Nat \ {0}
  /\ Clobbered \in 0..Entries
  /\ Discarded \subseteq 0..Addresses - 1

VARIABLES
  nor,      \* the flash
  ftl,      \* struct _dosfs_sflash_t
  op,       \* the operation in progress, and its address
  present,  \* history: the addresses that were written and not discarded since
  torn,     \* history: the write or discard that power was lost in
  stuck     \* history: no program of the last step had a bit to set

vars == <<nor, ftl, op, present, torn, stuck>>

Unit == 0..Units - 1
Sector == 0..Units - 2
Index == 1..Blocks - 1
Address == 0..Addresses - 1
Entry == 0..Entries - 1

(* A logical block number is a sector and an index in it.  0 is the header  *)
(* of sector 0; 0xffff and 0xfffe name no sector.                          *)
Logical == Sector \X Index
Deleted == <<0, 0>>
NotAllocated == <<Units, 0>>
Reserved == <<Units, 1>>
Junk == <<Units, 2>>
NoUnit == Units

(* The bits of an info type that are set.                                  *)
RESERVED == {0, 1, 2, 3}
XLATE_SECONDARY == {0, 2, 3}
XLATE == {2, 3}
DATA_WRITTEN == {1, 2, 3}
DATA_COMMITTED == {1, 2}
DATA_DELETED == {2}
RECLAIM == {0, 1, 3}
ERASE == {1, 3}
VICTIM == {3}
DELETED == {}

Direct(a) == a < XlateOffset
Segment(a) == (a - XlateOffset) \div Entries
XlateIndex(a) == (a - XlateOffset) % Entries
Segments == {Segment(a) : a \in {b \in Address : ~Direct(b)}}

-----------------------------------------------------------------------------
(* The flash.                                                              *)

Nothing == << >>

(* The 512 bytes of a block: what was last written to its address, or what  *)
(* is being written to it; whatever is older is stale.                     *)
Current(a) == <<a, 0>>
Pending(a) == <<a, 1>>

(* An info word: NOT_WRITTEN_TO cleared, the type, and the address, the     *)
(* translation segment or the sector.                                      *)
Info(type, of) == [written |-> TRUE, type |-> type, of |-> of]
BlankInfo == [written |-> FALSE, type |-> RESERVED, of |-> -1]

BlankMap == [e \in Entry |-> NotAllocated]
BlankBlock == [user |-> Nothing, map |-> BlankMap]

(* A block that was deleted.  Its contents stay until the unit is erased,   *)
(* but whoever reads them reads what may be gone: they are not told apart.  *)
Stale == <<-1, 0>>
StaleBlock == [user |-> Stale, map |-> BlankMap]

Blank == [info |-> [i \in 0..Blocks - 1 |-> BlankInfo], block |-> [i \in Index |-> BlankBlock]]

(* What is left when x is programmed over w.                               *)
AndLogical(w, x) ==
  CASE w = NotAllocated \/ w = x -> x
    [] x = NotAllocated -> w
    [] w = Deleted \/ x = Deleted -> Deleted
    [] OTHER -> Junk
AndMap(w, x) == [e \in Entry |-> AndLogical(w[e], x[e])]

(* The next program or erase of an operation makes unit u look like         *)
(* "image".  "sticks" says that no bit would have to be set for that: that  *)
(* what the flash then holds is what was programmed.  An access beyond the  *)
(* chip is lost; the chip would wrap its address.                          *)
Put(d, step, u, image, sticks) ==
  IF u \notin Unit THEN d
  ELSE [d EXCEPT !.nor[u] = image,
                 !.steps = Append(@, [step |-> step, before |-> d.nor, sticks |-> sticks])]

(* dosfs_sflash_ftl_translate(): NoUnit if the block is beyond the chip.    *)
UnitOf(d, l) == IF l[1] \in Sector THEN d.ftl.sector_table[l[1]] ELSE NoUnit

InfoAt(d, l) == IF UnitOf(d, l) = NoUnit THEN BlankInfo ELSE d.nor[UnitOf(d, l)].info[l[2]]
MapAt(d, l) == IF UnitOf(d, l) = NoUnit \/ l[2] = 0 THEN BlankMap
               ELSE d.nor[UnitOf(d, l)].block[l[2]].map
UserAt(d, l) == IF UnitOf(d, l) = NoUnit \/ l[2] = 0 THEN Nothing
                ELSE d.nor[UnitOf(d, l)].block[l[2]].user

(* dosfs_sflash_ftl_info_type() and dosfs_sflash_ftl_info_entry()          *)
(* The byte that holds the type also holds bits 16 to 18 of the address or  *)
(* of the segment, which are 0, and which are programmed with 0 ...        *)
InfoType(d, step, l, type) ==
  LET u == UnitOf(d, l)
      old == InfoAt(d, l)
  IN IF u = NoUnit THEN d
     ELSE Put(d, step, u,
              IF old.type \cap type # DELETED
              THEN [d.nor[u] EXCEPT !.info[l[2]] = Info(old.type \cap type, old.of)]
              ELSE [d.nor[u] EXCEPT !.info[l[2]] = Info(DELETED, -1),
                                    !.block = IF l[2] = 0 THEN @ ELSE [@ EXCEPT ![l[2]] = StaleBlock]],
              type \subseteq old.type)

(* ... but in what a mount repairs, where DOSFS_SFLASH_INFO_DATA_MASK has    *)
(* them programmed with 1: the programs that lead from d to r do not stick, *)
(* although the type of the block becomes what it should.                  *)
OverZeros(d, r) ==
  [r EXCEPT !.steps = [k \in DOMAIN r.steps |->
     IF k \in DOMAIN d.steps THEN r.steps[k] ELSE [r.steps[k] EXCEPT !.sticks = FALSE]]]

InfoEntry(d, step, l, type, of) ==
  LET u == UnitOf(d, l) IN
  IF u = NoUnit THEN d
  ELSE Put(d, step, u, [d.nor[u] EXCEPT !.info[l[2]] = Info(type, of)],
           d.nor[u].info[l[2]] = BlankInfo)

(* An entry of a translation block, a whole one, and a block of data.      *)
WriteEntry(d, step, l, e, x) ==
  LET u == UnitOf(d, l)
      w == AndLogical(MapAt(d, l)[e], x)
  IN IF u = NoUnit THEN d
     ELSE Put(d, step, u, [d.nor[u] EXCEPT !.block[l[2]].map[e] = w], w = x)

WriteMap(d, step, l, map) ==
  LET u == UnitOf(d, l)
      image == AndMap(MapAt(d, l), map)
  IN IF u = NoUnit THEN d
     ELSE Put(d, step, u, [d.nor[u] EXCEPT !.block[l[2]].map = image], image = map)

WriteUser(d, step, l, user) ==
  LET u == UnitOf(d, l) IN
  IF u = NoUnit THEN d
  ELSE Put(d, step, u, [d.nor[u] EXCEPT !.block[l[2]].user = user], UserAt(d, l) = Nothing)

-----------------------------------------------------------------------------
(* The caches of one translation block and one secondary one: the copy in   *)
(* RAM is used as long as its tag is the block looked for.                 *)

LoadXlate(d, seg) ==
  LET l == d.ftl.xlate_table[seg] IN
  IF d.ftl.xlate_logical = l THEN d
  ELSE [d EXCEPT !.ftl.xlate_logical = l, !.ftl.xlate_cache = MapAt(d, l)]

LoadXlate2(d, seg) ==
  LET l == d.ftl.xlate2_table[seg] IN
  IF d.ftl.xlate2_logical = l THEN d
  ELSE [d EXCEPT !.ftl.xlate2_logical = l, !.ftl.xlate2_cache = MapAt(d, l)]

(* Fault: the tag of a cache that is used for something else is kept.      *)
DropXlate2Untagged(d) ==
  IF d.ftl.xlate2_logical = Reserved THEN d
  ELSE [d EXCEPT !.ftl.xlate2_cache = [e \in Entry |-> Junk]]

(* A cache is used for something else.                                     *)
DropXlate(d) == [d EXCEPT !.ftl.xlate_logical = Reserved, !.ftl.xlate_cache = BlankMap]
DropXlate2(d) == [d EXCEPT !.ftl.xlate2_logical = Reserved, !.ftl.xlate2_cache = BlankMap]

(* The lookup of dosfs_sflash_ftl_read and dosfs_sflash_ftl_discard: what    *)
(* is read into the caches, and then the logical block of address a.       *)
Loaded(d, a) ==
  LET seg == Segment(a)
      d1 == LoadXlate(d, seg)
  IN IF Direct(a) \/ d.ftl.xlate_table[seg] = NotAllocated THEN d
     ELSE IF d1.ftl.xlate_cache[XlateIndex(a)] # Deleted
             \/ d.ftl.xlate2_table[seg] = NotAllocated THEN d1
     ELSE LoadXlate2(d1, seg)

Lookup(d, a) ==
  LET seg == Segment(a)
      e == XlateIndex(a)
      l == Loaded(d, a).ftl.xlate_cache[e]
      l2 == Loaded(d, a).ftl.xlate2_cache[e]
  IN CASE Direct(a) -> d.ftl.block_table[a]
       [] ~Direct(a) /\ d.ftl.xlate_table[seg] = NotAllocated -> NotAllocated
       [] OTHER -> IF /\ l = Deleted
                      /\ d.ftl.xlate2_table[seg] # NotAllocated
                      /\ l2 # NotAllocated
                   THEN l2 ELSE l

(* What dosfs_sflash_ftl_read() returns.                                   *)
ReadOf(d, a) ==
  LET l == Lookup(d, a) IN
  IF l \in {NotAllocated, Deleted} THEN Nothing ELSE UserAt(d, l)

-----------------------------------------------------------------------------
(* dosfs_sflash_ftl_allocate(): the first free block of the sector being    *)
(* filled.  If that has none left, the sectors after it are looked at in    *)
(* turn, those known to be full unseen, and the next that has one is        *)
(* filled.                                                                 *)
FreeIn(d, s) == {i \in Index : ~InfoAt(d, <<s, i>>).written}

After(s, n) == (s + n) % (Units - 1)

Refilled(d) ==
  LET Usable(n) == LET s == After(d.ftl.alloc_sector, n) IN
                     ~d.ftl.allocated[s] /\ FreeIn(d, s) # {}
      skip == Min({n \in 0..Units - 2 : Usable(n)})
      s == After(d.ftl.alloc_sector, skip)
      skipped == {After(d.ftl.alloc_sector, n) : n \in 0..skip - 1}
  IN IF d.ftl.alloc_mask # {} THEN d
     ELSE [DropXlate2(d) EXCEPT
             !.ftl.alloc_sector = s,
             !.ftl.alloc_mask = FreeIn(d, s),
             !.ftl.allocated = [t \in Sector |-> @[t] \/ t \in skipped]]

(* The block allocated next, and what allocating it leaves.                *)
FirstFree(r) == <<r.ftl.alloc_sector, Min(r.ftl.alloc_mask)>>
NextFree(d) == FirstFree(Refilled(d))

(* Fault: the last block of a sector is counted twice.                     *)
TakeLastTwice(r) ==
  LET s == r.ftl.alloc_sector
      mask == r.ftl.alloc_mask \ {Min(r.ftl.alloc_mask)}
  IN [r EXCEPT !.ftl.alloc_mask = mask,
               !.ftl.alloc_free = IF mask = {} THEN @ - 2 ELSE @ - 1,
               !.ftl.allocated[s] = @ \/ mask = {},
               !.ftl.alloc_sector = IF mask = {} THEN After(s, 1) ELSE s]

Take(r) ==
  LET s == r.ftl.alloc_sector
      mask == r.ftl.alloc_mask \ {Min(r.ftl.alloc_mask)}
  IN [r EXCEPT !.ftl.alloc_mask = mask,
               !.ftl.alloc_free = @ - 1,
               !.ftl.allocated[s] = @ \/ mask = {},
               !.ftl.alloc_sector = IF mask = {} THEN After(s, 1) ELSE s]

Allocate(d) == Take(Refilled(d))

(* The 7 bits of a score count to 127, the last of the 128 info words of a  *)
(* unit.                                                                   *)
OneMore(score) == (score + 1) % Blocks

(* Fault: a block is deleted and its sector does not score.                *)
DeleteUnscored(d, step, l) == InfoType(d, step, l, DELETED)

(* A block is deleted: its sector scores.                                  *)
Delete(d, step, l) ==
  LET Scored(x) == IF l[1] \in Sector THEN [x EXCEPT !.ftl.score[l[1]] = OneMore(@)] ELSE x
  IN Scored(InfoType(d, step, l, DELETED))

-----------------------------------------------------------------------------
(* Fault: the entry of the translation block is written again.             *)
ModifyInPlace(d, a, l) ==
  LET d1 == LoadXlate(d, Segment(a))
      e == XlateIndex(a)
  IN InfoType(WriteEntry([d1 EXCEPT !.ftl.xlate_cache[e] = l],
                         "map", d1.ftl.xlate_logical, e, l),
              "commit", l, DATA_COMMITTED)

(* dosfs_sflash_ftl_modify(): the translation of address a becomes l, whose *)
(* data has been written.                                                  *)
Modify(d, a, l) ==
  LET seg == Segment(a)
      e == XlateIndex(a)
      d1 == LoadXlate(d, seg)
      old == d1.ftl.xlate_cache[e]
      First == InfoType(WriteEntry([d1 EXCEPT !.ftl.xlate_cache[e] = l],
                                   "map", d1.ftl.xlate_logical, e, l),
                        "commit", l, DATA_COMMITTED)
      d2 == LoadXlate2(d1, seg)
      d3 == InfoType(WriteEntry([d2 EXCEPT !.ftl.xlate2_cache[e] = l],
                                "map", d2.ftl.xlate2_logical, e, l),
                     "commit", l, DATA_COMMITTED)
  IN CASE old = NotAllocated -> First
       [] old = Deleted -> d3
       [] OTHER -> Delete(WriteEntry([d3 EXCEPT !.ftl.xlate_cache[e] = Deleted],
                                     "unmap", d3.ftl.xlate_logical, e, Deleted),
                          "delete", old)

(* dosfs_sflash_ftl_trim(): address a has no translation any more, and its  *)
(* block l is deleted.                                                     *)
Trim(d, a, l) ==
  LET seg == Segment(a)
      e == XlateIndex(a)
      d1 == LoadXlate(d, seg)
      d2 == LoadXlate2(d1, seg)
      unmapped ==
        CASE d1.ftl.xlate_cache[e] # Deleted ->
               WriteEntry([d1 EXCEPT !.ftl.xlate_cache[e] = Deleted],
                          "unmap", d1.ftl.xlate_logical, e, Deleted)
          [] d1.ftl.xlate_cache[e] = Deleted /\ d1.ftl.xlate2_table[seg] = NotAllocated ->
               d1
          [] OTHER ->
               WriteEntry([d2 EXCEPT !.ftl.xlate2_cache[e] = Deleted],
                          "unmap", d2.ftl.xlate2_logical, e, Deleted)
  IN Delete(unmapped, "delete", l)

-----------------------------------------------------------------------------
(* dosfs_sflash_ftl_write(), when there is room: there must be a            *)
(* translation entry that can be written ...                               *)

NewXlate(d, seg) ==
  LET l == NextFree(d) IN
  InfoEntry([Allocate(d) EXCEPT !.ftl.xlate_table[seg] = l,
                                !.ftl.xlate_logical = l,
                                !.ftl.xlate_cache = BlankMap],
            "xlate", l, XLATE, seg)

NewXlate2(d, seg) ==
  LET l == NextFree(d) IN
  InfoEntry([Allocate(d) EXCEPT !.ftl.xlate2_table[seg] = l,
                                !.ftl.xlate2_logical = l,
                                !.ftl.xlate2_cache = BlankMap],
            "xlate2", l, XLATE_SECONDARY, seg)

(* ... and if both blocks have used theirs up, they are merged into the     *)
(* secondary one, which takes the place of the other.                      *)
Merge(d, seg) ==
  LET l == d.ftl.xlate_logical
      l2 == d.ftl.xlate2_logical
      merged == [e \in Entry |->
                   IF d.ftl.xlate2_cache[e] # NotAllocated THEN d.ftl.xlate2_cache[e]
                                                           ELSE d.ftl.xlate_cache[e]]
      d1 == Delete(WriteMap(d, "merge", l2, merged), "retire", l)
      d2 == InfoType(d1, "promote", l2, XLATE)
  IN NewXlate2([d2 EXCEPT !.ftl.xlate_cache = merged,
                          !.ftl.xlate_logical = l2,
                          !.ftl.xlate_table[seg] = l2], seg)

Prepared(d, a) ==
  LET seg == Segment(a)
      e == XlateIndex(a)
      Second(x) == IF x.ftl.xlate2_cache[e] = NotAllocated THEN x ELSE Merge(x, seg)
      First(x) == CASE x.ftl.xlate_cache[e] = NotAllocated -> x
                    [] /\ x.ftl.xlate_cache[e] # NotAllocated
                       /\ x.ftl.xlate2_table[seg] = NotAllocated -> NewXlate2(x, seg)
                    [] OTHER -> Second(LoadXlate2(x, seg))
  IN CASE Direct(a) -> d
       [] ~Direct(a) /\ d.ftl.xlate_table[seg] = NotAllocated -> NewXlate(d, seg)
       [] OTHER -> First(LoadXlate(d, seg))

(* Fault: a block is marked as written before its data is.                 *)
PlaceEarly(d, l, a, user) ==
  Modify(WriteUser(InfoType(InfoEntry(d, "reserve", l, RESERVED, a), "written", l, DATA_WRITTEN),
                   "data", l, user), a, l)

(* A block that was allocated is written, and then it replaces the old one. *)
Place(d, l, a, user) ==
  LET old == d.ftl.block_table[a]
      d1 == WriteUser(InfoEntry(d, "reserve", l, RESERVED, a), "data", l, user)
      d2 == [InfoType(d1, "commit", l, DATA_COMMITTED) EXCEPT !.ftl.block_table[a] = l]
  IN IF Direct(a)
     THEN IF old = NotAllocated THEN d2 ELSE Delete(d2, "delete", old)
     ELSE Modify(InfoType(d1, "written", l, DATA_WRITTEN), a, l)

WriteBlock(d, a, user) ==
  LET Placed(x) == Place(Allocate(x), NextFree(x), a, user) IN Placed(Prepared(d, a))

(* dosfs_sflash_ftl_discard()                                              *)
DiscardBlock(d, a) ==
  LET d1 == Loaded(d, a)
      l == Lookup(d, a)
  IN CASE l \in {NotAllocated, Deleted} -> d1
       [] Direct(a) -> Delete([d1 EXCEPT !.ftl.block_table[a] = Deleted], "delete", l)
       [] OTHER -> Trim(InfoType(d1, "discard", l, DATA_DELETED), a, l)

-----------------------------------------------------------------------------
(* dosfs_sflash_ftl_swap(): victim unit v of sector s is erased and becomes *)
(* the unit to reclaim to; unit r becomes the sector.                      *)
Swap(d, v, s, r) ==
  LET d1 == Put(d, "erase", v, Blank, TRUE)
      d2 == Put(d1, "header", v, [Blank EXCEPT !.info[0] = Info(RESERVED, -1)], TRUE)
      d3 == [DropXlate(d2) EXCEPT !.ftl.sector_table[s] = r, !.ftl.reclaim = v]
  IN InfoType(d3, "sector", <<s, 0>>, ERASE)

(* Fault: the header and the info words are copied before the blocks.      *)
CopiedHeaderFirst(d, v, r, live) ==
  LET word == d.nor[v].info
      info == [i \in 0..Blocks - 1 |-> IF i = 0 THEN Info(RECLAIM, word[0].of)
                                       ELSE IF i \in live THEN word[i] ELSE BlankInfo]
      committed == [d.nor[r] EXCEPT !.info = info]
  IN Put(Put(d, "reclaim", r, committed, TRUE), "copy", r,
         [committed EXCEPT !.block =
            [i \in Index |-> IF i \in live THEN d.nor[v].block[i] ELSE BlankBlock]], TRUE)

(* The live blocks of victim v are copied to unit r, and then its header    *)
(* and their info words are: the copy counts from here on.                 *)
Copied(d, v, r, live) ==
  LET word == d.nor[v].info
      copy == [info |-> d.nor[r].info,
               block |-> [i \in Index |-> IF i \in live THEN d.nor[v].block[i] ELSE BlankBlock]]
      info == [i \in 0..Blocks - 1 |-> IF i = 0 THEN Info(RECLAIM, word[0].of)
                                       ELSE IF i \in live THEN word[i] ELSE BlankInfo]
  IN Put(Put(d, "copy", r, copy, \A i \in Index : d.nor[r].block[i] = BlankBlock),
         "reclaim", r, [copy EXCEPT !.info = info], d.nor[r].info[0].type = RESERVED)

(* Fault: the sector stays marked as full.                                 *)
CreditedFull(d, s, dead, live) ==
  [d EXCEPT !.ftl.alloc_sector = s, !.ftl.alloc_mask = Index \ live,
            !.ftl.alloc_free = @ + Cardinality(dead),
            !.ftl.score[s] = 0, !.ftl.allocated[s] = TRUE]

(* Sector s is filled next, and scores nothing any more.                   *)
Credited(d, s, dead, live) ==
  [d EXCEPT !.ftl.alloc_sector = s,
            !.ftl.alloc_mask = Index \ live,
            !.ftl.alloc_free = @ + Cardinality(dead),
            !.ftl.score[s] = 0,
            !.ftl.allocated[s] = (Index \ live = {})]

(* dosfs_sflash_ftl_reclaim(): the victim is marked, its live blocks are    *)
(* copied, and the two units swap.  The mark also holds the erase count      *)
(* that the unit is going to have: a reclaim that a mount repeats programs  *)
(* a greater one over it, which does not stick.                            *)
Reclaim(d, v) ==
  LET word == d.nor[v].info
      s == word[0].of
      r == d.ftl.reclaim
      dead == {i \in Index : word[i].written /\ word[i].type = DELETED}
      live == {i \in Index : word[i].written} \ dead
      marked == Put(d, "victim", v,
                    [d.nor[v] EXCEPT !.info[0] = Info(@.type \cap VICTIM, s)],
                    VICTIM \subseteq word[0].type /\ word[0].type # VICTIM)
      copied == Copied(marked, v, r, live)
  IN Credited(Swap(IF live = {} THEN copied ELSE DropXlate2(copied), v, s, r), s, dead, live)

-----------------------------------------------------------------------------
(* dosfs_sflash_ftl_mount(): the RAM is rebuilt from the info words, and    *)
(* what a loss of power left half done is finished or undone.              *)

Unmounted == [
  sector_table |-> [s \in Sector |-> NoUnit],
  block_table |-> [a \in {b \in Address : Direct(b)} |-> NotAllocated],
  xlate_table |-> [seg \in Segments |-> NotAllocated],
  xlate2_table |-> [seg \in Segments |-> NotAllocated],
  xlate_logical |-> Reserved, xlate_cache |-> BlankMap,
  xlate2_logical |-> Reserved, xlate2_cache |-> BlankMap,
  alloc_sector |-> 0, alloc_mask |-> {}, alloc_free |-> 0,
  score |-> [s \in Sector |-> 0], allocated |-> [s \in Sector |-> FALSE],
  reclaim |-> NoUnit]

HeaderType(d, u) == IF d.nor[u].info[0].written THEN d.nor[u].info[0].type ELSE {-1}
UnitsOfType(d, type) == {u \in Unit : HeaderType(d, u) = type}
Unwritten(d) == UnitsOfType(d, {-1})

(* The last unit of a set in the order of the scan, if there is one.       *)
LastOf(S) == IF S = {} THEN NoUnit ELSE Max(S)

(* Fault: a block that was reserved for data that was not written is kept. *)
CollectBlockReserved(d, l) ==
  LET word == InfoAt(d, l) IN
  CASE ~word.written \/ word.type = RESERVED -> d
    [] word.written /\ word.type = DELETED -> [d EXCEPT !.ftl.score[l[1]] = OneMore(@)]
    [] word.written /\ word.type = XLATE -> [d EXCEPT !.ftl.xlate_table[word.of] = l]
    [] word.written /\ word.type = XLATE_SECONDARY ->
         [d EXCEPT !.ftl.xlate2_table[word.of] = l]
    [] OTHER -> IF Direct(word.of) THEN [d EXCEPT !.ftl.block_table[word.of] = l] ELSE d

(* dosfs_sflash_ftl_collect(), one info word: a block that was reserved for *)
(* data that was not written is deleted, and so is a second block of a      *)
(* small address.                                                          *)
CollectBlock(d, l) ==
  LET word == InfoAt(d, l) IN
  CASE ~word.written -> d
    [] word.written /\ word.type = DELETED -> [d EXCEPT !.ftl.score[l[1]] = OneMore(@)]
    [] word.written /\ word.type = RESERVED -> Delete(d, "abandon", l)
    [] word.written /\ word.type = XLATE -> [d EXCEPT !.ftl.xlate_table[word.of] = l]
    [] word.written /\ word.type = XLATE_SECONDARY ->
         [d EXCEPT !.ftl.xlate2_table[word.of] = l]
    [] word.written /\ word.type = DATA_COMMITTED /\ Direct(word.of) ->
         IF d.ftl.block_table[word.of] = NotAllocated
         THEN [d EXCEPT !.ftl.block_table[word.of] = l]
         ELSE OverZeros(d, Delete(d, "duplicate", l))
    [] OTHER -> d

(* ... and all those of a sector, and of its unit.                         *)
CollectBlocks(d, s) ==
  LET upto[i \in 0..Blocks - 1] ==
        IF i = 0 THEN d ELSE CollectBlock(upto[i - 1], <<s, i>>)
  IN upto[Blocks - 1]

Collect(d, u) ==
  LET s == d.nor[u].info[0].of
      d1 == [d EXCEPT !.ftl.sector_table[s] = u]
      free == Cardinality(FreeIn(d1, s))
  IN [CollectBlocks(d1, s) EXCEPT
        !.ftl.allocated[s] = (free = 0),
        !.ftl.alloc_sector = IF free # 0 /\ d.ftl.alloc_free = 0 THEN s ELSE @,
        !.ftl.alloc_free = @ + free]

(* The sectors are collected in the order of their units.                  *)
CollectSectors(d) ==
  LET upto[n \in 0..Units] ==
        CASE n = 0 -> d
          [] n > 0 /\ HeaderType(d, n - 1) \in {ERASE, VICTIM} -> Collect(upto[n - 1], n - 1)
          [] OTHER -> upto[n - 1]
  IN upto[Units]

(* A block that a write or a discard had got to: the last one scanned.     *)
LogicalsOfType(d, type) ==
  {l \in Logical : InfoAt(d, l).written /\ InfoAt(d, l).type = type}
Scanned(d, type) ==
  CHOOSE l \in LogicalsOfType(d, type) :
    \A m \in LogicalsOfType(d, type) :
      \/ UnitOf(d, m) < UnitOf(d, l)
      \/ UnitOf(d, m) = UnitOf(d, l) /\ m[2] <= l[2]

(* Fault: the header of a unit that was to become a sector is left alone.  *)
AdoptedUnmarked(d, r) == Collect(d, r)

(* Unit r was to become a sector.                                          *)
Adopted(d, r) ==
  Collect(Put(d, "sector", r, [d.nor[r] EXCEPT !.info[0] = Info(@.type \cap ERASE, @.of)], TRUE), r)

(* The reclaim that power was lost in.                                     *)
Recovered(d) ==
  LET v == LastOf(UnitsOfType(d, VICTIM))
      r == LastOf(UnitsOfType(d, RECLAIM))
      e == LastOf(Unwritten(d))
      d1 == IF e # NoUnit THEN [d EXCEPT !.ftl.reclaim = e]
            ELSE Put(d, "erase", d.ftl.reclaim, Blank, TRUE)
      d2 == Put(d1, "header", d1.ftl.reclaim,
                [Blank EXCEPT !.info[0] = Info(RESERVED, -1)], TRUE)
  IN CASE v # NoUnit /\ r # NoUnit -> Swap(d, v, d.nor[v].info[0].of, r)
       [] v # NoUnit /\ r = NoUnit -> Reclaim(d2, v)
       [] v = NoUnit /\ r # NoUnit -> Adopted(d, r)
       [] OTHER -> d

(* A merge that power was lost in: only the secondary block is left.       *)
Promote(d, seg) ==
  LET l2 == d.ftl.xlate2_table[seg] IN
  IF d.ftl.xlate_table[seg] # NotAllocated \/ l2 = NotAllocated THEN d
  ELSE [OverZeros(d, InfoType(d, "promote", l2, XLATE))
          EXCEPT !.ftl.xlate_table[seg] = l2, !.ftl.xlate2_table[seg] = NotAllocated]

PromoteAll(d) ==
  LET upto[n \in 0..Addresses] ==
        CASE n = 0 -> d
          [] n > 0 /\ n - 1 \in Segments -> Promote(upto[n - 1], n - 1)
          [] OTHER -> upto[n - 1]
  IN upto[Addresses]

(* A write that power was lost in is finished.                             *)
FinishWrite(d, written) ==
  IF LogicalsOfType(written, DATA_WRITTEN) = {} THEN d
  ELSE LET l == Scanned(written, DATA_WRITTEN)
       IN Modify(d, InfoAt(written, l).of, l)

(* A discard that power was lost in is finished with the address and the    *)
(* block of a write (data_written), which are 0xffff and 0 if there is none: *)
(* an entry beyond xlate_table, and then block 0 is "deleted".             *)
FinishDiscard(d, written) ==
  IF LogicalsOfType(written, DATA_DELETED) = {} THEN d
  ELSE IF LogicalsOfType(written, DATA_WRITTEN) = {} THEN Delete(d, "delete", Deleted)
  ELSE LET l == Scanned(written, DATA_WRITTEN)
       IN Trim(d, InfoAt(written, l).of, l)

(* The headers are read once more for the erase counts, into the cache of   *)
(* the translation block.                                                  *)
Clobber(d) ==
  IF d.ftl.xlate_logical = Reserved THEN d
  ELSE [d EXCEPT !.ftl.xlate_cache = [e \in Entry |-> IF e < Clobbered THEN Junk ELSE @[e]]]

(* More than one unit in a state that only one can be in: not formatted.    *)
Unmountable(d) ==
  \E type \in {{-1}, VICTIM, RECLAIM, RESERVED} : Cardinality(UnitsOfType(d, type)) > 1

Mounted(image) ==
  LET d == [nor |-> image, steps |-> << >>,
            ftl |-> [Unmounted EXCEPT !.reclaim = LastOf(UnitsOfType([nor |-> image], RESERVED))]]
      Finished(x) ==
        [Clobber(FinishDiscard(FinishWrite(PromoteAll(x), x), x)) EXCEPT !.ftl.alloc_mask = {}]
  IN Finished(Recovered(CollectSectors(d)))

-----------------------------------------------------------------------------
(* The operations, one at a time: dosfs_device holds a lock.               *)

Idle == [kind |-> "none", address |-> -1]
Doing(kind, a) == [kind |-> kind, address |-> a]

Ram == [nor |-> nor, ftl |-> ftl, steps |-> << >>]
Ready == op = Idle

(* An operation is carried out ...                                         *)
Perform(d, image) ==
  /\ nor' = image
  /\ ftl' = d.ftl
  /\ stuck' = \A k \in DOMAIN d.steps : d.steps[k].sticks

(* ... or power is lost before one of its programs and erases.             *)
CutShort(d, during) ==
  \E k \in DOMAIN d.steps :
    /\ d.steps[k].step \in CrashBefore
    /\ nor' = d.steps[k].before
    /\ ftl' = Unmounted
    /\ op' = Doing("off", -1)
    /\ torn' = during
    /\ stuck' = \A j \in 1..k - 1 : d.steps[j].sticks
    /\ UNCHANGED present

(* The write or the discard of address a has taken place, or it has not.    *)
Settled(image, a, taken) ==
  LET Aged(user) == CASE user = Pending(a) -> IF taken THEN Current(a) ELSE Stale
                      [] user = Current(a) -> IF taken THEN Stale ELSE user
                      [] OTHER -> user
      Block(b) == [user |-> Aged(b.user), map |-> b.map]
  IN [u \in Unit |-> [info |-> image[u].info,
                      block |-> [i \in Index |-> Block(image[u].block[i])]]]

(* The contents that a read of address a should find.                      *)
Expected(a) == IF a \in present THEN Current(a) ELSE Nothing

Read(a) ==
  /\ Ready
  /\ ~Direct(a)
  /\ ftl' = Loaded(Ram, a).ftl
  /\ stuck' = TRUE
  /\ UNCHANGED <<nor, op, present, torn>>

Write(a) ==
  /\ Ready
  /\ op' = Doing("write", a)
  /\ stuck' = TRUE
  /\ UNCHANGED <<nor, ftl, present, torn>>

(* dosfs_sflash_ftl_victim(): the sector with the highest sum of its score   *)
(* and of how far its erase count lags, which is left out: any may be it.   *)
Victims == {s \in Sector : ftl.sector_table[s] # NoUnit}

(* while (alloc_free <= 16)                                                *)
MakeRoom(s) ==
  /\ op.kind = "write"
  /\ ftl.alloc_free <= Spare
  /\ s \in Victims
  /\ \E d \in {Reclaim(Ram, ftl.sector_table[s])} :
       \/ Perform(d, d.nor) /\ UNCHANGED <<op, present, torn>>
       \/ CutShort(d, Idle)

WriteOne ==
  LET a == op.address IN
  /\ op.kind = "write"
  /\ ftl.alloc_free > Spare
  /\ \E d \in {WriteBlock(Ram, a, Pending(a))} :
       \/ /\ Perform(d, Settled(d.nor, a, TRUE))
          /\ op' = Idle
          /\ present' = present \cup {a}
          /\ UNCHANGED torn
       \/ CutShort(d, op)

Discard(a) ==
  /\ Ready
  /\ \E d \in {DiscardBlock(Ram, a)} :
       \/ /\ Perform(d, Settled(d.nor, a, TRUE))
          /\ present' = present \ {a}
          /\ UNCHANGED <<op, torn>>
       \/ CutShort(d, Doing("discard", a))

(* Power is lost between two operations.                                   *)
PowerOff ==
  /\ Ready
  /\ op' = Doing("off", -1)
  /\ ftl' = Unmounted
  /\ stuck' = TRUE
  /\ UNCHANGED <<nor, present, torn>>

(* dosfs_sflash_init(), after which it is known whether the operation that  *)
(* power was lost in took place.                                           *)
Mount ==
  LET a == torn.address IN
  /\ op.kind = "off"
  /\ ~Unmountable(Ram)
  /\ \E d \in {Mounted(nor)} :
       \/ LET written == torn.kind = "write" /\ ReadOf(d, a) = Pending(a)
              discarded == torn.kind = "discard" /\ ReadOf(d, a) = Nothing
          IN /\ Perform(d, Settled(d.nor, a, written \/ discarded))
             /\ op' = Idle
             /\ torn' = Idle
             /\ present' = (present \cup (IF written THEN {a} ELSE {}))
                           \ (IF discarded THEN {a} ELSE {})
       \/ CutShort(d, torn)

(* dosfs_sflash_ftl_format() and the mount after it.                       *)
Formatted ==
  [u \in Unit |->
     [Blank EXCEPT !.info[0] = IF u = Units - 1 THEN Info(RESERVED, -1) ELSE Info(ERASE, u)]]

Init ==
  /\ nor = Formatted
  /\ ftl = Mounted(Formatted).ftl
  /\ op = Idle
  /\ present = {}
  /\ torn = Idle
  /\ stuck = TRUE

Next ==
  \/ \E a \in Address : Read(a) \/ Write(a)
  \/ \E a \in Discarded : Discard(a)
  \/ \E s \in Sector : MakeRoom(s)
  \/ WriteOne
  \/ PowerOff
  \/ Mount

Spec == Init /\ [][Next]_vars

-----------------------------------------------------------------------------
(* Properties.                                                             *)

Content == Logical \cup {Deleted, NotAllocated, Junk}
InfoWord == [written : BOOLEAN, type : SUBSET (0..3), of : {-1} \cup 0..Units + Addresses]
User == {Nothing, Stale} \cup {Current(a) : a \in Address} \cup {Pending(a) : a \in Address}

(* The flash holds info words and blocks, and the tables in RAM hold units, *)
(* logical blocks and counts that fit their fields: the count of free       *)
(* blocks is unsigned, and a score never exceeds the blocks of a sector.    *)
TypeOK ==
  /\ \A u \in Unit :
       /\ nor[u].info \in [0..Blocks - 1 -> InfoWord]
       /\ \A i \in Index : /\ nor[u].block[i].user \in User
                           /\ nor[u].block[i].map \in [Entry -> Content]
  /\ ftl.sector_table \in [Sector -> Unit \cup {NoUnit}]
  /\ \A a \in DOMAIN ftl.block_table : ftl.block_table[a] \in Content
  /\ \A seg \in Segments : /\ ftl.xlate_table[seg] \in Content
                           /\ ftl.xlate2_table[seg] \in Content
  /\ ftl.xlate_cache \in [Entry -> Content] /\ ftl.xlate2_cache \in [Entry -> Content]
  /\ ftl.alloc_sector \in Sector /\ ftl.alloc_mask \subseteq Index
  /\ ftl.alloc_free \in 0..(Units - 1) * (Blocks - 1)
  /\ ftl.score \in [Sector -> 0..Blocks - 1]
  /\ ftl.allocated \in [Sector -> BOOLEAN]
  /\ ftl.reclaim \in Unit \cup {NoUnit}
  /\ op \in [kind : {"none", "write", "off"}, address : {-1} \cup Address]
  /\ torn \in [kind : {"none", "write", "discard"}, address : {-1} \cup Address]
  /\ present \subseteq Address

(* A read finds what was last written to the address, or nothing if it was  *)
(* discarded since or never written, whatever was moved, merged, reclaimed  *)
(* and remounted in between; an operation that power was lost in took place *)
(* or did not.  This is the comparison with sflash_data_shadow in           *)
(* dosfs_sflash_ftl_read.                                                  *)
ReadsBack == Ready => \A a \in Address : ReadOf(Ram, a) = Expected(a)

(* Between two operations the info words, the headers and the translations  *)
(* agree, so that no block is lost and none is in use twice: what           *)
(* dosfs_sflash_ftl_check() walks through (its body is disabled by an early *)
(* return), and that no block is still reserved.                           *)
MapsAgree ==
  Ready =>
    /\ \A u \in Unit : \/ HeaderType(Ram, u) = RESERVED /\ ftl.reclaim = u
                       \/ /\ HeaderType(Ram, u) = ERASE
                          /\ ftl.sector_table[nor[u].info[0].of] = u
    /\ \A l \in Logical :
         LET word == InfoAt(Ram, l) IN
         \/ ~word.written
         \/ word.type = DELETED
         \/ word.type = XLATE /\ ftl.xlate_table[word.of] = l
         \/ word.type = XLATE_SECONDARY /\ ftl.xlate2_table[word.of] = l
         \/ word.type = DATA_COMMITTED /\ Lookup(Ram, word.of) = l
    /\ \A a \in Address :
         Lookup(Ram, a) \notin {NotAllocated, Deleted}
           => InfoAt(Ram, Lookup(Ram, a)) = Info(DATA_COMMITTED, a)

Holding(s, type) == {i \in Index : InfoAt(Ram, <<s, i>>).written /\ InfoAt(Ram, <<s, i>>).type = type}

(* The score of a sector is the number of its deleted blocks, which is what *)
(* dosfs_sflash_ftl_reclaim asserts of the victim, and alloc_free is the    *)
(* number of free blocks of all sectors.                                   *)
Accounting ==
  op.kind # "off" =>
    /\ \A s \in Sector : ftl.score[s] = Cardinality(Holding(s, DELETED))
    /\ ftl.alloc_free = Cardinality({l \in Logical : ~InfoAt(Ram, l).written})

(* alloc_free promises no block that the endless loop of                    *)
(* dosfs_sflash_ftl_allocate cannot find: those left of the sector being    *)
(* filled, and the free ones of sectors not marked as full.                *)
RoomIsReal ==
  LET Filling(l) == l[1] = ftl.alloc_sector /\ ftl.alloc_mask # {} IN
  op.kind # "off" =>
    ftl.alloc_free <= Cardinality({l \in Logical :
                        /\ ~InfoAt(Ram, l).written
                        /\ IF Filling(l) THEN l[2] \in ftl.alloc_mask ELSE ~ftl.allocated[l[1]]})

(* No bit is ever programmed that an earlier program cleared: what is       *)
(* written is what the flash then holds, the assertion of                   *)
(* dosfs_sflash_nor_write.  Three programs of a mount after a loss of power *)
(* fail it (OverZeros, Reclaim); in an operation none may.                 *)
ProgramsStick == stuck

(* When power was lost before one of the steps of CrashBefore,              *)
(* dosfs_sflash_ftl_mount accepts the flash; if it did not,                 *)
(* dosfs_sflash_init would format it and lose every block.                 *)
Mountable == op.kind = "off" => ~Unmountable(Ram)
=============================================================================
