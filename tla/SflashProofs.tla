---------------------------- MODULE SflashProofs ----------------------------
(***************************************************************************)
(* Proofs about Sflash: for every geometry, every choice of victims and of   *)
(* blocks, a read finds what was written last, the scores and the count of   *)
(* free blocks are exact, no program of an operation sets a bit, and what a  *)
(* loss of power at the steps below leaves can be mounted.                  *)
(*                                                                         *)
(* The argument: each operation keeps Good, which ties flash and RAM together *)
(* (SflashOperators).  Power may be lost within an operation, before any of   *)
(* the steps Recoverable: Ok says of a device that the flash before each such *)
(* step is one that a mount recovers (Survives).  Mount starts from the flash *)
(* alone: it finds the same tables as those lost, since Good leaves no choice *)
(* (Partly follows the scan, block by block), once it has repaired what the   *)
(* loss left half done: a write (MountsHalfDone), a merge (MountsPromoted), a *)
(* reclaim that was begun (MountsReclaimed) or is all but over               *)
(* (MountsAdopted).                                                        *)
(*                                                                         *)
(* The theorems assume PowerLostWithin and NoDirectDiscard, which are       *)
(* explained where they are defined.                                       *)
(***************************************************************************)
EXTENDS SflashOperators
(* What a program adds to the flash and to the list.                       *)
Programmed(d, r, step, u, image) ==
  /\ r.nor = [d.nor EXCEPT ![u] = image]
  /\ r.steps = Append(d.steps, [step |-> step, before |-> d.nor, sticks |-> TRUE])

LEMMA PutListed ==
  ASSUME NEW d \in Device, NEW step, NEW u \in Unit, NEW image,
         NEW r, r = PutSurely(d, step, u, image)
  PROVE  Programmed(d, r, step, u, image)
<1> DEFINE new == [step |-> step, before |-> d.nor, sticks |-> TRUE]
<1>1. d = [nor |-> d.nor, ftl |-> d.ftl, steps |-> d.steps]
  BY DEF Device
<1>2. r = [d EXCEPT !.nor[u] = image, !.steps = Append(@, new)]
  BY DEF PutSurely, Put
<1> HIDE DEF new
<1>3. r.nor = [d.nor EXCEPT ![u] = image] /\ r.steps = Append(d.steps, new)
  BY <1>1, <1>2
<1> QED  BY <1>3 DEF new, Programmed

(* A block that is reserved is deleted, ...                                *)
LEMMA Emptying ==
  ASSUME NEW x \in Device, NEW t \in Logical, NEW u \in Unit, UnitOf(x, t) = u,
         InfoAt(x, t).written, InfoAt(x, t).type = RESERVED,
         NEW y, y = InfoType(x, "abandon", t, DELETED)
  PROVE  /\ Emptied(x.nor[u], t[2]) \in UnitImage
         /\ Emptied(x.nor[u], t[2]).info[t[2]] = Info(DELETED, -1)
         /\ y \in Device /\ y.ftl = x.ftl
         /\ Programmed(x, y, "abandon", u, Emptied(x.nor[u], t[2]))
<1>1. /\ t[1] \in Sector /\ t[2] \in Index /\ t[2] # 0 /\ t[2] \in 0..Blocks - 1
      /\ t = <<t[1], t[2]>> /\ x.nor \in Flash /\ x.nor[u] \in UnitImage /\ u # NoUnit
  BY SMTT(30), Logicals, GeometryAssumption DEF Index, Device, Flash, Unit, NoUnit
<1> DEFINE image == Emptied(x.nor[u], t[2])
<1>2. image \in UnitImage /\ image.info[t[2]] = Info(DELETED, -1)
  <2> DEFINE word == Info(DELETED, -1)
             old == x.nor[u]
             info == [old.info EXCEPT ![t[2]] = word]
             block == [old.block EXCEPT ![t[2]] = StaleBlock]
  <2>1. word \in InfoWord /\ StaleBlock \in BlockImage
    BY Images DEF DELETED
  <2>2. /\ old = [info |-> old.info, block |-> old.block]
        /\ old.info \in [0..Blocks - 1 -> InfoWord] /\ old.block \in [Index -> BlockImage]
    BY <1>1 DEF UnitImage
  <2>3. image = [old EXCEPT !.info[t[2]] = word, !.block = [@ EXCEPT ![t[2]] = StaleBlock]]
    BY DEF Emptied
  <2> HIDE DEF word, old, image
  <2>4. image = [info |-> info, block |-> block]
    BY <2>2, <2>3
  <2>5. info \in [0..Blocks - 1 -> InfoWord] /\ block \in [Index -> BlockImage] /\ info[t[2]] = word
    BY <1>1, <2>1, <2>2
  <2> HIDE DEF info, block
  <2>6. image.info = info
    BY <2>4
  <2> QED  BY <2>4, <2>5, <2>6 DEF UnitImage, word
<1>3. y = PutSurely(x, "abandon", u, image)
  <2>1. InfoAt(x, t).type \cap DELETED = DELETED /\ (DELETED \subseteq InfoAt(x, t).type) = TRUE
    BY DEF DELETED
  <2>2. y = Put(x, "abandon", u,
                [x.nor[u] EXCEPT !.info[t[2]] = Info(DELETED, -1),
                                 !.block = IF t[2] = 0 THEN @ ELSE [@ EXCEPT ![t[2]] = StaleBlock]],
                TRUE)
    BY <1>1, <2>1 DEF InfoType
  <2>3. y = Put(x, "abandon", u,
                [x.nor[u] EXCEPT !.info[t[2]] = Info(DELETED, -1),
                                 !.block = [@ EXCEPT ![t[2]] = StaleBlock]],
                TRUE)
    BY <1>1, <2>2
  <2> QED  BY <1>1, <2>3 DEF Emptied, PutSurely
<1> HIDE DEF image
<1>4. Programmed(x, y, "abandon", u, image)
  BY <1>3, PutListed
<1>5. y \in Device /\ y.ftl = x.ftl
  <2>1. "abandon" \in StepName
    BY DEF StepName
  <2> QED  BY <1>2, <1>3, <2>1, PutSure
<1> QED  BY <1>2, <1>4, <1>5 DEF image

(* ... and then the device is good if nothing else was in use for it.        *)
LEMMA HeldDropped ==
  ASSUME NEW q, NEW l, Held(q, l), NEW x, Touched(q, x, l), Sectors(x),
         InfoAt(x, l).written, InfoAt(x, l).type = RESERVED,
         NEW r, r = Delete(x, "abandon", l)
  PROVE  Good(r) /\ SameData(q, r) /\ HalfDone(r, x.nor, l)
<1>1. /\ Almost(q) /\ l \in Logical /\ Counted(q, l)
      /\ InfoAt(q, l) = BlankInfo /\ MapAt(q, l) = BlankMap
      /\ x \in Device /\ x.ftl = q.ftl
      /\ \A m \in Logical : m # l => SameAt(q, x, m)
  BY DEF Held, Touched
<1>2. /\ q \in Device /\ Sectors(q) /\ Headers(q) /\ Blanks(q) /\ Scored(q)
      /\ \A m \in Logical : Used(q, m)
      /\ \A seg \in Segments : TableEntry(q, seg)
      /\ \A a \in Address : AddressEntry(q, a)
      /\ Cached(q) /\ Cached2(q)
  BY <1>1 DEF Almost
<1>3. /\ r \in Device /\ Spared(x, r, l)
      /\ SameTables(x, r) /\ SameCache(x, r) /\ SameCache2(x, r) /\ SameAlloc(x, r)
      /\ r.ftl.score = [x.ftl.score EXCEPT ![l[1]] = OneMore(@)]
      /\ InfoAt(r, l) = Info(DELETED, -1) /\ MapAt(r, l) = BlankMap /\ UserAt(r, l) = Stale
  <2>1. "abandon" \in StepName
    BY DEF StepName
  <2> QED  BY <1>1, <2>1, Deletes
<1>4. /\ \A m \in Logical : m # l => SameAt(q, r, m)
      /\ \A m \in Logical : MapAt(r, m) = MapAt(q, m)
      /\ MapAt(r, NotAllocated) = MapAt(q, NotAllocated)
  BY <1>1, <1>3, NotSeen DEF Spared, SameAt
<1>5. SameTables(q, r) /\ SameCache(q, r) /\ SameCache2(q, r) /\ SameAlloc(q, r)
  BY <1>1, <1>3 DEF SameTables, SameCache, SameCache2, SameAlloc
<1>6. ~InfoAt(q, l).written /\ InfoAt(r, l).written /\ InfoAt(r, l).type = DELETED
      /\ l # NotAllocated
  BY <1>1, <1>3, InfoFields, Logicals DEF BlankInfo
<1>7. Spared(q, r, l)
  <2>1. /\ \A u \in Unit : x.nor[u].info[0] = q.nor[u].info[0]
        /\ x.nor[q.ftl.reclaim] = q.nor[q.ftl.reclaim]
    BY DEF Touched
  <2> QED  BY <1>1, <1>3, <1>4, <2>1 DEF Spared
<1>8. Sectors(r) /\ Headers(r)
  BY <1>2, <1>5, <1>7, HeadersSpared DEF SameTables
<1>9. Blanks(r)
  BY <1>2, <1>4, <1>6 DEF Blanks, SameAt
<1>10. \A seg \in Segments :
         /\ q.ftl.xlate_table[seg] \in Logical \cup {NotAllocated} /\ q.ftl.xlate_table[seg] # l
         /\ q.ftl.xlate2_table[seg] \in Logical \cup {NotAllocated} /\ q.ftl.xlate2_table[seg] # l
  BY <1>2, <1>6, InfoFields DEF TableEntry
<1>11. \A a \in Address : /\ ~Direct(a) => /\ Primary(r, a) = Primary(q, a)
                                           /\ Secondary(r, a) = Secondary(q, a)
                          /\ Where(r, a) = Where(q, a) /\ Where(q, a) # l
  <2> TAKE a \in Address
  <2>1. Where(q, a) # l
    <3>1. Where(q, a) \in Logical => InfoAt(q, Where(q, a)) = Info(DATA_COMMITTED, a)
      BY <1>2 DEF AddressEntry
    <3> QED  BY <1>1, <1>6, <3>1, InfoFields
  <2>2. ASSUME ~Direct(a)
        PROVE  Primary(r, a) = Primary(q, a) /\ Secondary(r, a) = Secondary(q, a)
    <3>1. Segment(a) \in Segments
      BY <2>2, Entered
    <3> QED  BY <1>4, <1>5, <1>10, <3>1 DEF Primary, Secondary, SameTables
  <2>3. Where(r, a) = Where(q, a)
    BY <1>5, <2>2 DEF Where, SameTables
  <2> QED  BY <2>1, <2>2, <2>3
<1>12. \A m \in Logical : Used(r, m)
  <2> TAKE m \in Logical
  <2>1. CASE m = l
    BY <1>6, <2>1 DEF Used
  <2>2. CASE m # l
    <3>1. Used(q, m) /\ InfoAt(r, m) = InfoAt(q, m)
      BY <1>2, <1>4, <2>2 DEF SameAt
    <3> QED  BY <1>5, <1>11, <3>1 DEF Used, SameTables
  <2> QED  BY <2>1, <2>2
<1>13. \A seg \in Segments : TableEntry(r, seg)
  BY <1>2, <1>4, <1>5, <1>10 DEF TableEntry, SameTables, SameAt
<1>14. \A a \in Address : AddressEntry(r, a)
  <2> TAKE a \in Address
  <2>1. Where(r, a) \in Logical => InfoAt(r, Where(r, a)) = Info(DATA_COMMITTED, a)
    BY <1>2, <1>4, <1>11 DEF AddressEntry, SameAt
  <2> QED  BY <1>2, <1>5, <1>11, <2>1 DEF AddressEntry, SameTables
<1>15. Cached(r) /\ Cached2(r)
  <2>1. Cached(r)
    BY <1>2, <1>4, <1>5 DEF Cached, SameTables, SameCache
  <2>2. Cached2(r)
    BY <1>2, <1>4, <1>5 DEF Cached2, SameTables, SameCache2
  <2> QED  BY <2>1, <2>2
<1>16. Counted(r, NotAllocated)
  <2>1. \A m \in Logical : InfoAt(r, m).written <=> InfoAt(q, m).written \/ m = l
    BY <1>4, <1>6 DEF SameAt
  <2>2. Free(r, NotAllocated) = Free(q, l)
    BY <2>1, Logicals DEF Free
  <2> QED  BY <1>1, <1>5, <2>2 DEF Counted, SameAlloc
<1>17. Scored(r)
  <2>1. \A m \in Logical : IsDead(r, m) <=> IsDead(q, m) \/ m = l
    BY <1>4, <1>6 DEF IsDead, SameAt
  <2>2. ~IsDead(q, l)
    BY <1>6 DEF IsDead
  <2>3. r.ftl.score = [q.ftl.score EXCEPT ![l[1]] = OneMore(@)]
    BY <1>1, <1>3
  <2> QED  BY <1>1, <1>2, <2>1, <2>2, <2>3, Scores
<1>18. Good(r)
  BY <1>3, <1>8, <1>9, <1>12, <1>13, <1>14, <1>15, <1>16, <1>17 DEF Good
<1>19. SameData(q, r)
  BY <1>4, <1>11 DEF SameData, SameAt
<1>20. HalfDone(r, x.nor, l)
  <2> DEFINE u == UnitOf(x, l)
             y == InfoType(x, "abandon", l, DELETED)
             n == OneMore(y.ftl.score[l[1]])
  <2>1. l[1] \in Sector /\ u \in Unit
    BY <1>1, Logicals DEF UnitOf, Sectors
  <2>2. y = InfoType(x, "abandon", l, DELETED) /\ u = UnitOf(x, l)
    OBVIOUS
  <2>3. r = [y EXCEPT !.ftl.score[l[1]] = n]
    BY <2>1 DEF Delete
  <2> HIDE DEF y, u, n
  <2>4. y \in Device /\ Programmed(x, y, "abandon", u, Emptied(x.nor[u], l[2]))
    BY <1>1, <2>1, <2>2, Emptying
  <2>5. r.nor = y.nor
    BY <2>3, <2>4 DEF Device
  <2>6. r.nor = [x.nor EXCEPT ![u] = Emptied(@, l[2])]
    BY <2>4, <2>5 DEF Programmed
  <2>7. UnitOf(r, l) = u
    BY SMTT(30), <1>1, <1>5, <2>2 DEF UnitOf, SameTables
  <2>8. InfoAt([nor |-> x.nor, ftl |-> r.ftl], l) = InfoAt(x, l)
    BY Zenon, <1>1, <1>5 DEF InfoAt, UnitOf, SameTables
  <2> QED  BY <2>6, <2>7, <2>8 DEF HalfDone
<1> QED  BY <1>18, <1>19, <1>20
-----------------------------------------------------------------------------
(* Power is lost in an operation.                                          *)

(* A good device is found by a mount.                                      *)
LEMMA GoodSurvives ==
  ASSUME NEW P \in SUBSET Address, NEW g, Good(g), Keeps(g, P)
  PROVE  Survives(P, g.nor)
<1> DEFINE r == [nor |-> g.nor, ftl |-> g.ftl, steps |-> << >>]
<1>1. r = [nor |-> g.nor, ftl |-> g.ftl, steps |-> << >>] /\ r.steps = << >> /\ r.nor = g.nor
  OBVIOUS
<1> HIDE DEF r
<1>2. Good(r) /\ SameData(g, r)
  BY <1>1, OperationOver
<1>3. Keeps(r, P)
  BY <1>2, KeepsSame
<1> QED  BY <1>1, <1>2, <1>3 DEF Survives, Damaged

(* The programs that led to a device do not matter.                         *)
LEMMA DamagedSurvives ==
  ASSUME NEW P \in SUBSET Address, NEW g, Good(g), Keeps(g, P), NEW s \in Sector, NEW n,
         \/ LostInReclaim /\ n \in Flash /\ HalfReclaimed(g, n, s)
         \/ Adopts(n, g, g.ftl.sector_table[s], s)
  PROVE  Survives(P, n)
<1> DEFINE r == [nor |-> g.nor, ftl |-> g.ftl, steps |-> << >>]
<1>1. r = [nor |-> g.nor, ftl |-> g.ftl, steps |-> << >>] /\ r.steps = << >> /\ r.nor = g.nor
      /\ r.ftl = g.ftl
  OBVIOUS
<1> HIDE DEF r
<1>2. Good(r) /\ SameData(g, r)
  BY <1>1, OperationOver
<1>3. Keeps(r, P)
  BY <1>2, KeepsSame
<1>4. HalfReclaimed(g, n, s) => HalfReclaimed(r, n, s)
  BY SMTT(30), <1>1 DEF HalfReclaimed
<1>5. Adopts(n, g, g.ftl.sector_table[s], s) => Adopts(n, r, r.ftl.sector_table[s], s)
  BY ZenonT(40), <1>1 DEF Adopts
<1>6. Damaged(r, n)
  BY <1>4, <1>5 DEF Damaged
<1> QED  BY <1>1, <1>2, <1>3, <1>6 DEF Survives

LEMMA GoodSurvivable ==
  ASSUME NEW P \in SUBSET Address, NEW g, Good(g), Keeps(g, P), NEW d, d.nor = g.nor, NEW step
  PROVE  Survivable(P, d, step)
BY GoodSurvives DEF Survivable

LEMMA MergeIs ==
  ASSUME NEW d, NEW seg, NEW l, NEW l2, l = d.ftl.xlate_logical, l2 = d.ftl.xlate2_logical
  PROVE  Merge(d, seg) = NewXlate2(MergeStart(d, seg, l, l2), seg)
BY DEF Merge, MergeStart, Retired, Merged

LEMMA PromotedImage ==
  ASSUME NEW d, d = [nor |-> d.nor, ftl |-> d.ftl, steps |-> d.steps],
         NEW seg, NEW l, NEW m,
         NEW r, r = [d EXCEPT !.ftl.xlate_cache = m, !.ftl.xlate_logical = l,
                              !.ftl.xlate_table[seg] = l]
  PROVE  SameImage(d, r)
BY DEF SameImage

LEMMA OkMerge ==
  ASSUME PowerLostWithin, NEW P \in SUBSET Address, NEW d, Ok(P, d), Good(d), Keeps(d, P),
         NEW seg \in Segments,
         d.ftl.xlate_table[seg] # NotAllocated, d.ftl.xlate2_table[seg] # NotAllocated,
         d.ftl.xlate_logical = d.ftl.xlate_table[seg],
         d.ftl.xlate2_logical = d.ftl.xlate2_table[seg]
  PROVE  Ok(P, Merge(d, seg))
<1> DEFINE l == d.ftl.xlate_logical
           l2 == d.ftl.xlate2_logical
           x == WriteMap(d, "merge", l2, Merged(d))
           y == Delete(x, "retire", l)
           z == InfoType(y, "promote", l2, XLATE)
           d3 == MergeStart(d, seg, l, l2)
           h == Unpaired(d3, seg)
<1>1. Merge(d, seg) = NewXlate2(d3, seg)
  BY MergeIs
<1>2. l \in Logical /\ l2 \in Logical /\ l = d.ftl.xlate_table[seg] /\ l2 = d.ftl.xlate2_table[seg]
      /\ l = d.ftl.xlate_logical /\ l2 = d.ftl.xlate2_logical
  BY TablesHold
<1>3. /\ x = WriteMap(d, "merge", l2, Merged(d)) /\ y = Delete(x, "retire", l)
      /\ z = InfoType(y, "promote", l2, XLATE)
  OBVIOUS
<1>4. d3 = [z EXCEPT !.ftl.xlate_cache = Merged(d), !.ftl.xlate_logical = l2,
                     !.ftl.xlate_table[seg] = l2]
  BY DEF MergeStart, Retired
<1>5. d3 = MergeStart(d, seg, l, l2) /\ h = Unpaired(d3, seg)
  OBVIOUS
<1> DEFINE m == Merged(d)
<1> HIDE DEF l, l2, x, y, z, d3, h
<1>6. "retire" \notin Recoverable
  BY DEF Recoverable
<1>7. Survivable(P, d, "merge")
  BY GoodSurvivable
<1>8. Ok(P, x)
  BY <1>3, <1>7, OkWriteMap
<1>9. Ok(P, y)
  <2>1. Survivable(P, x, "retire")
    BY <1>6, QuietStep
  <2> QED  BY <1>3, <1>8, <2>1, OkDelete
<1>10. Ok(P, z)
  <2>1. y = Retired(d, l, l2)
    BY <1>3 DEF Retired
  <2>2. Survivable(P, y, "promote")
    BY <1>2, <2>1, RetiredSurvivable
  <2> QED  BY <1>3, <1>9, <2>2, OkInfoType
<1>11. Ok(P, d3)
  <2>1. z = [nor |-> z.nor, ftl |-> z.ftl, steps |-> z.steps]
    BY <1>10 DEF Ok
  <2>2. d3 = [z EXCEPT !.ftl.xlate_cache = m, !.ftl.xlate_logical = l2,
                       !.ftl.xlate_table[seg] = l2]
    BY <1>4
  <2> HIDE DEF m
  <2>3. SameImage(z, d3)
    BY Zenon, <2>1, <2>2, PromotedImage
  <2> QED  BY <1>10, <2>3, OkRam
<1>12. Good(h) /\ SameData(d, h) /\ h.nor = d3.nor
  BY <1>2, <1>5, MergeUnpaired
<1>13. Keeps(h, P)
  BY <1>12, KeepsSame
<1>14. Survivable(P, d3, "xlate2")
  BY <1>12, <1>13, GoodSurvivable
<1> QED  BY <1>1, <1>11, <1>14, OkNewXlate

(* Before a block is placed ...                                            *)
LEMMA OkPrepared ==
  ASSUME PowerLostWithin, NEW P \in SUBSET Address, NEW d, Ok(P, d), Good(d), Keeps(d, P),
         NEW a \in Address, NEW r, r = Prepared(d, a)
  PROVE  Ok(P, r)
<1> DEFINE seg == Segment(a)
           e == XlateIndex(a)
           x == LoadXlate(d, seg)
           y == LoadXlate2(x, seg)
<1>1. CASE Direct(a)
  BY <1>1 DEF Prepared
<1>2. ASSUME ~Direct(a), d.ftl.xlate_table[seg] = NotAllocated PROVE Ok(P, r)
  <2>1. r = NewXlate(d, seg)
    BY <1>2 DEF Prepared
  <2>2. Survivable(P, d, "xlate")
    BY GoodSurvivable
  <2> QED  BY <2>1, <2>2, OkNewXlate
<1>3. ASSUME ~Direct(a), d.ftl.xlate_table[seg] # NotAllocated PROVE Ok(P, r)
  <2>1. seg \in Segments
    BY <1>3, Entered
  <2>2. r = CASE x.ftl.xlate_cache[e] = NotAllocated -> x
              [] /\ x.ftl.xlate_cache[e] # NotAllocated
                 /\ x.ftl.xlate2_table[seg] = NotAllocated -> NewXlate2(x, seg)
              [] OTHER -> IF y.ftl.xlate2_cache[e] = NotAllocated THEN y ELSE Merge(y, seg)
    BY <1>3 DEF Prepared
  <2>3. x = LoadXlate(d, seg) /\ y = LoadXlate2(x, seg)
    OBVIOUS
  <2> HIDE DEF seg, e, x, y
  <2>4. Ok(P, x)
    BY <2>3, OkLoaded
  <2>5. /\ Good(x) /\ SameTables(d, x) /\ SameData(d, x)
        /\ x.ftl.xlate_logical = d.ftl.xlate_table[seg]
    BY <1>3, <2>1, <2>3, XlateLoaded
  <2>6. Keeps(x, P)
    BY <2>5, KeepsSame
  <2>7. Ok(P, NewXlate2(x, seg))
    <3>1. Survivable(P, x, "xlate2")
      BY <2>5, <2>6, GoodSurvivable
    <3> QED  BY <2>4, <3>1, OkNewXlate
  <2>8. Ok(P, y)
    BY <2>3, <2>4, OkLoaded
  <2>9. ASSUME x.ftl.xlate2_table[seg] # NotAllocated PROVE Ok(P, Merge(y, seg))
    <3>1. /\ Good(y) /\ SameTables(x, y) /\ SameCache(x, y) /\ SameData(x, y)
          /\ y.ftl.xlate2_logical = x.ftl.xlate2_table[seg]
      BY <2>1, <2>3, <2>5, <2>9, Xlate2Loaded
    <3>2. Keeps(y, P)
      BY <2>6, <3>1, KeepsSame
    <3>3. /\ y.ftl.xlate_table[seg] # NotAllocated /\ y.ftl.xlate2_table[seg] # NotAllocated
          /\ y.ftl.xlate_logical = y.ftl.xlate_table[seg]
          /\ y.ftl.xlate2_logical = y.ftl.xlate2_table[seg]
      BY <1>3, <2>5, <2>9, <3>1 DEF SameTables, SameCache
    <3> QED  BY <2>1, <2>8, <3>1, <3>2, <3>3, OkMerge
  <2>10. \/ r = x \/ r = NewXlate2(x, seg) \/ r = y
         \/ x.ftl.xlate2_table[seg] # NotAllocated /\ r = Merge(y, seg)
    BY <2>2
  <2> QED  BY <2>4, <2>7, <2>8, <2>9, <2>10
<1> QED  BY <1>1, <1>2, <1>3

(* ... and while it is.                                                    *)
LEMMA PlacedImage ==
  ASSUME NEW d, d = [nor |-> d.nor, ftl |-> d.ftl, steps |-> d.steps], NEW a, NEW l,
         NEW r, r = [d EXCEPT !.ftl.block_table[a] = l]
  PROVE  SameImage(d, r)
BY DEF SameImage

LEMMA HeldSurvivable ==
  ASSUME NEW P \in SUBSET Address, NEW q, NEW l, Held(q, l), Keeps(q, P),
         NEW x, Touched(q, x, l), Sectors(x), NEW a, InfoAt(x, l) = Info(RESERVED, a), NEW step
  PROVE  Survivable(P, x, step)
<1> DEFINE r == Delete(x, "abandon", l)
           g == [nor |-> r.nor, ftl |-> r.ftl, steps |-> << >>]
<1>1. r = Delete(x, "abandon", l) /\ g.nor = r.nor /\ g.ftl = r.ftl /\ g.steps = << >>
      /\ g = [nor |-> r.nor, ftl |-> r.ftl, steps |-> << >>]
  OBVIOUS
<1> HIDE DEF r, g
<1>2. InfoAt(x, l).written /\ InfoAt(x, l).type = RESERVED
  BY InfoFields
<1>3. Good(r) /\ SameData(q, r) /\ HalfDone(r, x.nor, l)
  BY <1>1, <1>2, HeldDropped
<1>4. Good(g) /\ SameData(r, g)
  BY <1>1, <1>3, OperationOver
<1>5. Keeps(g, P)
  <2>1. Keeps(r, P)
    BY SMTT(30), <1>3, KeepsSame
  <2> QED  BY <1>4, <2>1, KeepsSame
<1>6. HalfDone(g, x.nor, l)
  BY Zenon, <1>1, <1>3 DEF HalfDone, InfoAt, UnitOf
<1>7. l \in Logical /\ x.nor \in Flash
  BY DEF Held, Touched, Device
<1> QED  BY <1>1, <1>4, <1>5, <1>6, <1>7 DEF Survivable, Survives, Damaged

LEMMA OkPlace ==
  ASSUME PowerLostWithin, NEW P \in SUBSET Address, NEW d, Ok(P, d), Survivable(P, d, "reserve"),
         NEW l, Held(d, l), Keeps(d, P), NEW a \in Address, NEW user \in User
  PROVE  Ok(P, Place(d, l, a, user))
<1> DEFINE old == d.ftl.block_table[a]
           x == InfoEntry(d, "reserve", l, RESERVED, a)
           y == WriteUser(x, "data", l, user)
           z == InfoType(y, "commit", l, DATA_COMMITTED)
           w == [z EXCEPT !.ftl.block_table[a] = l]
           f == InfoType(y, "written", l, DATA_WRITTEN)
<1>1. Place(d, l, a, user) = IF Direct(a) THEN IF old = NotAllocated THEN w ELSE Delete(w, "delete", old)
                             ELSE Modify(f, a, l)
  BY DEF Place
<1>2. /\ x = InfoEntry(d, "reserve", l, RESERVED, a) /\ y = WriteUser(x, "data", l, user)
      /\ z = InfoType(y, "commit", l, DATA_COMMITTED) /\ w = [z EXCEPT !.ftl.block_table[a] = l]
      /\ f = InfoType(y, "written", l, DATA_WRITTEN)
  OBVIOUS
<1>3. Touched(d, y, l) /\ Sectors(y) /\ InfoAt(y, l) = Info(RESERVED, a)
  BY DataWritten
<1> HIDE DEF old, x, y, z, w, f
<1>4. Touched(d, x, l) /\ Sectors(x) /\ InfoAt(x, l) = Info(RESERVED, a)
  <2>1. /\ d \in Device /\ Sectors(d) /\ l \in Logical /\ InfoAt(d, l) = BlankInfo
        /\ "reserve" \in StepName
    BY DEF Held, Almost, StepName
  <2>2. RESERVED \in SUBSET (0..3) /\ a \in {-1} \cup 0..Units + Addresses
    BY Types, SegmentInfo
  <2>3. Touched(d, x, l) /\ InfoAt(x, l) = Info(RESERVED, a)
    BY <1>2, <2>1, <2>2, EntryWritten
  <2> QED  BY <2>1, <2>3 DEF Touched, Sectors
<1>5. Ok(P, x)
  BY <1>2, OkInfoEntry
<1>6. Ok(P, y)
  <2>1. Survivable(P, x, "data")
    BY <1>4, HeldSurvivable
  <2> QED  BY <1>2, <1>5, <2>1, OkWriteUser
<1>7. Survivable(P, y, "commit") /\ Survivable(P, y, "written")
  BY <1>3, HeldSurvivable
<1>8. Ok(P, z) /\ Ok(P, f)
  BY <1>2, <1>6, <1>7, OkInfoType
<1>9. Ok(P, w)
  <2>1. z = [nor |-> z.nor, ftl |-> z.ftl, steps |-> z.steps]
    BY <1>8 DEF Ok
  <2>2. SameImage(z, w)
    BY <1>2, <2>1, PlacedImage
  <2> QED  BY <1>8, <2>2, OkRam
<1>10. Ok(P, Delete(w, "delete", old))
  BY <1>9, OkDeleted
<1>11. Ok(P, Modify(f, a, l))
  BY <1>8, OkModify
<1> QED  BY <1>1, <1>9, <1>10, <1>11

LEMMA OkWriteBlock ==
  ASSUME PowerLostWithin, NEW P \in SUBSET Address, NEW d, Ok(P, d), Good(d), Keeps(d, P),
         d.ftl.alloc_free > 1, NEW a \in Address, NEW user \in User
  PROVE  Ok(P, WriteBlock(d, a, user))
<1> DEFINE x == Prepared(d, a)
           q == Allocate(x)
           l == NextFree(x)
<1>1. /\ WriteBlock(d, a, user) = Place(q, l, a, user)
      /\ x = Prepared(d, a) /\ q = Allocate(x) /\ l = NextFree(x)
  BY DEF WriteBlock
<1> HIDE DEF x, q, l
<1>2. Good(x) /\ SameData(d, x) /\ x.ftl.alloc_free > 0
  BY <1>1, Prepares
<1>3. Ok(P, x) /\ Keeps(x, P)
  BY <1>1, <1>2, OkPrepared, KeepsSame
<1>4. Ok(P, q) /\ q.nor = x.nor
  BY <1>1, <1>3, OkAllocate
<1>5. Survivable(P, q, "reserve")
  BY <1>2, <1>3, <1>4, GoodSurvivable
<1>6. Held(q, l) /\ Keeps(q, P)
  <2>1. Held(q, l) /\ SameData(x, q)
    BY <1>1, <1>2, Holds
  <2> QED  BY <1>3, <2>1, KeepsSame
<1> QED  BY <1>1, <1>4, <1>5, <1>6, OkPlace

(* Power is lost in a discard.                                             *)
LEMMA OkDiscardBlock ==
  ASSUME PowerLostWithin, NEW P \in SUBSET Address, NEW d, Ok(P, d), Good(d), Keeps(d, P),
         NEW a \in Address, ~Direct(a)
  PROVE  Ok(P, DiscardBlock(d, a))
<1> DEFINE q == Loaded(d, a)
           l == Lookup(d, a)
           x == InfoType(q, "discard", l, DATA_DELETED)
<1>1. DiscardBlock(d, a) = q \/ DiscardBlock(d, a) = Trim(x, a, l)
  BY DEF DiscardBlock
<1>2. x = InfoType(q, "discard", l, DATA_DELETED)
  OBVIOUS
<1>3. Ok(P, q)
  <2> DEFINE y == LoadXlate(d, Segment(a))
             z == LoadXlate2(y, Segment(a))
  <2>1. q = d \/ q = y \/ q = z
    BY DEF Loaded
  <2> HIDE DEF q
  <2>2. y = LoadXlate(d, Segment(a)) /\ z = LoadXlate2(y, Segment(a))
    OBVIOUS
  <2> HIDE DEF y, z
  <2>3. Ok(P, y)
    BY <2>2, OkLoaded
  <2>4. Ok(P, z)
    BY <2>2, <2>3, OkLoaded
  <2> QED  BY <2>1, <2>3, <2>4
<1>4. Good(q) /\ SameData(d, q)
  BY Finds
<1> HIDE DEF q, l, x
<1>5. Keeps(q, P)
  BY <1>4, KeepsSame
<1>6. Survivable(P, q, "discard")
  BY <1>4, <1>5, GoodSurvivable
<1>7. Ok(P, x)
  BY <1>2, <1>3, <1>6, OkInfoType
<1>8. Ok(P, Trim(x, a, l))
  BY <1>7, OkTrim
<1> QED  BY <1>1, <1>3, <1>8

(* Power is lost in a reclaim.                                             *)
LEMMA OkQuietPut ==
  ASSUME PowerLostWithin, NEW P, NEW d, Ok(P, d), NEW step, step \notin Recoverable,
         NEW u, NEW image, NEW sticks
  PROVE  Ok(P, Put(d, step, u, image, sticks))
<1>1. Survivable(P, d, step)
  BY QuietStep
<1> QED  BY <1>1, OkPut

(* A unit that is kept, and filled.                                        *)
LEMMA MarkedSurvives ==
  ASSUME LostInReclaim, NEW P \in SUBSET Address, NEW d, Good(d), Keeps(d, P), NEW s \in Sector,
         NEW x, IsMarked(d, x, s), NEW y \in Device,
         y.nor[d.ftl.reclaim].info[0] = Info(RESERVED, -1),
         \A u \in Unit : u # d.ftl.reclaim => y.nor[u] = x.nor[u]
  PROVE  Survives(P, y.nor)
<1> DEFINE n == y.nor
           v == d.ftl.sector_table[s]
           r == d.ftl.reclaim
<1>1. v \in Unit /\ r \in Unit /\ r # v
  BY DEF Good, Sectors
<1>2. x.nor[v] = Marked(d.nor[v], s) /\ \A u \in Unit : u # v => x.nor[u] = d.nor[u]
  BY DEF IsMarked
<1>3. n[v] = x.nor[v] /\ \A u \in Unit : u # v /\ u # r => n[u] = d.nor[u]
  BY <1>1, <1>2
<1>4. HalfReclaimed(d, n, s)
  BY <1>2, <1>3 DEF HalfReclaimed
<1>5. n \in Flash
  BY DEF Device
<1> QED  BY <1>4, <1>5, DamagedSurvives

LEMMA OkCopied ==
  ASSUME NEW P \in SUBSET Address, NEW d, Good(d), Keeps(d, P), NEW s \in Sector,
         NEW x, IsMarked(d, x, s), Ok(P, x), NEW live,
         NEW v, v = d.ftl.sector_table[s], NEW r, r = d.ftl.reclaim
  PROVE  Ok(P, Buffered(Copied(x, v, r, live), live))
<1> DEFINE block == [i \in Index |-> IF i \in live THEN x.nor[v].block[i] ELSE BlankBlock]
           copy == [info |-> x.nor[r].info, block |-> block]
           blank == \A i \in Index : x.nor[r].block[i] = BlankBlock
           p == Put(x, "copy", r, copy, blank)
           q == Copied(x, v, r, live)
           y == DropXlate2(q)
<1>1. /\ x \in Device /\ x.nor[r] = Kept /\ v \in Unit /\ r \in Unit /\ r # v
      /\ x.nor[v] \in UnitImage /\ x.nor[r] \in UnitImage
  <2>1. d.nor[r] = Kept /\ v \in Unit /\ r \in Unit /\ r # v
    BY SMTT(30) DEF Good, Headers, Sectors
  <2> QED  BY <2>1 DEF IsMarked, Device, Flash
<1>2. PICK i2, s2 : q = Put(p, "reclaim", r, i2, s2)
  BY Zenon DEF Copied
<1>3. copy \in UnitImage /\ copy.info[0] = Info(RESERVED, -1)
  <2>1. block \in [Index -> BlockImage]
    BY <1>1, Images DEF UnitImage
  <2>2. Kept.info[0] = Info(RESERVED, -1)
    BY KeptImage
  <2> HIDE DEF block
  <2> QED  BY <1>1, <2>1, <2>2 DEF UnitImage
<1>4. blank = TRUE /\ p = PutSurely(x, "copy", r, copy)
  <2>1. blank
    BY <1>1, KeptImage
  <2>2. p = Put(x, "copy", r, copy, blank) /\ blank \in BOOLEAN
    OBVIOUS
  <2> HIDE DEF blank, copy, p
  <2> QED  BY <2>1, <2>2 DEF PutSurely
<1>5. p = Put(x, "copy", r, copy, blank) /\ y = DropXlate2(q) /\ q = Copied(x, v, r, live)
  OBVIOUS
<1> HIDE DEF block, copy, blank, p, q, y
<1>6. p \in Device /\ p.nor[r] = copy /\ \A u \in Unit : u # r => p.nor[u] = x.nor[u]
  <2>1. "copy" \in StepName
    BY DEF StepName
  <2> QED  BY <1>1, <1>3, <1>4, <2>1, PutSure
<1>7. ASSUME LostInReclaim PROVE Survives(P, x.nor)
  <2>1. x.nor[r].info[0] = Info(RESERVED, -1)
    BY <1>1, KeptImage
  <2> QED  BY <1>1, <1>7, <2>1, MarkedSurvives
<1>8. ASSUME LostInReclaim PROVE Survives(P, p.nor)
  <2>1. p.nor[r].info[0] = Info(RESERVED, -1)
    BY <1>3, <1>6
  <2> QED  BY ZenonT(40), <1>6, <1>8, <2>1, MarkedSurvives
<1>9. Ok(P, p)
  <2>1. Survivable(P, x, "copy")
    BY <1>7 DEF Survivable, LostInReclaim
  <2> QED  BY <1>5, <2>1, OkPut
<1>10. Ok(P, q)
  <2>1. Survivable(P, p, "reclaim")
    BY <1>8 DEF Survivable, LostInReclaim
  <2> QED  BY <1>2, <1>9, <2>1, OkPut
<1>11. q = [nor |-> q.nor, ftl |-> q.ftl, steps |-> q.steps]
  BY <1>10 DEF Ok
<1>12. SameImage(q, y)
  BY Zenon, <1>5, <1>11, Dropped2Image DEF DropXlate2
<1>13. Ok(P, y)
  BY <1>10, <1>12, OkRam
<1> QED  BY <1>5, <1>10, <1>13 DEF Buffered

LEMMA DroppedImage ==
  ASSUME NEW d, d = [nor |-> d.nor, ftl |-> d.ftl, steps |-> d.steps], NEW s, NEW r, NEW v,
         NEW q, q = [DropXlate(d) EXCEPT !.ftl.sector_table[s] = r, !.ftl.reclaim = v]
  PROVE  SameImage(d, q)
BY DEF SameImage, DropXlate

LEMMA CreditedImage ==
  ASSUME NEW d, d = [nor |-> d.nor, ftl |-> d.ftl, steps |-> d.steps], NEW s, NEW dead, NEW live,
         NEW q, q = Credited(d, s, dead, live)
  PROVE  SameImage(d, q)
BY DEF SameImage, Credited

LEMMA OkSwap ==
  ASSUME PowerLostWithin, NEW P, NEW d, Ok(P, d), NEW v, NEW s, NEW r,
         Survives(P, Swapping(d, v, s, r).nor)
  PROVE  Ok(P, Swap(d, v, s, r))
<1> DEFINE x == Put(d, "erase", v, Blank, TRUE)
           y == Put(x, "header", v, Kept, TRUE)
           z == [DropXlate(y) EXCEPT !.ftl.sector_table[s] = r, !.ftl.reclaim = v]
<1>1. Swap(d, v, s, r) = InfoType(z, "sector", <<s, 0>>, ERASE)
  BY DEF Swap, Kept
<1>2. "erase" \notin Recoverable /\ "header" \notin Recoverable
  BY DEF Recoverable
<1>3. z = Swapping(d, v, s, r)
  BY DEF Swapping, PutSurely
<1>4. Ok(P, x)
  BY <1>2, OkQuietPut
<1> HIDE DEF x
<1>5. Ok(P, y)
  BY <1>2, <1>4, OkQuietPut
<1> HIDE DEF y
<1>6. SameImage(y, z)
  <2>1. y = [nor |-> y.nor, ftl |-> y.ftl, steps |-> y.steps]
    BY <1>5 DEF Ok
  <2> QED  BY Zenon, <2>1, DroppedImage
<1> HIDE DEF z
<1>7. Ok(P, z)
  BY <1>5, <1>6, OkRam
<1>8. Survivable(P, z, "sector")
  BY <1>3 DEF Survivable
<1>9. Ok(P, InfoType(z, "sector", <<s, 0>>, ERASE))
  BY <1>7, <1>8, OkInfoType
<1> QED  BY <1>1, <1>9

(* A reclaim from the mark of the victim on.                                *)
LEMMA OkFinished ==
  ASSUME PowerLostWithin, NEW P \in SUBSET Address, NEW d, Good(d), Keeps(d, P),
         NEW s \in Sector, NEW x, IsMarked(d, x, s), Ok(P, x)
  PROVE  Ok(P, Finished(d, x, s))
<1> DEFINE v == d.ftl.sector_table[s]
           r == d.ftl.reclaim
           dead == Dead(d, s)
           live == Live(d, s)
           y == Buffered(Copied(x, v, r, live), live)
           z == Swap(y, v, s, r)
           n == Swapping(y, v, s, r).nor
           q == Finished(d, x, s)
<1>1. /\ y = Buffered(Copied(x, v, r, live), live) /\ z = Swap(y, v, s, r)
      /\ n = Swapping(y, v, s, r).nor /\ n = Adopting(x, v, s, r, live).nor
      /\ q = Finished(d, x, s) /\ q = Credited(z, s, dead, live)
      /\ v = d.ftl.sector_table[s] /\ r = d.ftl.reclaim /\ live = Live(d, s)
  BY DEF Adopting, Finished, FromMarked
<1>2. Reclaimed(d, q, s) /\ Adopts(n, q, r, s)
  BY <1>1, Reclaims
<1> HIDE DEF v, r, dead, live, y, z, n, q
<1>3. Good(q) /\ SameData(d, q)
  BY <1>2, ReclaimedKeeps
<1>4. Survives(P, n)
  <2>1. Keeps(q, P)
    BY <1>3, KeepsSame
  <2>2. q.ftl.sector_table = [d.ftl.sector_table EXCEPT ![s] = r]
    BY Zenon, <1>1, <1>2 DEF Reclaimed
  <2>3. q.ftl.sector_table[s] = r
    <3>1. d.ftl.sector_table \in [Sector -> Unit \cup {NoUnit}]
      BY DEF Good, Device, Ftl
    <3> QED  BY <2>2, <3>1
  <2> QED  BY <1>2, <1>3, <2>1, <2>3, DamagedSurvives
<1>5. Ok(P, y)
  BY <1>1, OkCopied
<1>6. Ok(P, z)
  BY <1>1, <1>4, <1>5, OkSwap
<1>7. Ok(P, q)
  <2>1. z = [nor |-> z.nor, ftl |-> z.ftl, steps |-> z.steps]
    BY <1>6 DEF Ok
  <2>2. SameImage(z, q)
    BY <1>1, <2>1, CreditedImage
  <2> QED  BY <1>6, <2>2, OkRam
<1> QED  BY <1>1, <1>7

LEMMA OkReclaim ==
  ASSUME PowerLostWithin, NEW P \in SUBSET Address, NEW d, Ok(P, d), Good(d), Keeps(d, P),
         NEW t \in Sector
  PROVE  Ok(P, Reclaim(d, d.ftl.sector_table[t]))
<1> DEFINE v == d.ftl.sector_table[t]
           x == MarkedAt(d, t)
<1>1. IsMarked(d, x, t) /\ Reclaim(d, v) = Finished(d, x, t)
  BY MarksUnit
<1>2. Ok(P, x)
  <2>1. Survivable(P, d, "victim")
    BY GoodSurvivable
  <2> QED  BY <2>1, OkPut DEF MarkedAt, PutSurely
<1> HIDE DEF x
<1>3. Ok(P, Finished(d, x, t))
  BY <1>1, <1>2, OkFinished
<1> QED  BY <1>1, <1>3
-----------------------------------------------------------------------------
(* Mounting.                                                               *)

(* Counting up reaches every number.                                       *)
LEMMA CountingUp ==
  ASSUME NEW n \in Nat, NEW P, 0 \in P, \A k \in 1..n : k - 1 \in P => k \in P
  PROVE  \A k \in 0..n : k \in P
<1> DEFINE T == {k \in 0..n : k \notin P}
<1>1. SUFFICES T = {}
  OBVIOUS
<1>2. SUFFICES ASSUME T # {} PROVE FALSE
  OBVIOUS
<1>3. T \in SUBSET Nat
  OBVIOUS
<1> DEFINE m == Min(T)
<1>4. m \in T /\ \A y \in T : m <= y
  <2> HIDE DEF T
  <2> QED  BY <1>2, <1>3, Least
<1> HIDE DEF m
<1>5. m \in 1..n /\ m - 1 \in 0..n /\ m - 1 \notin T
  BY <1>4
<1> QED  BY <1>4, <1>5

(* A step applied to what the step before it left, from x on.               *)
Recurs(f, n, x, G) == f = [k \in 0..n |-> IF k = 0 THEN x ELSE G[k][f[k - 1]]]

(* A function defined by recursion exists and keeps an invariant.          *)
LEMMA Recursion ==
  ASSUME NEW n \in Nat, NEW I, NEW x \in I[0], NEW G,
         \A k \in 1..n : \A y \in I[k - 1] : G[k][y] \in I[k]
  PROVE  \E f : Recurs(f, n, x, G) /\ \A k \in 0..n : f[k] \in I[k]
<1> DEFINE U == UNION {I[k] : k \in 0..n}
           Is(f, m) == /\ f[0] = x /\ \A j \in 1..m : f[j] = G[j][f[j - 1]]
                       /\ \A j \in 0..m : f[j] \in I[j]
           P == {m \in 0..n : \E f \in [0..m -> U] : Is(f, m)}
<1>1. 0 \in P
  <2>1. [j \in 0..0 |-> x] \in [0..0 -> U] /\ Is([j \in 0..0 |-> x], 0)
    OBVIOUS
  <2>2. 0 \in 0..n
    OBVIOUS
  <2> HIDE DEF Is, U
  <2> QED  BY <2>1, <2>2
<1>2. ASSUME NEW m \in 1..n, m - 1 \in P PROVE m \in P
  <2>1. PICK f \in [0..m - 1 -> U] : Is(f, m - 1)
    BY <1>2
  <2> DEFINE y == G[m][f[m - 1]]
             g == [j \in 0..m |-> IF j = m THEN y ELSE f[j]]
  <2>2. f[m - 1] \in I[m - 1]
    BY <2>1
  <2>3. y \in I[m] /\ y \in U
    BY <2>2
  <2> HIDE DEF y
  <2>4. g[0] = x /\ g[m] = y /\ \A j \in 0..m - 1 : g[j] = f[j]
    BY <2>1
  <2>5. g \in [0..m -> U]
    BY <2>1, <2>3
  <2> HIDE DEF g
  <2>6. \A j \in 0..m : g[j] \in I[j]
    <3>1. \A j \in 0..m : j = m \/ j \in 0..m - 1
      OBVIOUS
    <3> QED  BY <2>1, <2>3, <2>4, <3>1
  <2>7. \A j \in 1..m : g[j] = G[j][g[j - 1]]
    <3> TAKE j \in 1..m
    <3>1. j - 1 \in 0..m - 1
      OBVIOUS
    <3>2. CASE j = m
      BY <2>4, <3>1, <3>2 DEF y
    <3>3. CASE j # m
      <4>1. j \in 1..m - 1 /\ j \in 0..m - 1
        BY <3>3
      <4> QED  BY <2>1, <2>4, <3>1, <4>1
    <3> QED  BY <3>2, <3>3
  <2>8. Is(g, m)
    BY <2>4, <2>6, <2>7
  <2>9. m \in 0..n
    OBVIOUS
  <2> HIDE DEF Is, U
  <2> QED  BY <2>5, <2>8, <2>9
<1> HIDE DEF P
<1>3. n \in P
  BY <1>1, <1>2, CountingUp
<1>4. PICK f \in [0..n -> U] : Is(f, n)
  <2> HIDE DEF Is, U
  <2> QED  BY <1>3 DEF P
<1>5. f = [k \in 0..n |-> IF k = 0 THEN x ELSE G[k][f[k - 1]]]
  <2>1. \A k \in 0..n : f[k] = IF k = 0 THEN x ELSE G[k][f[k - 1]]
    <3> TAKE k \in 0..n
    <3>1. k = 0 \/ k \in 1..n
      OBVIOUS
    <3>2. f[0] = x /\ \A j \in 1..n : f[j] = G[j][f[j - 1]]
      BY <1>4
    <3> QED  BY <3>1, <3>2
  <2> HIDE DEF Is
  <2> QED  BY <2>1
<1> QED  BY <1>4, <1>5 DEF Recurs

(* What collecting an info word leaves alone.                              *)
Scanning(x, r) ==
  /\ r \in Device /\ SameFlash(x, r) /\ SameCache(x, r) /\ SameCache2(x, r) /\ SameAlloc(x, r)
  /\ r.ftl.sector_table = x.ftl.sector_table /\ r.ftl.reclaim = x.ftl.reclaim

(* An entry of a table in RAM is written.                                  *)
ScoreTo(x, s, n) == [x EXCEPT !.ftl.score[s] = n]
XlateTo(x, seg, l) == [x EXCEPT !.ftl.xlate_table[seg] = l]
Xlate2To(x, seg, l) == [x EXCEPT !.ftl.xlate2_table[seg] = l]
BlockTo(x, a, l) == [x EXCEPT !.ftl.block_table[a] = l]

(* One field of the RAM is assigned: the scan's stores, one by one.        *)
LEMMA RamReplaced ==
  ASSUME NEW x \in Device, NEW f \in Ftl, NEW r, r = [x EXCEPT !.ftl = f]
  PROVE  r \in Device /\ r.ftl = f /\ SameFlash(x, r)
<1>1. r = [nor |-> x.nor, ftl |-> f, steps |-> x.steps] /\ x.nor \in Flash /\ x.steps \in Seq(Step)
  BY DEF Device
<1> QED  BY <1>1 DEF Device, SameFlash

LEMMA ScoreSet ==
  ASSUME NEW x \in Device, NEW s \in Sector, NEW n \in Nat,
         NEW r, r = ScoreTo(x, s, n)
  PROVE  /\ Scanning(x, r) /\ r.ftl.score[s] = n
         /\ \A t \in Sector : t # s => r.ftl.score[t] = x.ftl.score[t]
         /\ r.ftl.block_table = x.ftl.block_table
         /\ r.ftl.xlate_table = x.ftl.xlate_table /\ r.ftl.xlate2_table = x.ftl.xlate2_table
<1> DEFINE new == [x.ftl.score EXCEPT ![s] = n]
           f == [x.ftl EXCEPT !.score = new]
<1>1. x.ftl \in Ftl /\ r = [x EXCEPT !.ftl = f]
  BY DEF Device, ScoreTo
<1>2. x.ftl.score \in [Sector -> Nat]
  BY <1>1 DEF Ftl
<1>3. /\ new \in [Sector -> Nat] /\ new[s] = n
      /\ \A t \in Sector : t # s => new[t] = x.ftl.score[t]
  BY <1>2
<1> HIDE DEF new
<1>4. f \in Ftl
  BY <1>1, <1>3 DEF Ftl
<1>5. /\ f.score = new /\ f.block_table = x.ftl.block_table
      /\ f.xlate_table = x.ftl.xlate_table /\ f.xlate2_table = x.ftl.xlate2_table
      /\ f.sector_table = x.ftl.sector_table /\ f.reclaim = x.ftl.reclaim
      /\ f.xlate_logical = x.ftl.xlate_logical /\ f.xlate_cache = x.ftl.xlate_cache
      /\ f.xlate2_logical = x.ftl.xlate2_logical /\ f.xlate2_cache = x.ftl.xlate2_cache
      /\ f.alloc_sector = x.ftl.alloc_sector /\ f.alloc_mask = x.ftl.alloc_mask
      /\ f.alloc_free = x.ftl.alloc_free /\ f.allocated = x.ftl.allocated
  BY <1>1 DEF Ftl
<1> HIDE DEF f
<1>6. r \in Device /\ r.ftl = f /\ SameFlash(x, r)
  BY <1>1, <1>4, RamReplaced
<1> QED  BY <1>3, <1>5, <1>6 DEF Scanning, SameCache, SameCache2, SameAlloc

LEMMA XlateSet ==
  ASSUME NEW x \in Device, NEW seg \in Segments, NEW l \in Logical,
         NEW r, r = XlateTo(x, seg, l)
  PROVE  /\ Scanning(x, r) /\ r.ftl.xlate_table[seg] = l
         /\ \A other \in Segments : other # seg => r.ftl.xlate_table[other] = x.ftl.xlate_table[other]
         /\ r.ftl.block_table = x.ftl.block_table
         /\ r.ftl.xlate2_table = x.ftl.xlate2_table /\ r.ftl.score = x.ftl.score
<1> DEFINE new == [x.ftl.xlate_table EXCEPT ![seg] = l]
           f == [x.ftl EXCEPT !.xlate_table = new]
<1>1. x.ftl \in Ftl /\ r = [x EXCEPT !.ftl = f]
  BY DEF Device, XlateTo
<1>2. x.ftl.xlate_table \in [Segments -> Content] /\ l \in Content
  BY <1>1 DEF Ftl, Content
<1>3. /\ new \in [Segments -> Content] /\ new[seg] = l
      /\ \A other \in Segments : other # seg => new[other] = x.ftl.xlate_table[other]
  BY <1>2
<1> HIDE DEF new
<1>4. f \in Ftl
  BY <1>1, <1>3 DEF Ftl
<1>5. /\ f.score = x.ftl.score /\ f.block_table = x.ftl.block_table
      /\ f.xlate_table = new /\ f.xlate2_table = x.ftl.xlate2_table
      /\ f.sector_table = x.ftl.sector_table /\ f.reclaim = x.ftl.reclaim
      /\ f.xlate_logical = x.ftl.xlate_logical /\ f.xlate_cache = x.ftl.xlate_cache
      /\ f.xlate2_logical = x.ftl.xlate2_logical /\ f.xlate2_cache = x.ftl.xlate2_cache
      /\ f.alloc_sector = x.ftl.alloc_sector /\ f.alloc_mask = x.ftl.alloc_mask
      /\ f.alloc_free = x.ftl.alloc_free /\ f.allocated = x.ftl.allocated
  BY <1>1 DEF Ftl
<1> HIDE DEF f
<1>6. r \in Device /\ r.ftl = f /\ SameFlash(x, r)
  BY <1>1, <1>4, RamReplaced
<1> QED  BY <1>3, <1>5, <1>6 DEF Scanning, SameCache, SameCache2, SameAlloc

LEMMA Xlate2Set ==
  ASSUME NEW x \in Device, NEW seg \in Segments, NEW l \in Logical,
         NEW r, r = Xlate2To(x, seg, l)
  PROVE  /\ Scanning(x, r) /\ r.ftl.xlate2_table[seg] = l
         /\ \A other \in Segments : other # seg => r.ftl.xlate2_table[other] = x.ftl.xlate2_table[other]
         /\ r.ftl.block_table = x.ftl.block_table
         /\ r.ftl.xlate_table = x.ftl.xlate_table /\ r.ftl.score = x.ftl.score
<1> DEFINE new == [x.ftl.xlate2_table EXCEPT ![seg] = l]
           f == [x.ftl EXCEPT !.xlate2_table = new]
<1>1. x.ftl \in Ftl /\ r = [x EXCEPT !.ftl = f]
  BY DEF Device, Xlate2To
<1>2. x.ftl.xlate2_table \in [Segments -> Content] /\ l \in Content
  BY <1>1 DEF Ftl, Content
<1>3. /\ new \in [Segments -> Content] /\ new[seg] = l
      /\ \A other \in Segments : other # seg => new[other] = x.ftl.xlate2_table[other]
  BY <1>2
<1> HIDE DEF new
<1>4. f \in Ftl
  BY <1>1, <1>3 DEF Ftl
<1>5. /\ f.score = x.ftl.score /\ f.block_table = x.ftl.block_table
      /\ f.xlate2_table = new /\ f.xlate_table = x.ftl.xlate_table
      /\ f.sector_table = x.ftl.sector_table /\ f.reclaim = x.ftl.reclaim
      /\ f.xlate_logical = x.ftl.xlate_logical /\ f.xlate_cache = x.ftl.xlate_cache
      /\ f.xlate2_logical = x.ftl.xlate2_logical /\ f.xlate2_cache = x.ftl.xlate2_cache
      /\ f.alloc_sector = x.ftl.alloc_sector /\ f.alloc_mask = x.ftl.alloc_mask
      /\ f.alloc_free = x.ftl.alloc_free /\ f.allocated = x.ftl.allocated
  BY <1>1 DEF Ftl
<1> HIDE DEF f
<1>6. r \in Device /\ r.ftl = f /\ SameFlash(x, r)
  BY <1>1, <1>4, RamReplaced
<1> QED  BY <1>3, <1>5, <1>6 DEF Scanning, SameCache, SameCache2, SameAlloc

LEMMA BlockSet ==
  ASSUME NEW x \in Device, NEW a \in Address, Direct(a), NEW l \in Logical,
         NEW r, r = BlockTo(x, a, l)
  PROVE  /\ Scanning(x, r) /\ r.ftl.block_table[a] = l
         /\ \A b \in Address : Direct(b) /\ b # a => r.ftl.block_table[b] = x.ftl.block_table[b]
         /\ r.ftl.xlate_table = x.ftl.xlate_table
         /\ r.ftl.xlate2_table = x.ftl.xlate2_table /\ r.ftl.score = x.ftl.score
<1> DEFINE D == {b \in Address : Direct(b)}
           new == [x.ftl.block_table EXCEPT ![a] = l]
           f == [x.ftl EXCEPT !.block_table = new]
<1>1. x.ftl \in Ftl /\ r = [x EXCEPT !.ftl = f]
  BY DEF Device, BlockTo
<1>2. x.ftl.block_table \in [D -> Content] /\ l \in Content /\ a \in D
  BY <1>1 DEF Ftl, Content
<1>3. /\ new \in [D -> Content] /\ new[a] = l
      /\ \A b \in D : b # a => new[b] = x.ftl.block_table[b]
  <2> HIDE DEF D
  <2> QED  BY <1>2
<1> HIDE DEF new
<1>4. f \in Ftl
  BY <1>1, <1>3 DEF Ftl
<1>5. /\ f.score = x.ftl.score /\ f.block_table = new
      /\ f.xlate2_table = x.ftl.xlate2_table /\ f.xlate_table = x.ftl.xlate_table
      /\ f.sector_table = x.ftl.sector_table /\ f.reclaim = x.ftl.reclaim
      /\ f.xlate_logical = x.ftl.xlate_logical /\ f.xlate_cache = x.ftl.xlate_cache
      /\ f.xlate2_logical = x.ftl.xlate2_logical /\ f.xlate2_cache = x.ftl.xlate2_cache
      /\ f.alloc_sector = x.ftl.alloc_sector /\ f.alloc_mask = x.ftl.alloc_mask
      /\ f.alloc_free = x.ftl.alloc_free /\ f.allocated = x.ftl.allocated
  BY <1>1 DEF Ftl
<1> HIDE DEF f
<1>6. r \in Device /\ r.ftl = f /\ SameFlash(x, r)
  BY <1>1, <1>4, RamReplaced
<1> QED  BY <1>3, <1>5, <1>6 DEF Scanning, SameCache, SameCache2, SameAlloc

(* What the scan goes by: a block in use is listed in a table of g, ...       *)
Listed(g, l) ==
  LET word == InfoAt(g, l) IN
  \/ ~word.written
  \/ word.type = DELETED
  \/ word.type = XLATE /\ word.of \in Segments /\ g.ftl.xlate_table[word.of] = l
  \/ word.type = XLATE_SECONDARY /\ word.of \in Segments /\ g.ftl.xlate2_table[word.of] = l
  \/ /\ word.type = DATA_COMMITTED /\ word.of \in Address
     /\ Direct(word.of) => g.ftl.block_table[word.of] = l

(* ... and what is in a table is in use.                                   *)
Tabled(g, l, word) == l = NotAllocated \/ (l \in Logical /\ InfoAt(g, l) = word)

Scannable(g) ==
  /\ g \in Device /\ Sectors(g) /\ Scored(g)
  /\ \A s \in Sector : g.nor[g.ftl.sector_table[s]].info[0].of = s
  /\ \A l \in Logical : Listed(g, l)
  /\ \A seg \in Segments : /\ Tabled(g, g.ftl.xlate_table[seg], Info(XLATE, seg))
                           /\ Tabled(g, g.ftl.xlate2_table[seg], Info(XLATE_SECONDARY, seg))
  /\ \A a \in Address : Direct(a) => Tabled(g, g.ftl.block_table[a], Info(DATA_COMMITTED, a))

(* The flash that is scanned, that of q, has the info words of g, but for    *)
(* block t, if there is one: it is reserved, and the scan deletes it.         *)
AbandonStep(q) == [step |-> "abandon", before |-> q.nor, sticks |-> TRUE]
SameWords(g, q, t) ==
  \A s \in Sector :
    /\ q.nor[g.ftl.sector_table[s]].info[0].of = s
    /\ \A i \in Index : <<s, i>> # t =>
         q.nor[g.ftl.sector_table[s]].info[i] = g.nor[g.ftl.sector_table[s]].info[i]
Origin(g, q, t) ==
  /\ q \in Device /\ SameWords(g, q, t)
  /\ t \in Logical => HalfDone(g, q.nor, t)

(* The flash when the blocks of P are scanned.                             *)
FlashOf(g, q, t, x, P) ==
  IF t \in P THEN x.nor = g.nor /\ x.steps = Append(q.steps, AbandonStep(q)) ELSE SameFlash(q, x)

(* What the scan of a set P of blocks has found of what the RAM of g knew.  *)
Found(l, P) == IF l \in P THEN l ELSE NotAllocated
DeadAmong(g, s, P) == {i \in Dead(g, s) : <<s, i>> \in P}
Tables(g, x, P) ==
  /\ \A a \in Address : Direct(a) => x.ftl.block_table[a] = Found(g.ftl.block_table[a], P)
  /\ \A seg \in Segments : /\ x.ftl.xlate_table[seg] = Found(g.ftl.xlate_table[seg], P)
                           /\ x.ftl.xlate2_table[seg] = Found(g.ftl.xlate2_table[seg], P)
Partly(g, q, t, x, P) ==
  /\ x \in Device /\ FlashOf(g, q, t, x, P) /\ x.ftl.reclaim = g.ftl.reclaim
  /\ x.ftl.xlate_logical = Reserved /\ x.ftl.xlate2_logical = Reserved
  /\ x.ftl.alloc_mask = {}
  /\ Tables(g, x, P)
  /\ \A s \in Sector : x.ftl.score[s] = Cardinality(DeadAmong(g, s, P))

(* One block more is scanned.                                              *)
LEMMA DeadMore ==
  ASSUME NEW g, NEW P, NEW l \in Logical, l \notin P
  PROVE  /\ \A s \in Sector : s # l[1] \/ l[2] \notin Dead(g, s) =>
              DeadAmong(g, s, P \cup {l}) = DeadAmong(g, s, P)
         /\ l[2] \in Dead(g, l[1]) =>
              OneMore(Cardinality(DeadAmong(g, l[1], P)))
                = Cardinality(DeadAmong(g, l[1], P \cup {l}))
<1>1. l = <<l[1], l[2]>> /\ l[1] \in Sector /\ l[2] \in Index
  BY Logicals
<1>2. \A s \in Sector : s # l[1] \/ l[2] \notin Dead(g, s) =>
        DeadAmong(g, s, P \cup {l}) = DeadAmong(g, s, P)
  <2> SUFFICES ASSUME NEW s \in Sector, s # l[1] \/ l[2] \notin Dead(g, s)
               PROVE  DeadAmong(g, s, P \cup {l}) = DeadAmong(g, s, P)
    OBVIOUS
  <2>1. \A i \in Dead(g, s) : <<s, i>> # l
    BY <1>1
  <2> QED  BY <2>1 DEF DeadAmong
<1>3. ASSUME l[2] \in Dead(g, l[1])
      PROVE  OneMore(Cardinality(DeadAmong(g, l[1], P)))
               = Cardinality(DeadAmong(g, l[1], P \cup {l}))
  <2> DEFINE old == DeadAmong(g, l[1], P)
             new == DeadAmong(g, l[1], P \cup {l})
  <2>1. new \subseteq Index /\ old \subseteq Index
    BY DEF DeadAmong, Dead
  <2>2. \A i : <<l[1], i>> = l <=> i = l[2]
    BY <1>1
  <2>3. new = old \cup {l[2]} /\ l[2] \notin old
    <3>1. \A i : i \in new <=> i \in Dead(g, l[1]) /\ (<<l[1], i>> \in P \/ <<l[1], i>> = l)
      BY DEF DeadAmong
    <3>2. \A i : i \in old <=> i \in Dead(g, l[1]) /\ <<l[1], i>> \in P
      BY DEF DeadAmong
    <3> HIDE DEF new, old
    <3>3. l[2] \notin old
      BY <1>1, <3>2
    <3>4. \A i : i \in new <=> i \in old \/ i = l[2]
      BY <1>3, <2>2, <3>1, <3>2
    <3> QED  BY <3>3, <3>4
  <2> HIDE DEF new, old
  <2>4. IsFiniteSet(old) /\ IsFiniteSet(new) /\ Cardinality(new) <= Blocks - 1
    BY <2>1, FiniteLogicals, FS_Subset
  <2>5. Cardinality(new) = Cardinality(old) + 1 /\ Cardinality(old) \in Nat
    BY <2>3, <2>4, FS_AddElement, FS_CardinalityType
  <2>6. Cardinality(old) + 1 \in Nat /\ Cardinality(old) + 1 < Blocks /\ Blocks \in Nat \ {0}
    BY <2>4, <2>5, GeometryAssumption
  <2>7. (Cardinality(old) + 1) % Blocks = Cardinality(old) + 1
    BY <2>6, ModSmall
  <2> QED  BY <2>5, <2>7 DEF OneMore, old, new
<1> QED  BY <1>2, <1>3

(* What the scan sees of the other blocks.                                 *)
LEMMA WordsSeen ==
  ASSUME NEW g, NEW q, NEW t, Scannable(g), Origin(g, q, t), NEW P, NEW x, FlashOf(g, q, t, x, P),
         NEW l \in Logical, x.ftl.sector_table[l[1]] = g.ftl.sector_table[l[1]]
  PROVE  /\ l # t => InfoAt(x, l) = InfoAt(g, l)
         /\ InfoAt(x, l).written <=> InfoAt(g, l).written
<1>1. l[1] \in Sector /\ l[2] \in Index /\ l = <<l[1], l[2]>> /\ UnitOf(x, l) = UnitOf(g, l)
  BY Logicals DEF UnitOf
<1>2. UnitOf(g, l) = g.ftl.sector_table[l[1]]
  BY <1>1 DEF UnitOf
<1>3. x.nor = g.nor \/ x.nor = q.nor
  BY SMTT(30) DEF FlashOf, SameFlash
<1>4. l # t => q.nor[g.ftl.sector_table[l[1]]].info[l[2]] = g.nor[g.ftl.sector_table[l[1]]].info[l[2]]
  BY ZenonT(40), <1>1 DEF Origin, SameWords
<1>5. l # t => InfoAt(x, l) = InfoAt(g, l)
  BY <1>1, <1>2, <1>3, <1>4 DEF InfoAt
<1>6. ASSUME l = t PROVE InfoAt(x, l).written <=> InfoAt(g, l).written
  <2> DEFINE y == [nor |-> q.nor, ftl |-> g.ftl]
             u == UnitOf(g, l)
  <2>1. InfoAt(y, l).written /\ g.nor = [q.nor EXCEPT ![u] = Emptied(@, l[2])]
    BY <1>6 DEF Origin, HalfDone
  <2>2. u \in Unit /\ u # NoUnit
    BY <1>1, <1>2, GeometryAssumption DEF Scannable, Sectors, Unit, NoUnit
  <2>3. InfoAt(g, l) = g.nor[u].info[l[2]] /\ InfoAt(y, l) = q.nor[u].info[l[2]]
        /\ InfoAt(x, l) = x.nor[u].info[l[2]]
    BY <1>1, <2>2 DEF InfoAt, UnitOf
  <2>4. g.nor[u].info[l[2]] = Info(DELETED, -1)
    <3>1. q.nor \in Flash
      BY DEF Origin, Device
    <3>2. q.nor[u] \in UnitImage
      BY <2>2, <3>1 DEF Flash
    <3>3. Emptied(q.nor[u], l[2]).info[l[2]] = Info(DELETED, -1)
      BY <1>1, <3>2, GeometryAssumption DEF Emptied, UnitImage, Index
    <3>4. g.nor[u] = Emptied(q.nor[u], l[2])
      BY <2>1, <2>2, <3>1 DEF Flash
    <3> QED  BY <3>3, <3>4
  <2>5. g.nor[u].info[l[2]].written
    BY <2>4, InfoFields
  <2> QED  BY ZenonT(40), <1>3, <2>1, <2>3, <2>5
<1> QED  BY <1>5, <1>6

(* What is collected of block l is what the RAM of g knew of it.            *)
LEMMA CollectsIntact ==
  ASSUME NEW g, NEW q, NEW t, Scannable(g), Origin(g, q, t),
         NEW P \in SUBSET Logical, NEW x, Partly(g, q, t, x, P),
         NEW l \in Logical, l \notin P, l # t,
         x.ftl.sector_table[l[1]] = g.ftl.sector_table[l[1]],
         NEW r, r = CollectBlock(x, l)
  PROVE  /\ Partly(g, q, t, r, P \cup {l}) /\ SameAlloc(x, r)
         /\ r.ftl.sector_table = x.ftl.sector_table
<1> DEFINE word == InfoAt(g, l)
           Q == P \cup {l}
<1>1. x \in Device /\ FlashOf(g, q, t, x, P) /\ l[1] \in Sector /\ l[2] \in Index /\ l = <<l[1], l[2]>>
  BY Logicals DEF Partly
<1>2. InfoAt(x, l) = word
  BY SMTT(30), <1>1, WordsSeen
<1>3. Listed(g, l) /\ word \in InfoWord
  <2>1. g \in Device /\ Sectors(g)
    BY DEF Scannable
  <2> QED  BY <2>1, Seen DEF Scannable
<1>4. /\ \A m : m # l => Found(m, Q) = Found(m, P)
      /\ Found(l, P) = NotAllocated /\ Found(l, Q) = l
  BY DEF Found
<1>5. SUFFICES /\ Scanning(x, r) /\ Tables(g, r, Q)
               /\ \A s \in Sector : r.ftl.score[s] = Cardinality(DeadAmong(g, s, Q))
  <2>1. ASSUME Scanning(x, r) PROVE FlashOf(g, q, t, r, Q)
    <3>1. t \in Q <=> t \in P
      OBVIOUS
    <3>2. r.nor = x.nor /\ r.steps = x.steps
      BY <2>1 DEF Scanning, SameFlash
    <3> HIDE DEF Q
    <3> QED  BY <1>1, <3>1, <3>2 DEF FlashOf, SameFlash
  <2>2. ASSUME Scanning(x, r), Tables(g, r, Q),
               \A s \in Sector : r.ftl.score[s] = Cardinality(DeadAmong(g, s, Q))
        PROVE  Partly(g, q, t, r, Q)
    <3> HIDE DEF Q
    <3> QED  BY <2>1, <2>2 DEF Partly, Scanning, SameCache, SameCache2, SameAlloc
  <2> QED  BY <2>2 DEF Scanning
<1>6. /\ \A seg \in Segments :
           /\ g.ftl.xlate_table[seg] = l => word = Info(XLATE, seg)
           /\ g.ftl.xlate2_table[seg] = l => word = Info(XLATE_SECONDARY, seg)
      /\ \A a \in Address : Direct(a) /\ g.ftl.block_table[a] = l => word = Info(DATA_COMMITTED, a)
  <2>1. l # NotAllocated
    BY Logicals
  <2> QED  BY <2>1 DEF Scannable, Tabled
<1>7. l[2] \in Dead(g, l[1]) <=> word.written /\ word.type = DELETED
  BY <1>1 DEF Dead
<1>8. /\ \A s \in Sector : x.ftl.score[s] = Cardinality(DeadAmong(g, s, P))
      /\ Tables(g, x, P)
  BY DEF Partly
<1>9. CollectBlock(x, l) =
        CASE ~word.written -> x
          [] word.written /\ word.type = DELETED -> ScoreTo(x, l[1], OneMore(x.ftl.score[l[1]]))
          [] word.written /\ word.type = RESERVED -> Delete(x, "abandon", l)
          [] word.written /\ word.type = XLATE -> XlateTo(x, word.of, l)
          [] word.written /\ word.type = XLATE_SECONDARY ->
               Xlate2To(x, word.of, l)
          [] word.written /\ word.type = DATA_COMMITTED /\ Direct(word.of) ->
               IF x.ftl.block_table[word.of] = NotAllocated
               THEN BlockTo(x, word.of, l)
               ELSE Delete(x, "duplicate", l)
          [] OTHER -> x
  BY <1>2 DEF CollectBlock, ScoreTo, XlateTo, Xlate2To, BlockTo
<1>10. \A seg, of : /\ Info(XLATE, seg).written /\ Info(XLATE, seg).type = XLATE
                    /\ Info(XLATE, seg).of = seg
                    /\ Info(XLATE_SECONDARY, seg).written
                    /\ Info(XLATE_SECONDARY, seg).type = XLATE_SECONDARY
                    /\ Info(XLATE_SECONDARY, seg).of = seg
                    /\ Info(DATA_COMMITTED, seg).written
                    /\ Info(DATA_COMMITTED, seg).type = DATA_COMMITTED
                    /\ Info(DATA_COMMITTED, seg).of = seg
  BY InfoFields
<1> HIDE DEF word, Q
<1>11. (\A s \in Sector : DeadAmong(g, s, Q) = DeadAmong(g, s, P)) \/ (word.written /\ word.type = DELETED)
  BY <1>7, DeadMore DEF Q
<1>12. CASE ~word.written
  <2>1. r = x
    BY <1>9, <1>12
  <2>2. Tables(g, r, Q)
    BY <1>4, <1>6, <1>8, <1>10, <1>12, <2>1 DEF Tables
  <2>3. \A s \in Sector : DeadAmong(g, s, Q) = DeadAmong(g, s, P)
    BY <1>11, <1>12
  <2> QED  BY <1>1, <1>8, <2>1, <2>2, <2>3 DEF Scanning, SameFlash, SameCache, SameCache2, SameAlloc
<1>13. CASE word.written /\ word.type = DELETED
  <2> DEFINE n == OneMore(x.ftl.score[l[1]])
  <2>1. r = ScoreTo(x, l[1], n)
    BY <1>9, <1>13, Distinct
  <2>2. n = Cardinality(DeadAmong(g, l[1], Q))
    BY <1>1, <1>7, <1>8, <1>13, DeadMore DEF Q
  <2>3. n \in Nat
    <3>1. DeadAmong(g, l[1], Q) \subseteq Index
      BY DEF DeadAmong, Dead
    <3> QED  BY <2>2, <3>1, FiniteLogicals, FS_Subset, FS_CardinalityType
  <2> HIDE DEF n
  <2>4. /\ Scanning(x, r) /\ r.ftl.score[l[1]] = n
        /\ \A o \in Sector : o # l[1] => r.ftl.score[o] = x.ftl.score[o]
        /\ r.ftl.block_table = x.ftl.block_table
        /\ r.ftl.xlate_table = x.ftl.xlate_table /\ r.ftl.xlate2_table = x.ftl.xlate2_table
    BY <1>1, <2>1, <2>3, ScoreSet
  <2>5. Tables(g, r, Q)
    BY <1>4, <1>6, <1>8, <1>10, <1>13, <2>4, Distinct DEF Tables
  <2>6. \A s \in Sector : s # l[1] => DeadAmong(g, s, Q) = DeadAmong(g, s, P)
    BY DeadMore DEF Q
  <2> QED  BY <1>8, <2>2, <2>4, <2>5, <2>6
<1>14. CASE word.written /\ word.type = XLATE
  <2>1. word.of \in Segments /\ g.ftl.xlate_table[word.of] = l
    BY <1>3, <1>14, Distinct DEF Listed, word
  <2>2. r = XlateTo(x, word.of, l)
    BY <1>9, <1>14, Distinct
  <2>3. /\ Scanning(x, r) /\ r.ftl.xlate_table[word.of] = l
        /\ \A other \in Segments : other # word.of =>
             r.ftl.xlate_table[other] = x.ftl.xlate_table[other]
        /\ r.ftl.block_table = x.ftl.block_table
        /\ r.ftl.xlate2_table = x.ftl.xlate2_table /\ r.ftl.score = x.ftl.score
    <3>1. x \in Device /\ word.of \in Segments /\ l \in Logical
      BY <1>1, <2>1
    <3> QED  BY <2>2, <3>1, XlateSet
  <2>4. Tables(g, r, Q)
    BY <1>4, <1>6, <1>8, <1>10, <1>14, <2>1, <2>3, Distinct DEF Tables
  <2>5. \A s \in Sector : DeadAmong(g, s, Q) = DeadAmong(g, s, P)
    BY <1>11, <1>14, Distinct
  <2> QED  BY <1>8, <2>3, <2>4, <2>5
<1>15. CASE word.written /\ word.type = XLATE_SECONDARY
  <2>1. word.of \in Segments /\ g.ftl.xlate2_table[word.of] = l
    BY <1>3, <1>15, Distinct DEF Listed, word
  <2>2. r = Xlate2To(x, word.of, l)
    BY <1>9, <1>15, Distinct
  <2>3. /\ Scanning(x, r) /\ r.ftl.xlate2_table[word.of] = l
        /\ \A other \in Segments : other # word.of =>
             r.ftl.xlate2_table[other] = x.ftl.xlate2_table[other]
        /\ r.ftl.block_table = x.ftl.block_table
        /\ r.ftl.xlate_table = x.ftl.xlate_table /\ r.ftl.score = x.ftl.score
    <3>1. x \in Device /\ word.of \in Segments /\ l \in Logical
      BY <1>1, <2>1
    <3> QED  BY <2>2, <3>1, Xlate2Set
  <2>4. Tables(g, r, Q)
    BY <1>4, <1>6, <1>8, <1>10, <1>15, <2>1, <2>3, Distinct DEF Tables
  <2>5. \A s \in Sector : DeadAmong(g, s, Q) = DeadAmong(g, s, P)
    BY <1>11, <1>15, Distinct
  <2> QED  BY <1>8, <2>3, <2>4, <2>5
<1>16. CASE word.written /\ word.type = DATA_COMMITTED
  <2>1. word.of \in Address /\ (Direct(word.of) => g.ftl.block_table[word.of] = l)
    BY <1>3, <1>16, Distinct DEF Listed, word
  <2>2. \A s \in Sector : DeadAmong(g, s, Q) = DeadAmong(g, s, P)
    BY <1>11, <1>16, Distinct
  <2>3. CASE Direct(word.of)
    <3>1. g.ftl.block_table[word.of] = l
      BY <2>1, <2>3
    <3>2. x.ftl.block_table[word.of] = NotAllocated
      BY <1>4, <1>8, <2>1, <2>3, <3>1 DEF Tables
    <3>3. r = BlockTo(x, word.of, l)
      BY <1>9, <1>16, <2>3, <3>2, Distinct
    <3>4. /\ Scanning(x, r) /\ r.ftl.block_table[word.of] = l
          /\ \A b \in Address : Direct(b) /\ b # word.of =>
               r.ftl.block_table[b] = x.ftl.block_table[b]
          /\ r.ftl.xlate_table = x.ftl.xlate_table
          /\ r.ftl.xlate2_table = x.ftl.xlate2_table /\ r.ftl.score = x.ftl.score
      <4>1. x \in Device /\ word.of \in Address /\ Direct(word.of) /\ l \in Logical
        BY <1>1, <2>1, <2>3
      <4> QED  BY <3>3, <4>1, BlockSet
    <3>5. Tables(g, r, Q)
      BY <1>4, <1>6, <1>8, <1>10, <1>16, <3>1, <3>4, Distinct DEF Tables
    <3> QED  BY <1>8, <2>2, <3>4, <3>5
  <2>4. CASE ~Direct(word.of)
    <3>1. r = x
      BY <1>9, <1>16, <2>4, Distinct
    <3>2. Tables(g, r, Q)
      BY <1>4, <1>6, <1>8, <1>10, <1>16, <2>4, <3>1, Distinct DEF Tables
    <3> QED  BY <1>1, <1>8, <2>2, <3>1, <3>2 DEF Scanning, SameFlash, SameCache, SameCache2, SameAlloc
  <2> QED  BY <2>3, <2>4
<1> QED  BY <1>3, <1>12, <1>13, <1>14, <1>15, <1>16 DEF Listed, word

(* The block that is reserved is deleted.                                  *)
LEMMA CollectsAbandoned ==
  ASSUME NEW g, NEW q, NEW t \in Logical, Scannable(g), Origin(g, q, t),
         NEW P \in SUBSET Logical, NEW x, Partly(g, q, t, x, P), t \notin P,
         x.ftl.sector_table[t[1]] = g.ftl.sector_table[t[1]],
         NEW r, r = CollectBlock(x, t)
  PROVE  /\ Partly(g, q, t, r, P \cup {t}) /\ SameAlloc(x, r)
         /\ r.ftl.sector_table = x.ftl.sector_table
<1> DEFINE u == UnitOf(g, t)
           Q == P \cup {t}
           y == InfoType(x, "abandon", t, DELETED)
           n == OneMore(y.ftl.score[t[1]])
<1>1. /\ x \in Device /\ x.nor = q.nor /\ x.steps = q.steps /\ q \in Device
      /\ t[1] \in Sector /\ t[2] \in Index /\ t[2] # 0 /\ t[2] \in 0..Blocks - 1
      /\ t = <<t[1], t[2]>>
  BY SMTT(30), Logicals, GeometryAssumption DEF Partly, FlashOf, SameFlash, Origin, Index
<1>2. u = g.ftl.sector_table[t[1]] /\ UnitOf(x, t) = u /\ u \in Unit /\ u # NoUnit
  BY <1>1, GeometryAssumption DEF UnitOf, Scannable, Sectors, Unit, NoUnit
<1>3. /\ InfoAt(x, t) = q.nor[u].info[t[2]]
      /\ InfoAt([nor |-> q.nor, ftl |-> g.ftl], t) = q.nor[u].info[t[2]]
      /\ InfoAt(g, t) = g.nor[u].info[t[2]]
  BY <1>1, <1>2 DEF InfoAt, UnitOf
<1>4. /\ InfoAt(x, t).written /\ InfoAt(x, t).type = RESERVED
      /\ g.nor = [q.nor EXCEPT ![u] = Emptied(@, t[2])]
  BY <1>3 DEF Origin, HalfDone
<1>5. q.nor[u] \in UnitImage /\ q.nor \in Flash
  BY <1>1, <1>2 DEF Device, Flash
<1> HIDE DEF u
<1> DEFINE image == Emptied(q.nor[u], t[2])
<1>6. y = InfoType(x, "abandon", t, DELETED)
  BY SMTT(30)
<1> HIDE DEF y
<1>7. /\ image.info[t[2]] = Info(DELETED, -1) /\ y \in Device /\ y.ftl = x.ftl
      /\ Programmed(x, y, "abandon", u, image)
  BY SMTT(30), <1>1, <1>2, <1>4, <1>6, Emptying
<1> HIDE DEF image
<1>8. InfoAt(g, t) = Info(DELETED, -1)
  <2>1. g.nor[u] = image
    BY <1>2, <1>4, <1>5 DEF Flash, image
  <2> QED  BY <1>3, <1>7, <2>1
<1>9. Programmed(x, y, "abandon", u, image) /\ y \in Device /\ y.ftl = x.ftl
  BY <1>7
<1>10. y \in Device /\ y.nor = g.nor /\ y.ftl = x.ftl
  <2>1. y.nor = [x.nor EXCEPT ![u] = image]
    BY <1>9 DEF Programmed
  <2> QED  BY <1>1, <1>4, <1>9, <2>1 DEF image
<1>11. y.steps = Append(q.steps, AbandonStep(q))
  <2>1. y.steps = Append(x.steps, [step |-> "abandon", before |-> x.nor, sticks |-> TRUE])
    BY <1>9 DEF Programmed
  <2> QED  BY <1>1, <2>1 DEF AbandonStep
<1>12. r = ScoreTo(y, t[1], n)
  <2>1. r = Delete(x, "abandon", t)
    <3> DEFINE word == InfoAt(x, t)
    <3>1. word.written /\ word.type = RESERVED
      BY <1>4
    <3>2. CollectBlock(x, t) =
            CASE ~word.written -> x
              [] word.written /\ word.type = DELETED -> [x EXCEPT !.ftl.score[t[1]] = OneMore(@)]
              [] word.written /\ word.type = RESERVED -> Delete(x, "abandon", t)
              [] word.written /\ word.type = XLATE -> [x EXCEPT !.ftl.xlate_table[word.of] = t]
              [] word.written /\ word.type = XLATE_SECONDARY ->
                   [x EXCEPT !.ftl.xlate2_table[word.of] = t]
              [] word.written /\ word.type = DATA_COMMITTED /\ Direct(word.of) ->
                   IF x.ftl.block_table[word.of] = NotAllocated
                   THEN [x EXCEPT !.ftl.block_table[word.of] = t]
                   ELSE Delete(x, "duplicate", t)
              [] OTHER -> x
      BY DEF CollectBlock
    <3> HIDE DEF word
    <3> QED  BY <3>1, <3>2, Distinct
  <2> QED  BY <1>1, <2>1 DEF Delete, ScoreTo, y
<1>13. t[2] \in Dead(g, t[1])
  BY <1>1, <1>8, InfoFields DEF Dead
<1>14. n = Cardinality(DeadAmong(g, t[1], Q))
  BY <1>1, <1>10, <1>13, DeadMore DEF Partly
<1>15. n \in Nat
  <2>1. DeadAmong(g, t[1], Q) \subseteq Index
    BY DEF DeadAmong, Dead
  <2> QED  BY <1>14, <2>1, FiniteLogicals, FS_Subset, FS_CardinalityType
<1> HIDE DEF n
<1>16. /\ Scanning(y, r) /\ r.ftl.score[t[1]] = n
       /\ \A s \in Sector : s # t[1] => r.ftl.score[s] = y.ftl.score[s]
       /\ r.ftl.block_table = y.ftl.block_table
       /\ r.ftl.xlate_table = y.ftl.xlate_table /\ r.ftl.xlate2_table = y.ftl.xlate2_table
  BY <1>1, <1>10, <1>12, <1>15, ScoreSet
<1>17. \A s \in Sector : s # t[1] => DeadAmong(g, s, Q) = DeadAmong(g, s, P)
  BY DeadMore
<1>18. \A s \in Sector : r.ftl.score[s] = Cardinality(DeadAmong(g, s, Q))
  BY SMTT(30), <1>10, <1>14, <1>16, <1>17 DEF Partly
<1>19. /\ \A seg \in Segments : g.ftl.xlate_table[seg] # t /\ g.ftl.xlate2_table[seg] # t
       /\ \A a \in Address : Direct(a) => g.ftl.block_table[a] # t
  <2>1. t # NotAllocated
    BY Logicals
  <2>2. InfoAt(g, t).type = DELETED
    BY <1>8, InfoFields
  <2>3. /\ \A seg \in Segments : /\ Tabled(g, g.ftl.xlate_table[seg], Info(XLATE, seg))
                                 /\ Tabled(g, g.ftl.xlate2_table[seg], Info(XLATE_SECONDARY, seg))
        /\ \A a \in Address : Direct(a) => Tabled(g, g.ftl.block_table[a], Info(DATA_COMMITTED, a))
    BY DEF Scannable
  <2> QED  BY <2>1, <2>2, <2>3, InfoFields, Distinct DEF Tabled
<1>20. \A m : m # t => Found(m, Q) = Found(m, P)
  BY DEF Found
<1> HIDE DEF Q
<1>21. Tables(g, r, Q)
  <2>1. Tables(g, x, P)
    BY DEF Partly
  <2> QED  BY <1>10, <1>16, <1>19, <1>20, <2>1 DEF Tables
<1>22. FlashOf(g, q, t, r, Q)
  <2>1. r.nor = g.nor /\ r.steps = Append(q.steps, AbandonStep(q))
    BY <1>10, <1>11, <1>16 DEF Scanning, SameFlash
  <2>2. t \in Q
    BY DEF Q
  <2> QED  BY <2>1, <2>2 DEF FlashOf
<1>23. Partly(g, q, t, r, Q)
  BY <1>10, <1>16, <1>18, <1>21, <1>22 DEF Partly, Scanning, SameCache, SameCache2, SameAlloc
<1> QED  BY <1>10, <1>16, <1>23 DEF Scanning, SameAlloc, Q

(* A block is collected, whichever it is.                                  *)
LEMMA CollectsBlock ==
  ASSUME NEW g, NEW q, NEW t, Scannable(g), Origin(g, q, t),
         NEW P \in SUBSET Logical, NEW x, Partly(g, q, t, x, P),
         NEW l \in Logical, l \notin P,
         x.ftl.sector_table[l[1]] = g.ftl.sector_table[l[1]],
         NEW r, r = CollectBlock(x, l)
  PROVE  /\ Partly(g, q, t, r, P \cup {l}) /\ SameAlloc(x, r)
         /\ r.ftl.sector_table = x.ftl.sector_table
<1>1. CASE l # t
  BY <1>1, CollectsIntact
<1>2. CASE l = t
  <2>1. /\ t \in Logical /\ t \notin P /\ x.ftl.sector_table[t[1]] = g.ftl.sector_table[t[1]]
        /\ r = CollectBlock(x, t)
    BY <1>2
  <2>2. /\ Partly(g, q, t, r, P \cup {t}) /\ SameAlloc(x, r)
        /\ r.ftl.sector_table = x.ftl.sector_table
    BY <2>1, CollectsAbandoned
  <2> QED  BY <1>2, <2>2
<1> QED  BY <1>1, <1>2

(* The blocks of sector s as far as they are collected.                    *)
UpTo(s, k) == {<<s, j>> : j \in 1..k}

(* What a scan of blocks starts from and what it leaves.                   *)
Scans(g, q, t, P, x, s) ==
  /\ Scannable(g) /\ Origin(g, q, t) /\ P \in SUBSET Logical /\ Partly(g, q, t, x, P)
  /\ x.ftl.sector_table[s] = g.ftl.sector_table[s]
ScannedTo(g, q, t, P, x, r) ==
  /\ Partly(g, q, t, r, P) /\ SameAlloc(x, r) /\ r.ftl.sector_table = x.ftl.sector_table

LEMMA ScansBlock ==
  ASSUME NEW g, NEW q, NEW t, NEW P, NEW x, NEW l, Scans(g, q, t, P, x, l[1]),
         l \in Logical, l \notin P, NEW r, r = CollectBlock(x, l)
  PROVE  ScannedTo(g, q, t, P \cup {l}, x, r)
<1>1. /\ Scannable(g) /\ Origin(g, q, t) /\ P \in SUBSET Logical /\ Partly(g, q, t, x, P)
      /\ x.ftl.sector_table[l[1]] = g.ftl.sector_table[l[1]]
  BY DEF Scans
<1>2. /\ Partly(g, q, t, r, P \cup {l}) /\ SameAlloc(x, r)
      /\ r.ftl.sector_table = x.ftl.sector_table
  BY <1>1, CollectsBlock
<1> QED  BY <1>2 DEF ScannedTo

(* The blocks of a sector are scanned.                                     *)
LEMMA ScansBlocks ==
  ASSUME NEW g, NEW q, NEW t, NEW P, NEW d, NEW s \in Sector, Scans(g, q, t, P, d, s),
         \A l \in P : l[1] # s, NEW r, r = CollectBlocks(d, s)
  PROVE  ScannedTo(g, q, t, P \cup UpTo(s, Blocks - 1), d, r)
<1> DEFINE n == Blocks - 1
           Sound(y, k) == /\ Partly(g, q, t, y, P \cup UpTo(s, k)) /\ SameAlloc(d, y)
                          /\ y.ftl.sector_table = d.ftl.sector_table
           I == [k \in 0..n |-> {y \in Device : Sound(y, k)}]
           G == [k \in 1..n |-> [y \in Device |-> CollectBlock(y, <<s, k>>)]]
<1>0. /\ Scannable(g) /\ Origin(g, q, t) /\ P \in SUBSET Logical /\ Partly(g, q, t, d, P)
      /\ d.ftl.sector_table[s] = g.ftl.sector_table[s]
  BY DEF Scans
<1>1. n \in Nat /\ Index = 1..n
  BY GeometryAssumption DEF Index
<1>2. d \in I[0]
  <2>1. UpTo(s, 0) = {}
    BY DEF UpTo
  <2>2. P \cup UpTo(s, 0) = P
    BY <2>1
  <2>3. Sound(d, 0)
    BY <1>0, <2>2 DEF SameAlloc
  <2>4. d \in Device
    BY <1>0 DEF Partly
  <2> QED  BY <1>1, <2>3, <2>4
<1>3. ASSUME NEW k \in 1..n, NEW y, Sound(y, k - 1)
      PROVE  Sound(CollectBlock(y, <<s, k>>), k) /\ CollectBlock(y, <<s, k>>) \in Device
  <2> DEFINE l == <<s, k>>
             z == CollectBlock(y, l)
             old == P \cup UpTo(s, k - 1)
  <2>1. k \in Index /\ k \in Nat /\ k >= 1
    BY <1>1
  <2>2. l \in Logical /\ l[1] = s
    BY <2>1 DEF Logical
  <2>3. l \notin P
    BY <2>2
  <2>4. UpTo(s, k) = UpTo(s, k - 1) \cup {l} /\ l \notin UpTo(s, k - 1)
    BY <2>1 DEF UpTo
  <2>5. old \in SUBSET Logical
    <3>1. \A j \in 1..k - 1 : <<s, j>> \in Logical
      BY <1>1, <2>1 DEF Logical
    <3> QED  BY <1>0, <3>1 DEF UpTo
  <2>6. P \cup UpTo(s, k) = old \cup {l} /\ l \notin old
    BY <2>3, <2>4
  <2>7. Partly(g, q, t, y, old) /\ SameAlloc(d, y) /\ y.ftl.sector_table = d.ftl.sector_table
    BY <1>3
  <2>8. y.ftl.sector_table[l[1]] = g.ftl.sector_table[l[1]]
    BY <1>0, <2>2, <2>7
  <2> HIDE DEF l, old, z
  <2>9. /\ Partly(g, q, t, z, old \cup {l}) /\ SameAlloc(y, z)
        /\ z.ftl.sector_table = y.ftl.sector_table
    <3>1. Scannable(g) /\ Origin(g, q, t) /\ old \in SUBSET Logical /\ Partly(g, q, t, y, old) /\ l \in Logical /\ l \notin old
      BY <1>0, <2>2, <2>5, <2>6, <2>7
    <3>2. z = CollectBlock(y, l)
      BY DEF z
    <3>3. Scans(g, q, t, old, y, l[1])
      BY <2>8, <3>1 DEF Scans
    <3>4. ScannedTo(g, q, t, old \cup {l}, y, z)
      BY <3>1, <3>2, <3>3, ScansBlock
    <3> QED  BY <3>4 DEF ScannedTo
  <2>10. Sound(z, k) /\ z \in Device
    BY <2>6, <2>7, <2>9 DEF SameAlloc, Partly
  <2> QED  BY <2>10 DEF z, l
<1>4. \A k \in 1..n : \A y \in I[k - 1] : G[k][y] \in I[k]
  <2> TAKE k \in 1..n
  <2> TAKE y \in I[k - 1]
  <2>1. k - 1 \in 0..n /\ k \in 0..n
    BY <1>1
  <2> HIDE DEF Sound, n
  <2>2. Sound(y, k - 1) /\ y \in Device
    BY <2>1
  <2>3. Sound(CollectBlock(y, <<s, k>>), k) /\ CollectBlock(y, <<s, k>>) \in Device
    BY <1>3, <2>2
  <2>4. G[k][y] = CollectBlock(y, <<s, k>>)
    BY <2>2
  <2> QED  BY <2>1, <2>3, <2>4
<1>5. PICK f : Recurs(f, n, d, G) /\ \A k \in 0..n : f[k] \in I[k]
  <2>1. n \in Nat
    BY <1>1
  <2> HIDE DEF n, I, G
  <2> QED  BY <1>2, <1>4, <2>1, Recursion
<1> DEFINE Body(h) == [i \in 0..Blocks - 1 |-> IF i = 0 THEN d ELSE CollectBlock(h[i - 1], <<s, i>>)]
           upto == CHOOSE h : h = Body(h)
<1>6. f = Body(f)
  <2>1. \A k \in 0..n : k # 0 => k \in 1..n /\ k - 1 \in 0..n
    BY <1>1
  <2>2. \A k \in 0..n : f[k] \in Device
    <3> HIDE DEF Sound
    <3> QED  BY <1>5
  <2>3. \A k \in 0..n : k # 0 => G[k][f[k - 1]] = CollectBlock(f[k - 1], <<s, k>>)
    BY <2>1, <2>2
  <2> HIDE DEF G, I
  <2> QED  BY <1>5, <2>3 DEF Recurs
<1>7. r = upto[n]
  BY DEF CollectBlocks
<1>8. upto = Body(upto)
  <2> HIDE DEF Body
  <2> QED  BY <1>6
<1> HIDE DEF upto, I, G
<1>9. upto[0] = d /\ \A k \in 1..n : upto[k] = CollectBlock(upto[k - 1], <<s, k>>)
  BY <1>1, <1>8
<1> DEFINE S == {k \in Nat : Sound(upto[k], k)}
<1>10. 0 \in S
  <2> HIDE DEF Sound
  <2> QED  BY <1>1, <1>2, <1>9 DEF I
<1>11. \A k \in 1..n : k - 1 \in S => k \in S
  <2> TAKE k \in 1..n
  <2> HIDE DEF Sound
  <2>1. k \in Nat /\ k - 1 \in Nat
    BY <1>1
  <2> HIDE DEF n
  <2>2. k - 1 \in S => Sound(upto[k - 1], k - 1)
    BY <2>1
  <2>3. k - 1 \in S => Sound(upto[k], k)
    BY <1>3, <1>9, <2>2
  <2> QED  BY <2>1, <2>3
<1> HIDE DEF S
<1>12. n \in S
  <2>1. n \in 0..n
    BY <1>1
  <2> HIDE DEF n
  <2> QED  BY <1>1, <1>10, <1>11, <2>1, CountingUp
<1> QED  BY <1>7, <1>12 DEF S, ScannedTo

(* A unit is entered as a sector, and its room is added.                    *)
SectorTo(x, s, u) == [x EXCEPT !.ftl.sector_table[s] = u]
RoomTo(x, s, full, filling, free) ==
  [x EXCEPT !.ftl.allocated[s] = full, !.ftl.alloc_sector = filling, !.ftl.alloc_free = free]

(* A sector is found, and its room counted.                                *)
LEMMA SectorSet ==
  ASSUME NEW x \in Device, NEW s \in Sector, NEW u \in Unit, NEW r, r = SectorTo(x, s, u)
  PROVE  /\ r \in Device /\ SameFlash(x, r) /\ SameCache(x, r) /\ SameCache2(x, r)
         /\ SameAlloc(x, r)
         /\ r.ftl.sector_table[s] = u
         /\ \A t \in Sector : t # s => r.ftl.sector_table[t] = x.ftl.sector_table[t]
         /\ r.ftl.reclaim = x.ftl.reclaim /\ r.ftl.block_table = x.ftl.block_table
         /\ r.ftl.xlate_table = x.ftl.xlate_table /\ r.ftl.xlate2_table = x.ftl.xlate2_table
         /\ r.ftl.score = x.ftl.score
<1> DEFINE new == [x.ftl.sector_table EXCEPT ![s] = u]
           f == [x.ftl EXCEPT !.sector_table = new]
<1>1. x.ftl \in Ftl /\ r = [x EXCEPT !.ftl = f]
  BY DEF Device, SectorTo
<1>2. x.ftl.sector_table \in [Sector -> Unit \cup {NoUnit}]
  BY <1>1 DEF Ftl
<1>3. /\ new \in [Sector -> Unit \cup {NoUnit}] /\ new[s] = u
      /\ \A t \in Sector : t # s => new[t] = x.ftl.sector_table[t]
  BY <1>2
<1> HIDE DEF new
<1>4. f \in Ftl
  BY <1>1, <1>3 DEF Ftl
<1>5. /\ f.sector_table = new /\ f.score = x.ftl.score /\ f.block_table = x.ftl.block_table
      /\ f.xlate_table = x.ftl.xlate_table /\ f.xlate2_table = x.ftl.xlate2_table
      /\ f.reclaim = x.ftl.reclaim
      /\ f.xlate_logical = x.ftl.xlate_logical /\ f.xlate_cache = x.ftl.xlate_cache
      /\ f.xlate2_logical = x.ftl.xlate2_logical /\ f.xlate2_cache = x.ftl.xlate2_cache
      /\ f.alloc_sector = x.ftl.alloc_sector /\ f.alloc_mask = x.ftl.alloc_mask
      /\ f.alloc_free = x.ftl.alloc_free /\ f.allocated = x.ftl.allocated
  BY <1>1 DEF Ftl
<1> HIDE DEF f
<1>6. r \in Device /\ r.ftl = f /\ SameFlash(x, r)
  BY <1>1, <1>4, RamReplaced
<1> QED  BY <1>3, <1>5, <1>6 DEF SameCache, SameCache2, SameAlloc

LEMMA RoomSet ==
  ASSUME NEW x \in Device, NEW s \in Sector, NEW full \in BOOLEAN, NEW filling \in Sector,
         NEW free \in Int, NEW r, r = RoomTo(x, s, full, filling, free)
  PROVE  /\ r \in Device /\ SameFlash(x, r) /\ SameTables(x, r)
         /\ SameCache(x, r) /\ SameCache2(x, r)
         /\ r.ftl.score = x.ftl.score /\ r.ftl.alloc_mask = x.ftl.alloc_mask
         /\ r.ftl.alloc_free = free
         /\ r.ftl.allocated[s] = full
         /\ \A t \in Sector : t # s => r.ftl.allocated[t] = x.ftl.allocated[t]
<1> DEFINE new == [x.ftl.allocated EXCEPT ![s] = full]
           f == [x.ftl EXCEPT !.allocated = new, !.alloc_sector = filling, !.alloc_free = free]
<1>1. x.ftl \in Ftl /\ r = [x EXCEPT !.ftl = f]
  BY DEF Device, RoomTo
<1>2. x.ftl.allocated \in [Sector -> BOOLEAN]
  BY <1>1 DEF Ftl
<1>3. /\ new \in [Sector -> BOOLEAN] /\ new[s] = full
      /\ \A t \in Sector : t # s => new[t] = x.ftl.allocated[t]
  BY <1>2
<1> HIDE DEF new
<1>4. f \in Ftl
  BY <1>1, <1>3 DEF Ftl
<1>5. /\ f.sector_table = x.ftl.sector_table /\ f.score = x.ftl.score
      /\ f.block_table = x.ftl.block_table
      /\ f.xlate_table = x.ftl.xlate_table /\ f.xlate2_table = x.ftl.xlate2_table
      /\ f.reclaim = x.ftl.reclaim
      /\ f.xlate_logical = x.ftl.xlate_logical /\ f.xlate_cache = x.ftl.xlate_cache
      /\ f.xlate2_logical = x.ftl.xlate2_logical /\ f.xlate2_cache = x.ftl.xlate2_cache
      /\ f.alloc_mask = x.ftl.alloc_mask
      /\ f.alloc_free = free /\ f.allocated = new
  BY <1>1 DEF Ftl
<1> HIDE DEF f
<1>6. r \in Device /\ r.ftl = f /\ SameFlash(x, r)
  BY <1>1, <1>4, RamReplaced
<1> QED  BY <1>3, <1>5, <1>6 DEF SameCache, SameCache2, SameTables

(* The blocks of a set of sectors, and the RAM when they have been collected. *)
BlocksOf(S) == {l \in Logical : l[1] \in S}
FreeOf(g, S) == {l \in BlocksOf(S) : ~InfoAt(g, l).written}
Rebuilt(g, q, t, x, S) ==
  /\ S \subseteq Sector /\ Partly(g, q, t, x, BlocksOf(S))
  /\ \A s \in Sector : x.ftl.sector_table[s] = IF s \in S THEN g.ftl.sector_table[s] ELSE NoUnit
  /\ x.ftl.alloc_free = Cardinality(FreeOf(g, S))
  /\ \A l \in Free(g, NotAllocated) : ~x.ftl.allocated[l[1]]

(* One sector more is scanned.                                             *)
LEMMA OneMoreSector ==
  ASSUME NEW g, NEW S \in SUBSET Sector, NEW s \in Sector, s \notin S, NEW I, I = FreeIn(g, s)
  PROVE  /\ BlocksOf(S) \in SUBSET Logical /\ \A l \in BlocksOf(S) : l[1] # s
         /\ BlocksOf(S \cup {s}) = BlocksOf(S) \cup UpTo(s, Blocks - 1)
         /\ Cardinality(FreeOf(g, S \cup {s})) = Cardinality(FreeOf(g, S)) + Cardinality(I)
<1>3. BlocksOf(S) \in SUBSET Logical /\ \A l \in BlocksOf(S) : l[1] # s
  BY DEF BlocksOf
<1>4. \A l \in Logical : l \in UpTo(s, Blocks - 1) <=> l[1] = s
  <2> TAKE l \in Logical
  <2>1. l[2] \in 1..Blocks - 1 /\ l = <<l[1], l[2]>>
    BY Logicals DEF Index
  <2> QED  BY <2>1 DEF UpTo
<1>5. UpTo(s, Blocks - 1) \subseteq Logical
  BY DEF UpTo, Logical, Index
<1>6. BlocksOf(S \cup {s}) = BlocksOf(S) \cup UpTo(s, Blocks - 1)
  <2>1. \A l \in Logical : l[1] \in Sector
    BY Logicals
  <2> QED  BY <1>4, <1>5, <2>1 DEF BlocksOf
<1>7. Cardinality(FreeOf(g, S \cup {s})) = Cardinality(FreeOf(g, S)) + Cardinality(I)
  <2> DEFINE R == {<<s, i>> : i \in I}
             F == FreeOf(g, S)
  <2>1. I \in SUBSET Index
    BY DEF FreeIn
  <2>2. R \subseteq Logical /\ IsFiniteSet(R) /\ Cardinality(R) = Cardinality(I)
    BY <2>1, PlacesCounted
  <2>3. F \subseteq Logical /\ IsFiniteSet(F) /\ Cardinality(F) \in Nat
    <3>1. F \subseteq Logical
      BY DEF FreeOf, BlocksOf
    <3> QED  BY <3>1, FiniteLogicals, FS_Subset, FS_CardinalityType
  <2>4. \A l \in Logical : l \in R <=> l[1] = s /\ ~InfoAt(g, l).written
    <3> TAKE l \in Logical
    <3>1. l = <<l[1], l[2]>> /\ l[2] \in Index
      BY Logicals
    <3>2. ASSUME l \in R PROVE l[1] = s /\ ~InfoAt(g, l).written
      <4>1. PICK i \in I : l = <<s, i>>
        BY <3>2
      <4> QED  BY <4>1 DEF FreeIn
    <3>3. ASSUME l[1] = s, ~InfoAt(g, l).written PROVE l \in R
      <4>1. l = <<s, l[2]>>
        BY <3>1, <3>3
      <4>2. l[2] \in I
        BY <3>1, <3>3, <4>1 DEF FreeIn
      <4> QED  BY <4>1, <4>2
    <3> QED  BY <3>2, <3>3
  <2>5. \A l \in Logical : l \in F <=> l \in BlocksOf(S) /\ ~InfoAt(g, l).written
    BY DEF FreeOf
  <2>6. \A l \in Logical : l \in FreeOf(g, S \cup {s}) <=>
          (l \in BlocksOf(S) \/ l[1] = s) /\ ~InfoAt(g, l).written
    BY <1>4, <1>6 DEF FreeOf
  <2>7. FreeOf(g, S \cup {s}) \subseteq Logical
    BY DEF FreeOf, BlocksOf
  <2> HIDE DEF R, F
  <2>8. FreeOf(g, S \cup {s}) = F \cup R
    BY <2>2, <2>3, <2>4, <2>5, <2>6, <2>7
  <2>9. F \cap R = {}
    BY <1>3, <2>3, <2>4, <2>5
  <2>10. Cardinality(F \cup R) = Cardinality(F) + Cardinality(R) - Cardinality({})
    BY <2>2, <2>3, <2>9, FS_Union
  <2>11. Cardinality({}) = 0
    BY FS_EmptySet
  <2>12. Cardinality(I) \in Nat
    BY <2>1, FiniteLogicals, FS_Subset, FS_CardinalityType
  <2>13. Cardinality(FreeOf(g, S \cup {s})) = Cardinality(F) + Cardinality(I)
    <3> DEFINE f == Cardinality(F)
               c == Cardinality(I)
               b == Cardinality(FreeOf(g, S \cup {s}))
    <3>1. b = f + c - 0
      BY <2>2, <2>8, <2>10, <2>11
    <3>2. f \in Nat /\ c \in Nat
      BY <2>3, <2>12
    <3> HIDE DEF f, c, b
    <3>3. b = f + c
      BY SMTT(30), <3>1, <3>2
    <3> QED  BY <3>3 DEF f, c, b
  <2> QED  BY <2>13 DEF F
<1> QED  BY <1>3, <1>6, <1>7

(* The unit of a sector is collected.                                      *)
LEMMA CollectsUnit ==
  ASSUME NEW g, NEW q, NEW t, Scannable(g), Origin(g, q, t),
         NEW S, NEW x, Rebuilt(g, q, t, x, S),
         NEW s \in Sector, s \notin S, NEW u, u = g.ftl.sector_table[s], NEW r, r = Collect(x, u)
  PROVE  Rebuilt(g, q, t, r, S \cup {s})
<1> DEFINE I == FreeIn(g, s)
           n == Cardinality(I)
           y == SectorTo(x, s, u)
           c == CollectBlocks(y, s)
           filling == IF n # 0 /\ x.ftl.alloc_free = 0 THEN s ELSE c.ftl.alloc_sector
           P == BlocksOf(S)
           Q == P \cup UpTo(s, Blocks - 1)
<1>1. /\ S \in SUBSET Sector /\ P \in SUBSET Logical /\ (\A l \in P : l[1] # s)
      /\ BlocksOf(S \cup {s}) = Q
      /\ Cardinality(FreeOf(g, S \cup {s})) = Cardinality(FreeOf(g, S)) + n
  <2> HIDE DEF I
  <2>1. I = FreeIn(g, s)
    BY DEF I
  <2>2. S \in SUBSET Sector
    BY DEF Rebuilt
  <2> QED  BY <2>1, <2>2, OneMoreSector
<1>2. /\ Partly(g, q, t, x, P) /\ x \in Device /\ FlashOf(g, q, t, x, P)
      /\ x.ftl.alloc_free = Cardinality(FreeOf(g, S))
      /\ \A m \in Sector : x.ftl.sector_table[m] = IF m \in S THEN g.ftl.sector_table[m] ELSE NoUnit
      /\ \A l \in Free(g, NotAllocated) : ~x.ftl.allocated[l[1]]
  BY SMTT(30) DEF Rebuilt, Partly
<1>3. x.nor[u].info[0].of = s /\ u \in Unit
  <2>1. g.nor[u].info[0].of = s /\ u \in Unit
    BY SMTT(30) DEF Scannable, Sectors
  <2>2. q.nor[u].info[0].of = s
    BY DEF Origin, SameWords
  <2> QED  BY <1>2, <2>1, <2>2 DEF FlashOf, SameFlash
<1>4. /\ y \in Device /\ SameFlash(x, y) /\ SameCache(x, y) /\ SameCache2(x, y)
      /\ SameAlloc(x, y)
      /\ y.ftl.sector_table[s] = u
      /\ \A m \in Sector : m # s => y.ftl.sector_table[m] = x.ftl.sector_table[m]
      /\ y.ftl.reclaim = x.ftl.reclaim /\ y.ftl.block_table = x.ftl.block_table
      /\ y.ftl.xlate_table = x.ftl.xlate_table /\ y.ftl.xlate2_table = x.ftl.xlate2_table
      /\ y.ftl.score = x.ftl.score
  BY <1>2, <1>3, SectorSet
<1> HIDE DEF y
<1>5. FreeIn(y, s) = I
  <2>1. FlashOf(g, q, t, y, P)
    BY <1>2, <1>4 DEF FlashOf, SameFlash
  <2>2. \A i \in Index : InfoAt(y, <<s, i>>).written <=> InfoAt(g, <<s, i>>).written
    <3> TAKE i \in Index
    <3>1. <<s, i>> \in Logical /\ <<s, i>>[1] = s
      BY SMTT(30) DEF Logical
    <3> HIDE DEF P
    <3> QED  BY <1>4, <2>1, <3>1, WordsSeen
  <2> QED  BY <2>2 DEF FreeIn
<1>6. r = RoomTo(c, s, n = 0, filling, c.ftl.alloc_free + n)
  <2>1. Collect(x, u) =
          LET d1 == SectorTo(x, x.nor[u].info[0].of, u)
              free == Cardinality(FreeIn(d1, x.nor[u].info[0].of))
              d2 == CollectBlocks(d1, x.nor[u].info[0].of)
          IN RoomTo(d2, x.nor[u].info[0].of, free = 0,
                    IF free # 0 /\ x.ftl.alloc_free = 0 THEN x.nor[u].info[0].of
                    ELSE d2.ftl.alloc_sector, d2.ftl.alloc_free + free)
    BY Zenon DEF Collect, SectorTo, RoomTo
  <2> QED  BY ZenonT(40), <1>3, <1>5, <2>1 DEF y
<1>7. Partly(g, q, t, y, P)
  BY <1>2, <1>4 DEF Partly, Tables, FlashOf, SameFlash, SameCache, SameCache2, SameAlloc
<1>8. /\ Partly(g, q, t, c, Q) /\ SameAlloc(y, c) /\ c.ftl.sector_table = y.ftl.sector_table
  <2>1. y.ftl.sector_table[s] = g.ftl.sector_table[s]
    BY <1>4
  <2>2. c = CollectBlocks(y, s)
    OBVIOUS
  <2> HIDE DEF P, c
  <2>3. P \in SUBSET Logical /\ (\A l \in P : l[1] # s) /\ Partly(g, q, t, y, P)
    BY <1>1, <1>7
  <2>4. Scans(g, q, t, P, y, s)
    BY <2>1, <2>3 DEF Scans
  <2>5. Q = P \cup UpTo(s, Blocks - 1)
    BY DEF Q
  <2> HIDE DEF Q
  <2>6. ScannedTo(g, q, t, Q, y, c)
    BY <2>2, <2>3, <2>4, <2>5, ScansBlocks
  <2> QED  BY <2>6 DEF ScannedTo
<1> HIDE DEF c, P, Q, I
<1>9. c \in Device /\ c.ftl.alloc_sector \in Sector /\ c.ftl.alloc_free = x.ftl.alloc_free
  BY <1>2, <1>4, <1>8 DEF Partly, Device, Ftl, SameAlloc
<1>10. n \in Nat /\ x.ftl.alloc_free \in Int
  <2>1. I \subseteq Index
    BY DEF I, FreeIn
  <2> QED  BY <1>2, <2>1, FiniteLogicals, FS_Subset, FS_CardinalityType DEF Device, Ftl
<1> HIDE DEF n
<1>11. filling \in Sector /\ c.ftl.alloc_free + n \in Int /\ (n = 0) \in BOOLEAN
  BY SMTT(30), <1>9, <1>10
<1> HIDE DEF filling
<1>12. /\ r \in Device /\ SameFlash(c, r) /\ SameTables(c, r)
       /\ SameCache(c, r) /\ SameCache2(c, r)
       /\ r.ftl.score = c.ftl.score /\ r.ftl.alloc_mask = c.ftl.alloc_mask
       /\ r.ftl.alloc_free = c.ftl.alloc_free + n
       /\ r.ftl.allocated[s] = (n = 0)
       /\ \A m \in Sector : m # s => r.ftl.allocated[m] = c.ftl.allocated[m]
  <2> DEFINE full == n = 0
             free == c.ftl.alloc_free + n
  <2>1. r = RoomTo(c, s, full, filling, free) /\ c \in Device /\ full \in BOOLEAN /\ free \in Int
    BY <1>6, <1>9, <1>11
  <2> HIDE DEF full, free
  <2>2. /\ r \in Device /\ SameFlash(c, r) /\ SameTables(c, r)
        /\ SameCache(c, r) /\ SameCache2(c, r)
        /\ r.ftl.score = c.ftl.score /\ r.ftl.alloc_mask = c.ftl.alloc_mask
        /\ r.ftl.alloc_free = free
        /\ r.ftl.allocated[s] = full
        /\ \A m \in Sector : m # s => r.ftl.allocated[m] = c.ftl.allocated[m]
    BY SMTT(30), <1>11, <2>1, RoomSet
  <2> QED  BY ZenonT(40), <2>2 DEF full, free
<1>13. Partly(g, q, t, r, Q)
  <2>1. FlashOf(g, q, t, r, Q)
    <3>1. FlashOf(g, q, t, c, Q) /\ r.nor = c.nor /\ r.steps = c.steps
      BY Zenon, <1>8, <1>12 DEF Partly, SameFlash
    <3> QED  BY <3>1 DEF FlashOf, SameFlash
  <2>2. Tables(g, r, Q)
    BY ZenonT(40), <1>8, <1>12 DEF Partly, Tables, SameTables
  <2>3. /\ r.ftl.xlate_logical = Reserved /\ r.ftl.xlate2_logical = Reserved
        /\ r.ftl.reclaim = g.ftl.reclaim /\ r.ftl.alloc_mask = {}
        /\ \A m \in Sector : r.ftl.score[m] = Cardinality(DeadAmong(g, m, Q))
    BY ZenonT(40), <1>8, <1>12 DEF Partly, SameCache, SameCache2, SameTables
  <2> QED  BY Zenon, <1>12, <2>1, <2>2, <2>3 DEF Partly
<1>14. ASSUME NEW m \in Sector
       PROVE  r.ftl.sector_table[m] = IF m \in S \cup {s} THEN g.ftl.sector_table[m] ELSE NoUnit
  <2>1. r.ftl.sector_table[m] = y.ftl.sector_table[m]
    BY SMTT(30), <1>8, <1>12 DEF SameTables
  <2> QED  BY SMTT(30), <1>1, <1>2, <1>4, <2>1
<1>15. r.ftl.alloc_free = Cardinality(FreeOf(g, S \cup {s}))
  BY ZenonT(40), <1>1, <1>2, <1>9, <1>12
<1>16. ASSUME NEW l \in Free(g, NotAllocated) PROVE ~r.ftl.allocated[l[1]]
  <2>1. l \in Logical /\ l[1] \in Sector /\ l[2] \in Index /\ l = <<l[1], l[2]>>
        /\ ~InfoAt(g, l).written
    BY Logicals DEF Free
  <2>2. CASE l[1] = s
    <3>1. l[2] \in I
      BY <2>1, <2>2 DEF I, FreeIn
    <3>2. I \subseteq Index
      BY DEF I, FreeIn
    <3>3. n # 0
      BY <3>1, <3>2, FiniteLogicals, FS_Subset, FS_EmptySet DEF n
    <3> QED  BY <1>12, <2>2, <3>3
  <2>3. CASE l[1] # s
    <3>1. r.ftl.allocated[l[1]] = x.ftl.allocated[l[1]]
      BY ZenonT(40), <1>4, <1>8, <1>12, <2>1, <2>3 DEF SameAlloc
    <3> QED  BY SMTT(30), <1>2, <3>1
  <2> QED  BY <2>2, <2>3
<1> QED  BY ZenonT(40), <1>1, <1>13, <1>14, <1>15, <1>16 DEF Rebuilt

(* The headers say of which sectors T the units are collected.             *)
HeadersTell(g, d, T) ==
  /\ T \subseteq Sector /\ HeaderType(d, g.ftl.reclaim) \notin {ERASE, VICTIM}
  /\ \A s \in Sector : HeaderType(d, g.ftl.sector_table[s]) \in {ERASE, VICTIM} <=> s \in T
Within(g, T, n) == {s \in T : g.ftl.sector_table[s] < n}

(* What the scan of unit n - 1 makes of y.                                  *)
Gathered(d, n, y) ==
  IF HeaderType(d, n - 1) \in {ERASE, VICTIM} THEN Collect(y, n - 1) ELSE y

(* A unit that is in use is a sector.                                      *)
LEMMA Gathers ==
  ASSUME NEW g, NEW q, NEW t, Scannable(g), Origin(g, q, t), NEW d, NEW T, HeadersTell(g, d, T),
         NEW n \in 1..Units,
         NEW y, Rebuilt(g, q, t, y, Within(g, T, n - 1)), NEW r, r = Gathered(d, n, y)
  PROVE  Rebuilt(g, q, t, r, Within(g, T, n)) /\ r \in Device
<1>1. SUFFICES Rebuilt(g, q, t, r, Within(g, T, n))
  BY DEF Rebuilt, Partly
<1>2. n - 1 \in Unit /\ n \in Nat
  BY GeometryAssumption DEF Unit
<1>3. /\ \A u \in Unit : u = g.ftl.reclaim \/ \E s \in Sector : u = g.ftl.sector_table[s]
      /\ \A s \in Sector : /\ g.ftl.sector_table[s] \in Nat
                           /\ \A o \in Sector : g.ftl.sector_table[o] = g.ftl.sector_table[s] => o = s
  BY GeometryAssumption DEF Scannable, Sectors, Unit
<1>4. CASE HeaderType(d, n - 1) \notin {ERASE, VICTIM}
  <2>1. r = y
    BY <1>4 DEF Gathered
  <2>2. \A s \in T : g.ftl.sector_table[s] # n - 1
    BY <1>4 DEF HeadersTell
  <2>3. \A s \in T : g.ftl.sector_table[s] < n <=> g.ftl.sector_table[s] < n - 1
    <3> SUFFICES ASSUME NEW s \in T
                 PROVE  g.ftl.sector_table[s] < n <=> g.ftl.sector_table[s] < n - 1
      OBVIOUS
    <3>1. g.ftl.sector_table[s] \in Nat /\ g.ftl.sector_table[s] # n - 1
      BY <1>3, <2>2 DEF HeadersTell
    <3> QED  BY <1>2, <3>1
  <2>4. Within(g, T, n) = Within(g, T, n - 1)
    BY <2>3 DEF Within
  <2> QED  BY <2>1, <2>4
<1>5. CASE HeaderType(d, n - 1) \in {ERASE, VICTIM}
  <2>1. r = Collect(y, n - 1)
    BY <1>5 DEF Gathered
  <2>2. PICK s \in Sector : n - 1 = g.ftl.sector_table[s]
    BY <1>2, <1>3, <1>5 DEF HeadersTell
  <2>3. s \in T
    BY <1>5, <2>2 DEF HeadersTell
  <2>4. \A o \in T : g.ftl.sector_table[o] < n <=> g.ftl.sector_table[o] < n - 1 \/ o = s
    <3> SUFFICES ASSUME NEW o \in T
                 PROVE  g.ftl.sector_table[o] < n <=> g.ftl.sector_table[o] < n - 1 \/ o = s
      OBVIOUS
    <3>1. o \in Sector /\ g.ftl.sector_table[o] \in Nat
      BY <1>3 DEF HeadersTell
    <3>2. g.ftl.sector_table[o] = n - 1 <=> o = s
      BY <1>3, <2>2, <3>1
    <3> QED  BY <1>2, <3>1, <3>2
  <2>5. Within(g, T, n) = Within(g, T, n - 1) \cup {s} /\ s \notin Within(g, T, n - 1)
    <3>1. ~(g.ftl.sector_table[s] < n - 1)
      BY <1>2, <2>2
    <3> QED  BY <2>3, <2>4, <3>1 DEF Within
  <2> DEFINE S == Within(g, T, n - 1)
             u == n - 1
  <2>6. u = g.ftl.sector_table[s] /\ Rebuilt(g, q, t, y, S) /\ r = Collect(y, u) /\ s \notin S
    BY <2>1, <2>2, <2>5
  <2> HIDE DEF S, u
  <2>7. Rebuilt(g, q, t, r, S \cup {s})
    BY <2>6, CollectsUnit
  <2> QED  BY <2>5, <2>7 DEF S
<1> QED  BY <1>4, <1>5

(* All units are scanned.                                                  *)
LEMMA CollectsSectors ==
  ASSUME NEW g, NEW q, NEW t, Scannable(g), Origin(g, q, t),
         NEW d, Rebuilt(g, q, t, d, {}), NEW T, HeadersTell(g, d, T), NEW r, r = CollectSectors(d)
  PROVE  Rebuilt(g, q, t, r, T)
<1> DEFINE I == [k \in 0..Units |-> {y \in Device : Rebuilt(g, q, t, y, Within(g, T, k))}]
           G == [k \in 1..Units |-> [y \in Device |-> Gathered(d, k, y)]]
<1>1. /\ Units \in Nat /\ d \in Device
      /\ Within(g, T, 0) = {} /\ Within(g, T, Units) = T
  <2>1. \A s \in T : g.ftl.sector_table[s] \in Nat /\ g.ftl.sector_table[s] < Units
    BY GeometryAssumption DEF HeadersTell, Scannable, Sectors, Unit
  <2> QED  BY <2>1, GeometryAssumption DEF Rebuilt, Partly, Within
<1>2. d \in I[0]
  BY <1>1
<1>3. ASSUME NEW k \in 1..Units, NEW y, Rebuilt(g, q, t, y, Within(g, T, k - 1))
      PROVE  Rebuilt(g, q, t, Gathered(d, k, y), Within(g, T, k)) /\ Gathered(d, k, y) \in Device
  BY <1>1, <1>3, Gathers
<1>4. \A k \in 1..Units : \A y \in I[k - 1] : G[k][y] \in I[k]
  <2> TAKE k \in 1..Units
  <2> TAKE y \in I[k - 1]
  <2>1. k - 1 \in 0..Units /\ k \in 0..Units
    BY <1>1
  <2>2. Rebuilt(g, q, t, y, Within(g, T, k - 1)) /\ y \in Device
    BY <2>1
  <2>3. Rebuilt(g, q, t, Gathered(d, k, y), Within(g, T, k)) /\ Gathered(d, k, y) \in Device
    BY <1>3, <2>2
  <2>4. G[k][y] = Gathered(d, k, y)
    BY <2>2
  <2> QED  BY <2>1, <2>3, <2>4
<1>5. PICK f : Recurs(f, Units, d, G) /\ \A k \in 0..Units : f[k] \in I[k]
  <2> HIDE DEF I, G
  <2> QED  BY <1>1, <1>2, <1>4, Recursion
<1> DEFINE Body(h) == [n \in 0..Units |->
                         CASE n = 0 -> d
                           [] n > 0 /\ HeaderType(d, n - 1) \in {ERASE, VICTIM} ->
                                Collect(h[n - 1], n - 1)
                           [] OTHER -> h[n - 1]]
           upto == CHOOSE h : h = Body(h)
<1>6. \A h : Body(h) = [n \in 0..Units |-> IF n = 0 THEN d ELSE Gathered(d, n, h[n - 1])]
  <2> TAKE h
  <2>1. \A n \in 0..Units : Body(h)[n] = IF n = 0 THEN d ELSE Gathered(d, n, h[n - 1])
    <3> TAKE n \in 0..Units
    <3>1. n = 0 \/ (n # 0 /\ n > 0)
      BY <1>1
    <3> QED  BY <3>1 DEF Gathered
  <2> QED  BY <2>1
<1>7. r = upto[Units]
  BY DEF CollectSectors
<1> HIDE DEF Body
<1>8. f = Body(f)
  <2>1. \A k \in 0..Units : k # 0 => k \in 1..Units /\ k - 1 \in 0..Units
    BY <1>1
  <2>2. \A k \in 0..Units : f[k] \in Device
    BY <1>5
  <2>3. \A k \in 0..Units : k # 0 => G[k][f[k - 1]] = Gathered(d, k, f[k - 1])
    BY <2>1, <2>2
  <2> HIDE DEF G, I
  <2>4. f = [n \in 0..Units |-> IF n = 0 THEN d ELSE Gathered(d, n, f[n - 1])]
    BY <1>5, <2>3 DEF Recurs
  <2> QED  BY <1>6, <2>4
<1>9. upto = Body(upto)
  BY <1>8
<1> HIDE DEF upto, I, G
<1>10. upto[0] = d /\ \A k \in 1..Units : upto[k] = Gathered(d, k, upto[k - 1])
  <2>1. upto = [n \in 0..Units |-> IF n = 0 THEN d ELSE Gathered(d, n, upto[n - 1])]
    BY <1>6, <1>9
  <2> QED  BY <1>1, <2>1
<1> DEFINE S == {k \in Nat : Rebuilt(g, q, t, upto[k], Within(g, T, k))}
<1>11. 0 \in S
  BY <1>1, <1>10
<1>12. \A k \in 1..Units : k - 1 \in S => k \in S
  <2> TAKE k \in 1..Units
  <2>1. k \in Nat /\ k - 1 \in Nat
    BY <1>1
  <2>2. k - 1 \in S => Rebuilt(g, q, t, upto[k - 1], Within(g, T, k - 1))
    BY <2>1
  <2>3. k - 1 \in S => Rebuilt(g, q, t, upto[k], Within(g, T, k))
    BY <1>3, <1>10, <2>2
  <2> QED  BY <2>1, <2>3
<1> HIDE DEF S
<1>13. Units \in S
  <2>1. Units \in 0..Units
    BY SMTT(30), <1>1
  <2> QED  BY <1>1, <1>11, <1>12, <2>1, CountingUp
<1> QED  BY <1>1, <1>7, <1>13 DEF S

(* A flash is its own origin.                                              *)
LEMMA ScannableSelf ==
  ASSUME NEW g, Scannable(g)
  PROVE  Origin(g, g, NotAllocated)
BY Logicals DEF Scannable, Origin, SameWords

(* A good device is what a scan finds.                                     *)
LEMMA GoodScannable ==
  ASSUME NEW g, Good(g)
  PROVE  Scannable(g) /\ Origin(g, g, NotAllocated)
<1>1. g \in Device /\ Sectors(g) /\ Scored(g)
  BY DEF Good
<1>2. \A s \in Sector : g.nor[g.ftl.sector_table[s]].info[0].of = s
  BY InfoFields DEF Good, Headers
<1>3. \A l \in Logical : Listed(g, l)
  BY DEF Good, Used, Listed, Where
<1>4. \A seg \in Segments : /\ Tabled(g, g.ftl.xlate_table[seg], Info(XLATE, seg))
                            /\ Tabled(g, g.ftl.xlate2_table[seg], Info(XLATE_SECONDARY, seg))
  BY DEF Good, TableEntry, Tabled
<1>5. \A a \in Address : Direct(a) => Tabled(g, g.ftl.block_table[a], Info(DATA_COMMITTED, a))
  BY DEF Good, AddressEntry, Tabled, Where
<1>6. Scannable(g)
  BY <1>1, <1>2, <1>3, <1>4, <1>5 DEF Scannable
<1> QED  BY <1>6, ScannableSelf

(* When every unit has been scanned, the RAM knows what it knew.            *)
Learnt(g, q, t, x) ==
  /\ x \in Device /\ FlashOf(g, q, t, x, Logical) /\ SameTables(g, x)
  /\ x.ftl.score = g.ftl.score
  /\ x.ftl.xlate_logical = Reserved /\ x.ftl.xlate2_logical = Reserved
  /\ x.ftl.alloc_mask = {} /\ Counted(x, NotAllocated)

LEMMA RebuiltAll ==
  ASSUME NEW g, NEW q, NEW t, Scannable(g), Origin(g, q, t), NEW x, Rebuilt(g, q, t, x, Sector)
  PROVE  Learnt(g, q, t, x)
<1>1. /\ BlocksOf(Sector) = Logical /\ FreeOf(g, Sector) = Free(g, NotAllocated)
  BY Logicals DEF BlocksOf, FreeOf, Free
<1>2. /\ x \in Device /\ FlashOf(g, q, t, x, Logical) /\ x.ftl \in Ftl /\ g.ftl \in Ftl
      /\ x.ftl.reclaim = g.ftl.reclaim
      /\ x.ftl.xlate_logical = Reserved /\ x.ftl.xlate2_logical = Reserved
      /\ x.ftl.alloc_mask = {}
      /\ Tables(g, x, Logical)
      /\ \A s \in Sector : x.ftl.score[s] = Cardinality(DeadAmong(g, s, Logical))
  BY <1>1 DEF Rebuilt, Partly, Scannable, Device
<1>3. x.ftl.sector_table = g.ftl.sector_table
  <2>1. \A s \in Sector : x.ftl.sector_table[s] = g.ftl.sector_table[s]
    BY DEF Rebuilt
  <2> QED  BY <1>2, <2>1 DEF Ftl
<1>4. \A l \in Logical \cup {NotAllocated} : Found(l, Logical) = l
  BY DEF Found
<1>5. /\ x.ftl.xlate_table = g.ftl.xlate_table /\ x.ftl.xlate2_table = g.ftl.xlate2_table
  <2>1. \A seg \in Segments : /\ g.ftl.xlate_table[seg] \in Logical \cup {NotAllocated}
                              /\ g.ftl.xlate2_table[seg] \in Logical \cup {NotAllocated}
    BY DEF Scannable, Tabled
  <2>2. \A seg \in Segments : /\ x.ftl.xlate_table[seg] = g.ftl.xlate_table[seg]
                              /\ x.ftl.xlate2_table[seg] = g.ftl.xlate2_table[seg]
    BY <1>2, <1>4, <2>1 DEF Tables
  <2> QED  BY <1>2, <2>2 DEF Ftl
<1>6. x.ftl.block_table = g.ftl.block_table
  <2> DEFINE D == {a \in Address : Direct(a)}
  <2>1. \A a \in D : g.ftl.block_table[a] \in Logical \cup {NotAllocated}
    BY DEF Scannable, Tabled
  <2>2. \A a \in D : x.ftl.block_table[a] = g.ftl.block_table[a]
    BY <1>2, <1>4, <2>1 DEF Tables
  <2>3. x.ftl.block_table \in [D -> Content] /\ g.ftl.block_table \in [D -> Content]
    BY <1>2 DEF Ftl
  <2> HIDE DEF D
  <2> QED  BY <2>2, <2>3
<1>7. x.ftl.score = g.ftl.score
  <2>1. \A s \in Sector : DeadAmong(g, s, Logical) = Dead(g, s)
    BY DEF DeadAmong, Dead, Logical
  <2>2. \A s \in Sector : x.ftl.score[s] = g.ftl.score[s]
    BY <1>2, <2>1 DEF Scannable, Scored
  <2> QED  BY <1>2, <2>2 DEF Ftl
<1>8. SameTables(g, x)
  BY <1>2, <1>3, <1>5, <1>6 DEF SameTables
<1>9. Counted(x, NotAllocated)
  <2>1. \A l \in Logical : InfoAt(x, l).written <=> InfoAt(g, l).written
    BY <1>2, <1>3, WordsSeen
  <2>2. Free(x, NotAllocated) = Free(g, NotAllocated)
    BY <2>1 DEF Free
  <2>3. /\ x.ftl.alloc_free = Cardinality(Free(g, NotAllocated))
        /\ \A l \in Free(g, NotAllocated) : ~x.ftl.allocated[l[1]]
    BY <1>1 DEF Rebuilt
  <2> QED  BY <1>2, <2>2, <2>3 DEF Counted
<1> QED  BY <1>2, <1>7, <1>8, <1>9 DEF Learnt

(* The RAM before the scan.                                                *)
Blanked(g, q) ==
  [nor |-> q.nor, steps |-> << >>, ftl |-> [Unmounted EXCEPT !.reclaim = g.ftl.reclaim]]

(* The only unit of a kind is the last one of it.                          *)
LEMMA LastOne ==
  ASSUME NEW k \in Unit, NEW S, S = {k}
  PROVE  LastOf(S) = k /\ k # NoUnit
<1>1. k \in Nat /\ k # NoUnit
  BY GeometryAssumption DEF Unit, NoUnit
<1>2. Max({k}) = k
  <2>1. \E y \in {k} : \A z \in {k} : y >= z
    BY <1>1
  <2>2. Max({k}) \in {k}
    BY <2>1 DEF Max
  <2> QED  BY <2>2
<1> QED  BY <1>1, <1>2 DEF LastOf

(* The RAM before the scan, ...                                            *)
LEMMA UnmountedFtl ==
  /\ Unmounted \in Ftl
  /\ \A s \in Sector : /\ Unmounted.sector_table[s] = NoUnit /\ Unmounted.score[s] = 0
                       /\ Unmounted.allocated[s] = FALSE
  /\ \A a \in Address : Direct(a) => Unmounted.block_table[a] = NotAllocated
  /\ \A seg \in Segments : /\ Unmounted.xlate_table[seg] = NotAllocated
                           /\ Unmounted.xlate2_table[seg] = NotAllocated
  /\ Unmounted.xlate_logical = Reserved /\ Unmounted.xlate2_logical = Reserved
  /\ Unmounted.alloc_mask = {} /\ Unmounted.alloc_free = 0
<1>1. 0 \in Sector /\ NotAllocated \in Content
  BY GeometryAssumption DEF Sector, Content
<1> DEFINE D == {b \in Address : Direct(b)}
<1>2. /\ [s \in Sector |-> NoUnit] \in [Sector -> Unit \cup {NoUnit}]
      /\ [a \in D |-> NotAllocated] \in [D -> Content]
      /\ [seg \in Segments |-> NotAllocated] \in [Segments -> Content]
      /\ [s \in Sector |-> 0] \in [Sector -> Nat]
      /\ [s \in Sector |-> FALSE] \in [Sector -> BOOLEAN]
  BY <1>1
<1>3. BlankMap \in [Entry -> Content]
  BY Images
<1>4. Unmounted \in Ftl
  BY <1>1, <1>2, <1>3 DEF Unmounted, Ftl
<1> QED  BY <1>4 DEF Unmounted

(* ... of which no unit was scanned.                                       *)
LEMMA BlankedStart ==
  ASSUME NEW g, NEW q, NEW t, Scannable(g), Origin(g, q, t), q.steps = << >>,
         NEW d, d = Blanked(g, q)
  PROVE  Rebuilt(g, q, t, d, {})
<1> DEFINE f == [Unmounted EXCEPT !.reclaim = g.ftl.reclaim]
<1>1. g.ftl.reclaim \in Unit /\ q \in Device /\ q.nor \in Flash
  BY DEF Scannable, Sectors, Origin, Device
<1>2. d = [nor |-> q.nor, ftl |-> f, steps |-> << >>]
  BY DEF Blanked
<1>3. /\ f \in Ftl /\ f.reclaim = g.ftl.reclaim
      /\ f.sector_table = Unmounted.sector_table /\ f.score = Unmounted.score
      /\ f.allocated = Unmounted.allocated /\ f.block_table = Unmounted.block_table
      /\ f.xlate_table = Unmounted.xlate_table /\ f.xlate2_table = Unmounted.xlate2_table
      /\ f.xlate_logical = Unmounted.xlate_logical /\ f.xlate2_logical = Unmounted.xlate2_logical
      /\ f.alloc_mask = Unmounted.alloc_mask /\ f.alloc_free = Unmounted.alloc_free
  <2>1. Unmounted \in Ftl
    BY UnmountedFtl
  <2> QED  BY <1>1, <2>1 DEF Ftl
<1> HIDE DEF f
<1>4. << >> \in Seq(Step)
  OBVIOUS
<1>5. d \in Device /\ d.ftl = f /\ SameFlash(q, d)
  BY <1>1, <1>2, <1>3, <1>4 DEF Device, SameFlash
<1>6. t \notin {}
  OBVIOUS
<1>7. BlocksOf({}) = {} /\ FreeOf(g, {}) = {}
  BY DEF BlocksOf, FreeOf
<1>8. \A s : DeadAmong(g, s, {}) = {}
  BY DEF DeadAmong
<1>9. Cardinality({}) = 0
  BY FS_EmptySet
<1>10. Tables(g, d, {})
  BY <1>3, <1>5, UnmountedFtl DEF Tables, Found
<1>11. Partly(g, q, t, d, BlocksOf({}))
  BY <1>3, <1>5, <1>6, <1>7, <1>8, <1>9, <1>10, UnmountedFtl DEF Partly, FlashOf
<1>12. \A l \in Free(g, NotAllocated) : ~d.ftl.allocated[l[1]]
  BY <1>3, <1>5, Logicals, UnmountedFtl DEF Free
<1> QED  BY <1>3, <1>5, <1>7, <1>9, <1>11, <1>12, UnmountedFtl DEF Rebuilt

(* What the scan of flash q finds: the RAM of g.                           *)
LEMMA ScanFinds ==
  ASSUME NEW g, NEW q, NEW t, Scannable(g), Origin(g, q, t), q.steps = << >>,
         NEW d, d = Blanked(g, q), HeadersTell(g, d, Sector), NEW x, x = CollectSectors(d)
  PROVE  Learnt(g, q, t, x)
<1>1. Rebuilt(g, q, t, d, {})
  BY BlankedStart
<1>2. Rebuilt(g, q, t, x, Sector)
  BY <1>1, CollectsSectors
<1> QED  BY <1>2, RebuiltAll

(* The list of the programs does not matter.                               *)
LEMMA GoodListed ==
  ASSUME NEW g, Good(g), NEW steps \in Seq(Step),
         NEW r, r = [nor |-> g.nor, ftl |-> g.ftl, steps |-> steps]
  PROVE  Good(r) /\ SameData(g, r)
<1>1. r \in Device /\ r.nor = g.nor /\ r.ftl = g.ftl
  BY SMTT(30) DEF Good, Device
<1>2. \A l : InfoAt(r, l) = InfoAt(g, l) /\ MapAt(r, l) = MapAt(g, l) /\ UserAt(r, l) = UserAt(g, l)
  BY <1>1 DEF InfoAt, MapAt, UserAt, UnitOf
<1>3. Sectors(r) /\ Headers(r) /\ Blanks(r)
  BY <1>1, <1>2 DEF Good, Sectors, Headers, Blanks
<1>4. \A a : /\ Primary(r, a) = Primary(g, a) /\ Secondary(r, a) = Secondary(g, a)
             /\ Where(r, a) = Where(g, a)
  BY <1>1, <1>2 DEF Primary, Secondary, Where
<1>5. \A l \in Logical : Used(r, l)
  BY <1>1, <1>2, <1>4 DEF Good, Used
<1>6. \A seg \in Segments : TableEntry(r, seg)
  BY <1>1, <1>2 DEF Good, TableEntry
<1>7. \A a \in Address : AddressEntry(r, a)
  BY <1>1, <1>2, <1>4 DEF Good, AddressEntry
<1>8. Cached(r) /\ Cached2(r)
  BY <1>1, <1>2 DEF Good, Cached, Cached2
<1>9. Counted(r, NotAllocated)
  <2>1. Free(r, NotAllocated) = Free(g, NotAllocated)
    BY <1>2 DEF Free
  <2> QED  BY <1>1, <2>1 DEF Good, Counted
<1>10. Scored(r)
  <2>1. \A s \in Sector : Dead(r, s) = Dead(g, s)
    BY <1>2 DEF Dead
  <2> QED  BY <1>1, <2>1 DEF Good, Scored
<1>11. SameData(g, r)
  BY <1>2, <1>4 DEF SameData
<1> QED  BY <1>1, <1>3, <1>5, <1>6, <1>7, <1>8, <1>9, <1>10, <1>11 DEF Good

(* What the mount does after the reclaim has been recovered.               *)
FinishedFrom(p, x) == [Clobber(FinishDiscard(FinishWrite(p, x), x)) EXCEPT !.ftl.alloc_mask = {}]
LEMMA MountedIs ==
  ASSUME NEW g, NEW q, g.ftl.reclaim \in Unit, NEW image, image = q.nor,
         UnitsOfType([nor |-> image], RESERVED) = {g.ftl.reclaim},
         NEW x, x = Recovered(CollectSectors(Blanked(g, q)))
  PROVE  Mounted(image) = FinishedFrom(PromoteAll(x), x)
<1>1. LastOf(UnitsOfType([nor |-> image], RESERVED)) = g.ftl.reclaim
  <2> DEFINE k == g.ftl.reclaim
             y == [nor |-> image]
  <2>1. k \in Unit /\ UnitsOfType(y, RESERVED) = {k}
    OBVIOUS
  <2> HIDE DEF k, y
  <2>2. LastOf(UnitsOfType(y, RESERVED)) = k
    BY <2>1, LastOne
  <2> QED  BY <2>2 DEF k, y
<1>2. Blanked(g, q) = [nor |-> image, steps |-> << >>,
                       ftl |-> [Unmounted EXCEPT
                                  !.reclaim = LastOf(UnitsOfType([nor |-> image], RESERVED))]]
  BY <1>1 DEF Blanked
<1> QED  BY <1>2 DEF Mounted, FinishedFrom

(* Nothing was written or discarded half: the mount has found a good device. *)
LEMMA MountEnds ==
  ASSUME NEW g, Good(g), NEW x, LogicalsOfType(x, DATA_WRITTEN) = {},
         LogicalsOfType(x, DATA_DELETED) = {},
         NEW p \in Device, p.nor = g.nor, SameTables(g, p), p.ftl.score = g.ftl.score,
         p.ftl.xlate_logical = Reserved, p.ftl.xlate2_logical = Reserved,
         Counted(p, NotAllocated), NEW m, m = FinishedFrom(p, x)
  PROVE  Good(m) /\ SameData(g, m) /\ m.nor = p.nor /\ m.steps = p.steps
<1>1. FinishDiscard(FinishWrite(p, x), x) = p /\ Clobber(p) = p
  BY DEF FinishWrite, FinishDiscard, Clobber
<1>2. m = [p EXCEPT !.ftl.alloc_mask = {}]
  BY <1>1 DEF FinishedFrom
<1> DEFINE f == [p.ftl EXCEPT !.alloc_mask = {}]
<1>3. p.ftl \in Ftl /\ p.steps \in Seq(Step) /\ p.nor \in Flash
  BY DEF Device
<1>4. f \in Ftl /\ m = [p EXCEPT !.ftl = f]
  BY <1>2, <1>3 DEF Ftl
<1>5. /\ f.score = p.ftl.score /\ f.block_table = p.ftl.block_table
      /\ f.xlate_table = p.ftl.xlate_table /\ f.xlate2_table = p.ftl.xlate2_table
      /\ f.sector_table = p.ftl.sector_table /\ f.reclaim = p.ftl.reclaim
      /\ f.xlate_logical = p.ftl.xlate_logical /\ f.xlate2_logical = p.ftl.xlate2_logical
      /\ f.alloc_mask = {} /\ f.alloc_free = p.ftl.alloc_free /\ f.allocated = p.ftl.allocated
  BY <1>3 DEF Ftl
<1> HIDE DEF f
<1>6. m \in Device /\ m.ftl = f /\ SameFlash(p, m)
  BY <1>4, RamReplaced
<1> DEFINE h == [nor |-> g.nor, ftl |-> g.ftl, steps |-> p.steps]
<1>7. h.nor = g.nor /\ h.ftl = g.ftl /\ h.steps = p.steps
  OBVIOUS
<1>8. Good(h) /\ SameData(g, h)
  <2>1. h = [nor |-> g.nor, ftl |-> g.ftl, steps |-> p.steps]
    OBVIOUS
  <2> HIDE DEF h
  <2> QED  BY <1>3, <2>1, GoodListed
<1> HIDE DEF h
<1>9. SameFlash(h, m) /\ SameTables(h, m) /\ m.ftl.score = h.ftl.score
  BY <1>5, <1>6, <1>7 DEF SameFlash, SameTables
<1>10. Cached(m) /\ Cached2(m)
  BY <1>5, <1>6 DEF Cached, Cached2
<1>11. Counted(m, NotAllocated)
  <2>1. \A l \in Logical : InfoAt(m, l) = InfoAt(p, l)
    BY <1>5, <1>6 DEF InfoAt, UnitOf, SameFlash
  <2>2. Free(m, NotAllocated) = Free(p, NotAllocated)
    BY <2>1 DEF Free
  <2> QED  BY <1>5, <1>6, <2>2 DEF Counted
<1>12. Good(m) /\ SameData(h, m)
  BY <1>6, <1>8, <1>9, <1>10, <1>11, RamOnly
<1>13. SameData(g, m)
  BY <1>8, <1>12 DEF SameData
<1> QED  BY <1>6, <1>12, <1>13 DEF SameFlash

(* What the headers say.                                                   *)
SameHeaders(n, image) == \A u \in Unit : image[u].info[0] = n[u].info[0]

LEMMA HeaderTypes ==
  ASSUME NEW g, Good(g), NEW x, SameHeaders(g.nor, x.nor)
  PROVE  /\ HeaderType(x, g.ftl.reclaim) = RESERVED
         /\ \A u \in Unit : u # g.ftl.reclaim => HeaderType(x, u) = ERASE
         /\ ERASE \notin {{-1}, VICTIM, RECLAIM, RESERVED}
         /\ RESERVED \notin {{-1}, VICTIM, RECLAIM, ERASE}
<1>1. /\ g.nor[g.ftl.reclaim] = Kept
      /\ \A s \in Sector : g.nor[g.ftl.sector_table[s]].info[0] = Info(ERASE, s)
      /\ \A u \in Unit : u = g.ftl.reclaim \/ \E s \in Sector : u = g.ftl.sector_table[s]
  BY DEF Good, Headers, Sectors
<1>2. Kept.info[0] = Info(RESERVED, -1)
  BY KeptImage
<1>3. HeaderType(x, g.ftl.reclaim) = RESERVED
  <2>1. g.ftl.reclaim \in Unit
    BY DEF Good, Sectors
  <2>2. x.nor[g.ftl.reclaim].info[0] = Info(RESERVED, -1)
    BY <1>1, <1>2, <2>1 DEF SameHeaders
  <2> QED  BY <2>2, InfoFields DEF HeaderType
<1>4. ASSUME NEW u \in Unit, u # g.ftl.reclaim PROVE HeaderType(x, u) = ERASE
  <2>1. PICK s \in Sector : u = g.ftl.sector_table[s]
    BY <1>1, <1>4
  <2>2. x.nor[u].info[0] = Info(ERASE, s)
    BY <1>1, <2>1 DEF SameHeaders
  <2> QED  BY <2>2, InfoFields DEF HeaderType
<1>5. /\ 1 \in ERASE /\ 1 \notin {-1} /\ 1 \notin VICTIM
      /\ 0 \notin ERASE /\ 0 \in RECLAIM /\ 0 \in RESERVED
  BY DEF ERASE, VICTIM, RECLAIM, RESERVED
<1>6. 1 \in RESERVED /\ 2 \in RESERVED /\ 2 \notin RECLAIM
  BY DEF RESERVED, RECLAIM
<1>7. ERASE \notin {{-1}, VICTIM, RECLAIM, RESERVED} /\ RESERVED \notin {{-1}, VICTIM, RECLAIM, ERASE}
  <2>1. ERASE # {-1} /\ ERASE # VICTIM /\ ERASE # RECLAIM /\ ERASE # RESERVED
    BY <1>5
  <2>2. RESERVED # {-1} /\ RESERVED # VICTIM /\ RESERVED # RECLAIM
    BY <1>5, <1>6
  <2> QED  BY <2>1, <2>2
<1> QED  BY <1>3, <1>4, <1>7

(* A good device has one unit to reclaim to, and its other units are sectors. *)
LEMMA GoodHeaders ==
  ASSUME NEW g, Good(g), NEW x, SameHeaders(g.nor, x.nor)
  PROVE  /\ g.ftl.reclaim \in Unit /\ UnitsOfType(x, RESERVED) = {g.ftl.reclaim}
         /\ UnitsOfType(x, VICTIM) = {} /\ UnitsOfType(x, RECLAIM) = {}
         /\ UnitsOfType(x, {-1}) = {}
         /\ HeadersTell(g, x, Sector)
<1>1. /\ g.ftl.reclaim \in Unit
      /\ \A s \in Sector : g.ftl.sector_table[s] \in Unit /\ g.ftl.sector_table[s] # g.ftl.reclaim
  BY DEF Good, Sectors
<1>2. /\ HeaderType(x, g.ftl.reclaim) = RESERVED
      /\ \A u \in Unit : u # g.ftl.reclaim => HeaderType(x, u) = ERASE
      /\ ERASE \notin {{-1}, VICTIM, RECLAIM, RESERVED}
      /\ RESERVED \notin {{-1}, VICTIM, RECLAIM, ERASE}
  BY HeaderTypes
<1>3. UnitsOfType(x, RESERVED) = {g.ftl.reclaim}
  BY <1>1, <1>2 DEF UnitsOfType
<1>4. /\ UnitsOfType(x, VICTIM) = {} /\ UnitsOfType(x, RECLAIM) = {}
      /\ UnitsOfType(x, {-1}) = {}
  BY <1>2 DEF UnitsOfType
<1>5. HeadersTell(g, x, Sector)
  BY <1>1, <1>2 DEF HeadersTell
<1> QED  BY <1>1, <1>3, <1>4, <1>5

(* There is nothing to recover, to promote or to finish.                   *)
LEMMA NothingTorn ==
  ASSUME NEW g, Good(g), NEW x, SameHeaders(g.nor, x.nor)
  PROVE  Recovered(x) = x
<1>1. UnitsOfType(x, VICTIM) = {} /\ UnitsOfType(x, RECLAIM) = {}
  BY GoodHeaders
<1>2. LastOf(UnitsOfType(x, VICTIM)) = NoUnit /\ LastOf(UnitsOfType(x, RECLAIM)) = NoUnit
  BY <1>1 DEF LastOf
<1> QED  BY <1>2 DEF Recovered

(* The mount promotes the secondary block of one segment, if any.            *)
LEMMA PromotesOne ==
  ASSUME NEW x, NEW p, NEW only, p = x \/ only \in Segments,
         \A seg \in Segments : Promote(x, seg) = (IF seg = only THEN p ELSE x) /\ Promote(p, seg) = p
  PROVE  PromoteAll(x) = p
<1> DEFINE Body(h) == [n \in 0..Addresses |->
                         CASE n = 0 -> x
                           [] n > 0 /\ n - 1 \in Segments -> Promote(h[n - 1], n - 1)
                           [] OTHER -> h[n - 1]]
           upto == CHOOSE h : h = Body(h)
           Done(n) == IF only \in Segments /\ only < n THEN p ELSE x
           f == [n \in 0..Addresses |-> Done(n)]
<1>1. \A seg \in Segments : seg \in 0..Addresses - 1
  BY Entered, GeometryAssumption DEF Address
<1>2. Addresses \in Nat /\ \A n \in 0..Addresses : n # 0 => n > 0 /\ n - 1 \in 0..Addresses
  BY GeometryAssumption
<1>3. \A h : \A n \in 0..Addresses :
        Body(h)[n] = IF n = 0 THEN x
                     ELSE IF n - 1 \in Segments THEN Promote(h[n - 1], n - 1) ELSE h[n - 1]
  BY <1>2
<1>4. \A n \in 0..Addresses :
        Done(n) = IF n = 0 THEN x
                  ELSE IF n - 1 \in Segments THEN Promote(Done(n - 1), n - 1) ELSE Done(n - 1)
  <2> SUFFICES ASSUME NEW n \in 0..Addresses
               PROVE  Done(n) = IF n = 0 THEN x
                                ELSE IF n - 1 \in Segments THEN Promote(Done(n - 1), n - 1)
                                ELSE Done(n - 1)
    OBVIOUS
  <2>1. CASE n = 0
    BY <1>1, <2>1
  <2>2. CASE n # 0 /\ only \in Segments
    <3>1. n \in Nat /\ only \in Nat
      BY <1>1, <1>2, <2>2
    <3>2. CASE only = n - 1
      <4>1. Done(n) = p /\ Done(n - 1) = x /\ n - 1 \in Segments
        BY <2>2, <3>1, <3>2
      <4>2. Promote(x, n - 1) = p
        BY <3>2, <4>1
      <4> HIDE DEF Done
      <4> QED  BY <2>2, <4>1, <4>2
    <3>3. CASE only < n - 1
      <4>1. Done(n) = p /\ Done(n - 1) = p
        BY <2>2, <3>1, <3>3
      <4> HIDE DEF Done
      <4> QED  BY <2>2, <4>1
    <3>4. CASE only > n - 1
      <4>1. Done(n) = x /\ Done(n - 1) = x /\ only # n - 1
        BY <2>2, <3>1, <3>4
      <4> HIDE DEF Done
      <4> QED  BY <2>2, <4>1
    <3> QED  BY <3>1, <3>2, <3>3, <3>4
  <2>3. CASE n # 0 /\ only \notin Segments
    <3>1. Done(n) = x /\ Done(n - 1) = x /\ p = x
      BY <2>3
    <3> HIDE DEF Done
    <3> QED  BY <2>3, <3>1
  <2> QED  BY <2>1, <2>2, <2>3
<1>5. f = Body(f)
  <2>1. \A n \in 0..Addresses : f[n] = Done(n)
    OBVIOUS
  <2> HIDE DEF Done
  <2>2. \A n \in 0..Addresses : Body(f)[n] = f[n]
    <3> HIDE DEF f, Body
    <3> TAKE n \in 0..Addresses
    <3>1. f[n] = Done(n) /\ (n # 0 => f[n - 1] = Done(n - 1))
      BY <1>2, <2>1
    <3>2. Body(f)[n] = IF n = 0 THEN x
                       ELSE IF n - 1 \in Segments THEN Promote(f[n - 1], n - 1) ELSE f[n - 1]
      BY <1>3
    <3>3. Done(n) = IF n = 0 THEN x
                    ELSE IF n - 1 \in Segments THEN Promote(Done(n - 1), n - 1) ELSE Done(n - 1)
      BY <1>4
    <3> QED  BY <3>1, <3>2, <3>3
  <2>3. f = [n \in 0..Addresses |-> f[n]]
    OBVIOUS
  <2>4. \A h : Body(h) = [n \in 0..Addresses |-> Body(h)[n]]
    OBVIOUS
  <2> HIDE DEF f, Body
  <2> QED  BY <2>2, <2>3, <2>4
<1>6. upto = Body(upto)
  <2> HIDE DEF Body, f
  <2> QED  BY <1>5
<1>7. PromoteAll(x) = upto[Addresses]
  BY DEF PromoteAll
<1> HIDE DEF upto
<1>8. /\ upto[0] = x
      /\ \A n \in 1..Addresses :
           upto[n] = IF n - 1 \in Segments THEN Promote(upto[n - 1], n - 1) ELSE upto[n - 1]
  BY <1>2, <1>6
<1> DEFINE S == {n \in Nat : upto[n] = Done(n)}
<1>9. 0 \in S
  BY <1>1, <1>8
<1>10. \A n \in 1..Addresses : n - 1 \in S => n \in S
  <2> HIDE DEF Done
  <2> QED  BY <1>2, <1>4, <1>8
<1> HIDE DEF S
<1>11. upto[Addresses] = Done(Addresses)
  <2>1. Addresses \in S
    <3>1. Addresses \in 0..Addresses
      BY <1>2
    <3> QED  BY <1>2, <1>9, <1>10, <3>1, CountingUp
  <2> QED  BY <2>1 DEF S
<1>12. only \in Segments => only < Addresses
  BY <1>1, <1>2
<1> QED  BY <1>7, <1>11, <1>12

(* Nothing was cut short: no second block is alone, ...                    *)
LEMMA NothingToPromote ==
  ASSUME NEW g, Good(g), NEW x, SameTables(g, x)
  PROVE  PromoteAll(x) = x
<1>1. \A seg \in Segments : Promote(x, seg) = x
  <2> TAKE seg \in Segments
  <2>1. x.ftl.xlate_table[seg] # NotAllocated \/ x.ftl.xlate2_table[seg] = NotAllocated
    BY DEF Good, TableEntry, SameTables
  <2> QED  BY <2>1 DEF Promote
<1>2. \A seg \in Segments :
        Promote(x, seg) = (IF seg = 0 THEN x ELSE x) /\ Promote(x, seg) = x
  BY <1>1
<1> QED  BY <1>2, PromotesOne

(* ... and no write or discard is to be finished.                          *)
LEMMA NothingToFinish ==
  ASSUME NEW g, Good(g), NEW x,
         \A l \in Logical : InfoAt(x, l) = InfoAt(g, l) \/ InfoAt(x, l).type = XLATE_SECONDARY
  PROVE  LogicalsOfType(x, DATA_WRITTEN) = {} /\ LogicalsOfType(x, DATA_DELETED) = {}
<1>1. DATA_WRITTEN \notin {DELETED, XLATE, XLATE_SECONDARY, DATA_COMMITTED}
  <2>1. 3 \in DATA_WRITTEN /\ 1 \in DATA_WRITTEN /\ 3 \notin DATA_COMMITTED
        /\ 1 \notin XLATE /\ 1 \notin XLATE_SECONDARY /\ 1 \notin DELETED
    BY DEF DATA_WRITTEN, DATA_COMMITTED, XLATE, XLATE_SECONDARY, DELETED
  <2> QED  BY <2>1
<1>2. DATA_DELETED \notin {DELETED, XLATE, XLATE_SECONDARY, DATA_COMMITTED}
  <2>1. 2 \in DATA_DELETED /\ 2 \notin DELETED /\ 3 \notin DATA_DELETED /\ 3 \in XLATE
        /\ 3 \in XLATE_SECONDARY /\ 1 \notin DATA_DELETED /\ 1 \in DATA_COMMITTED
    BY DEF DATA_DELETED, DATA_COMMITTED, XLATE, XLATE_SECONDARY, DELETED
  <2> QED  BY <2>1
<1>3. \A l \in Logical : InfoAt(x, l).written =>
        InfoAt(x, l).type \in {DELETED, XLATE, XLATE_SECONDARY, DATA_COMMITTED}
  BY DEF Good, Used
<1> QED  BY <1>1, <1>2, <1>3 DEF LogicalsOfType

(* A mount whose scan has found a good device g finds nothing else to do.  *)
LEMMA MountsScanned ==
  ASSUME NEW g, Good(g), NEW q, NEW t, Origin(g, q, t), q.steps = << >>,
         SameHeaders(g.nor, q.nor), t \notin Logical => q.nor = g.nor,
         NEW m, m = Mounted(q.nor)
  PROVE  /\ Good(m) /\ SameData(g, m) /\ m.nor = g.nor
         /\ m.steps = IF t \in Logical THEN << AbandonStep(q) >> ELSE << >>
<1> DEFINE d == Blanked(g, q)
           x == CollectSectors(d)
<1>1. Scannable(g)
  BY GoodScannable
<1>2. HeadersTell(g, d, Sector)
  <2>1. SameHeaders(g.nor, d.nor)
    BY DEF Blanked
  <2> HIDE DEF d
  <2> QED  BY <2>1, GoodHeaders
<1>3. Learnt(g, q, t, x)
  <2>1. d = Blanked(g, q) /\ x = CollectSectors(d)
    OBVIOUS
  <2> HIDE DEF d, x
  <2> QED  BY <1>1, <1>2, <2>1, ScanFinds
<1>4. x \in Device /\ SameTables(g, x) /\ x.nor = g.nor
      /\ x.steps = (IF t \in Logical THEN << AbandonStep(q) >> ELSE << >>)
  <2> HIDE DEF x
  <2>1. x \in Device /\ FlashOf(g, q, t, x, Logical) /\ SameTables(g, x)
    BY <1>3 DEF Learnt
  <2>2. CASE t \in Logical
    <3> DEFINE e == AbandonStep(q)
    <3>1. x.nor = g.nor /\ x.steps = Append(<< >>, e)
      BY <2>1, <2>2 DEF FlashOf
    <3> HIDE DEF e
    <3>2. x.steps = << e >>
      BY <3>1
    <3> QED  BY <2>1, <2>2, <3>1, <3>2 DEF e
  <2>3. CASE t \notin Logical
    BY <2>1, <2>3 DEF FlashOf, SameFlash
  <2> QED  BY <2>2, <2>3
<1> HIDE DEF x
<1>5. Recovered(x) = x
  <2>1. SameHeaders(g.nor, x.nor)
    BY <1>4 DEF SameHeaders
  <2> QED  BY <2>1, NothingTorn
<1>6. PromoteAll(x) = x
  BY <1>4, NothingToPromote
<1>7. m = FinishedFrom(x, x)
  <2>1. g.ftl.reclaim \in Unit /\ UnitsOfType([nor |-> q.nor], RESERVED) = {g.ftl.reclaim}
    <3> DEFINE y == [nor |-> q.nor]
    <3>1. SameHeaders(g.nor, y.nor)
      OBVIOUS
    <3> HIDE DEF y
    <3>2. g.ftl.reclaim \in Unit /\ UnitsOfType(y, RESERVED) = {g.ftl.reclaim}
      BY <3>1, GoodHeaders
    <3> QED  BY <3>2 DEF y
  <2>2. x = Recovered(CollectSectors(Blanked(g, q)))
    BY <1>5 DEF x
  <2>3. Mounted(q.nor) = FinishedFrom(PromoteAll(x), x)
    BY <2>1, <2>2, MountedIs
  <2> QED  BY <1>6, <2>3
<1>8. LogicalsOfType(x, DATA_WRITTEN) = {} /\ LogicalsOfType(x, DATA_DELETED) = {}
  <2>1. \A l \in Logical : InfoAt(x, l) = InfoAt(g, l)
    BY <1>4 DEF InfoAt, UnitOf, SameTables
  <2> QED  BY <2>1, NothingToFinish
<1>9. /\ x.ftl.score = g.ftl.score /\ Counted(x, NotAllocated)
      /\ x.ftl.xlate_logical = Reserved /\ x.ftl.xlate2_logical = Reserved
  BY <1>3, <1>4 DEF Learnt
<1>10. Good(m) /\ SameData(g, m) /\ m.nor = x.nor /\ m.steps = x.steps
  BY SMTT(30), <1>4, <1>7, <1>8, <1>9, MountEnds
<1> QED  BY <1>4, <1>10

(* A block that is reserved changes no other info word.                    *)
LEMMA HalfDoneWords ==
  ASSUME NEW g, Good(g), NEW n \in Flash, NEW t \in Logical, HalfDone(g, n, t)
  PROVE  SameHeaders(g.nor, n) /\ \A q \in Device : q.nor = n => Origin(g, q, t)
<1> DEFINE u == UnitOf(g, t)
           new == Emptied(n[u], t[2])
<1>1. t[1] \in Sector /\ t[2] \in Index /\ t = <<t[1], t[2]>> /\ t[2] # 0 /\ t[2] \in 0..Blocks - 1
  BY Logicals, GeometryAssumption DEF Index
<1>2. u = g.ftl.sector_table[t[1]] /\ u \in Unit
  BY <1>1 DEF UnitOf, Good, Sectors
<1>3. g.nor = [n EXCEPT ![u] = new]
  BY DEF HalfDone
<1>4. \A i : i # t[2] => new.info[i] = n[u].info[i]
  <2> DEFINE old == n[u]
             word == Info(DELETED, -1)
  <2>1. old = [info |-> old.info, block |-> old.block] /\ old.info \in [0..Blocks - 1 -> InfoWord]
    BY <1>2 DEF Flash, UnitImage
  <2>2. new = [old EXCEPT !.info[t[2]] = word, !.block = [@ EXCEPT ![t[2]] = StaleBlock]]
    BY DEF Emptied
  <2> HIDE DEF old, word, new
  <2>3. new.info = [old.info EXCEPT ![t[2]] = word]
    BY <2>1, <2>2
  <2>4. \A i : i # t[2] => new.info[i] = old.info[i]
    BY <2>1, <2>3
  <2> QED  BY <2>4 DEF old
<1> HIDE DEF new
<1>5. g.nor[u] = new /\ \A w \in Unit : w # u => g.nor[w] = n[w]
  BY <1>2, <1>3 DEF Flash
<1>6. SameHeaders(g.nor, n)
  BY <1>1, <1>4, <1>5 DEF SameHeaders
<1>7. \A s \in Sector : /\ g.ftl.sector_table[s] \in Unit
                        /\ g.ftl.sector_table[s] = u => s = t[1]
                        /\ g.nor[g.ftl.sector_table[s]].info[0].of = s
  BY SMTT(30), <1>1, <1>2, InfoFields DEF Good, Sectors, Headers
<1>8. ASSUME NEW s \in Sector
      PROVE  /\ n[g.ftl.sector_table[s]].info[0].of = s
             /\ \A i \in Index : <<s, i>> # t =>
                  n[g.ftl.sector_table[s]].info[i] = g.nor[g.ftl.sector_table[s]].info[i]
  <2>1. n[g.ftl.sector_table[s]].info[0] = g.nor[g.ftl.sector_table[s]].info[0]
    BY <1>6, <1>7 DEF SameHeaders
  <2>2. ASSUME NEW i \in Index, <<s, i>> # t
        PROVE  n[g.ftl.sector_table[s]].info[i] = g.nor[g.ftl.sector_table[s]].info[i]
    <3>1. CASE g.ftl.sector_table[s] = u
      <4>1. i # t[2]
        BY <1>1, <1>7, <2>2, <3>1
      <4> QED  BY <1>4, <1>5, <3>1, <4>1
    <3>2. CASE g.ftl.sector_table[s] # u
      BY <1>5, <1>7, <3>2
    <3> QED  BY <3>1, <3>2
  <2> QED  BY Zenon, <1>7, <2>1, <2>2
<1> QED  BY SMTT(30), <1>6, <1>8 DEF Origin, SameWords

(* The mount of a flash that is that of a good device.                     *)
LEMMA Mounts ==
  ASSUME NEW g, Good(g), g.steps = << >>, NEW m, m = Mounted(g.nor)
  PROVE  m.nor = g.nor /\ m.steps = << >> /\ Good(m) /\ SameData(g, m)
<1> DEFINE t == NotAllocated
<1>1. Origin(g, g, t) /\ t \notin Logical
  BY GoodScannable, ScannableSelf, Logicals
<1>2. SameHeaders(g.nor, g.nor)
  BY DEF SameHeaders
<1> HIDE DEF t
<1> QED  BY ZenonT(40), <1>1, <1>2, MountsScanned

(* The mount of a flash on which a block is reserved.                      *)
LEMMA MountsHalfDone ==
  ASSUME NEW g, Good(g), NEW n \in Flash, NEW t \in Logical, HalfDone(g, n, t),
         NEW m, m = Mounted(n)
  PROVE  /\ Good(m) /\ SameData(g, m)
         /\ m.steps = << [step |-> "abandon", before |-> n, sticks |-> TRUE] >>
<1> DEFINE q == [nor |-> n, ftl |-> g.ftl, steps |-> << >>]
<1>1. q \in Device /\ q.nor = n /\ q.steps = << >>
  <2>1. << >> \in Seq(Step) /\ g.ftl \in Ftl
    BY DEF Good, Device
  <2> QED  BY <2>1 DEF Device
<1> HIDE DEF q
<1>2. SameHeaders(g.nor, q.nor) /\ Origin(g, q, t)
  BY <1>1, HalfDoneWords
<1>3. /\ Good(m) /\ SameData(g, m)
      /\ m.steps = IF t \in Logical THEN << AbandonStep(q) >> ELSE << >>
  BY <1>1, <1>2, MountsScanned
<1> QED  BY <1>1, <1>3 DEF AbandonStep

(* A flash that power was lost on before a merged block was promoted, and    *)
(* what the scan of it finds: the block is the second of its segment.        *)
Unpromoted(g, n, seg) ==
  [nor |-> n, steps |-> << >>,
   ftl |-> [g.ftl EXCEPT !.xlate_table = [@ EXCEPT ![seg] = NotAllocated],
                         !.xlate2_table = [@ EXCEPT ![seg] = g.ftl.xlate_table[seg]]]]
Alone(g, q, seg, l2) ==
  /\ q \in Device /\ Sectors(q) /\ SameHeaders(g.nor, q.nor)
  /\ q.ftl.sector_table = g.ftl.sector_table /\ q.ftl.reclaim = g.ftl.reclaim
  /\ q.ftl.block_table = g.ftl.block_table /\ q.ftl.score = g.ftl.score
  /\ q.ftl.xlate_table = [g.ftl.xlate_table EXCEPT ![seg] = NotAllocated]
  /\ q.ftl.xlate2_table = [g.ftl.xlate2_table EXCEPT ![seg] = l2]
  /\ l2 \in Logical /\ InfoAt(g, l2) = Info(XLATE, seg)
  /\ InfoAt(q, l2) = Info(XLATE_SECONDARY, seg)
  /\ \A l \in Logical : l # l2 => InfoAt(q, l) = InfoAt(g, l)

LEMMA PromotionTypes ==
  /\ XLATE \in SUBSET (0..3) /\ XLATE # DELETED /\ XLATE \subseteq XLATE_SECONDARY
  /\ XLATE_SECONDARY # DELETED /\ XLATE_SECONDARY # XLATE /\ XLATE # DATA_COMMITTED
  /\ "promote" \in StepName
BY DEF XLATE, XLATE_SECONDARY, DELETED, DATA_COMMITTED, StepName

LEMMA HalfPromotedAlone ==
  ASSUME NEW g, Good(g), NEW n \in Flash, NEW seg \in Segments, HalfPromoted(g, n, seg),
         NEW q, q = Unpromoted(g, n, seg), NEW l2, l2 = g.ftl.xlate_table[seg]
  PROVE  /\ q.nor = n /\ q.steps = << >> /\ g.ftl.xlate2_table[seg] = NotAllocated
         /\ Alone(g, q, seg, l2) /\ g.nor = InfoType(q, "promote", l2, XLATE).nor
<1> DEFINE y == [nor |-> n, ftl |-> g.ftl, steps |-> << >>]
           xt == [g.ftl.xlate_table EXCEPT ![seg] = NotAllocated]
           xt2 == [g.ftl.xlate2_table EXCEPT ![seg] = l2]
           f == [g.ftl EXCEPT !.xlate_table = xt, !.xlate2_table = xt2]
<1>1. /\ y = [nor |-> n, ftl |-> g.ftl, steps |-> << >>]
      /\ y = [nor |-> y.nor, ftl |-> y.ftl, steps |-> y.steps] /\ y.nor = n /\ y.ftl = g.ftl
      /\ q = [nor |-> n, ftl |-> f, steps |-> << >>]
  BY DEF Unpromoted
<1>2. /\ l2 \in Logical /\ g.ftl.xlate2_table[seg] = NotAllocated
      /\ InfoAt(y, l2) = Info(XLATE_SECONDARY, seg)
      /\ g.nor = InfoType(y, "promote", l2, XLATE).nor
  BY DEF HalfPromoted
<1>3. g.ftl \in Ftl /\ g.nor \in Flash /\ << >> \in Seq(Step)
  BY DEF Good, Device
<1>4. l2 \in Content /\ NotAllocated \in Content
  <2>1. g.ftl.xlate_table[seg] \in Content
    BY <1>3 DEF Ftl
  <2> QED  BY <2>1 DEF Content
<1>5. xt \in [Segments -> Content] /\ xt2 \in [Segments -> Content]
  BY <1>3, <1>4 DEF Ftl
<1> HIDE DEF y, xt, xt2
<1>6. /\ f \in Ftl /\ f.xlate_table = xt /\ f.xlate2_table = xt2
      /\ f.sector_table = g.ftl.sector_table /\ f.reclaim = g.ftl.reclaim
      /\ f.block_table = g.ftl.block_table /\ f.score = g.ftl.score
  BY <1>3, <1>5 DEF Ftl
<1> HIDE DEF f
<1>7. /\ q \in Device /\ q.nor = n /\ q.ftl = f /\ q.steps = << >>
      /\ q = [nor |-> q.nor, ftl |-> q.ftl, steps |-> q.steps]
  BY <1>1, <1>3, <1>6 DEF Device
<1>8. Sectors(q)
  BY <1>6, <1>7 DEF Good, Sectors
<1>9. \A l : UnitOf(q, l) = UnitOf(g, l) /\ UnitOf(y, l) = UnitOf(g, l)
  BY <1>1, <1>6, <1>7 DEF UnitOf
<1>10. InfoAt(q, l2) = Info(XLATE_SECONDARY, seg)
  BY <1>1, <1>2, <1>7, <1>9 DEF InfoAt
<1> DEFINE r == InfoType(q, "promote", l2, XLATE)
<1>11. g.nor = r.nor
  <2>1. UnitOf(q, l2) = UnitOf(y, l2) /\ q.nor = y.nor
    BY <1>1, <1>7, <1>9
  <2>2. InfoType(q, "promote", l2, XLATE).nor = InfoType(y, "promote", l2, XLATE).nor
    BY <1>1, <1>7, <2>1, InfoTypeImage
  <2> QED  BY <1>2, <2>2
<1>12. Touched(q, r, l2) /\ InfoAt(r, l2) = Info(XLATE, seg)
  <2>1. InfoAt(q, l2).type = XLATE_SECONDARY /\ InfoAt(q, l2).of = seg
    BY <1>10, InfoFields
  <2>2. r = InfoType(q, "promote", l2, XLATE)
    OBVIOUS
  <2> HIDE DEF r
  <2> QED  BY <1>2, <1>7, <1>8, <2>1, <2>2, PromotionTypes, TypeNarrowed
<1> HIDE DEF r
<1>13. \A l : InfoAt(r, l) = InfoAt(g, l)
  <2>1. \A l : UnitOf(r, l) = UnitOf(g, l)
    BY <1>9, <1>12 DEF Touched, UnitOf
  <2> QED  BY <1>11, <2>1 DEF InfoAt
<1>14. InfoAt(g, l2) = Info(XLATE, seg) /\ \A l \in Logical : l # l2 => InfoAt(q, l) = InfoAt(g, l)
  BY <1>12, <1>13 DEF Touched, SameAt
<1>15. SameHeaders(g.nor, q.nor)
  BY <1>11, <1>12 DEF Touched, SameHeaders
<1>16. Alone(g, q, seg, l2)
  BY <1>2, <1>6, <1>7, <1>8, <1>10, <1>14, <1>15 DEF Alone, xt, xt2
<1> QED  BY <1>2, <1>7, <1>11, <1>16 DEF r

(* A block that is alone is found like any other.                          *)
LEMMA AloneScannable ==
  ASSUME NEW g, Good(g), NEW seg \in Segments, NEW q, NEW l2, Alone(g, q, seg, l2),
         g.ftl.xlate2_table[seg] = NotAllocated, l2 = g.ftl.xlate_table[seg]
  PROVE  Scannable(q) /\ Origin(q, q, NotAllocated)
<1>1. /\ q \in Device /\ Sectors(q) /\ SameHeaders(g.nor, q.nor)
      /\ q.ftl.sector_table = g.ftl.sector_table /\ q.ftl.block_table = g.ftl.block_table
      /\ q.ftl.score = g.ftl.score
  BY DEF Alone
<1>2. /\ l2 \in Logical /\ InfoAt(g, l2) = Info(XLATE, seg)
      /\ InfoAt(q, l2) = Info(XLATE_SECONDARY, seg)
      /\ \A l \in Logical : l # l2 => InfoAt(q, l) = InfoAt(g, l)
  BY DEF Alone
<1>3. /\ q.ftl.xlate_table[seg] = NotAllocated /\ q.ftl.xlate2_table[seg] = l2
      /\ \A s \in Segments : s # seg => /\ q.ftl.xlate_table[s] = g.ftl.xlate_table[s]
                                        /\ q.ftl.xlate2_table[s] = g.ftl.xlate2_table[s]
  <2>1. g.ftl \in Ftl
    BY DEF Good, Device
  <2>2. /\ q.ftl.xlate_table = [g.ftl.xlate_table EXCEPT ![seg] = NotAllocated]
        /\ q.ftl.xlate2_table = [g.ftl.xlate2_table EXCEPT ![seg] = l2]
    BY DEF Alone
  <2>3. DOMAIN g.ftl.xlate_table = Segments /\ DOMAIN g.ftl.xlate2_table = Segments
    BY <2>1 DEF Ftl
  <2> QED  BY <2>2, <2>3
<1>4. Scored(q)
  <2>1. /\ InfoAt(q, l2).type = XLATE_SECONDARY /\ InfoAt(g, l2).type = XLATE
    BY <1>2, InfoFields
  <2>2. \A l \in Logical : (InfoAt(q, l).written /\ InfoAt(q, l).type = DELETED)
                              <=> (InfoAt(g, l).written /\ InfoAt(g, l).type = DELETED)
    BY <1>2, <2>1, PromotionTypes
  <2>3. \A s \in Sector : Dead(q, s) = Dead(g, s)
    BY <2>2, DeadIs
  <2> QED  BY <1>1, <2>3 DEF Good, Scored
<1>5. \A s \in Sector : q.nor[q.ftl.sector_table[s]].info[0].of = s
  <2> TAKE s \in Sector
  <2>1. /\ g.ftl.sector_table[s] \in Unit
        /\ g.nor[g.ftl.sector_table[s]].info[0] = Info(ERASE, s)
    BY DEF Good, Sectors, Headers
  <2>2. q.nor[g.ftl.sector_table[s]].info[0] = Info(ERASE, s)
    BY <1>1, <2>1 DEF SameHeaders
  <2> QED  BY <1>1, <2>2, InfoFields
<1>6. Scannable(g)
  BY GoodScannable
<1>7. \A l \in Logical : Listed(q, l)
  <2> TAKE l \in Logical
  <2>1. CASE l = l2
    <3>1. InfoAt(q, l).type = XLATE_SECONDARY /\ InfoAt(q, l).of = seg
      BY <1>2, <2>1, InfoFields
    <3> QED  BY <1>3, <2>1, <3>1 DEF Listed
  <2>2. CASE l # l2
    <3>1. InfoAt(q, l) = InfoAt(g, l) /\ Listed(g, l)
      BY <1>2, <1>6, <2>2 DEF Scannable
    <3> DEFINE word == InfoAt(g, l)
    <3>2. \/ ~word.written
          \/ word.type = DELETED
          \/ word.type = XLATE /\ word.of \in Segments /\ g.ftl.xlate_table[word.of] = l
          \/ word.type = XLATE_SECONDARY /\ word.of \in Segments /\ g.ftl.xlate2_table[word.of] = l
          \/ /\ word.type = DATA_COMMITTED /\ word.of \in Address
             /\ Direct(word.of) => g.ftl.block_table[word.of] = l
      BY <3>1 DEF Listed
    <3>3. l # NotAllocated
      BY Logicals
    <3>4. word = InfoAt(q, l)
      BY <3>1
    <3> HIDE DEF word
    <3>5. word.of \in Segments =>
            /\ g.ftl.xlate_table[word.of] = l => q.ftl.xlate_table[word.of] = l
            /\ g.ftl.xlate2_table[word.of] = l => q.ftl.xlate2_table[word.of] = l
      BY <1>3, <2>2, <3>3
    <3> QED  BY <1>1, <3>2, <3>4, <3>5 DEF Listed
  <2> QED  BY <2>1, <2>2
<1>8. \A s \in Segments : /\ Tabled(q, q.ftl.xlate_table[s], Info(XLATE, s))
                          /\ Tabled(q, q.ftl.xlate2_table[s], Info(XLATE_SECONDARY, s))
  <2> TAKE s \in Segments
  <2>1. CASE s = seg
    BY <1>2, <1>3, <2>1 DEF Tabled
  <2>2. CASE s # seg
    <3> DEFINE k == g.ftl.xlate_table[s]
               k2 == g.ftl.xlate2_table[s]
    <3>1. /\ k = NotAllocated \/ (k \in Logical /\ InfoAt(g, k) = Info(XLATE, s))
          /\ k2 = NotAllocated \/ (k2 \in Logical /\ InfoAt(g, k2) = Info(XLATE_SECONDARY, s))
      BY <1>6 DEF Scannable, Tabled
    <3>2. q.ftl.xlate_table[s] = k /\ q.ftl.xlate2_table[s] = k2
      BY <1>3, <2>2
    <3> HIDE DEF k, k2
    <3>3. Info(XLATE, s) # Info(XLATE, seg) /\ Info(XLATE_SECONDARY, s) # Info(XLATE, seg)
      BY <2>2, InfoFields
    <3> QED  BY <1>2, <3>1, <3>2, <3>3 DEF Tabled
  <2> QED  BY <2>1, <2>2
<1>9. \A a \in Address : Direct(a) => Tabled(q, q.ftl.block_table[a], Info(DATA_COMMITTED, a))
  <2> SUFFICES ASSUME NEW a \in Address, Direct(a)
               PROVE  Tabled(q, q.ftl.block_table[a], Info(DATA_COMMITTED, a))
    OBVIOUS
  <2> DEFINE k == g.ftl.block_table[a]
  <2>1. k = NotAllocated \/ (k \in Logical /\ InfoAt(g, k) = Info(DATA_COMMITTED, a))
    BY <1>6 DEF Scannable, Tabled
  <2>2. q.ftl.block_table[a] = k
    BY <1>1
  <2> HIDE DEF k
  <2>3. Info(DATA_COMMITTED, a) # Info(XLATE, seg)
    BY SMTT(30), InfoFields, PromotionTypes
  <2> QED  BY <1>2, <2>1, <2>2, <2>3 DEF Tabled
<1>10. Scannable(q)
  BY <1>1, <1>4, <1>5, <1>7, <1>8, <1>9 DEF Scannable
<1> QED  BY <1>10, ScannableSelf

(* What the programs are, but for whether they stick.                       *)
LEMMA OverZerosSame ==
  ASSUME NEW q, NEW d \in Device, NEW r, r = OverZeros(q, d)
  PROVE  r \in Device /\ r.nor = d.nor /\ r.ftl = d.ftl
<1>1. d = [nor |-> d.nor, ftl |-> d.ftl, steps |-> d.steps]
      /\ d.nor \in Flash /\ d.ftl \in Ftl /\ d.steps \in Seq(Step)
  BY DEF Device
<1> DEFINE n == Len(d.steps)
           Clear(k) == IF k \in DOMAIN q.steps THEN d.steps[k] ELSE [d.steps[k] EXCEPT !.sticks = FALSE]
<1>2. n \in Nat /\ DOMAIN d.steps = 1..n /\ \A k \in 1..n : d.steps[k] \in Step
  BY <1>1
<1>3. /\ r = [nor |-> d.nor, ftl |-> d.ftl, steps |-> r.steps]
      /\ r.steps = [k \in DOMAIN d.steps |-> Clear(k)]
  BY <1>1 DEF OverZeros
<1>4. \A k \in 1..n : Clear(k) \in Step
  BY <1>2 DEF Step
<1> HIDE DEF Clear, n
<1>5. r.steps \in Seq(Step)
  BY <1>2, <1>3, <1>4
<1> QED  BY <1>1, <1>3, <1>5 DEF Device

(* The mount promotes a block that is alone.                               *)
LEMMA Promoted ==
  ASSUME NEW g, Good(g), NEW n \in Flash, NEW seg \in Segments, HalfPromoted(g, n, seg),
         NEW q, q = Unpromoted(g, n, seg), NEW x, Learnt(q, q, NotAllocated, x),
         NEW r, r = OverZeros(x, InfoType(x, "promote", g.ftl.xlate_table[seg], XLATE)),
         NEW p, p = Promote(x, seg)
  PROVE  /\ PromoteAll(x) = p /\ x.nor = n /\ x.steps = << >>
         /\ LogicalsOfType(x, DATA_WRITTEN) = {} /\ LogicalsOfType(x, DATA_DELETED) = {}
         /\ p \in Device /\ p.nor = g.nor /\ p.steps = r.steps
         /\ SameTables(g, p) /\ p.ftl.score = g.ftl.score
         /\ p.ftl.xlate_logical = Reserved /\ p.ftl.xlate2_logical = Reserved
         /\ Counted(p, NotAllocated)
<1> DEFINE l2 == g.ftl.xlate_table[seg]
           w == InfoType(x, "promote", l2, XLATE)
<1>1. /\ q.nor = n /\ q.steps = << >> /\ g.ftl.xlate2_table[seg] = NotAllocated
      /\ Alone(g, q, seg, l2) /\ g.nor = InfoType(q, "promote", l2, XLATE).nor
  BY HalfPromotedAlone
<1>2. /\ l2 = g.ftl.xlate_table[seg] /\ w = InfoType(x, "promote", l2, XLATE)
      /\ r = OverZeros(x, w)
  OBVIOUS
<1> HIDE DEF l2, w
<1>3. /\ q \in Device /\ Sectors(q)
      /\ q.ftl.sector_table = g.ftl.sector_table /\ q.ftl.reclaim = g.ftl.reclaim
      /\ q.ftl.block_table = g.ftl.block_table /\ q.ftl.score = g.ftl.score
      /\ q.ftl.xlate_table = [g.ftl.xlate_table EXCEPT ![seg] = NotAllocated]
      /\ q.ftl.xlate2_table = [g.ftl.xlate2_table EXCEPT ![seg] = l2]
      /\ l2 \in Logical /\ InfoAt(g, l2) = Info(XLATE, seg)
      /\ InfoAt(q, l2) = Info(XLATE_SECONDARY, seg)
      /\ \A l \in Logical : l # l2 => InfoAt(q, l) = InfoAt(g, l)
  BY <1>1 DEF Alone
<1>4. /\ x \in Device /\ x.nor = n /\ x.steps = << >> /\ SameTables(q, x)
      /\ x.ftl.score = q.ftl.score
      /\ x.ftl.xlate_logical = Reserved /\ x.ftl.xlate2_logical = Reserved
      /\ Counted(x, NotAllocated)
  <2>1. FlashOf(q, q, NotAllocated, x, Logical) /\ NotAllocated \notin Logical
    BY Logicals DEF Learnt
  <2>2. x.nor = q.nor /\ x.steps = q.steps
    BY SMTT(30), <2>1 DEF FlashOf, SameFlash
  <2> QED  BY <1>1, <2>2 DEF Learnt
<1>5. Sectors(x) /\ \A l : UnitOf(x, l) = UnitOf(q, l) /\ InfoAt(x, l) = InfoAt(q, l)
  <2>1. \A l : UnitOf(x, l) = UnitOf(q, l)
    BY <1>4 DEF SameTables, UnitOf
  <2>2. x.nor = q.nor
    BY <1>1, <1>4
  <2> QED  BY SMTT(30), <1>3, <1>4, <2>1, <2>2 DEF SameTables, Sectors, InfoAt
<1>6. /\ Touched(x, w, l2) /\ InfoAt(w, l2) = Info(XLATE, seg) /\ w.nor = g.nor
  <2>1. InfoAt(x, l2) = Info(XLATE_SECONDARY, seg)
    BY <1>3, <1>5
  <2>2. InfoAt(x, l2).type = XLATE_SECONDARY /\ InfoAt(x, l2).of = seg
    BY <2>1, InfoFields
  <2>4. Touched(x, w, l2) /\ InfoAt(w, l2) = Info(XLATE, seg)
    BY <1>2, <1>3, <1>4, <1>5, <2>2, PromotionTypes, TypeNarrowed
  <2>5. /\ x = [nor |-> x.nor, ftl |-> x.ftl, steps |-> x.steps]
        /\ q = [nor |-> q.nor, ftl |-> q.ftl, steps |-> q.steps]
    BY <1>3, <1>4 DEF Device
  <2>6. x.nor = q.nor /\ UnitOf(x, l2) = UnitOf(q, l2)
    BY <1>1, <1>4, <1>5
  <2>7. InfoType(x, "promote", l2, XLATE).nor = InfoType(q, "promote", l2, XLATE).nor
    BY <2>5, <2>6, InfoTypeImage
  <2> QED  BY <1>1, <1>2, <2>4, <2>7
<1>7. /\ x.ftl.xlate_table[seg] = NotAllocated /\ x.ftl.xlate2_table[seg] = l2
      /\ \A s \in Segments : s # seg => /\ x.ftl.xlate_table[s] = g.ftl.xlate_table[s]
                                        /\ x.ftl.xlate2_table[s] = g.ftl.xlate2_table[s]
      /\ g.ftl.xlate_table \in [Segments -> Content] /\ g.ftl.xlate2_table \in [Segments -> Content]
      /\ x.ftl.xlate_table \in [Segments -> Content] /\ x.ftl.xlate2_table \in [Segments -> Content]
  <2>1. g.ftl \in Ftl /\ x.ftl \in Ftl
    BY <1>4 DEF Good, Device
  <2>2. /\ g.ftl.xlate_table \in [Segments -> Content] /\ g.ftl.xlate2_table \in [Segments -> Content]
        /\ x.ftl.xlate_table \in [Segments -> Content] /\ x.ftl.xlate2_table \in [Segments -> Content]
    BY <2>1 DEF Ftl
  <2>3. /\ x.ftl.xlate_table = [g.ftl.xlate_table EXCEPT ![seg] = NotAllocated]
        /\ x.ftl.xlate2_table = [g.ftl.xlate2_table EXCEPT ![seg] = l2]
    BY <1>3, <1>4 DEF SameTables
  <2> QED  BY <2>2, <2>3
<1>8. p = [r EXCEPT !.ftl.xlate_table[seg] = l2, !.ftl.xlate2_table[seg] = NotAllocated]
  <2>1. l2 # NotAllocated
    BY SMTT(30), <1>3, Logicals
  <2> QED  BY <1>2, <1>7, <2>1 DEF Promote
<1> DEFINE xt == [x.ftl.xlate_table EXCEPT ![seg] = l2]
           xt2 == [x.ftl.xlate2_table EXCEPT ![seg] = NotAllocated]
           f == [x.ftl EXCEPT !.xlate_table = xt, !.xlate2_table = xt2]
<1>9. /\ w \in Device /\ w.ftl = x.ftl
      /\ r \in Device /\ r.ftl = x.ftl /\ r.nor = w.nor
  <2>1. w \in Device /\ w.ftl = x.ftl
    BY SMTT(30), <1>6 DEF Touched
  <2> QED  BY <1>2, <2>1, OverZerosSame
<1>10. p = [r EXCEPT !.ftl = f]
  <2>1. r.ftl \in Ftl /\ r = [nor |-> r.nor, ftl |-> r.ftl, steps |-> r.steps]
    BY <1>9 DEF Device
  <2> QED  BY ZenonT(40), <1>8, <1>9, <2>1 DEF Ftl
<1>11. xt = g.ftl.xlate_table /\ xt2 = g.ftl.xlate2_table
  <2>1. xt \in [Segments -> Content] /\ \A s \in Segments : xt[s] = g.ftl.xlate_table[s]
    <3>1. xt[seg] = l2 /\ \A s \in Segments : s # seg => xt[s] = x.ftl.xlate_table[s]
      BY <1>7
    <3>2. xt = [x.ftl.xlate_table EXCEPT ![seg] = g.ftl.xlate_table[seg]]
      BY <1>2
    <3>3. xt \in [Segments -> Content]
      BY <1>7, <3>2
    <3> HIDE DEF xt
    <3> QED  BY <1>2, <1>7, <3>1, <3>3
  <2>2. xt2 \in [Segments -> Content] /\ \A s \in Segments : xt2[s] = g.ftl.xlate2_table[s]
    <3>1. xt2[seg] = NotAllocated /\ \A s \in Segments : s # seg => xt2[s] = x.ftl.xlate2_table[s]
      BY <1>7
    <3>2. xt2 = [x.ftl.xlate2_table EXCEPT ![seg] = g.ftl.xlate2_table[seg]]
      BY <1>1
    <3>3. xt2 \in [Segments -> Content]
      BY <1>7, <3>2
    <3> HIDE DEF xt2
    <3> QED  BY <1>1, <1>7, <3>1, <3>3
  <2> HIDE DEF xt, xt2
  <2> QED  BY <1>7, <2>1, <2>2
<1> HIDE DEF xt, xt2
<1>12. f \in Ftl /\ f.xlate_table = xt /\ f.xlate2_table = xt2
       /\ f.sector_table = x.ftl.sector_table /\ f.reclaim = x.ftl.reclaim
       /\ f.block_table = x.ftl.block_table /\ f.score = x.ftl.score
       /\ f.xlate_logical = x.ftl.xlate_logical /\ f.xlate2_logical = x.ftl.xlate2_logical
       /\ f.alloc_free = x.ftl.alloc_free /\ f.alloc_mask = x.ftl.alloc_mask
       /\ f.alloc_sector = x.ftl.alloc_sector /\ f.allocated = x.ftl.allocated
  <2>1. x.ftl \in Ftl /\ g.ftl \in Ftl
    BY <1>4 DEF Good, Device
  <2>2. xt \in [Segments -> Content] /\ xt2 \in [Segments -> Content]
    BY <1>7, <1>11
  <2> QED  BY <2>1, <2>2 DEF Ftl
<1> HIDE DEF f
<1>13. p \in Device /\ p.ftl = f /\ p.nor = r.nor /\ p.steps = r.steps
  BY <1>9, <1>10, <1>12 DEF Device
<1>14. SameTables(g, p) /\ p.ftl.score = g.ftl.score
       /\ p.ftl.xlate_logical = Reserved /\ p.ftl.xlate2_logical = Reserved
  BY <1>3, <1>4, <1>11, <1>12, <1>13 DEF SameTables
<1>15. \A l \in Logical : InfoAt(p, l).written <=> InfoAt(x, l).written
  <2> TAKE l \in Logical
  <2>1. \A k : UnitOf(p, k) = UnitOf(w, k)
    BY <1>9, <1>12, <1>13 DEF UnitOf
  <2>2. InfoAt(p, l) = InfoAt(w, l)
    BY <1>9, <1>13, <2>1 DEF InfoAt
  <2>3. CASE l = l2
    BY SMTT(30), <1>3, <1>5, <1>6, <2>2, <2>3, InfoFields
  <2>4. CASE l # l2
    BY <1>6, <2>2, <2>4 DEF Touched, SameAt
  <2> QED  BY <2>3, <2>4
<1>16. Counted(p, NotAllocated)
  <2>1. Free(p, NotAllocated) = Free(x, NotAllocated)
    BY <1>15 DEF Free
  <2> QED  BY <1>4, <1>12, <1>13, <2>1 DEF Counted
<1>17. \A s \in Segments : Promote(x, s) = (IF s = seg THEN p ELSE x) /\ Promote(p, s) = p
  <2> TAKE s \in Segments
  <2>1. g.ftl.xlate_table[s] # NotAllocated \/ g.ftl.xlate2_table[s] = NotAllocated
    BY SMTT(30) DEF Good, TableEntry
  <2>2. Promote(p, s) = p
    BY Zenon, <1>14, <2>1 DEF Promote, SameTables
  <2>3. Promote(x, s) = IF s = seg THEN p ELSE x
    <3>1. CASE s = seg
      BY <3>1
    <3>2. CASE s # seg
      BY <1>7, <2>1, <3>2 DEF Promote
    <3> QED  BY <3>1, <3>2
  <2> QED  BY <2>2, <2>3
<1>18. PromoteAll(x) = p
  BY <1>17, PromotesOne
<1>19. LogicalsOfType(x, DATA_WRITTEN) = {} /\ LogicalsOfType(x, DATA_DELETED) = {}
  <2>1. \A l \in Logical : InfoAt(x, l) = InfoAt(g, l) \/ InfoAt(x, l).type = XLATE_SECONDARY
    BY <1>3, <1>5, InfoFields
  <2> QED  BY <2>1, NothingToFinish
<1> QED  BY <1>4, <1>6, <1>9, <1>13, <1>14, <1>16, <1>18, <1>19

(* The mount of a flash on which a merged block is still the second.        *)
LEMMA MountsPromoted ==
  ASSUME NEW g, Good(g), NEW n \in Flash, NEW seg \in Segments, HalfPromoted(g, n, seg),
         NEW m, m = Mounted(n)
  PROVE  /\ Good(m) /\ SameData(g, m) /\ SameHeaders(g.nor, n)
         /\ \A P : Survives(P, n) => Ok(P, m)
<1> DEFINE q == Unpromoted(g, n, seg)
           l2 == g.ftl.xlate_table[seg]
           d == Blanked(q, q)
           x == CollectSectors(d)
           w == InfoType(x, "promote", l2, XLATE)
           r == OverZeros(x, w)
           p == Promote(x, seg)
<1>1. /\ q = Unpromoted(g, n, seg) /\ l2 = g.ftl.xlate_table[seg] /\ d = Blanked(q, q)
      /\ x = CollectSectors(d) /\ w = InfoType(x, "promote", l2, XLATE)
      /\ r = OverZeros(x, w) /\ p = Promote(x, seg)
      /\ r = OverZeros(x, InfoType(x, "promote", g.ftl.xlate_table[seg], XLATE))
      /\ d.nor = q.nor
  BY DEF Blanked
<1> HIDE DEF q, l2, d, x, w, r, p
<1>2. /\ q.nor = n /\ q.steps = << >> /\ g.ftl.xlate2_table[seg] = NotAllocated
      /\ Alone(g, q, seg, l2)
  BY <1>1, HalfPromotedAlone
<1>3. SameHeaders(g.nor, n) /\ q.ftl.reclaim = g.ftl.reclaim
      /\ q.ftl.sector_table = g.ftl.sector_table
  BY <1>2 DEF Alone
<1>4. Scannable(q) /\ Origin(q, q, NotAllocated)
  BY <1>1, <1>2, AloneScannable
<1>5. HeadersTell(q, d, Sector)
  <2>1. SameHeaders(g.nor, d.nor)
    BY <1>1, <1>2, <1>3
  <2>2. HeadersTell(g, d, Sector)
    BY <2>1, GoodHeaders
  <2> QED  BY <1>3, <2>2 DEF HeadersTell
<1>6. Learnt(q, q, NotAllocated, x)
  BY <1>1, <1>2, <1>4, <1>5, ScanFinds
<1>7. /\ PromoteAll(x) = p /\ x.nor = n /\ x.steps = << >>
      /\ LogicalsOfType(x, DATA_WRITTEN) = {} /\ LogicalsOfType(x, DATA_DELETED) = {}
      /\ p \in Device /\ p.nor = g.nor /\ p.steps = r.steps
      /\ SameTables(g, p) /\ p.ftl.score = g.ftl.score
      /\ p.ftl.xlate_logical = Reserved /\ p.ftl.xlate2_logical = Reserved
      /\ Counted(p, NotAllocated)
  BY <1>1, <1>6, Promoted
<1>8. Recovered(x) = x
  <2>1. SameHeaders(g.nor, x.nor)
    BY <1>3, <1>7
  <2> QED  BY <2>1, NothingTorn
<1>9. m = FinishedFrom(p, x)
  <2>1. q.ftl.reclaim \in Unit /\ UnitsOfType([nor |-> n], RESERVED) = {q.ftl.reclaim}
    <3> DEFINE y == [nor |-> n]
    <3>1. SameHeaders(g.nor, y.nor)
      BY <1>3
    <3> HIDE DEF y
    <3>2. g.ftl.reclaim \in Unit /\ UnitsOfType(y, RESERVED) = {g.ftl.reclaim}
      BY <3>1, GoodHeaders
    <3> QED  BY <1>3, <3>2 DEF y
  <2>2. x = Recovered(CollectSectors(Blanked(q, q)))
    BY <1>1, <1>8
  <2>3. Mounted(n) = FinishedFrom(PromoteAll(x), x)
    BY <1>2, <2>1, <2>2, MountedIs
  <2> QED  BY <1>7, <2>3
<1>10. Good(m) /\ SameData(g, m) /\ m.nor = p.nor /\ m.steps = p.steps
  BY <1>7, <1>9, MountEnds
<1>12. ASSUME NEW P, Survives(P, n) PROVE Ok(P, m)
  <2>1. Ok(P, x)
    <3>1. x = [nor |-> x.nor, ftl |-> x.ftl, steps |-> x.steps]
      BY <1>6 DEF Learnt, Device
    <3>2. << >> \in Seq({}) /\ DOMAIN << >> = {}
      OBVIOUS
    <3>3. Listing(x.steps) /\ DOMAIN x.steps = {}
      BY <1>7, <3>2 DEF Listing
    <3> QED  BY <3>1, <3>3 DEF Ok
  <2>2. Survivable(P, x, "promote")
    BY <1>7, <1>12 DEF Survivable
  <2>3. Ok(P, r)
    <3>1. Ok(P, w)
      BY <1>1, <2>1, <2>2, OkInfoType
    <3> QED  BY <1>1, <3>1, OkOverZeros
  <2>4. m.steps = r.steps /\ m = [nor |-> m.nor, ftl |-> m.ftl, steps |-> m.steps]
    BY <1>7, <1>10 DEF Good, Device
  <2> QED  BY <2>3, <2>4 DEF Ok
<1> QED  BY <1>3, <1>10, <1>12

(* What the headers say when the unit of sector s is the victim of a reclaim, *)
(* or its copy is, and the mount must go on with it.                         *)
OddHeader(g, n, s, type) ==
  /\ n[g.ftl.sector_table[s]].info[0] = Info(type, s)
  /\ \A u \in Unit : u # g.ftl.sector_table[s] => n[u].info[0] = g.nor[u].info[0]

Only(S, k) == S = {k}

LEMMA OddHeaders ==
  ASSUME NEW g, Good(g), NEW s \in Sector, NEW type \in {VICTIM, RECLAIM},
         NEW x, OddHeader(g, x.nor, s, type)
  PROVE  /\ g.ftl.reclaim \in Unit /\ UnitsOfType(x, RESERVED) = {g.ftl.reclaim}
         /\ UnitsOfType(x, {-1}) = {}
         /\ type = VICTIM => /\ Only(UnitsOfType(x, VICTIM), g.ftl.sector_table[s])
                             /\ UnitsOfType(x, RECLAIM) = {}
         /\ type = RECLAIM => /\ Only(UnitsOfType(x, RECLAIM), g.ftl.sector_table[s])
                              /\ UnitsOfType(x, VICTIM) = {}
         /\ type = VICTIM => HeadersTell(g, x, Sector)
         /\ type = RECLAIM => HeadersTell(g, x, Sector \ {s})
<1> DEFINE k == g.ftl.reclaim
           v == g.ftl.sector_table[s]
<1>1. /\ k \in Unit /\ v \in Unit /\ v # k
      /\ \A t \in Sector : /\ g.ftl.sector_table[t] \in Unit /\ g.ftl.sector_table[t] # k
                           /\ g.ftl.sector_table[t] = v => t = s
      /\ \A u \in Unit : u = k \/ \E t \in Sector : u = g.ftl.sector_table[t]
      /\ \A t \in Sector : g.nor[g.ftl.sector_table[t]].info[0] = Info(ERASE, t)
      /\ g.nor[k].info[0] = Info(RESERVED, -1)
  BY KeptImage DEF Good, Sectors, Headers
<1>2. /\ x.nor[v].info[0] = Info(type, s)
      /\ \A u \in Unit : u # v => x.nor[u].info[0] = g.nor[u].info[0]
  BY DEF OddHeader
<1>3. v = g.ftl.sector_table[s] /\ k = g.ftl.reclaim
  OBVIOUS
<1> HIDE DEF k, v
<1>4. /\ VICTIM # RECLAIM /\ VICTIM # RESERVED /\ RECLAIM # RESERVED /\ ERASE # RESERVED
      /\ ERASE # VICTIM /\ ERASE # RECLAIM
      /\ {-1} # VICTIM /\ {-1} # RECLAIM /\ {-1} # RESERVED /\ {-1} # ERASE
  <2>1. /\ 0 \in RECLAIM /\ 0 \in RESERVED /\ 0 \notin VICTIM /\ 0 \notin ERASE
        /\ 1 \in ERASE /\ 1 \notin VICTIM /\ 2 \in RESERVED /\ 2 \notin RECLAIM
        /\ 3 \in VICTIM /\ 3 \in ERASE /\ 0 \notin {-1} /\ 3 \notin {-1}
    BY DEF VICTIM, RECLAIM, RESERVED, ERASE
  <2> QED  BY <2>1
<1>5. HeaderType(x, k) = RESERVED /\ HeaderType(x, v) = type
  <2>1. x.nor[k].info[0] = Info(RESERVED, -1)
    BY <1>1, <1>2
  <2> QED  BY <1>2, <2>1, InfoFields DEF HeaderType
<1>6. \A t \in Sector : t # s => /\ g.ftl.sector_table[t] # v
                                 /\ HeaderType(x, g.ftl.sector_table[t]) = ERASE
  <2> SUFFICES ASSUME NEW t \in Sector, t # s
               PROVE  /\ g.ftl.sector_table[t] # v
                      /\ HeaderType(x, g.ftl.sector_table[t]) = ERASE
    OBVIOUS
  <2> DEFINE u == g.ftl.sector_table[t]
  <2>1. u \in Unit /\ u # v /\ g.nor[u].info[0] = Info(ERASE, t)
    BY <1>1
  <2> HIDE DEF u
  <2>2. x.nor[u].info[0] = Info(ERASE, t)
    BY <1>2, <2>1
  <2>3. HeaderType(x, u) = ERASE
    BY <2>2, InfoFields DEF HeaderType
  <2> QED  BY <2>1, <2>3 DEF u
<1>7. \A u \in Unit : u # k /\ u # v => HeaderType(x, u) = ERASE
  BY <1>1, <1>3, <1>6
<1>8. /\ UnitsOfType(x, RESERVED) = {k} /\ UnitsOfType(x, type) = {v}
      /\ \A other \in {{-1}, VICTIM, RECLAIM} : other # type => UnitsOfType(x, other) = {}
  <2>1. UnitsOfType(x, RESERVED) = {k}
    BY <1>1, <1>4, <1>5, <1>7 DEF UnitsOfType
  <2>2. UnitsOfType(x, type) = {v}
    BY <1>1, <1>4, <1>5, <1>7 DEF UnitsOfType
  <2>3. ASSUME NEW other \in {{-1}, VICTIM, RECLAIM}, other # type
        PROVE  UnitsOfType(x, other) = {}
    <3>1. other # RESERVED /\ other # ERASE
      BY <1>4
    <3> QED  BY <1>5, <1>7, <2>3, <3>1 DEF UnitsOfType
  <2> QED  BY <2>1, <2>2, <2>3
<1>9. type = VICTIM => HeadersTell(g, x, Sector)
  <2> SUFFICES ASSUME type = VICTIM PROVE HeadersTell(g, x, Sector)
    OBVIOUS
  <2>1. \A t \in Sector : HeaderType(x, g.ftl.sector_table[t]) \in {ERASE, VICTIM}
    BY <1>3, <1>5, <1>6
  <2>2. HeaderType(x, g.ftl.reclaim) \notin {ERASE, VICTIM}
    BY <1>3, <1>4, <1>5
  <2> QED  BY <2>1, <2>2 DEF HeadersTell
<1>10. type = RECLAIM => HeadersTell(g, x, Sector \ {s})
  <2> SUFFICES ASSUME type = RECLAIM PROVE HeadersTell(g, x, Sector \ {s})
    OBVIOUS
  <2>1. \A t \in Sector : HeaderType(x, g.ftl.sector_table[t]) \in {ERASE, VICTIM} <=> t # s
    BY <1>3, <1>4, <1>5, <1>6
  <2>2. HeaderType(x, g.ftl.reclaim) \notin {ERASE, VICTIM}
    BY <1>3, <1>4, <1>5
  <2> QED  BY <2>1, <2>2 DEF HeadersTell
<1>11. /\ UnitsOfType(x, {-1}) = {}
       /\ type = VICTIM => Only(UnitsOfType(x, VICTIM), v) /\ UnitsOfType(x, RECLAIM) = {}
       /\ type = RECLAIM => Only(UnitsOfType(x, RECLAIM), v) /\ UnitsOfType(x, VICTIM) = {}
  BY <1>4, <1>8 DEF Only
<1> QED  BY <1>1, <1>3, <1>8, <1>9, <1>10, <1>11

(* What the mount goes on with.                                            *)
LEMMA OddFound ==
  ASSUME NEW g, Good(g), NEW s \in Sector, NEW x
  PROVE  /\ OddHeader(g, x.nor, s, VICTIM) =>
              /\ LastOf(UnitsOfType(x, VICTIM)) = g.ftl.sector_table[s]
              /\ LastOf(UnitsOfType(x, RECLAIM)) = NoUnit
              /\ LastOf(Unwritten(x)) = NoUnit
         /\ OddHeader(g, x.nor, s, RECLAIM) =>
              /\ LastOf(UnitsOfType(x, RECLAIM)) = g.ftl.sector_table[s]
              /\ LastOf(UnitsOfType(x, VICTIM)) = NoUnit
         /\ g.ftl.sector_table[s] \in Unit /\ g.ftl.sector_table[s] # NoUnit
<1> DEFINE u == g.ftl.sector_table[s]
<1>1. u \in Unit /\ u # NoUnit /\ LastOf({u}) = u /\ LastOf({}) = NoUnit
  <2>1. u \in Unit
    BY DEF Good, Sectors
  <2> HIDE DEF u
  <2> QED  BY <2>1, LastOne DEF LastOf
<1>2. ASSUME OddHeader(g, x.nor, s, VICTIM)
      PROVE  UnitsOfType(x, VICTIM) = {u} /\ UnitsOfType(x, RECLAIM) = {} /\ Unwritten(x) = {}
  <2>1. Only(UnitsOfType(x, VICTIM), u)
    BY <1>2, OddHeaders
  <2>2. UnitsOfType(x, RECLAIM) = {}
    BY <1>2, OddHeaders
  <2>3. UnitsOfType(x, {-1}) = {}
    BY <1>2, OddHeaders
  <2> QED  BY <2>1, <2>2, <2>3 DEF Unwritten, Only
<1>3. ASSUME OddHeader(g, x.nor, s, RECLAIM)
      PROVE  UnitsOfType(x, RECLAIM) = {u} /\ UnitsOfType(x, VICTIM) = {}
  <2>1. Only(UnitsOfType(x, RECLAIM), u)
    BY <1>3, OddHeaders
  <2>2. UnitsOfType(x, VICTIM) = {}
    BY <1>3, OddHeaders
  <2> QED  BY <2>1, <2>2 DEF Only
<1> QED  BY <1>1, <1>2, <1>3

(* A device on which nothing was programmed.                               *)
LEMMA NothingDone ==
  ASSUME NEW x \in Device, x.steps = << >>
  PROVE  Sticks(x) /\ \A P : Ok(P, x)
<1>1. << >> \in Seq({}) /\ DOMAIN << >> = {}
  OBVIOUS
<1>2. Listing(x.steps) /\ DOMAIN x.steps = {}
  BY <1>1 DEF Listing
<1>3. x = [nor |-> x.nor, ftl |-> x.ftl, steps |-> x.steps]
  BY DEF Device
<1> QED  BY <1>2, <1>3 DEF Ok, Sticks

(* The mount of a flash whose scan, and the reclaim it finishes, lead to x.   *)
LEMMA MountsRecovered ==
  ASSUME NEW g, Good(g), NEW n, NEW q, q.nor = n,
         g.ftl.reclaim \in Unit, UnitsOfType([nor |-> n], RESERVED) = {g.ftl.reclaim},
         NEW x, x = Recovered(CollectSectors(Blanked(g, q))),
         NEW h, Good(h), x \in Device, x.nor = h.nor, SameTables(h, x),
         x.ftl.score = h.ftl.score, Counted(x, NotAllocated),
         x.ftl.xlate_logical = Reserved, x.ftl.xlate2_logical = Reserved,
         NEW m, m = Mounted(n)
  PROVE  Good(m) /\ SameData(h, m) /\ m.nor = x.nor /\ m.steps = x.steps
<1>1. PromoteAll(x) = x
  BY NothingToPromote
<1>2. LogicalsOfType(x, DATA_WRITTEN) = {} /\ LogicalsOfType(x, DATA_DELETED) = {}
  <2>1. \A l \in Logical : InfoAt(x, l) = InfoAt(h, l)
    BY DEF InfoAt, UnitOf, SameTables
  <2> QED  BY <2>1, NothingToFinish
<1>3. m = FinishedFrom(x, x)
  <2>1. Mounted(n) = FinishedFrom(PromoteAll(x), x)
    BY MountedIs
  <2> QED  BY <1>1, <2>1
<1> QED  BY <1>2, <1>3, MountEnds

(* The mount of a flash whose copy of a sector is complete, and not yet marked *)
(* as the sector.                                                          *)
Halted(g, n) == [nor |-> n, ftl |-> g.ftl, steps |-> << >>]
AsSector(image) == [image EXCEPT !.info[0] = Info(@.type \cap ERASE, @.of)]
With(n, u, image) == [n EXCEPT ![u] = image]
Sectored(g, x, s) == PutSurely(x, "sector", g.ftl.sector_table[s], g.nor[g.ftl.sector_table[s]])

LEMMA AdoptsWords ==
  ASSUME NEW g, Good(g), NEW s \in Sector, NEW n, Adopts(n, g, g.ftl.sector_table[s], s),
         NEW q, q = Halted(g, n)
  PROVE  /\ n \in Flash /\ q \in Device /\ q.nor = n /\ q.steps = << >>
         /\ OddHeader(g, n, s, RECLAIM) /\ Origin(g, q, NotAllocated)
         /\ AsSector(n[g.ftl.sector_table[s]]) = g.nor[g.ftl.sector_table[s]]
         /\ With(n, g.ftl.sector_table[s], g.nor[g.ftl.sector_table[s]]) = g.nor
<1> DEFINE u == g.ftl.sector_table[s]
           old == n[u]
           word == Info(ERASE, s)
           new == [old EXCEPT !.info[0] = word]
<1>1. /\ u \in Unit /\ n \in Flash /\ old.info[0] = Info(RECLAIM, s)
      /\ g.nor = [n EXCEPT ![u] = new]
      /\ \A t \in Sector : /\ g.ftl.sector_table[t] \in Unit
                           /\ g.ftl.sector_table[t] = u => t = s
                           /\ g.nor[g.ftl.sector_table[t]].info[0] = Info(ERASE, t)
  BY Zenon DEF Adopts, Good, Sectors, Headers
<1>2. g.ftl \in Ftl /\ << >> \in Seq(Step)
  BY SMTT(30) DEF Good, Device
<1>3. q \in Device /\ q.nor = n /\ q.steps = << >>
  BY SMTT(30), <1>1, <1>2 DEF Halted, Device
<1>4. old = [info |-> old.info, block |-> old.block] /\ old.info \in [0..Blocks - 1 -> InfoWord]
  BY ZenonT(40), <1>1 DEF Flash, UnitImage
<1>5. AsSector(old) = new
  <2>1. RECLAIM \cap ERASE = ERASE
    BY SMTT(30) DEF RECLAIM, ERASE
  <2>3. old.info[0].type = RECLAIM /\ old.info[0].of = s
    BY SMTT(30), <1>1, InfoFields
  <2>2. Info(old.info[0].type \cap ERASE, old.info[0].of) = word
    BY <2>1, <2>3
  <2> HIDE DEF old, word
  <2> QED  BY <1>4, <2>2 DEF AsSector
<1>6. old = n[u] /\ u = g.ftl.sector_table[s] /\ With(n, u, new) = [n EXCEPT ![u] = new]
  BY DEF With
<1>7. \A i : i # 0 => new.info[i] = old.info[i]
  <2> HIDE DEF old, word
  <2>1. new.info = [old.info EXCEPT ![0] = word]
    BY <1>4
  <2> QED  BY <1>4, <2>1
<1> HIDE DEF old, new, u, word
<1>8. g.nor[u] = new /\ \A w \in Unit : w # u => g.nor[w] = n[w]
  BY <1>1 DEF Flash
<1>9. OddHeader(g, n, s, RECLAIM)
  BY SMTT(30), <1>1, <1>6, <1>8 DEF OddHeader
<1>10. ASSUME NEW t \in Sector
       PROVE  /\ n[g.ftl.sector_table[t]].info[0].of = t
              /\ \A i \in Index : n[g.ftl.sector_table[t]].info[i] = g.nor[g.ftl.sector_table[t]].info[i]
  <2>1. CASE t = s
    <3>1. n[g.ftl.sector_table[t]].info[0].of = t
      BY <1>1, <1>6, <2>1, InfoFields
    <3>2. \A i \in Index : i # 0
      BY DEF Index
    <3>3. \A i \in Index : old.info[i] = new.info[i]
      BY <1>7, <3>2
    <3> QED  BY <1>6, <1>8, <2>1, <3>1, <3>3
  <2>2. CASE t # s
    <3> DEFINE w == g.ftl.sector_table[t]
    <3>1. w \in Unit /\ w # u /\ g.nor[w].info[0] = Info(ERASE, t)
      BY <1>1, <2>2
    <3> HIDE DEF w
    <3>2. n[w] = g.nor[w] /\ n[w].info[0].of = t
      BY SMTT(30), <1>8, <3>1, InfoFields
    <3> QED  BY <3>2 DEF w
  <2> QED  BY SMTT(30), <2>1, <2>2
<1>11. Origin(g, q, NotAllocated)
  BY SMTT(30), <1>3, <1>10, Logicals DEF Origin, SameWords
<1> QED  BY SMTT(30), <1>1, <1>3, <1>5, <1>6, <1>8, <1>9, <1>11

(* The mark is a program of its unit like any other.                       *)
MarkOnly(x, y) == y \in Device /\ y.ftl = x.ftl /\ (Sticks(y) <=> Sticks(x))
LEMMA MarksOnly ==
  ASSUME NEW x \in Device, NEW u \in Unit, NEW image \in UnitImage,
         NEW y, y = PutSurely(x, "sector", u, image)
  PROVE  MarkOnly(x, y)
<1>1. "sector" \in StepName
  BY SMTT(30) DEF StepName
<1> QED  BY <1>1, PutSure DEF MarkOnly

(* The mount marks the copy as the sector.                                 *)
LEMMA AdoptsCopy ==
  ASSUME NEW g, Good(g), NEW s \in Sector, NEW n, Adopts(n, g, g.ftl.sector_table[s], s),
         NEW q, q = Halted(g, n), NEW x, x = CollectSectors(Blanked(g, q)),
         NEW y, y = Sectored(g, x, s), NEW c, c = Collect(y, g.ftl.sector_table[s])
  PROVE  /\ x \in Device /\ x.nor = n /\ x.steps = << >> /\ y.nor = g.nor
         /\ Sticks(y) /\ Learnt(g, y, NotAllocated, c) /\ Recovered(x) = c
<1> DEFINE u == g.ftl.sector_table[s]
           image == g.nor[u]
<1>1. /\ u \in Unit /\ n \in Flash /\ q \in Device /\ q.nor = n /\ q.steps = << >>
      /\ OddHeader(g, n, s, RECLAIM) /\ Origin(g, q, NotAllocated)
      /\ AsSector(n[u]) = image /\ With(n, u, image) = g.nor
  BY AdoptsWords DEF Good, Sectors
<1>11. /\ u = g.ftl.sector_table[s] /\ image = g.nor[u]
       /\ y = PutSurely(x, "sector", u, image) /\ c = Collect(y, u)
  BY DEF Sectored
<1> HIDE DEF u, image
<1>2. Scannable(g)
  BY GoodScannable
<1>3. Rebuilt(g, q, NotAllocated, x, Sector \ {s})
  <2> DEFINE d == Blanked(g, q)
  <2>1. d = Blanked(g, q) /\ x = CollectSectors(d)
    OBVIOUS
  <2>2. d.nor = n
    BY <1>1 DEF Blanked
  <2> HIDE DEF d
  <2>3. HeadersTell(g, d, Sector \ {s})
    <3>1. OddHeader(g, d.nor, s, RECLAIM)
      BY <1>1, <2>2
    <3> QED  BY <3>1, OddHeaders
  <2>4. Rebuilt(g, q, NotAllocated, d, {})
    BY <1>1, <1>2, <2>1, BlankedStart
  <2> QED  BY <1>1, <1>2, <2>1, <2>3, <2>4, CollectsSectors
<1>4. x \in Device /\ x.nor = n /\ x.steps = << >> /\ Partly(g, q, NotAllocated, x, BlocksOf(Sector \ {s}))
  <2>1. Partly(g, q, NotAllocated, x, BlocksOf(Sector \ {s}))
    BY <1>3 DEF Rebuilt
  <2>2. NotAllocated \notin BlocksOf(Sector \ {s})
    BY Logicals DEF BlocksOf
  <2>3. SameFlash(q, x)
    BY <2>1, <2>2 DEF Partly, FlashOf
  <2> QED  BY <1>1, <2>1, <2>3 DEF Partly, SameFlash
<1>5. y \in Device /\ y.ftl = x.ftl /\ (Sticks(y) <=> Sticks(x)) /\ y.nor = g.nor
  <2>2. image \in UnitImage
    BY ZenonT(40), <1>1, <1>11 DEF Good, Device, Flash
  <2>3. y \in Device /\ y.ftl = x.ftl /\ (Sticks(y) <=> Sticks(x))
    <3>1. x \in Device /\ u \in Unit /\ y = PutSurely(x, "sector", u, image)
      BY Zenon, <1>1, <1>4, <1>11
    <3>2. MarkOnly(x, y)
      BY Zenon, <2>2, <3>1, MarksOnly
    <3> QED  BY Zenon, <3>2 DEF MarkOnly
  <2>4. y.nor = [x.nor EXCEPT ![u] = image]
    <3>1. x = [nor |-> x.nor, ftl |-> x.ftl, steps |-> x.steps]
      BY SMTT(30), <1>4 DEF Device
    <3> QED  BY ZenonT(40), <1>1, <1>11, <3>1 DEF PutSurely, Put
  <2> QED  BY <1>1, <1>4, <2>3, <2>4 DEF With
<1>6. Origin(g, y, NotAllocated)
  <2>1. NotAllocated \notin Logical
    BY Logicals
  <2>2. SameWords(g, y, NotAllocated)
    BY Zenon, <1>2, <1>5 DEF Scannable, SameWords
  <2> QED  BY Zenon, <1>5, <2>1, <2>2 DEF Origin
<1>7. Rebuilt(g, y, NotAllocated, y, Sector \ {s})
  <2> DEFINE B == BlocksOf(Sector \ {s})
  <2>1. NotAllocated \notin B
    BY Logicals DEF BlocksOf
  <2>2. FlashOf(g, y, NotAllocated, y, B)
    BY <2>1 DEF FlashOf, SameFlash
  <2>3. Partly(g, q, NotAllocated, x, B)
    BY <1>4
  <2>4. Rebuilt(g, q, NotAllocated, x, Sector \ {s})
    BY <1>3
  <2> HIDE DEF B
  <2>5. Partly(g, y, NotAllocated, y, B)
    BY <1>5, <2>2, <2>3 DEF Partly, Tables
  <2> QED  BY <1>5, <2>4, <2>5 DEF Rebuilt, B
<1>8. Learnt(g, y, NotAllocated, c)
  <2>1. Rebuilt(g, y, NotAllocated, c, (Sector \ {s}) \cup {s})
    BY Zenon, <1>2, <1>6, <1>7, <1>11, CollectsUnit
  <2>2. (Sector \ {s}) \cup {s} = Sector
    OBVIOUS
  <2>3. Rebuilt(g, y, NotAllocated, c, Sector)
    BY SMTT(30), <2>1, <2>2
  <2> QED  BY SMTT(30), <1>2, <1>6, <2>3, RebuiltAll
<1>9. Recovered(x) = c
  <2>1. ASSUME NEW z, OddHeader(g, z.nor, s, RECLAIM)
        PROVE  /\ LastOf(UnitsOfType(z, RECLAIM)) = u /\ u # NoUnit
               /\ LastOf(UnitsOfType(z, VICTIM)) = NoUnit
    BY ZenonT(40), <1>11, <2>1, OddFound
  <2>2. /\ LastOf(UnitsOfType(x, RECLAIM)) = u /\ u # NoUnit
        /\ LastOf(UnitsOfType(x, VICTIM)) = NoUnit
    BY <1>1, <1>4, <2>1
  <2>4. Recovered(x) = Adopted(x, u)
    BY <2>2 DEF Recovered
  <2>5. AsSector(x.nor[u]) = image
    BY <1>1, <1>4
  <2>6. Adopted(x, u) = Collect(PutSurely(x, "sector", u, AsSector(x.nor[u])), u)
    BY DEF Adopted, PutSurely, AsSector
  <2> QED  BY ZenonT(40), <1>11, <2>4, <2>5, <2>6
<1>10. Sticks(x)
  BY <1>4, NothingDone
<1> QED  BY <1>4, <1>5, <1>8, <1>9, <1>10

LEMMA MountsAdopted ==
  ASSUME NEW g, Good(g), NEW s \in Sector, NEW n, Adopts(n, g, g.ftl.sector_table[s], s),
         NEW m, m = Mounted(n)
  PROVE  /\ Good(m) /\ SameData(g, m) /\ Sticks(m) /\ OddHeader(g, n, s, RECLAIM) /\ n \in Flash
         /\ \A P : Survives(P, n) => Ok(P, m)
<1> DEFINE q == Halted(g, n)
           x == CollectSectors(Blanked(g, q))
           y == Sectored(g, x, s)
           c == Collect(y, g.ftl.sector_table[s])
<1>1. /\ q = Halted(g, n) /\ x = CollectSectors(Blanked(g, q))
      /\ y = Sectored(g, x, s) /\ c = Collect(y, g.ftl.sector_table[s])
  OBVIOUS
<1> HIDE DEF q, x, y, c
<1>2. /\ x \in Device /\ x.nor = n /\ x.steps = << >> /\ y.nor = g.nor
      /\ Sticks(y) /\ Learnt(g, y, NotAllocated, c) /\ Recovered(x) = c
  BY <1>1, AdoptsCopy
<1>3. n \in Flash /\ q.nor = n /\ OddHeader(g, n, s, RECLAIM)
  BY <1>1, AdoptsWords
<1>4. /\ c \in Device /\ c.nor = g.nor /\ c.steps = y.steps /\ SameTables(g, c)
      /\ c.ftl.score = g.ftl.score /\ Counted(c, NotAllocated)
      /\ c.ftl.xlate_logical = Reserved /\ c.ftl.xlate2_logical = Reserved
  <2>1. NotAllocated \notin Logical
    BY Logicals
  <2> QED  BY <1>2, <2>1 DEF Learnt, FlashOf, SameFlash
<1>5. Good(m) /\ SameData(g, m) /\ m.nor = c.nor /\ m.steps = c.steps
  <2>1. g.ftl.reclaim \in Unit /\ UnitsOfType([nor |-> n], RESERVED) = {g.ftl.reclaim}
    <3> DEFINE z == [nor |-> n]
    <3>1. OddHeader(g, z.nor, s, RECLAIM)
      BY <1>3
    <3> HIDE DEF z
    <3>2. g.ftl.reclaim \in Unit /\ UnitsOfType(z, RESERVED) = {g.ftl.reclaim}
      BY <3>1, OddHeaders
    <3> QED  BY <3>2 DEF z
  <2>2. c = Recovered(CollectSectors(Blanked(g, q)))
    BY <1>1, <1>2
  <2> QED  BY <1>3, <1>4, <2>1, <2>2, MountsRecovered
<1>6. Sticks(m)
  BY <1>2, <1>4, <1>5 DEF Sticks
<1>7. ASSUME NEW P, Survives(P, n) PROVE Ok(P, m)
  <2>1. Ok(P, x)
    BY <1>2, NothingDone
  <2>2. Survivable(P, x, "sector")
    BY <1>2, <1>7 DEF Survivable
  <2>3. Ok(P, y)
    BY <1>1, <2>1, <2>2, OkPut DEF Sectored, PutSurely
  <2>4. m.steps = y.steps /\ m = [nor |-> m.nor, ftl |-> m.ftl, steps |-> m.steps]
    BY <1>4, <1>5 DEF Good, Device
  <2> QED  BY <2>3, <2>4 DEF Ok
<1> QED  BY <1>3, <1>5, <1>6, <1>7

(* The mount of a flash on which a unit is marked as the victim: the unit to   *)
(* reclaim to is erased, and the reclaim starts again.                       *)
LEMMA ReclaimedWords ==
  ASSUME NEW g, Good(g), NEW s \in Sector, NEW n \in Flash, HalfReclaimed(g, n, s),
         NEW q, q = Halted(g, n)
  PROVE  /\ q \in Device /\ q.nor = n /\ q.steps = << >>
         /\ OddHeader(g, n, s, VICTIM) /\ Origin(g, q, NotAllocated)
<1> DEFINE v == g.ftl.sector_table[s]
           r == g.ftl.reclaim
           old == g.nor[v]
<1>1. /\ v \in Unit /\ r \in Unit /\ v # r /\ old \in UnitImage /\ old.info[0] = Info(ERASE, s)
      /\ \A t \in Sector : /\ g.ftl.sector_table[t] \in Unit /\ g.ftl.sector_table[t] # r
                           /\ g.ftl.sector_table[t] = v => t = s
                           /\ g.nor[g.ftl.sector_table[t]].info[0] = Info(ERASE, t)
      /\ g.nor[r].info[0] = Info(RESERVED, -1)
  BY KeptImage DEF Good, Sectors, Headers, Device, Flash
<1>2. /\ n[v] = Marked(old, s) /\ n[r].info[0] = Info(RESERVED, -1)
      /\ \A u \in Unit : u # v /\ u # r => n[u] = g.nor[u]
  BY DEF HalfReclaimed
<1>3. g.ftl \in Ftl /\ << >> \in Seq(Step)
  BY DEF Good, Device
<1>4. q \in Device /\ q.nor = n /\ q.steps = << >>
  BY <1>3 DEF Halted, Device
<1>5. v = g.ftl.sector_table[s] /\ r = g.ftl.reclaim /\ old = g.nor[v]
  OBVIOUS
<1> HIDE DEF v, r, old
<1>6. /\ n[v].info[0] = Info(VICTIM, s)
      /\ \A i \in Index : n[v].info[i] = old.info[i]
  BY SMTT(30), <1>1, <1>2, Marks
<1>7. OddHeader(g, n, s, VICTIM)
  BY ZenonT(40), <1>1, <1>2, <1>5, <1>6 DEF OddHeader
<1>8. ASSUME NEW t \in Sector
      PROVE  /\ n[g.ftl.sector_table[t]].info[0].of = t
             /\ \A i \in Index : n[g.ftl.sector_table[t]].info[i] = g.nor[g.ftl.sector_table[t]].info[i]
  <2>1. CASE t = s
    BY <1>5, <1>6, <2>1, InfoFields
  <2>2. CASE t # s
    <3> DEFINE w == g.ftl.sector_table[t]
    <3>1. w \in Unit /\ w # v /\ w # r /\ g.nor[w].info[0] = Info(ERASE, t)
      BY <1>1, <2>2
    <3> HIDE DEF w
    <3>2. n[w] = g.nor[w] /\ n[w].info[0].of = t
      BY SMTT(30), <1>2, <3>1, InfoFields
    <3> QED  BY <3>2 DEF w
  <2> QED  BY <2>1, <2>2
<1>9. Origin(g, q, NotAllocated)
  BY <1>4, <1>8, Logicals DEF Origin, SameWords
<1> QED  BY SMTT(30), <1>4, <1>7, <1>9

(* What the device would be if the reclaim had not begun.                    *)
LEMMA Unreclaimed ==
  ASSUME NEW g, Good(g), NEW q, Origin(g, q, NotAllocated), NEW x, Learnt(g, q, NotAllocated, x),
         NEW h, h = [nor |-> g.nor, ftl |-> x.ftl, steps |-> << >>]
  PROVE  /\ Good(h) /\ SameData(g, h) /\ h.ftl.sector_table = g.ftl.sector_table
         /\ h.ftl.reclaim = g.ftl.reclaim /\ h.ftl.xlate2_logical = Reserved
<1> DEFINE k == [nor |-> g.nor, ftl |-> g.ftl, steps |-> << >>]
<1>1. k.nor = g.nor /\ k.ftl = g.ftl /\ k.steps = << >> /\ k = [nor |-> g.nor, ftl |-> g.ftl, steps |-> << >>]
  OBVIOUS
<1> HIDE DEF k
<1>2. << >> \in Seq(Step)
  OBVIOUS
<1>3. Good(k) /\ SameData(g, k)
  BY <1>1, <1>2, GoodListed
<1>4. /\ x \in Device /\ SameTables(g, x) /\ x.ftl.score = g.ftl.score
      /\ x.ftl.xlate_logical = Reserved /\ x.ftl.xlate2_logical = Reserved
      /\ x.ftl.alloc_mask = {} /\ Counted(x, NotAllocated)
      /\ FlashOf(g, q, NotAllocated, x, Logical)
  BY DEF Learnt
<1>5. h \in Device /\ h.nor = g.nor /\ h.ftl = x.ftl /\ h.steps = << >>
  BY <1>2, <1>4 DEF Good, Device
<1>6. SameFlash(k, h) /\ SameTables(k, h) /\ h.ftl.score = k.ftl.score
  BY <1>1, <1>4, <1>5 DEF SameFlash, SameTables
<1>7. Cached(h) /\ Cached2(h)
  BY <1>4, <1>5 DEF Cached, Cached2
<1>8. Counted(h, NotAllocated)
  <2>1. Scannable(g)
    BY GoodScannable
  <2>2. \A l \in Logical : InfoAt(x, l).written <=> InfoAt(g, l).written
    BY SMTT(30), <1>4, <2>1, WordsSeen DEF SameTables
  <2>3. \A l \in Logical : InfoAt(h, l) = InfoAt(g, l)
    BY SMTT(30), <1>4, <1>5 DEF InfoAt, UnitOf, SameTables
  <2>4. Free(h, NotAllocated) = Free(x, NotAllocated)
    BY <2>2, <2>3 DEF Free
  <2> QED  BY <1>4, <1>5, <2>4 DEF Counted
<1>9. Good(h) /\ SameData(k, h)
  BY <1>3, <1>5, <1>6, <1>7, <1>8, RamOnly
<1>10. SameData(g, h)
  BY <1>3, <1>9 DEF SameData
<1> QED  BY <1>4, <1>5, <1>9, <1>10 DEF SameTables

(* The reclaim starts again on device d, ...                               *)
Kept2(x) == PutSurely(PutSurely(x, "erase", x.ftl.reclaim, Blank), "header", x.ftl.reclaim, Kept)
Marked2(d, v, s) == Put(d, "victim", v, Marked(d.nor[v], s), FALSE)

LEMMA RecoversVictim ==
  ASSUME NEW x, NEW v, LastOf(UnitsOfType(x, VICTIM)) = v, v # NoUnit,
         LastOf(UnitsOfType(x, RECLAIM)) = NoUnit, LastOf(Unwritten(x)) = NoUnit
  PROVE  Recovered(x) = Reclaim(Kept2(x), v)
<1> DEFINE w == LastOf(UnitsOfType(x, VICTIM))
           r == LastOf(UnitsOfType(x, RECLAIM))
           e == LastOf(Unwritten(x))
           d1 == IF e # NoUnit THEN [x EXCEPT !.ftl.reclaim = e]
                 ELSE Put(x, "erase", x.ftl.reclaim, Blank, TRUE)
           d2 == Put(d1, "header", d1.ftl.reclaim,
                     [Blank EXCEPT !.info[0] = Info(RESERVED, -1)], TRUE)
           swapped == Swap(x, w, x.nor[w].info[0].of, r)
<1>1. w = v /\ v # NoUnit /\ r = NoUnit /\ e = NoUnit
  OBVIOUS
<1>2. d1 = Put(x, "erase", x.ftl.reclaim, Blank, TRUE)
  BY <1>1
<1>3. d2 = Put(d1, "header", d1.ftl.reclaim, Kept, TRUE)
  BY DEF Kept
<1>4. Recovered(x) = CASE w # NoUnit /\ r # NoUnit -> swapped
                       [] w # NoUnit /\ r = NoUnit -> Reclaim(d2, w)
                       [] w = NoUnit /\ r # NoUnit -> Adopted(x, r)
                       [] OTHER -> x
  BY DEF Recovered
<1> HIDE DEF w, r, e, d1, d2, swapped
<1>5. Recovered(x) = Reclaim(d2, v)
  BY <1>1, <1>4
<1>6. d2 = Kept2(x)
  <2>1. Put(x, "erase", x.ftl.reclaim, Blank, TRUE).ftl.reclaim = x.ftl.reclaim
    BY DEF Put
  <2> QED  BY <1>2, <1>3, <2>1 DEF Kept2, PutSurely
<1> QED  BY <1>5, <1>6

LEMMA RestartsAt ==
  ASSUME NEW h, Good(h), NEW s \in Sector, NEW x \in Device, x.ftl = h.ftl,
         HalfReclaimed(h, x.nor, s), NEW d, d = Kept2(x)
  PROVE  /\ d \in Device /\ d.ftl = h.ftl /\ (Sticks(d) <=> Sticks(x))
         /\ HalfReclaimed(h, d.nor, s) /\ d.nor[h.ftl.reclaim] = Kept
<1> DEFINE r == h.ftl.reclaim
           y == PutSurely(x, "erase", r, Blank)
<1>1. r \in Unit /\ h.ftl.sector_table[s] # r
  BY DEF Good, Sectors
<1>2. y = PutSurely(x, "erase", r, Blank) /\ r = h.ftl.reclaim
  OBVIOUS
<1>3. d = PutSurely(y, "header", r, Kept)
  BY DEF Kept2
<1> HIDE DEF r, y
<1>4. y \in Device /\ y.ftl = x.ftl /\ (Sticks(y) <=> Sticks(x))
      /\ \A u \in Unit : u # r => y.nor[u] = x.nor[u]
  <2>1. "erase" \in StepName
    BY DEF StepName
  <2> QED  BY <1>1, <1>2, <2>1, KeptImage, PutSure
<1>5. /\ d \in Device /\ d.ftl = y.ftl /\ (Sticks(d) <=> Sticks(y)) /\ d.nor[r] = Kept
      /\ \A u \in Unit : u # r => d.nor[u] = y.nor[u]
  <2>1. "header" \in StepName /\ Kept \in UnitImage
    BY KeptImage DEF StepName
  <2> HIDE DEF Kept
  <2> QED  BY <1>1, <1>3, <1>4, <2>1, PutSure
<1>6. HalfReclaimed(h, d.nor, s)
  <2> DEFINE v == h.ftl.sector_table[s]
  <2>1. v \in Unit /\ v # r
    BY <1>1 DEF Good, Sectors
  <2>2. x.nor[v] = Marked(h.nor[v], s) /\ \A u \in Unit : u # v /\ u # r => x.nor[u] = h.nor[u]
    BY <1>2 DEF HalfReclaimed
  <2>3. d.nor[v] = Marked(h.nor[v], s) /\ \A u \in Unit : u # v /\ u # r => d.nor[u] = h.nor[u]
    BY <1>4, <1>5, <2>1, <2>2
  <2>4. d.nor[r].info[0] = Info(RESERVED, -1)
    BY <1>5, KeptImage
  <2> QED  BY <1>2, <2>3, <2>4 DEF HalfReclaimed
<1> QED  BY <1>2, <1>4, <1>5, <1>6

(* The units that a reclaim of sector s works on.                           *)
Works(h, s, v, r, old) ==
  /\ v \in Unit /\ r \in Unit /\ r # v /\ old.info[0] = Info(ERASE, s) /\ old \in UnitImage
  /\ h.nor[r] = Kept /\ Dead(h, s) = DeadIn(old) /\ Live(h, s) = LiveIn(old)
LEMMA WorksOn ==
  ASSUME NEW h, Good(h), NEW s \in Sector
  PROVE  Works(h, s, h.ftl.sector_table[s], h.ftl.reclaim, h.nor[h.ftl.sector_table[s]])
<1> DEFINE v == h.ftl.sector_table[s]
           r == h.ftl.reclaim
           old == h.nor[v]
<1>1. /\ v \in Unit /\ r \in Unit /\ r # v /\ old.info[0] = Info(ERASE, s) /\ old \in UnitImage
      /\ h.nor[r] = Kept /\ Dead(h, s) = DeadIn(old) /\ Live(h, s) = LiveIn(old)
  BY SMTT(30), ReclaimUnits
<1> QED  BY <1>1 DEF Works

(* ... and marks what is marked.                                           *)
LEMMA Remarks ==
  ASSUME NEW h, Good(h), NEW s \in Sector, NEW d \in Device, d.ftl = h.ftl,
         HalfReclaimed(h, d.nor, s), d.nor[h.ftl.reclaim] = Kept,
         NEW k, k = Marked2(d, h.ftl.sector_table[s], s)
  PROVE  /\ IsMarked(h, k, s)
         /\ Reclaim(d, h.ftl.sector_table[s]) = Finished(h, k, s)
<1> DEFINE v == h.ftl.sector_table[s]
           r == h.ftl.reclaim
           old == h.nor[v]
           victim == Marked(old, s)
<1>1. /\ v \in Unit /\ r \in Unit /\ r # v /\ old.info[0] = Info(ERASE, s) /\ old \in UnitImage
      /\ h.nor[r] = Kept /\ Dead(h, s) = DeadIn(old) /\ Live(h, s) = LiveIn(old)
  <2>1. Works(h, s, v, r, old)
    BY WorksOn
  <2> HIDE DEF v, r, old
  <2> QED  BY <2>1 DEF Works
<1>2. d.nor[v] = victim /\ \A u \in Unit : u # v /\ u # r => d.nor[u] = h.nor[u]
  BY DEF HalfReclaimed
<1>3. /\ v = h.ftl.sector_table[s] /\ r = h.ftl.reclaim /\ old = h.nor[v] /\ victim = Marked(old, s)
      /\ k = Put(d, "victim", v, Marked(victim, s), FALSE) /\ d.nor[r] = Kept
  BY <1>2 DEF Marked2
<1> HIDE DEF v, r, old, victim
<1>4. /\ victim \in UnitImage /\ victim.info[0] = Info(VICTIM, s)
      /\ \A i \in Index : victim.info[i] = old.info[i]
  <2>1. old \in UnitImage /\ old.info[0] = Info(ERASE, s) /\ victim = Marked(old, s)
    BY Zenon, <1>1, <1>3
  <2>2. /\ victim \in UnitImage /\ victim.info[0] = Info(VICTIM, s)
        /\ \A i \in Index : victim.info[i] = old.info[i] /\ victim.block[i] = old.block[i]
    BY <2>1, Marks
  <2> QED  BY SMTT(30), <2>2
<1>5. Marked(victim, s) = victim
  <2>1. victim.info[0].type \cap VICTIM = VICTIM
    BY <1>4, InfoFields
  <2>2. victim = [info |-> victim.info, block |-> victim.block] /\ victim.info \in [0..Blocks - 1 -> InfoWord]
    BY <1>4 DEF UnitImage
  <2>3. [victim.info EXCEPT ![0] = Info(VICTIM, s)] = victim.info
    BY <1>4, <2>2
  <2> QED  BY <2>1, <2>2, <2>3 DEF Marked
<1>6. /\ k \in Device /\ k.ftl = d.ftl
      /\ k.nor[v] = victim /\ \A u \in Unit : u # v => k.nor[u] = d.nor[u]
  <2>1. "victim" \in StepName
    BY DEF StepName
  <2>2. k = Put(d, "victim", v, victim, FALSE)
    BY SMTT(30), <1>3, <1>5
  <2>3. v \in Unit /\ victim \in UnitImage
    BY <1>1, <1>4
  <2> HIDE DEF v, victim
  <2>4. ASSUME NEW sticks \in BOOLEAN, k = Put(d, "victim", v, victim, sticks)
        PROVE  /\ k \in Device /\ k.ftl = d.ftl
               /\ k.nor[v] = victim /\ \A u \in Unit : u # v => k.nor[u] = d.nor[u]
    BY <2>1, <2>3, <2>4, PutAny
  <2> QED  BY <2>2, <2>4
<1>7. IsMarked(h, k, s)
  <2>1. \A u \in Unit : u # v => k.nor[u] = h.nor[u]
    BY ZenonT(40), <1>1, <1>2, <1>3, <1>6
  <2>2. k.nor[v] = Marked(h.nor[v], s)
    BY Zenon, <1>3, <1>6
  <2> QED  BY ZenonT(40), <1>3, <1>6, <2>1, <2>2 DEF IsMarked
<1>8. DeadIn(victim) = Dead(h, s) /\ LiveIn(victim) = Live(h, s)
  <2>1. DeadIn(victim) = DeadIn(old)
    BY <1>4 DEF DeadIn
  <2>2. LiveIn(victim) = LiveIn(old)
    BY SMTT(30), <1>4, <2>1 DEF LiveIn
  <2> QED  BY <1>1, <2>1, <2>2
<1>9. Reclaim(d, v) = ReclaimSteps(d, v, s, d.ftl.reclaim, Dead(h, s), Live(h, s))
  <2>1. d.nor[v].info[0].type = VICTIM /\ s = d.nor[v].info[0].of
        /\ Dead(h, s) = DeadIn(d.nor[v]) /\ Live(h, s) = LiveIn(d.nor[v])
    BY <1>2, <1>4, <1>8, InfoFields
  <2> QED  BY ZenonT(40), <2>1, ReclaimIs
<1>10. ReclaimSteps(d, v, s, d.ftl.reclaim, Dead(h, s), Live(h, s)) = Finished(h, k, s)
  <2>1. k = Put(d, "victim", v, Marked(d.nor[v], s), FALSE)
    BY <1>2, <1>3
  <2>2. d.ftl.reclaim = h.ftl.reclaim
    OBVIOUS
  <2>3. (d.nor[v].info[0].type = ERASE) = FALSE
    <3>1. d.nor[v].info[0].type = VICTIM
      BY <1>2, <1>4, InfoFields
    <3>2. VICTIM # ERASE
      BY DEF VICTIM, ERASE
    <3> QED  BY <3>1, <3>2
  <2>4. Put(d, "victim", v, Marked(d.nor[v], s), d.nor[v].info[0].type = ERASE) = k
    BY ZenonT(40), <2>1, <2>3
  <2>5. ReclaimSteps(d, v, s, d.ftl.reclaim, Dead(h, s), Live(h, s))
        = FromMarked(k, v, s, d.ftl.reclaim, Dead(h, s), Live(h, s))
    BY Zenon, <2>4 DEF ReclaimSteps
  <2>6. Finished(h, k, s) = FromMarked(k, v, s, d.ftl.reclaim, Dead(h, s), Live(h, s))
    BY Zenon, <1>3, <2>2 DEF Finished
  <2> QED  BY <2>5, <2>6
<1> QED  BY Zenon, <1>3, <1>6, <1>7, <1>9, <1>10

(* The mount of a flash on which a reclaim was begun: it is the reclaim of   *)
(* what the device was before it.                                          *)
LEMMA MountsReclaimed ==
  ASSUME PowerLostWithin, LostInReclaim, NEW P \in SUBSET Address, NEW g, Good(g), Keeps(g, P),
         NEW s \in Sector, NEW n \in Flash, HalfReclaimed(g, n, s), NEW m, m = Mounted(n)
  PROVE  /\ Good(m) /\ SameData(g, m) /\ Ok(P, m)
         /\ OddHeader(g, n, s, VICTIM)
<1> DEFINE q == Halted(g, n)
           x == CollectSectors(Blanked(g, q))
           h == [nor |-> g.nor, ftl |-> x.ftl, steps |-> << >>]
           d == Kept2(x)
           v == h.ftl.sector_table[s]
           k == Marked2(d, v, s)
           c == Finished(h, k, s)
<1>1. /\ q = Halted(g, n) /\ x = CollectSectors(Blanked(g, q))
      /\ h = [nor |-> g.nor, ftl |-> x.ftl, steps |-> << >>] /\ d = Kept2(x)
      /\ v = h.ftl.sector_table[s] /\ k = Marked2(d, h.ftl.sector_table[s], s)
      /\ c = Finished(h, k, s)
  OBVIOUS
<1> HIDE DEF q, x, h, d, v, k, c
<1>2. /\ q \in Device /\ q.nor = n /\ q.steps = << >>
      /\ OddHeader(g, n, s, VICTIM) /\ Origin(g, q, NotAllocated)
  BY <1>1, ReclaimedWords
<1>3. Learnt(g, q, NotAllocated, x)
  <2> DEFINE b == Blanked(g, q)
  <2>1. b = Blanked(g, q) /\ b.nor = n /\ x = CollectSectors(b)
    BY <1>1, <1>2 DEF Blanked
  <2> HIDE DEF b
  <2>2. OddHeader(g, b.nor, s, VICTIM)
    BY <1>2, <2>1
  <2>3. HeadersTell(g, b, Sector)
    BY <2>2, OddHeaders
  <2>4. Scannable(g)
    BY GoodScannable
  <2> QED  BY <1>2, <2>1, <2>3, <2>4, ScanFinds
<1>4. x \in Device /\ x.nor = n /\ x.steps = << >>
  <2>1. NotAllocated \notin Logical
    BY Logicals
  <2> QED  BY <1>2, <1>3, <2>1 DEF Learnt, FlashOf, SameFlash
<1>5. /\ Good(h) /\ SameData(g, h) /\ v = g.ftl.sector_table[s]
      /\ h.ftl.reclaim = g.ftl.reclaim /\ h.ftl.xlate2_logical = Reserved
  <2>1. /\ Good(h) /\ SameData(g, h) /\ h.ftl.sector_table = g.ftl.sector_table
        /\ h.ftl.reclaim = g.ftl.reclaim /\ h.ftl.xlate2_logical = Reserved
    BY <1>1, <1>2, <1>3, Unreclaimed
  <2> QED  BY <1>1, <2>1
<1>6. h.nor = g.nor /\ h.ftl = x.ftl
  BY <1>1
<1>7. HalfReclaimed(h, x.nor, s)
  BY <1>1, <1>4, <1>5, <1>6 DEF HalfReclaimed
<1>8. /\ d \in Device /\ d.ftl = h.ftl
      /\ HalfReclaimed(h, d.nor, s) /\ d.nor[h.ftl.reclaim] = Kept
  BY <1>1, <1>4, <1>5, <1>6, <1>7, RestartsAt
<1>9. IsMarked(h, k, s) /\ Reclaim(d, v) = c
  BY <1>1, <1>5, <1>8, Remarks
<1>10. Recovered(x) = c
  <2>1. /\ LastOf(UnitsOfType(x, VICTIM)) = v /\ v # NoUnit
        /\ LastOf(UnitsOfType(x, RECLAIM)) = NoUnit /\ LastOf(Unwritten(x)) = NoUnit
    BY <1>2, <1>4, <1>5, OddFound
  <2>2. Recovered(x) = Reclaim(d, v)
    <3>1. Recovered(x) = Reclaim(Kept2(x), v)
      BY <2>1, RecoversVictim
    <3> QED  BY <1>1, <3>1
  <2> QED  BY <1>9, <2>2
<1>11. Reclaimed(h, c, s)
  BY <1>1, <1>5, <1>9, Reclaims
<1>12. Good(c) /\ SameData(h, c)
  BY <1>5, <1>11, ReclaimedKeeps
<1>13. Good(m) /\ SameData(c, m) /\ m.steps = c.steps
  <2>1. g.ftl.reclaim \in Unit /\ UnitsOfType([nor |-> n], RESERVED) = {g.ftl.reclaim}
    <3> DEFINE z == [nor |-> n]
    <3>1. OddHeader(g, z.nor, s, VICTIM)
      BY <1>2
    <3> HIDE DEF z
    <3>2. g.ftl.reclaim \in Unit /\ UnitsOfType(z, RESERVED) = {g.ftl.reclaim}
      BY <3>1, OddHeaders
    <3> QED  BY <3>2 DEF z
  <2>2. c = Recovered(CollectSectors(Blanked(g, q)))
    BY <1>1, <1>10
  <2>3. c \in Device /\ Counted(c, NotAllocated) /\ SameTables(c, c)
    BY SMTT(30), <1>12 DEF Good, SameTables
  <2>4. c.ftl.xlate_logical = Reserved /\ c.ftl.xlate2_logical = Reserved
    BY <1>5, <1>11 DEF Reclaimed, SameCache2
  <2> QED  BY <1>2, <1>12, <2>1, <2>2, <2>3, <2>4, MountsRecovered
<1>14. SameData(g, m)
  BY <1>5, <1>12, <1>13 DEF SameData
<1>16. Ok(P, d)
  <2> DEFINE r == x.ftl.reclaim
             y == PutSurely(x, "erase", r, Blank)
  <2>1. y = PutSurely(x, "erase", r, Blank) /\ d = PutSurely(y, "header", r, Kept)
    BY <1>1 DEF Kept2
  <2> HIDE DEF r, y
  <2>2. Ok(P, x)
    BY <1>4, NothingDone
  <2>3. "erase" \notin Recoverable /\ "header" \notin Recoverable
    BY DEF Recoverable
  <2>4. Ok(P, y)
    BY <2>1, <2>2, <2>3, OkQuietPut DEF PutSurely
  <2> QED  BY <2>1, <2>3, <2>4, OkQuietPut DEF PutSurely
<1>17. Survives(P, d.nor)
  <2>1. Keeps(h, P)
    BY <1>5, KeepsSame
  <2>2. d.nor \in Flash
    BY SMTT(30), <1>8 DEF Device
  <2> QED  BY <1>5, <1>8, <2>1, <2>2, DamagedSurvives
<1>18. Ok(P, k)
  <2>1. Survivable(P, d, "victim")
    BY <1>17 DEF Survivable
  <2> QED  BY <1>1, <1>16, <2>1, OkPut DEF Marked2
<1>19. Ok(P, m)
  <2>1. Keeps(h, P)
    BY <1>5, KeepsSame
  <2>2. Ok(P, c)
    BY <1>1, <1>5, <1>9, <1>18, <2>1, OkFinished
  <2>3. m = [nor |-> m.nor, ftl |-> m.ftl, steps |-> m.steps]
    BY <1>13 DEF Good, Device
  <2> QED  BY <1>13, <2>2, <2>3 DEF Ok
<1> QED  BY <1>2, <1>13, <1>14, <1>19

(* A formatted flash, and the RAM that knows it.                            *)
FormattedFtl == [Unmounted EXCEPT !.sector_table = [s \in Sector |-> s], !.reclaim = Units - 1,
                                  !.alloc_free = Cardinality(Logical)]
FormattedDevice == [nor |-> Formatted, ftl |-> FormattedFtl, steps |-> << >>]

(* A formatted flash ...                                                   *)
LEMMA FormattedFlash ==
  /\ Formatted \in Flash /\ Formatted[Units - 1] = Kept
  /\ \A s \in Sector : /\ Formatted[s].info[0] = Info(ERASE, s)
                       /\ \A i \in Index : /\ Formatted[s].info[i] = BlankInfo
                                           /\ Formatted[s].block[i] = BlankBlock
<1>1. Units - 1 \in Unit /\ Sector \subseteq Unit /\ \A s \in Sector : s # Units - 1
  BY GeometryAssumption DEF Unit, Sector
<1>2. /\ Blank = [info |-> Blank.info, block |-> Blank.block] /\ Blank \in UnitImage
      /\ Blank.info \in [0..Blocks - 1 -> InfoWord] /\ Blank.block \in [Index -> BlockImage]
      /\ \A i \in Index : Blank.info[i] = BlankInfo /\ Blank.block[i] = BlankBlock
  <2>1. Blank.info = [i \in 0..Blocks - 1 |-> BlankInfo] /\ Blank.block = [i \in Index |-> BlankBlock]
    BY DEF Blank
  <2>2. Index \subseteq 0..Blocks - 1
    BY GeometryAssumption DEF Index
  <2>3. Blank = [info |-> Blank.info, block |-> Blank.block]
    BY DEF Blank
  <2>4. \A i \in Index : Blank.info[i] = BlankInfo /\ Blank.block[i] = BlankBlock
    BY <2>1, <2>2
  <2>5. Blank \in UnitImage
    BY KeptImage
  <2>6. Blank.info \in [0..Blocks - 1 -> InfoWord] /\ Blank.block \in [Index -> BlockImage]
    BY <2>5 DEF UnitImage
  <2> QED  BY <2>3, <2>4, <2>5, <2>6
<1> DEFINE Word(u) == IF u = Units - 1 THEN Info(RESERVED, -1) ELSE Info(ERASE, u)
           Image(u) == [info |-> [Blank.info EXCEPT ![0] = Word(u)], block |-> Blank.block]
<1>3. \A u \in Unit : Formatted[u] = Image(u)
  <2> TAKE u \in Unit
  <2>1. Formatted[u] = [Blank EXCEPT !.info[0] = Word(u)]
    BY DEF Formatted
  <2>2. Formatted[u] = [Blank EXCEPT !.info = [Blank.info EXCEPT ![0] = Word(u)]]
    BY <2>1
  <2> HIDE DEF Word
  <2> QED  BY <1>2, <2>2
<1>4. \A u \in Unit : Word(u) \in InfoWord
  <2>1. RESERVED \in SUBSET (0..3) /\ ERASE \in SUBSET (0..3)
    BY Types
  <2>2. -1 \in {-1} \cup 0..Units + Addresses
    OBVIOUS
  <2>3. \A u \in Unit : u \in {-1} \cup 0..Units + Addresses
    BY GeometryAssumption DEF Unit
  <2> QED  BY <2>1, <2>2, <2>3, Images
<1>5. 0 \in 0..Blocks - 1 /\ 0 \notin Index
  BY GeometryAssumption DEF Index
<1>6. ASSUME NEW u \in Unit
      PROVE  /\ Image(u) \in UnitImage /\ Image(u).info[0] = Word(u)
             /\ \A i \in Index : Image(u).info[i] = BlankInfo /\ Image(u).block[i] = BlankBlock
  <2> DEFINE info == [Blank.info EXCEPT ![0] = Word(u)]
  <2>1. Word(u) \in InfoWord
    BY <1>4
  <2> HIDE DEF Word
  <2>2. info \in [0..Blocks - 1 -> InfoWord] /\ info[0] = Word(u)
        /\ \A i \in 0..Blocks - 1 : i # 0 => info[i] = Blank.info[i]
    BY <1>2, <1>5, <2>1
  <2>3. Index \subseteq 0..Blocks - 1
    BY GeometryAssumption DEF Index
  <2>4. \A i \in Index : info[i] = BlankInfo
    BY <1>2, <1>5, <2>2, <2>3
  <2> HIDE DEF info
  <2>5. [info |-> info, block |-> Blank.block] \in UnitImage
    BY <1>2, <2>2 DEF UnitImage
  <2>6. Image(u) = [info |-> info, block |-> Blank.block]
    BY DEF info
  <2> HIDE DEF Image
  <2> QED  BY <1>2, <2>2, <2>4, <2>5, <2>6
<1>7. Formatted \in Flash
  <2>1. \A u \in Unit : Formatted[u] \in UnitImage
    BY <1>3, <1>6
  <2>2. Formatted = [u \in Unit |-> Formatted[u]]
    BY DEF Formatted
  <2> QED  BY <2>1, <2>2 DEF Flash
<1>8. Formatted[Units - 1] = Kept
  <2>1. Formatted[Units - 1] = [Blank EXCEPT !.info[0] = Info(RESERVED, -1)]
    BY <1>1 DEF Formatted
  <2> QED  BY <2>1 DEF Kept
<1> HIDE DEF Image
<1> QED  BY <1>1, <1>3, <1>6, <1>7, <1>8

(* ... is good and empty.                                                  *)
LEMMA FormattedGood ==
  /\ Good(FormattedDevice) /\ FormattedDevice.nor = Formatted /\ FormattedDevice.steps = << >>
  /\ \A a \in Address : Where(FormattedDevice, a) = NotAllocated
<1> DEFINE g == FormattedDevice
<1>1. /\ Units - 1 \in Unit /\ Sector \subseteq Unit /\ Sector \subseteq Nat
      /\ \A s \in Sector : s # Units - 1
  BY GeometryAssumption DEF Unit, Sector
<1>2. g.nor = Formatted /\ g.steps = << >> /\ g.ftl = FormattedFtl
  BY DEF FormattedDevice
<1>3. /\ FormattedFtl \in Ftl
      /\ FormattedFtl.sector_table = [s \in Sector |-> s] /\ FormattedFtl.reclaim = Units - 1
      /\ FormattedFtl.alloc_free = Cardinality(Logical)
      /\ FormattedFtl.score = Unmounted.score
      /\ FormattedFtl.allocated = Unmounted.allocated
      /\ FormattedFtl.block_table = Unmounted.block_table
      /\ FormattedFtl.xlate_table = Unmounted.xlate_table
      /\ FormattedFtl.xlate2_table = Unmounted.xlate2_table
      /\ FormattedFtl.xlate_logical = Reserved /\ FormattedFtl.xlate2_logical = Reserved
      /\ FormattedFtl.alloc_mask = {}
  <2> DEFINE st == [s \in Sector |-> s]
             c == Cardinality(Logical)
             r == Units - 1
  <2>1. st \in [Sector -> Unit \cup {NoUnit}] /\ r \in Unit
    BY <1>1
  <2>2. c \in Int
    BY FiniteLogicals, FS_CardinalityType
  <2>3. FormattedFtl = [Unmounted EXCEPT !.sector_table = st, !.reclaim = r, !.alloc_free = c]
    BY DEF FormattedFtl
  <2> HIDE DEF st, c, r
  <2>4. Unmounted \in Ftl /\ Unmounted.xlate_logical = Reserved /\ Unmounted.xlate2_logical = Reserved
        /\ Unmounted.alloc_mask = {}
    BY UnmountedFtl
  <2>5. /\ FormattedFtl \in Ftl
        /\ FormattedFtl.sector_table = st /\ FormattedFtl.reclaim = r
        /\ FormattedFtl.alloc_free = c
        /\ FormattedFtl.score = Unmounted.score
        /\ FormattedFtl.allocated = Unmounted.allocated
        /\ FormattedFtl.block_table = Unmounted.block_table
        /\ FormattedFtl.xlate_table = Unmounted.xlate_table
        /\ FormattedFtl.xlate2_table = Unmounted.xlate2_table
        /\ FormattedFtl.xlate_logical = Unmounted.xlate_logical
        /\ FormattedFtl.xlate2_logical = Unmounted.xlate2_logical
        /\ FormattedFtl.alloc_mask = Unmounted.alloc_mask
    BY <2>1, <2>2, <2>3, <2>4 DEF Ftl
  <2> QED  BY <2>4, <2>5 DEF st, c, r
<1>4. g \in Device
  <2>1. << >> \in Seq(Step)
    OBVIOUS
  <2> QED  BY <1>3, <2>1, FormattedFlash DEF FormattedDevice, Device
<1> HIDE DEF g
<1>5. \A s \in Sector : g.ftl.sector_table[s] = s
  BY <1>2, <1>3
<1>6. g.ftl.reclaim = Units - 1
  BY <1>2, <1>3
<1>7. Sectors(g)
  <2>1. \A u \in Unit : u = Units - 1 \/ u \in Sector
    BY GeometryAssumption DEF Unit, Sector
  <2> QED  BY <1>1, <1>5, <1>6, <2>1 DEF Sectors
<1>8. Headers(g)
  BY <1>2, <1>5, <1>6, FormattedFlash DEF Headers
<1>9. ASSUME NEW l \in Logical
      PROVE  InfoAt(g, l) = BlankInfo /\ MapAt(g, l) = BlankMap /\ UserAt(g, l) = Nothing
  <2>1. /\ UnitOf(g, l) = g.ftl.sector_table[l[1]] /\ l[2] \in Index
        /\ InfoAt(g, l) = g.nor[UnitOf(g, l)].info[l[2]]
        /\ MapAt(g, l) = g.nor[UnitOf(g, l)].block[l[2]].map
        /\ UserAt(g, l) = g.nor[UnitOf(g, l)].block[l[2]].user
    BY <1>4, <1>7, Seen
  <2>2. l[1] \in Sector
    BY SMTT(30), Logicals
  <2>3. UnitOf(g, l) = l[1]
    BY ZenonT(40), <1>5, <2>1, <2>2
  <2>4. Formatted[l[1]].info[l[2]] = BlankInfo /\ Formatted[l[1]].block[l[2]] = BlankBlock
    BY Zenon, <2>1, <2>2, FormattedFlash
  <2>5. BlankBlock.map = BlankMap /\ BlankBlock.user = Nothing
    BY DEF BlankBlock
  <2> QED  BY <1>2, <2>1, <2>3, <2>4, <2>5
<1>10. ~BlankInfo.written
  BY DEF BlankInfo
<1>11. Blanks(g) /\ \A l \in Logical : Used(g, l)
  BY <1>9, <1>10 DEF Blanks, Used
<1>12. \A seg \in Segments : /\ g.ftl.xlate_table[seg] = NotAllocated
                             /\ g.ftl.xlate2_table[seg] = NotAllocated
  BY <1>2, <1>3, UnmountedFtl
<1>13. \A seg \in Segments : TableEntry(g, seg)
  BY <1>12 DEF TableEntry
<1>14. \A a \in Address : /\ Where(g, a) = NotAllocated
                          /\ ~Direct(a) => /\ Primary(g, a) = NotAllocated
                                           /\ Secondary(g, a) = NotAllocated
  <2> TAKE a \in Address
  <2>1. CASE Direct(a)
    <3>1. g.ftl.block_table[a] = NotAllocated
      BY <1>2, <1>3, <2>1, UnmountedFtl
    <3> QED  BY <2>1, <3>1 DEF Where
  <2>2. CASE ~Direct(a)
    <3>1. Segment(a) \in Segments /\ XlateIndex(a) \in Entry
      BY <2>2, Entered
    <3>2. MapAt(g, NotAllocated) = BlankMap
      BY NotSeen
    <3>3. BlankMap[XlateIndex(a)] = NotAllocated
      BY <3>1, BlankEntries
    <3>4. Primary(g, a) = NotAllocated /\ Secondary(g, a) = NotAllocated
      BY <1>12, <3>1, <3>2, <3>3 DEF Primary, Secondary
    <3> QED  BY <2>2, <3>4 DEF Where
  <2> QED  BY <2>1, <2>2
<1>15. \A a \in Address : AddressEntry(g, a)
  <2> TAKE a \in Address
  <2>1. Direct(a) => g.ftl.block_table[a] = NotAllocated
    BY <1>14 DEF Where
  <2> QED  BY <1>14, <2>1, Logicals DEF AddressEntry, Named
<1>16. Cached(g) /\ Cached2(g)
  BY <1>2, <1>3 DEF Cached, Cached2
<1>17. Counted(g, NotAllocated)
  <2>1. Free(g, NotAllocated) = Logical
    BY <1>9, <1>10, Logicals DEF Free
  <2>2. \A l \in Logical : ~g.ftl.allocated[l[1]]
    BY <1>2, <1>3, Logicals, UnmountedFtl
  <2> QED  BY <1>2, <1>3, <2>1, <2>2 DEF Counted
<1>18. Scored(g)
  <2> SUFFICES ASSUME NEW s \in Sector PROVE g.ftl.score[s] = Cardinality(Dead(g, s))
    BY DEF Scored
  <2>1. \A i \in Index : <<s, i>> \in Logical
    BY DEF Logical
  <2>2. Dead(g, s) = {}
    BY <1>9, <1>10, <2>1 DEF Dead
  <2>3. Cardinality({}) = 0
    BY FS_EmptySet
  <2> QED  BY <1>2, <1>3, <2>2, <2>3, UnmountedFtl
<1>19. Good(g)
  BY <1>4, <1>7, <1>8, <1>11, <1>13, <1>15, <1>16, <1>17, <1>18 DEF Good
<1> QED  BY <1>2, <1>14, <1>19 DEF g
-----------------------------------------------------------------------------
(* The mount of a flash that power was lost on.                            *)

(* Where power may be lost so that all that a mount programs sticks.          *)
SurelySticking == CrashBefore \cap {"promote", "copy", "reclaim"} = {}
Surely(d) == SurelySticking => Sticks(d)

LEMMA SurelyNever == SurelySticking => ~LostInMerge /\ ~LostInReclaim
BY DEF SurelySticking, LostInMerge, LostInReclaim

LEMMA MountsSurvived ==
  ASSUME PowerLostWithin, NEW P \in SUBSET Address, NEW n, Survives(P, n), NEW m, m = Mounted(n)
  PROVE  Good(m) /\ Keeps(m, P) /\ Surely(m) /\ Ok(P, m)
<1>1. PICK g : Good(g) /\ g.steps = << >> /\ Keeps(g, P) /\ Damaged(g, n)
  BY DEF Survives
<1>2. Good(m) /\ SameData(g, m) /\ Surely(m) /\ Ok(P, m)
  <2>1. ASSUME NEW e, Good(m), m.steps = << >> \/ m.steps = << e >>, e.before = n, e.sticks = TRUE
        PROVE  Surely(m) /\ Ok(P, m)
    <3>1. << >> \in Seq({e}) /\ DOMAIN << >> = {}
      OBVIOUS
    <3>2. << e >> \in Seq({e}) /\ \A k \in DOMAIN << e >> : << e >>[k] = e
      OBVIOUS
    <3>3. m.steps \in Seq({e}) /\ \A k \in DOMAIN m.steps : m.steps[k] = e
      BY <2>1, <3>1, <3>2
    <3>4. m = [nor |-> m.nor, ftl |-> m.ftl, steps |-> m.steps]
      BY <2>1 DEF Good, Device
    <3>5. Surely(m)
      BY <2>1, <3>3 DEF Sticks, Surely
    <3>6. Ok(P, m)
      BY <2>1, <3>3, <3>4 DEF Ok, Listing
    <3> QED  BY <3>5, <3>6
  <2> DEFINE e == [step |-> "abandon", before |-> n, sticks |-> TRUE]
  <2>2. e = [step |-> "abandon", before |-> n, sticks |-> TRUE] /\ e.before = n /\ e.sticks = TRUE
    OBVIOUS
  <2> HIDE DEF e
  <2>3. CASE n = g.nor
    <3>1. Good(m) /\ SameData(g, m) /\ m.steps = << >>
      BY <1>1, <2>3, Mounts
    <3> QED  BY <2>1, <2>2, <3>1
  <2>4. CASE n \in Flash /\ \E t \in Logical : HalfDone(g, n, t)
    <3>1. Good(m) /\ SameData(g, m) /\ m.steps = << e >>
      BY <1>1, <2>2, <2>4, MountsHalfDone
    <3> QED  BY <2>1, <2>2, <3>1
  <2>5. CASE LostInMerge /\ n \in Flash /\ \E seg \in Segments : HalfPromoted(g, n, seg)
    BY <1>1, <2>5, MountsPromoted, SurelyNever DEF Surely
  <2>6. CASE LostInReclaim /\ n \in Flash /\ \E s \in Sector : HalfReclaimed(g, n, s)
    BY <1>1, <2>6, MountsReclaimed, SurelyNever DEF Surely
  <2>7. CASE \E s \in Sector : Adopts(n, g, g.ftl.sector_table[s], s)
    <3>1. PICK s \in Sector : Adopts(n, g, g.ftl.sector_table[s], s)
      BY <2>7
    <3>2. Good(m) /\ SameData(g, m) /\ Sticks(m) /\ \A Q : Survives(Q, n) => Ok(Q, m)
      BY <1>1, <3>1, MountsAdopted
    <3> QED  BY <3>2 DEF Surely
  <2> QED  BY <1>1, <2>3, <2>4, <2>5, <2>6, <2>7 DEF Damaged
<1>3. Keeps(m, P)
  BY <1>1, <1>2, KeepsSame
<1> QED  BY <1>2, <1>3

AtMostOne(S) == \E k : S \subseteq {k}
AtMostOneEach(x) ==
  \A type \in {{-1}, VICTIM, RECLAIM, RESERVED} : AtMostOne(UnitsOfType(x, type))

(* ... is not refused: no two units are in a state that only one can be in.  *)
LEMMA SurvivedMountable ==
  ASSUME NEW P, NEW n, Survives(P, n), NEW x, x.nor = n
  PROVE  ~Unmountable(x) /\ n \in Flash
<1>1. PICK g : Good(g) /\ Damaged(g, n)
  BY DEF Survives
<1>2. /\ n \in Flash
      /\ \/ SameHeaders(g.nor, x.nor)
         \/ \E s \in Sector : OddHeader(g, x.nor, s, VICTIM)
         \/ \E s \in Sector : OddHeader(g, x.nor, s, RECLAIM)
  <2>1. CASE n = g.nor
    BY <1>1, <2>1 DEF Good, Device, SameHeaders
  <2>2. CASE n \in Flash /\ \E t \in Logical : HalfDone(g, n, t)
    BY <1>1, <2>2, HalfDoneWords
  <2>3. CASE LostInMerge /\ n \in Flash /\ \E seg \in Segments : HalfPromoted(g, n, seg)
    <3>1. PICK seg \in Segments : HalfPromoted(g, n, seg)
      BY <2>3
    <3> DEFINE m == Mounted(n)
    <3>2. m = Mounted(n)
      OBVIOUS
    <3> HIDE DEF m
    <3>3. SameHeaders(g.nor, n)
      BY <1>1, <2>3, <3>1, <3>2, MountsPromoted
    <3> QED  BY <2>3, <3>3
  <2>4. CASE LostInReclaim /\ n \in Flash /\ \E s \in Sector : HalfReclaimed(g, n, s)
    <3>1. PICK s \in Sector : HalfReclaimed(g, n, s)
      BY <2>4
    <3> DEFINE q == Halted(g, n)
    <3>2. q = Halted(g, n)
      OBVIOUS
    <3> HIDE DEF q
    <3>3. OddHeader(g, n, s, VICTIM)
      BY <1>1, <2>4, <3>1, <3>2, ReclaimedWords
    <3> QED  BY <2>4, <3>3
  <2>5. CASE \E s \in Sector : Adopts(n, g, g.ftl.sector_table[s], s)
    <3>1. PICK s \in Sector : Adopts(n, g, g.ftl.sector_table[s], s)
      BY <2>5
    <3> DEFINE q == Halted(g, n)
    <3>2. q = Halted(g, n)
      OBVIOUS
    <3> HIDE DEF q
    <3>3. n \in Flash /\ OddHeader(g, n, s, RECLAIM)
      BY <1>1, <3>1, <3>2, AdoptsWords
    <3> QED  BY <3>3
  <2> QED  BY <1>1, <2>1, <2>2, <2>3, <2>4, <2>5 DEF Damaged
<1>3. AtMostOneEach(x)
  <2>1. CASE SameHeaders(g.nor, x.nor)
    <3>1. /\ UnitsOfType(x, RESERVED) = {g.ftl.reclaim}
          /\ UnitsOfType(x, VICTIM) = {} /\ UnitsOfType(x, RECLAIM) = {}
          /\ UnitsOfType(x, {-1}) = {}
      BY <1>1, <2>1, GoodHeaders
    <3> QED  BY <3>1 DEF AtMostOneEach, AtMostOne
  <2>2. ASSUME NEW s \in Sector, OddHeader(g, x.nor, s, VICTIM)
        PROVE  AtMostOneEach(x)
    <3>1. /\ UnitsOfType(x, RESERVED) = {g.ftl.reclaim} /\ UnitsOfType(x, {-1}) = {}
          /\ Only(UnitsOfType(x, VICTIM), g.ftl.sector_table[s]) /\ UnitsOfType(x, RECLAIM) = {}
      BY <1>1, <2>2, OddHeaders
    <3> QED  BY <3>1 DEF AtMostOneEach, AtMostOne, Only
  <2>3. ASSUME NEW s \in Sector, OddHeader(g, x.nor, s, RECLAIM)
        PROVE  AtMostOneEach(x)
    <3>1. /\ UnitsOfType(x, RESERVED) = {g.ftl.reclaim} /\ UnitsOfType(x, {-1}) = {}
          /\ Only(UnitsOfType(x, RECLAIM), g.ftl.sector_table[s]) /\ UnitsOfType(x, VICTIM) = {}
      BY <1>1, <2>3, OddHeaders
    <3> QED  BY <3>1 DEF AtMostOneEach, AtMostOne, Only
  <2> QED  BY <1>2, <2>1, <2>2, <2>3
<1>4. ASSUME NEW type \in {{-1}, VICTIM, RECLAIM, RESERVED}
      PROVE  ~(Cardinality(UnitsOfType(x, type)) > 1)
  <2> DEFINE S == UnitsOfType(x, type)
  <2>1. AtMostOne(S)
    BY <1>3 DEF AtMostOneEach
  <2> HIDE DEF S
  <2>2. PICK k : S \subseteq {k}
    BY <2>1 DEF AtMostOne
  <2>3. IsFiniteSet({k}) /\ Cardinality({k}) = 1
    BY FS_Singleton
  <2>4. Cardinality(S) <= 1 /\ Cardinality(S) \in Nat
    BY <2>2, <2>3, FS_Subset, FS_CardinalityType
  <2>5. ~(Cardinality(S) > 1)
    BY <2>4
  <2> QED  BY <2>5 DEF S
<1> QED  BY <1>2, <1>4 DEF Unmountable
-----------------------------------------------------------------------------
(* The invariant.                                                          *)

(* What has aged, as an operation leaves it.                               *)
LaterThan(d, r, a, taken) ==
  /\ Good(r)
  /\ \A b \in Address : Where(r, b) = Where(d, b)
  /\ \A m \in Logical : UserAt(r, m) = Aged(a, taken, UserAt(d, m))

(* What a device is after its contents were renamed.                       *)
LEMMA SettlesLater ==
  ASSUME NEW d, Good(d), NEW a \in Address, NEW taken \in BOOLEAN
  PROVE  LaterThan(d, Later(d, a, taken), a, taken)
<1>1. AgesWell(a, taken)
  BY AgedUser DEF AgesWell
<1> DEFINE r == Later(d, a, taken)
<1>2. r = Later(d, a, taken)
  OBVIOUS
<1> HIDE DEF r
<1>3. LaterThan(d, r, a, taken)
  BY <1>1, <1>2, Settles DEF LaterThan
<1> QED  BY <1>2, <1>3

(* Address a has been written ...                                          *)
LEMMA KeepsWritten ==
  ASSUME NEW d, Good(d), NEW P \in SUBSET Address, Keeps(d, P), d.ftl.alloc_free > 1,
         NEW a \in Address, NEW w, w = WriteBlock(d, a, Pending(a)),
         NEW r, r = Later(w, a, TRUE)
  PROVE  Good(r) /\ Keeps(r, P \cup {a}) /\ (Sticks(w) <=> Sticks(d))
<1> DEFINE yes == TRUE
<1>1. Pending(a) \in User
  BY Users
<1>2. /\ Good(w) /\ Where(w, a) \in Logical /\ UserAt(w, Where(w, a)) = Pending(a)
      /\ \A b \in Address \ {a} :
           /\ Where(w, b) = Where(d, b)
           /\ Where(d, b) \in Logical => UserAt(w, Where(d, b)) = UserAt(d, Where(d, b))
      /\ Sticks(w) <=> Sticks(d)
  BY <1>1, Writes
<1>3. /\ Good(r)
      /\ \A b \in Address : Where(r, b) = Where(w, b)
      /\ \A m \in Logical : UserAt(r, m) = Aged(a, yes, UserAt(w, m))
  <2>1. Good(w) /\ r = Later(w, a, yes) /\ yes \in BOOLEAN
    BY <1>2
  <2> HIDE DEF yes
  <2>2. LaterThan(w, Later(w, a, yes), a, yes)
    BY <2>1, SettlesLater
  <2>3. LaterThan(w, r, a, yes)
    BY <2>1, <2>2
  <2> QED  BY <2>3 DEF LaterThan
<1>4. Keeps(r, P \cup {a})
  <2> SUFFICES ASSUME NEW b \in Address
               PROVE  /\ Where(r, b) \in Logical <=> b \in P \cup {a}
                      /\ b \in P \cup {a} => UserAt(r, Where(r, b)) = Current(b)
    BY DEF Keeps
  <2>1. CASE b = a
    BY <1>2, <1>3, <2>1, AgedUser
  <2>2. CASE b # a
    <3>1. Where(r, b) = Where(d, b) /\ (Where(d, b) \in Logical <=> b \in P)
      BY <1>2, <1>3, <2>2 DEF Keeps
    <3>2. ASSUME b \in P PROVE UserAt(r, Where(r, b)) = Current(b)
      <4>1. Where(d, b) \in Logical /\ UserAt(d, Where(d, b)) = Current(b)
        BY <3>1, <3>2 DEF Keeps
      <4>2. UserAt(w, Where(d, b)) = Current(b)
        BY <1>2, <2>2, <4>1
      <4>3. UserAt(r, Where(d, b)) = Aged(a, yes, Current(b))
        BY <1>3, <4>1, <4>2
      <4> QED  BY <2>2, <3>1, <4>3, AgedUser
    <3> QED  BY <2>2, <3>1, <3>2
  <2> QED  BY <2>1, <2>2
<1> QED  BY <1>2, <1>3, <1>4

(* ... or discarded.                                                       *)
LEMMA KeepsDiscarded ==
  ASSUME NEW d, Good(d), NEW P \in SUBSET Address, Keeps(d, P),
         NEW a \in Address, ~Direct(a), NEW w, w = DiscardBlock(d, a),
         NEW r, r = Later(w, a, TRUE)
  PROVE  Good(r) /\ Keeps(r, P \ {a}) /\ (Sticks(w) <=> Sticks(d))
<1> DEFINE yes == TRUE
<1>1. /\ Good(w) /\ Where(w, a) \in {NotAllocated, Deleted}
      /\ \A b \in Address \ {a} :
           /\ Where(w, b) = Where(d, b)
           /\ Where(d, b) \in Logical => UserAt(w, Where(d, b)) = UserAt(d, Where(d, b))
      /\ Sticks(w) <=> Sticks(d)
  BY Discards DEF Forgotten
<1>2. /\ Good(r)
      /\ \A b \in Address : Where(r, b) = Where(w, b)
      /\ \A m \in Logical : UserAt(r, m) = Aged(a, yes, UserAt(w, m))
  <2>1. Good(w) /\ r = Later(w, a, yes) /\ yes \in BOOLEAN
    BY <1>1
  <2> HIDE DEF yes
  <2>2. LaterThan(w, Later(w, a, yes), a, yes)
    BY <2>1, SettlesLater
  <2>3. LaterThan(w, r, a, yes)
    BY <2>1, <2>2
  <2> QED  BY <2>3 DEF LaterThan
<1>3. Keeps(r, P \ {a})
  <2> SUFFICES ASSUME NEW b \in Address
               PROVE  /\ Where(r, b) \in Logical <=> b \in P \ {a}
                      /\ b \in P \ {a} => UserAt(r, Where(r, b)) = Current(b)
    BY DEF Keeps
  <2>1. CASE b = a
    BY <1>1, <1>2, <2>1, Logicals
  <2>2. CASE b # a
    <3>1. Where(r, b) = Where(d, b) /\ (Where(d, b) \in Logical <=> b \in P)
      BY <1>1, <1>2, <2>2 DEF Keeps
    <3>2. ASSUME b \in P PROVE UserAt(r, Where(r, b)) = Current(b)
      <4>1. Where(d, b) \in Logical /\ UserAt(d, Where(d, b)) = Current(b)
        BY <3>1, <3>2 DEF Keeps
      <4>2. UserAt(w, Where(d, b)) = Current(b)
        BY <1>1, <2>2, <4>1
      <4>3. UserAt(r, Where(d, b)) = Aged(a, yes, Current(b))
        BY <1>2, <4>1, <4>2
      <4> QED  BY <2>2, <3>1, <4>3, AgedUser
    <3> QED  BY <2>2, <3>1, <3>2
  <2> QED  BY <2>1, <2>2
<1> QED  BY <1>1, <1>2, <1>3

(* Whether the write or the discard that power was lost in took place is     *)
(* known after the mount: if it had nothing to change, or did not.          *)
LEMMA KeepsTorn ==
  ASSUME NEW d, Good(d), NEW P \in SUBSET Address, Keeps(d, P), NEW a \in Address,
         NEW taken \in BOOLEAN, taken => a \notin P, NEW r, r = Later(d, a, taken)
  PROVE  Good(r) /\ Keeps(r, P)
<1>1. LaterThan(d, r, a, taken)
  BY SettlesLater
<1>2. /\ Good(r)
      /\ \A b \in Address : Where(r, b) = Where(d, b)
      /\ \A m \in Logical : UserAt(r, m) = Aged(a, taken, UserAt(d, m))
  BY <1>1 DEF LaterThan
<1>3. \A b \in P : Aged(a, taken, Current(b)) = Current(b)
  <2> TAKE b \in P
  <2>1. b # a \/ (b = a /\ taken = FALSE)
    OBVIOUS
  <2>2. Aged(a, FALSE, Current(a)) = Current(a)
    BY Users DEF Aged
  <2> QED  BY <2>1, <2>2, AgedUser
<1> QED  BY <1>2, <1>3 DEF Keeps

(* No address that the block table translates is discarded: the code loses a *)
(* later write to it, as line 2214 takes the DELETED of the table for a       *)
(* block.                                                                  *)
NoDirectDiscard == \A a \in Discarded : ~Direct(a)

(* The write or the discard that power may have been lost in.               *)
Torn == {Idle} \cup {Doing("write", a) : a \in Address} \cup {Doing("discard", a) : a \in Address}

(* No program of the last step met a zero that it would have to set, unless  *)
(* power may be lost where the repair of a mount does.                      *)
Stuck == stuck \in BOOLEAN /\ (SurelySticking => stuck = TRUE)

(* While the device is mounted, the RAM and the flash are good and hold what *)
(* was written; while it is not, a mount will find that.                   *)
IInv ==
  /\ torn \in Torn /\ Stuck /\ present \in SUBSET Address
  /\ \/ /\ op = Idle \/ \E a \in Address : op = Doing("write", a)
        /\ torn = Idle /\ Good(Ram) /\ Keeps(Ram, present)
     \/ /\ op = Doing("off", -1) /\ ftl = Unmounted
        /\ Survives(present, nor)

(* The operations in progress differ.                                      *)
LEMMA Kinds ==
  /\ \A a : Doing("write", a).kind = "write" /\ Doing("write", a).address = a
  /\ \A a : Doing("discard", a).kind = "discard" /\ Doing("discard", a).address = a
  /\ Doing("off", -1).kind = "off" /\ Idle.kind = "none" /\ Idle.address = -1
  /\ \A a : Doing("write", a) # Idle
  /\ Doing("off", -1) # Idle
BY DEF Doing, Idle

LEMMA RamIs ==
  /\ Sticks(Ram) /\ Ram.nor = nor /\ Ram.ftl = ftl
  /\ \A P : Ok(P, Ram)
<1>1. Ram = [nor |-> nor, ftl |-> ftl, steps |-> << >>]
  BY DEF Ram
<1>2. Ram = [nor |-> Ram.nor, ftl |-> Ram.ftl, steps |-> Ram.steps]
      /\ Ram.nor = nor /\ Ram.ftl = ftl /\ Ram.steps = << >>
  BY <1>1
<1>3. Ram.steps \in Seq({}) /\ DOMAIN Ram.steps = {}
  BY <1>2
<1> QED  BY <1>2, <1>3 DEF Sticks, Ok, Listing

(* Power was lost in an operation that was well under way.                  *)
LEMMA CutShortInv ==
  ASSUME present \in SUBSET Address, Stuck, NEW d, Ok(present, d), Surely(d),
         NEW during \in Torn, CutShort(d, during)
  PROVE  IInv' /\ (Sticks(d) => stuck' = TRUE)
<1>1. PICK k \in DOMAIN d.steps :
        /\ d.steps[k].step \in CrashBefore
        /\ nor' = d.steps[k].before
        /\ ftl' = Unmounted
        /\ op' = Doing("off", -1)
        /\ torn' = during
        /\ stuck' = \A j \in 1..k - 1 : d.steps[j].sticks
        /\ present' = present
  BY DEF CutShort
<1>2. Survives(present, d.steps[k].before)
  BY <1>1 DEF Ok
<1>3. Survives(present', nor')
  BY <1>1, <1>2
<1>4. \A j \in 1..k - 1 : j \in DOMAIN d.steps
  <2>1. PICK S : d.steps \in Seq(S)
    BY DEF Ok, Listing
  <2>2. DOMAIN d.steps = 1..Len(d.steps) /\ Len(d.steps) \in Nat
    BY <2>1
  <2> QED  BY <2>2
<1>5. stuck' \in BOOLEAN /\ (Sticks(d) => stuck' = TRUE)
  BY <1>1, <1>4 DEF Sticks, Stuck
<1>6. Stuck'
  BY <1>5 DEF Stuck, Surely, SurelySticking
<1> QED  BY <1>1, <1>3, <1>5, <1>6 DEF IInv

(* An operation that was carried out has left the device good.              *)
LEMMA Performed ==
  ASSUME Stuck, NEW d, Surely(d), NEW image, Perform(d, image)
  PROVE  /\ Stuck' /\ Ram' = [nor |-> image, ftl |-> d.ftl, steps |-> << >>]
         /\ Sticks(d) => stuck' = TRUE
<1>1. /\ nor' = image /\ ftl' = d.ftl
      /\ stuck' = \A k \in DOMAIN d.steps : d.steps[k].sticks
  BY DEF Perform
<1>2. stuck' \in BOOLEAN /\ (Sticks(d) => stuck' = TRUE)
  BY <1>1 DEF Sticks, Stuck
<1>3. Stuck'
  BY <1>2 DEF Stuck, Surely, SurelySticking
<1> QED  BY <1>1, <1>2, <1>3 DEF Ram

(* The invariant holds of a formatted device that was mounted, ...         *)
LEMMA InitInv ==
  ASSUME Init
  PROVE  IInv
<1> DEFINE g == FormattedDevice
           m == Mounted(Formatted)
<1>1. /\ Good(g) /\ g.nor = Formatted /\ g.steps = << >>
      /\ \A a \in Address : Where(g, a) = NotAllocated
  BY FormattedGood
<1>2. m.nor = Formatted /\ m.steps = << >> /\ Good(m) /\ SameData(g, m)
  <2> HIDE DEF g
  <2> QED  BY <1>1, Mounts
<1>3. Keeps(g, {})
  BY <1>1, Logicals DEF Keeps
<1> HIDE DEF g, m
<1>4. Ram = m
  <2>1. nor = Formatted /\ ftl = m.ftl
    BY DEF Init, m
  <2>2. m = [nor |-> m.nor, ftl |-> m.ftl, steps |-> m.steps]
    BY <1>2 DEF Good, Device
  <2> QED  BY <1>2, <2>1, <2>2 DEF Ram
<1>5. Keeps(m, {})
  BY <1>2, <1>3, KeepsSame
<1> QED  BY <1>2, <1>4, <1>5 DEF Init, IInv, Torn, Stuck

(* ... and each action of Next keeps it.                                   *)
LEMMA ReadInv ==
  ASSUME IInv, NEW a \in Address, Read(a)
  PROVE  IInv' /\ stuck' = TRUE
<1> DEFINE r == Loaded(Ram, a)
<1>1. /\ op = Idle /\ ftl' = r.ftl
      /\ nor' = nor /\ op' = op /\ present' = present /\ torn' = torn /\ stuck' = TRUE
  BY DEF Read, Ready
<1>2. Good(Ram) /\ Keeps(Ram, present) /\ present \in SUBSET Address
  BY <1>1, Kinds DEF IInv
<1>3. Good(r) /\ SameFlash(Ram, r) /\ SameData(Ram, r)
  BY <1>2, Finds
<1> HIDE DEF r
<1>4. Ram' = r
  <2>1. r = [nor |-> r.nor, ftl |-> r.ftl, steps |-> r.steps]
    BY <1>3 DEF Good, Device
  <2>2. r.nor = nor /\ r.steps = << >>
    BY <1>3 DEF SameFlash, Ram
  <2> QED  BY <1>1, <2>1, <2>2 DEF Ram
<1>5. Keeps(r, present)
  BY <1>2, <1>3, KeepsSame
<1>6. Good(Ram)' /\ Keeps(Ram, present)'
  BY <1>1, <1>3, <1>4, <1>5
<1>7. torn = Idle /\ Idle \in Torn /\ Stuck /\ present \in SUBSET Address
  BY <1>1, Kinds DEF IInv, Torn
<1>8. Stuck'
  BY <1>1, <1>7 DEF Stuck, SurelySticking
<1> QED  BY <1>1, <1>6, <1>7, <1>8 DEF IInv

LEMMA WriteInv ==
  ASSUME IInv, NEW a \in Address, Write(a)
  PROVE  IInv' /\ stuck' = TRUE
<1>1. /\ op = Idle /\ op' = Doing("write", a)
      /\ nor' = nor /\ ftl' = ftl /\ present' = present /\ torn' = torn /\ stuck' = TRUE
  BY DEF Write, Ready
<1>2. Good(Ram) /\ Keeps(Ram, present)
  BY <1>1, Kinds DEF IInv
<1>3. Ram' = Ram
  BY <1>1 DEF Ram
<1>4. Good(Ram)' /\ Keeps(Ram, present)'
  BY <1>1, <1>2, <1>3
<1>5. torn = Idle /\ Idle \in Torn /\ Stuck /\ present \in SUBSET Address
  BY <1>1, Kinds DEF IInv, Torn
<1>6. Stuck'
  BY <1>1, <1>5 DEF Stuck, SurelySticking
<1> QED  BY <1>1, <1>4, <1>5, <1>6 DEF IInv

LEMMA MakeRoomInv ==
  ASSUME PowerLostWithin, IInv, NEW s \in Sector, MakeRoom(s)
  PROVE  IInv' /\ stuck' = TRUE
<1> DEFINE d == Reclaim(Ram, ftl.sector_table[s])
<1>1. /\ op.kind = "write"
      /\ \/ Perform(d, d.nor) /\ op' = op /\ present' = present /\ torn' = torn
         \/ CutShort(d, Idle)
  BY DEF MakeRoom
<1>2. /\ Good(Ram) /\ Keeps(Ram, present) /\ present \in SUBSET Address /\ Stuck
      /\ torn = Idle
      /\ \E a \in Address : op = Doing("write", a)
  BY <1>1, Kinds DEF IInv
<1>3. /\ Good(d) /\ SameData(Ram, d) /\ (Sticks(d) <=> Sticks(Ram))
      /\ Ok(present, d)
  <2>1. d = Reclaim(Ram, Ram.ftl.sector_table[s])
    BY RamIs
  <2> HIDE DEF d
  <2>2. Ok(present, Ram)
    BY RamIs
  <2>3. Ok(present, d)
    BY <1>2, <2>1, <2>2, OkReclaim
  <2> QED  BY <1>2, <2>1, <2>3, ReclaimKeeps
<1> HIDE DEF d
<1>6. Sticks(d) /\ Surely(d)
  BY <1>3, RamIs DEF Surely
<1>4. CASE Perform(d, d.nor) /\ op' = op /\ present' = present /\ torn' = torn
  <2>1. Stuck' /\ stuck' = TRUE /\ Ram' = [nor |-> d.nor, ftl |-> d.ftl, steps |-> << >>]
    BY <1>2, <1>4, <1>6, RamIs, Performed
  <2>2. Good(Ram') /\ SameData(d, Ram')
    BY <1>3, <2>1, OperationOver
  <2>3. Keeps(Ram', present)
    BY <1>2, <1>3, <2>2, KeepsSame
  <2> QED  BY <1>2, <1>4, <2>1, <2>2, <2>3 DEF IInv, Torn
<1>5. CASE CutShort(d, Idle)
  <2>1. Idle \in Torn
    BY DEF Torn
  <2> QED  BY <1>2, <1>3, <1>5, <1>6, <2>1, CutShortInv
<1> QED  BY <1>1, <1>4, <1>5

LEMMA WriteOneInv ==
  ASSUME PowerLostWithin, IInv, WriteOne
  PROVE  IInv' /\ stuck' = TRUE
<1> DEFINE a == op.address
           d == WriteBlock(Ram, a, Pending(a))
           image == Settled(d.nor, a, TRUE)
<1>1. /\ op.kind = "write" /\ ftl.alloc_free > Spare
      /\ \/ Perform(d, image) /\ op' = Idle /\ present' = present \cup {a} /\ torn' = torn
         \/ CutShort(d, op)
  BY DEF WriteOne
<1>2. /\ Good(Ram) /\ Keeps(Ram, present) /\ present \in SUBSET Address /\ Stuck
      /\ torn = Idle /\ a \in Address /\ op = Doing("write", a)
  BY <1>1, Kinds DEF IInv
<1>3. Ram.ftl.alloc_free > 1
  <2>1. Ram.ftl.alloc_free \in Int
    BY <1>2 DEF Good, Device, Ftl
  <2> QED  BY <1>1, <2>1, RamIs, GeometryAssumption
<1> DEFINE r == Later(d, a, TRUE)
<1>4. /\ Good(r) /\ Keeps(r, present \cup {a}) /\ (Sticks(d) <=> Sticks(Ram))
      /\ Ok(present, d)
  <2>1. d = WriteBlock(Ram, a, Pending(a)) /\ r = Later(d, a, TRUE)
    OBVIOUS
  <2> HIDE DEF d, r, a
  <2>2. Ok(present, Ram) /\ Pending(a) \in User
    BY <1>2, RamIs, Users
  <2>3. Ok(present, d)
    BY <1>2, <1>3, <2>1, <2>2, OkWriteBlock
  <2> QED  BY <1>2, <1>3, <2>1, <2>3, KeepsWritten
<1>5. r = [nor |-> image, ftl |-> d.ftl, steps |-> << >>]
  BY DEF Later
<1> HIDE DEF r, image, d, a
<1>8. Sticks(d) /\ Surely(d)
  BY <1>4, RamIs DEF Surely
<1>6. CASE Perform(d, image) /\ op' = Idle /\ present' = present \cup {a} /\ torn' = torn
  <2>1. Stuck' /\ stuck' = TRUE /\ Ram' = r
    BY <1>2, <1>5, <1>6, <1>8, RamIs, Performed
  <2>2. present' \in SUBSET Address
    BY <1>2, <1>6
  <2>3. Good(Ram)' /\ Keeps(Ram, present)'
    BY <1>4, <1>6, <2>1
  <2> QED  BY <1>2, <1>6, <2>1, <2>2, <2>3 DEF IInv, Torn
<1>7. CASE CutShort(d, op)
  <2>1. op \in Torn
    BY <1>2 DEF Torn
  <2> QED  BY <1>2, <1>4, <1>7, <1>8, <2>1, CutShortInv
<1> QED  BY <1>1, <1>6, <1>7

LEMMA DiscardInv ==
  ASSUME PowerLostWithin, NoDirectDiscard, IInv, NEW a \in Discarded, Discard(a)
  PROVE  IInv' /\ stuck' = TRUE
<1> DEFINE d == DiscardBlock(Ram, a)
           image == Settled(d.nor, a, TRUE)
<1>1. /\ op = Idle
      /\ \/ Perform(d, image) /\ op' = op /\ present' = present \ {a} /\ torn' = torn
         \/ CutShort(d, Doing("discard", a))
  BY DEF Discard, Ready
<1>2. /\ Good(Ram) /\ Keeps(Ram, present) /\ present \in SUBSET Address /\ Stuck
      /\ torn = Idle /\ a \in Address /\ ~Direct(a)
  BY <1>1, Kinds, GeometryAssumption DEF IInv, NoDirectDiscard, Address
<1> DEFINE r == Later(d, a, TRUE)
<1>3. /\ Good(r) /\ Keeps(r, present \ {a}) /\ (Sticks(d) <=> Sticks(Ram))
      /\ Ok(present, d)
  <2>1. d = DiscardBlock(Ram, a) /\ r = Later(d, a, TRUE)
    OBVIOUS
  <2> HIDE DEF d, r
  <2>2. Ok(present, Ram)
    BY RamIs
  <2>3. Ok(present, d)
    BY <1>2, <2>1, <2>2, OkDiscardBlock
  <2> QED  BY <1>2, <2>1, <2>3, KeepsDiscarded
<1>4. r = [nor |-> image, ftl |-> d.ftl, steps |-> << >>]
  BY DEF Later
<1> HIDE DEF r, image, d
<1>7. Sticks(d) /\ Surely(d)
  BY <1>3, RamIs DEF Surely
<1>5. CASE Perform(d, image) /\ op' = op /\ present' = present \ {a} /\ torn' = torn
  <2>1. Stuck' /\ stuck' = TRUE /\ Ram' = r
    BY <1>2, <1>4, <1>5, <1>7, RamIs, Performed
  <2>2. present' \in SUBSET Address
    BY <1>2, <1>5
  <2>3. Good(Ram)' /\ Keeps(Ram, present)'
    BY <1>3, <1>5, <2>1
  <2> QED  BY <1>1, <1>2, <1>5, <2>1, <2>2, <2>3 DEF IInv, Torn
<1>6. CASE CutShort(d, Doing("discard", a))
  <2>1. Doing("discard", a) \in Torn
    BY <1>2 DEF Torn
  <2> QED  BY <1>2, <1>3, <1>6, <1>7, <2>1, CutShortInv
<1> QED  BY <1>1, <1>5, <1>6

LEMMA PowerOffInv ==
  ASSUME IInv, PowerOff
  PROVE  IInv' /\ stuck' = TRUE
<1>1. /\ op = Idle /\ op' = Doing("off", -1) /\ ftl' = Unmounted
      /\ nor' = nor /\ present' = present /\ torn' = torn /\ stuck' = TRUE
  BY DEF PowerOff, Ready
<1>2. Good(Ram) /\ Keeps(Ram, present) /\ present \in SUBSET Address
  BY <1>1, Kinds DEF IInv
<1>3. Survives(present, nor)
  BY <1>2, RamIs, GoodSurvives
<1>4. Survives(present', nor')
  BY <1>1, <1>3
<1>5. Stuck'
  BY <1>1 DEF IInv, Stuck, SurelySticking
<1> QED  BY <1>1, <1>4, <1>5 DEF IInv

(* A read after the mount does not find what the write that power was lost   *)
(* in would have written.                                                  *)
LEMMA NotPending ==
  ASSUME NEW d, Good(d), NEW P \in SUBSET Address, Keeps(d, P), NEW a \in Address
  PROVE  /\ ReadOf(d, a) # Pending(a)
         /\ ReadOf(d, a) = Nothing => a \notin P
<1>1. Lookup(d, a) = Where(d, a) /\ Where(d, a) \in Named
  BY Finds, TablesHold
<1>2. CASE a \in P
  <2>1. Where(d, a) \in Logical /\ UserAt(d, Where(d, a)) = Current(a)
    BY <1>2 DEF Keeps
  <2>2. ReadOf(d, a) = Current(a)
    BY <1>1, <2>1, Logicals DEF ReadOf
  <2> QED  BY <2>2, Users
<1>3. CASE a \notin P
  <2>1. Where(d, a) \in {NotAllocated, Deleted}
    BY <1>1, <1>3 DEF Keeps, Named
  <2>2. ReadOf(d, a) = Nothing
    BY <1>1, <2>1 DEF ReadOf
  <2> QED  BY <1>3, <2>2, Users
<1> QED  BY <1>2, <1>3

(* What a mount makes of the operation that power was lost in.              *)
Discovered(d) == torn.kind = "discard" /\ ReadOf(d, torn.address) = Nothing
LEMMA MountIs ==
  ASSUME Mount, NEW d, d = Mounted(nor),
         torn.kind = "write" => ReadOf(d, torn.address) # Pending(torn.address)
  PROVE  \/ /\ Perform(d, Settled(d.nor, torn.address, Discovered(d)))
            /\ op' = Idle /\ torn' = Idle
            /\ present' = IF Discovered(d) THEN present \ {torn.address} ELSE present
         \/ CutShort(d, torn)
<1> DEFINE written == torn.kind = "write" /\ ReadOf(d, torn.address) = Pending(torn.address)
<1>1. \/ /\ Perform(d, Settled(d.nor, torn.address, written \/ Discovered(d)))
         /\ op' = Idle /\ torn' = Idle
         /\ present' = (present \cup (IF written THEN {torn.address} ELSE {}))
                       \ (IF Discovered(d) THEN {torn.address} ELSE {})
      \/ CutShort(d, torn)
  BY DEF Mount, Discovered
<1>2. written = FALSE
  OBVIOUS
<1>3. Discovered(d) \in BOOLEAN
  BY DEF Discovered
<1>4. (written \/ Discovered(d)) = Discovered(d)
  BY <1>2, <1>3
<1>5. (present \cup (IF written THEN {torn.address} ELSE {}))
                       \ (IF Discovered(d) THEN {torn.address} ELSE {})
        = IF Discovered(d) THEN present \ {torn.address} ELSE present
  BY <1>2
<1> HIDE DEF written
<1> QED  BY <1>1, <1>4, <1>5

LEMMA MountInv ==
  ASSUME PowerLostWithin, IInv, Mount
  PROVE  IInv'
<1> DEFINE d == Mounted(nor)
<1>1. /\ op.kind = "off" /\ torn \in Torn /\ Stuck /\ present \in SUBSET Address
  BY DEF Mount, IInv
<1>2. Survives(present, nor)
  BY <1>1, Kinds DEF IInv
<1>3. Good(d) /\ Keeps(d, present) /\ Surely(d) /\ Ok(present, d)
  <2>1. d = Mounted(nor)
    OBVIOUS
  <2> HIDE DEF d
  <2> QED  BY <1>1, <1>2, <2>1, MountsSurvived
<1> DEFINE a == torn.address
           taken == Discovered(d)
<1>4. torn = Idle \/ (a \in Address /\ torn.kind \in {"write", "discard"})
  BY <1>1, Kinds DEF Torn
<1>5. torn.kind = "write" => ReadOf(d, a) # Pending(a)
  <2> HIDE DEF d
  <2> QED  BY <1>1, <1>3, <1>4, Kinds, NotPending
<1>6. \/ /\ Perform(d, Settled(d.nor, a, taken))
         /\ op' = Idle /\ torn' = Idle
         /\ present' = IF taken THEN present \ {a} ELSE present
      \/ CutShort(d, torn)
  <2>1. d = Mounted(nor)
    OBVIOUS
  <2> HIDE DEF d
  <2> QED  BY <1>5, <2>1, MountIs
<1> HIDE DEF d
<1>7. taken \in BOOLEAN /\ (taken => a \in Address /\ a \notin present)
  BY <1>1, <1>3, <1>4, Kinds, NotPending DEF Discovered
<1> HIDE DEF taken
<1>8. CASE CutShort(d, torn)
  BY <1>1, <1>3, <1>8, CutShortInv
<1>9. ASSUME Perform(d, Settled(d.nor, a, taken)), op' = Idle, torn' = Idle,
             present' = IF taken THEN present \ {a} ELSE present
      PROVE  IInv'
  <2>1. present' = present
    BY <1>7, <1>9
  <2>2. Stuck' /\ Ram' = [nor |-> Settled(d.nor, a, taken), ftl |-> d.ftl, steps |-> << >>]
    BY <1>1, <1>3, <1>9, Performed
  <2>3. Ram' = Later(d, a, taken)
    BY <2>2 DEF Later
  <2>4. Good(Ram') /\ Keeps(Ram', present)
    <3>1. CASE torn = Idle
      <4>1. a = -1 /\ taken = FALSE
        BY <1>7, <3>1, Kinds DEF Address
      <4>2. Settled(d.nor, a, taken) = d.nor
        BY <1>3, <4>1, SettledNone DEF Good, Device
      <4>3. Ram' = [nor |-> d.nor, ftl |-> d.ftl, steps |-> << >>]
        BY <2>2, <4>2
      <4>4. Good(Ram') /\ SameData(d, Ram')
        BY <1>3, <4>3, OperationOver
      <4> QED  BY <1>1, <1>3, <4>4, KeepsSame
    <3>2. CASE a \in Address
      <4> HIDE DEF a
      <4> QED  BY <1>1, <1>3, <1>7, <2>3, <3>2, KeepsTorn
    <3> QED  BY <1>4, <3>1, <3>2
  <2>5. Good(Ram)' /\ Keeps(Ram, present)'
    BY <2>1, <2>4
  <2> QED  BY <1>1, <1>9, <2>1, <2>2, <2>5 DEF IInv, Torn
<1> QED  BY <1>6, <1>8, <1>9

LEMMA StepInv ==
  ASSUME PowerLostWithin, NoDirectDiscard, IInv, [Next]_vars
  PROVE  IInv' /\ (Next /\ ~Mount => stuck' = TRUE)
<1>1. CASE Next
  <2>1. CASE \E a \in Address : Read(a) \/ Write(a)
    BY <2>1, ReadInv, WriteInv
  <2>2. CASE \E a \in Discarded : Discard(a)
    BY <2>2, DiscardInv
  <2>3. CASE \E s \in Sector : MakeRoom(s)
    BY <2>3, MakeRoomInv
  <2>4. CASE WriteOne
    BY <2>4, WriteOneInv
  <2>5. CASE PowerOff
    BY <2>5, PowerOffInv
  <2>6. CASE Mount
    BY <2>6, MountInv
  <2> QED  BY <1>1, <2>1, <2>2, <2>3, <2>4, <2>5, <2>6 DEF Next
<1>2. CASE UNCHANGED vars /\ ~Next
  <2>1. /\ nor' = nor /\ ftl' = ftl /\ op' = op
        /\ present' = present /\ torn' = torn /\ stuck' = stuck
    BY <1>2 DEF vars
  <2>2. Ram' = Ram
    BY <2>1 DEF Ram
  <2>3. IInv'
    BY <2>1, <2>2 DEF IInv, Stuck, SurelySticking
  <2> QED  BY <1>2, <2>3
<1> QED  BY <1>1, <1>2

(* The flash and the tables of dosfs_sflash.c stay good, and hold what was   *)
(* written, through every operation and every mount.                       *)
THEOREM Invariance ==
  ASSUME PowerLostWithin, NoDirectDiscard
  PROVE  Spec => []IInv
<1>1. IInv /\ [Next]_vars => IInv'
  BY StepInv
<1> QED  BY InitInv, <1>1, PTL DEF Spec

(* A good device is mounted, or would be.                                  *)
LEMMA MountedGood ==
  ASSUME IInv, op.kind # "off"
  PROVE  Good(Ram) /\ Keeps(Ram, present) /\ Ram.nor = nor /\ Ram.ftl = ftl
BY Kinds, RamIs DEF IInv

(* The tables in RAM hold units, logical blocks and counts that fit their   *)
(* fields: alloc_free never underflows and a score never overflows.         *)
THEOREM TypeCorrect ==
  ASSUME PowerLostWithin, NoDirectDiscard
  PROVE  Spec => []TypeOK
<1>1. IInv => TypeOK
  <2> SUFFICES ASSUME IInv PROVE TypeOK
    OBVIOUS
  <2>1. nor \in Flash
    <3>1. CASE op.kind # "off"
      BY <3>1, MountedGood DEF Good, Device
    <3>2. CASE op.kind = "off"
      <4>1. Survives(present, nor) /\ Ram.nor = nor
        BY <3>2, Kinds, RamIs DEF IInv
      <4> QED  BY <4>1, SurvivedMountable
    <3> QED  BY <3>1, <3>2
  <2>2. \A u \in Unit :
          /\ nor[u].info \in [0..Blocks - 1 -> InfoWord]
          /\ \A i \in Index : /\ nor[u].block[i].user \in User
                              /\ nor[u].block[i].map \in [Entry -> Content]
    <3> TAKE u \in Unit
    <3>1. nor[u] \in UnitImage
      BY <2>1 DEF Flash
    <3>2. /\ nor[u].info \in [0..Blocks - 1 -> InfoWord]
          /\ \A i \in Index : nor[u].block[i] \in BlockImage
      BY <3>1 DEF UnitImage
    <3> QED  BY <3>2 DEF BlockImage
  <2>3. /\ ftl \in Ftl /\ ftl.alloc_free \in 0..(Units - 1) * (Blocks - 1)
        /\ \A s \in Sector : ftl.score[s] \in 0..Blocks - 1
        /\ ftl.xlate_cache \in [Entry -> Content] /\ ftl.xlate2_cache \in [Entry -> Content]
    <3>1. (Units - 1) * (Blocks - 1) \in Nat
      <4>1. Units - 1 \in Nat /\ Blocks - 1 \in Nat
        BY GeometryAssumption
      <4> QED  BY <4>1
    <3>2. CASE op.kind = "off"
      <4>1. ftl = Unmounted
        BY <3>2, Kinds DEF IInv
      <4>2. ftl \in Ftl /\ ftl.alloc_free = 0 /\ \A s \in Sector : ftl.score[s] = 0
        BY <4>1, UnmountedFtl
      <4> QED  BY <3>1, <4>2, GeometryAssumption DEF Ftl
    <3>3. CASE op.kind # "off"
      <4> DEFINE g == Ram
      <4>1. ftl \in Ftl /\ Counted(g, NotAllocated) /\ Scored(g) /\ g.ftl = ftl
        BY <3>3, MountedGood DEF Good, Device
      <4> HIDE DEF g
      <4>2. ftl.alloc_free = Cardinality(Free(g, NotAllocated))
        BY <4>1 DEF Counted
      <4> DEFINE N == (Units - 1) * (Blocks - 1)
      <4>3. ftl.alloc_free \in Nat /\ ftl.alloc_free <= N
        BY <4>2, FreeFinite
      <4>4. ftl.alloc_free \in 0..N
        <5>1. N \in Nat
          BY <3>1
        <5> HIDE DEF N
        <5> QED  BY <4>3, <5>1
      <4>5. ASSUME NEW s \in Sector PROVE ftl.score[s] \in 0..Blocks - 1
        <5>1. Dead(g, s) \subseteq Index
          BY DEF Dead
        <5>2. Cardinality(Dead(g, s)) \in Nat /\ Cardinality(Dead(g, s)) <= Blocks - 1
          BY <5>1, FiniteLogicals, FS_Subset, FS_CardinalityType
        <5> QED  BY <4>1, <5>2, GeometryAssumption DEF Scored
      <4> QED  BY <4>1, <4>4, <4>5 DEF Ftl
    <3> QED  BY <3>2, <3>3
  <2>4. /\ ftl.sector_table \in [Sector -> Unit \cup {NoUnit}]
        /\ \A a \in DOMAIN ftl.block_table : ftl.block_table[a] \in Content
        /\ \A seg \in Segments : /\ ftl.xlate_table[seg] \in Content
                                 /\ ftl.xlate2_table[seg] \in Content
        /\ ftl.alloc_sector \in Sector /\ ftl.alloc_mask \subseteq Index
        /\ ftl.score \in [Sector -> Nat]
        /\ ftl.allocated \in [Sector -> BOOLEAN] /\ ftl.reclaim \in Unit \cup {NoUnit}
    BY <2>3 DEF Ftl
  <2>5. ftl.score \in [Sector -> 0..Blocks - 1]
    BY <2>3, <2>4
  <2>6. op \in [kind : {"none", "write", "off"}, address : {-1} \cup Address]
    BY DEF IInv, Doing, Idle
  <2>7. torn \in [kind : {"none", "write", "discard"}, address : {-1} \cup Address]
    BY DEF IInv, Torn, Doing, Idle
  <2>8. present \subseteq Address
    BY DEF IInv
  <2> QED  BY <2>2, <2>3, <2>4, <2>5, <2>6, <2>7, <2>8 DEF TypeOK
<1> QED  BY Invariance, <1>1, PTL

(* A read finds what was last written to the address, or nothing if it was  *)
(* discarded since: the comparison with sflash_data_shadow in               *)
(* dosfs_sflash_ftl_read, through the caches that the lookup uses.          *)
THEOREM ReadsWhatWasWritten ==
  ASSUME PowerLostWithin, NoDirectDiscard
  PROVE  Spec => []ReadsBack
<1>1. IInv => ReadsBack
  <2> SUFFICES ASSUME IInv, Ready, NEW a \in Address PROVE ReadOf(Ram, a) = Expected(a)
    BY DEF ReadsBack
  <2>1. Good(Ram) /\ Keeps(Ram, present)
    BY MountedGood, Kinds DEF Ready
  <2>2. Lookup(Ram, a) = Where(Ram, a)
    BY <2>1, Finds
  <2>3. Where(Ram, a) \in Named
    BY <2>1, TablesHold
  <2>4. /\ Where(Ram, a) \in Logical <=> a \in present
        /\ a \in present => UserAt(Ram, Where(Ram, a)) = Current(a)
    BY <2>1 DEF Keeps
  <2>5. CASE a \in present
    BY <2>2, <2>4, <2>5, Logicals DEF ReadOf, Expected
  <2>6. CASE a \notin present
    BY <2>2, <2>3, <2>4, <2>6 DEF ReadOf, Expected, Named
  <2> QED  BY <2>5, <2>6
<1> QED  BY Invariance, <1>1, PTL

(* The scores and the count of free blocks are those of the flash: the      *)
(* assertion of dosfs_sflash_ftl_reclaim on the victim.                     *)
THEOREM ScoresAndRoomCounted ==
  ASSUME PowerLostWithin, NoDirectDiscard
  PROVE  Spec => []Accounting
<1>1. IInv => Accounting
  <2> SUFFICES ASSUME IInv, op.kind # "off"
               PROVE  /\ \A s \in Sector : ftl.score[s] = Cardinality(Holding(s, DELETED))
                      /\ ftl.alloc_free = Cardinality({l \in Logical : ~InfoAt(Ram, l).written})
    BY DEF Accounting
  <2>1. Scored(Ram) /\ Counted(Ram, NotAllocated) /\ Ram.ftl = ftl
    BY MountedGood DEF Good
  <2>2. \A s \in Sector : Holding(s, DELETED) = Dead(Ram, s)
    BY DEF Holding, Dead
  <2>3. Free(Ram, NotAllocated) = {l \in Logical : ~InfoAt(Ram, l).written}
    BY Logicals DEF Free
  <2> QED  BY <2>1, <2>2, <2>3 DEF Scored, Counted
<1> QED  BY Invariance, <1>1, PTL

(* Every free block that alloc_free counts is one that the loop of          *)
(* dosfs_sflash_ftl_allocate finds, so that the loop ends.                  *)
THEOREM FreeBlocksAreFound ==
  ASSUME PowerLostWithin, NoDirectDiscard
  PROVE  Spec => []RoomIsReal
<1> DEFINE Filling(l) == l[1] = ftl.alloc_sector /\ ftl.alloc_mask # {}
           Findable == {l \in Logical :
                          /\ ~InfoAt(Ram, l).written
                          /\ IF Filling(l) THEN l[2] \in ftl.alloc_mask
                                           ELSE ~ftl.allocated[l[1]]}
<1>1. IInv => RoomIsReal
  <2> SUFFICES ASSUME IInv, op.kind # "off" PROVE ftl.alloc_free <= Cardinality(Findable)
    BY DEF RoomIsReal
  <2>1. Counted(Ram, NotAllocated) /\ Ram.ftl = ftl
    BY MountedGood DEF Good
  <2> DEFINE F == Free(Ram, NotAllocated)
  <2>2. F = {l \in Logical : ~InfoAt(Ram, l).written}
    BY Logicals DEF Free
  <2>3. ASSUME NEW l \in F
        PROVE  IF Filling(l) THEN l[2] \in ftl.alloc_mask ELSE ~ftl.allocated[l[1]]
    <3>1. ~ftl.allocated[l[1]]
      BY <2>1 DEF Counted
    <3>2. CASE Filling(l)
      <4>1. ftl.alloc_mask = {i \in Index : <<ftl.alloc_sector, i>> \in F}
        BY <2>1, <3>2 DEF Counted
      <4>2. l = <<l[1], l[2]>> /\ l[2] \in Index
        BY <2>2, Logicals
      <4> HIDE DEF F
      <4> QED  BY <3>2, <4>1, <4>2
    <3> QED  BY <3>1, <3>2
  <2>4. Findable = F
    BY <2>2, <2>3
  <2>5. ftl.alloc_free = Cardinality(F) /\ Cardinality(F) \in Nat
    BY <2>1, FreeFinite DEF Counted
  <2> HIDE DEF F, Findable
  <2> QED  BY <2>4, <2>5
<1> QED  BY Invariance, <1>1, PTL

(* What is written is what the flash then holds, the assertion of            *)
(* dosfs_sflash_nor_write: of every program of every write, reclaim and        *)
(* discard, to its end or until power is lost in it, whatever a mount before  *)
(* it had to repair.                                                       *)
THEOREM OperationsSetNoBit ==
  ASSUME PowerLostWithin, NoDirectDiscard
  PROVE  Spec => [][~Mount => stuck']_vars
<1>1. IInv /\ [Next]_vars => [~Mount => stuck']_vars
  BY StepInv
<1> QED  BY Invariance, <1>1, PTL DEF Spec

(* ... and of every program of a mount as well, if power is not lost before   *)
(* the promotion of a merged block, or between the mark of the victim of a   *)
(* reclaim and the end of the copy.  There the repair sets bits 16 to 18 of   *)
(* a segment (line 1900), or writes an erase count over another (line 953),  *)
(* and the assertion fails.                                                *)
THEOREM NoBitIsSet ==
  ASSUME PowerLostWithin, NoDirectDiscard, SurelySticking
  PROVE  Spec => []ProgramsStick
<1>1. IInv => ProgramsStick
  BY DEF IInv, ProgramsStick, Stuck
<1> QED  BY Invariance, <1>1, PTL

(* No block is lost and none is in use twice: what dosfs_sflash_ftl_check    *)
(* walks through.                                                          *)
THEOREM HeadersAndMapsAgree ==
  ASSUME PowerLostWithin, NoDirectDiscard
  PROVE  Spec => []MapsAgree
<1>1. IInv => MapsAgree
  <2> SUFFICES ASSUME IInv, Ready PROVE MapsAgree
    BY DEF MapsAgree
  <2>1. Good(Ram) /\ Ram.ftl = ftl /\ Ram.nor = nor
    BY MountedGood, Kinds DEF Ready
  <2>2. \A a \in Address : Lookup(Ram, a) = Where(Ram, a)
    BY <2>1, Finds
  <2>3. ASSUME NEW u \in Unit
        PROVE  \/ HeaderType(Ram, u) = RESERVED /\ ftl.reclaim = u
               \/ /\ HeaderType(Ram, u) = ERASE
                  /\ ftl.sector_table[nor[u].info[0].of] = u
    <3>0. SameHeaders(Ram.nor, Ram.nor)
      BY DEF SameHeaders
    <3>1. CASE u = ftl.reclaim
      BY <2>1, <3>0, <3>1, HeaderTypes
    <3>2. CASE u # ftl.reclaim
      <4>1. PICK s \in Sector : u = ftl.sector_table[s]
        BY <2>1, <3>2 DEF Good, Sectors
      <4>2. nor[u].info[0] = Info(ERASE, s)
        BY <2>1, <4>1 DEF Good, Headers
      <4>3. nor[u].info[0].of = s
        BY <4>2, InfoFields
      <4>4. HeaderType(Ram, u) = ERASE
        BY <2>1, <3>0, <3>2, HeaderTypes
      <4> QED  BY <4>1, <4>3, <4>4
    <3> QED  BY <3>1, <3>2
  <2>4. \A l \in Logical : Used(Ram, l)
    BY <2>1 DEF Good
  <2>5. \A a \in Address :
          Lookup(Ram, a) \notin {NotAllocated, Deleted}
            => InfoAt(Ram, Lookup(Ram, a)) = Info(DATA_COMMITTED, a)
    <3> TAKE a \in Address
    <3>1. Where(Ram, a) \in Named /\ AddressEntry(Ram, a)
      BY <2>1, TablesHold DEF Good
    <3> QED  BY <2>2, <3>1 DEF AddressEntry, Named
  <2>6. \A l \in Logical :
          LET word == InfoAt(Ram, l) IN
          \/ ~word.written
          \/ word.type = DELETED
          \/ word.type = XLATE /\ ftl.xlate_table[word.of] = l
          \/ word.type = XLATE_SECONDARY /\ ftl.xlate2_table[word.of] = l
          \/ word.type = DATA_COMMITTED /\ Lookup(Ram, word.of) = l
    BY <2>1, <2>2, <2>4 DEF Used
  <2> QED  BY <2>3, <2>5, <2>6 DEF MapsAgree
<1> QED  BY Invariance, <1>1, PTL

(* Power lost between operations, or in one before a step of Recoverable,    *)
(* leaves a flash that the mount accepts: dosfs_sflash_init does not format   *)
(* it.                                                                     *)
THEOREM NeverFormatted ==
  ASSUME PowerLostWithin, NoDirectDiscard
  PROVE  Spec => []Mountable
<1>1. IInv => Mountable
  <2> SUFFICES ASSUME IInv, op.kind = "off" PROVE ~Unmountable(Ram)
    BY DEF Mountable
  <2>1. Survives(present, nor) /\ Ram.nor = nor
    BY Kinds, RamIs DEF IInv
  <2> QED  BY <2>1, SurvivedMountable
<1> QED  BY Invariance, <1>1, PTL
=============================================================================
