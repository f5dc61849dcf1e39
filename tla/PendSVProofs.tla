---------------------------- MODULE PendSVProofs ----------------------------
(***************************************************************************)
(* Proofs about PendSV: for every number of handlers, every assignment of   *)
(* priorities, every ring size and every number of calls.                  *)
(***************************************************************************)
EXTENDS PendSV, SequenceTheorems, TLAPS

(* PendSV has the lowest priority, so while it executes, or is taken, no    *)
(* handler is active.  (armv7m_pendsv.c:114)                               *)
LEMMA PendSVRunsAlone ==
  ASSUME Runs(PendSV) \/ CanEnter(PendSV)
  PROVE  \A i \in Isr : pc[i] = "idle"
<1> SUFFICES ASSUME NEW i \in Isr, pc[i] # "idle"
             PROVE  FALSE
  OBVIOUS
<1>1. i \in Active /\ i # PendSV
  BY IsrAssumption DEF Active
<1>2. Priority(i) \in 0..LowestPriority /\ Priority(PendSV) = LowestPriority
  BY <1>1, PriorityAssumption DEF Priority, PendSVPriority
<1>3. LowestPriority < Priority(i)
  BY <1>1, <1>2 DEF Runs, CanEnter
<1> QED
  BY <1>2, <1>3, PriorityAssumption

(* The slot after a slot (armv7m_pendsv.c:57-61) is a slot, and another one. *)
LEMMA SuccInSlot == \A p \in Slot : Succ(p) \in Slot /\ Succ(p) # p
  BY EntryCountAssumption DEF Slot, Succ

(* armv7m_pendsv_initialize() establishes the inductive invariant.          *)
LEMMA InitInv == Init => IInv
<1> SUFFICES ASSUME Init PROVE IInv
  OBVIOUS
<1> USE DEF Init
<1>1. TypeOK
  <2>1. 0 \in Slot
    BY EntryCountAssumption DEF Slot
  <2>2. issued \in 0..MaxTicket
    BY MaxTicketAssumption
  <2>3. pendsv_data \in [Slot -> Ticket \cup {None}]
    OBVIOUS
  <2>4. pc \in [Isr -> {"idle", "load", "check", "exchange", "fill", "pend",
                       "accepted", "rejected"}]
    OBVIOUS
  <2>5. ticket \in [Isr -> Ticket \cup {None}] /\ claim \in [Isr -> Slot]
    BY <2>1
  <2> QED
    BY <2>1, <2>2, <2>3, <2>4, <2>5 DEF TypeOK
<1>2. CursorIsRead /\ NoTornEntry /\ FetchedIsEntry /\ TicketHeld /\ RoomSeen
  BY DEF CursorIsRead, NoTornEntry, FetchedIsEntry, TicketHeld, RoomSeen
<1>3. ClaimsInWindow /\ ClaimsDisjoint /\ NoLostWakeup
  BY DEF ClaimsInWindow, ClaimsDisjoint, NoLostWakeup
<1>4. WindowFilled
  BY EntryCountAssumption DEF WindowFilled, InWindow, Slot
<1> QED
  BY <1>1, <1>2, <1>3, <1>4 DEF IInv

(* Every access of armv7m_pendsv.c keeps the pointers in the ring and calls in *)
(* the slots.                                                               *)
LEMMA TypeStep == IInv /\ [Next]_vars => TypeOK'
<1> SUFFICES ASSUME IInv, [Next]_vars PROVE TypeOK'
  OBVIOUS
<1> USE SuccInSlot, MaxTicketAssumption
    DEF IInv, TypeOK, Ticket, sharedVars, isrVars, dequeueVars
<1>1. ASSUME NEW i \in Isr, IsrEnter(i) PROVE TypeOK'
  BY <1>1 DEF IsrEnter, Call
<1>2. ASSUME NEW i \in Isr, LoadWrite(i) PROVE TypeOK'
  BY <1>2 DEF LoadWrite
<1>3. ASSUME NEW i \in Isr, CheckFull(i) PROVE TypeOK'
  BY <1>3 DEF CheckFull
<1>4. ASSUME NEW i \in Isr, CompareExchange(i) PROVE TypeOK'
  BY <1>4 DEF CompareExchange
<1>5. ASSUME NEW i \in Isr, Fill(i) PROVE TypeOK'
  BY <1>5 DEF Fill
<1>6. ASSUME NEW i \in Isr, Pend(i) PROVE TypeOK'
  BY <1>6 DEF Pend
<1>7. ASSUME NEW i \in Isr, IsrContinue(i) PROVE TypeOK'
  BY <1>7 DEF IsrContinue, Call
<1>8. CASE PendSVEnter
  BY <1>8 DEF PendSVEnter
<1>9. CASE Test
  BY <1>9 DEF Test
<1>10. CASE Fetch
  BY <1>10 DEF Fetch
<1>11. CASE Advance
  BY <1>11 DEF Advance
<1>12. CASE CallRoutine
  BY <1>12 DEF CallRoutine
<1>13. CASE PendSVReturn
  BY <1>13 DEF PendSVReturn
<1>14. CASE UNCHANGED vars
  BY <1>14 DEF vars
<1> QED
  BY <1>1, <1>2, <1>3, <1>4, <1>5, <1>6, <1>7, <1>8, <1>9, <1>10, <1>11,
     <1>12, <1>13, <1>14 DEF Next, IsrStep, Dequeue

(* A slot that is claimed is the one pendsv_write points to: it is outside  *)
(* the window, and the window grows by exactly it.                         *)
LEMMA WindowGrows ==
  ASSUME pendsv_read \in Slot, pendsv_write \in Slot,
         Succ(pendsv_write) # pendsv_read,
         pendsv_read' = pendsv_read, pendsv_write' = Succ(pendsv_write)
  PROVE  /\ ~InWindow(pendsv_write)
         /\ \A s \in Slot : InWindow(s)' <=> InWindow(s) \/ s = pendsv_write
  BY EntryCountAssumption DEF Slot, Succ, InWindow

(* Giving back a slot removes exactly that one from the window.            *)
LEMMA WindowShrinks ==
  ASSUME pendsv_read \in Slot, pendsv_write \in Slot,
         pendsv_read # pendsv_write,
         pendsv_read' = Succ(pendsv_read), pendsv_write' = pendsv_write
  PROVE  /\ InWindow(pendsv_read)
         /\ \A s \in Slot : InWindow(s)' <=> InWindow(s) /\ s # pendsv_read
  BY EntryCountAssumption DEF Slot, Succ, InWindow

(* A step that moves neither pointer, stores into no slot and lets no       *)
(* handler enter or leave its fill keeps the facts about slots.            *)
LEMMA SlotsUnchanged ==
  ASSUME IInv,
         UNCHANGED <<pendsv_read, pendsv_write, pendsv_data>>,
         \A i \in Isr : pc[i] = "fill" <=> pc'[i] = "fill",
         \A i \in Isr : pc[i] = "fill" => claim'[i] = claim[i]
  PROVE  ClaimsInWindow' /\ ClaimsDisjoint' /\ WindowFilled'
<1>1. \A s : InWindow(s)' <=> InWindow(s)
  BY DEF InWindow
<1>2. \A i \in Isr : \A s : Filling(i, s)' <=> Filling(i, s)
  BY DEF Filling
<1> QED
  BY <1>1, <1>2 DEF IInv, ClaimsInWindow, ClaimsDisjoint, WindowFilled

(* The steps of a handler that touch none of the slots: entering, loading   *)
(* the pointer, checking for room, pending PendSV, returning.              *)
LEMMA IsrQuietStep ==
  ASSUME IInv, TypeOK', NEW i \in Isr,
         IsrEnter(i) \/ LoadWrite(i) \/ CheckFull(i) \/ Pend(i) \/ IsrContinue(i)
  PROVE  IInv'
<1> USE DEF sharedVars, dequeueVars
<1>1. /\ UNCHANGED <<pendsv_read, pendsv_write, pendsv_data, ppc, cursor, fetched>>
      /\ \A j \in Isr \ {i} : pc'[j] = pc[j] /\ claim'[j] = claim[j]
                                             /\ ticket'[j] = ticket[j]
      /\ pc[i] # "fill" /\ pc'[i] # "fill"
  BY DEF IInv, TypeOK, IsrEnter, Call, LoadWrite, CheckFull, Pend, IsrContinue,
         Runs, CanEnter, Active
<1>2. ClaimsInWindow' /\ ClaimsDisjoint' /\ WindowFilled'
  BY <1>1, SlotsUnchanged
<1>3. CursorIsRead' /\ FetchedIsEntry'
  BY <1>1 DEF IInv, CursorIsRead, FetchedIsEntry
<1>4. NoTornEntry'
  BY <1>1 DEF IInv, NoTornEntry, Filling
<1>5. TicketHeld'
  BY <1>1 DEF IInv, TypeOK, TicketHeld, IsrEnter, Call, LoadWrite, CheckFull, Pend,
              IsrContinue, Ticket
<1>6. RoomSeen'
  BY <1>1 DEF IInv, TypeOK, RoomSeen, Succ, IsrEnter, Call, LoadWrite, CheckFull, Pend,
              IsrContinue
<1>7. NoLostWakeup'
  <2>1. CASE Pend(i)
    BY <2>1 DEF Pend, NoLostWakeup
  <2>2. CASE ~Pend(i)
    <3>1. pendset' = pendset /\ pc[i] \notin {"fill", "pend"}
      BY <2>2 DEF IInv, TypeOK, IsrEnter, Call, LoadWrite, CheckFull, IsrContinue,
                  CanEnter, Active
    <3> QED
      BY <1>1, <3>1 DEF IInv, NoLostWakeup
  <2> QED
    BY <2>1, <2>2
<1> QED
  BY <1>2, <1>3, <1>4, <1>5, <1>6, <1>7 DEF IInv

(* Claiming a slot (armv7m_pendsv.c:68) keeps the invariant.               *)
LEMMA ClaimInv ==
  ASSUME IInv, TypeOK', NEW i \in Isr, CompareExchange(i)
  PROVE  IInv'
<1> USE DEF dequeueVars
<1>1. CASE pendsv_write # claim[i]
  <2>1. /\ UNCHANGED <<pendsv_read, pendsv_write, pendsv_data, pendset, ppc, cursor,
                       fetched, claim, ticket>>
        /\ pc' = [pc EXCEPT ![i] = "load"]
        /\ pc[i] = "exchange"
    BY <1>1 DEF CompareExchange
  <2>2. ClaimsInWindow' /\ ClaimsDisjoint' /\ WindowFilled'
    BY <2>1, SlotsUnchanged DEF IInv, TypeOK
  <2>3. CursorIsRead' /\ FetchedIsEntry' /\ NoTornEntry' /\ TicketHeld'
    BY <2>1 DEF IInv, TypeOK, CursorIsRead, FetchedIsEntry, NoTornEntry, Filling,
                TicketHeld
  <2>4. RoomSeen' /\ NoLostWakeup'
    BY <2>1 DEF IInv, TypeOK, RoomSeen, Succ, NoLostWakeup
  <2> QED
    BY <2>2, <2>3, <2>4 DEF IInv
<1>2. CASE pendsv_write = claim[i]
  <2>1. /\ UNCHANGED <<pendsv_read, pendsv_data, pendset, ppc, cursor, fetched,
                       claim, ticket>>
        /\ pendsv_write' = Succ(pendsv_write)
        /\ pc' = [pc EXCEPT ![i] = "fill"]
        /\ pc[i] = "exchange"
    BY <1>2 DEF CompareExchange
  <2>2. Succ(pendsv_write) # pendsv_read
    BY <1>2, <2>1 DEF IInv, RoomSeen
  <2>3. /\ ~InWindow(pendsv_write)
        /\ \A s \in Slot : InWindow(s)' <=> InWindow(s) \/ s = pendsv_write
    BY <2>1, <2>2, WindowGrows DEF IInv, TypeOK
  <2>4. \A j \in Isr, s \in Slot :
          Filling(j, s)' <=> Filling(j, s) \/ (j = i /\ s = pendsv_write)
    BY <1>2, <2>1 DEF IInv, TypeOK, Filling
  <2>5. ClaimsInWindow'
    BY <1>2, <2>1, <2>3 DEF IInv, TypeOK, ClaimsInWindow
  <2>6. ClaimsDisjoint'
    BY <1>2, <2>1, <2>3 DEF IInv, TypeOK, ClaimsInWindow, ClaimsDisjoint
  <2>7. WindowFilled'
    BY <2>1, <2>3, <2>4 DEF IInv, TypeOK, WindowFilled
  <2>8. CursorIsRead' /\ FetchedIsEntry' /\ TicketHeld'
    BY <2>1 DEF IInv, TypeOK, CursorIsRead, FetchedIsEntry, TicketHeld
  <2>9. NoTornEntry'
    BY <1>2, <2>1, <2>2, <2>4
    DEF IInv, TypeOK, CursorIsRead, NoTornEntry
  <2>10. RoomSeen'
    <3> SUFFICES ASSUME NEW j \in Isr
                 PROVE  /\ pc'[j] = "exchange" => Succ(claim'[j]) # pendsv_read'
                        /\ pc'[j] = "rejected" => Succ(claim'[j]) = pendsv_read'
                        /\ pc'[j] \in {"check", "rejected"}
                             /\ Succ(claim'[j]) = pendsv_read'
                           => claim'[j] = pendsv_write'
      BY DEF RoomSeen, Succ
    <3> QED
      BY <2>1, <2>2 DEF IInv, TypeOK, RoomSeen
  <2>11. NoLostWakeup'
    BY <2>1 DEF IInv, TypeOK, NoLostWakeup
  <2> QED
    BY <2>5, <2>6, <2>7, <2>8, <2>9, <2>10, <2>11 DEF IInv
<1> QED
  BY <1>1, <1>2

(* Filling the claimed slot (armv7m_pendsv.c:70-72) keeps the invariant.    *)
LEMMA FillInv ==
  ASSUME IInv, TypeOK', NEW i \in Isr, Fill(i)
  PROVE  IInv'
<1> USE DEF dequeueVars
<1>1. /\ UNCHANGED <<pendsv_read, pendsv_write, pendset, ppc, cursor, fetched, claim,
                     ticket>>
      /\ pc[i] = "fill"
      /\ pc' = [pc EXCEPT ![i] = "pend"]
      /\ pendsv_data' = [pendsv_data EXCEPT ![claim[i]] = ticket[i]]
  BY DEF Fill
<1>2. ticket[i] \in Ticket /\ claim[i] \in Slot
  BY <1>1 DEF IInv, TypeOK, TicketHeld
<1>3. \A s : InWindow(s)' <=> InWindow(s)
  BY <1>1 DEF InWindow
<1>4. \A j \in Isr, s \in Slot : Filling(j, s)' <=> Filling(j, s) /\ j # i
  BY <1>1 DEF IInv, TypeOK, Filling
<1>5. ClaimsInWindow' /\ ClaimsDisjoint'
  BY <1>1, <1>3 DEF IInv, TypeOK, ClaimsInWindow, ClaimsDisjoint
<1>6. WindowFilled'
  <2> SUFFICES ASSUME NEW s \in Slot, InWindow(s), \A j \in Isr : ~Filling(j, s)'
               PROVE  pendsv_data'[s] \in Ticket
    BY <1>3 DEF WindowFilled
  <2>1. CASE s = claim[i]
    BY <1>1, <1>2, <2>1 DEF IInv, TypeOK
  <2>2. CASE s # claim[i]
    BY <1>1, <1>4, <2>2 DEF IInv, TypeOK, WindowFilled, Filling
  <2> QED
    BY <2>1, <2>2
<1>7. CursorIsRead' /\ TicketHeld'
  BY <1>1 DEF IInv, TypeOK, CursorIsRead, TicketHeld
<1>8. FetchedIsEntry'
  BY <1>1 DEF IInv, TypeOK, FetchedIsEntry, NoTornEntry, Filling
<1>9. NoTornEntry'
  BY <1>1, <1>4 DEF IInv, TypeOK, NoTornEntry
<1>10. RoomSeen'
  BY <1>1 DEF IInv, TypeOK, RoomSeen, Succ
<1>11. NoLostWakeup'
  BY <1>1 DEF IInv, TypeOK, NoLostWakeup
<1> QED
  BY <1>5, <1>6, <1>7, <1>8, <1>9, <1>10, <1>11 DEF IInv

(* The steps of PendSV that move no pointer: taking it, testing, fetching,  *)
(* running the routine, returning.  No handler is active meanwhile.        *)
LEMMA PendSVQuietStep ==
  ASSUME IInv, TypeOK',
         PendSVEnter \/ Test \/ Fetch \/ CallRoutine \/ PendSVReturn
  PROVE  IInv'
<1> USE DEF sharedVars, isrVars
<1>1. \A i \in Isr : pc[i] = "idle"
  BY PendSVRunsAlone DEF PendSVEnter, Test, Fetch, CallRoutine, PendSVReturn
<1>2. UNCHANGED <<pendsv_read, pendsv_write, pendsv_data, pc, ticket, claim>>
  BY DEF PendSVEnter, Test, Fetch, CallRoutine, PendSVReturn
<1>3. ClaimsInWindow' /\ ClaimsDisjoint' /\ WindowFilled'
  BY <1>2, SlotsUnchanged
<1>4. TicketHeld' /\ RoomSeen'
  BY <1>2 DEF IInv, TicketHeld, RoomSeen, Succ
<1>5. CursorIsRead'
  BY <1>2 DEF IInv, TypeOK, CursorIsRead, PendSVEnter, Test, Fetch, CallRoutine,
              PendSVReturn
<1>6. NoTornEntry'
  BY <1>1, <1>2 DEF IInv, TypeOK, NoTornEntry, Filling, PendSVEnter, Test, Fetch,
                    CallRoutine, PendSVReturn
<1>7. FetchedIsEntry'
  BY <1>2 DEF IInv, TypeOK, FetchedIsEntry, PendSVEnter, Test, Fetch,
              CallRoutine, PendSVReturn
<1>8. NoLostWakeup'
  BY <1>1, <1>2 DEF IInv, TypeOK, NoLostWakeup, CursorIsRead, PendSVEnter, Test,
                    Fetch, CallRoutine, PendSVReturn
<1> QED
  BY <1>3, <1>4, <1>5, <1>6, <1>7, <1>8 DEF IInv

(* Giving the slot back (armv7m_pendsv.c:95-102) keeps the invariant.       *)
LEMMA AdvanceInv ==
  ASSUME IInv, TypeOK', Advance
  PROVE  IInv'
<1> USE DEF isrVars
<1>1. \A i \in Isr : pc[i] = "idle"
  BY PendSVRunsAlone DEF Advance
<1>2. /\ UNCHANGED <<pendsv_write, pendsv_data, pendset, pc, ticket, claim, fetched>>
      /\ ppc = "advance" /\ ppc' = "call"
      /\ cursor = pendsv_read /\ pendsv_read # pendsv_write
      /\ pendsv_read' = Succ(pendsv_read) /\ cursor' = pendsv_read'
  BY DEF Advance, IInv, CursorIsRead, NoTornEntry
<1>3. /\ InWindow(pendsv_read)
      /\ \A s \in Slot : InWindow(s)' <=> InWindow(s) /\ s # pendsv_read
  BY <1>2, WindowShrinks DEF IInv, TypeOK
<1>4. ClaimsInWindow' /\ ClaimsDisjoint' /\ TicketHeld' /\ RoomSeen'
  BY <1>1, <1>2 DEF ClaimsInWindow, ClaimsDisjoint, TicketHeld, RoomSeen
<1>5. WindowFilled'
  BY <1>1, <1>2, <1>3 DEF IInv, WindowFilled, Filling
<1>6. FetchedIsEntry'
  BY <1>1, <1>2, <1>3 DEF IInv, TypeOK, FetchedIsEntry, WindowFilled, Filling
<1>7. CursorIsRead' /\ NoTornEntry' /\ NoLostWakeup'
  BY <1>2 DEF CursorIsRead, NoTornEntry, NoLostWakeup
<1> QED
  BY <1>4, <1>5, <1>6, <1>7 DEF IInv

(* Every access of armv7m_pendsv_enqueue() and armv7m_pendsv_dequeue() keeps *)
(* the inductive invariant.                                                 *)
LEMMA InvStep == IInv /\ [Next]_vars => IInv'
<1> SUFFICES ASSUME IInv, [Next]_vars PROVE IInv'
  OBVIOUS
<1>1. TypeOK'
  BY TypeStep
<1>2. ASSUME NEW i \in Isr, IsrEnter(i) \/ IsrStep(i) PROVE IInv'
  BY <1>1, <1>2, IsrQuietStep, ClaimInv, FillInv DEF IsrStep
<1>3. CASE PendSVEnter \/ Dequeue
  BY <1>1, <1>3, PendSVQuietStep, AdvanceInv DEF Dequeue
<1>4. CASE UNCHANGED vars
  <2>1. UNCHANGED <<pendsv_read, pendsv_write, pendsv_data, pendset, pc, ticket, claim,
                    ppc, cursor, fetched>>
    BY <1>4 DEF vars, sharedVars, isrVars, dequeueVars
  <2>2. ClaimsInWindow' /\ ClaimsDisjoint' /\ WindowFilled'
    BY <2>1, SlotsUnchanged
  <2> QED
    BY <1>1, <2>1, <2>2
    DEF IInv, CursorIsRead, NoTornEntry, Filling, FetchedIsEntry, TicketHeld, RoomSeen,
        Succ, NoLostWakeup
<1> QED
  BY <1>2, <1>3, <1>4 DEF Next

(* The inductive invariant holds in every reachable state, whatever the     *)
(* handlers, their priorities, the size of the ring and the calls made.    *)
THEOREM Invariance == Spec => []IInv
  BY InitInv, InvStep, PTL DEF Spec

(* The pointers stay in the ring and every slot holds a call or nothing.   *)
THEOREM TypeCorrect == Spec => []TypeOK
<1>1. IInv => TypeOK
  BY DEF IInv
<1> QED
  BY <1>1, Invariance, PTL

(* PendSV never reads a slot that is claimed and not filled.               *)
THEOREM Untorn == Spec => []NoTornEntry
<1>1. IInv => NoTornEntry
  BY DEF IInv
<1> QED
  BY <1>1, Invariance, PTL

(* Nested enqueues never store into the same slot.                         *)
THEOREM Disjoint == Spec => []ClaimsDisjoint
<1>1. IInv => ClaimsDisjoint
  BY DEF IInv
<1> QED
  BY <1>1, Invariance, PTL

(* A waiting call always has a PendSV to come.                             *)
THEOREM Wakeup == Spec => []NoLostWakeup
<1>1. IInv => NoLostWakeup
  BY DEF IInv
<1> QED
  BY <1>1, Invariance, PTL

(* An enqueue returns NULL only when the ring holds all it can hold.       *)
THEOREM RejectionIsFull == Spec => []RejectedOnlyWhenFull
<1>1. IInv => RejectedOnlyWhenFull
  BY EntryCountAssumption
  DEF IInv, TypeOK, RoomSeen, RejectedOnlyWhenFull, Used, Succ, Slot
<1> QED
  BY <1>1, Invariance, PTL

-----------------------------------------------------------------------------
(* The refinement of PendSVQueue.                                          *)

(* The waiting slots are the first Used from pendsv_read on, each once: the *)
(* ring is never counted past its end.                                      *)
LEMMA UsedSlots ==
  ASSUME pendsv_read \in Slot, pendsv_write \in Slot
  PROVE  /\ Used \in 0..EntryCount - 1
         /\ \A k \in 0..Used - 1 : SlotAt(k) \in Slot /\ InWindow(SlotAt(k))
  BY EntryCountAssumption DEF Slot, Used, SlotAt, InWindow

(* The claimed slot is the one past the last waiting entry.                *)
LEMMA UsedGrows ==
  ASSUME pendsv_read \in Slot, pendsv_write \in Slot,
         Succ(pendsv_write) # pendsv_read,
         pendsv_read' = pendsv_read, pendsv_write' = Succ(pendsv_write)
  PROVE  /\ Used' = Used + 1
         /\ Used < EntryCount - 1
         /\ SlotAt(Used) = pendsv_write
         /\ \A k \in Int : SlotAt(k)' = SlotAt(k)
  BY EntryCountAssumption DEF Slot, Used, SlotAt, Succ

(* The slot given back is that of the first waiting entry.                 *)
LEMMA UsedShrinks ==
  ASSUME pendsv_read \in Slot, pendsv_write \in Slot,
         pendsv_read # pendsv_write,
         pendsv_read' = Succ(pendsv_read), pendsv_write' = pendsv_write
  PROVE  /\ Used' = Used - 1
         /\ Used > 0
         /\ SlotAt(0) = pendsv_read
         /\ \A k \in 0..Used - 2 : SlotAt(k)' = SlotAt(k + 1)
  BY EntryCountAssumption DEF Slot, Used, SlotAt, Succ

(* The one handler that fills a slot is the one that is chosen.             *)
LEMMA AnyOfSingle == \A x : AnyOf({x}) = x
  BY DEF AnyOf

(* What a waiting slot stands for is a call the handlers deferred.          *)
LEMMA EntryIsTicket ==
  ASSUME IInv, NEW s \in Slot, InWindow(s)
  PROVE  EntryIn(s) \in Ticket
<1>1. CASE Fillers(s) = {}
  BY <1>1 DEF IInv, WindowFilled, Fillers, EntryIn
<1>2. CASE Fillers(s) # {}
  <2>1. AnyOf(Fillers(s)) \in Fillers(s)
    BY <1>2 DEF AnyOf
  <2> QED
    BY <1>2, <2>1 DEF IInv, TicketHeld, Fillers, Filling, EntryIn
<1> QED
  BY <1>1, <1>2

(* The waiting calls are a sequence that fits in EntryCount - 1 slots.      *)
LEMMA WaitingIsSeq ==
  ASSUME IInv
  PROVE  Waiting \in Seq(Ticket) /\ Len(Waiting) = Used
<1>1. /\ Used \in 0..EntryCount - 1
      /\ \A k \in 0..Used - 1 : SlotAt(k) \in Slot /\ InWindow(SlotAt(k))
  BY UsedSlots DEF IInv, TypeOK
<1>2. \A s \in Slot : InWindow(s) => EntryIn(s) \in Ticket
  BY EntryIsTicket
<1>3. \A k \in 1..Used : k - 1 \in 0..Used - 1
  BY <1>1
<1>4. Waiting \in [1..Used -> Ticket]
  BY <1>1, <1>2, <1>3 DEF Waiting
<1>5. Used \in Nat
  BY <1>1, EntryCountAssumption
<1> QED
  BY <1>4, <1>5

(* A step that moves no pointer and changes no entry is invisible.         *)
LEMMA WaitingUnchanged ==
  ASSUME UNCHANGED <<pendsv_read, pendsv_write>>,
         \A s : EntryIn(s)' = EntryIn(s)
  PROVE  Waiting' = Waiting
<1>1. Used' = Used /\ \A k : SlotAt(k)' = SlotAt(k)
  BY DEF Used, SlotAt
<1> QED
  BY <1>1 DEF Waiting

(* A step in which no handler enters or leaves its fill changes no entry.   *)
LEMMA EntriesUnchanged ==
  ASSUME UNCHANGED <<pendsv_data, ticket>>,
         \A i \in Isr : \A s : Filling(i, s)' <=> Filling(i, s)
  PROVE  \A s : EntryIn(s)' = EntryIn(s)
<1>1. \A s : Fillers(s)' = Fillers(s)
  BY DEF Fillers
<1> QED
  BY <1>1 DEF EntryIn

(* A step after which the waiting calls and the running one are the same.   *)
LEMMA QuietStutters ==
  ASSUME IInv,
         \/ \E i \in Isr : \/ IsrEnter(i) \/ LoadWrite(i) \/ CheckFull(i) \/ Pend(i)
                           \/ IsrContinue(i)
         \/ PendSVEnter \/ Test \/ Fetch \/ PendSVReturn
         \/ UNCHANGED vars
  PROVE  UNCHANGED <<Waiting, Running>>
<1> USE DEF vars, sharedVars, isrVars, dequeueVars
<1>1. /\ UNCHANGED <<pendsv_read, pendsv_write, pendsv_data>>
      /\ Running' = Running
  BY DEF Running, IsrEnter, LoadWrite, CheckFull, Pend, IsrContinue, PendSVEnter,
         Test, Fetch, PendSVReturn, Runs, CanEnter, Active
<1>2. \A s : EntryIn(s)' = EntryIn(s)
  <2>1. CASE \E i \in Isr : \/ IsrEnter(i) \/ LoadWrite(i) \/ CheckFull(i) \/ Pend(i)
                            \/ IsrContinue(i)
    <3>1. PICK i \in Isr : \/ IsrEnter(i) \/ LoadWrite(i) \/ CheckFull(i) \/ Pend(i)
                           \/ IsrContinue(i)
      BY <2>1
    <3>2. /\ \A j \in Isr \ {i} : pc'[j] = pc[j] /\ claim'[j] = claim[j]
                                                 /\ ticket'[j] = ticket[j]
          /\ pc[i] # "fill" /\ pc'[i] # "fill"
      BY <3>1 DEF IInv, TypeOK, IsrEnter, Call, LoadWrite, CheckFull, Pend, IsrContinue,
                  Runs, CanEnter, Active
    <3>3. \A j \in Isr : \A s : Filling(j, s)' <=> Filling(j, s)
      BY <3>2 DEF Filling
    <3>4. \A s : Fillers(s)' = Fillers(s)
      BY <3>3 DEF Fillers
    <3> SUFFICES ASSUME NEW s PROVE EntryIn(s)' = EntryIn(s)
      OBVIOUS
    <3>5. CASE Fillers(s) = {}
      BY <1>1, <3>4, <3>5 DEF EntryIn
    <3>6. CASE Fillers(s) # {}
      <4>1. AnyOf(Fillers(s)) \in Fillers(s)
        BY <3>6 DEF AnyOf
      <4>2. AnyOf(Fillers(s)) \in Isr \ {i}
        BY <3>2, <4>1 DEF Fillers, Filling
      <4> QED
        BY <3>2, <3>4, <3>6, <4>2 DEF EntryIn
    <3> QED
      BY <3>5, <3>6
  <2>2. CASE PendSVEnter \/ Test \/ Fetch \/ PendSVReturn \/ UNCHANGED vars
    BY <2>2, EntriesUnchanged
    DEF Filling, PendSVEnter, Test, Fetch, PendSVReturn
  <2> QED
    BY <2>1, <2>2
<1> QED
  BY <1>1, <1>2, WaitingUnchanged

(* A successful compare-and-exchange is what accepts the call.             *)
LEMMA ClaimAccepts ==
  ASSUME IInv, NEW i \in Isr, CompareExchange(i)
  PROVE  FIFO!Accept(ticket[i]) \/ UNCHANGED <<Waiting, Running>>
<1> USE DEF dequeueVars
<1>1. CASE pendsv_write # claim[i]
  <2>1. /\ UNCHANGED <<pendsv_read, pendsv_write, pendsv_data, ppc, fetched, claim,
                       ticket>>
        /\ \A j \in Isr : pc[j] = "fill" <=> pc'[j] = "fill"
    BY <1>1 DEF IInv, TypeOK, CompareExchange
  <2> QED
    BY <2>1, EntriesUnchanged, WaitingUnchanged DEF Filling, Running
<1>2. CASE pendsv_write = claim[i]
  <2>1. /\ UNCHANGED <<pendsv_read, pendsv_data, ppc, fetched, claim, ticket>>
        /\ pendsv_write' = Succ(pendsv_write)
        /\ pc' = [pc EXCEPT ![i] = "fill"]
        /\ pc[i] = "exchange"
    BY <1>2 DEF CompareExchange
  <2>2. Succ(pendsv_write) # pendsv_read
    BY <1>2, <2>1 DEF IInv, RoomSeen
  <2>3. /\ Used' = Used + 1
        /\ Used < EntryCount - 1
        /\ SlotAt(Used) = pendsv_write
        /\ \A k \in Int : SlotAt(k)' = SlotAt(k)
    BY <2>1, <2>2, UsedGrows DEF IInv, TypeOK
  <2>4. ~InWindow(pendsv_write)
    BY <2>1, <2>2, WindowGrows DEF IInv, TypeOK
  <2>5. \A s \in Slot : s # pendsv_write => EntryIn(s)' = EntryIn(s)
    <3> SUFFICES ASSUME NEW s \in Slot, s # pendsv_write
                 PROVE  EntryIn(s)' = EntryIn(s)
      OBVIOUS
    <3>1. Fillers(s)' = Fillers(s)
      BY <1>2, <2>1 DEF IInv, TypeOK, Fillers, Filling
    <3> QED
      BY <2>1, <3>1 DEF EntryIn
  <2>6. \A s \in Slot : s = pendsv_write => EntryIn(s)' = ticket[i]
    <3> SUFFICES ASSUME NEW s \in Slot, s = pendsv_write
                 PROVE  EntryIn(s)' = ticket[i]
      OBVIOUS
    <3>1. Fillers(s)' = {i}
      BY <1>2, <2>1, <2>4 DEF IInv, TypeOK, ClaimsInWindow, Fillers, Filling
    <3> QED
      BY <2>1, <3>1, AnyOfSingle DEF EntryIn
  <2>7. Used \in Nat /\ \A k \in 1..Used : SlotAt(k - 1) \in Slot
                                       /\ InWindow(SlotAt(k - 1))
    <3>1. \A k \in 1..Used : k - 1 \in 0..Used - 1
      BY UsedSlots DEF IInv, TypeOK
    <3> QED
      BY <3>1, UsedSlots, EntryCountAssumption DEF IInv, TypeOK
  <2>8. \A k \in 1..Used : EntryIn(SlotAt(k - 1))' = EntryIn(SlotAt(k - 1))
    BY <2>3, <2>4, <2>5, <2>7
  <2>9. Waiting' = [k \in 1..Used + 1 |-> IF k = Used + 1 THEN ticket[i]
                                                        ELSE Waiting[k]]
    <3>1. PICK n \in Nat : n = Used
      BY <2>7
    <3>2. EntryIn(SlotAt(n))' = ticket[i]
      <4>1. SlotAt(n)' = pendsv_write /\ pendsv_write \in Slot
        BY <2>3, <3>1 DEF IInv, TypeOK
      <4> QED
        BY <2>6, <4>1
    <3>3. Waiting' = [k \in 1..n + 1 |-> EntryIn(SlotAt(k - 1))']
      BY <2>3, <3>1 DEF Waiting
    <3>4. \A k \in 1..n + 1 : EntryIn(SlotAt(k - 1))'
                              = IF k = n + 1 THEN ticket[i] ELSE Waiting[k]
      <4> SUFFICES ASSUME NEW k \in 1..n + 1
                   PROVE  EntryIn(SlotAt(k - 1))'
                          = IF k = n + 1 THEN ticket[i] ELSE Waiting[k]
        OBVIOUS
      <4>1. CASE k = n + 1
        <5>1. k - 1 = n
          BY <4>1
        <5> QED
          BY <3>2, <4>1, <5>1
      <4>2. CASE k # n + 1
        <5>1. k \in 1..Used
          BY <3>1, <4>2
        <5> QED
          BY <2>8, <4>2, <5>1 DEF Waiting
      <4> QED
        BY <4>1, <4>2
    <3> QED
      BY <3>1, <3>3, <3>4
  <2>10. Waiting' = Append(Waiting, ticket[i])
    BY <2>9, WaitingIsSeq
  <2> QED
    BY <2>1, <2>3, <2>10, WaitingIsSeq DEF FIFO!Accept, Running
<1> QED
  BY <1>1, <1>2

(* Filling the slot does not change the entry it stands for.               *)
LEMMA FillStutters ==
  ASSUME IInv, NEW i \in Isr, Fill(i)
  PROVE  UNCHANGED <<Waiting, Running>>
<1> USE DEF dequeueVars
<1>1. /\ UNCHANGED <<pendsv_read, pendsv_write, ppc, fetched, claim, ticket>>
      /\ pc[i] = "fill"
      /\ pc' = [pc EXCEPT ![i] = "pend"]
      /\ pendsv_data' = [pendsv_data EXCEPT ![claim[i]] = ticket[i]]
  BY DEF Fill
<1>2. \A s : EntryIn(s)' = EntryIn(s)
  <2> SUFFICES ASSUME NEW s PROVE EntryIn(s)' = EntryIn(s)
    OBVIOUS
  <2>1. CASE s = claim[i]
    <3>1. Fillers(s) = {i} /\ Fillers(s)' = {}
      BY <1>1, <2>1 DEF IInv, TypeOK, ClaimsDisjoint, Fillers, Filling
    <3>2. EntryIn(s) = ticket[i]
      BY <3>1, AnyOfSingle DEF EntryIn
    <3>3. EntryIn(s)' = pendsv_data'[s]
      BY <3>1 DEF EntryIn
    <3> QED
      BY <1>1, <2>1, <3>2, <3>3 DEF IInv, TypeOK
  <2>2. CASE s # claim[i]
    <3>1. Fillers(s)' = Fillers(s)
      BY <1>1, <2>2 DEF IInv, TypeOK, Fillers, Filling
    <3>2. pendsv_data'[s] = pendsv_data[s]
      BY <1>1, <2>2 DEF IInv, TypeOK
    <3> QED
      BY <1>1, <3>1, <3>2 DEF EntryIn
  <2> QED
    BY <2>1, <2>2
<1> QED
  BY <1>1, <1>2, WaitingUnchanged DEF Running

(* Giving the slot back is what takes the oldest call and starts it.       *)
LEMMA AdvanceStarts ==
  ASSUME IInv, Advance
  PROVE  FIFO!Start
<1> USE DEF isrVars
<1>1. \A i \in Isr : pc[i] = "idle"
  BY PendSVRunsAlone DEF Advance
<1>2. /\ UNCHANGED <<pendsv_write, pendsv_data, pc, ticket, claim, fetched>>
      /\ ppc = "advance" /\ ppc' = "call"
      /\ cursor = pendsv_read /\ pendsv_read # pendsv_write
      /\ pendsv_read' = Succ(pendsv_read)
      /\ fetched = pendsv_data[pendsv_read]
  BY DEF Advance, IInv, CursorIsRead, NoTornEntry, FetchedIsEntry
<1>3. /\ Used' = Used - 1
      /\ Used > 0
      /\ SlotAt(0) = pendsv_read
      /\ \A k \in 0..Used - 2 : SlotAt(k)' = SlotAt(k + 1)
  BY <1>2, UsedShrinks DEF IInv, TypeOK
<1>4. \A s : Fillers(s) = {} /\ Fillers(s)' = {}
  BY <1>1, <1>2 DEF Fillers, Filling
<1>5. \A s : EntryIn(s) = pendsv_data[s] /\ EntryIn(s)' = pendsv_data[s]
  BY <1>2, <1>4 DEF EntryIn
<1>6. Waiting \in Seq(Ticket) /\ Len(Waiting) = Used /\ Used \in Nat
  BY WaitingIsSeq, UsedSlots, EntryCountAssumption DEF IInv, TypeOK
<1>7. Head(Waiting) = fetched
  BY <1>2, <1>3, <1>5, <1>6 DEF Waiting
<1>8. Waiting' = Tail(Waiting)
  <2>1. PICK n \in Nat : n = Used
    BY <1>6
  <2>2. Waiting' = [k \in 1..n - 1 |-> EntryIn(SlotAt(k - 1))']
    BY <1>3, <2>1 DEF Waiting
  <2>3. \A k \in 1..n - 1 : EntryIn(SlotAt(k - 1))' = Waiting[k + 1]
    <3> SUFFICES ASSUME NEW k \in 1..n - 1
                 PROVE  EntryIn(SlotAt(k - 1))' = Waiting[k + 1]
      OBVIOUS
    <3>1. k - 1 \in 0..Used - 2 /\ k + 1 \in 1..Used /\ (k + 1) - 1 = (k - 1) + 1
      BY <2>1
    <3>2. SlotAt(k - 1)' = SlotAt((k - 1) + 1)
      BY <1>3, <3>1
    <3> QED
      BY <1>5, <3>1, <3>2 DEF Waiting
  <2>4. Tail(Waiting) = [k \in 1..n - 1 |-> Waiting[k + 1]]
    <3> DEFINE w == Waiting
    <3>1. w \in Seq(Ticket) /\ Len(w) = n /\ n > 0
      BY <1>3, <1>6, <2>1
    <3> HIDE DEF w
    <3>2. Tail(w) = [k \in 1..n - 1 |-> w[k + 1]]
      <4>1. /\ Tail(w) \in Seq(Ticket) /\ Len(Tail(w)) = n - 1
            /\ \A k \in 1..n - 1 : Tail(w)[k] = w[k + 1]
        BY <3>1, HeadTailProperties
      <4>2. Tail(w) \in [1..n - 1 -> Ticket]
        BY <4>1, LenProperties
      <4> QED
        BY <4>1, <4>2
    <3> QED
      BY <3>2 DEF w
  <2> QED
    BY <2>2, <2>3, <2>4
<1>9. Running = None /\ Running' = fetched
  BY <1>2 DEF Running
<1> QED
  BY <1>3, <1>6, <1>7, <1>8, <1>9 DEF FIFO!Start

(* The routine's return. *)
LEMMA CallFinishes ==
  ASSUME IInv, CallRoutine
  PROVE  FIFO!Finish
<1> USE DEF sharedVars, isrVars
<1>1. /\ UNCHANGED <<pendsv_read, pendsv_write, pendsv_data, pc, ticket, claim>>
      /\ ppc = "call" /\ ppc' = "test"
  BY DEF CallRoutine
<1>2. Waiting' = Waiting
  BY <1>1, EntriesUnchanged, WaitingUnchanged DEF Filling
<1>3. Running \in Ticket /\ Running' = None
  BY <1>1 DEF IInv, FetchedIsEntry, Running
<1>4. Running # None
  BY <1>3, NoneAssumption, MaxTicketAssumption DEF Ticket
<1> QED
  BY <1>2, <1>3, <1>4 DEF FIFO!Finish

(* The ring of armv7m_pendsv.c is a bounded FIFO whose every accepted call  *)
(* runs once, in the order the slots were claimed.                         *)
THEOREM Refinement == Spec => ImplementsFIFO
<1>1. Init => FIFO!Init
  BY EntryCountAssumption DEF Init, FIFO!Init, Waiting, Used, Running
<1>2. IInv /\ [Next]_vars => [FIFO!Next]_<<Waiting, Running>>
  <2> SUFFICES ASSUME IInv, [Next]_vars
               PROVE  FIFO!Next \/ UNCHANGED <<Waiting, Running>>
    OBVIOUS
  <2>1. ASSUME NEW i \in Isr, CompareExchange(i)
        PROVE  FIFO!Next \/ UNCHANGED <<Waiting, Running>>
    <3>1. CompareExchange(i) => ticket[i] \in Ticket
      BY DEF CompareExchange, IInv, TicketHeld
    <3> QED
      BY <2>1, <3>1, ClaimAccepts DEF FIFO!Next
  <2>2. ASSUME NEW i \in Isr, Fill(i)
        PROVE  UNCHANGED <<Waiting, Running>>
    BY <2>2, FillStutters
  <2>3. CASE Advance
    BY <2>3, AdvanceStarts DEF FIFO!Next
  <2>4. CASE CallRoutine
    BY <2>4, CallFinishes DEF FIFO!Next
  <2> QED
    BY <2>1, <2>2, <2>3, <2>4, QuietStutters DEF Next, IsrStep, Dequeue
<1> QED
  BY <1>1, <1>2, Invariance, PTL DEF Spec, ImplementsFIFO, FIFO!Spec
=============================================================================
