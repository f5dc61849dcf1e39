------------------------------- MODULE PendSV -------------------------------
(***************************************************************************)
(* The deferred-call queue of armv7m_pendsv.c.  Interrupt handlers defer    *)
(* work with armv7m_pendsv_enqueue(); PendSV, the exception of the lowest   *)
(* priority, runs it.  Handlers of different priorities nest, so an enqueue *)
(* may be interrupted between any two of its accesses to the shared         *)
(* control block by another enqueue.  The queue takes no lock: a slot is    *)
(* claimed with a compare-and-exchange and filled AFTER the claim, and what *)
(* keeps PendSV from reading a claimed but unfilled slot is only that it is *)
(* the lowest priority.                                                    *)
(*                                                                         *)
(* An action is one access to the shared control block (a load, a store, a  *)
(* compare-and-exchange) by the context the processor is executing.        *)
(* A ticket stands for the (routine, context, data) a slot holds.          *)
(***************************************************************************)
EXTENDS Integers, Sequences

CONSTANTS
  Isr,            \* the interrupt handlers that defer calls
  IsrPriority,    \* their NVIC priorities: a lower number preempts a higher
  LowestPriority, \* (1 << __NVIC_PRIO_BITS) - 1
  EntryCount,     \* ARMV7M_PENDSV_ENTRY_COUNT, the slots of pendsv_data
  MaxTicket,      \* bound: the number of calls the handlers try to defer
  None,           \* no ticket
  PendSV          \* the name of the PendSV exception among the contexts

ASSUME IsrAssumption == PendSV \notin Isr
ASSUME PriorityAssumption ==
  /\ LowestPriority \in Nat
  /\ IsrPriority \in [Isr -> 0..LowestPriority]
ASSUME EntryCountAssumption == EntryCount \in Nat /\ EntryCount >= 2
ASSUME MaxTicketAssumption == MaxTicket \in Nat
ASSUME NoneAssumption == None \notin Nat

VARIABLES
  pendsv_read,    \* armv7m_pendsv_control.pendsv_read
  pendsv_write,   \* armv7m_pendsv_control.pendsv_write
  pendsv_data,    \* armv7m_pendsv_control.pendsv_data
  pendset,        \* PendSV is pending (SCB->ICSR PENDSVSET)
  pc,             \* where each interrupt handler is
  ticket,         \* the call each handler is deferring
  claim,          \* the local pendsv_write of each handler's enqueue
  ppc,            \* where PendSV is
  cursor,         \* the local pendsv_read of armv7m_pendsv_dequeue
  fetched,        \* its locals routine, context and data
  issued          \* the number of tickets handed out

sharedVars == <<pendsv_read, pendsv_write, pendsv_data, pendset>>
isrVars == <<pc, ticket, claim, issued>>
dequeueVars == <<ppc, cursor, fetched>>
vars == <<sharedVars, isrVars, dequeueVars>>

Slot == 0..EntryCount - 1
Ticket == 1..MaxTicket

(* Fault: the wrap is forgotten.                                           *)
SuccUnwrapped(p) == p + 1

(* The slot after p, wrapping at the end of pendsv_data.                   *)
Succ(p) == IF p + 1 = EntryCount THEN 0 ELSE p + 1

-----------------------------------------------------------------------------
(* Preemption.                                                             *)

(* Fault: PendSV is left at its reset priority.                            *)
PendSVPriorityAtReset == 0

PendSVPriority == LowestPriority

Priority(c) == IF c = PendSV THEN PendSVPriority ELSE IsrPriority[c]

Active ==
  {i \in Isr : pc[i] # "idle"} \cup (IF ppc = "idle" THEN {} ELSE {PendSV})

(* The processor takes exception c: it is urgent enough to preempt all the  *)
(* exceptions that are active.                                             *)
CanEnter(c) == c \notin Active /\ \A d \in Active : Priority(c) < Priority(d)

(* The processor executes c: everything else active was preempted by it.   *)
Runs(c) == c \in Active /\ \A d \in Active \ {c} : Priority(c) < Priority(d)

-----------------------------------------------------------------------------
(* armv7m_pendsv_enqueue(), in an interrupt handler.                       *)

(* A handler calls armv7m_pendsv_enqueue() with a new ticket.              *)
Call(i) ==
  /\ issued < MaxTicket
  /\ issued' = issued + 1
  /\ ticket' = [ticket EXCEPT ![i] = issued + 1]
  /\ pc' = [pc EXCEPT ![i] = "load"]

(* Interrupt i is taken, and its handler defers a call.                    *)
IsrEnter(i) ==
  /\ CanEnter(i)
  /\ Call(i)
  /\ UNCHANGED <<sharedVars, claim, dequeueVars>>

(* pendsv_write = armv7m_pendsv_control.pendsv_write.                      *)
LoadWrite(i) ==
  /\ Runs(i)
  /\ pc[i] = "load"
  /\ claim' = [claim EXCEPT ![i] = pendsv_write]
  /\ pc' = [pc EXCEPT ![i] = "check"]
  /\ UNCHANGED <<sharedVars, ticket, issued, dequeueVars>>

(* Fault: the room is computed one slot too far.                           *)
CheckFullEarly(i) ==
  /\ Runs(i)
  /\ pc[i] = "check"
  /\ pc' = [pc EXCEPT ![i] = IF Succ(Succ(claim[i])) = pendsv_read
                             THEN "rejected" ELSE "exchange"]
  /\ UNCHANGED <<sharedVars, ticket, claim, issued, dequeueVars>>

(* The queue is full if the slot after pendsv_write is the one to be read;  *)
(* the enqueue then returns NULL.                                          *)
CheckFull(i) ==
  /\ Runs(i)
  /\ pc[i] = "check"
  /\ pc' = [pc EXCEPT ![i] = IF Succ(claim[i]) = pendsv_read
                             THEN "rejected" ELSE "exchange"]
  /\ UNCHANGED <<sharedVars, ticket, claim, issued, dequeueVars>>

(* Fault: the pointer is stored without comparing it.                      *)
CompareExchangeBlind(i) ==
  /\ Runs(i)
  /\ pc[i] = "exchange"
  /\ pendsv_write' = Succ(claim[i])
  /\ pc' = [pc EXCEPT ![i] = "fill"]
  /\ UNCHANGED <<pendsv_read, pendsv_data, pendset, ticket, claim, issued,
                 dequeueVars>>

(* The compare-and-exchange of pendsv_write: the slot is claimed if no      *)
(* handler that interrupted this one claimed it first, else try again.     *)
CompareExchange(i) ==
  /\ Runs(i)
  /\ pc[i] = "exchange"
  /\ \/ /\ pendsv_write = claim[i]
        /\ pendsv_write' = Succ(claim[i])
        /\ pc' = [pc EXCEPT ![i] = "fill"]
     \/ /\ pendsv_write # claim[i]
        /\ pc' = [pc EXCEPT ![i] = "load"]
        /\ UNCHANGED pendsv_write
  /\ UNCHANGED <<pendsv_read, pendsv_data, pendset, ticket, claim, issued,
                 dequeueVars>>

(* routine, context and data are stored into the claimed slot.             *)
Fill(i) ==
  /\ Runs(i)
  /\ pc[i] = "fill"
  /\ pendsv_data' = [pendsv_data EXCEPT ![claim[i]] = ticket[i]]
  /\ pc' = [pc EXCEPT ![i] = "pend"]
  /\ UNCHANGED <<pendsv_read, pendsv_write, pendset, ticket, claim, issued,
                 dequeueVars>>

(* SCB->ICSR = SCB_ICSR_PENDSVSET_Msk, and the enqueue returns the slot.   *)
Pend(i) ==
  /\ Runs(i)
  /\ pc[i] = "pend"
  /\ pendset' = TRUE
  /\ pc' = [pc EXCEPT ![i] = "accepted"]
  /\ UNCHANGED <<pendsv_read, pendsv_write, pendsv_data, ticket, claim, issued,
                 dequeueVars>>

(* The handler defers another call or returns.                             *)
IsrContinue(i) ==
  /\ Runs(i)
  /\ pc[i] \in {"accepted", "rejected"}
  /\ \/ Call(i)
     \/ /\ pc' = [pc EXCEPT ![i] = "idle"]
        /\ UNCHANGED <<ticket, issued>>
  /\ UNCHANGED <<sharedVars, claim, dequeueVars>>

-----------------------------------------------------------------------------
(* armv7m_pendsv_dequeue(), in PendSV.                                     *)

(* PendSV is taken; taking it clears its pending state.                    *)
PendSVEnter ==
  /\ pendset
  /\ CanEnter(PendSV)
  /\ pendset' = FALSE
  /\ cursor' = pendsv_read
  /\ ppc' = "test"
  /\ UNCHANGED <<pendsv_read, pendsv_write, pendsv_data, fetched, isrVars>>

(* The condition of the loop: is there an entry to read?                   *)
Test ==
  /\ Runs(PendSV)
  /\ ppc = "test"
  /\ ppc' = IF cursor # pendsv_write THEN "fetch" ELSE "exit"
  /\ UNCHANGED <<sharedVars, isrVars, cursor, fetched>>

(* The entry is copied out of its slot.                                    *)
Fetch ==
  /\ Runs(PendSV)
  /\ ppc = "fetch"
  /\ fetched' = pendsv_data[cursor]
  /\ ppc' = "advance"
  /\ UNCHANGED <<sharedVars, isrVars, cursor>>

(* The slot is given back: armv7m_pendsv_control.pendsv_read = pendsv_read. *)
Advance ==
  /\ Runs(PendSV)
  /\ ppc = "advance"
  /\ cursor' = Succ(cursor)
  /\ pendsv_read' = Succ(cursor)
  /\ ppc' = "call"
  /\ UNCHANGED <<pendsv_write, pendsv_data, pendset, isrVars, fetched>>

(* Fault: an exception runs one call only.                                 *)
CallRoutineOnce ==
  /\ Runs(PendSV)
  /\ ppc = "call"
  /\ fetched' = None
  /\ ppc' = "exit"
  /\ UNCHANGED <<sharedVars, isrVars, cursor>>

(* (routine)(context, data) runs and returns.                              *)
CallRoutine ==
  /\ Runs(PendSV)
  /\ ppc = "call"
  /\ fetched' = None
  /\ ppc' = "test"
  /\ UNCHANGED <<sharedVars, isrVars, cursor>>

(* Fault: the pending state is cleared at the end instead of at the start. *)
PendSVReturnClearing ==
  /\ Runs(PendSV)
  /\ ppc = "exit"
  /\ ppc' = "idle"
  /\ pendset' = FALSE
  /\ UNCHANGED <<pendsv_read, pendsv_write, pendsv_data, isrVars, cursor, fetched>>

(* The exception returns.                                                  *)
PendSVReturn ==
  /\ Runs(PendSV)
  /\ ppc = "exit"
  /\ ppc' = "idle"
  /\ UNCHANGED <<sharedVars, isrVars, cursor, fetched>>

-----------------------------------------------------------------------------
(* armv7m_pendsv_initialize().                                             *)
Init ==
  /\ pendsv_read = 0
  /\ pendsv_write = 0
  /\ pendsv_data = [s \in Slot |-> None]
  /\ pendset = FALSE
  /\ pc = [i \in Isr |-> "idle"]
  /\ ticket = [i \in Isr |-> None]
  /\ claim = [i \in Isr |-> 0]
  /\ ppc = "idle"
  /\ cursor = 0
  /\ fetched = None
  /\ issued = 0

IsrStep(i) ==
  \/ LoadWrite(i)
  \/ CheckFull(i)
  \/ CompareExchange(i)
  \/ Fill(i)
  \/ Pend(i)
  \/ IsrContinue(i)

Dequeue ==
  \/ Test
  \/ Fetch
  \/ Advance
  \/ CallRoutine
  \/ PendSVReturn

Next ==
  \/ \E i \in Isr : IsrEnter(i) \/ IsrStep(i)
  \/ PendSVEnter
  \/ Dequeue

Spec == Init /\ [][Next]_vars

(* The processor keeps executing what it runs, and takes a pending PendSV   *)
(* once nothing more urgent is active.  No interrupt has to happen.        *)
FairSpec ==
  /\ Spec
  /\ \A i \in Isr : WF_vars(IsrStep(i))
  /\ WF_vars(PendSVEnter)
  /\ WF_vars(Dequeue)

-----------------------------------------------------------------------------
(* Properties.                                                             *)

(* The pointers stay in the ring and the slots hold calls, although the     *)
(* enqueue stores through a pointer it loaded before it was interrupted.   *)
TypeOK ==
  /\ pendsv_read \in Slot
  /\ pendsv_write \in Slot
  /\ pendsv_data \in [Slot -> Ticket \cup {None}]
  /\ pendset \in BOOLEAN
  /\ pc \in [Isr -> {"idle", "load", "check", "exchange", "fill", "pend",
                     "accepted", "rejected"}]
  /\ ticket \in [Isr -> Ticket \cup {None}]
  /\ claim \in [Isr -> Slot]
  /\ ppc \in {"idle", "test", "fetch", "advance", "call", "exit"}
  /\ cursor \in Slot
  /\ fetched \in Ticket \cup {None}
  /\ issued \in 0..MaxTicket

(* The entries between pendsv_read and pendsv_write, counted the way the    *)
(* ring wraps, and the slot of the k-th one.                               *)
Used ==
  IF pendsv_read <= pendsv_write THEN pendsv_write - pendsv_read
                                 ELSE pendsv_write - pendsv_read + EntryCount
SlotAt(k) ==
  IF pendsv_read + k < EntryCount THEN pendsv_read + k
                                  ELSE pendsv_read + k - EntryCount

(* A handler that has claimed slot s and has not filled it yet.            *)
Filling(i, s) == pc[i] = "fill" /\ claim[i] = s

(* While PendSV reads a slot no handler is about to store into it: the      *)
(* claim-before-fill order of the enqueue (armv7m_pendsv.c:68-72) is safe   *)
(* only because of the priorities.                                         *)
NoTornEntry ==
  ppc \in {"fetch", "advance"} =>
    /\ cursor # pendsv_write
    /\ \A i \in Isr : ~Filling(i, cursor)

(* Two handlers never hold the same slot: the compare-and-exchange gives    *)
(* it to one of two that nest, even though both loaded the same pointer.   *)
ClaimsDisjoint ==
  \A i, j \in Isr :
    i # j /\ pc[i] = "fill" /\ pc[j] = "fill" => claim[i] # claim[j]

(* NULL is returned only if EntryCount - 1 calls are waiting, although the  *)
(* pointers compared were loaded at different times.                       *)
RejectedOnlyWhenFull ==
  \A i \in Isr : pc[i] = "rejected" => Used = EntryCount - 1

(* A waiting entry is never forgotten: PendSV is pending, or is active and  *)
(* will test the pointers again, or a handler is about to pend it.  The     *)
(* window is an enqueue between the last test of armv7m_pendsv_dequeue and  *)
(* the return from the exception.                                          *)
NoLostWakeup ==
  pendsv_read # pendsv_write =>
    \/ pendset
    \/ ppc \notin {"idle", "exit"}
    \/ \E i \in Isr : pc[i] \in {"fill", "pend"}

(* The inductive invariant: what makes the four properties above, and the   *)
(* refinement below, hold.  s is one of the waiting slots:                 *)
InWindow(s) ==
  IF pendsv_read <= pendsv_write THEN pendsv_read <= s /\ s < pendsv_write
                                 ELSE pendsv_read <= s \/ s < pendsv_write

CursorIsRead == ppc # "idle" => cursor = pendsv_read

FetchedIsEntry ==
  /\ ppc = "advance" => fetched = pendsv_data[cursor]
  /\ ppc = "call" => fetched \in Ticket

TicketHeld == \A i \in Isr : pc[i] # "idle" => ticket[i] \in Ticket

(* What a handler learnt about the room in the ring stays true while it is  *)
(* active, because pendsv_read cannot move: PendSV cannot run.             *)
RoomSeen ==
  \A i \in Isr :
    /\ pc[i] = "exchange" => Succ(claim[i]) # pendsv_read
    /\ pc[i] = "rejected" => Succ(claim[i]) = pendsv_read
    /\ pc[i] \in {"check", "rejected"} /\ Succ(claim[i]) = pendsv_read
         => claim[i] = pendsv_write

ClaimsInWindow == \A i \in Isr : pc[i] = "fill" => InWindow(claim[i])

(* A waiting slot holds a call, or the handler that claimed it is active.   *)
WindowFilled ==
  \A s \in Slot :
    InWindow(s) /\ (\A i \in Isr : ~Filling(i, s)) => pendsv_data[s] \in Ticket

IInv ==
  /\ TypeOK
  /\ CursorIsRead
  /\ NoTornEntry
  /\ FetchedIsEntry
  /\ TicketHeld
  /\ RoomSeen
  /\ ClaimsInWindow
  /\ ClaimsDisjoint
  /\ WindowFilled
  /\ NoLostWakeup

(* The waiting calls as the FIFO they are: the ticket of a slot that is     *)
(* claimed but not filled is the one its handler will store.               *)
Fillers(s) == {i \in Isr : Filling(i, s)}
AnyOf(S) == CHOOSE x \in S : TRUE
EntryIn(s) ==
  IF Fillers(s) = {} THEN pendsv_data[s] ELSE ticket[AnyOf(Fillers(s))]

Waiting == [k \in 1..Used |-> EntryIn(SlotAt(k - 1))]

(* The call whose slot was given back and whose routine is executing.      *)
Running == IF ppc = "call" THEN fetched ELSE None

FIFO == INSTANCE PendSVQueue WITH
          Entry <- Ticket,
          Capacity <- EntryCount - 1,
          queue <- Waiting,
          current <- Running

(* The ring implements the bounded FIFO: every accepted call runs exactly   *)
(* once and in the order in which the slots were claimed.                  *)
ImplementsFIFO == FIFO!Spec

(* A call the enqueue accepted is eventually run, whatever handlers and     *)
(* PendSV do around it.                                                    *)
AcceptedRuns ==
  \A t \in Ticket :
    (\E i \in Isr : pc[i] = "accepted" /\ ticket[i] = t)
      ~> (ppc = "call" /\ fetched = t)
=============================================================================
