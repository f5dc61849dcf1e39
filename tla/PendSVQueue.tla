----------------------------- MODULE PendSVQueue -----------------------------
(***************************************************************************)
(* What the deferred-call queue promises to the code that uses it: a       *)
(* bounded FIFO of calls.  A call that is accepted runs exactly once, after *)
(* every call accepted before it, and one call runs at a time.             *)
(*                                                                         *)
(* PendSV.tla, the detailed model of armv7m_pendsv.c, implements this      *)
(* specification; Timer.tla is built on it.                                *)
(***************************************************************************)
EXTENDS Naturals, Sequences

CONSTANTS
  Entry,      \* the calls (routine, context, data) that may be deferred
  Capacity,   \* how many accepted calls may wait at once
  None        \* no call is running: not a member of Entry

VARIABLES
  queue,      \* the accepted calls that have not been started, oldest first
  current     \* the call PendSV is executing, or None

(* No more calls wait than the capacity allows, and one at most runs.      *)
TypeOK ==
  /\ queue \in Seq(Entry)
  /\ Len(queue) <= Capacity
  /\ current \in Entry \cup {None}

Init ==
  /\ queue = << >>
  /\ current = None

(* armv7m_pendsv_enqueue() that returns a slot.  One that returns NULL     *)
(* changes nothing.                                                        *)
Accept(e) ==
  /\ Len(queue) < Capacity
  /\ queue' = Append(queue, e)
  /\ UNCHANGED current

(* armv7m_pendsv_dequeue() takes the oldest call and starts it.            *)
Start ==
  /\ current = None
  /\ queue # << >>
  /\ current' = Head(queue)
  /\ queue' = Tail(queue)

(* The deferred routine returns.                                           *)
Finish ==
  /\ current # None
  /\ current' = None
  /\ UNCHANGED queue

Next ==
  \/ \E e \in Entry : Accept(e)
  \/ Start
  \/ Finish

Spec == Init /\ [][Next]_<<queue, current>>
=============================================================================
