-------------------------------- MODULE Timer --------------------------------
(***************************************************************************)
(* The millisecond timers of armv7m_timer.c, driven by SysTick_Handler of   *)
(* armv7m_systick.c through the deferred-call queue.                       *)
(*                                                                         *)
(* The timers are a list ordered by expiry; each element holds the ticks    *)
(* from its predecessor's expiry to its own.  The list is touched only at   *)
(* the lowest priority: by PendSV, and by the thread through SVCall, whose  *)
(* priority is the same.  An interrupt handler that starts or stops a timer *)
(* defers the work to PendSV and, to stop it, clears bit 0 of the callback  *)
(* at once, so that the timer does not fire before the deferred removal.   *)
(*                                                                         *)
(* queue and current are those of PendSVQueue, which PendSV.tla implements. *)
(* Interrupt handlers act between any two steps of PendSV.  The variables   *)
(* under "history" are read by the properties only.                        *)
(***************************************************************************)
EXTENDS Integers, FiniteSets, SequencesExt

CONSTANTS
  Timers,      \* the armv7m_timer_t objects
  MaxTimeout,  \* bound: timeouts are 0..MaxTimeout
  MaxMillis,   \* bound: the number of ticks
  Word,        \* 2^32: remaining is a uint32_t
  MaxCalls,    \* bound: the number of starts and stops
  Capacity,    \* calls that PendSV's queue can hold
  None

ASSUME BoundAssumption ==
  /\ MaxTimeout \in Nat \ {0}
  /\ MaxMillis \in Nat
  /\ MaxCalls \in Nat
  /\ Word \in Nat /\ Word > MaxTimeout
  /\ Capacity \in Nat \ {0}

VARIABLES
  list,          \* armv7m_timer_control.next, ...: the linked timers in order
  remaining,     \* timer->remaining (0 of a timer that is not linked)
  enabled,       \* bit 0 of timer->callback
  millis,        \* armv7m_systick_control.millis
  timer_millis,  \* armv7m_timer_control.millis
  queue,         \* the deferred calls
  current,       \* the deferred call PendSV runs
  phase,         \* where armv7m_timer_callback is
  callback,      \* its local callback: was bit 0 set when it was read?
  stopping,      \* timers an armv7m_timer_stop has queued but not yet disabled
  calls,         \* the number of starts and stops made
  due,           \* history: the tick at which a linked timer should expire
  wanted,        \* history: the timers that were started and not stopped since
  silent,        \* history: the timers a handler stopped with no request pending
  disturbed,     \* history: a timer was unlinked too early, or linked too late
  dropped        \* history: the ticks that found the queue full

codeVars == <<list, remaining, enabled, millis, timer_millis, phase, callback,
              stopping, calls>>
history == <<due, wanted, silent, disturbed, dropped>>
vars == <<codeVars, queue, current, history>>

Timeout == 0..MaxTimeout

(* The deferred calls.  An insertion carries, for the properties only, the  *)
(* tick at which its caller expects the timer to expire.                   *)
Insertion == [op : {"insert"}, timer : Timers, timeout : Timeout,
              due : 0..MaxMillis + MaxTimeout]
Removal == [op : {"remove"}, timer : Timers]
Tick == [op : {"tick"}, millis : 1..MaxMillis]

ASSUME NoneAssumption == None \notin Insertion \cup Removal \cup Tick

Queue == INSTANCE PendSVQueue WITH Entry <- Insertion \cup Removal \cup Tick

-----------------------------------------------------------------------------
(* The list.                                                               *)

Linked(t) == \E i \in 1..Len(list) : list[i] = t

(* The ticks until the i-th element of list l expires.                     *)
TicksTo(l, r, i) ==
  LET ticks[j \in 0..i] == IF j = 0 THEN 0 ELSE ticks[j - 1] + r[l[j]]
  IN ticks[i]

Without(l, t) == RemoveFirst(l, t)

(* Fault: a linked timer is linked again.                                  *)
LinkAgain(t, timeout) ==
  LET passed == Max({i \in 0..Len(list) : TicksTo(list, remaining, i) <= timeout})
      ticks == timeout - TicksTo(list, remaining, passed)
  IN /\ list' = InsertAt(list, passed + 1, t)
     /\ remaining' = [u \in Timers |->
          CASE u = t -> ticks
            [] passed < Len(list) /\ u = list[passed + 1] -> remaining[u] - ticks
            [] OTHER -> remaining[u]]

(* Fault: the successor keeps its ticks.                                   *)
LinkUndiminished(t, timeout) ==
  LET l == Without(list, t)
      passed == Max({i \in 0..Len(l) : TicksTo(l, remaining, i) <= timeout})
      ticks == timeout - TicksTo(l, remaining, passed)
  IN /\ list' = InsertAt(l, passed + 1, t)
     /\ remaining' = [remaining EXCEPT ![t] = ticks]

(* armv7m_timer_insert: t is unlinked if it is linked, walks past every     *)
(* element that expires no later, and takes its remaining ticks from the    *)
(* element it stops at.                                                    *)
Link(t, timeout) ==
  LET l == Without(list, t)
      passed == Max({i \in 0..Len(l) : TicksTo(l, remaining, i) <= timeout})
      ticks == timeout - TicksTo(l, remaining, passed)
  IN /\ list' = InsertAt(l, passed + 1, t)
     /\ remaining' = [u \in Timers |->
          CASE u = t -> ticks
            [] passed < Len(l) /\ u = l[passed + 1] -> remaining[u] - ticks
            [] OTHER -> remaining[u]]

(* armv7m_timer_remove: the successor does not get the ticks of t.         *)
Unlink(t) ==
  /\ list' = Without(list, t)
  /\ remaining' = [remaining EXCEPT ![t] = 0]
  /\ enabled' = [enabled EXCEPT ![t] = TRUE]

(* The requests for t that PendSV has not run.                             *)
Pending(t) ==
  \/ \E i \in 1..Len(queue) : queue[i].op # "tick" /\ queue[i].timer = t
  \/ current # None /\ current.op # "tick" /\ current.timer = t

(* The tick PendSV has counted up to: within armv7m_timer_callback the tick *)
(* is counted in the list before it is counted in timer_millis.            *)
Now == IF phase \in {"expire", "unlink", "call"} THEN timer_millis + 1
                                                 ELSE timer_millis

(* Unlinking t makes those behind it early by what t had left; one that     *)
(* expires with t becomes the head with 0 ticks left, and the next tick     *)
(* wraps them.                                                             *)
Disturbs(t) == Linked(t) /\ remaining[t] > 0 /\ list[Len(list)] # t

(* armv7m_timer_start takes a timeout of 0.  Only a callback may use it, as  *)
(* the loop that runs callbacks looks at the head again; linked at any other *)
(* time the timer is the head with no ticks left, and the next tick, which   *)
(* counts before it looks, wraps them: it and all behind it expire 2^32      *)
(* ticks late.                                                             *)
Wraps(timeout) == timeout = 0 /\ phase # "call"

-----------------------------------------------------------------------------
(* Interrupt handlers.                                                     *)

(* SysTick_Handler: armv7m_timer_callback is deferred, with the tick.       *)
SysTick ==
  /\ millis < MaxMillis
  /\ millis' = millis + 1
  /\ \/ /\ Queue!Accept([op |-> "tick", millis |-> millis + 1])
        /\ UNCHANGED dropped
     \/ /\ Len(queue) = Capacity
        /\ dropped' = dropped \cup {millis + 1}
        /\ UNCHANGED <<queue, current>>
  /\ UNCHANGED <<list, remaining, enabled, timer_millis, phase, callback, stopping,
                 calls, due, wanted, silent, disturbed>>

(* armv7m_timer_start() in a handler; it returns FALSE, and changes         *)
(* nothing, if the queue is full.                                          *)
IsrStart(t, timeout) ==
  /\ calls < MaxCalls
  /\ calls' = calls + 1
  /\ Queue!Accept([op |-> "insert", timer |-> t, timeout |-> timeout,
                   due |-> millis + timeout])
  /\ wanted' = wanted \cup {t}
  /\ silent' = silent \ {t}
  /\ UNCHANGED <<list, remaining, enabled, millis, timer_millis, phase, callback,
                 stopping, due, disturbed, dropped>>

(* armv7m_timer_stop() in a handler: the removal is deferred ...           *)
IsrStop(t) ==
  /\ t \notin stopping
  /\ calls < MaxCalls
  /\ calls' = calls + 1
  /\ Queue!Accept([op |-> "remove", timer |-> t])
  /\ stopping' = stopping \cup {t}
  /\ wanted' = wanted \ {t}
  /\ silent' = IF Pending(t) THEN silent ELSE silent \cup {t}
  /\ UNCHANGED <<list, remaining, enabled, millis, timer_millis, phase, callback, due,
                 disturbed, dropped>>

(* Fault: the bit is left alone.                                          *)
IsrDisableNothing(t) ==
  /\ t \in stopping
  /\ stopping' = stopping \ {t}
  /\ UNCHANGED <<list, remaining, enabled, millis, timer_millis, queue, current, phase,
                 callback, calls, history>>

(* ... and then bit 0 of the callback is cleared.                          *)
IsrDisable(t) ==
  /\ t \in stopping
  /\ stopping' = stopping \ {t}
  /\ enabled' = [enabled EXCEPT ![t] = FALSE]
  /\ UNCHANGED <<list, remaining, millis, timer_millis, queue, current, phase, callback,
                 calls, history>>

-----------------------------------------------------------------------------
(* The lowest priority runs when no handler is active.                     *)
NoHandler == stopping = {}

(* armv7m_timer_insert and armv7m_timer_remove, called directly.  Requests  *)
(* of handlers that are still queued take effect after this one.           *)
DirectStart(t, timeout) ==
  /\ calls < MaxCalls
  /\ calls' = calls + 1
  /\ Link(t, timeout)
  /\ due' = [due EXCEPT ![t] = Now + timeout]
  /\ disturbed' = (disturbed \/ Disturbs(t) \/ Wraps(timeout))
  /\ wanted' = IF Pending(t) THEN wanted ELSE wanted \cup {t}
  /\ silent' = silent \ {t}
  /\ UNCHANGED <<enabled, millis, timer_millis, stopping, dropped>>

DirectStop(t) ==
  /\ calls < MaxCalls
  /\ calls' = calls + 1
  /\ Unlink(t)
  /\ disturbed' = (disturbed \/ Disturbs(t))
  /\ wanted' = IF Pending(t) THEN wanted ELSE wanted \ {t}
  /\ UNCHANGED <<millis, timer_millis, stopping, due, silent, dropped>>

(* The thread starts or stops a timer through SVCall.  PendSV cannot        *)
(* preempt SVCall, nor can the thread run while PendSV is active.          *)
ThreadCall ==
  /\ NoHandler
  /\ current = None
  /\ \/ \E t \in Timers, timeout \in Timeout : DirectStart(t, timeout)
     \/ \E t \in Timers : DirectStop(t)
  /\ UNCHANGED <<queue, current, phase, callback>>

(* PendSV takes the next deferred call.                                    *)
Dispatch ==
  /\ NoHandler
  /\ Queue!Start
  /\ phase' = IF Head(queue).op = "tick" THEN "count" ELSE "idle"
  /\ UNCHANGED <<list, remaining, enabled, millis, timer_millis, callback, stopping,
                 calls, history>>

RunInsert ==
  /\ NoHandler
  /\ current # None
  /\ current.op = "insert"
  /\ Link(current.timer, current.timeout)
  /\ due' = [due EXCEPT ![current.timer] = current.due]
  /\ disturbed' = (disturbed \/ Disturbs(current.timer) \/ Wraps(current.timeout))
  /\ Queue!Finish
  /\ UNCHANGED <<enabled, millis, timer_millis, phase, callback, stopping, calls,
                 wanted, silent, dropped>>

RunRemove ==
  /\ NoHandler
  /\ current # None
  /\ current.op = "remove"
  /\ Unlink(current.timer)
  /\ disturbed' = (disturbed \/ Disturbs(current.timer))
  /\ Queue!Finish
  /\ UNCHANGED <<millis, timer_millis, phase, callback, stopping, calls, due, wanted,
                 silent, dropped>>

(* Fault: remaining is signed.                                             *)
CountSigned ==
  /\ NoHandler
  /\ phase = "count"
  /\ timer_millis # current.millis
  /\ remaining' = IF list = << >> THEN remaining
                  ELSE [remaining EXCEPT ![Head(list)] = @ - 1]
  /\ phase' = "expire"
  /\ UNCHANGED <<list, enabled, millis, timer_millis, callback, stopping, calls, queue,
                 current, history>>

(* The outer loop of armv7m_timer_callback: count the ticks up to the one   *)
(* it was deferred with, also those whose own call was dropped.            *)
Count ==
  /\ NoHandler
  /\ phase = "count"
  /\ timer_millis # current.millis
  /\ remaining' = IF list = << >> THEN remaining
                  ELSE [remaining EXCEPT ![Head(list)] = (@ - 1) % Word]
  /\ phase' = "expire"
  /\ UNCHANGED <<list, enabled, millis, timer_millis, callback, stopping, calls, queue,
                 current, history>>

CountDone ==
  /\ NoHandler
  /\ phase = "count"
  /\ timer_millis = current.millis
  /\ phase' = "idle"
  /\ Queue!Finish
  /\ UNCHANGED <<list, remaining, enabled, millis, timer_millis, callback, stopping,
                 calls, history>>

Expired == list # << >> /\ remaining[Head(list)] = 0

(* The inner loop: callback = timer->callback of an expired head.          *)
ReadCallback ==
  /\ NoHandler
  /\ phase = "expire"
  /\ Expired
  /\ callback' = enabled[Head(list)]
  /\ phase' = "unlink"
  /\ UNCHANGED <<list, remaining, enabled, millis, timer_millis, stopping, calls, queue,
                 current, history>>

(* armv7m_timer_remove(timer), and the test of the callback read before.   *)
Expire ==
  LET t == Head(list) IN
  /\ NoHandler
  /\ phase = "unlink"
  /\ Unlink(t)
  /\ phase' = IF callback THEN "call" ELSE "expire"
  /\ wanted' = IF Pending(t) THEN wanted ELSE wanted \ {t}
  /\ UNCHANGED <<millis, timer_millis, callback, stopping, calls, queue, current, due,
                 silent, disturbed, dropped>>

(* The timer's callback runs; it may itself start or stop a timer.         *)
RunCallback ==
  /\ NoHandler
  /\ phase = "call"
  /\ phase' = "expire"
  /\ callback' = FALSE
  /\ \/ \E t \in Timers, timeout \in Timeout : DirectStart(t, timeout)
     \/ \E t \in Timers : DirectStop(t)
     \/ UNCHANGED <<list, remaining, enabled, millis, timer_millis, stopping, calls,
                    history>>
  /\ UNCHANGED <<queue, current>>

(* Fault: a call counts one tick only.                                     *)
NextTickOnce ==
  /\ NoHandler
  /\ phase = "expire"
  /\ ~Expired
  /\ timer_millis' = timer_millis + 1
  /\ phase' = "idle"
  /\ Queue!Finish
  /\ UNCHANGED <<list, remaining, enabled, millis, callback, stopping, calls, history>>

NextTick ==
  /\ NoHandler
  /\ phase = "expire"
  /\ ~Expired
  /\ timer_millis' = timer_millis + 1
  /\ phase' = "count"
  /\ UNCHANGED <<list, remaining, enabled, millis, callback, stopping, calls, queue,
                 current, history>>

-----------------------------------------------------------------------------
(* armv7m_timer_create() of each timer and armv7m_timer_initialize().       *)
Init ==
  /\ list = << >>
  /\ remaining = [t \in Timers |-> 0]
  /\ enabled = [t \in Timers |-> TRUE]
  /\ millis = 0
  /\ timer_millis = 0
  /\ Queue!Init
  /\ phase = "idle"
  /\ callback = FALSE
  /\ stopping = {}
  /\ calls = 0
  /\ due = [t \in Timers |-> 0]
  /\ wanted = {}
  /\ silent = {}
  /\ disturbed = FALSE
  /\ dropped = {}

Next ==
  \/ SysTick
  \/ \E t \in Timers, timeout \in Timeout : IsrStart(t, timeout)
  \/ \E t \in Timers : IsrStop(t) \/ IsrDisable(t)
  \/ ThreadCall
  \/ Dispatch
  \/ RunInsert
  \/ RunRemove
  \/ Count
  \/ CountDone
  \/ ReadCallback
  \/ Expire
  \/ RunCallback
  \/ NextTick

Spec == Init /\ [][Next]_vars

-----------------------------------------------------------------------------
(* Properties.                                                             *)

(* The fields keep their ranges: the ticks of armv7m_timer_insert and of    *)
(* armv7m_timer_callback are subtracted from an unsigned word.             *)
TypeOK ==
  /\ list \in Seq(Timers)
  /\ remaining \in [Timers -> 0..Word - 1]
  /\ enabled \in [Timers -> BOOLEAN]
  /\ millis \in 0..MaxMillis
  /\ timer_millis \in 0..MaxMillis
  /\ Queue!TypeOK
  /\ phase \in {"idle", "count", "expire", "unlink", "call"}
  /\ callback \in BOOLEAN
  /\ stopping \subseteq Timers
  /\ calls \in 0..MaxCalls
  /\ due \in [Timers -> 0..MaxMillis + MaxTimeout]
  /\ wanted \subseteq Timers
  /\ silent \subseteq Timers
  /\ disturbed \in BOOLEAN
  /\ dropped \subseteq 1..MaxMillis

Expiry(i) == Now + TicksTo(list, remaining, i)

(* As long as no pending timer was restarted or stopped in front of others  *)
(* (armv7m_timer_remove forgets its remaining ticks), and none was started   *)
(* with a timeout of 0 but by a callback (the next tick wraps it), no timer   *)
(* expires after the tick it was started for, however late PendSV runs, and   *)
(* none expires before it unless a tick found the queue full.               *)
OnTime ==
  ~disturbed =>
    \A i \in 1..Len(list) :
      /\ Expiry(i) <= due[list[i]]
      /\ dropped = {} => Expiry(i) = due[list[i]]

(* Once no request for it is pending, a timer is linked, and once only, iff *)
(* the last request was to start it and it has not expired since.          *)
LinkedIffWanted ==
  \A t \in Timers :
    ~Pending(t) =>
      Cardinality({i \in 1..Len(list) : list[i] = t}) = IF t \in wanted THEN 1 ELSE 0

(* When the queue has drained, the timers have counted every tick, also    *)
(* those that found it full, unless the last one was among them.           *)
CaughtUp ==
  queue = << >> /\ current = None /\ millis \notin dropped => timer_millis = millis

(* A timer that a handler stopped, with no earlier request for it pending,  *)
(* does not fire unless its callback had already been read: the bit hides   *)
(* the time the removal waits in the queue.                                *)
StopSilences ==
  [][ReadCallback /\ callback' => Head(list) \notin silent]_vars
=============================================================================
