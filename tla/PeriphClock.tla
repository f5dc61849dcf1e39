----------------------------- MODULE PeriphClock -----------------------------
(***************************************************************************)
(* The clock of a peripheral that several users share, for example of a DMA  *)
(* controller by its channels: stm32l4_system_periph_cond_enable() and       *)
(* _cond_disable() of stm32l4_system.c, as stm32l4_dma.c calls them.  The    *)
(* sleep clocks of the memories (cond_wake, cond_sleep) are the same code on *)
(* another register.                                                       *)
(*                                                                         *)
(* A mask says who uses the peripheral.  Mask and clock register are two     *)
(* words, each changed atomically, and the calls may come from handlers that *)
(* preempt each other anywhere between.  Level 0 is the thread; a level runs *)
(* while no higher one does.                                               *)
(***************************************************************************)
EXTENDS Integers

CONSTANTS
  Users,      \* the channels of a controller: the bits of the mask
  Level       \* the levels that preempt each other, 0..n

ASSUME LevelAssumption == Level \subseteq Nat

VARIABLES
  mask,       \* *p_mask: those who use the peripheral
  clocked,    \* the peripheral's bit in its clock enable register
  at,         \* where each level is in a call
  bits,       \* the argument mask of its call: whom it is for
  seen        \* its local o_mask

condVars == <<mask, clocked, at, bits, seen>>

(* Level l runs: no level above it is in a call.                           *)
Top(l) == \A h \in Level : h > l => at[h] = "idle"

(* Calls for one user do not overlap: they are one driver's.                *)
Free(u) == \A l \in Level : u \notin bits[l]

Resting == \A l \in Level : at[l] = "idle"

Return(l) ==
  /\ at' = [at EXCEPT ![l] = "idle"]
  /\ bits' = [bits EXCEPT ![l] = {}]
  /\ seen' = [seen EXCEPT ![l] = {}]

-----------------------------------------------------------------------------
(* stm32l4_system_periph_cond_enable(): first the mask ...                   *)
CondEnable(l, u) ==
  /\ Top(l) /\ at[l] = "idle"
  /\ Free(u)
  /\ mask' = mask \cup {u}
  /\ at' = [at EXCEPT ![l] = "enable"]
  /\ bits' = [bits EXCEPT ![l] = {u}]
  /\ UNCHANGED <<clocked, seen>>

(* ... and then the clock.                                                  *)
CondClock(l) ==
  /\ Top(l) /\ at[l] = "enable"
  /\ clocked' = TRUE
  /\ Return(l)
  /\ UNCHANGED mask

(* stm32l4_system_periph_cond_disable() for one that uses it ...             *)
CondDisable(l, u) ==
  /\ Top(l) /\ at[l] = "idle"
  /\ Free(u) /\ u \in mask
  /\ seen' = [seen EXCEPT ![l] = mask]
  /\ at' = [at EXCEPT ![l] = "loaded"]
  /\ bits' = [bits EXCEPT ![l] = {u}]
  /\ UNCHANGED <<mask, clocked>>

(* Fault: the clock is only ever switched off.                             *)
CondSwitchOff(l) ==
  /\ Top(l) /\ at[l] = "loaded"
  /\ clocked' = (clocked /\ seen[l] \ bits[l] # {})
  /\ at' = [at EXCEPT ![l] = "exchange"]
  /\ UNCHANGED <<mask, bits, seen>>

(* ... sets the clock to what the mask will say ...                        *)
CondSwitch(l) ==
  /\ Top(l) /\ at[l] = "loaded"
  /\ clocked' = (seen[l] \ bits[l] # {})
  /\ at' = [at EXCEPT ![l] = "exchange"]
  /\ UNCHANGED <<mask, bits, seen>>

(* ... and then the mask, or starts over if that has changed.               *)
CondExchange(l) ==
  /\ Top(l) /\ at[l] = "exchange"
  /\ \/ /\ mask = seen[l]
        /\ mask' = seen[l] \ bits[l]
        /\ Return(l)
     \/ /\ mask # seen[l]
        /\ seen' = [seen EXCEPT ![l] = mask]
        /\ at' = [at EXCEPT ![l] = "loaded"]
        /\ UNCHANGED <<mask, bits>>
  /\ UNCHANGED clocked

-----------------------------------------------------------------------------
CondInit ==
  /\ mask = {}
  /\ clocked = FALSE
  /\ at = [l \in Level |-> "idle"]
  /\ bits = [l \in Level |-> {}]
  /\ seen = [l \in Level |-> {}]

CondStep(l) ==
  \/ \E u \in Users : CondEnable(l, u) \/ CondDisable(l, u)
  \/ CondClock(l) \/ CondSwitch(l) \/ CondExchange(l)

CondNext == \E l \in Level : CondStep(l)

CondSpec == CondInit /\ [][CondNext]_condVars

-----------------------------------------------------------------------------
(* Properties.                                                             *)

CondTypeOK ==
  /\ mask \subseteq Users /\ clocked \in BOOLEAN
  /\ at \in [Level -> {"idle", "enable", "loaded", "exchange"}]
  /\ bits \in [Level -> SUBSET Users] /\ seen \in [Level -> SUBSET Users]

Disabling(l) == at[l] \in {"loaded", "exchange"}

(* Whoever has finished enabling the peripheral has it clocked, whatever the *)
(* other users do meanwhile and wherever they are preempted.  Only while a   *)
(* disable is under way may the clock be off: it switches the clock before   *)
(* it looks whether the mask is still the one it has seen.                  *)
UsersClocked ==
  \A u \in mask :
    \/ clocked
    \/ \E l \in Level : at[l] = "enable" /\ u \in bits[l]
    \/ \E l \in Level : Disabling(l)

(* What makes it inductive: a disable that has left the clock on, because    *)
(* others use the peripheral, finds it on when it comes to the exchange,     *)
(* unless nobody is left or a level above it is in a call.  So the exchange   *)
(* fails, or the clock is right.                                           *)
ClockedAbove(l) ==
  \A u \in mask :
    \/ clocked
    \/ \E h \in Level : h > l /\ at[h] = "enable" /\ u \in bits[h]
    \/ \E h \in Level : h > l /\ Disabling(h)

CondInv ==
  /\ CondTypeOK
  /\ UsersClocked
  /\ \A l \in Level :
       at[l] = "exchange" /\ seen[l] \ bits[l] # {} => ClockedAbove(l)
=============================================================================
