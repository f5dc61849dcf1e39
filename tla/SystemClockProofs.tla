-------------------------- MODULE SystemClockProofs --------------------------
(***************************************************************************)
(* Proofs about SystemClock: for any users of the oscillators and of the      *)
(* peripheral clocks, any frequencies and any levels of preemption, what is  *)
(* held runs, and the voltage range and the wait states fit.                *)
(*                                                                         *)
(* The argument: a counted source runs exactly when its count is not zero,   *)
(* and the count is the number of its holders (CountsRight, CountedRun).  The *)
(* PLLs have no count: saiclk_configure() decides in several steps, and       *)
(* PllsRun says for each which PLL is settled already.  RangeRight does the   *)
(* same for the voltage range, and WaitStates for the latency that            *)
(* sysclk_configure() has chosen before it masks the interrupts.            *)
(***************************************************************************)
EXTENDS SystemClock, FiniteSetTheorems, TLAPS

-----------------------------------------------------------------------------
(* PeriphClock: a peripheral is clocked for whoever has enabled it, for any   *)
(* number of users and of levels that preempt each other.                   *)

(* The level that moves is above every level that is in a call.              *)
LEMMA TopLevel ==
  ASSUME NEW l \in Level, Top(l), NEW h \in Level, at[h] # "idle"
  PROVE  h <= l
  BY LevelAssumption DEF Top

LEMMA CondEnableKeeps ==
  ASSUME CondInv, NEW l \in Level, NEW u \in Users, CondEnable(l, u)
  PROVE  CondInv'
<1>1. CondTypeOK'
  BY DEF CondInv, CondTypeOK, CondEnable
<1>2. UsersClocked'
  BY DEF CondInv, CondTypeOK, UsersClocked, Disabling, CondEnable
<1>3. ASSUME NEW k \in Level, at'[k] = "exchange", seen'[k] \ bits'[k] # {}
      PROVE  ClockedAbove(k)'
  <2>1. k # l /\ at[k] = "exchange" /\ seen[k] \ bits[k] # {}
    BY <1>3 DEF CondInv, CondTypeOK, CondEnable
  <2>2. ClockedAbove(k) /\ l > k
    BY <2>1, TopLevel, LevelAssumption DEF CondInv, CondEnable
  <2> QED  BY <2>2 DEF CondInv, CondTypeOK, ClockedAbove, Disabling, CondEnable
<1> QED  BY <1>1, <1>2, <1>3 DEF CondInv

LEMMA CondClockKeeps ==
  ASSUME CondInv, NEW l \in Level, CondClock(l)
  PROVE  CondInv'
<1>1. CondTypeOK'
  BY DEF CondInv, CondTypeOK, CondClock, Return
<1>2. UsersClocked'
  BY DEF UsersClocked, CondClock
<1>3. \A k \in Level : ClockedAbove(k)'
  BY DEF ClockedAbove, CondClock
<1> QED  BY <1>1, <1>2, <1>3 DEF CondInv

LEMMA CondDisableKeeps ==
  ASSUME CondInv, NEW l \in Level, NEW u \in Users, CondDisable(l, u)
  PROVE  CondInv'
<1>1. CondTypeOK'
  BY DEF CondInv, CondTypeOK, CondDisable
<1>2. UsersClocked'
  BY DEF CondInv, CondTypeOK, UsersClocked, Disabling, CondDisable
<1>3. ASSUME NEW k \in Level, at'[k] = "exchange", seen'[k] \ bits'[k] # {}
      PROVE  ClockedAbove(k)'
  <2>1. k # l /\ at[k] = "exchange"
    BY <1>3 DEF CondInv, CondTypeOK, CondDisable
  <2>2. l > k /\ at'[l] = "loaded"
    BY <2>1, TopLevel, LevelAssumption DEF CondInv, CondTypeOK, CondDisable
  <2> QED  BY <2>2 DEF ClockedAbove, Disabling
<1> QED  BY <1>1, <1>2, <1>3 DEF CondInv

LEMMA CondSwitchKeeps ==
  ASSUME CondInv, NEW l \in Level, CondSwitch(l)
  PROVE  CondInv'
<1>1. CondTypeOK'
  BY DEF CondInv, CondTypeOK, CondSwitch
<1>2. UsersClocked'
  BY DEF CondInv, CondTypeOK, UsersClocked, Disabling, CondSwitch
<1>3. ASSUME NEW k \in Level, at'[k] = "exchange", seen'[k] \ bits'[k] # {}
      PROVE  ClockedAbove(k)'
  <2>1. CASE k = l
    BY <1>3, <2>1 DEF ClockedAbove, CondSwitch
  <2>2. CASE k # l
    <3>1. at[k] = "exchange"
      BY <1>3, <2>2 DEF CondInv, CondTypeOK, CondSwitch
    <3>2. l > k /\ at'[l] = "exchange"
      BY <2>2, <3>1, TopLevel, LevelAssumption DEF CondInv, CondTypeOK, CondSwitch
    <3> QED  BY <3>2 DEF ClockedAbove, Disabling
  <2> QED  BY <2>1, <2>2
<1> QED  BY <1>1, <1>2, <1>3 DEF CondInv

LEMMA CondExchangeKeeps ==
  ASSUME CondInv, NEW l \in Level, CondExchange(l)
  PROVE  CondInv'
<1>1. CondTypeOK'
  BY DEF CondInv, CondTypeOK, CondExchange, Return
<1>2. CASE mask # seen[l]
  <2>1. at' = [at EXCEPT ![l] = "loaded"] /\ UNCHANGED <<mask, clocked, bits>>
    BY <1>2 DEF CondExchange
  <2>2. UsersClocked'
    BY <2>1 DEF CondInv, CondTypeOK, UsersClocked, Disabling, CondExchange
  <2>3. ASSUME NEW k \in Level, at'[k] = "exchange", seen'[k] \ bits'[k] # {}
        PROVE  ClockedAbove(k)'
    <3>1. k # l /\ at[k] = "exchange"
      BY <2>1, <2>3 DEF CondInv, CondTypeOK
    <3>2. l > k /\ at'[l] = "loaded"
      BY <2>1, <3>1, TopLevel, LevelAssumption DEF CondInv, CondTypeOK, CondExchange
    <3> QED  BY <3>2 DEF ClockedAbove, Disabling
  <2> QED  BY <1>1, <2>2, <2>3 DEF CondInv
(* No level above l is in a call, so the clock is on if anybody is left.     *)
<1>3. CASE mask = seen[l]
  <2>1. mask' = mask \ bits[l] /\ Return(l) /\ UNCHANGED clocked
    BY <1>3 DEF CondExchange
  <2>2. \A h \in Level : h > l => at[h] = "idle"
    BY DEF CondExchange, Top
  <2>3. mask' # {} => clocked
    <3>1. mask' # {} => ClockedAbove(l)
      BY <1>3, <2>1 DEF CondInv, CondExchange
    <3> QED  BY <2>1, <2>2, <3>1 DEF ClockedAbove, Disabling
  <2>4. UsersClocked' /\ \A k \in Level : ClockedAbove(k)'
    BY <2>1, <2>3 DEF UsersClocked, ClockedAbove
  <2> QED  BY <1>1, <2>4 DEF CondInv
<1> QED  BY <1>2, <1>3

LEMMA CondStepKeeps ==
  ASSUME CondInv, CondNext
  PROVE  CondInv'
<1>1. PICK l \in Level : CondStep(l)
  BY DEF CondNext
<1> QED
  BY <1>1, CondEnableKeeps, CondClockKeeps, CondDisableKeeps, CondSwitchKeeps,
    CondExchangeKeeps DEF CondStep

(* What PeriphClock keeps between the steps of its enables and disables.     *)
THEOREM CondInvariance == CondSpec => []CondInv
<1>1. CondInit => CondInv
  BY DEF CondInit, CondInv, CondTypeOK, UsersClocked
<1>2. CondInv /\ UNCHANGED condVars => CondInv'
  BY DEF condVars, CondInv, CondTypeOK, UsersClocked, ClockedAbove, Disabling
<1>3. CondInv /\ [CondNext]_condVars => CondInv'
  BY CondStepKeeps, <1>2
<1> QED  BY <1>1, <1>3, PTL DEF CondSpec

(* Whoever has finished enabling a peripheral has it clocked, but for the      *)
(* moment in which a disable of another user is under way:                    *)
(* stm32l4_system_periph_cond_enable() and _cond_disable().                   *)
THEOREM PeripheralClocked == CondSpec => []UsersClocked
<1>1. CondInv => UsersClocked
  BY DEF CondInv
<1> QED  BY CondInvariance, <1>1, PTL

(* Masks, copies and levels keep their types.                               *)
THEOREM CondTypeCorrect == CondSpec => []CondTypeOK
<1>1. CondInv => CondTypeOK
  BY DEF CondInv
<1> QED  BY CondInvariance, <1>1, PTL

-----------------------------------------------------------------------------
(* SystemClock.                                                            *)

USE DEF Raising, Lowering

One(p) == IF p THEN 1 ELSE 0

(* A count is the number of those who hold the source, ...                  *)
CountsRight ==
  /\ counts["HSI16"] = Cardinality(users16) + One(mco = "HSI16")
  /\ counts["HSI48"] = One(chip # "L476" /\ clk48 # {}) + One(mco = "HSI48")
  /\ counts["LSI"] = One(~Lse) + One(mco = "LSI") + One(lsco = "LSI")

(* ... and it runs when there is one.                                       *)
CountedRun ==
  /\ "HSI16" \in on <=> counts["HSI16"] # 0
  /\ "HSI48" \in on <=> counts["HSI48"] # 0
  /\ "LSI" \in on <=> counts["LSI"] # 0

(* Which steps of saiclk_configure() a part goes through, and with what.     *)
Path ==
  /\ chip = "L476" => pc \notin {"reset", "resetstore", "start", "startstore", "record"}
  /\ chip # "L476" =>
       pc \in {"idle", "configure", "reset", "resetstore", "start", "startstore", "record"}
  /\ clock \in AudioSources \cup {"none"}
  /\ pc \in {"range1"} \cup Raising \cup Lowering => saiclk = "none"
  /\ pc \in {"range1", "pllon", "pllonstore", "start", "startstore"} \cup Raising => clock # "none"
  /\ pc = "off1store" => saiclk # "PLLSAI1"
  /\ pc = "off2store" => saiclk # "PLLSAI2"
  /\ pc \in {"pllonstore", "off1store", "off2store", "resetstore", "startstore"} =>
       cr \subseteq InCR

(* The system clock and its oscillators run.                                *)
SystemRuns ==
  /\ Oscillators(hclk) \subseteq on
  /\ sysclk = IF hclk <= 24 THEN "MSI" ELSE "PLL"

(* The PLLs: what is needed runs, and from some step on nothing else does.    *)
NeedPll1 == saiclk = "PLLSAI1" \/ (chip = "L476" /\ clk48 # {})

PllsRun ==
  /\ chip = "L476" => (NeedPll1 => "PLLSAI1" \in on) /\ (saiclk = "PLLSAI2" => "PLLSAI2" \in on)
  /\ chip # "L476" => "PLLSAI2" \notin on
  /\ pc = "set" /\ clock # "none" => clock \in on
  /\ pc = "off1store" => clk48 = {}
  /\ pc \in {"idle", "configure", "range1", "off2", "off2store", "range2test", "reset"}
              \cup Raising \cup Lowering =>
       ("PLLSAI1" \in on <=> NeedPll1)
  /\ pc \in {"idle", "configure", "range1", "range2test"} \cup Raising \cup Lowering =>
       ("PLLSAI2" \in on <=> saiclk = "PLLSAI2")
  /\ pc \in {"start", "startstore"} => clock = "PLLSAI1"
  /\ pc = "record" => ("PLLSAI1" \in on <=> clock = "PLLSAI1")

(* The voltage range, and where audio is being set up or has just gone.      *)
RangeRight ==
  /\ range = 2 => hclk <= 24 /\ ~Clk48HoldsRange /\ ~AudioHoldsRange
  /\ lpr => range = 2 /\ hclk <= 2
  /\ chip = "L476" /\ pc \in {"latency1", "pllon", "pllonstore", "set"} /\ clock # "none" => range = 1
  /\ chip # "L476" \/ pc \in {"idle", "configure", "range1"} => range = RangeOf(hclk)
  /\ pc \in Lowering => ~Clk48HoldsRange
  /\ pc \in {"vos", "vosstore"} => ~lpr
  /\ pc = "vosstore" => "LPR" \notin cr
  /\ pc = "vos2store" /\ "LPR" \in cr => hclk <= 2
  /\ pc \in {"lprun", "lprunstore"} => range = 2 /\ hclk <= 2
  /\ pc = "lprunstore" => "VOS2" \in cr

(* The wait states, and those that sysclk_configure() is about to set.       *)
WaitStates ==
  /\ latency >= (IF range = 2 THEN Latency2(hclk) ELSE Latency1(hclk))
  /\ pc = "configure" => wanted \in Hclk /\ ws >= LatencyOf(wanted)
  /\ pc \in Lowering \ {"range2"} => hclk <= 24 /\ latency >= Latency2(hclk)

Good == CountedRun /\ Path /\ SystemRuns /\ PllsRun /\ RangeRight /\ WaitStates
ClockInv == ClockTypeOK /\ CountsRight /\ (mishap = "none" => Good)

-----------------------------------------------------------------------------
(* Wait states, and numbers of holders.                                    *)

(* No wait states are needed in range 1 that are not in range 2.             *)
LEMMA Latencies ==
  \A h \in Hclk :
    /\ Latency1(h) \in 0..4 /\ Latency2(h) \in 0..4
    /\ h <= 24 => Latency1(h) <= Latency2(h)
<1> SUFFICES ASSUME NEW h \in Hclk
             PROVE  /\ Latency1(h) \in 0..4 /\ Latency2(h) \in 0..4
                    /\ h <= 24 => Latency1(h) <= Latency2(h)
  OBVIOUS
<1> DEFINE S1 == {16, 32, 48, 64}
           S2 == {6, 12, 18}
           A == {f \in S1 : h > f}
           B == {f \in S2 : h > f}
<1>1. h \in 1..80
  BY ClockAssumption
<1>2. /\ IsFiniteSet(S1) /\ Cardinality(S1) <= 4
      /\ IsFiniteSet(S2) /\ Cardinality(S2) <= 4
  <2>1. \A n \in Nat \ {0} : IsFiniteSet(1..n) /\ Cardinality(1..n) = n
    BY FS_Interval
  <2>2. IsFiniteSet(1..4) /\ Cardinality(1..4) = 4 /\ IsFiniteSet(1..3) /\ Cardinality(1..3) = 3
    <3>1. 4 \in Nat \ {0} /\ 3 \in Nat \ {0}
      OBVIOUS
    <3> QED  BY <2>1, <3>1, Zenon
  <2>3. [i \in 1..4 |-> 16 * i] \in Surjection(1..4, S1)
    BY DEF Surjection
  <2>4. [i \in 1..3 |-> 6 * i] \in Surjection(1..3, S2)
    BY DEF Surjection
  <2> HIDE DEF S1, S2
  <2>5. /\ IsFiniteSet(S1) /\ Cardinality(S1) <= Cardinality(1..4)
        /\ IsFiniteSet(S2) /\ Cardinality(S2) <= Cardinality(1..3)
    BY <2>2, <2>3, <2>4, FS_Surjection
  <2>6. Cardinality(S2) \in Nat
    BY <2>5, FS_CardinalityType
  <2> QED  BY <2>2, <2>5, <2>6
<1>3. /\ IsFiniteSet(A) /\ Cardinality(A) <= Cardinality(S1)
      /\ IsFiniteSet(B) /\ Cardinality(B) <= Cardinality(S2)
  <2> HIDE DEF S1, S2
  <2> QED  BY <1>2, FS_Subset
<1>4. /\ Cardinality(A) \in Nat /\ Cardinality(B) \in Nat
      /\ Cardinality(S1) \in Nat /\ Cardinality(S2) \in Nat
  BY <1>2, <1>3, FS_CardinalityType
<1>5. ASSUME h <= 24 PROVE Cardinality(A) <= Cardinality(B)
  <2>1. CASE h <= 16
    <3>1. A = {}
      BY <1>1, <2>1
    <3> QED  BY <1>4, <3>1, FS_EmptySet
  <2>2. CASE h > 16
    <3>1. A = {16} /\ 6 \in B
      BY <1>1, <1>5, <2>2
    <3>2. Cardinality(A) = 1 /\ Cardinality(B) # 0
      BY <1>3, <3>1, FS_Singleton, FS_EmptySet
    <3> QED  BY <1>4, <3>2
  <2> QED  BY <1>1, <2>1, <2>2
<1> QED  BY <1>2, <1>3, <1>4, <1>5 DEF Latency1, Latency2

(* The drivers that hold HSI16 are not more than there are.                  *)
LEMMA UsersFinite ==
  ASSUME NEW U \in SUBSET Users16
  PROVE  /\ IsFiniteSet(U)
         /\ Cardinality(U) \in Nat /\ Cardinality(Users16) \in Nat
         /\ Cardinality(U) <= Cardinality(Users16)
  BY ClockAssumption, FS_Subset, FS_CardinalityType

(* So no count exceeds the number of drivers and three more.                 *)
Sources == {"LSI", "HSI16", "HSI48"}

LEMMA CountsFit ==
  ASSUME NEW U \in SUBSET Users16, NEW f \in [Sources -> Int],
         f["HSI16"] \in {Cardinality(U), Cardinality(U) + 1},
         f["HSI48"] \in 0..2, f["LSI"] \in 0..3
  PROVE  f \in [Sources -> 0..Cardinality(Users16) + 3]
<1>1. /\ Cardinality(U) \in Nat /\ Cardinality(Users16) \in Nat
      /\ Cardinality(U) <= Cardinality(Users16)
  BY UsersFinite
<1>2. \A s \in Sources : f[s] \in 0..Cardinality(Users16) + 3
  BY <1>1 DEF Sources
<1> QED  BY <1>2

-----------------------------------------------------------------------------
(* The counted sources.                                                    *)

(* What the calls that move a count leave alone stays right.                 *)
LEMMA OthersKeep ==
  ASSUME ClockTypeOK, Path, SystemRuns, PllsRun, RangeRight, WaitStates,
         UNCHANGED <<chip, hclk, saiclk, clk48, sysclk, powerVars, threadVars>>,
         \A s \in InCR \ {"HSI16"} : s \in on' <=> s \in on
  PROVE  (Path /\ SystemRuns /\ PllsRun /\ RangeRight /\ WaitStates)'
<1>1. UNCHANGED <<chip, hclk, saiclk, clk48, sysclk, range, lpr, latency, pc, clock, cr, wanted, ws>>
  BY DEF powerVars, threadVars
<1>2. \A s \in {"MSI", "HSE", "PLL", "PLLSAI1", "PLLSAI2"} : s \in on' <=> s \in on
  BY DEF InCR
<1>3. Path'
  BY <1>1 DEF Path, AudioSources
<1>4. SystemRuns'
  BY <1>1, <1>2 DEF SystemRuns, Oscillators
<1>5. PllsRun'
  BY <1>1, <1>2 DEF ClockTypeOK, PllsRun, NeedPll1
<1>6. RangeRight' /\ WaitStates'
  BY <1>1 DEF RangeRight, WaitStates, RangeOf, LatencyOf, Clk48HoldsRange, AudioHoldsRange
<1> QED  BY <1>3, <1>4, <1>5, <1>6

LEMMA CountedKeeps ==
  ASSUME ClockInv, mishap = "none",
         UNCHANGED <<chip, hclk, saiclk, clk48, sysclk, powerVars, threadVars, mishap>>,
         users16' \in SUBSET Users16, mco' \in McoModes, lsco' \in {"none", "LSI"},
         counts' \in [Sources -> Int], CountsRight', CountedRun',
         on' \subseteq InCR \cup {"HSI48", "LSI"},
         \A s \in InCR \ {"HSI16"} : s \in on' <=> s \in on
  PROVE  ClockInv'
<1>1. ClockTypeOK /\ Good
  BY DEF ClockInv
<1>2. /\ counts'["HSI16"] \in {Cardinality(users16'), Cardinality(users16') + 1}
      /\ counts'["HSI48"] \in 0..2 /\ counts'["LSI"] \in 0..3
  <2>1. Cardinality(users16') \in Nat
    BY UsersFinite
  <2> QED  BY <2>1 DEF CountsRight, One
<1>3. counts' \in [Sources -> 0..Cardinality(Users16) + 3]
  BY <1>2, CountsFit
<1>4. ClockTypeOK'
  BY <1>1, <1>3 DEF ClockTypeOK, Sources, AudioSources, McoModes, powerVars, threadVars
<1>5. (Path /\ SystemRuns /\ PllsRun /\ RangeRight /\ WaitStates)'
  BY <1>1, OthersKeep DEF Good
<1> QED  BY <1>4, <1>5 DEF ClockInv, Good

(* The counts and who they count.                                           *)
LEMMA CountsTyped ==
  ASSUME ClockInv
  PROVE  /\ users16 \in SUBSET Users16 /\ IsFiniteSet(users16) /\ Cardinality(users16) \in Nat
         /\ counts \in [Sources -> Nat]
         /\ on \subseteq InCR \cup {"HSI48", "LSI"}
<1>1. users16 \in SUBSET Users16 /\ on \subseteq InCR \cup {"HSI48", "LSI"}
  BY DEF ClockInv, ClockTypeOK
<1>2. Cardinality(Users16) \in Nat
  BY <1>1, UsersFinite
<1>3. counts \in [Sources -> 0..Cardinality(Users16) + 3]
  BY DEF ClockInv, ClockTypeOK, Sources
<1>4. counts \in [Sources -> Nat]
  BY <1>2, <1>3
<1> QED  BY <1>1, <1>4, UsersFinite

LEMMA Hsi16EnableKeeps ==
  ASSUME ClockInv, mishap = "none", NEW u \in Users16, Hsi16Enable(u)
  PROVE  ClockInv'
<1>1. /\ UNCHANGED <<chip, hclk, saiclk, clk48, mco, lsco, sysclk, powerVars, threadVars, mishap>>
      /\ users16' = users16 \cup {u} /\ u \notin users16
      /\ counts' = [counts EXCEPT !["HSI16"] = @ + 1]
      /\ on' = IF counts["HSI16"] = 0 THEN on \cup {"HSI16"} ELSE on
  BY CountsTyped DEF Hsi16Enable, Counted, Up, Sources
<1>2. users16' \in SUBSET Users16 /\ Cardinality(users16') = Cardinality(users16) + 1
  BY <1>1, CountsTyped, FS_AddElement
<1>3. /\ counts' \in [Sources -> Int] /\ counts'["HSI16"] = counts["HSI16"] + 1
      /\ counts'["HSI48"] = counts["HSI48"] /\ counts'["LSI"] = counts["LSI"]
      /\ counts["HSI16"] \in Nat
  BY <1>1, CountsTyped DEF Sources
<1>4. CountsRight' /\ mco' \in McoModes /\ lsco' \in {"none", "LSI"}
  BY <1>1, <1>2, <1>3, CountsTyped DEF ClockInv, ClockTypeOK, CountsRight, One
<1>5. CountedRun'
  BY <1>1, <1>3 DEF ClockInv, Good, CountedRun
<1>6. on' \subseteq InCR \cup {"HSI48", "LSI"} /\ \A s \in InCR \ {"HSI16"} : s \in on' <=> s \in on
  BY <1>1, CountsTyped DEF InCR
<1> QED  BY <1>1, <1>2, <1>3, <1>4, <1>5, <1>6, CountedKeeps

LEMMA Hsi16DisableKeeps ==
  ASSUME ClockInv, mishap = "none", NEW u \in Users16, Hsi16Disable(u)
  PROVE  ClockInv'
<1>1. /\ UNCHANGED <<chip, hclk, saiclk, clk48, mco, lsco, sysclk, powerVars, threadVars, mishap>>
      /\ users16' = users16 \ {u} /\ u \in users16
      /\ counts' = [counts EXCEPT !["HSI16"] = @ + -1]
      /\ on' = IF counts["HSI16"] = 1 THEN on \ {"HSI16"} ELSE on
  BY CountsTyped DEF Hsi16Disable, Counted, Down, Sources
<1>2. users16' \in SUBSET Users16 /\ Cardinality(users16') = Cardinality(users16) - 1
  BY <1>1, CountsTyped, FS_RemoveElement
<1>3. /\ counts' \in [Sources -> Int] /\ counts'["HSI16"] = counts["HSI16"] - 1
      /\ counts'["HSI48"] = counts["HSI48"] /\ counts'["LSI"] = counts["LSI"]
      /\ counts["HSI16"] \in Nat
  BY <1>1, CountsTyped DEF Sources
<1>4. CountsRight' /\ mco' \in McoModes /\ lsco' \in {"none", "LSI"}
  BY <1>1, <1>2, <1>3, CountsTyped DEF ClockInv, ClockTypeOK, CountsRight, One
<1>5. Cardinality(users16') \in Nat
  BY <1>2, UsersFinite
<1>6. CountedRun'
  BY <1>1, <1>2, <1>3, <1>5, CountsTyped DEF ClockInv, Good, CountedRun, CountsRight, One
<1>7. on' \subseteq InCR \cup {"HSI48", "LSI"} /\ \A s \in InCR \ {"HSI16"} : s \in on' <=> s \in on
  BY <1>1, CountsTyped DEF InCR
<1> QED  BY <1>1, <1>2, <1>3, <1>4, <1>6, <1>7, CountedKeeps

(* The old source of the clock output is given up and the new one taken.      *)
LEMMA McoKeeps ==
  ASSUME ClockInv, mishap = "none", NEW m \in McoModes, McoConfigure(m)
  PROVE  ClockInv'
<1>1. /\ UNCHANGED <<chip, hclk, saiclk, clk48, lsco, users16, sysclk, powerVars, threadVars, mishap>>
      /\ m # mco /\ mco' = m
      /\ counts' = [s \in DOMAIN counts |-> counts[s] + (IF s = m THEN 1 ELSE 0)
                                                      - (IF s = mco THEN 1 ELSE 0)]
      /\ on' = Up(m, Down(mco, on))
  BY DEF McoConfigure
<1>2. m \in {"none", "LSI", "HSI16", "HSI48"} /\ mco \in {"none", "LSI", "HSI16", "HSI48"}
  BY DEF ClockInv, ClockTypeOK, McoModes, If
<1>3. \A s \in Sources :
        /\ counts'[s] = counts[s] + (IF s = m THEN 1 ELSE 0) - (IF s = mco THEN 1 ELSE 0)
        /\ counts[s] \in Nat
  BY <1>1, CountsTyped
<1>4. counts' \in [Sources -> Int]
  BY <1>1, CountsTyped
<1>5. \A s : s \in on' <=>
        \/ s = m /\ m \in Sources /\ counts[m] = 0
        \/ s \in on /\ ~(s = mco /\ mco \in Sources /\ counts[mco] = 1)
  BY <1>1, CountsTyped DEF Up, Down
<1>6. CountsRight'
  BY <1>1, <1>2, <1>3, CountsTyped DEF ClockInv, CountsRight, One, Sources
<1>7. CountedRun'
  <2>1. \A s \in Sources : s \in on <=> counts[s] # 0
    BY DEF ClockInv, Good, CountedRun, Sources
  <2>2. mco \in Sources => counts[mco] # 0
    <3>1. /\ mco = "HSI16" => counts["HSI16"] # 0
          /\ mco = "HSI48" => counts["HSI48"] # 0
          /\ mco = "LSI" => counts["LSI"] # 0
      BY CountsTyped DEF ClockInv, CountsRight, One
    <3> QED  BY <3>1 DEF Sources
  <2>3. \A s \in Sources : s \in on' <=> counts'[s] # 0
    BY <1>1, <1>3, <1>5, <2>1, <2>2
  <2> QED  BY <2>3 DEF CountedRun, Sources
<1>8. on' \subseteq InCR \cup {"HSI48", "LSI"} /\ \A s \in InCR \ {"HSI16"} : s \in on' <=> s \in on
  BY <1>5, CountsTyped DEF Sources, InCR
<1>9. users16' \in SUBSET Users16 /\ lsco' \in {"none", "LSI"} /\ mco' \in McoModes
  BY <1>1 DEF ClockInv, ClockTypeOK
<1> QED  BY <1>1, <1>4, <1>6, <1>7, <1>8, <1>9, CountedKeeps

LEMMA LscoKeeps ==
  ASSUME ClockInv, mishap = "none", NEW m \in {"none", "LSI"}, LscoConfigure(m)
  PROVE  ClockInv'
<1>1. /\ UNCHANGED <<chip, hclk, saiclk, clk48, mco, users16, sysclk, powerVars, threadVars, mishap>>
      /\ m # lsco /\ lsco' = m /\ lsco \in {"none", "LSI"}
      /\ counts' = [counts EXCEPT !["LSI"] = @ + (IF m = "LSI" THEN 1 ELSE -1)]
      /\ on' = IF m = "LSI" THEN (IF counts["LSI"] = 0 THEN on \cup {"LSI"} ELSE on)
               ELSE (IF counts["LSI"] = 1 THEN on \ {"LSI"} ELSE on)
  BY CountsTyped DEF LscoConfigure, Counted, Up, Down, Sources, ClockInv, ClockTypeOK
<1>2. /\ counts' \in [Sources -> Int]
      /\ counts'["LSI"] = counts["LSI"] + (IF m = "LSI" THEN 1 ELSE -1)
      /\ counts'["HSI48"] = counts["HSI48"] /\ counts'["HSI16"] = counts["HSI16"]
      /\ counts["LSI"] \in Nat
  BY <1>1, CountsTyped DEF Sources
<1>3. CountsRight' /\ mco' \in McoModes /\ users16' \in SUBSET Users16
  BY <1>1, <1>2, CountsTyped DEF ClockInv, ClockTypeOK, CountsRight, One
<1>4. CountedRun'
  BY <1>1, <1>2, <1>3 DEF ClockInv, Good, CountedRun, CountsRight, One
<1>5. on' \subseteq InCR \cup {"HSI48", "LSI"} /\ \A s \in InCR \ {"HSI16"} : s \in on' <=> s \in on
  BY <1>1, CountsTyped DEF InCR
<1> QED  BY <1>1, <1>2, <1>3, <1>4, <1>5, CountedKeeps

-----------------------------------------------------------------------------
(* The 48 MHz clock.                                                       *)

(* What the types of ClockInv say of the variables that the clock tree reads. *)
LEMMA Typed ==
  ASSUME ClockInv
  PROVE  /\ chip \in {"L476", "L496"} /\ hclk \in Hclk /\ hclk \in 1..80
         /\ saiclk \in {"none", "PLLSAI1", "PLLSAI2"} /\ clock \in {"none", "PLLSAI1", "PLLSAI2"}
         /\ saiclk = "PLLSAI2" => chip = "L476"
         /\ clk48 \subseteq References
         /\ range \in 1..2 /\ lpr \in BOOLEAN /\ latency \in 0..4
         /\ wanted \in Hclk \cup {0} /\ ws \in 0..4
  BY ClockAssumption DEF ClockInv, ClockTypeOK, Chips, AudioSources

(* A change of the supply for another holder leaves the types.               *)
LEMMA SelectTyped ==
  ASSUME ClockInv, SelectRange1 \/ SelectRange2 \/ UNCHANGED powerVars
  PROVE  range' \in 1..2 /\ lpr' \in BOOLEAN /\ latency' \in 0..4
<1>1. CASE SelectRange1
  <2>1. range' \in 1..2 /\ latency' \in 0..4
    BY <1>1, Typed, Latencies DEF SelectRange1, powerVars
  <2>2. lpr' \in {lpr, FALSE}
    BY <1>1 DEF SelectRange1, powerVars
  <2> QED  BY <2>1, <2>2, Typed
<1>2. CASE SelectRange2
  <2>1. range' \in 1..2 /\ latency' \in 0..4
    BY <1>2, Typed, Latencies DEF SelectRange2, powerVars
  <2>2. (hclk <= 2) \in BOOLEAN
    OBVIOUS
  <2>3. lpr' \in {lpr, hclk <= 2}
    BY <1>2 DEF SelectRange2, powerVars
  <2>4. lpr' \in BOOLEAN
    BY <2>2, <2>3, Typed
  <2> QED  BY <2>1, <2>4
<1>3. CASE UNCHANGED powerVars
  BY <1>3, Typed DEF powerVars
<1> QED  BY <1>1, <1>2, <1>3

LEMMA Clk48AcquireKeeps ==
  ASSUME ClockInv, mishap = "none", NEW r \in References, Clk48Acquire(r)
  PROVE  ClockInv'
<1>1. /\ UNCHANGED <<chip, hclk, saiclk, mco, lsco, users16, sysclk, pc, clock, cr, wanted, ws>>
      /\ clk48' = clk48 \cup {r}
      /\ SelectRange1 \/ UNCHANGED powerVars
      /\ Clk48HoldsRange' => SelectRange1
      /\ ~Clk48HoldsRange' => UNCHANGED <<range, lpr, latency>>
      /\ mishap' = "none" => pc # "off1store" /\ (pc \in Lowering => r = "SDMMC1")
      /\ mishap' \in Mishaps \cup {"none"}
  BY DEF Clk48Acquire, threadVars, powerVars, Clk48HoldsRange, Note, Mishaps
<1>2. Good /\ CountsRight
  BY DEF ClockInv
<1>3. /\ counts' \in [Sources -> Int] /\ on' \subseteq InCR \cup {"HSI48", "LSI"}
      /\ counts'["HSI16"] = counts["HSI16"] /\ counts'["LSI"] = counts["LSI"]
      /\ counts'["HSI48"] = counts["HSI48"] + One(chip # "L476" /\ clk48 = {})
      /\ \A s : s \in on' <=>
           \/ s \in on
           \/ s = "PLLSAI1" /\ chip = "L476" /\ clk48 = {} /\ saiclk # "PLLSAI1"
           \/ s = "HSI48" /\ chip # "L476" /\ clk48 = {} /\ counts["HSI48"] = 0
  BY CountsTyped DEF Clk48Acquire, Counted, Up, If, One, Sources, InCR
<1>4. CountsRight'
  BY <1>1, <1>2, <1>3, CountsTyped DEF CountsRight, One
<1>5. ClockTypeOK'
  <2>1. /\ counts'["HSI16"] \in {Cardinality(users16'), Cardinality(users16') + 1}
        /\ counts'["HSI48"] \in 0..2 /\ counts'["LSI"] \in 0..3
    BY <1>1, <1>4, CountsTyped DEF CountsRight, One
  <2>2. counts' \in [Sources -> 0..Cardinality(Users16) + 3]
    BY <1>1, <1>3, <2>1, CountsFit, CountsTyped
  <2>3. clk48' \subseteq References
    BY <1>1, Typed
  <2> QED
    BY <1>1, <1>3, <2>2, <2>3, SelectTyped DEF ClockInv, ClockTypeOK, Sources, AudioSources, McoModes
<1>6. ASSUME mishap' = "none" PROVE Good'
  <2>1. CountedRun'
    BY <1>2, <1>3, CountsTyped DEF Good, CountedRun, One, Sources
  <2>2. Path' /\ SystemRuns'
    BY <1>1, <1>2, <1>3 DEF Good, Path, AudioSources, SystemRuns, Oscillators
  <2>3. PllsRun'
    BY <1>1, <1>2, <1>3, <1>6, Typed DEF Good, PllsRun, Path, NeedPll1
  <2>4. Clk48HoldsRange' => range' = 1 /\ ~lpr' /\ latency' >= Latency1(hclk)
    <3>1. CASE hclk <= 24
      BY <1>1, <3>1, Typed, Latencies DEF SelectRange1
    <3>2. CASE ~(hclk <= 24)
      BY <1>1, <1>2, <3>2, Typed DEF SelectRange1, powerVars, Good, RangeRight, WaitStates
    <3> QED  BY <3>1, <3>2
  <2>5. ~Clk48HoldsRange' => ~Clk48HoldsRange
    BY <1>1 DEF Clk48HoldsRange
  <2>6. AudioHoldsRange' = AudioHoldsRange
    BY <1>1 DEF AudioHoldsRange
  <2>7. RangeRight'
    <3>1. CASE Clk48HoldsRange'
      <4>1. pc \notin Lowering
        BY <1>1, <1>2, <1>6, <3>1 DEF Good, RangeRight, Clk48HoldsRange
      <4> QED  BY <1>1, <1>2, <2>4, <3>1, <4>1 DEF Good, RangeRight, RangeOf
    <3>2. CASE ~Clk48HoldsRange'
      BY <1>1, <1>2, <2>5, <2>6, <3>2 DEF Good, RangeRight, RangeOf
    <3> QED  BY <3>1, <3>2
  <2>8. WaitStates'
    <3>1. latency' >= (IF range' = 2 THEN Latency2(hclk) ELSE Latency1(hclk))
      BY <1>1, <1>2, <2>4 DEF Good, WaitStates
    <3>2. ASSUME pc = "configure" PROVE wanted \in Hclk /\ ws >= LatencyOf(wanted)'
      <4>1. wanted \in Hclk /\ ws >= LatencyOf(wanted) /\ wanted \in 1..80
        BY <1>2, <3>2, ClockAssumption DEF Good, WaitStates
      <4>2. CASE Clk48HoldsRange'
        BY <1>1, <4>1, <4>2, Typed, Latencies DEF LatencyOf, RangeOf
      <4>3. CASE ~Clk48HoldsRange'
        BY <1>1, <2>5, <2>6, <4>1, <4>3 DEF LatencyOf, RangeOf
      <4> QED  BY <4>1, <4>2, <4>3
    <3>3. ASSUME pc \in Lowering \ {"range2"} PROVE hclk <= 24 /\ latency' >= Latency2(hclk)
      <4>1. ~Clk48HoldsRange'
        BY <1>1, <1>2, <1>6, <3>3 DEF Good, RangeRight, Clk48HoldsRange
      <4> QED  BY <1>1, <1>2, <3>3, <4>1 DEF Good, WaitStates
    <3> QED  BY <1>1, <3>1, <3>2, <3>3 DEF WaitStates, LatencyOf
  <2> QED  BY <2>1, <2>2, <2>3, <2>7, <2>8 DEF Good
<1> QED  BY <1>4, <1>5, <1>6 DEF ClockInv

LEMMA Clk48ReleaseKeeps ==
  ASSUME ClockInv, mishap = "none", NEW r \in References, Clk48Release(r)
  PROVE  ClockInv'
<1>1. /\ UNCHANGED <<chip, hclk, saiclk, mco, lsco, users16, sysclk, pc, clock, cr, wanted, ws>>
      /\ clk48' = clk48 \ {r}
      /\ SelectRange2 \/ UNCHANGED powerVars
      /\ ~AudioHoldsRange /\ ~Clk48HoldsRange' => SelectRange2
      /\ AudioHoldsRange \/ Clk48HoldsRange' => UNCHANGED <<range, lpr, latency>>
      /\ mishap' = "none" =>
           /\ chip = "L476" /\ pc \in Raising \cup {"pllon", "pllonstore", "set"} => clock = saiclk
           /\ pc = "configure" /\ Clk48HoldsRange => r \notin clk48
      /\ mishap' \in Mishaps \cup {"none"}
  BY DEF Clk48Release, threadVars, powerVars, Clk48HoldsRange, Preparing, Mishaps
<1>2. Good /\ CountsRight
  BY DEF ClockInv
<1>3. /\ counts' \in [Sources -> Int] /\ on' \subseteq InCR \cup {"HSI48", "LSI"}
      /\ counts'["HSI16"] = counts["HSI16"] /\ counts'["LSI"] = counts["LSI"]
      /\ counts'["HSI48"] = counts["HSI48"] - One(chip # "L476" /\ clk48 = {r})
      /\ \A s : s \in on' <=>
           /\ s \in on
           /\ ~(s = "PLLSAI1" /\ chip = "L476" /\ clk48 = {r} /\ saiclk # "PLLSAI1")
           /\ ~(s = "HSI48" /\ chip # "L476" /\ clk48 = {r} /\ counts["HSI48"] = 1)
  BY CountsTyped DEF Clk48Release, Counted, Down, If, One, Sources, InCR
<1>4. IF clk48 = {r} THEN clk48' = {} ELSE clk48' = {} <=> clk48 = {}
  BY <1>1
<1>5. CountsRight'
  BY <1>1, <1>2, <1>3, <1>4, CountsTyped DEF CountsRight, One
<1>6. ClockTypeOK'
  <2>1. /\ counts'["HSI16"] \in {Cardinality(users16'), Cardinality(users16') + 1}
        /\ counts'["HSI48"] \in 0..2 /\ counts'["LSI"] \in 0..3
    BY <1>1, <1>5, CountsTyped DEF CountsRight, One
  <2>2. counts' \in [Sources -> 0..Cardinality(Users16) + 3]
    BY <1>1, <1>3, <2>1, CountsFit, CountsTyped
  <2>3. clk48' \subseteq References
    BY <1>1, Typed
  <2> QED
    BY <1>1, <1>3, <2>2, <2>3, SelectTyped DEF ClockInv, ClockTypeOK, Sources, AudioSources, McoModes
<1>7. ASSUME mishap' = "none" PROVE Good'
  <2>1. CountedRun'
    BY <1>2, <1>3, CountsTyped DEF Good, CountedRun, CountsRight, One, Sources
  <2>2. Path' /\ SystemRuns'
    BY <1>1, <1>2, <1>3 DEF Good, Path, AudioSources, SystemRuns, Oscillators
  <2>3. PllsRun'
    BY <1>1, <1>2, <1>3, <1>4, <1>7, Typed DEF Good, PllsRun, Path, NeedPll1
  <2>4. AudioHoldsRange' = AudioHoldsRange
    BY <1>1 DEF AudioHoldsRange
  <2>5. Clk48HoldsRange' => Clk48HoldsRange
    BY <1>1 DEF Clk48HoldsRange
  <2>6. CASE AudioHoldsRange \/ Clk48HoldsRange'
    <3>1. UNCHANGED <<range, lpr, latency>> /\ (AudioHoldsRange \/ Clk48HoldsRange)
      BY <1>1, <2>5, <2>6
    <3>2. RangeRight'
      BY <1>1, <1>2, <2>4, <2>5, <2>6, <3>1 DEF Good, RangeRight, RangeOf
    <3>3. ASSUME pc = "configure" PROVE LatencyOf(wanted)' = LatencyOf(wanted)
      BY <1>1, <2>4, <2>6, <3>1 DEF LatencyOf, RangeOf
    <3>4. WaitStates'
      BY <1>1, <1>2, <3>1, <3>3 DEF Good, WaitStates
    <3> QED  BY <2>1, <2>2, <2>3, <3>2, <3>4 DEF Good
  <2>7. CASE ~AudioHoldsRange /\ ~Clk48HoldsRange'
    <3>1. CASE hclk <= 24
      <4>1. /\ range' = 2 /\ lpr' = (hclk <= 2) /\ latency' = Latency2(hclk)
        BY <1>1, <2>7, <3>1 DEF SelectRange2
      <4>2. pc \notin Raising \cup {"pllon", "pllonstore", "set"} \/ clock = "none"
        BY <1>1, <1>2, <1>7, <2>7 DEF Good, Path, AudioHoldsRange
      <4>5. lpr' => hclk <= 2
        BY <4>1, Zenon
      <4>6. RangeRight'
        BY <1>1, <1>2, <1>7, <2>4, <2>7, <3>1, <4>1, <4>2, <4>5, Typed
          DEF Good, Path, RangeRight, RangeOf, AudioHoldsRange
      <4>3. latency' >= Latency2(hclk)
        BY <4>1, Typed, Latencies
      <4>4. ASSUME pc = "configure" PROVE LatencyOf(wanted)' = LatencyOf(wanted)
        <5>1. ~Clk48HoldsRange
          BY <1>1, <1>7, <2>7, <4>4 DEF Clk48HoldsRange
        <5> QED  BY <1>1, <2>4, <2>7, <5>1 DEF LatencyOf, RangeOf
      <4>7. WaitStates'
        BY <1>1, <1>2, <3>1, <4>1, <4>3, <4>4 DEF Good, WaitStates
      <4> QED  BY <2>1, <2>2, <2>3, <4>6, <4>7 DEF Good
    <3>2. CASE ~(hclk <= 24)
      <4>1. UNCHANGED <<range, lpr, latency>>
        BY <1>1, <2>7, <3>2 DEF SelectRange2, powerVars
      <4>2. RangeRight'
        BY <1>1, <1>2, <2>4, <2>7, <3>2, <4>1 DEF Good, RangeRight, RangeOf
      <4>3. ASSUME pc = "configure" PROVE LatencyOf(wanted)' = LatencyOf(wanted)
        <5>1. ~Clk48HoldsRange
          BY <1>1, <1>7, <2>7, <4>3 DEF Clk48HoldsRange
        <5> QED  BY <1>1, <2>4, <2>7, <5>1 DEF LatencyOf, RangeOf
      <4>4. WaitStates'
        BY <1>1, <1>2, <4>1, <4>3 DEF Good, WaitStates
      <4> QED  BY <2>1, <2>2, <2>3, <4>2, <4>4 DEF Good
    <3> QED  BY <3>1, <3>2
  <2> QED  BY <2>6, <2>7
<1> QED  BY <1>5, <1>6, <1>7 DEF ClockInv

-----------------------------------------------------------------------------
(* The system clock and the stop mode.                                     *)

LEMMA ConfigureKeeps ==
  ASSUME ClockInv, mishap = "none", NEW h \in Hclk, Configure(h)
  PROVE  ClockInv'
<1>1. /\ UNCHANGED <<chip, hclk, saiclk, clk48, counts, mco, lsco, users16, on, sysclk, range, lpr,
                     latency, clock, cr, mishap>>
      /\ pc = "idle" /\ pc' = "configure" /\ wanted' = h /\ ws' = LatencyOf(h)
  BY DEF Configure, ThreadAt, treeVars, powerVars
<1>2. Good /\ CountsRight /\ ClockTypeOK
  BY DEF ClockInv
<1>3. LatencyOf(h) \in 0..4 /\ LatencyOf(h)' = LatencyOf(h)
  BY <1>1, Latencies DEF LatencyOf, RangeOf, AudioHoldsRange, Clk48HoldsRange
<1>4. ClockTypeOK'
  BY <1>1, <1>2, <1>3 DEF ClockTypeOK, AudioSources, McoModes
<1>5. CountsRight' /\ CountedRun' /\ SystemRuns'
  BY <1>1, <1>2 DEF Good, CountsRight, CountedRun, SystemRuns
<1>6. Path' /\ PllsRun'
  BY <1>1, <1>2 DEF Good, Path, AudioSources, PllsRun, NeedPll1
<1>7. RangeRight'
  BY <1>1, <1>2 DEF Good, RangeRight, RangeOf, AudioHoldsRange, Clk48HoldsRange
<1>8. WaitStates'
  BY <1>1, <1>2, <1>3 DEF Good, WaitStates
<1> QED  BY <1>4, <1>5, <1>6, <1>7, <1>8 DEF ClockInv, Good

(* What the new clock and the stop mode leave running is what is held.        *)
LEMMA Restarted ==
  ASSUME ClockInv, mishap = "none", NEW h \in Hclk, hclk' = h,
         UNCHANGED <<chip, saiclk, clk48, counts, mco, lsco, users16, mishap>>,
         pc' = "idle", sysclk' = (IF h <= 24 THEN "MSI" ELSE "PLL"),
         clock' \in AudioSources \cup {"none"}, cr' \subseteq InCR \cup {"VOS2", "LPR"},
         wanted' \in Hclk \cup {0}, ws' \in 0..4, range' \in 1..2, lpr' \in BOOLEAN, latency' \in 0..4,
         \A s : s \in on' <=>
           \/ s \in Oscillators(h)
           \/ s = saiclk /\ saiclk # "none"
           \/ s \in {"HSI16", "HSI48"} /\ counts[s] # 0
           \/ s = "PLLSAI1" /\ chip = "L476" /\ clk48 # {}
           \/ s = "LSI" /\ "LSI" \in on,
         RangeRight', WaitStates'
  PROVE  ClockInv'
<1>1. Good /\ CountsRight /\ ClockTypeOK
  BY DEF ClockInv
<1>2. on' \subseteq InCR \cup {"HSI48", "LSI"}
  <2>1. Oscillators(h) \subseteq InCR /\ saiclk \in InCR \cup {"none"}
    BY Typed DEF Oscillators, InCR
  <2> QED  BY <2>1 DEF InCR
<1>3. ClockTypeOK'
  <2>1. clock' \in {"none", "PLLSAI1", "PLLSAI2"}
    BY DEF AudioSources
  <2> QED  BY <1>1, <1>2, <2>1 DEF ClockTypeOK, AudioSources, McoModes
<1>4. CountsRight' /\ SystemRuns' /\ Path'
  BY <1>1 DEF CountsRight, SystemRuns, Path, AudioSources, Oscillators
<1>5. \A s \in {"HSI16", "HSI48", "LSI", "PLLSAI1", "PLLSAI2"} : s \notin Oscillators(h)
  BY DEF Oscillators
<1>6. CountedRun'
  BY <1>1, <1>5, Typed DEF Good, CountedRun
<1>7. PllsRun'
  BY <1>1, <1>5, Typed DEF PllsRun, NeedPll1
<1> QED  BY <1>3, <1>4, <1>6, <1>7 DEF ClockInv, Good

LEMMA ConfigureApplyKeeps ==
  ASSUME ClockInv, mishap = "none", ConfigureApply
  PROVE  ClockInv'
<1>1. /\ UNCHANGED <<chip, saiclk, clk48, counts, mco, lsco, users16, mishap>>
      /\ pc = "configure" /\ pc' = "idle" /\ clock' = "none" /\ cr' = {} /\ wanted' = 0 /\ ws' = 0
      /\ hclk' = wanted /\ sysclk' = (IF wanted <= 24 THEN "MSI" ELSE "PLL")
      /\ range' = RangeOf(wanted) /\ lpr' = (range' = 2 /\ wanted <= 2) /\ latency' = ws
  BY DEF ConfigureApply, ThreadAt, Leave, treeVars
<1>2. wanted \in Hclk /\ ws >= LatencyOf(wanted) /\ Good
  BY <1>1 DEF ClockInv, Good, WaitStates
<1>3. range' \in 1..2 /\ latency' \in 0..4
  BY <1>1, Typed DEF RangeOf
<1>4. lpr' \in BOOLEAN
  <2>1. (range' = 2 /\ wanted <= 2) \in BOOLEAN
    OBVIOUS
  <2> QED  BY <1>1, <2>1
<1>5. RangeOf(hclk)' = RangeOf(wanted)
  BY <1>1 DEF RangeOf, AudioHoldsRange, Clk48HoldsRange
<1>6. RangeRight'
  <2>1. range' = 2 => wanted <= 24 /\ ~Clk48HoldsRange' /\ ~AudioHoldsRange'
    BY <1>1 DEF RangeOf, AudioHoldsRange, Clk48HoldsRange
  <2>2. lpr' => range' = 2 /\ wanted <= 2
    BY <1>1, Zenon
  <2> QED  BY <1>1, <1>5, <2>1, <2>2 DEF RangeRight
<1>7. WaitStates'
  BY <1>1, <1>2 DEF WaitStates, LatencyOf
<1>8. \A s : s \in on' <=>
        \/ s \in Oscillators(wanted)
        \/ s = saiclk /\ saiclk # "none"
        \/ s \in {"HSI16", "HSI48"} /\ counts[s] # 0
        \/ s = "PLLSAI1" /\ chip = "L476" /\ clk48 # {}
        \/ s = "LSI" /\ "LSI" \in on
  BY <1>2 DEF ConfigureApply, Restored, If, Good, CountedRun
<1> QED  BY <1>1, <1>2, <1>3, <1>4, <1>6, <1>7, <1>8, Restarted, Typed

LEMMA StopKeeps ==
  ASSUME ClockInv, mishap = "none", Stop
  PROVE  ClockInv'
<1>1. /\ UNCHANGED <<chip, hclk, saiclk, clk48, counts, mco, lsco, users16, range, lpr, latency, pc,
                     clock, cr, wanted, ws, mishap>>
      /\ pc = "idle" /\ sysclk' = (IF hclk <= 24 THEN "MSI" ELSE "PLL")
  BY DEF Stop, ThreadAt, treeVars, powerVars, threadVars
<1>2. Good /\ ClockTypeOK
  BY DEF ClockInv
<1>3. RangeRight' /\ WaitStates'
  BY <1>1, <1>2 DEF Good, RangeRight, WaitStates, RangeOf, AudioHoldsRange, Clk48HoldsRange
<1>4. \A s : s \in on' <=>
        \/ s \in Oscillators(hclk)
        \/ s = saiclk /\ saiclk # "none"
        \/ s \in {"HSI16", "HSI48"} /\ counts[s] # 0
        \/ s = "PLLSAI1" /\ chip = "L476" /\ clk48 # {}
        \/ s = "LSI" /\ "LSI" \in on
  BY DEF Stop, Awake, If, Oscillators
<1>5. cr' \subseteq InCR \cup {"VOS2", "LPR"} /\ clock' \in AudioSources \cup {"none"}
  BY <1>1, <1>2 DEF ClockTypeOK, Good, Path
<1> QED  BY <1>1, <1>3, <1>4, <1>5, Typed, Restarted

-----------------------------------------------------------------------------
(* stm32l4_system_saiclk_configure().                                      *)

(* It moves no count and touches the PLLs only.                              *)
LEMMA SaiKeeps ==
  ASSUME ClockInv, mishap = "none",
         UNCHANGED <<chip, hclk, clk48, counts, mco, lsco, users16, sysclk>>,
         saiclk' \in AudioSources \cup {"none"}, clock' \in {"none", "PLLSAI1", "PLLSAI2"},
         cr' \subseteq InCR \cup {"VOS2", "LPR"}, wanted' \in Hclk \cup {0}, ws' \in 0..4,
         range' \in 1..2, lpr' \in BOOLEAN, latency' \in 0..4,
         pc' \in {"idle", "range1", "pllon", "pllonstore", "set", "off1", "off1store", "off2",
                  "off2store", "range2test", "reset", "resetstore", "start", "startstore",
                  "record"} \cup Raising \cup Lowering,
         mishap' \in Mishaps \cup {"none"}, on' \subseteq InCR \cup {"HSI48", "LSI"},
         mishap' = "none" =>
           /\ \A s \in on \cup on' : s \notin {"PLLSAI1", "PLLSAI2"} => (s \in on' <=> s \in on)
           /\ latency' >= (IF range' = 2 THEN Latency2(hclk) ELSE Latency1(hclk))
           /\ pc' \in Lowering \ {"range2"} => hclk <= 24 /\ latency' >= Latency2(hclk)
           /\ (Path /\ PllsRun /\ RangeRight)'
  PROVE  ClockInv'
<1>1. Good /\ CountsRight /\ ClockTypeOK
  BY DEF ClockInv
<1>2. ClockTypeOK'
  BY <1>1 DEF ClockTypeOK, AudioSources, McoModes
<1>3. CountsRight'
  BY <1>1 DEF CountsRight
<1>4. ASSUME mishap' = "none" PROVE Good'
  <2>1. CountedRun'
    BY <1>1, <1>4 DEF Good, CountedRun
  <2>2. SystemRuns'
    <3>1. Oscillators(hclk) \subseteq on /\ Oscillators(hclk) \cap {"PLLSAI1", "PLLSAI2"} = {}
      BY <1>1 DEF Good, SystemRuns, Oscillators
    <3> QED  BY <1>1, <1>4, <3>1 DEF Good, SystemRuns, Oscillators
  <2>3. WaitStates'
    BY <1>4 DEF WaitStates
  <2> QED  BY <1>4, <2>1, <2>2, <2>3 DEF Good
<1> QED  BY <1>2, <1>3, <1>4 DEF ClockInv

(* The steps that only look, and decide what comes next.                     *)
SaiDecide ==
  \/ \E c \in AudioSources \cup {"none"} : SaiConfigure(c)
  \/ SaiPllOn \/ SaiOff1 \/ SaiOff2 \/ SaiRange2Test \/ SaiReset \/ SaiStart
  \/ SaiRange1 \/ SaiVos \/ SaiVos2 \/ SaiLprun

LEMMA SaiDecideKeeps ==
  ASSUME ClockInv, mishap = "none", SaiDecide
  PROVE  ClockInv'
<1>1. UNCHANGED <<chip, hclk, treeVars, on, sysclk, powerVars, mishap>>
  BY DEF SaiDecide, SaiConfigure, SaiPllOn, SaiOff1, SaiOff2, SaiRange2Test, SaiReset, SaiStart,
    SaiRange1, SaiVos, SaiVos2, SaiLprun
<1>2. /\ UNCHANGED <<chip, hclk, saiclk, clk48, counts, mco, lsco, users16, on, sysclk, range, lpr,
                     latency, mishap>>
      /\ ClockTypeOK /\ Path /\ PllsRun /\ RangeRight /\ WaitStates
  BY <1>1 DEF treeVars, powerVars, ClockInv, Good
<1>3. /\ cr' \subseteq InCR \cup {"VOS2", "LPR"} /\ wanted' \in Hclk \cup {0} /\ ws' \in 0..4
      /\ clock' \in {"none", "PLLSAI1", "PLLSAI2"}
  BY Typed DEF SaiDecide, SaiConfigure, SaiPllOn, SaiOff1, SaiOff2, SaiRange2Test, SaiReset,
    SaiStart, SaiRange1, SaiVos, SaiVos2, SaiLprun, Load, LoadPower, If, Goto, Leave, ClockInv,
    ClockTypeOK, AudioSources
<1>4. pc' \in {"idle", "range1", "pllon", "pllonstore", "set", "off1store", "off2", "off2store",
               "range2test", "reset", "resetstore", "startstore"} \cup Raising \cup Lowering
  BY DEF SaiDecide, SaiConfigure, SaiPllOn, SaiOff1, SaiOff2, SaiRange2Test, SaiReset,
    SaiStart, SaiRange1, SaiVos, SaiVos2, SaiLprun, Load, LoadPower, Goto, Leave
<1>5. CASE \E c \in AudioSources \cup {"none"} : SaiConfigure(c)
  <2>1. PICK c \in AudioSources \cup {"none"} : SaiConfigure(c)
    BY <1>5
  <2>2. /\ pc = "idle" /\ clock' = c
        /\ pc' = IF chip # "L476" THEN "reset" ELSE IF c = "none" THEN "set"
                 ELSE IF saiclk = "none" THEN "range1" ELSE "pllon"
    BY <2>1, Typed DEF SaiConfigure, ThreadAt
  <2>3. Path'
    BY <1>2, <2>2 DEF Path, AudioSources
  <2>4. PllsRun'
    BY <1>2, <2>2 DEF PllsRun, NeedPll1
  <2>5. RangeRight'
    BY <1>2, <2>2, Typed DEF RangeRight, RangeOf, AudioHoldsRange, Clk48HoldsRange
  <2> QED  BY <1>2, <2>2, <1>3, <1>4, <2>3, <2>4, <2>5, SaiKeeps DEF ClockTypeOK, WaitStates
<1>6. CASE SaiPllOn
  <2>1. /\ pc = "pllon" /\ clock' = clock /\ cr' \subseteq InCR
        /\ pc' = IF clock = "PLLSAI1" /\ clk48 # {} THEN "set" ELSE "pllonstore"
    BY <1>6 DEF SaiPllOn, ThreadAt, Load, Goto
  <2>2. (Path /\ PllsRun /\ RangeRight)'
    BY <1>2, <2>1, Typed DEF Path, AudioSources, PllsRun, NeedPll1, RangeRight, RangeOf,
      AudioHoldsRange, Clk48HoldsRange
  <2> QED  BY <1>2, <2>1, <1>3, <1>4, <2>2, SaiKeeps DEF ClockTypeOK, WaitStates
<1>7. CASE SaiOff1 \/ SaiOff2
  <2>1. /\ clock' = clock /\ cr' \subseteq InCR
        /\ \/ /\ pc = "off1"
              /\ pc' = IF saiclk = "PLLSAI1" \/ clk48 # {} THEN "off2" ELSE "off1store"
           \/ /\ pc = "off2"
              /\ pc' = IF saiclk = "PLLSAI2" THEN "range2test" ELSE "off2store"
    BY <1>7 DEF SaiOff1, SaiOff2, ThreadAt, Load, Goto
  <2>2. (Path /\ PllsRun /\ RangeRight)'
    BY <1>2, <2>1, Typed DEF Path, AudioSources, PllsRun, NeedPll1, RangeRight, RangeOf,
      AudioHoldsRange, Clk48HoldsRange
  <2> QED  BY <1>2, <2>1, <1>3, <1>4, <2>2, SaiKeeps DEF ClockTypeOK, WaitStates
<1>8. CASE SaiRange2Test
  <2>1. /\ pc = "range2test" /\ clock' \in {clock, "none"}
        /\ pc' = IF saiclk = "none" /\ ~Clk48HoldsRange THEN "range2" ELSE "idle"
    BY <1>8 DEF SaiRange2Test, ThreadAt, Goto, Leave
  <2>2. Path' /\ PllsRun'
    BY <1>2, <2>1, Typed DEF Path, AudioSources, PllsRun, NeedPll1
  <2>3. AudioHoldsRange \/ Clk48HoldsRange => range = 1
    BY <1>2, Typed DEF RangeRight
  <2>4. RangeRight'
    BY <1>2, <2>1, <2>3, Typed DEF Path, RangeRight, RangeOf, AudioHoldsRange, Clk48HoldsRange
  <2> QED  BY <1>2, <2>1, <1>3, <1>4, <2>2, <2>4, SaiKeeps DEF ClockTypeOK, WaitStates
<1>9. CASE SaiReset \/ SaiStart
  <2>1. /\ clock' = clock /\ cr' \subseteq InCR
        /\ \/ pc = "reset" /\ pc' = "resetstore"
           \/ pc = "start" /\ pc' = "startstore"
    BY <1>9 DEF SaiReset, SaiStart, ThreadAt, Load
  <2>2. (Path /\ PllsRun /\ RangeRight)'
    BY <1>2, <2>1, Typed DEF Path, AudioSources, PllsRun, NeedPll1, RangeRight, RangeOf,
      AudioHoldsRange, Clk48HoldsRange
  <2> QED  BY <1>2, <2>1, <1>3, <1>4, <2>2, SaiKeeps DEF ClockTypeOK, WaitStates
<1>10. CASE SaiRange1 \/ SaiVos \/ SaiVos2 \/ SaiLprun
  <2>1. /\ clock' = clock
        /\ \/ /\ pc = "range1"
              /\ pc' = IF hclk > 24 THEN "pllon" ELSE IF lpr THEN "lprstore" ELSE "vos"
           \/ pc = "vos" /\ pc' = "vosstore"
           \/ pc = "vos2" /\ pc' = "vos2store"
           \/ pc = "lprun" /\ pc' = "lprunstore"
        /\ pc' \in {"vosstore", "vos2store", "lprunstore"} =>
             /\ "VOS2" \in cr' <=> range = 2
             /\ "LPR" \in cr' <=> lpr
    BY <1>10 DEF SaiRange1, SaiVos, SaiVos2, SaiLprun, ThreadAt, LoadPower, If, Goto
  <2>2. Path' /\ PllsRun'
    BY <1>2, <2>1, Typed DEF Path, AudioSources, PllsRun, NeedPll1
  <2>3. RangeRight'
    BY <1>2, <2>1, Typed DEF Path, RangeRight, RangeOf, AudioHoldsRange, Clk48HoldsRange
  <2> QED  BY <1>2, <1>3, <1>4, <2>1, <2>2, <2>3, SaiKeeps DEF ClockTypeOK, WaitStates
<1> QED  BY <1>5, <1>6, <1>7, <1>8, <1>9, <1>10 DEF SaiDecide

(* A store that undoes nothing of a handler changes the one bit.             *)
LEMMA Stored ==
  ASSUME NEW s \in InCR, ~Undone(s)
  PROVE  /\ WithOn(s) => \A x : x \in on' <=> x \in on \/ x = s
         /\ WithOff(s) => \A x : x \in on' <=> x \in on /\ x # s
<1>1. \A x : x \in (on \cap InCR) \ {s} <=> x \in cr \ {s}
  BY DEF Undone
<1>2. ASSUME WithOn(s), NEW x PROVE x \in on' <=> x \in on \/ x = s
  BY <1>1, <1>2 DEF WithOn
<1>3. ASSUME WithOff(s), NEW x PROVE x \in on' <=> x \in on /\ x # s
  BY <1>1, <1>3 DEF WithOff
<1> QED  BY <1>2, <1>3

LEMMA SaiStoreKeeps ==
  ASSUME ClockInv, mishap = "none",
         SaiPllOnStore \/ SaiOff1Store \/ SaiOff2Store \/ SaiResetStore \/ SaiStartStore
  PROVE  ClockInv'
<1>1. /\ UNCHANGED <<chip, hclk, saiclk, clk48, counts, mco, lsco, users16, sysclk, range, lpr,
                     latency, clock, wanted, ws>>
      /\ cr' = {} /\ ClockTypeOK /\ Path /\ PllsRun /\ RangeRight /\ WaitStates
  BY DEF SaiPllOnStore, SaiOff1Store, SaiOff2Store, SaiResetStore, SaiStartStore, Goto, treeVars,
    powerVars, ClockInv, Good
<1>2. /\ pc' \in {"set", "off2", "range2test", "record", "start"}
      /\ mishap' \in Mishaps \cup {"none"}
  BY DEF SaiPllOnStore, SaiOff1Store, SaiOff2Store, SaiResetStore, SaiStartStore, Goto, Note, Mishaps
<1>3. on' \subseteq InCR \cup {"HSI48", "LSI"}
  <2>1. pc \in {"pllonstore"} => clock \in InCR
    BY <1>1, Typed DEF Path, InCR
  <2>2. on \subseteq InCR \cup {"HSI48", "LSI"} /\ cr \subseteq InCR
    BY <1>1 DEF ClockTypeOK, Path, SaiPllOnStore, SaiOff1Store, SaiOff2Store, SaiResetStore,
      SaiStartStore, ThreadAt
  <2> QED
    BY <2>1, <2>2 DEF SaiPllOnStore, SaiOff1Store, SaiOff2Store, SaiResetStore, SaiStartStore,
      ThreadAt, WithOn, WithOff, InCR
<1>4. ASSUME mishap' = "none"
      PROVE  /\ \A s \in on \cup on' : s \notin {"PLLSAI1", "PLLSAI2"} => (s \in on' <=> s \in on)
             /\ (Path /\ PllsRun /\ RangeRight)'
  <2>1. CASE SaiPllOnStore
    <3>1. /\ pc = "pllonstore" /\ pc' = "set" /\ ~Undone(clock) /\ WithOn(clock)
          /\ clock \in {"PLLSAI1", "PLLSAI2"} /\ clock \in InCR
      BY <1>1, <1>4, <2>1, Typed DEF SaiPllOnStore, ThreadAt, Goto, Note, Path, InCR
    <3>2. \A x : x \in on' <=> x \in on \/ x = clock
      BY <3>1, Stored
    <3> QED
      BY <1>1, <3>1, <3>2, Typed DEF Path, AudioSources, PllsRun, NeedPll1, RangeRight, RangeOf,
        AudioHoldsRange, Clk48HoldsRange
  <2>2. CASE SaiOff1Store
    <3>1. /\ pc = "off1store" /\ pc' = "off2" /\ ~Undone("PLLSAI1") /\ WithOff("PLLSAI1")
          /\ "PLLSAI1" \in InCR
      BY <1>4, <2>2 DEF SaiOff1Store, ThreadAt, Goto, Note, InCR
    <3>2. \A x : x \in on' <=> x \in on /\ x # "PLLSAI1"
      BY <3>1, Stored
    <3> QED
      BY <1>1, <3>1, <3>2, Typed DEF Path, AudioSources, PllsRun, NeedPll1, RangeRight, RangeOf,
        AudioHoldsRange, Clk48HoldsRange
  <2>3. CASE SaiOff2Store
    <3>1. /\ pc = "off2store" /\ pc' = "range2test" /\ ~Undone("PLLSAI2") /\ WithOff("PLLSAI2")
          /\ "PLLSAI2" \in InCR
      BY <1>4, <2>3 DEF SaiOff2Store, ThreadAt, Goto, Note, InCR
    <3>2. \A x : x \in on' <=> x \in on /\ x # "PLLSAI2"
      BY <3>1, Stored
    <3> QED
      BY <1>1, <3>1, <3>2, Typed DEF Path, AudioSources, PllsRun, NeedPll1, RangeRight, RangeOf,
        AudioHoldsRange, Clk48HoldsRange
  <2>4. CASE SaiResetStore
    <3>1. /\ pc = "resetstore" /\ pc' = (IF clock = "none" THEN "record" ELSE "start")
          /\ ~Undone("PLLSAI1") /\ WithOff("PLLSAI1") /\ "PLLSAI1" \in InCR
      BY <1>4, <2>4 DEF SaiResetStore, ThreadAt, Goto, Note, InCR
    <3>2. \A x : x \in on' <=> x \in on /\ x # "PLLSAI1"
      BY <3>1, Stored
    <3> QED
      BY <1>1, <3>1, <3>2, Typed DEF Path, AudioSources, PllsRun, NeedPll1, RangeRight, RangeOf,
        AudioHoldsRange, Clk48HoldsRange
  <2>5. CASE SaiStartStore
    <3>1. /\ pc = "startstore" /\ pc' = "record" /\ ~Undone("PLLSAI1") /\ WithOn("PLLSAI1")
          /\ "PLLSAI1" \in InCR
      BY <1>4, <2>5 DEF SaiStartStore, ThreadAt, Goto, Note, InCR
    <3>2. \A x : x \in on' <=> x \in on \/ x = "PLLSAI1"
      BY <3>1, Stored
    <3> QED
      BY <1>1, <3>1, <3>2, Typed DEF Path, AudioSources, PllsRun, NeedPll1, RangeRight, RangeOf,
        AudioHoldsRange, Clk48HoldsRange
  <2> QED  BY <2>1, <2>2, <2>3, <2>4, <2>5
<1> QED  BY <1>1, <1>2, <1>3, <1>4, SaiKeeps DEF ClockTypeOK, WaitStates

(* The new audio clock is recorded.                                         *)
LEMMA SaiSetKeeps ==
  ASSUME ClockInv, mishap = "none", SaiSet \/ SaiRecord
  PROVE  ClockInv'
<1>1. /\ UNCHANGED <<chip, hclk, clk48, counts, mco, lsco, users16, on, sysclk, range, lpr, latency,
                     mishap>>
      /\ saiclk' = clock /\ clock' \in {clock, "none"} /\ cr' = {}
      /\ wanted' \in {wanted, 0} /\ ws' \in {ws, 0}
      /\ \/ pc = "set" /\ pc' = "off1"
         \/ pc = "record" /\ pc' = "idle"
      /\ ClockTypeOK /\ Path /\ PllsRun /\ RangeRight /\ WaitStates
  BY DEF SaiSet, SaiRecord, ThreadAt, Goto, Leave, powerVars, ClockInv, Good
<1>2. Path'
  BY <1>1 DEF Path, AudioSources
<1>3. PllsRun'
  BY <1>1, Typed DEF PllsRun, NeedPll1, Path, AudioSources
<1>4. RangeRight'
  BY <1>1, Typed DEF Path, RangeRight, RangeOf, AudioHoldsRange, Clk48HoldsRange
<1>5. /\ clock' \in {"none", "PLLSAI1", "PLLSAI2"} /\ wanted' \in Hclk \cup {0} /\ ws' \in 0..4
      /\ saiclk' \in AudioSources \cup {"none"}
  BY <1>1, Typed DEF Path
<1> QED  BY <1>1, <1>2, <1>3, <1>4, <1>5, SaiKeeps DEF ClockTypeOK, WaitStates

(* Range 1 before audio: off the low-power regulator, the range, the wait      *)
(* states.                                                                 *)
LEMMA SaiRaiseKeeps ==
  ASSUME ClockInv, mishap = "none", SaiLprStore \/ SaiVosStore \/ SaiLatency1
  PROVE  ClockInv'
<1>1. /\ UNCHANGED <<chip, hclk, saiclk, clk48, counts, mco, lsco, users16, on, sysclk, clock, wanted, ws>>
      /\ cr' = {} /\ ClockTypeOK /\ Path /\ PllsRun /\ RangeRight /\ WaitStates
      /\ mishap' \in Mishaps \cup {"none"}
  BY DEF SaiLprStore, SaiVosStore, SaiLatency1, Goto, Note, Mishaps, treeVars, ClockInv, Good
<1>2. \/ /\ pc = "lprstore" /\ pc' = "vos" /\ latency' = latency /\ lpr' = FALSE
         /\ range' \in 1..2 /\ (mishap' = "none" => range' = range)
      \/ /\ pc = "vosstore" /\ pc' = "latency1" /\ latency' = latency /\ lpr' = FALSE
         /\ range' = 1
      \/ /\ pc = "latency1" /\ pc' = "pllon" /\ latency' = Latency1(hclk)
         /\ range' = range /\ lpr' = lpr /\ range = 1
  <2>1. CASE SaiLprStore
    BY <2>1 DEF SaiLprStore, ThreadAt, Goto, Note
  <2>2. CASE SaiVosStore
    <3>1. lpr' = ("LPR" \in cr) /\ pc = "vosstore"
      BY <2>2 DEF SaiVosStore, ThreadAt
    <3>2. "LPR" \notin cr
      BY <1>1, <3>1 DEF RangeRight
    <3>3. ("LPR" \in cr) = FALSE
      BY <3>2
    <3>4. lpr' = FALSE
      BY <3>1, <3>3, Zenon
    <3> QED  BY <1>1, <2>2, <3>1, <3>4 DEF SaiVosStore, Goto
  <2>3. CASE SaiLatency1
    BY <1>1, <2>3 DEF SaiLatency1, ThreadAt, Goto, RangeRight, Path
  <2> QED  BY <2>1, <2>2, <2>3
<1>3. /\ range' \in 1..2 /\ lpr' \in BOOLEAN /\ latency' \in 0..4
      /\ mishap' = "none" =>
           latency' >= (IF range' = 2 THEN Latency2(hclk) ELSE Latency1(hclk))
  <2>1. /\ Latency1(hclk) \in 0..4 /\ Latency2(hclk) \in 0..4
        /\ range = 2 => Latency1(hclk) <= Latency2(hclk)
    BY <1>1, Typed, Latencies DEF RangeRight
  <2>2. lpr' \in BOOLEAN
    BY <1>1, <1>2, Zenon DEF ClockTypeOK
  <2>3. range' \in 1..2 /\ latency' \in 0..4
    BY <1>2, <2>1, Typed
  <2>4. ASSUME mishap' = "none"
        PROVE  latency' >= (IF range' = 2 THEN Latency2(hclk) ELSE Latency1(hclk))
    BY <1>1, <1>2, <2>1, <2>4, Typed DEF WaitStates
  <2> QED  BY <2>2, <2>3, <2>4
<1>4. Path' /\ PllsRun'
  BY <1>1, <1>2, Typed DEF Path, AudioSources, PllsRun, NeedPll1
<1>5. mishap' = "none" => RangeRight'
  BY <1>1, <1>2, Typed DEF Path, RangeRight, RangeOf, AudioHoldsRange, Clk48HoldsRange
<1> QED  BY <1>1, <1>2, <1>3, <1>4, <1>5, Typed, SaiKeeps DEF ClockTypeOK

(* Range 2 after it: the wait states, the range, the low-power regulator.      *)
LEMMA SaiLowerKeeps ==
  ASSUME ClockInv, mishap = "none", SaiRange2 \/ SaiVos2Store \/ SaiLprunStore
  PROVE  ClockInv'
<1>1. /\ UNCHANGED <<chip, hclk, saiclk, clk48, counts, mco, lsco, users16, on, sysclk, mishap>>
      /\ clock' \in {clock, "none"} /\ cr' = {} /\ wanted' \in {wanted, 0} /\ ws' \in {ws, 0}
      /\ ClockTypeOK /\ Path /\ PllsRun /\ RangeRight /\ WaitStates
  BY DEF SaiRange2, SaiVos2Store, SaiLprunStore, Goto, Leave, treeVars, ClockInv, Good
<1>2. \/ /\ pc = "range2" /\ range' = range /\ lpr' = lpr
         /\ \/ hclk <= 24 /\ pc' = "vos2" /\ latency' = Latency2(hclk)
            \/ hclk > 24 /\ pc' = "idle" /\ latency' = latency
      \/ /\ pc = "vos2store" /\ range' = 2 /\ latency' = latency
         /\ lpr' \in BOOLEAN /\ (lpr' => hclk <= 2)
         /\ pc' = IF hclk <= 2 THEN "lprun" ELSE "idle"
      \/ /\ pc = "lprunstore" /\ range' = 2 /\ lpr' = TRUE /\ hclk <= 2 /\ latency' = latency
         /\ pc' = "idle"
  <2>1. CASE SaiRange2
    BY <2>1, Typed DEF SaiRange2, ThreadAt, Goto, Leave
  <2>2. CASE SaiVos2Store
    <3>1. lpr' = ("LPR" \in cr) /\ pc = "vos2store"
      BY <2>2 DEF SaiVos2Store, ThreadAt
    <3>2. lpr' \in BOOLEAN
      BY <3>1
    <3>3. lpr' => hclk <= 2
      BY <1>1, <3>1, Zenon DEF RangeRight
    <3> QED  BY <2>2, <3>1, <3>2, <3>3 DEF SaiVos2Store, Goto, Leave
  <2>3. CASE SaiLprunStore
    BY <1>1, <2>3 DEF SaiLprunStore, ThreadAt, Leave, RangeRight
  <2> QED  BY <2>1, <2>2, <2>3
<1>3. saiclk = "none" /\ ~Clk48HoldsRange /\ (pc # "range2" => hclk <= 24 /\ latency >= Latency2(hclk))
  BY <1>1, <1>2 DEF Path, RangeRight, WaitStates
<1>4. /\ range' \in 1..2 /\ lpr' \in BOOLEAN /\ latency' \in 0..4
      /\ latency' >= (IF range' = 2 THEN Latency2(hclk) ELSE Latency1(hclk))
      /\ pc' \in Lowering \ {"range2"} => hclk <= 24 /\ latency' >= Latency2(hclk)
  <2>1. /\ Latency1(hclk) \in 0..4 /\ Latency2(hclk) \in 0..4
        /\ hclk <= 24 => Latency1(hclk) <= Latency2(hclk)
    BY Typed, Latencies
  <2>2. lpr' \in BOOLEAN
    BY <1>1, <1>2, Zenon DEF ClockTypeOK
  <2>3. range' \in 1..2 /\ latency' \in 0..4
    BY <1>2, <2>1, Typed
  <2>4. latency' >= (IF range' = 2 THEN Latency2(hclk) ELSE Latency1(hclk))
    BY <1>1, <1>2, <1>3, <2>1, Typed DEF WaitStates
  <2>5. pc' \in Lowering \ {"range2"} => hclk <= 24 /\ latency' >= Latency2(hclk)
    BY <1>1, <1>2, <1>3, <2>1, Typed DEF WaitStates
  <2> QED  BY <2>2, <2>3, <2>4, <2>5
<1>5. Path' /\ PllsRun'
  BY <1>1, <1>2, <1>3, Typed DEF Path, AudioSources, PllsRun, NeedPll1
<1>6. RangeRight'
  BY <1>1, <1>2, <1>3, Typed DEF RangeRight, RangeOf, AudioHoldsRange, Clk48HoldsRange
<1>7. clock' \in {"none", "PLLSAI1", "PLLSAI2"} /\ wanted' \in Hclk \cup {0} /\ ws' \in 0..4
  BY <1>1, Typed
<1> QED  BY <1>1, <1>2, <1>4, <1>5, <1>6, <1>7, Typed, SaiKeeps DEF ClockTypeOK

-----------------------------------------------------------------------------
LEMMA ClockStepKeeps ==
  ASSUME ClockInv, mishap = "none", ClockNext
  PROVE  ClockInv'
<1>1. CASE Anywhere
  BY <1>1, Hsi16EnableKeeps, Hsi16DisableKeeps, Clk48AcquireKeeps, Clk48ReleaseKeeps, McoKeeps,
    LscoKeeps DEF Anywhere
<1>2. CASE Sai
  BY <1>2, SaiDecideKeeps, SaiStoreKeeps, SaiSetKeeps, SaiRaiseKeeps, SaiLowerKeeps DEF Sai, SaiDecide
<1>3. CASE \E h \in Hclk : Configure(h)
  BY <1>3, ConfigureKeeps
<1>4. CASE ConfigureApply
  BY <1>4, ConfigureApplyKeeps
<1>5. CASE Stop
  BY <1>5, StopKeeps
<1> QED  BY <1>1, <1>2, <1>3, <1>4, <1>5 DEF ClockNext

LEMMA ClockStutterKeeps ==
  ASSUME ClockInv, UNCHANGED clockVars
  PROVE  ClockInv'
<1>1. UNCHANGED <<chip, hclk, saiclk, clk48, counts, mco, lsco, users16, on, sysclk, range, lpr,
                  latency, pc, clock, cr, wanted, ws, mishap>>
  BY DEF clockVars, treeVars, powerVars, threadVars
<1>2. ClockTypeOK' /\ CountsRight'
  BY <1>1 DEF ClockInv, ClockTypeOK, CountsRight, AudioSources, McoModes
<1>3. ASSUME mishap' = "none" PROVE Good'
  <2>1. CountedRun' /\ SystemRuns' /\ Path'
    BY <1>1, <1>3 DEF ClockInv, Good, CountedRun, SystemRuns, Path, AudioSources
  <2>2. PllsRun' /\ RangeRight' /\ WaitStates'
    BY <1>1, <1>3 DEF ClockInv, Good, PllsRun, NeedPll1, RangeRight, WaitStates, LatencyOf, RangeOf,
      AudioHoldsRange, Clk48HoldsRange
  <2> QED  BY <2>1, <2>2 DEF Good
<1> QED  BY <1>2, <1>3 DEF ClockInv

LEMMA ClockInitInv == Init => ClockInv
<1> SUFFICES ASSUME Init PROVE ClockInv
  OBVIOUS
<1>1. /\ chip \in {"L476", "L496"} /\ hclk \in Hclk /\ hclk \in 1..80 /\ saiclk = "none"
      /\ clk48 = {} /\ mco = "none" /\ lsco = "none" /\ users16 = {}
      /\ pc = "idle" /\ clock = "none" /\ cr = {} /\ wanted = 0 /\ ws = 0 /\ mishap = "none"
      /\ sysclk = (IF hclk <= 24 THEN "MSI" ELSE "PLL")
      /\ range = RangeOf(hclk) /\ lpr = (hclk <= 2) /\ latency = LatencyOf(hclk)
  BY ClockAssumption DEF Init, Chips
<1>2. /\ counts \in [Sources -> Int] /\ counts["HSI16"] = 0 /\ counts["HSI48"] = 0
      /\ counts["LSI"] = One(~Lse)
      /\ \A s : s \in on <=> s \in Oscillators(hclk) \/ (s = "LSI" /\ ~Lse)
  BY DEF Init, Sources, One, If
<1>3. Cardinality(users16) = 0 /\ users16 \in SUBSET Users16
  BY <1>1, FS_EmptySet
<1>4. CountsRight
  BY <1>1, <1>2, <1>3 DEF CountsRight, One
<1>5. counts \in [Sources -> 0..Cardinality(Users16) + 3]
  BY <1>2, <1>3, CountsFit DEF One
<1>6. Oscillators(hclk) \subseteq {"MSI", "HSE", "PLL"}
  BY DEF Oscillators
<1>7. on \subseteq InCR \cup {"HSI48", "LSI"}
  BY <1>2, <1>6 DEF InCR
<1>8. range \in 1..2 /\ latency \in 0..4
  BY <1>1, Latencies DEF RangeOf, LatencyOf
<1>9. lpr \in BOOLEAN
  <2>1. (hclk <= 2) \in BOOLEAN
    OBVIOUS
  <2> QED  BY <1>1, <2>1
<1>10. ClockTypeOK
  BY <1>1, <1>3, <1>5, <1>7, <1>8, <1>9
    DEF ClockTypeOK, Chips, AudioSources, McoModes, Sources, Mishaps
<1>11. CountedRun /\ SystemRuns /\ Path
  BY <1>1, <1>2, <1>6 DEF CountedRun, SystemRuns, Path, One
<1>12. PllsRun
  BY <1>1, <1>2, <1>6 DEF PllsRun, NeedPll1
<1>13. RangeRight
  <2>1. lpr => hclk <= 2
    BY <1>1, Zenon
  <2> QED  BY <1>1, <2>1 DEF RangeRight, RangeOf, AudioHoldsRange, Clk48HoldsRange
<1>14. WaitStates
  BY <1>1, <1>8 DEF WaitStates, LatencyOf
<1> QED  BY <1>4, <1>10, <1>11, <1>12, <1>13, <1>14 DEF ClockInv, Good

(* The thread is one of the levels that call for a peripheral's clock, so the *)
(* shared clocks behave as PeriphClock says.                                *)
THEOREM SharedClocks == Spec => CondSpec
<1>1. Init => CondInit
  BY DEF Init
<1>2. [Next]_vars => [CondNext]_condVars
  <2>1. CASE ClockNext /\ UNCHANGED condVars
    BY <2>1
  <2>2. CASE PeriphNext
    BY <2>2, ClockAssumption DEF PeriphNext, CondNext
  <2>3. CASE UNCHANGED vars
    BY <2>3 DEF vars
  <2> QED  BY <2>1, <2>2, <2>3 DEF Next
<1> QED  BY <1>1, <1>2, PTL DEF Spec, CondSpec

(* The inductive invariant of the clock tree.                               *)
THEOREM ClockInvariance == Spec => []ClockInv
<1>1. ClockInv /\ [Next]_vars => ClockInv'
  <2> SUFFICES ASSUME ClockInv, [Next]_vars PROVE ClockInv'
    OBVIOUS
  <2>1. CASE mishap = "none" /\ ClockNext
    BY <2>1, ClockStepKeeps
  <2>2. CASE UNCHANGED clockVars
    BY <2>2, ClockStutterKeeps
  <2>3. CASE UNCHANGED vars
    BY <2>3, ClockStutterKeeps DEF vars
  <2> QED  BY <2>1, <2>2, <2>3 DEF Next
<1> QED  BY ClockInitInv, <1>1, PTL DEF Spec

(* Every variable of the clock tree and of the shared clocks keeps its type:  *)
(* no count falls below zero.                                              *)
THEOREM TypeCorrect == Spec => []TypeOK
<1>1. ClockInv /\ CondInv => TypeOK
  BY DEF ClockInv, CondInv, TypeOK
<1> QED  BY ClockInvariance, SharedClocks, CondInvariance, <1>1, PTL

(* Whoever holds a source has it running, and what nobody holds is off,       *)
(* through changes of the system clock, stop modes and changes of audio.     *)
THEOREM HeldSourcesRun == Spec => []SourcesMatch
<1>1. ClockInv => SourcesMatch
  <2> SUFFICES ASSUME ClockInv, mishap = "none" PROVE SourcesMatch
    BY DEF SourcesMatch
  <2>1. Good /\ CountsRight
    BY DEF ClockInv
  <2>2. {sysclk} \cup Oscillators(hclk) \subseteq on
    BY <2>1 DEF Good, SystemRuns, Oscillators
  <2>3. "HSI16" \in on <=> users16 # {} \/ mco = "HSI16"
    <3>1. Cardinality(users16) = 0 <=> users16 = {}
      BY CountsTyped, FS_EmptySet
    <3> QED  BY <2>1, <3>1, CountsTyped DEF Good, CountedRun, CountsRight, One
  <2>4. /\ "HSI48" \in on <=> (chip # "L476" /\ clk48 # {}) \/ mco = "HSI48"
        /\ "LSI" \in on <=> ~Lse \/ mco = "LSI" \/ lsco = "LSI"
    BY <2>1 DEF Good, CountedRun, CountsRight, One
  <2>5. clk48 # {} => Clk48Source \in on
    BY <2>1, <2>4 DEF Good, PllsRun, NeedPll1, Clk48Source
  <2>6. pc \in {"idle", "configure"} =>
         /\ "PLLSAI1" \in on <=> saiclk = "PLLSAI1" \/ (chip = "L476" /\ clk48 # {})
         /\ "PLLSAI2" \in on <=> saiclk = "PLLSAI2"
    BY <2>1 DEF Good, PllsRun, NeedPll1
  <2> QED  BY <2>2, <2>3, <2>4, <2>5, <2>6 DEF SourcesMatch
<1> QED  BY ClockInvariance, <1>1, PTL

(* The FLASH has the wait states that range and clock ask for, and range 2 is  *)
(* chosen exactly when nobody needs range 1.                                *)
THEOREM SupplyIsEnough == Spec => []SupplyFits
<1>1. ClockInv => SupplyFits
  BY DEF ClockInv, Good, RangeRight, WaitStates, SupplyFits
<1> QED  BY ClockInvariance, <1>1, PTL

(* In the clock tree, too, whoever has enabled a shared peripheral has it      *)
(* clocked, but while a disable is under way.                               *)
THEOREM SharedPeripheralsClocked == Spec => []UsersClocked
BY SharedClocks, PeripheralClocked, PTL
=============================================================================
