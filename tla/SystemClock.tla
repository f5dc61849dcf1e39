----------------------------- MODULE SystemClock -----------------------------
(***************************************************************************)
(* The clock tree of stm32l4_system.c: the oscillators and PLLs and who       *)
(* holds them, the voltage range and the FLASH latency that go with the      *)
(* system clock, and the stop mode that switches most of it off.             *)
(*                                                                         *)
(* Most calls mask the interrupts and are one action each; any context may    *)
(* make them.  Two do not: saiclk_configure() masks nothing, and              *)
(* sysclk_configure() chooses its FLASH latency before it masks.  They are    *)
(* steps of the thread, between which a handler may acquire or release.       *)
(* The shared peripheral clocks of PeriphClock belong to the same driver:     *)
(* the thread is in one call of either at a time.                           *)
(***************************************************************************)
EXTENDS PeriphClock, FiniteSets

CONSTANTS
  Hclk,       \* the frequencies of HCLK asked for, in MHz
  Hse,        \* device.hseclk # 0
  Lse,        \* device.lseclk # 0
  References, \* who acquires the 48 MHz clock: USB, RNG, SDMMC1
  Users16     \* the drivers that hold HSI16 with hsi16_enable()

(* The thread, level 0, is one of the levels that share the clocks.          *)
ASSUME ClockAssumption ==
  /\ Hclk \subseteq 1..80 /\ Hse \in BOOLEAN /\ Lse \in BOOLEAN
  /\ References \subseteq {"USB", "RNG", "SDMMC1"}
  /\ IsFiniteSet(Users16)
  /\ 0 \in Level

VARIABLES
  chip,       \* which part the code was built for
  hclk,       \* device.hclk
  saiclk,     \* device.saiclk: the PLL that makes the audio clock, or "none"
  clk48,      \* device.clk48: who holds the 48 MHz clock
  counts,     \* device.lsi, device.hsi16, device.hsi48
  mco,        \* device.mco
  lsco,       \* device.lsco
  users16,    \* the drivers between hsi16_enable() and hsi16_disable()
  on,         \* the oscillators and PLLs that run
  sysclk,     \* RCC->CFGR SW: the source of the system clock
  range,      \* PWR->CR1 VOS: the voltage range
  lpr,        \* PWR->CR1 LPR: the low-power regulator
  latency,    \* FLASH->ACR LATENCY
  pc,         \* where the thread is
  clock,      \* its argument of saiclk_configure()
  cr,         \* what it loaded from RCC->CR, or from PWR->CR1
  wanted,     \* its argument hclk of sysclk_configure()
  ws,         \* its local latency
  mishap      \* history: what went wrong, see below

treeVars == <<saiclk, clk48, counts, mco, lsco, users16>>
powerVars == <<range, lpr, latency>>
threadVars == <<pc, clock, cr, wanted, ws>>
clockVars == <<chip, hclk, treeVars, on, sysclk, powerVars, threadVars, mishap>>
vars == <<condVars, clockVars>>

(* L476 takes 48 MHz from PLLSAI1; the others have HSI48, and no PLLSAI2 in   *)
(* use for audio.                                                          *)
Chips == {"L476", "L496"}
Clk48Source == IF chip = "L476" THEN "PLLSAI1" ELSE "HSI48"
AudioSources == IF chip = "L476" THEN {"PLLSAI1", "PLLSAI2"} ELSE {"PLLSAI1"}
InCR == {"MSI", "HSE", "PLL", "HSI16", "PLLSAI1", "PLLSAI2"}

(***************************************************************************)
(* The properties below hold as long as none of these happened.  The model  *)
(* ends there.                                                             *)
(*   lost:   the thread's update of RCC->CR or of PWR->CR1 undoes one of a    *)
(*           handler, which came between its load and its store             *)
(*   stale:  a handler acquires or releases the 48 MHz clock when the thread   *)
(*           has just looked who holds it, and is acting on that             *)
(*   early:  a handler releases the 48 MHz clock while the thread prepares,    *)
(*           or has prepared, for audio, but has not yet set device.saiclk    *)
(***************************************************************************)
Mishaps == {"lost", "stale", "early"}
Note(p, m) == mishap' = IF p THEN m ELSE "none"

If(p, s) == IF p THEN s ELSE {}

-----------------------------------------------------------------------------
(* Voltage range and FLASH latency.                                        *)

(* Wait states of the FLASH in range 1, and in range 2.                     *)
Latency1(h) == Cardinality({f \in {16, 32, 48, 64} : h > f})
Latency2(h) == Cardinality({f \in {6, 12, 18} : h > f})

(* Who cannot do with range 2: audio only where it takes a PLL off MSI.       *)
Clk48HoldsRange == clk48 \cap {"USB", "RNG"} # {}
AudioHoldsRange == chip = "L476" /\ saiclk # "none"

(* stm32l4_system_select_range_1() with interrupts masked                   *)
SelectRange1 ==
  IF hclk <= 24
  THEN range' = 1 /\ lpr' = FALSE /\ latency' = Latency1(hclk)
  ELSE UNCHANGED powerVars

(* stm32l4_system_select_range_2() with interrupts masked                   *)
SelectRange2 ==
  IF hclk <= 24
  THEN range' = 2 /\ lpr' = (hclk <= 2) /\ latency' = Latency2(hclk)
  ELSE UNCHANGED powerVars

-----------------------------------------------------------------------------
(* Counted sources.  lsi_enable() and its kin work on a count and switch the  *)
(* oscillator with the first and the last.                                 *)

Counted(s, n) == counts' = [counts EXCEPT ![s] = @ + n]
Up(s, o) == IF s \in DOMAIN counts /\ counts[s] = 0 THEN o \cup {s} ELSE o
Down(s, o) == IF s \in DOMAIN counts /\ counts[s] = 1 THEN o \ {s} ELSE o

(* stm32l4_system_hsi16_enable(), _disable() *)
Hsi16Enable(u) ==
  /\ u \notin users16
  /\ users16' = users16 \cup {u}
  /\ Counted("HSI16", 1)
  /\ on' = Up("HSI16", on)
  /\ UNCHANGED <<chip, hclk, saiclk, clk48, mco, lsco, sysclk, powerVars, threadVars, mishap>>

Hsi16Disable(u) ==
  /\ u \in users16
  /\ users16' = users16 \ {u}
  /\ Counted("HSI16", -1)
  /\ on' = Down("HSI16", on)
  /\ UNCHANGED <<chip, hclk, saiclk, clk48, mco, lsco, sysclk, powerVars, threadVars, mishap>>

McoModes == {"none", "LSI", "HSI16"} \cup If(chip # "L476", {"HSI48"})

(* Fault: the source of the old mode is kept running.                       *)
McoConfigureKeeping(m) ==
  /\ m # mco
  /\ mco' = m
  /\ counts' = [s \in DOMAIN counts |-> counts[s] + (IF s = m THEN 1 ELSE 0)]
  /\ on' = Up(m, on)
  /\ UNCHANGED <<chip, hclk, saiclk, clk48, lsco, users16, sysclk, powerVars, threadVars, mishap>>

(* stm32l4_system_mco_configure() of another mode.                          *)
McoConfigure(m) ==
  /\ m # mco
  /\ mco' = m
  /\ counts' = [s \in DOMAIN counts |-> counts[s] + (IF s = m THEN 1 ELSE 0)
                                                 - (IF s = mco THEN 1 ELSE 0)]
  /\ on' = Up(m, Down(mco, on))
  /\ UNCHANGED <<chip, hclk, saiclk, clk48, lsco, users16, sysclk, powerVars, threadVars, mishap>>

(* stm32l4_system_lsco_configure() *)
LscoConfigure(m) ==
  /\ m # lsco
  /\ lsco' = m
  /\ Counted("LSI", IF m = "LSI" THEN 1 ELSE -1)
  /\ on' = IF m = "LSI" THEN Up("LSI", on) ELSE Down("LSI", on)
  /\ UNCHANGED <<chip, hclk, saiclk, clk48, mco, users16, sysclk, powerVars, threadVars, mishap>>

-----------------------------------------------------------------------------
(* The 48 MHz clock, which USB, RNG and the SD card share.                  *)

(* The thread is raising the range for audio, or lowering it after audio.     *)
Raising == {"lprstore", "vos", "vosstore", "latency1"}
Lowering == {"range2", "vos2", "vos2store", "lprun", "lprunstore"}

(* stm32l4_system_clk48_acquire() *)
Clk48Acquire(r) ==
  /\ IF (clk48 \cup {r}) \cap {"USB", "RNG"} # {} THEN SelectRange1 ELSE UNCHANGED powerVars
  /\ \/ /\ clk48 = {} /\ chip = "L476"
        /\ on' = on \cup If(saiclk # "PLLSAI1", {"PLLSAI1"})
        /\ UNCHANGED counts
     \/ /\ clk48 = {} /\ chip # "L476"
        /\ on' = Up("HSI48", on)
        /\ Counted("HSI48", 1)
     \/ /\ clk48 # {}
        /\ UNCHANGED <<on, counts>>
  /\ clk48' = clk48 \cup {r}
  /\ Note(pc = "off1store" \/ (pc \in Lowering /\ r # "SDMMC1"), "stale")
  /\ UNCHANGED <<chip, hclk, saiclk, mco, lsco, users16, sysclk, threadVars>>

(* The thread has prepared for audio that device.saiclk does not say yet.    *)
Preparing == pc \in Raising \cup {"pllon", "pllonstore", "set"} /\ clock # saiclk

(* stm32l4_system_clk48_release() *)
Clk48Release(r) ==
  /\ \/ /\ clk48 = {r} /\ chip = "L476"
        /\ on' = on \ If(saiclk # "PLLSAI1", {"PLLSAI1"})
        /\ UNCHANGED counts
     \/ /\ clk48 = {r} /\ chip # "L476"
        /\ on' = Down("HSI48", on)
        /\ Counted("HSI48", -1)
     \/ /\ clk48 # {r}
        /\ UNCHANGED <<on, counts>>
  /\ clk48' = clk48 \ {r}
  /\ IF ~AudioHoldsRange /\ clk48' \cap {"USB", "RNG"} = {}
     THEN SelectRange2 ELSE UNCHANGED powerVars
  /\ mishap' = IF Preparing /\ chip = "L476" THEN "early"
               ELSE IF pc = "configure" /\ Clk48HoldsRange /\ r \in clk48 THEN "stale"
               ELSE "none"
  /\ UNCHANGED <<chip, hclk, saiclk, mco, lsco, users16, sysclk, threadVars>>

-----------------------------------------------------------------------------
(* The system clock.                                                       *)

(* The thread is in no call, and no handler interrupts it.                   *)
ThreadAt(l) == pc = l /\ Resting

(* Its locals are dead once it returns, and cr once it is stored.            *)
Goto(l) == pc' = l /\ cr' = {} /\ UNCHANGED <<clock, wanted, ws>>
Leave == pc' = "idle" /\ clock' = "none" /\ cr' = {} /\ wanted' = 0 /\ ws' = 0

RangeOf(h) == IF h <= 24 /\ ~AudioHoldsRange /\ ~Clk48HoldsRange THEN 2 ELSE 1
LatencyOf(h) == IF RangeOf(h) = 2 THEN Latency2(h) ELSE Latency1(h)

(* stm32l4_system_sysclk_configure() chooses the latency ...                *)
Configure(h) ==
  /\ ThreadAt("idle")
  /\ wanted' = h
  /\ ws' = LatencyOf(h)
  /\ pc' = "configure"
  /\ UNCHANGED <<chip, hclk, treeVars, on, sysclk, powerVars, clock, cr, mishap>>

(* What drives the system clock at this frequency.                          *)
Oscillators(h) ==
  IF h <= 24 THEN {"MSI"} ELSE {"PLL"} \cup (IF Hse THEN {"HSE"} ELSE {"MSI"})

(* What was switched off on the way, and is switched on again for those who  *)
(* hold it.                                                                *)
Restored ==
  If(saiclk # "none", {saiclk}) \cup If(counts["HSI48"] # 0, {"HSI48"})
    \cup If(chip = "L476" /\ clk48 # {}, {"PLLSAI1"})
    \cup If(counts["HSI16"] # 0, {"HSI16"})

(* Fault: the wait states are those of range 1 in every range.              *)
ConfigureApplyRange1 ==
  /\ ThreadAt("configure")
  /\ on' = Oscillators(wanted) \cup Restored
             \cup (on \cap ({"LSI"} \cup If(counts["HSI48"] = 0, {"HSI48"})))
  /\ sysclk' = IF wanted <= 24 THEN "MSI" ELSE "PLL"
  /\ hclk' = wanted
  /\ range' = RangeOf(wanted)
  /\ lpr' = (range' = 2 /\ wanted <= 2)
  /\ latency' = Latency1(wanted)
  /\ Leave
  /\ UNCHANGED <<chip, treeVars, mishap>>

(* ... and then, with interrupts masked, goes over HSI16 to the new clock.    *)
ConfigureApply ==
  /\ ThreadAt("configure")
  /\ on' = Oscillators(wanted) \cup Restored
             \cup (on \cap ({"LSI"} \cup If(counts["HSI48"] = 0, {"HSI48"})))
  /\ sysclk' = IF wanted <= 24 THEN "MSI" ELSE "PLL"
  /\ hclk' = wanted
  /\ range' = RangeOf(wanted)
  /\ lpr' = (range' = 2 /\ wanted <= 2)
  /\ latency' = ws
  /\ Leave
  /\ UNCHANGED <<chip, treeVars, mishap>>

(* What runs when the hardware has left a stop mode: the clock it wakes up    *)
(* with (STOPWUCK), HSI16 where HSIASFS asks for it, and LSI.                *)
Awake ==
  IF hclk <= 24 THEN {"MSI"} \cup If(counts["HSI16"] # 0, {"HSI16"}) ELSE {"HSI16"}

(* stm32l4_system_stop(): suspend, sleep and resume, with interrupts masked.   *)
Stop ==
  /\ ThreadAt("idle")
  /\ on' = (IF hclk <= 24 THEN Awake
            ELSE (Awake \ If(counts["HSI16"] = 0, {"HSI16"})) \cup Oscillators(hclk))
           \cup If(saiclk # "none", {saiclk}) \cup If(counts["HSI48"] # 0, {"HSI48"})
           \cup If(chip = "L476" /\ clk48 # {}, {"PLLSAI1"})
           \cup (on \cap {"LSI"})
  /\ sysclk' = IF hclk <= 24 THEN "MSI" ELSE "PLL"
  /\ UNCHANGED <<chip, hclk, treeVars, powerVars, threadVars, mishap>>

-----------------------------------------------------------------------------
(* stm32l4_system_saiclk_configure(), with interrupts enabled.              *)

Load(from, to) ==
  /\ pc = from
  /\ cr' = on \cap InCR
  /\ pc' = to
  /\ UNCHANGED <<clock, wanted, ws>>

(* The same of PWR->CR1, which says the range and the regulator.             *)
LoadPower(to) ==
  /\ cr' = If(range = 2, {"VOS2"}) \cup If(lpr, {"LPR"})
  /\ pc' = to
  /\ UNCHANGED <<clock, wanted, ws>>

(* What RCC->CR holds after s was switched on, or off, in cr.           *)
WithOn(s) == on' = (on \ InCR) \cup cr \cup {s}
WithOff(s) == on' = (on \ InCR) \cup (cr \ {s})
Undone(s) == (on \cap InCR) \ {s} # cr \ {s}

SaiConfigure(c) ==
  /\ ThreadAt("idle")
  /\ clock' = c
  /\ pc' = CASE chip # "L476" -> "reset"
             [] chip = "L476" /\ c = "none" -> "set"
             [] chip = "L476" /\ c # "none" /\ saiclk = "none" -> "range1"
             [] OTHER -> "pllon"
  /\ UNCHANGED <<chip, hclk, treeVars, on, sysclk, powerVars, cr, wanted, ws, mishap>>

(* The L476: range 1 for audio, by select_range_1(): off the low-power        *)
(* regulator, then the range, then the wait states, ...                     *)
SaiRange1 ==
  /\ ThreadAt("range1")
  /\ IF hclk > 24 THEN Goto("pllon") ELSE IF lpr THEN LoadPower("lprstore") ELSE Goto("vos")
  /\ UNCHANGED <<chip, hclk, treeVars, on, sysclk, powerVars, mishap>>

SaiLprStore ==
  /\ ThreadAt("lprstore")
  /\ lpr' = FALSE
  /\ range' = IF "VOS2" \in cr THEN 2 ELSE 1
  /\ Note(range' # range, "lost")
  /\ Goto("vos")
  /\ UNCHANGED <<chip, hclk, treeVars, on, sysclk, latency>>

SaiVos ==
  /\ ThreadAt("vos")
  /\ LoadPower("vosstore")
  /\ UNCHANGED <<chip, hclk, treeVars, on, sysclk, powerVars, mishap>>

SaiVosStore ==
  /\ ThreadAt("vosstore")
  /\ range' = 1 /\ lpr' = ("LPR" \in cr)
  /\ Goto("latency1")
  /\ UNCHANGED <<chip, hclk, treeVars, on, sysclk, latency, mishap>>

SaiLatency1 ==
  /\ ThreadAt("latency1")
  /\ latency' = Latency1(hclk)
  /\ Goto("pllon")
  /\ UNCHANGED <<chip, hclk, treeVars, on, sysclk, range, lpr, mishap>>

(* ... its PLL, if that does not run for 48 MHz already, ...                 *)
SaiPllOn ==
  /\ ThreadAt("pllon")
  /\ IF clock = "PLLSAI1" /\ clk48 # {} THEN Goto("set") ELSE Load("pllon", "pllonstore")
  /\ UNCHANGED <<chip, hclk, treeVars, on, sysclk, powerVars, mishap>>

SaiPllOnStore ==
  /\ ThreadAt("pllonstore")
  /\ WithOn(clock)
  /\ Note(Undone(clock), "lost")
  /\ Goto("set")
  /\ UNCHANGED <<chip, hclk, treeVars, sysclk, powerVars>>

SaiSet ==
  /\ ThreadAt("set")
  /\ saiclk' = clock
  /\ Goto("off1")
  /\ UNCHANGED <<chip, hclk, clk48, counts, mco, lsco, users16, on, sysclk, powerVars, mishap>>

(* Fault: PLLSAI1 is switched off although it makes 48 MHz.                 *)
SaiOff1Always ==
  /\ ThreadAt("off1")
  /\ IF saiclk = "PLLSAI1" THEN Goto("off2") ELSE Load("off1", "off1store")
  /\ UNCHANGED <<chip, hclk, treeVars, on, sysclk, powerVars, mishap>>

(* ... the PLLs that nobody needs any more, ...                            *)
SaiOff1 ==
  /\ ThreadAt("off1")
  /\ IF saiclk = "PLLSAI1" \/ clk48 # {} THEN Goto("off2") ELSE Load("off1", "off1store")
  /\ UNCHANGED <<chip, hclk, treeVars, on, sysclk, powerVars, mishap>>

SaiOff1Store ==
  /\ ThreadAt("off1store")
  /\ WithOff("PLLSAI1")
  /\ Note(Undone("PLLSAI1"), "lost")
  /\ Goto("off2")
  /\ UNCHANGED <<chip, hclk, treeVars, sysclk, powerVars>>

SaiOff2 ==
  /\ ThreadAt("off2")
  /\ IF saiclk = "PLLSAI2" THEN Goto("range2test") ELSE Load("off2", "off2store")
  /\ UNCHANGED <<chip, hclk, treeVars, on, sysclk, powerVars, mishap>>

SaiOff2Store ==
  /\ ThreadAt("off2store")
  /\ WithOff("PLLSAI2")
  /\ Note(Undone("PLLSAI2"), "lost")
  /\ Goto("range2test")
  /\ UNCHANGED <<chip, hclk, treeVars, sysclk, powerVars>>

(* ... and range 2, unless the 48 MHz clock is held.                        *)
SaiRange2Test ==
  /\ ThreadAt("range2test")
  /\ IF saiclk = "none" /\ ~Clk48HoldsRange THEN Goto("range2") ELSE Leave
  /\ UNCHANGED <<chip, hclk, treeVars, on, sysclk, powerVars, mishap>>

(* By select_range_2(): the wait states, then the range, then the low-power   *)
(* regulator where the clock allows it.                                     *)
SaiRange2 ==
  /\ ThreadAt("range2")
  /\ IF hclk <= 24 THEN latency' = Latency2(hclk) /\ Goto("vos2")
                   ELSE UNCHANGED latency /\ Leave
  /\ UNCHANGED <<chip, hclk, treeVars, on, sysclk, range, lpr, mishap>>

SaiVos2 ==
  /\ ThreadAt("vos2")
  /\ LoadPower("vos2store")
  /\ UNCHANGED <<chip, hclk, treeVars, on, sysclk, powerVars, mishap>>

SaiVos2Store ==
  /\ ThreadAt("vos2store")
  /\ range' = 2 /\ lpr' = ("LPR" \in cr)
  /\ IF hclk <= 2 THEN Goto("lprun") ELSE Leave
  /\ UNCHANGED <<chip, hclk, treeVars, on, sysclk, latency, mishap>>

SaiLprun ==
  /\ ThreadAt("lprun")
  /\ LoadPower("lprunstore")
  /\ UNCHANGED <<chip, hclk, treeVars, on, sysclk, powerVars, mishap>>

SaiLprunStore ==
  /\ ThreadAt("lprunstore")
  /\ range' = (IF "VOS2" \in cr THEN 2 ELSE 1) /\ lpr' = TRUE
  /\ Leave
  /\ UNCHANGED <<chip, hclk, treeVars, on, sysclk, latency, mishap>>

(* The others: PLLSAI1 off, and on again with new dividers.                  *)
SaiReset ==
  /\ ThreadAt("reset")
  /\ Load("reset", "resetstore")
  /\ UNCHANGED <<chip, hclk, treeVars, on, sysclk, powerVars, mishap>>

SaiResetStore ==
  /\ ThreadAt("resetstore")
  /\ WithOff("PLLSAI1")
  /\ Note(Undone("PLLSAI1"), "lost")
  /\ Goto(IF clock = "none" THEN "record" ELSE "start")
  /\ UNCHANGED <<chip, hclk, treeVars, sysclk, powerVars>>

SaiStart ==
  /\ ThreadAt("start")
  /\ Load("start", "startstore")
  /\ UNCHANGED <<chip, hclk, treeVars, on, sysclk, powerVars, mishap>>

SaiStartStore ==
  /\ ThreadAt("startstore")
  /\ WithOn("PLLSAI1")
  /\ Note(Undone("PLLSAI1"), "lost")
  /\ Goto("record")
  /\ UNCHANGED <<chip, hclk, treeVars, sysclk, powerVars>>

SaiRecord ==
  /\ ThreadAt("record")
  /\ saiclk' = clock
  /\ Leave
  /\ UNCHANGED <<chip, hclk, clk48, counts, mco, lsco, users16, on, sysclk, powerVars, mishap>>

-----------------------------------------------------------------------------
(* As stm32l4_system_initialize() leaves it.                                *)
Init ==
  /\ CondInit
  /\ chip \in Chips
  /\ hclk \in Hclk
  /\ saiclk = "none" /\ clk48 = {} /\ mco = "none" /\ lsco = "none" /\ users16 = {}
  /\ counts = [s \in {"LSI", "HSI16", "HSI48"} |-> IF s = "LSI" /\ ~Lse THEN 1 ELSE 0]
  /\ on = Oscillators(hclk) \cup If(~Lse, {"LSI"})
  /\ sysclk = IF hclk <= 24 THEN "MSI" ELSE "PLL"
  /\ range = RangeOf(hclk) /\ lpr = (hclk <= 2) /\ latency = LatencyOf(hclk)
  /\ pc = "idle" /\ clock = "none" /\ cr = {} /\ wanted = 0 /\ ws = 0
  /\ mishap = "none"

(* Calls that mask the interrupts, from any context.                        *)
Anywhere ==
  \/ \E u \in Users16 : Hsi16Enable(u) \/ Hsi16Disable(u)
  \/ \E r \in References : Clk48Acquire(r) \/ Clk48Release(r)
  \/ \E m \in McoModes : McoConfigure(m)
  \/ \E m \in {"none", "LSI"} : LscoConfigure(m)

Sai ==
  \/ \E c \in AudioSources \cup {"none"} : SaiConfigure(c)
  \/ SaiRange1 \/ SaiLprStore \/ SaiVos \/ SaiVosStore \/ SaiLatency1
  \/ SaiPllOn \/ SaiPllOnStore \/ SaiSet \/ SaiOff1 \/ SaiOff1Store
  \/ SaiOff2 \/ SaiOff2Store \/ SaiRange2Test
  \/ SaiRange2 \/ SaiVos2 \/ SaiVos2Store \/ SaiLprun \/ SaiLprunStore
  \/ SaiReset \/ SaiResetStore \/ SaiStart \/ SaiStartStore \/ SaiRecord

ClockNext ==
  \/ Anywhere
  \/ Sai
  \/ \E h \in Hclk : Configure(h)
  \/ ConfigureApply
  \/ Stop

(* The thread does not call for a peripheral's clock within another call.     *)
PeriphNext ==
  \/ \E l \in Level \ {0} : CondStep(l)
  \/ pc = "idle" /\ CondStep(0)

Next ==
  /\ mishap = "none"
  /\ \/ ClockNext /\ UNCHANGED condVars
     \/ PeriphNext /\ UNCHANGED clockVars

Spec == Init /\ [][Next]_vars

-----------------------------------------------------------------------------
(* Properties.                                                             *)

(* The part of TypeOK about the clock tree itself.                           *)
ClockTypeOK ==
  /\ chip \in Chips /\ hclk \in Hclk /\ saiclk \in AudioSources \cup {"none"}
  /\ clk48 \subseteq References /\ mco \in McoModes /\ lsco \in {"none", "LSI"}
  /\ users16 \subseteq Users16
  /\ counts \in [{"LSI", "HSI16", "HSI48"} -> 0..Cardinality(Users16) + 3]
  /\ on \subseteq InCR \cup {"HSI48", "LSI"} /\ sysclk \in {"MSI", "PLL"}
  /\ range \in 1..2 /\ lpr \in BOOLEAN /\ latency \in 0..4
  /\ pc \in {"idle", "configure", "range1", "pllon", "pllonstore", "set", "off1", "off1store",
             "off2", "off2store", "range2test", "reset", "resetstore", "start", "startstore",
             "record"} \cup Raising \cup Lowering
  /\ clock \in {"none", "PLLSAI1", "PLLSAI2"} /\ cr \subseteq InCR \cup {"VOS2", "LPR"}
  /\ wanted \in Hclk \cup {0} /\ ws \in 0..4 /\ mishap \in Mishaps \cup {"none"}

(* The counts are never taken below zero and come back to zero, although two *)
(* of them are also moved by a mode that changes from one to the other.       *)
TypeOK == CondTypeOK /\ ClockTypeOK

(* Whoever holds a source has it running, in every state: after the system     *)
(* clock was changed, after a stop mode, while the audio clock is set up.  A  *)
(* source that nobody holds is off.                                        *)
SourcesMatch ==
  mishap = "none" =>
    /\ {sysclk} \cup Oscillators(hclk) \subseteq on
    /\ clk48 # {} => Clk48Source \in on
    /\ "HSI16" \in on <=> users16 # {} \/ mco = "HSI16"
    /\ "HSI48" \in on <=> (chip # "L476" /\ clk48 # {}) \/ mco = "HSI48"
    /\ "LSI" \in on <=> ~Lse \/ mco = "LSI" \/ lsco = "LSI"
    /\ pc \in {"idle", "configure"} =>
         /\ "PLLSAI1" \in on <=> saiclk = "PLLSAI1" \/ (chip = "L476" /\ clk48 # {})
         /\ "PLLSAI2" \in on <=> saiclk = "PLLSAI2"

(* The FLASH never has fewer wait states than the voltage range and the        *)
(* clock ask for, and range 2 is chosen exactly when neither the clock, nor   *)
(* USB, RNG or audio need range 1, whoever was the last to come or go.        *)
SupplyFits ==
  mishap = "none" =>
    /\ latency >= (IF range = 2 THEN Latency2(hclk) ELSE Latency1(hclk))
    /\ range = 2 => hclk <= 24 /\ ~Clk48HoldsRange
    /\ lpr => range = 2 /\ hclk <= 2
    /\ pc \in {"idle", "configure"} => range = RangeOf(hclk)
=============================================================================
