# Verification of the STM32L4 Arduino core

TLA+ models of the concurrent and crash-exposed parts of this repository, TLC
runs that check them on small instances, and TLAPS proofs for the deferred-call
queue, the millisecond timers, the transmit side of a serial port, both sides of USB
serial, the lock of the storage medium and the clock tree. `PROJECT.json` maps every definition to the lines it translates.

    tlc -workers 2 -config MCPendSV.cfg MCPendSV     # one run of the table below
    tlapm PendSVProofs.tla                           # likewise the other *Proofs modules

## 1. The system

A bare-metal core: there is no operating system. One thread runs the sketch;
interrupt handlers preempt it and each other by priority; PendSV, an exception of
the lowest priority, runs what the handlers defer. The thread reaches that level
through SVCall, which cannot be preempted by PendSV.

| component | state | operations | hard behaviour | what makes it correct |
|---|---|---|---|---|
| deferred-call queue (`armv7m_pendsv.c`) | ring of 32 slots, read and write pointer, the pending bit | enqueue, dequeue | lock-free enqueues nest at any access; claimed before filled; full ring; wake-up window | a FIFO; no torn entry; no lost call |
| timers (`armv7m_timer.c`, `armv7m_systick.c`) | delta list, tick counts, bit 0 of the callback | start, stop, tick, expiry | direct and queued requests mix; ticks dropped when the queue is full; stop races expiry | expiry on time and in order; a stopped timer is silent |
| serial port, transmit (`Uart.cpp`, `stm32l4_uart.c`) | ring of 64, packet in transmission, handed buffer, driver state | write, write with callback, flush, end | writer and interrupt share counts; idle check races the last interrupt | bytes once and in order; no stall; callback after data |
| serial port, receive | 16 byte DMA FIFO, ring | interrupt, receive | late interrupt | no byte lost or repeated while the interrupt is on time |
| flash translation layer (`dosfs_sflash.c`) | NOR flash, tables, two cached blocks, scores | read, write, discard, reclaim, mount | power loss between any two programs; shared caches; bits only clear | read finds the last write, always |
| file system (`dosfs_core.c`) | FAT structures | files and directories | on-disk consistency | not modelled |
| block device, mass storage (`dosfs_device.c`, `dosfs_storage.c`, `usbd_msc_*.c`) | lock bits, state of the bulk-only transport | `f_initvolume`, `f_delvolume`, calls; commands, packets, errors, resets of the host | USB host in an interrupt against the sketch in the thread, over plain loads and stores | mutual exclusion; the host is told of changes |
| USB serial, transmit (`CDC.cpp`, `stm32l4_usbd_cdc.c`) | ring, packet in transmission, handed buffer, start-of-frame count, device state | write, write with callback, flush, begin, end; end of transmission, start-of-frame | two starters besides the writer; the host leaves at any time | as for the serial port, while the host stays |
| USB serial, receive | ring with a moving end, endpoint target | packets, receive | whole packets only; reader and interrupt both arm the endpoint | every byte once and in its turn; reception goes on |
| clocks and low power (`stm32l4_system.c`) | reference counts and sets, range, wait states, what runs | enable, disable, acquire, release, configure, stop | two calls leave interrupts enabled; count and switch are two steps | what is held runs; the FLASH is never too slow |
| DMA (`stm32l4_dma.c`) | sets of channels in use | enable, disable | nested users of one clock | a channel's controller is clocked |
| I2C, SPI, SAI drivers | driver state, transfer pointers | master/slave transfers | interrupts, NACK, timeout | every transfer ends once |
| RTC, PWM, servo, ADC, DAC, GPIO, EXTI, watchdog, internal flash, QSPI, SD | registers | configure, read, write | little of their own | not modelled |
| core classes, boot, C library hooks; vendored USB stack, CMSIS, DAP, variants | | | | not modelled |

Interactions: SysTick, timers, serial ports, USB and I2S defer callbacks through
the PendSV queue and ignore a refusal; the file system calls the flash
translation layer under the lock of the block device; all drivers take clocks
and DMA channels from `stm32l4_system.c` and `stm32l4_dma.c`.
`PROJECT.json` lists the hazards, each at its line.

## 2. Modules

| module | models | abstract data |
|---|---|---|
| `PendSVQueue` | what the queue promises: a bounded FIFO and the one call that runs | calls are members of `Entry` |
| `PendSV` | `armv7m_pendsv.c`, one action per access to the control block | a ticket is a (routine, context, data) |
| `PendSVProofs` | theorems about `PendSV` | |
| `Timer` | `armv7m_timer.c` and `SysTick_Handler`, over `PendSVQueue` | the list is a sequence |
| `TimerProofs` | theorems about `Timer` | |
| `UartTx` | transmit side of `Uart` over its driver | a byte is its number |
| `UartTxProofs` | theorems about `UartTx` | |
| `Sflash` | `dosfs_sflash.c` | what a block holds is last written, being written, or stale |
| `SflashOperators` | lemmas about the operators of `Sflash` | |
| `SflashProofs` | theorems about `Sflash` | |
| `CdcTx` | transmit side of `CDC` over its driver | a byte of the ring is its number; of a handed buffer, the length |
| `CdcTxProofs` | theorems about `CdcTx` | |
| `CdcRx` | receive side of the driver under `CDC` | a byte is its number |
| `PeriphClock` | the enable and disable of a clock with several users | one peripheral |
| `SystemClock` | the clock tree of `stm32l4_system.c`; extends `PeriphClock` | what runs is a set; frequencies are those of HCLK |
| `SystemClockProofs` | theorems about `PeriphClock` and `SystemClock` | |
| `MassStorage` | `dosfs_storage.c` and the USB mass storage class against `dosfs_core.c` | a transfer is a number of blocks |
| `UsbProofs` | theorems about `CdcRx` and `MassStorage` | |

`MC*` modules hold only values of constants.

**PendSV.** `pc[i]` and `ppc` say where each handler and PendSV are; `Runs(c)` and
`CanEnter(c)` are the exception model of the core (strictly lower number
preempts, equal does not). `LoadWrite`, `CheckFull`, `CompareExchange`, `Fill`,
`Pend` are the accesses of `armv7m_pendsv_enqueue`; `Test`, `Fetch`, `Advance`,
`CallRoutine` those of `armv7m_pendsv_dequeue`. The three stores of `Fill` are one
action: a handler that preempts between them never reads or writes that slot,
which is what `NoTornEntry` and `ClaimsDisjoint` say of the action's whole extent.
Calls come from handlers, as all callers in the repository are.

**Timer.** `phase` follows `armv7m_timer_callback`. Handlers act between any two
steps of PendSV; `ThreadCall` is the SVCall path. The queue is `PendSVQueue`, not
`PendSV`: the refinement checked and proved for `PendSV` is what allows it. A
restart from a handler and the `wanted` history follow the order in which
requests are *carried out* while requests are pending.

**UartTx.** `pc` follows the writer between its accesses to members shared with
the interrupt. A byte leaves by `SendByte`, whichever of the TXE interrupt and the
DMA moves it, and `TransferComplete` is the TC interrupt with the whole of
`EventCallback`. The handler is one action because nothing preempts it that
touches the port. `accepted` counts bytes when they are copied or handed over.

**Sflash.** One operation runs at a time. It is an operator that returns the
flash, the RAM and the list of its programs and erases, each with the flash
before it and the name of its *step*; an action performs it all, or loses power
before a step in `CrashBefore`. `Mount` then rebuilds the RAM from the info words,
and may lose power too. `Settled` renames contents so that the state space is
finite: a block holds what was last written to its address, what is being
written, or something stale. Left out: erase counts (any sector may be
the victim), the NOR command protocol, identification, statistics.

**CdcTx.** As in `UartTx`, `pc` follows the writer between its accesses to members
shared with the interrupt. `Launch` is `transmit()` with what the writer does when
it is refused: `transmit()` blocks the interrupt, so it is one action. All USB
events come from one interrupt and are one action each, with the whole of
`EventCallback`. `SendByte` is the host. A suspension or disconnection gives up the
ring; `wire` and `sent` then count its bytes as given up.

**CdcRx.** `RxReady` is the interrupt with its re-arming; the reader is split at every
access to `rx_wrap`, `rx_count`, `rx_busy` and the endpoint, of which `armed` is the
target. `end()` leaves the endpoint armed, and every enumeration arms it with
the buffer the class of the USB stack has left (`RxBuffer`, `Null` at first), as the code
does. `begin()` is two steps in both modules of USB serial: the look at the device, and the
store of the state (`Begin`, `Begun`).

**PeriphClock, SystemClock.** A level of preemption executes `CondEnable` and
`CondDisable` in the code's steps: mask and clock are two words. In `SystemClock` a
call that masks the interrupts is one action that any context may take at any time;
`saiclk_configure()`, which does not, is split at its loads and stores of `RCC->CR`
and of `PWR->CR1` (those of `select_range_1` and `select_range_2`, which it calls unmasked,
included), at the store of the wait states and at its looks at the shared fields; `sysclk_configure()` is split where it begins
to mask. `chip` is the part the code is compiled for: on the L476 two more PLLs carry
audio and one of them the 48 MHz. A call that the clock and sleep locks refuse
changes nothing, and is no step.

**MassStorage.** One action per event of the USB interrupt, which carries a SCSI
command or a packet through `usbd_msc_bot.c`, `usbd_msc_scsi.c` and the callback; the
thread's accesses to the lock are steps between them, including the load and the
store of `lock |= MODIFIED`. `clash`, `blind` and `leaked` are histories.

## 3. Runs

| run | config | properties | shows |
|---|---|---|---|
| pendsv | `MCPendSV.cfg` | `TypeOK` `NoTornEntry` `RejectedOnlyWhenFull` `NoLostWakeup` `ImplementsFIFO` `AcceptedRuns` | the ring implements the FIFO under nesting; every accepted call runs |
| timer | `MCTimer.cfg` | `TypeOK` `OnTime` `LinkedIffWanted` `CaughtUp` `StopSilences` | see the conditions below |
| uart_tx | `MCUartTx.cfg` | `TypeOK` `InOrder` `NoStall` `OneCallbackEach` `CallbackAfterData` `FlushEnds` | see the condition below |
| sflash | `MCSflash.cfg` | `TypeOK` `ReadsBack` `Accounting` `ProgramsStick` | ordinary operation and orderly restart, two sectors |
| sflash_reclaim | `MCSflashReclaim.cfg` | `ReadsBack` `RoomIsReal` `Mountable` | power lost in a reclaim, and in the recovery from it |
| sflash_power_loss | `MCSflashPowerLoss.cfg` | `ReadsBack` `MapsAgree` | power lost in a write, discard, reclaim or mount, one sector |
| cdc_tx | `MCCdcTx.cfg` | `TypeOK` `InOrder` `SizeInFlight` `CallbackAfterData` `Drained` | see the condition below |
| cdc_rx | `MCCdcRx.cfg` | `TypeOK` `InOrder` `KeepsReceiving` | see the condition below |
| system_clock | `MCSystemClock.cfg` | `TypeOK` `SourcesMatch` `SupplyFits` `UsersClocked` | see the condition below |
| mass_storage | `MCMassStorage.cfg` | `Exclusive` `Told` | see the condition below |
| sflash_header | `MCSflashHeader.cfg` | `ReadsBack` (violated) | finding 1 |
| sflash_commit | `MCSflashCommit.cfg` | `ReadsBack` (violated) | finding 2 |

These properties hold only under a condition, because the code does not do more:

* `OnTime` until `disturbed`: `armv7m_timer_remove`, and a restart, do not give the
  ticks of the removed timer to the next one, which then expires early, or, if
  the two expire together, at the head of the list with 0 ticks, where the next
  tick wraps `remaining`. `armv7m_timer_start` takes a timeout of 0, too: but from a
  callback, whose loop looks at the head again, the timer is then left at the head
  with 0 ticks, to the same end. The flag is set exactly in these cases (`Disturbs`,
  `Wraps`).
* the properties of `UartTx` except `TypeOK` until `overtaken`: `write(..., callback)`
  reads its members again to start the UART, and the interrupt may have sent and
  cleared everything in between; what a transmission of 0 bytes from NULL does
  depends on the mode. The flag is set exactly then. `InOrder`, `CallbackAfterData` and
  `FlushEnds` also until `cut`: `stm32l4_uart_transmit` takes a `uint16_t`, the handed buffer
  has a size of 32 bits, so that of 65536 bytes or more only the rest is sent (`Count16`),
  and its callback comes then. `FlushEnds` and `Drained` speak of an open port: `flush()`
  and `end()` of one that was never opened wait for ever, in the models as in the code.
* those of `CdcTx`, `CdcRx` and `SystemClock` until a `mishap`. Each module lists its
  mishaps in a comment, names the step that sets each, and ends there. They are real
  interleavings of the code, reachable in the model: for instance the start-of-frame
  event starts the ring while the writer is about to (`collided`), a handed buffer
  is left with no event to come (`orphaned`), the reader lowers `rx_count` after it has
  moved `rx_wrap` back (`underflowed`), a handler's change of `RCC->CR` falls between a
  load and a store (`lost`), `begin()` stores a state that the host has left since it
  looked (`outdated`), an enumeration arms the endpoint of a closed port with a buffer
  that is not its next (`stale`, `nowhere`). `USBD_CDC_SetTxBuffer` takes a `uint16_t` as the UART
  does; `CallbackAfterData` of `CdcTx` excepts a buffer of 65536 bytes or more. No comment or document of the repository promises
  otherwise, so they are hazards in `PROJECT.json` and not findings.
* those of `MassStorage` until `unlocked`: after `f_delvolume()` the next call mounts the
  volume again without taking the lock.

### Bounds

* pendsv: four handlers on three levels, two of them equal and one equal to
  PendSV, so that all relations of priority occur; three slots, so that the ring
  fills with two and wraps; four calls, so that it fills, refuses and goes round.
  Larger values are the business of the proof.
* timer: two timers (one before, behind or instead of the other), timeouts 0, 1 and 2
  (at once, equal and different expiry), four ticks and four requests, a queue of two so
  that ticks are refused. `Word` 4 makes the wrap of a `uint32_t` happen. The
  timers are symmetric: no definition tells them apart. The proofs are for any
  number of each.
* uart_tx: a ring of two packets, writes of up to five bytes (longer than the
  ring, so the writer waits), eight bytes so that indices wrap, two handed buffers. `HalfWord`, the 65536 of the code, is 4, so that
  handed buffers below, at and above it occur.
* sflash: two sectors and a unit to reclaim to, with three blocks each, or one
  sector with six; one write allocates up to three blocks in the code's worst
  case, the threshold `Spare` scales the 16 of the code. Two addresses that share
  a translation block, or one of them direct. The live blocks always leave room,
  so reclaiming ends. The address below `XlateOffset` is not discarded:
  `dosfs_sflash_ftl_write` would take the DELETED entry of its table for a block
  (see the hazards); a volume's data area starts later.

* cdc_tx: a ring of two packets, bytes too few for a packet (so that the
  start-of-frame has work), writes longer than the rest of the ring, one handed
  buffer, two suspensions or disconnections, so that the host comes back and goes
  again; two frames stand for eight, and `HalfWord` is 3, the longest write. The proofs are for
  any sizes and any number of cuts.
* cdc_rx: a ring of two packets and one slot, so that a turn ends early, exactly, and
  at the end; packets of 0 to 2 bytes; nine bytes so that the ring goes round
  twice; one disconnection. The proofs are for any.
* system_clock: both kinds of part, a frequency for each voltage range and one low
  enough for the low-power regulator, a reference that needs range 1 and one that
  does not, two users of a peripheral on two levels. Without LSE the LSI is always
  held and its last user never comes, so `Lse` is true; the proofs are for either and
  for any numbers.
* mass_storage: transfers of 0 to 3 blocks: none, only, first, middle and last. The
  proofs are for any length.

`CHECK_DEADLOCK FALSE` appears where the bounded number of calls, ticks or bytes
lets a system stop; the flash never stops and its runs check
for deadlock, but for `sflash_header`, where a flash that cannot be mounted ends the run.

### Which losses of power are survived

| step about to be programmed | run |
|---|---|
| `victim` `copy` `reclaim` `erase` `sector` (a reclaim) | sflash_reclaim, sflash_power_loss: survived |
| `xlate` `xlate2` `merge` `promote` `reserve` `data` `written` `discard` `abandon` | sflash_power_loss: survived |
| `header` | finding 1 |
| `commit` | finding 2; a first write that finds a secondary translation block also loses its block, because the mount takes its own entry for an old one |
| `map` | survived but for the cache of finding 2 |
| `retire` | not survived: the old and the merged translation block agree until an entry is deleted in one of them |
| `unmap` `delete` | not survived: of a rewrite two committed blocks of the address remain; of a discard the mount trims the wrong block |

The steps below the second row are left out of `Survived`; `sflash_header` and
`sflash_commit` check one each, on an instance that shows that cause alone.

## 4. Findings

1. `sflash_header`. Power lost between the erase of a victim and the write of its
   header leaves an unwritten unit, a RECLAIM unit and no VICTIM. The mount keeps
   the unwritten unit in `erase_offset`, which is used only when there is a victim,
   so there is no unit to reclaim to, and the next reclaim copies live blocks
   beyond the chip and erases their only copy.
2. `sflash_commit`. The mount finishes a write whose power was lost before the
   commit, which loads the translation block into `cache[0]`; its last loop reads
   unit headers into the same memory and leaves the tag. With `Clobbered` 0, as if
   the loop used other memory, the same instance has no violation.

## 5. Fairness

Four specifications are fair. `PendSV!FairSpec`: a handler that executes goes
on, and a pending PendSV is taken when nothing more urgent is active; that is
what the processor does. Interrupts need not happen. `UartTx!FairSpec`: the writer
goes on (the thread is not starved for ever), bytes go out and the interrupt is
taken. `CdcTx!FairSpec`: the
writer goes on, and a host that is connected and awake takes the data and sends
start-of-frames, as USB prescribes; it need not resume, connect or open.
`CdcRx!FairSpec`: the reader goes on, and a sketch reads what is available; the host
need not send. `AcceptedRuns`, `FlushEnds`, `Drained` and `KeepsReceiving` rest on
these; nothing assumes that anybody writes. Weak fairness is enough: no action is disabled again and again by another
for ever once calls are bounded.

## 6. Proofs

`PendSVProofs` proves, for every set of handlers, every assignment of priorities,
every ring of at least two slots and every number of calls:

* `TypeCorrect`, `Untorn`, `Disjoint`, `Wakeup`, `RejectionIsFull`: the invariants;
* `Refinement`: `Spec` implements `PendSVQueue!Spec`.

The assumptions are those of `PendSV.tla` on its constants: PendSV is not the name
of a handler, priorities are at most the lowest, a ring has two slots, `None` is
no ticket. TLC evaluates them.

None of the invariants is inductive alone. `IInv` adds: what PendSV has read of the
pointers still holds (only it moves `pendsv_read`); a handler about to
compare-and-exchange saw room *at the pointer it loaded*, which implies room now
if the exchange succeeds, since PendSV cannot run meanwhile (`RoomSeen`); claims
lie in the window between the pointers, and are disjoint; every slot of
the window is filled or belongs to a handler that is filling it (`WindowFilled`).
`NoTornEntry` follows because PendSV executes only when no handler is active. The
step is proved per action; arithmetic on the ring (`Succ`, windows) is in lemmas.
For the refinement, `Waiting` maps the window to a sequence, with the ticket a
handler holds in place of a slot it has not filled; `CompareExchange` maps to
`Accept`, `Advance` to `Start`, `CallRoutine` to `Finish` and the rest stutters.

`TimerProofs` proves, for any timers, timeouts, ticks and requests, any word and any
capacity of the queue, `ExpiresOnTime`, `LastRequestCounts`, `CatchesUp`,
`StopsAreSilent` and `TypeCorrect`. The properties speak of the list when the queue
has drained; `IInv` says what the queue must hold for that:

* the ticks that wait are in order, after those counted (`TicksAhead`), and the last of
  them is the last that came unless it was dropped (`LastTick`), so `CatchesUp`;
* a start that waits behind ticks was asked for when those had come and no later one
  (`StartsInOrder`): when it runs, `timer_millis` is the tick at which it was asked
  for, or earlier if a tick was dropped. That is why a late PendSV makes no timer late;
* the last request for a timer, in the queue, running, or carried out, says what is
  wanted of it (`Wants`), so `LastRequestCounts`;
* a silent timer is not linked, or its bit is cleared or about to be, and no start
  waits for it (`Silenced`), so `StopsAreSilent`;
* each linked timer has its ticks to its `due`, and the head has ticks left whenever
  one is about to be counted, so that no count wraps (`Timed`).

What the list does is in lemmas about `TicksTo`, the sum of the ticks up to an
element: it takes one element at a time (`TicksStep`); taking a timer out leaves the
ticks of those before it and takes its own from those behind (`TicksWithout`); putting one
in leaves all others (`TicksInsert`), because its successor has more left than it takes
(`PassedFits`); counting takes one from all (`TicksCounted`). `Linking` and
`Unlinking` combine them: after a start or a stop that does not disturb, each element is
the timer that was started, with its timeout, or one that was there with the ticks
it had (`Kept`). The prover has no induction over an operator, so `Induction` states it
of a set of numbers, from the theorem that every set of naturals has a least. `QueueUsed`: `Timer` implements `PendSVQueue!Spec`, which `Refinement` says `PendSV` implements.
Assumed: a timeout fits the word, the bounds are natural numbers and those of the
timeout and of the queue not zero, and `None` is no deferred call.

`UartTxProofs` proves, for every size of ring, packet and write and any number of
bytes and callbacks, `BytesInOrder`, `NeverStalls`, `OneCallback`,
`CallbacksAfterData` and `TypeCorrect`. `IInv` says that the ring holds the last
bytes accepted, in order (`RingInOrder`; those copied and not yet counted included,
`Live`), that what was sent is what lies before them (`SentSoFar`), that `_tx_size`
is set exactly for a transmission of the ring (`InTransmission`), and that once the
writer has found the UART idle it stays so until the writer starts it
(`IdleForWriter`): that is why the unprotected test of the state does no harm. The
part named `Bounds` holds even after `overtaken`, so `TypeCorrect` needs no
condition. That a copy overwrites nothing rests on three lemmas about indices that
wrap (`WrapMoved`, `WrapSum`, `WrapDiffers`). Assumed: ring, packet and write hold a byte at least, what 16 bits count is more than a
packet, the other bounds are natural numbers.

`SflashProofs` proves, for every geometry, every choice of victims and of the blocks that
are allocated and any number of operations, `ReadsWhatWasWritten`,
`ScoresAndRoomCounted`, `FreeBlocksAreFound`, `NoBitIsSet`, `OperationsSetNoBit`,
`HeadersAndMapsAgree`, `NeverFormatted` and `TypeCorrect`. None of the properties is inductive: that a read finds what was written
depends on every table and every info word. `IInv` says that the flash and the RAM are
`Good` and hold what was written (`Keeps`) and, while the power is off, that there is a
RAM with which the flash would be. `Good` is the conjunction of

* `Sectors`, `Headers`, `Blanks`: the sector table is one to one and agrees with the headers,
  one unit is left for the next reclaim, and a block not written is blank;
* `Used`: a block in use is what its info word says, and is named by the one table entry
  that the word points back to; `TableEntry`, `AddressEntry`: what a table or a
  translation block names is in use for that segment or address. Together: of two
  blocks for one address at most one is in use;
* `Cached`, `Cached2`: a cache tagged with a block holds that block's translations;
* `Counted`, `Scored`: free blocks and scores are exact, and every free block can be found.

Each operation is a function from devices to devices, so the proof has a lemma for each
operator of the model: what it writes and what it leaves (`Spared`, `SameAt`), from
`PutOne`, one program or erase, up to `Prepares` and `Places` (write), `Discards`, `Reclaims`
and `Mounts`. `Where` is the block an address is found in if no cache is used; `Finds` shows
that the lookup, which uses them, finds the same. Within a write `Good` does not hold: `Held`
is a device with one block allocated and not yet written, `Almost` one with a block written
and in no table, `Moved` and `Retranslates` say that taking an address from one block to
another leaves every other address where it was; `Doomed` is a block that is being
discarded. A reclaim is described by `Reclaimed`, a relation between the two devices, from
which all parts of `Good` follow. The mount sees only the flash: `Partly` says what the scan has
found after a set of blocks, `CollectsBlocks` and `CollectsSectors` carry it to all of them, and
since `Good` determines the tables, the result names the blocks that those lost did.
The scan is a recursive function: `CountingUp` and `Recursion` state induction for a set of
numbers and for the values of such a function, which is all that is needed.

Two hypotheses of these theorems are properties of the run, not of the code:

* `PowerLostWithin`: within an operation power is lost only before the steps `Recoverable`: `xlate`,
  `xlate2`, `merge`, `promote`, `reserve`, `data`, `written`, `discard`, `abandon`, and of a reclaim
  `victim`, `copy`, `reclaim` and `sector`. Between operations (also between the reclaims of one write) it
  may always be lost. `Survives` says that a mount
  recovers a flash n: there is a device that is `Good` and holds what was written, and n is its flash, or
  differs from it by what one loss leaves half done (`Damaged`). Often it is the flash, though of another device
  than the one the operation began with: before `xlate2` or `reserve` a translation block may be new or a
  merge half done, and `MergeUnpaired` shows the device it is. Else it is one of four:
  - `HalfDone`: a block was reserved and perhaps filled; the mount finds it RESERVED, deletes it
    (`MountsHalfDone`), and may lose power before that once more;
  - `HalfPromoted`: the old translation block of a segment is gone and the merged one is still marked
    secondary; the mount promotes it (`MountsPromoted`), which needs that no other segment is in that state
    (`HalfPromotedAlone`);
  - `HalfReclaimed`: a unit is marked VICTIM and the unit to reclaim to holds anything under a RESERVED
    header; the scan sees the same words as before the mark, and the mount erases that unit and does
    the whole reclaim (`MountsReclaimed`), in which power may be lost as in any other;
  - `Adopts`: the victim is erased and waits under a RESERVED header, and its copy is still marked RECLAIM;
    the scan passes it over, and the mount marks it as a sector and collects it then (`MountsAdopted`).

  `Ok` says of a device that the flash before each step in `CrashBefore`
  `Survives`; each operator has a lemma that it keeps `Ok`, and `MountsSurvived` that the mount gives a good
  device that holds what was written. The code does not survive all losses (findings 1 and 2, and the table of
  section 3). Of those it does, only `erase` is left to the runs `sflash_reclaim` and `sflash_power_loss`: the mount
  then finishes the reclaim without the score and the count of free blocks, and both stay off until the next
  mount. What was written is still found, but `Accounting`, which `Good` includes, does not hold
  (`sflash_power_loss` leaves it out), so that the invariant would have to be another one.
* `NoDirectDiscard`: addresses that the block table translates (below 128) are written but not
  discarded. A write after such a discard takes the DELETED of the table for a block
  (`dosfs_sflash.c:2214`), a hazard listed in `PROJECT.json`. The runs make the same exception.

`NoBitIsSet` has a third, `SurelySticking`: no power is lost before `promote`, `copy` or `reclaim`.
The mount repairs what such a loss leaves by programs that do set bits in `dosfs_sflash.c`: it
promotes a table with DATA_MASK over its segment (1900), and a reclaim that it repeats writes an
erase count over the one that was written (944). The bits of a type stick in both, so nothing
else depends on it. `OperationsSetNoBit` needs no such hypothesis: whatever was lost
before, no step but a mount sets a bit.

Assumed of the geometry: two units and two blocks at least, at least one entry, a spare of at least
one block (the code's is 16), and that mounting overwrites no more of a translation block than it has.

`CdcTxProofs` proves, for every size of ring, packet and small packet, any number of
bytes, callbacks, suspensions and disconnections, `BytesInOrder`, `SizeTellsWhich`,
`CallbacksAfterData` and `TypeCorrect`. The argument is that of `UartTxProofs` with two
more actors. The start of frame may send the ring, too: between the writer's
look at an idle device and its transmission that is the mishap `collided`, and with
fewer bytes than a small packet, where the writer only looks, it does no harm
(`IdleForWriter`). A suspension or disconnection gives the ring up between
any two of the writer's steps; it is a mishap between copying a piece and
counting it (`straddled`), and while a buffer is handed over (`orphaned`). `Closed` says that a closed
port has nothing to send and hears nothing. Assumed: ring, packet, small packet, write
and frames are at least one, a small packet is no larger than the ring, a packet is one that 16
bits count.

`UsbProofs` proves of `CdcRx`, for every size of ring and packet, any number of bytes and
disconnections and reads of any length, `BytesInOrder` and `TypeCorrect`. `IInv`: the
bytes received and not read lie in one piece, or in two with the end of this turn,
`rx_wrap`, between them (`RingFits`); each is in its slot, and every other slot holds one
that was read (`BytesInPlace`); where the endpoint is armed, or about to be, a packet
fits before the end of the turn (`RoomWhereArmed`). The reader works on copies of
`rx_count` and `rx_wrap` while the interrupt changes both: `ReaderFits` says what is
still true of them at each of its steps, above all that the end of turn it copied is
still the one before its bytes. Assumed: a packet has a byte and fits the ring, a read
takes a byte at least.

`SystemClockProofs` first proves, for any users and any set of levels of preemption,
`PeripheralClocked` of `PeriphClock`. `UsersClocked` alone is not inductive: a disable that left the
clock on may find it off at its exchange. `CondInv` adds `ClockedAbove`: if it does,
either a call of a higher level is under way, which will be over before the
exchange executes, or nobody is left that needs the clock. Both are needed at
`CondExchange`, where the disable stops excusing the clock. Assumed: levels are
natural numbers.

It then proves, for any drivers, holders, frequencies and levels,
`HeldSourcesRun`, `SupplyIsEnough` and `TypeCorrect`, and (`SharedClocks`) that
`SystemClock` implements `PeriphClock`, so that `PeripheralClocked` holds there too.
`ClockInv`: a count is the number of its holders, for `HSI16` the cardinality of a set
(`CountsRight`), and a counted source runs when its count is not zero (`CountedRun`). A
PLL has no count: `PllsRun` and `RangeRight` say for each step of
`saiclk_configure` what is settled by then, and what the steps since a test rely on. An
unmasked change of the range is up to five steps. Going down, the wait states of range 2
come first, and who takes the 48 MHz clock for USB or RNG meanwhile is the mishap `stale`; going
up, they are lowered last, and who gives it up meanwhile is the mishap `early`.
`WaitStates` carries the latency that `sysclk_configure` has chosen to the step
that sets it: a handler that takes the 48 MHz clock between them moves the system from
range 2 to range 1, which never needs more (`Latencies`); one that gives it up is the
mishap `stale`. Assumed: frequencies of 1 to 80 MHz, finitely many drivers, level 0
(the thread) among the levels.

`UsbProofs` proves of `MassStorage`, for transfers of any length, `HostAndSketchExclude` and
`HostIsTold`. `StorageInv` adds to the two properties: while the file system uses the volume
VOLUME is set and SCSI and MEDIUM are not (`VolumeAlone`, `HeldByCall`); a transfer
holds SCSI (`HeldByTransfer`); the transport's state fits what its endpoints do
(`InStep`); and an unseen change is in the lock, or in the copy that is about to be
stored (`Remembered`). The last is why the load and store of MODIFIED do no harm: while
VOLUME is set the host can only take MODIFIED away, and ACCESSED by leaving, and a
store that brings these back makes the host told once too often. Assumed: the bound on
the blocks is a natural number.

In `CdcTx` and `CdcRx` the types hold in every state, the other properties until a mishap
ends the run, which is where they are stated.

Only model-checked: liveness (`AcceptedRuns`, `FlushEnds`, `Drained`,
`KeepsReceiving`), which is out of the prover's reach under fairness; and, of `Sflash`, losses of power
before an `erase` (see `PowerLostWithin`).
No module uses a RECURSIVE operator.

## 7. Plan

1. *Done*: `PendSVQueue`, `PendSV`, `Timer`, `UartTx`, `Sflash`, `CdcTx`, `CdcRx`, `PeriphClock`,
   `SystemClock`, `MassStorage`; the proofs of section 6.
2. `SflashProofs` with losses of power before "erase": an invariant without the score and the count of
   free blocks.
3. `UartRx`: the DMA FIFO and the ring; how late an interrupt may be.
4. `I2cMaster`: the interrupt-driven transfer with NACK and timeout.
5. An abstract block device that `Sflash` implements (today `ReadsBack` relates the
   flash to the history variable `present`, which is that device's state).

## 8. Not modelled

The file system (on-disk structures, sequential code), SD cards, QSPI and the
register-level drivers (timing and register sequences, little state), vendored
code. Of the modelled parts: error events, breaks, a second writer and the receive
side of the serial port, the microsecond clock, wear levelling; line coding, the
1200 baud reset and the receive callback of USB serial; the locks that refuse a
change of clock, sleep, standby and shutdown; the contents of SCSI replies; the
order in which the USB interrupt handles OUT before IN endpoints when it is late.
`stm32l4_uart_notify` clears all of CR2 but LBDIE where a ~ is missing; register
contents are not modelled. Each component
carries its reason in `PROJECT.json`.
