# qo3 in TLA+

qo3 is a small x86-64 kernel: a shell on the boot processor, an interrupt
driven serial port, timer and network card, a page allocator under
construction, and a second mode of operation in which the other processors run
benchmarks.  It has no scheduler.  A thread that needs something starts an
asynchronous operation, hands it the address of an *event word* and a bit, and
blocks in `wait_event` (monitor/mwait) until an interrupt handler has set the
bit.  Everything that is hard to test in qo3 is in that pattern: a handler that
runs between two instructions of the thread, a device that works on memory the
thread is filling in, a pointer that outlives the stack frame it points into.

This directory models those parts, checks them with TLC on small instances, and
proves the central ones with TLAPS for all instances.

- [Inventory](#inventory): the system's components
- [Modules](#modules): how each module corresponds to the code
- [Runs](#runs): what is checked, with which bounds
- [Fairness](#fairness)
- [Proofs](#proofs)
- [Disagreements found](#disagreements-found)
- [Not modelled](#not-modelled)
- [Plan](#plan)

## Inventory

Paths are under `src/kernel/` unless they say otherwise.

| component | state | operations | interacts with |
|---|---|---|---|
| event words (`event.c`) | the word, the monitor hardware | `wait_event_any`, `wait_event_all` | every handler sets bits; every command of the shell waits |
| r8169 driver (`net/r8169.c`) | two descriptor rings, event pointers, positions, two spin locks | `r8169_tx_packet`, `r8169_rx_packet`, `r8169_irq`, `r8169_init` | the controller (shared memory), the shell, `irq.c` |
| spin locks (`atomic.h`) | lock word, interrupt flag | with or without cli | the driver and its handler |
| HPET (`hpet.c`, `wait.c`) | counter, comparator, one event pointer | `hpet_oneshot`, `chpet0_intr`, `wait_msec`, `wait_usec` | the shell, `boot_ap` |
| serial port (`ns16550.c`) | one read request, the port's FIFO and interrupt enable | `ns16550_read`, `cns16550_intr`, polled input and output | the shell |
| application processors (`smp.c`) | mailboxes, processor table | `ap_thread`, `run_command`, `post_command_to_ap` | `main.c` (`boot_ap`, `do_hello_ap`), `bench.c` |
| benchmarks (`bench.c`) | one handshake byte per processor | `smp_bench`, `run_bench_ap`, `watch_mem1` | mailboxes |
| bit tree (`src/npr/bittree.c`) | a bitmap under three summary levels | set, clear, test, get, set_all | the page allocator |
| page allocator (`x8664-page.c`) | the tree of free pages | `arch_init_mem_region` | the BIOS memory map |
| shell and start-up (`main.c`) | command loop | about forty commands | all of the above |
| PCI interrupt sharing (`irq.c`, `ioapic.c`, `lapic.c`) | handler tables per line | `pci_irq_add`, `pci_irq` | drivers |
| PCI configuration (`pci.c`) | tree of buses, routing table | `pci_init`, `find_pci_irq_table` | drivers |
| ACPI (`acpi.c`, `acpi-osqo3.c`) | tables | search, OS layer of ACPICA | HPET, PCI |
| IPv6 (`net/tcpip.c`, `net/icmpv6.c`, `net/receiver.c`) | none beyond a packet | parse, checksum | the driver |
| heap (`brk.c`) | break | `sbrk`, `sbrk_align` | start-up |
| formatted output (`src/npr/printf*.c`, `src/libc/stdio.c`, `serial-stdio.c`) | the pieces of a format, the place where printing stopped | `npr_printf_build_format`, `npr_printf_build_varg`, `npr_sprintf`, `vprintf`, `vsnprintf` | everything |
| bitmap, strings (`src/npr`, `src/libc`) | - | bitmap, `strtoul`, string functions | everything |
| consoles, display, audio, USB | registers | output, probing | the shell |
| start-up assembly, exceptions | machine state | mode switches, dumps | - |
| ACPICA (`src/acpica`) | - | vendored | `acpi.c` |

What makes each of them correct, and what is hard about it:

- **Event words.** A thread never sleeps on a word that satisfies its mask, and
  a call returns exactly when the mask is satisfied.  The bit can be set between
  the test and the halt; unrelated stores and interrupts wake the processor.
- **r8169.** A completion is reported once, for the buffer that the controller
  finished with, to a client that still waits; the controller owns only
  descriptors of outstanding buffers; a completion between the acknowledge and
  the end of the scan is not lost; the handler does not spin on a lock of the
  thread it interrupted.  Three parties advance three positions on each ring,
  each with its own way to wrap around.
- **HPET.** A wait lasts its time and ends, and the handler writes only into the
  event word of the wait in progress.  The pointer, the comparator and the
  running counter are three pieces of state changed one after the other.
- **Serial port.** A read gets the next characters, in order, in its own buffer,
  and returns.  The interrupt is edge triggered, so that an edge can be left over
  from the previous read and arrive in the middle of the next.
- **Processors and benchmarks.** A command in the mailbox of a processor that waits
  for one is run, a handshake value is not overwritten before the other side has seen
  it, and a bench ends.  Both sides of the handshake are straight-line code in
  different functions.
- **Bit tree, page allocator.** Summary bits are exact, the tree is a set from which
  the highest bit is taken, only usable pages become free and the kernel's own do not.
- **PCI configuration.** The tree of bridges, laid out by hand in an array of
  ints, holds every bridge below the bus it is on, within the memory allocated for
  it; a driver finds the interrupts of its own device.
- **PCI interrupts.** An interrupt of a device reaches its handler, also when the
  line is up already while handlers are being added; no empty slot is called.
- **Formatted output.** A format is refused or cut into the pieces it means; every
  character comes out once and in its place, wherever the ends of the caller's
  buffers fall; the caller is told rightly whether the output is complete.  Where a
  call stopped is spread over six fields, and each of ten stages must leave them
  right for the next.
- **Packets, heap.** Bounds and arithmetic.

`PROJECT.json` lists under `hazards` what can go wrong at which line, with the
properties that watch it.

## Modules

Each component has a module with one action per step of the code that others can
observe; an `MC` module extends it for TLC; proofs live in a module of their own.
Every module that models code is deterministic in what the code determines: the
nondeterminism is that of interrupts, devices, other processors and users.

| module | models | abstract specification |
|---|---|---|
| `Event` | `event.c`, with the handlers of the whole kernel as `Signal` | `Await` |
| `R8169` | `net/r8169.c`, `atomic.h` as it uses it, the controller | `RequestQueue` |
| `R8169Inv` | - the inductive invariant of `R8169` | |
| `Hpet` | `hpet.c`, `wait.c`, the timer | |
| `Ns16550` | `ns16550.c`, the port and its edge-triggered line | |
| `Smp` | `smp.c`, the handshake of `bench.c`, AP start-up of `main.c` | |
| `BittreeOps`, `Bittree` | `src/npr/bittree.c` as operators; a client | `BitSet` |
| `PageInit` | `arch_init_mem_region`, on `BittreeOps` | |
| `Irq` | `irq.c`, with the devices and the IO APIC | |
| `PciTree`, `Pci` | `pci.c`, its tree built call by call; start-up of the driver, on `Irq` | `Irq` |
| `PciTreeInv` | - the inductive invariants of `PciTree` and `Pci` | |
| `FormatBuild`, `Sprintf`, `Printf` | `src/npr/printf-format.c`; `src/npr/printf.c`; their callers in `serial-stdio.c` and `libc/stdio.c` | the meaning of a format, as operators |
| `InterruptProofs` (of `Event`, `Irq`, `PciTree` and `Pci`), `R8169Proofs`, `HpetProofs`, `Ns16550Proofs`, `SmpProofs`, `BittreeProofs` (of `Bittree` and `PageInit`), `PrintfProofs` | - theorems | |
| `SequenceLemmas` | - lemmas on numbers and sequences that several of these cite | |

The seams between the modules are the event words.  `Await` is the contract that
`Event` is shown to implement; `Hpet`, `Ns16550` and `R8169` rely on it and let
their client block in one step, while `Event` in turn knows the drivers only as
handlers that set a bit once.

### Event and Await

`pc` follows the five steps of the loop in `wait_event`: test, monitor, the
second test behind lfence, mwait, and sleep.  An event word is the set of its bits
that are set.  The monitor hardware is one flag `armed`: a store to the line or
an interrupt clears it, and mwait halts only while it is set.  `Signal` stands
for `*ready_ptr |= ready_bit` of any handler, on this processor or another;
`Disturb` for anything else that ends a halt.  `Start`, `Clear` and `Call` are
what the callers do between two calls.  `Call` waits for bits of started
operations only, as all callers do; nothing is assumed about when, and in which
order, the handlers set them.

### R8169 and RequestQueue

A request is a buffer together with its event word.  `owned`, `eor` and `buf`
are the descriptor words the driver writes, `ev` its arrays of event pointers.
A call of `r8169_rx_packet` or `r8169_tx_packet` takes eight steps (`Check`,
`Fill`, `DisableInt`, `Acquire`, `SetOwn`, `SetPos`, `Unlock`, `Kick`), one per
access that handler or controller can see; the handler takes one per
acknowledge, lock, iteration, unlock.  `hring` is the ring the handler works
on, transmit first.  The two functions differ in the test for a full
ring (`Full`), and in the lock they release: `Released` is `rx_lock` for both,
as in the code.  The initial state is what `r8169_init` leaves; resetting the
chip, reading its address and MII accesses have no part in the protocol.  The
controller completes descriptors it owns, in ring order, whenever it likes, and
raises the status bits the driver knows about.

`RequestQueue` says what a client relies on: accepted requests are served and
reported once each, in order, never before they are served.  `ImplementsQueue`
maps the receive ring to it.  `RxHead` takes the handler's local `own` for the
head while it scans, and `RxTail` counts the slot from `SetOwn` on, before
`rx_pos` is stored.

A local variable of the handler that is not read again before it is written is
forgotten where it dies, so that states differ in live values only: `IrqMisc`
drops the bits nobody looks at, `IrqAck` those of the ring it goes to.  `Uses`
are the buffers the clients hand over, and for which ring.

### Hpet

Registers and the three stores of `hpet_oneshot` (counter, comparator, pointer)
are separate steps, and so is `hpet_start`; `Tick` is one tick of real time, and
counts if the counter is enabled.  `Frames` are the stack addresses an event
word can be at; a frame that is not in use is still memory that a late handler
can write to.  `FirstWord` is the initial content of the event word: zero in
`do_hpetint`, anything in `wait_msec` and `wait_usec`, which do not
initialise it.  `dirty` records that some wait began with its bit already set.
Properties about exact times are stated for the histories in which it is false,
and the run `HpetEarly` shows what happens otherwise.  `wait_usec` converts with
`hpet_msec_to_tick`, so `TicksOf` does too, and the product wraps at the width of
the machine's int (`MsecToTick`): `CleanWaitsFull` is about the waits that fit
(`Fits`), and the others must still end.

`legacy` is the bit that gives the timer the interrupt of the PIT, its only route.
`hpet_setup` sets it, unless it finds no table or one of another number and returns
before (`hpet.c:55, 61`); the start-up then carries on, and the bit is what the
firmware left.  Both values are initial states, and `WaitEnds` is about the machines
on which it is set: on the others no wait ends, unless its event word was set to
begin with.

### Ns16550

Characters are numbered in order of arrival.  `Line` is the level of the interrupt
line and `pending` the edge the interrupt controller has latched.  A read takes a
step for the caller, which clears its event word (`Read`), and one for each of the
stores of `ns16550_read`, in their order: `ready_ptr` (`SetEvent`), `ready_bit`
(`SetBit`), `read_remain` (`SetRemain`), `read_ptr` (`SetPointer`) and the interrupt
enable of the port (`Enable`).  An interrupt may come between any two of them; the
handler takes one step per character and one each for the event and for disabling the
port, and characters arrive during it.  `hurried` records that a character arrived
before it was asked for; the order and the place of the characters are stated for the
histories in which it is false, that every read returns for all of them.  `Leave` is
the end of `do_tcpip_rs` after a packet: its read stays under way with the port
enabled, and the next `ns16550_read` replaces it store by store (`left` is "yes"
until then).  A character that comes meanwhile is one that nobody asked for; `left`
is then "late", and the next event may be set before its read is complete.  Until
`ready_ptr` and `ready_bit` are stored, the handler sets a bit of the event word of
an earlier call.  That word may have been at the address of the present one, and the
bit may have had the same number, so `Signal` sets the event or leaves it then; what
else it may overwrite in a frame that is gone is not modelled.  The negative values
of `read_remain` are one value, as the code never tells them apart.

### Smp

The shell, the APs and both sides of a bench run on separate processors, each with a
monitor.  The handshake is data: `BspScript` and `ApScript` list the stores to
`ready[cpu]` and the waits on it in the order of `smp_bench` and `run_bench_ap`, and
`DoStore`, `DoPost` and the three steps of `watch_mem1` execute them; a loop over the
enabled processors is `ForEach` over their set.  The measurements between them are
left out.  `BootAp` may be given again while APs run, and restarts them wherever they
are.  `calm` records that when a bench began no command was on its way to an AP.

An AP reads its mailbox and clears it in two steps (`Read`, `Clear`), and a restart
empties it: a command that is posted in between is lost, in the model as in the code.
`CommandRuns` says which ones are not.  A command that is in the mailbox while the AP
waits for one, is on its way to the wait, or is busy with another leads to the first
step of `run_command` for it, unless another command or a restart comes first.

### BittreeOps, Bittree, PageInit

A word is the set of its bits, and a tree a function from word indices.
`GetPaths` follows `npr_bittree_get` down the levels with the word numbers the
code uses, `GetWrites` the four words it writes back.  `TestBit` is
`npr_bittree_p` as written: the mask of the *other* bits, cut to an int.
`BitSet` is what the code, not its header, promises: get takes the highest bit of the
set, as bsr finds it, where `src/npr/bittree.h:22` says "ffs", the lowest; a `BitSet`
after the header would not be implemented.  The header's negative result on failure
(`src/npr/bittree.h:23`) has no counterpart in the code; `BitSet` has no get from an
empty set, and the client of `Bittree` calls get behind `NPR_BITTREE_HAVE_BITS` only.

`PageInit` runs the three loops of `arch_init_mem_region` over a memory map.
Pages are `PageUnits` long so that a map can hold unaligned entries.  Its
variables are named after the code's (`tree_bits`, `free_bits`), its specification is
`MemSpec`, and it shares no name with `Bittree`, so that one module proves about
both.  The code clears the reserved pages without asking whether memory goes on
behind the tree; where it does not (`Reserved > max`), the model says nothing of what
is found beyond the last word, and neither does `FreeIsUsable`.

### PciTree, Irq, Pci

A machine is a set of PCI functions, and for each bus the entries ACPI has for
its interrupts.  `Numbered` is what the firmware is trusted with: a bus behind a
bridge has a number of its own, above that of the bus the bridge is on, every bus
but 0 is behind a bridge, and there is a host bridge.  `NicAssumption` restricts
`Pci` to machines with one card.  The entries may name any line: one below the PCI
lines resets the machine in `pci_irq_add`; one above them is written beyond its arrays,
as `irq.c:29` tests the lower bound alone, or resets the machine if what lies there
looks like a full line (`Tested`).  After such a write nothing is defined: the adding
thread goes no further ("undefined"), and `CalledIsStored` says nothing of it.

`pci_init` goes through `phase`.  In "build", `build_tree` runs call by call:
`calls` is the stack of its active calls, each with its arguments, its
`child_offset`, and the bridges its loop has come to; `EnterChild` is what happens
from one recursive call to the next, `ReturnFromChild` what the caller does when it
is back, and `tree` are the ints written so far.  `Built` reads the tree as
`lspci_tree0` walks it (`Edges`).  If its nodes overlap, what becomes of it is
undefined, and the model stops there ("undefined").  Otherwise `AssignIrqs` gives
each bridge the entries of its bus, found by the addresses on the way to it
(`NodeOf`, from `acpi_handle_to_bridge`); `LookUp` is `find_pci_irq_table` for
the card; and `Register` adds its handler for the four pins, one call of
`pci_irq_add` after the other.  The card may raise its line at any time, but
nothing is delivered before the first line is unmasked.  From then on `pci_irq`
comes between any two stores, and again and again while the line is up.

On machines where a bridge follows one that has bridges behind it (`Nested`), the
tree is wrong: `child_offset` advances past one node whatever lies below it
(`pci.c:223`).  The properties say what holds on the other machines, and
`DriverReady` and `InterruptServed` speak of those on which ACPI lists the four pins
of the card one after the other, with PCI lines (`Wired`).

### FormatBuild, Sprintf, Printf

`FormatBuild` has one action per label of `npr_printf_build_format`.  A piece is a
record of the type, the width, the zero flag and the number of `l`, or the ordinary
characters.  `Sprintf` has one action per stage of a piece: a run of padding, the
sign, one digit converted, the digits, a string.  `OutputRun` is what `fill_with` and
`dump_str` have in common: write from `char_index` on, or as much as there is room
for, and remember where.  `Char` shows the exception, a `%c` that finds no room and
returns with `is_fini` as the piece before left it.  The position in the buffer is
the length of `dst`.  Nothing in `output_integer` tests that the digits fit in
`dump_digit_buf`: `Overrun` is the conversion that finds it full, and the model ends
there, as the digits are the last field of the state and what lies behind it is not
known.  The place in pieces and arguments is kept in the state all along, where every
return leaves it.

`Printf` puts parser, arguments and printing together.  The repository's callers make
one call; `Client` calls again, with buffers of any length, until `is_fini` is set,
which is what the state is for.  `Meanings` says what a text means without the
parser's labels: the pieces at each position (`PiecesAt`), in every way the text can
be taken apart, followed by what it means behind them (`MeaningsFrom`).  `Whole` says
what is to be printed, without buffers, stages or remainders: a number is its numeral
(`NumeralOf`, highest digit first, where the code converts the lowest first), its
sign and what is missing of the width.

## Runs

Every property has a mutant in `PROJECT.json`: a plausible slip in the code that
makes TLC find the property violated under the same configuration.

| run | what it asks | bounds |
|---|---|---|
| `MCEvent` | no lost wakeup; calls return; `Await` is implemented | three bits: `do_tcpip_rs` waits for three operations on one word, all others for one |
| `R8169` | completions true and exclusive, handler never spins, FIFO queue, nothing accepted stays unreported, with both rings and link changes in play | three slots; three receive buffers, of which one is also sent: the receive ring fills (two buffers), wraps, and has a request left over, while the transmit handler may be stuck |
| `R8169TxLock` | *violation*: `tx_lock` is released | one request is enough |
| `Hpet` | waits end if the timer has its interrupt; clean waits last their time; only live event words are written; nothing stays armed | counter modulo 8, waits of up to three units at three ticks each, two frames: the counter wraps, the product of the longest wait wraps, and the next wait may reuse the frame or not |
| `HpetEarly` | *violation*: a wait lasts its time | as `Hpet` |
| `Ns16550` | reads return; characters in order and in place | FIFO of three, reads of one or two characters as in `main.c`, two arrivals per handler run: overruns happen |
| `MCSmp` | no lost wakeup; handshake; benches end; a command in the mailbox of an AP that waits or will wait is run | two APs, the four C-states of the code |
| `Bittree` | summaries exact; the root word tells emptiness; the tree is a set whose highest bit get takes | three-bit words, eight bits: one less than the largest tree for which the index arithmetic of get is right (WordBits²), so that the last word is a partial one; all 256 sets |
| `PageInit` | if memory goes on behind the tree, only usable pages become free, and all beyond the reserved ones do | all pairs of entries from four addresses and four lengths, of both types, in both orders: overlaps, holes, unaligned ends |
| `PageReserved` | *violation*: reserved pages are not free | as `PageInit` |
| `Pci` | tree right and within its memory; no empty slot called; the driver finds its lines and has its handler on each; interrupts reach it | all numberings of up to three bridges, in either order on their bus; the card on any bus, as function 0 or 1; nine shapes of interrupt table, so that the lookup succeeds, fails, shares one line among four pins, or finds lines that are missing, too low or too high |
| `Printf` | parser accepts exactly the formats and cuts them right; output in order over any buffers; the flag is right; parsing and printing end | 311 texts put together from thirteen fragments, whole, unfinished and wrong ones; a table of four pieces; ints of five bits and longs of eight, so that the digit buffer of two, as the one of sixteen for 32 and 64 bits, holds every int and every long in the larger base, and not every decimal long; buffers of 0, 1, 3 and 20 characters, in any order |

The bounds cap data, not control: no run bounds the length of a history, except
that `Hpet` saturates the elapsed time at `MaxElapsed`, twice the range of the
counter and so beyond any wait, and that `Ns16550` bounds the characters that
arrive during one run of the handler by `MaxBurst`.

`RxReported` asks of the second receive buffer that it is reported, unless a
handler got stuck with `tx_lock`.  The first is the one that is also sent, so that
the two rings share it; the third behaves as the second does, as nothing in the
module tells one request from another.

Six runs switch the deadlock check off.  In `R8169` and `R8169TxLock` the system
really stops, because of `tx_lock`; `PageInit` and `PageReserved` end when the map
has been read, `Pci` when the driver gave up or was told a bad line, and `Printf`
when the text was refused, everything is printed, or the digits overran their buffer.

## Fairness

- `Event`: the processor executes the thread, and an operation that was started
  completes.  Nothing makes a spurious wakeup happen, so returning does not
  depend on one.
- `R8169` (`FairSpec`): thread and handler go on; a pending level-triggered
  interrupt is taken although the thread disables interrupts again and again,
  because the processor takes it as soon as they are enabled (strong fairness of
  `IrqEnter`); packets keep arriving, so the controller completes descriptors
  it owns.  `Spec`, used for safety and the proofs, has no fairness.
- `Hpet`: the thread, the interrupt and time go on.
- `Ns16550`: strong fairness of the thread.  At 115200 baud a character takes
  tens of microseconds and a read a few instructions, so interrupts do not
  starve the thread; for the same reason the handler reaches its end.
  Characters keep arriving: a read of characters nobody sends rightly waits.
- `Pci`: the thread goes on although a line that is up, and has no counted handler
  yet, interrupts it again and again: a delivery takes longer than an
  instruction.  An interrupt of an unmasked line that stays up is delivered.
- `Smp`: each processor goes on.  Nobody has to type a command.
- `Printf`: a function that was called goes on, and a caller whose output is not
  complete calls again; not all of its buffers are empty.

## Proofs

TLAPS checks the theorems below without further assumptions than those the
modules state on their constants, which TLC evaluates in every run: rings of more
than one slot (`RingAssumption`), a counter of more than one value
(`HpetAssumption`), a FIFO that holds the longest read, as the sixteen characters
of the port do (`SerialAssumption`), arguments of the widths that C gives them
(`SprintfAssumption`), at least one C-state and a mailbox value that is no command
(`SmpAssumption`), a map of entries with addresses and lengths (`PageAssumption`),
a machine as its firmware has numbered it (`PciAssumption`) with one card and room
for its four pins on a line (`NicAssumption`), a `dump_digit_buf` that holds the
largest unsigned int in decimal and the largest unsigned long in hexadecimal
(`DigitsAssumption`: ten and sixteen digits, of sixteen), and the like.  One is a
restriction that the code needs and does not check: `npr_bittree_get` is used on trees
of up to WordBits² bits, a hypothesis of the theorems about it.  TLC checked every
inductive invariant, as an invariant of the same instances, before it was proved;
those of `PciTreeInv` on the machines with three bridges and for the first eleven
buses, as a quantifier over all numbers is beyond it.

**`InterruptProofs`.**  `TypeCorrect` and `LostWakeupFree` follow from
`IInvariance`.  `NoLostWakeup` speaks only of the halted processor and is not
inductive; the invariant adds `ArmedUnsatisfied`, that from the second test on
an armed monitor means an unsatisfied mask, because whatever sets a bit disarms
it, and `AsleepArmed`.  `RefinesAwait` shows that each step of `wait_event` is
the corresponding step of `Await`, or a stutter: it returns only when the mask is
satisfied, for any set of bits.  (That it also returns *always* is liveness, checked by
`MCEvent`.)

`CallsAreStored` is about `Irq` alone, where any thread adds handlers at any time, to
any lines, legal or not, while interrupts arrive: `FilledInv` says that the slots
below the count are filled, and that a dispatch in progress stays below it.
`PciImplementsIrq` shows that start-up is one such thread: every step of `Pci` is a
step of `IrqNext` or leaves the variables of `Irq` alone.

The other theorems are about every machine the firmware may have numbered, with any
number of buses and bridges.  `PciTypeCorrect`: `build_tree` writes within the memory
`pci_init` has allocated for it, on nested machines too.  The reason is a count.
Every bridge takes three ints, one for the offset of its node and two for the node,
and as bus numbers grow on the way down, a call begins no later than the ints of the
buses with lower numbers end (`Base`, in `FrameInv`).

`TreeIsFaithful`: without nested bridges the finished tree holds exactly the bridges,
each below its bus.  `TreeInv` says that every call then begins exactly at `Base`, so
that each bridge has a `Slot` and a `Place` of its own that no later call writes to
(`CellsDisjoint`), and `NodeInv` what is found there.  The one step that could go
wrong is the call for the bus behind a bridge: `NextBus` and `PlaceNextBus` show that
the buses with lower numbers have then been passed, because a bridge on a bus in
between would lead back to a pair of bridges that are nested.
That the walk over the tree meets every bridge
(`LevelNodes`, `NodesReached`) is induction over the depth and over the bus.

`DriverIsReady`: on a wired machine the driver is not turned away, is not reset, and
when it returns each of its lines is delivered and has its handler, whatever
interrupts it.  `NodeFound` shows that the search by addresses ends at the node of the bus
asked for, `AssignRoutes` that its bridge is given its table,
`WiredFound` that the lookup finds the card's row and in it the four lines.
`DriverInv` follows the four calls: a listed line has its handler, is being added, or
is still to come, and no line gets more than four (`MaxHandlers` is that at least).

**`R8169Proofs`.**  `ReportsAreTrue`, `OwnershipIsExclusive`,
`RxHandlerNeverSpins` and `TypeCorrect`, for rings of any size and any set of
requests, with both rings in use.  The invariant of `R8169Inv` says that on each
ring the slots in use are the stretch from `HeadOf` to `TailOf`; that the
controller stands in it and owns exactly what lies from `nic` on (`PlaceInv`,
`OwnInv`); that each slot of the stretch holds an outstanding unreported request,
finished exactly if it lies before `nic` (`WindowInv`), and no request twice
(`DistinctInv`); and which locks and flags go with which step (`FlagInv`,
`LockInv`).  `TxInv` is the unhappy part: as `tx_lock` is never released, the
transmit ring never carries more than one request, and its handler never gets to
its scan.  The proofs have one lemma per action, and lemmas (`InGrow`,
`InShrink`, `InSub`) on how a stretch of a ring changes when one of its ends moves.

`ReceiveRingIsQueue`: the receive ring implements `RequestQueue`.  From the invariant
above, with lemmas that the queue read off the ring grows by one at its end
(`SetOwn`), loses its first (the handler's report), or stays (all other steps), each
in terms of the distance between two slots.

**`HpetProofs`.**  `CleanWaitsAreFull`, `LiveWordWritten`, `QuietBetweenWaits`,
`TypeCorrect`, for any width of the counter and any frequency, waits that wrap
included.  `RestInv` says that the timer is at rest whenever no wait can be
interrupted, `SetupInv` what the registers hold between the stores of
`hpet_oneshot`, and `TimeInv` that the counter is not ahead of time until it matches
the comparator.  All three are conditioned on `dirty` being false,
as the code only then has these properties.

**`Ns16550Proofs`.**  `TypeCorrect` and `SignalsOnlyReads` hold for all inputs and
follow from `CountInv`, that the count is positive only in a read that has not been
signalled or that was left.  `StoresInside` and `ReadsFollow` hold as long as no
character comes sooner than it is asked for; `OrderInv` says that buffer, FIFO and
line carry consecutive numbers, `ProgressInv` that what is stored and what is still
to come make up the read, and `InterruptInv` that no edge is left over then.

**`SmpProofs`.**  For any number of processors, C-states and commands.
`LostWakeupFree` follows from `WakeupInv`: `MailboxInv` and `ByteInv` follow a
monitor through arming, the second look and the halt, for the mailboxes and for the
bytes of the handshake.  `HandshakeInOrder`: no store of the handshake overwrites a
value the other side has not seen, also when a bench hangs or `boot_ap` restarts the
APs.  Processor 0 serves the bytes of all APs in the rounds of `smp_bench`, each AP
only its own, so the proof looks at the two scripts through one AP: `OnAp` leaves of
a script what concerns that AP, and what it leaves of the script of processor 0 is
the same alternation of stores and waits (`BspFrom`), whichever processors are
enabled.  `MeetingInv` then says that the two sides are at the same value of the byte
or one value apart, the odd ones stored by the AP and the even ones by processor 0
(`InStep`), unless the AP has not been called or is not yet awake.

**`BittreeProofs`.**  For every word size.  The invariant is one predicate, `TreeOK`:
the words are words, no leaf bit lies beyond the last, and every summary word holds
exactly the positions of the words below it that are not empty.  The lemmas show that
the test for an empty word is enough to decide whether the level above changes, in
`npr_bittree_clear` as in `get`.  `TreeIsASet`, `SummariesStayExact` and
`RootWordTells` are about the client that also takes bits and hold up to WordBits²
bits, where the index arithmetic of get is right; `FourLevelTree` shows that set and
clear are right up to WordBits⁴, that is for all trees the four levels are meant for.
`OnlyUsablePagesAreFree`: whatever the memory map, if memory goes on behind the tree,
only whole usable pages end up free, and all those behind the reserved ones do.
`MemInv` says which pages are free after each entry and each page (`Covered`); its
part `MaxInv`, that no usable entry ends beyond `max`, is what keeps `SetBit` inside
the tree.

**`PrintfProofs`.**  `TypeCorrect` is more than types here: `arg_index` never
leaves the arguments, `num_digit` never the digits that were converted, and `dst`
never the buffer of the call, for all texts, arguments and sequences of buffers.
`ArgsInv` is the reason: the place in the arguments is the number of conversions
before the place in the pieces (`Rank`), and each argument has the type its piece
asks for, which is what makes the union in `npr_printf_arg` safe to read.

`OutputComes` and `FlagTells`: for every sequence of buffers, of any lengths, what
the caller has collected is a prefix of `Whole`, and `is_fini` tells whether it is
all. `PrintedInv` says what a stopped call leaves behind: `Left` is, by the stage and
the counters, what the piece at hand still has to print, and `OutputInv` that the
characters printed and those left make up the pieces so far (`UpTo`). `ConvertInv`
says the same of the digits while a number is converted, that the numeral of what is
left of it followed by the digits stored, read backwards, is its numeral.  The other
half of `OutputComes` is that a conversion overruns the digits only for a decimal
long that has more than `DigitBuf` of them.  `DigitsAssumption` speaks of two
numbers; that every int and every hexadecimal long fits follows, as a smaller number
has no longer numeral (`ShorterNumeral`, `DigitsFit`).  That the numerals of division
by the base are what they are for every number is induction over the numbers.

`PiecesFollow`: for every text over any characters, `npr_printf_build_format` accepts
it if and only if it is a format, and then its table holds the pieces it means; a
table that is too small is refused only when every meaning has more pieces.
`ParseInv` says of each label that what the text means is the pieces found so far
followed by what it means from a position `k` on (`Meant`), that the piece under way
begins at `k`, and that `wid` and `zero` are those of the last number read
(`NumberBehind`).  The steps use that a position is the beginning of at most one
piece, and of which (`OrdinaryPiece`, `PieceHere`, `NoPiece`).  `Decimal` and
`MeaningsFrom` are recursive functions; that they exist and satisfy their equations
for texts of every length is induction over the length, from the left for the one
and from the right for the other.

**`SequenceLemmas`.**  What is defined by recursion, the numerals and meanings of
`Printf` and the flattened lists of `Printf` and `Smp`, is a recursive function here,
and induction over it is stated of the set of numbers for which a fact holds
(`SetInduction`, from the well-foundedness of < on the natural numbers), as the
library's theorems on induction cannot be instantiated by the provers.

What rests on TLC alone is liveness, which is outside what TLAPS can prove: that
waits, reads, benches and calls end, that an interrupt of the card is served, and that
`Event` implements the liveness part of `Await`.  Every invariant and every action
property that a run checks is also the statement of a theorem, except those a
run finds violated.

## Disagreements found

Each is a run with a counterexample, and an entry of `findings`.

- `net/r8169.c:364`: `r8169_tx_packet` takes `tx_lock` and releases `rx_lock`.
  The second packet, or the first transmit interrupt, spins for ever with
  interrupts disabled (`R8169TxLock`).
- `wait.c:10`: the event word of `wait_msec` is not initialised.  `boot_ap`'s
  "wait 10msec" can return at once, and leaves the timer armed with a pointer into
  a dead frame (`HpetEarly`).
- `src/npr/bittree.c:87`: `npr_bittree_p` tests the other bits of the word, and
  of those only the low 32; `arch_init_mem_region` leaves one page of each word
  free among those it reserves (`PageReserved`).

Met while modelling, visible in the code without a run, and listed as hazards:
`wait_usec` waits milliseconds (`wait.c:19`); `npr_bittree_get` leaves the words
before the current one out of its indices, and beyond 4096 bits clears other bits
than the one it returns (`src/npr/bittree.c:156`); the tree of bridges is wrong on
some machines (`pci.c:223`); `npr_bittree_get` takes the highest bit where its header
says "ffs", the lowest, and returns some bit number on an empty tree where the header
promises a negative one (`src/npr/bittree.c:154`, `src/npr/bittree.h:22`);
a command posted while an AP is between reading its mailbox and clearing it is lost,
and `do_bench` right after `do_hello_ap` or a second `boot_ap` can hang for that reason
(`smp.c:35`).  `pci_irq_add` writes beyond its arrays for a line above 23
(`irq.c:29`), and a failed `hpet_setup` leaves the timer without its interrupt unless
the firmware has set it (`hpet.c:55, 61`).  In formatted output: a `%c`
that finds the buffer full returns with `is_fini` still set, so that the output
counts as complete without it (`src/npr/printf.c:310`); unsigned longs from 2^63 on
print as negative numbers (`src/npr/printf.c:297`); a decimal long of more than
sixteen digits overruns `dump_digit_buf` (`src/npr/printf.c:130`).  `do_tcpip_rs`
returns while operations still point into its frame (`main.c:518`).

## Not modelled

- The contents of packets, the measurements of the benchmarks, what the commands
  print.
- In formatted output: the output devices, the terminating zero of `vsnprintf` (and
  its size of zero, which becomes a buffer of -1), the case of `%X`.
- The driver's probing, MII accesses and dumps; polled serial input and output.
- `npr_bittree_set_all`, used by the test program only.
- `do_tcpip_rs` as a whole.  `Ns16550` has the read it leaves after a packet, and its
  one event word with three operations is within what `Event` models; the packets
  that are left with `q` are missing, as the modelled clients of `R8169` wait for
  everything they have started.
- The command loop: it reads a line and calls a function.
- Weakly ordered memory: x86 keeps the stores of a processor in order, and
  `wait_event` puts lfence where a read must not move up.
- Assembly start-up, exceptions, consoles, display, audio, USB: machine state or
  output without protocol.  ACPICA is vendored.
- The checks of the MCFG table, the IO APIC beyond one routing step; buses beyond
  127, which `BDF_BUS` maps onto others.
- ACPI tables: the search for a signature happens once, on one processor, and the
  OS layer for ACPICA is stubs.  IPv6: `tcpip_parse_packet` ends in a message, and
  `r8169-tcpip.c` and `receiver.c` are neither built nor called.  The heap: two
  roundings and an addition, never undone.
- `strtoul`, the bitmap, the string functions: no state, no order of events.
- Of `LONG_MIN`: its negation overflows in `output_integer`, and the arguments of
  module `Sprintf` leave it out.

## Plan

Ordered by importance; all but the last two are done.

1. `Await`, `Event`, with proofs.
2. `RequestQueue`, `R8169`, with the proofs of its safety and of the refinement.
3. `Hpet`, `Ns16550`: the other users of event words, with proofs.
4. `Smp`: mailboxes and the bench handshake, with proofs.
5. `BitSet`, `Bittree`, `PageInit`, with proofs.
6. `Irq`, `PciTree`, `Pci`: from the wiring of the machine to the handler, with
   proofs of the tree, the lookup and the handler tables.
7. `FormatBuild`, `Sprintf`, `Printf`: formatted output, with proofs.
8. `do_tcpip_rs` with its three operations on one event word, composed from
   `RequestQueue`, the serial port's contract and `Await`, including leaving with
   `q`.
9. `npr_bittree_set_all`, once its pointers are right, and a packet parser that
   returns a result.

Of what is modelled, the theorem that would add most is `TreeIsFaithful` for nested
machines, once `child_offset` advances past all that lies below a bridge.  Places then
follow depth first instead of by bus, so that `Base` would count what lies below the
bridges already passed; the cells, the walk over the tree and the lookup in it are
proved from places that do not overlap, whatever their order.
