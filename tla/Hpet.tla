-------------------------------- MODULE Hpet --------------------------------
(***************************************************************************)
(* kernel/hpet.c and kernel/wait.c: sleeping on comparator 0 of the HPET.  *)
(* A caller gives hpet_oneshot the address of an event word on its own     *)
(* stack and blocks on it; the interrupt handler sets the word and stops   *)
(* the main counter.  The counter goes on counting, and the comparator on  *)
(* matching, until somebody stops it, even if the word it points to went   *)
(* away with its caller.  Blocking is atomic here: it is module Event.     *)
(*                                                                         *)
(* The timer itself and the interrupt controller, which latches one edge,  *)
(* are external.                                                           *)
(***************************************************************************)
EXTENDS Integers

CONSTANTS
  Width,            \* the counter and the tick type are Width-valued (2^32)
  FreqKhz,          \* hpet_freq_khz, ticks per millisecond
  UsecPerMsec,      \* 1000
  MaxUnits,         \* bound on the argument of a wait
  Frames,           \* stack addresses at which the event word can be
  None

ASSUME HpetAssumption ==
  /\ Width \in Nat /\ Width > 1
  /\ FreqKhz \in Nat \ {0}
  /\ UsecPerMsec \in Nat \ {0}
  /\ MaxUnits \in Nat
  /\ None \notin Frames

VARIABLES
  pc,               \* where the thread is
  call,             \* its function and argument
  frame,            \* the address of its event word, None between calls
  ticks,            \* argument ticks of hpet_oneshot
  elapsed,          \* ticks of real time since the call
  word,             \* the memory at the addresses: is bit 0 set
  ptr,              \* comparators[0].ready_ptr
  enabled,          \* HPET_ENABLE_CNF
  intEnb,           \* HPET_CONF_INT_ENB_CNF
  count,            \* HPET_MAIN_CNT
  comparator,       \* HPET_TIMN_COMPARATOR(0)
  pending,          \* an interrupt is latched
  dirty,            \* history: some wait began with its event word set
  legacy            \* HPET_LEG_RT_CNF, the route to the interrupt of the PIT

timer == <<enabled, intEnb, count, comparator>>
vars == <<pc, call, frame, ticks, elapsed, word, ptr, timer, pending, dirty,
          legacy>>

Counts == 0..(Width - 1)
Functions == {"wait_msec", "wait_usec", "do_hpetint"}
Calls == [fn : Functions, n : 0..MaxUnits]
MaxElapsed == 2 * Width   \* bound of the elapsed time

TypeOK ==
  /\ pc \in {"idle", "conf", "zero", "compare", "pointer", "start", "wait"}
  /\ call \in Calls \cup {None}
  /\ frame \in Frames \cup {None}
  /\ ticks \in Counts
  /\ elapsed \in 0..MaxElapsed
  /\ word \in [Frames -> BOOLEAN]
  /\ ptr \in Frames \cup {None}
  /\ enabled \in BOOLEAN
  /\ intEnb \in BOOLEAN
  /\ count \in Counts
  /\ comparator \in Counts
  /\ pending \in BOOLEAN
  /\ dirty \in BOOLEAN
  /\ legacy \in BOOLEAN

\* After hpet_setup.  If ACPI has no HPET table, or the table is not that of
\* number 0, it returns before it sets HPET_LEG_RT_CNF (hpet.c:55, 61), which
\* is then what the firmware left there; init carries on with the usual
\* address (main.c:761-764).  The firmware is taken to leave the counter
\* stopped and the interrupt of comparator 0 disabled, as after a reset.
Init ==
  /\ pc = "idle"
  /\ call = None
  /\ frame = None
  /\ ticks = 0
  /\ elapsed = 0
  /\ word = [f \in Frames |-> FALSE]
  /\ ptr = None
  /\ enabled = FALSE
  /\ intEnb = FALSE
  /\ count = 0
  /\ comparator = 0
  /\ pending = FALSE
  /\ dirty = FALSE
  /\ legacy \in BOOLEAN

-----------------------------------------------------------------------------
\* Mutant: milliseconds are taken for seconds, without the width of the type.
MsecToTickLong(msec) == msec * FreqKhz * UsecPerMsec

\* hpet_msec_to_tick, in unsigned int.
MsecToTick(msec) == (msec * FreqKhz) % Width

\* What each caller passes to hpet_oneshot; wait_usec, too, converts with
\* hpet_msec_to_tick.
TicksOf(c) == MsecToTick(c.n)

\* The time each caller is asked to wait for.
Asked(c) == IF c.fn = "wait_usec" THEN (c.n * FreqKhz) \div UsecPerMsec
            ELSE c.n * FreqKhz

\* The product of hpet_msec_to_tick does not overflow.
Fits(c) == c.n * FreqKhz < Width

-----------------------------------------------------------------------------
(* The thread.                                                             *)

Step(from, to) == pc = from /\ pc' = to

\* The event word of do_hpetint is initialised; the ones of wait_msec and
\* wait_usec hold whatever the stack held.
FirstWord(c) == IF c.fn = "do_hpetint" THEN {FALSE} ELSE BOOLEAN

Call(c, f) ==
  /\ Step("idle", "conf")
  /\ call' = c
  /\ frame' = f
  /\ ticks' = TicksOf(c)
  /\ elapsed' = 0
  /\ \E w \in FirstWord(c) :
       /\ word' = [word EXCEPT ![f] = w]
       /\ dirty' = (dirty \/ w)
  /\ UNCHANGED <<ptr, timer, pending, legacy>>

\* Mutant: the interrupt of the timer stays disabled.
SetConfMasked ==
  /\ Step("conf", "zero")
  /\ UNCHANGED <<call, frame, ticks, elapsed, word, ptr, timer, pending,
                 dirty, legacy>>

\* hpet_oneshot, in the order of its register accesses.
SetConf ==
  /\ Step("conf", "zero")
  /\ intEnb' = TRUE
  /\ UNCHANGED <<call, frame, ticks, elapsed, word, ptr, enabled, count,
                 comparator, pending, dirty, legacy>>

\* Mutant: the counter is not reset.
KeepCount ==
  /\ Step("zero", "compare")
  /\ UNCHANGED <<call, frame, ticks, elapsed, word, ptr, timer, pending,
                 dirty, legacy>>

ZeroCount ==
  /\ Step("zero", "compare")
  /\ count' = 0
  /\ UNCHANGED <<call, frame, ticks, elapsed, word, ptr, enabled, intEnb,
                 comparator, pending, dirty, legacy>>

SetComparator ==
  /\ Step("compare", "pointer")
  /\ comparator' = ticks
  /\ UNCHANGED <<call, frame, ticks, elapsed, word, ptr, enabled, intEnb,
                 count, pending, dirty, legacy>>

\* Mutant: the pointer is stored once only.
SetPointerOnce ==
  /\ Step("pointer", "start")
  /\ ptr' = IF ptr = None THEN frame ELSE ptr
  /\ UNCHANGED <<call, frame, ticks, elapsed, word, timer, pending, dirty,
                 legacy>>

SetPointer ==
  /\ Step("pointer", "start")
  /\ ptr' = frame
  /\ UNCHANGED <<call, frame, ticks, elapsed, word, timer, pending, dirty,
                 legacy>>

\* hpet_start.
Start ==
  /\ Step("start", "wait")
  /\ enabled' = TRUE
  /\ UNCHANGED <<call, frame, ticks, elapsed, word, ptr, intEnb, count,
                 comparator, pending, dirty, legacy>>

\* wait_event_any(&ready, 1) returns, and the event word goes away.
Return ==
  /\ Step("wait", "idle")
  /\ word[frame]
  /\ call' = None
  /\ frame' = None
  /\ elapsed' = 0
  /\ UNCHANGED <<ticks, word, ptr, timer, pending, dirty, legacy>>

-----------------------------------------------------------------------------
(* Time and the interrupt.                                                 *)

Next32(n) == (n + 1) % Width

\* One tick of time; the counter counts if it is enabled, and a match latches
\* an interrupt if the comparator has a route: hpet_oneshot gives it none of
\* its own.
Tick ==
  /\ enabled \/ pc # "idle"
  /\ elapsed' = IF pc # "idle" /\ elapsed < MaxElapsed
                THEN elapsed + 1 ELSE elapsed
  /\ count' = IF enabled THEN Next32(count) ELSE count
  /\ pending' = (pending \/ (/\ enabled /\ intEnb /\ legacy
                             /\ Next32(count) = comparator))
  /\ UNCHANGED <<pc, call, frame, ticks, word, ptr, enabled, intEnb,
                 comparator, dirty, legacy>>

\* Mutant: the handler leaves the counter running.
IntrNoStop ==
  /\ pending
  /\ word' = [word EXCEPT ![ptr] = TRUE]
  /\ pending' = FALSE
  /\ UNCHANGED <<pc, call, frame, ticks, elapsed, ptr, timer, dirty, legacy>>

\* chpet0_intr: *ready_ptr |= ready_bits, then hpet_stop.
Intr ==
  /\ pending
  /\ word' = [word EXCEPT ![ptr] = TRUE]
  /\ enabled' = FALSE
  /\ pending' = FALSE
  /\ UNCHANGED <<pc, call, frame, ticks, elapsed, ptr, intEnb, count,
                 comparator, dirty, legacy>>

-----------------------------------------------------------------------------

ThreadNext == SetConf \/ ZeroCount \/ SetComparator \/ SetPointer \/ Start
              \/ Return

Next ==
  \/ \E c \in Calls, f \in Frames : Call(c, f)
  \/ ThreadNext
  \/ Tick
  \/ Intr

\* The processor executes the thread, takes interrupts, and time passes.
Fairness == WF_vars(ThreadNext) /\ WF_vars(Tick) /\ WF_vars(Intr)

Spec == Init /\ [][Next]_vars /\ Fairness

-----------------------------------------------------------------------------
(* Properties.                                                             *)

\* The property the callers rely on: a wait does not return before the time
\* it was asked to wait for ("wait 10msec", main.c:149).
WaitsFull == [][pc = "wait" /\ pc' = "idle" => elapsed >= Asked(call)]_vars

\* It holds of a wait whose ticks fit in 32 bits as long as every wait, too
\* long ones included, has begun with a clear event word: nothing left over
\* from one wait shortens the next.
FullUnlessDirty ==
  pc = "wait" /\ pc' = "idle" /\ ~dirty /\ Fits(call) => elapsed >= Asked(call)
CleanWaitsFull == [][FullUnlessDirty]_vars

\* Under the same condition the handler writes only into the event word of the
\* wait in progress, never into a stack frame that is gone (hpet.c:105).
WritesLiveWord == [][pending /\ ~pending' /\ ~dirty => ptr = frame]_vars

\* Nothing stays armed between two such waits: the counter is stopped and no
\* interrupt is on its way.
IdleIsQuiet == pc = "idle" /\ ~dirty => ~enabled /\ ~pending

\* If the interrupt of the timer has a route, every wait ends, whatever earlier
\* waits left running.
WaitEnds == pc # "idle" /\ legacy ~> pc = "idle"

-----------------------------------------------------------------------------
(* The inductive invariant.                                                *)

\* A call has an argument and an event word, and its ticks.
CallInv ==
  pc # "idle" => call \in Calls /\ frame \in Frames /\ ticks = TicksOf(call)

\* The timer is at rest until the thread starts it, and as long as the event
\* word was clear at the start it is at rest again once the word is set.
RestInv ==
  ~dirty =>
    /\ pc # "wait" => ~enabled /\ ~pending
    /\ pc \in {"conf", "zero", "compare", "pointer", "start"} => ~word[frame]
    /\ pc = "wait" /\ word[frame] => ~enabled /\ ~pending

\* What the registers hold while the thread goes through hpet_oneshot.
SetupInv ==
  ~dirty =>
    /\ pc \notin {"idle", "conf"} => intEnb
    /\ pc \in {"compare", "pointer", "start"} => count = 0
    /\ pc \in {"pointer", "start", "wait"} => comparator = ticks
    /\ pc \in {"start", "wait"} => ptr = frame

\* The counter is not ahead of time until it matches the comparator.
TimeInv ==
  ~dirty /\ pc = "wait" =>
    IF pending \/ word[frame] THEN ticks <= elapsed
    ELSE count <= elapsed

IInv == TypeOK /\ CallInv /\ RestInv /\ SetupInv /\ TimeInv

=============================================================================
