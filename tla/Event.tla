------------------------------- MODULE Event --------------------------------
(***************************************************************************)
(* kernel/event.c: wait_event, the only way a thread of this kernel blocks.*)
(* The thread tests the event word, arms the monitor hardware on it, tests *)
(* it again and executes mwait.  Interrupt handlers set bits of the word   *)
(* at any moment, on the same processor or on another one.                 *)
(*                                                                         *)
(* The monitor hardware is external.  As event.c uses it: monitor arms it, *)
(* a store to the monitored line or an interrupt disarms it, and mwait     *)
(* halts only while it is armed; the event that disarms it ends the halt.  *)
(***************************************************************************)

CONSTANT Bits       \* the bits of an event word that are in use

VARIABLES
  ready,            \* *ready_ptr, as the set of its bits that are set
  due,              \* bits whose operation has been started, not completed
  pc,               \* where the thread is in wait_event
  mask,             \* argument mask
  isAny,            \* argument is_any
  r,                \* local r, the value returned
  armed             \* the monitor hardware

vars == <<ready, due, pc, mask, isAny, r, armed>>

PCs == {"idle", "test", "monitor", "retest", "mwait", "asleep"}

TypeOK ==
  /\ ready \in SUBSET Bits
  /\ due \in SUBSET Bits
  /\ due \cap ready = {}
  /\ pc \in PCs
  /\ mask \in SUBSET Bits
  /\ isAny \in BOOLEAN
  /\ r \in SUBSET Bits
  /\ armed \in BOOLEAN

Init ==
  /\ ready = {}
  /\ due = {}
  /\ pc = "idle"
  /\ mask = {}
  /\ isAny = TRUE
  /\ r = {}
  /\ armed = FALSE

\* Mutants: the tests compare the whole word with the mask, or forget the mask.
SatisfiedExactly(v) == v = mask
SatisfiedByAny(v) == v # {}

\* m = r & mask, and the two tests on it.
Satisfied(v) == IF isAny THEN v \cap mask # {} ELSE mask \subseteq v

-----------------------------------------------------------------------------
(* The callers, all in main.c, wait.c and bench.c.                         *)

\* Start an operation that will set bit b of the event word.
Start(b) ==
  /\ pc = "idle"
  /\ b \notin ready \cup due
  /\ due' = due \cup {b}
  /\ UNCHANGED <<ready, pc, mask, isAny, r, armed>>

\* __sync_and_and_fetch(&done, ~b) once the bit has been seen.
Clear(b) ==
  /\ pc = "idle"
  /\ ready' = ready \ {b}
  /\ armed' = FALSE
  /\ UNCHANGED <<due, pc, mask, isAny, r>>

\* wait_event_any(&ready, m) or wait_event_all(&ready, m).
Call(m, any) ==
  /\ pc = "idle"
  /\ m # {}
  /\ m \subseteq ready \cup due
  /\ mask' = m
  /\ isAny' = any
  /\ pc' = "test"
  /\ UNCHANGED <<ready, due, r, armed>>

-----------------------------------------------------------------------------
(* wait_event.                                                             *)

\* Read the word and return it if it satisfies the mask.
Load(here, otherwise) ==
  /\ pc = here
  /\ r' = ready
  /\ pc' = IF Satisfied(ready) THEN "idle" ELSE otherwise
  /\ UNCHANGED <<ready, due, mask, isAny, armed>>

Test == Load("test", "monitor")

Monitor ==
  /\ pc = "monitor"
  /\ armed' = TRUE
  /\ pc' = "retest"
  /\ UNCHANGED <<ready, due, mask, isAny, r>>

\* Mutant: the word is not read again after the monitor.
NoRetest ==
  /\ pc = "retest"
  /\ pc' = "mwait"
  /\ UNCHANGED <<ready, due, mask, isAny, r, armed>>

\* After lfence: the second read cannot move before the monitor.
Retest == Load("retest", "mwait")

Mwait ==
  /\ pc = "mwait"
  /\ pc' = IF armed THEN "asleep" ELSE "test"
  /\ UNCHANGED <<ready, due, mask, isAny, r, armed>>

-----------------------------------------------------------------------------
(* Interrupts.                                                             *)

\* The event that disarms the monitor ends the halt, if there is one.
Disarm ==
  /\ armed' = FALSE
  /\ pc' = IF pc = "asleep" THEN "test" ELSE pc

\* Mutant: the handler does not end the operation, and completes it again.
SignalAgain(b) ==
  /\ b \in due
  /\ ready' = ready \cup {b}
  /\ Disarm
  /\ UNCHANGED <<due, mask, isAny, r>>

\* A handler completes an operation: *ready_ptr |= b.
Signal(b) ==
  /\ b \in due
  /\ ready' = ready \cup {b}
  /\ due' = due \ {b}
  /\ Disarm
  /\ UNCHANGED <<mask, isAny, r>>

\* Any other interrupt, or a store to another variable of the same line.
Disturb ==
  /\ armed
  /\ Disarm
  /\ UNCHANGED <<ready, due, mask, isAny, r>>

-----------------------------------------------------------------------------

Thread == Test \/ Monitor \/ Retest \/ Mwait

Next ==
  \/ \E b \in Bits : Start(b) \/ Clear(b) \/ Signal(b)
  \/ \E m \in SUBSET Bits, any \in BOOLEAN : Call(m, any)
  \/ Test \/ Monitor \/ Retest \/ Mwait
  \/ Disturb

(***************************************************************************)
(* The processor goes on executing the thread, and a device that has been  *)
(* given an operation completes it.  Nothing makes Disturb happen.         *)
(***************************************************************************)
Fairness ==
  /\ WF_vars(Thread)
  /\ \A b \in Bits : WF_vars(Signal(b))

Spec == Init /\ [][Next]_vars /\ Fairness

-----------------------------------------------------------------------------
(* Properties.                                                             *)

\* No lost wakeup: the processor is never halted in mwait while the event
\* word already satisfies the mask (event.c:21-35, the test between monitor
\* and mwait).
NoLostWakeup == pc = "asleep" => ~Satisfied(ready)

\* Why: between the second test and the halt, a store that would satisfy the
\* mask has disarmed the monitor.
ArmedUnsatisfied ==
  pc \in {"mwait", "asleep"} /\ armed => ~Satisfied(ready)

AsleepArmed == pc = "asleep" => armed

\* The inductive invariant.
IInv == TypeOK /\ ArmedUnsatisfied /\ AsleepArmed

\* A call of wait_event with bits of started operations returns, however the
\* handlers interleave with the five steps of its loop.
WaitReturns == pc = "test" ~> pc = "idle"

\* wait_event implements the atomic wait of module Await, returning only when
\* the mask is satisfied and always when it stays satisfied.
Abstract == INSTANCE Await WITH waiting <- pc # "idle"
ImplementsAwait == Abstract!Spec

=============================================================================
