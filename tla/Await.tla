------------------------------- MODULE Await --------------------------------
(***************************************************************************)
(* What kernel/event.h promises: a thread hands an event word to one or    *)
(* more asynchronous operations, each of which will set its own bit, and   *)
(* then blocks until any, or all, of the bits of a mask are set.  Blocking *)
(* is atomic here; how wait_event gets there with monitor and mwait is     *)
(* module Event.                                                           *)
(***************************************************************************)

CONSTANT Bits       \* the bits of an event word that are in use

VARIABLES
  ready,            \* the event word, as the set of its bits that are set
  due,              \* bits of the operations that have not completed yet
  waiting,          \* the thread is inside wait_event_any / wait_event_all
  mask,             \* the mask argument of the current call
  isAny             \* the is_any argument of the current call

vars == <<ready, due, waiting, mask, isAny>>

\* The test of event.c, on a value v of the event word.
Satisfied(v, m, any) == IF any THEN v \cap m # {} ELSE m \subseteq v

Init ==
  /\ ready = {}
  /\ due = {}
  /\ waiting = FALSE
  /\ mask = {}
  /\ isAny = TRUE

\* The thread starts an operation that will set bit b.
Start(b) ==
  /\ ~waiting
  /\ b \notin ready \cup due
  /\ due' = due \cup {b}
  /\ UNCHANGED <<ready, waiting, mask, isAny>>

\* The interrupt handler of that operation completes it.
Signal(b) ==
  /\ b \in due
  /\ ready' = ready \cup {b}
  /\ due' = due \ {b}
  /\ UNCHANGED <<waiting, mask, isAny>>

\* The thread clears a bit it has seen.
Clear(b) ==
  /\ ~waiting
  /\ ready' = ready \ {b}
  /\ UNCHANGED <<due, waiting, mask, isAny>>

\* The thread calls wait_event with bits it has operations for.
Call(m, any) ==
  /\ ~waiting
  /\ m # {}
  /\ m \subseteq ready \cup due
  /\ waiting' = TRUE
  /\ mask' = m
  /\ isAny' = any
  /\ UNCHANGED <<ready, due>>

\* The call returns: only when its condition holds.
Return ==
  /\ waiting
  /\ Satisfied(ready, mask, isAny)
  /\ waiting' = FALSE
  /\ UNCHANGED <<ready, due, mask, isAny>>

Next ==
  \/ \E b \in Bits : Start(b) \/ Signal(b) \/ Clear(b)
  \/ \E m \in SUBSET Bits, any \in BOOLEAN : Call(m, any)
  \/ Return

\* A call whose condition holds, and goes on holding, returns.
Spec == Init /\ [][Next]_vars /\ WF_vars(Return)

=============================================================================
