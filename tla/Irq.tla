-------------------------------- MODULE Irq ---------------------------------
(***************************************************************************)
(* kernel/irq.c: sharing of the level-triggered PCI interrupt lines.       *)
(* Drivers add handlers while interrupts are enabled; pci_irq calls every  *)
(* handler of a line, each of which makes its own device lower the line.   *)
(* Both run on processor 0, pci_irq with interrupts disabled.              *)
(*                                                                         *)
(* Devices and interrupt controllers are external: a line is up while one  *)
(* of the devices wired to it raises it, and an interrupt is delivered     *)
(* again after each end of interrupt while the line is still up.           *)
(***************************************************************************)
EXTENDS Integers

CONSTANTS
  PciIrqs,          \* PCI_IRQ_BEGIN..(PCI_IRQ_MAX - 1)
  MaxHandlers,      \* PCI_IRQ_DEV_MAX
  Devices,
  None

ASSUME IrqAssumption ==
  /\ PciIrqs \subseteq Nat
  /\ MaxHandlers \in Nat \ {0}
  /\ None \notin Devices

VARIABLES
  handlers,         \* pci_irq_handlers and irq_handler_data
  num,              \* pci_irq_num_handler
  routed,           \* lines the IO APIC delivers
  wire,             \* the line of each device
  raised,           \* the devices that raise their line
  tpc, add,         \* the thread in pci_irq_add: irq, device, local n
  hpc, hirq, i, n   \* pci_irq, its argument and its locals

table == <<handlers, num, routed>>
adding == <<tpc, add>>
dispatch == <<hpc, hirq, i, n>>
irqVars == <<table, wire, raised, adding, dispatch>>

Slots == 0..(MaxHandlers - 1)
NoAdd == [irq |-> -1, dev |-> None, n |-> 0]

IrqTypeOK ==
  /\ handlers \in [PciIrqs -> [Slots -> Devices \cup {None}]]
  /\ num \in [PciIrqs -> 0..MaxHandlers]
  /\ routed \subseteq PciIrqs
  /\ raised \subseteq Devices
  /\ tpc \in {"idle", "store", "redirect", "count", "reset", "undefined"}
  /\ tpc \in {"store", "redirect", "count"} =>
       add.irq \in PciIrqs /\ add.n \in Slots
  /\ hpc \in {"off", "loop"}
  /\ hpc = "loop" => hirq \in PciIrqs /\ i \in 0..n /\ n \in 0..MaxHandlers

\* pci_irq_init; nothing is routed yet.
IrqInit ==
  /\ handlers = [q \in PciIrqs |-> [k \in Slots |-> None]]
  /\ num = [q \in PciIrqs |-> 0]
  /\ routed = {}
  /\ raised = {}
  /\ tpc = "idle"
  /\ add = NoAdd
  /\ hpc = "off"
  /\ hirq = -1
  /\ i = 0
  /\ n = 0

-----------------------------------------------------------------------------
(* pci_irq_add.                                                            *)

Step(from, to) == hpc = "off" /\ tpc = from /\ tpc' = to

\* What the tests of pci_irq_add lead to.  A line below the PCI lines or with
\* all its handlers resets the machine.  One above them is assumed not to be
\* asked for (irq.c:26) and not tested: what is beyond the arrays may look like
\* a full line, and is otherwise overwritten, and nothing is defined then.
Tested(irq) ==
  IF irq \in PciIrqs
  THEN IF num[irq] < MaxHandlers THEN {"store"} ELSE {"reset"}
  ELSE IF \A q \in PciIrqs : irq < q THEN {"reset"} ELSE {"reset", "undefined"}

\* The count is read and the arguments are tested.
Add(irq, d) ==
  /\ hpc = "off" /\ tpc = "idle"
  /\ tpc' \in Tested(irq)
  /\ add' = [irq |-> irq, dev |-> d,
             n |-> IF irq \in PciIrqs THEN num[irq] ELSE 0]
  /\ UNCHANGED <<table, wire, raised, dispatch>>

\* Mutant: the slot is counted and not filled.
CountOnly ==
  /\ Step("store", IF add.n = 0 THEN "redirect" ELSE "count")
  /\ num' = [num EXCEPT ![add.irq] = add.n + 1]
  /\ UNCHANGED <<handlers, routed, wire, raised, add, dispatch>>

StoreHandler ==
  /\ Step("store", IF add.n = 0 THEN "redirect" ELSE "count")
  /\ handlers' = [handlers EXCEPT ![add.irq][add.n] = add.dev]
  /\ UNCHANGED <<num, routed, wire, raised, add, dispatch>>

\* The first handler of a line unmasks it.
Redirect ==
  /\ Step("redirect", "count")
  /\ routed' = routed \cup {add.irq}
  /\ UNCHANGED <<handlers, num, wire, raised, add, dispatch>>

Count ==
  /\ Step("count", "idle")
  /\ num' = [num EXCEPT ![add.irq] = add.n + 1]
  /\ add' = NoAdd
  /\ UNCHANGED <<handlers, routed, wire, raised, dispatch>>

AddNext == StoreHandler \/ Redirect \/ Count

-----------------------------------------------------------------------------
(* pci_irq and the devices.                                                *)

\* Mutant: the loop begins behind the first handler.
InterruptFromSecond(irq) ==
  /\ hpc = "off"
  /\ irq \in routed
  /\ \E d \in raised : wire[d] = irq
  /\ hpc' = "loop"
  /\ hirq' = irq
  /\ i' = IF num[irq] = 0 THEN 0 ELSE 1
  /\ n' = num[irq]
  /\ UNCHANGED <<table, wire, raised, adding>>

Interrupt(irq) ==
  /\ hpc = "off"
  /\ irq \in routed
  /\ \E d \in raised : wire[d] = irq
  /\ hpc' = "loop"
  /\ hirq' = irq
  /\ i' = 0
  /\ n' = num[irq]
  /\ UNCHANGED <<table, wire, raised, adding>>

\* One handler: its device, if it has raised the line, lowers it.
CallHandler ==
  /\ hpc = "loop"
  /\ i < n
  /\ raised' = raised \ {handlers[hirq][i]}
  /\ i' = i + 1
  /\ UNCHANGED <<table, wire, adding, hpc, hirq, n>>

EndOfInterrupt ==
  /\ hpc = "loop"
  /\ i = n
  /\ hpc' = "off"
  /\ hirq' = -1
  /\ i' = 0
  /\ n' = 0
  /\ UNCHANGED <<table, wire, raised, adding>>

Raise(d) ==
  /\ d \notin raised
  /\ raised' = raised \cup {d}
  /\ UNCHANGED <<table, wire, adding, dispatch>>

DispatchNext == CallHandler \/ EndOfInterrupt

\* The thread goes on although a line that is up, and has no counted handler
\* yet, interrupts it again and again: a delivery takes longer than an
\* instruction.
IrqFairness ==
  /\ SF_irqVars(AddNext)
  /\ \A irq \in PciIrqs : SF_irqVars(Interrupt(irq))
  /\ WF_irqVars(DispatchNext)

\* pci_irq never calls through an empty slot, wherever it interrupts
\* pci_irq_add (irq.c:37-47, 59-61), unless that wrote beyond the arrays.
CalledIsStored ==
  hpc = "loop" /\ i < n /\ tpc # "undefined" => handlers[hirq][i] # None

-----------------------------------------------------------------------------
(* Any driver may add a handler of its device for any line, legal or not,  *)
(* at any time.                                                            *)

IrqNext ==
  \/ \E irq \in Int, d \in Devices : Add(irq, d)
  \/ AddNext
  \/ \E irq \in PciIrqs : Interrupt(irq)
  \/ DispatchNext
  \/ \E d \in Devices : Raise(d)

IrqSpec == IrqInit /\ [][IrqNext]_irqVars

\* The slots below the count are filled, and the slot being added is the first
\* one that is not counted; an interrupt sees the count between two adds.
FilledInv ==
  /\ \A q \in PciIrqs, k \in Slots : k < num[q] => handlers[q][k] # None
  /\ tpc \in {"store", "redirect", "count"} =>
       add.n = num[add.irq] /\ add.dev \in Devices
  /\ tpc \in {"redirect", "count"} => handlers[add.irq][add.n] # None
  /\ hpc = "loop" => n = num[hirq]

=============================================================================
