-------------------------------- MODULE Pci ---------------------------------
(***************************************************************************)
(* The way of an interrupt: pci_init (kernel/pci.c) reads from the machine *)
(* how it is wired, r8169_init (kernel/net/r8169.c) looks its device up    *)
(* and adds its handler for all four pins, and pci_irq (module Irq)        *)
(* dispatches.  Interrupts are enabled all the time, and the card may      *)
(* raise its line before the driver has reset it.                          *)
(***************************************************************************)
EXTENDS Irq, PciTree

Nic == "nic"
ASSUME NicAssumption ==
  /\ Devices = {Nic}
  /\ MaxHandlers >= 4
  /\ \A m \in Machines :
       /\ {f \in m.fns : f.kind = "nic"} = {m.nic}
       /\ DOMAIN m.prt \subseteq Nat
       /\ \A b \in DOMAIN m.prt :
            m.prt[b] \in
              Seq([dev : Nat, fn : Nat, pin : 0..3, irq : Nat])

VARIABLES
  phase,            \* how far pci_init and r8169_init have come
  todo              \* the interrupts r8169_init has still to add

pciVars == <<irqVars, treeVars, phase, todo>>

\* What the tree should hold: every bridge below the bus it is on.
Wiring == {<<f.bus, f>> : f \in Bridges}
Faithful == Edges = Wiring

PciTypeOK ==
  /\ IrqTypeOK
  /\ DOMAIN tree \subseteq 0..(TreeSize - 1)
  /\ Len(bridges) <= NumBridge
  /\ phase \in {"build", "undefined", "search", "failed", "register",
               "running"}
  /\ todo \in Seq(Nat \cup {-1})

PciInit ==
  /\ IrqInit
  /\ TreeInit
  /\ wire = [d \in Devices |-> machine.line]
  /\ phase = "build"
  /\ todo = <<>>

\* pci_init builds the tree; nothing has been routed yet.
Build ==
  /\ phase = "build"
  /\ BuildTree
  /\ UNCHANGED <<irqVars, phase, todo>>

\* pci_init goes on to the interrupts.  What is done with a tree whose nodes
\* overlap is undefined.
Built ==
  /\ phase = "build"
  /\ calls = <<>>
  /\ \/ Faithful /\ phase' = "search" /\ AssignIrqs
     \/ ~Faithful /\ phase' = "undefined" /\ UNCHANGED treeVars
  /\ UNCHANGED <<irqVars, todo>>

\* r8169_init up to its calls of pci_irq_add: the table of the first card.
Cards == {f \in Devs : f.kind = "nic"}
Rows == UNION {FindIrqTable(f) : f \in {c \in Cards : IsFirst(c, Cards)}}
LookUp ==
  /\ phase = "search"
  /\ \/ Rows = {} /\ phase' = "failed" /\ todo' = <<>>
     \/ \E row \in Rows :
          /\ phase' = "register"
          /\ todo' = [pin \in 1..4 |-> IrqOf(tables[row[1]], row[2], pin - 1)]
  /\ UNCHANGED <<irqVars, treeVars>>

Register ==
  /\ phase = "register"
  /\ todo # <<>>
  /\ Add(Head(todo), Nic)
  /\ todo' = Tail(todo)
  /\ UNCHANGED <<treeVars, phase>>

Registered ==
  /\ phase = "register"
  /\ todo = <<>>
  /\ hpc = "off"
  /\ tpc = "idle"
  /\ phase' = "running"
  /\ UNCHANGED <<irqVars, treeVars, todo>>

Cmain == Build \/ Built \/ LookUp \/ Register \/ Registered

Dispatch ==
  /\ \/ AddNext
     \/ \E irq \in PciIrqs : Interrupt(irq)
     \/ DispatchNext
     \/ \E d \in Devices : Raise(d)
  /\ UNCHANGED <<treeVars, phase, todo>>

PciNext == Cmain \/ Dispatch

PciSpec == PciInit /\ [][PciNext]_pciVars /\ IrqFairness /\ SF_pciVars(Cmain)

-----------------------------------------------------------------------------
(* Properties.                                                             *)

\* A bridge that has bridges behind it, and a bridge after it on its own bus.
Nested ==
  \E f, g, h \in Bridges :
    g.bus = f.sec /\ h.bus = f.bus /\ Before(f, h)

\* The tree holds every bridge below the bus it is on, except on machines
\* where a bridge follows one that has bridges behind it (pci.c:221).
TreeUnlessNested == calls = <<>> /\ ~Nested => Faithful

\* The table that ACPI lists for the card's bus, and the entries of the card.
NicPrt == machine.prt[machine.nic.bus]
Own == {j \in DOMAIN NicPrt : /\ NicPrt[j].dev = machine.nic.dev
                              /\ NicPrt[j].fn \in {AnyFn, machine.nic.fn}}

\* The machines on which the driver can be expected to find its interrupts:
\* ACPI lists all four pins of the card's device for its bus, one after the
\* other (assign_irq begins a new row at each change of the address), and gives
\* them lines that pci_irq_add takes.
Wired ==
  /\ ~Nested
  /\ Visible(machine.fns, machine.nic)
  /\ machine.nic.bus \in DOMAIN machine.prt
  /\ \E k \in DOMAIN NicPrt :
       /\ Own = k..(k + 3)
       /\ {NicPrt[j].pin : j \in Own} = 0..3
       /\ \A j \in Own :
            NicPrt[j].fn = NicPrt[k].fn /\ NicPrt[j].irq \in PciIrqs

\* On such a machine r8169_init succeeds, whatever interrupts it: it finds the
\* lines through the tree and the routing tables and is not reset, and when it
\* returns each of them is delivered and has the card's handler
\* (pci.c:113-163, 563-593, r8169.c:292-311, irq.c:26-47).
Listed == {NicPrt[j].irq : j \in Own}
DriverReady ==
  Wired =>
    /\ phase \notin {"undefined", "failed"}
    /\ tpc \notin {"reset", "undefined"}
    /\ phase = "running" =>
         \A q \in Listed : q \in routed /\ num[q] > 0 /\ handlers[q][0] = Nic

\* On such a machine an interrupt of the card, whenever it is raised, reaches
\* its handler: the scan, the tree, the routing tables, the registration and
\* the dispatch together.
InterruptServed == Nic \in raised /\ Wired ~> Nic \notin raised

=============================================================================
