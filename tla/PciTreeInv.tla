----------------------------- MODULE PciTreeInv -----------------------------
(***************************************************************************)
(* The inductive invariants of the start-up (modules PciTree and Pci): of  *)
(* build_tree, where each bridge has its place in the tree, and what the   *)
(* active calls have written of it; of the driver, what it has still to    *)
(* add.                                                                    *)
(***************************************************************************)
EXTENDS Pci

\* The bridges of a set B that are on a bus, and below it.
OnBus(B, bus) == {f \in B : f.bus = bus}
Below(B, bus) == {f \in B : f.bus < bus}
NumOn(B, bus) == Cardinality(OnBus(B, bus))

\* Every bridge takes three ints: the offset of its node, and the node.  Those
\* of one bus follow those of the buses with lower numbers.
Base(B, bus) == SizeofNode + 3 * Cardinality(Below(B, bus))
Rank(B, f) == Cardinality({g \in OnBus(B, f.bus) : Before(g, f)})
Slot(B, f) == Base(B, f.bus) + Rank(B, f)
Place(B, f) == Base(B, f.bus) + NumOn(B, f.bus) + SizeofNode * Rank(B, f)

\* The bridges the calls have come to.
Entered == {bridges[p].dev : p \in 2..Len(bridges)}
Reached(bus) == bus = 0 \/ \E f \in Entered : f.sec = bus
Open(bus) == \E j \in DOMAIN calls : calls[j].bus = bus

\* The children of a call whose own calls have returned.
Passed(j) == Cardinality(calls[j].seen) - (IF j < Depth THEN 1 ELSE 0)

BridgesInv ==
  /\ bridges \in Seq([dev : machine.fns \cup {HostBridge}, busno : Nat])
  /\ bridges # <<>> /\ bridges[1].busno = 0
  /\ \A p \in 2..Len(bridges) :
       bridges[p].dev \in Bridges /\ bridges[p].busno = bridges[p].dev.sec
  /\ Len(bridges) = 1 + Cardinality(Entered)
  /\ \A f \in Entered : Reached(f.bus)

\* An active call has come to the first bridges of its bus, in their order; a
\* call that waits, waits for the last of them.
FrameInv(j) ==
  LET c == calls[j]
  IN /\ Reached(c.bus)
     /\ c.seen = OnBus(Entered, c.bus)
     /\ \A g \in c.seen, h \in OnBus(Bridges, c.bus) \ c.seen : Before(g, h)
     /\ c.child = c.offset + NumOn(Bridges, c.bus) + Passed(j)
     /\ c.offset - Passed(j) <= Base(Bridges, c.bus)
     /\ j < Depth =>
          \E f \in c.seen : /\ f.sec = calls[j + 1].bus
                            /\ \A g \in c.seen \ {f} : Before(g, f)

Frames == [bus : Nat, offset : Nat, child : Nat, seen : SUBSET Bridges]

CallsInv ==
  /\ calls \in Seq(Frames)
  /\ calls # <<>> => calls[1].bus = 0
  /\ \A j, k \in DOMAIN calls : j < k => calls[j].bus < calls[k].bus
  /\ \A j \in DOMAIN calls : FrameInv(j)
  /\ \A bus \in Nat :
       Reached(bus) => Open(bus) \/ OnBus(Bridges, bus) \subseteq Entered

\* No int is written beyond the last one.
DomainInv == DOMAIN tree \subseteq 0..(1 + 3 * Cardinality(Bridges))

Holds(off, v) == off \in DOMAIN tree /\ tree[off] = v

\* A bridge that has been come to: its offset, its number and, when the call
\* for the bus behind it has returned, how many bridges are there.
NodeInv(f) ==
  /\ Holds(Slot(Bridges, f), Place(Bridges, f))
  /\ \E p \in 2..Len(bridges) :
       bridges[p].dev = f /\ Holds(Place(Bridges, f) + OffsetBridge, p - 1)
  /\ Open(f.sec) \/ Holds(Place(Bridges, f) + OffsetNumChild,
                          NumOn(Bridges, f.sec))

\* On a machine without nested bridges every call begins where its bus has its
\* place.
TreeInv ==
  /\ \A j \in DOMAIN calls :
       OnBus(Bridges, calls[j].bus) # {} =>
         calls[j].offset = Base(Bridges, calls[j].bus) + Passed(j)
  /\ Holds(OffsetBridge, 0)
  /\ \A f \in Entered : NodeInv(f)
  /\ calls = <<>> => Holds(OffsetNumChild, NumOn(Bridges, 0))

BuildInv ==
  /\ machine \in Machines
  /\ BridgesInv
  /\ CallsInv
  /\ DomainInv
  /\ ~Nested => TreeInv

-----------------------------------------------------------------------------
(* The driver on a wired machine.                                          *)

\* A bridge has been given the table of its bus or none, and one of the
\* bridges to each bus of the machine has been given it.
RoutedInv ==
  /\ DOMAIN tables = DOMAIN bridges
  /\ \A p \in DOMAIN tables :
       tables[p] # <<>> => /\ bridges[p].busno \in DOMAIN machine.prt
                           /\ tables[p] = machine.prt[bridges[p].busno]
  /\ \A b \in DOMAIN machine.prt :
       (b = 0 \/ \E f \in Bridges : f.sec = b) =>
         \E p \in DOMAIN tables :
           bridges[p].busno = b /\ tables[p] = machine.prt[b]

\* A line that has a handler is delivered.
UnmaskedInv ==
  /\ \A q \in PciIrqs : num[q] > 0 => q \in routed
  /\ tpc = "count" => add.irq \in routed

Adding == tpc \in {"store", "redirect", "count"}
Busy == IF Adding THEN 1 ELSE 0

\* Each listed line has its handler, or is being added, or is still to add; no
\* line gets more than the four that are added.
DriverInv ==
  /\ tpc \notin {"reset", "undefined"}
  /\ phase \notin {"undefined", "failed"}
  /\ phase \in {"build", "search"} =>
       tpc = "idle" /\ \A q \in PciIrqs : num[q] = 0
  /\ phase = "search" => calls = <<>> /\ RoutedInv
  /\ phase = "register" =>
       /\ todo \in Seq(PciIrqs)
       /\ \A q \in PciIrqs : num[q] + Len(todo) + Busy <= 4
       /\ \A q \in Listed : \/ num[q] > 0
                            \/ \E j \in DOMAIN todo : todo[j] = q
                            \/ Adding /\ add.irq = q
  /\ phase = "running" => tpc = "idle" /\ \A q \in Listed : num[q] > 0

=============================================================================
