------------------------------ MODULE PciTree -------------------------------
(***************************************************************************)
(* kernel/pci.c: pci_init.  A machine is the set of its PCI functions and, *)
(* for each bus, what ACPI says of its interrupts.  From it pci_init makes *)
(* the list of devices and a tree of bridges, laid out in an array of      *)
(* ints; the interrupts of a device are looked up through that tree.       *)
(***************************************************************************)
EXTENDS Integers, Sequences, FiniteSets, SequencesExt

CONSTANTS
  NumBus,           \* nr_bus: the scan covers the buses 0..(NumBus - 1)
  AnyFn,            \* 0xffff, any function of a device
  Machines          \* each with fns, prt, and nic, the function of the card
                    \* with its pin

\* A function f of a machine: f.bus, f.dev, f.fn, its kind ("host", "bridge",
\* "nic" or "other"), f.multi, the flag of a multi-function device, and f.sec,
\* the secondary bus of a bridge.
Addr(f) == <<f.bus, f.dev, f.fn>>
Before(f, g) ==
  \/ f.bus < g.bus
  \/ f.bus = g.bus /\ f.dev < g.dev
  \/ f.bus = g.bus /\ f.dev = g.dev /\ f.fn < g.fn

\* Function 0 is always looked at, the others if it says so.
Visible(fns, f) ==
  /\ f.bus < NumBus
  /\ f.fn # 0 => \E g \in fns : Addr(g) = <<f.bus, f.dev, 0>> /\ g.multi

IsBridge(f) == f.kind = "bridge"
BridgesOf(fns) == {f \in fns : Visible(fns, f) /\ IsBridge(f)}

\* What the firmware has numbered: a bus behind a bridge has a number of its
\* own, above that of the bus the bridge is on, and every bus but 0 is behind
\* a bridge.  There is a host bridge (pci.c:391-394 does not test that).
Numbered(fns) ==
  /\ IsFiniteSet(fns)
  /\ \A f \in fns :
       /\ f.bus \in Nat /\ f.dev \in Nat /\ f.fn \in Nat
       /\ IsBridge(f) => f.sec \in Nat /\ f.bus < f.sec
  /\ \A f, g \in fns : Addr(f) = Addr(g) => f = g
  /\ \A f, g \in BridgesOf(fns) : f.sec = g.sec => f = g
  /\ \A f \in fns :
       Visible(fns, f) =>
         f.bus = 0 \/ \E g \in BridgesOf(fns) : g.sec = f.bus
  /\ \E f \in fns : Visible(fns, f) /\ f.kind = "host"

ASSUME PciAssumption ==
  /\ NumBus \in Nat
  /\ \A m \in Machines : Numbered(m.fns)

VARIABLES
  machine,
  tree,             \* pci->tree: the ints that have been written
  bridges,          \* pci->bridges
  calls,            \* the active calls of build_tree
  tables            \* for each bridge, the entries of its interrupt table

treeVars == <<machine, tree, bridges, calls, tables>>

\* pci->devices; the scan finds them in the order of their addresses.
Devs == {f \in machine.fns : Visible(machine.fns, f)}
Bridges == BridgesOf(machine.fns)
IsFirst(f, S) == f \in S /\ \A g \in S : ~Before(g, f)

\* The bridges on a bus.
Kids(bus) == {f \in Bridges : f.bus = bus}

Hosts == {f \in Devs : f.kind = "host"}
HostBridge == CHOOSE f \in Hosts : \A g \in Hosts : ~Before(f, g)
NumBridge == Cardinality(Bridges \cup Hosts)

\* A node: its bridge, the number of its children, and then their offsets.
SizeofNode == 2
OffsetBridge == 0
OffsetNumChild == 1

\* Mutant: the offsets of the children are forgotten.
TreeSizeNodes == NumBridge * SizeofNode

\* What pci_init allocates for the tree.
TreeSize == NumBridge * SizeofNode + NumBridge - 1

-----------------------------------------------------------------------------
(* build_tree.                                                             *)

Put(t, off, v) ==
  [o \in DOMAIN t \cup {off} |-> IF o = off THEN v ELSE t[o]]

\* Mutant: the children's nodes begin where their offsets do.
FirstChildEarly(offset, numChild) == offset

FirstChild(offset, numChild) == offset + numChild

\* An active call: its arguments cur_bus and offset, its child_offset, and the
\* bridges its loop has come to.
Enter(bus, offset) ==
  [bus |-> bus, offset |-> offset,
   child |-> FirstChild(offset, Cardinality(Kids(bus))), seen |-> {}]

Depth == Len(calls)
Top == calls[Depth]
ToSee == Kids(Top.bus) \ Top.seen

\* Bridge 0 is the root; bridges are numbered from 0, sequences from 1.
TreeInit ==
  /\ machine \in Machines
  /\ tree = [o \in {0} |-> 0]
  /\ bridges = <<[dev |-> HostBridge, busno |-> 0]>>
  /\ calls = <<Enter(0, SizeofNode)>>
  /\ tables = <<>>

\* The loop comes to a bridge of its bus and calls build_tree for the bus
\* behind it.
EnterChild ==
  /\ calls # <<>>
  /\ \E f \in ToSee :
        /\ IsFirst(f, ToSee)
        /\ tree' = Put(Put(tree, Top.offset, Top.child),
                       Top.child + OffsetBridge, Len(bridges))
        /\ bridges' = Append(bridges, [dev |-> f, busno |-> f.sec])
        /\ calls' = Append([calls EXCEPT ![Depth].seen = @ \cup {f}],
                           Enter(f.sec, Top.child + SizeofNode))
  /\ UNCHANGED <<machine, tables>>

\* The call for a bus behind a bridge returns.
ReturnFromChild ==
  /\ Depth > 1
  /\ ToSee = {}
  /\ tree' = Put(tree, calls[Depth - 1].child + OffsetNumChild,
                 Cardinality(Top.seen))
  /\ calls' = [SubSeq(calls, 1, Depth - 1) EXCEPT
                 ![Depth - 1].child = @ + SizeofNode,
                 ![Depth - 1].offset = @ + 1]
  /\ UNCHANGED <<machine, bridges, tables>>

\* The call pci_init has made returns.
BuildEnd ==
  /\ Depth = 1
  /\ ToSee = {}
  /\ tree' = Put(tree, OffsetNumChild, Cardinality(Top.seen))
  /\ calls' = <<>>
  /\ UNCHANGED <<machine, bridges, tables>>

BuildTree == EnterChild \/ ReturnFromChild \/ BuildEnd

-----------------------------------------------------------------------------
(* The tree as its readers walk it.                                        *)

At(off) == IF off \in DOMAIN tree THEN tree[off] ELSE 0
Known(off) == At(off + OffsetBridge) + 1 \in DOMAIN bridges
BridgeAt(off) == bridges[At(off + OffsetBridge) + 1]

\* The offset of the k-th child, from 0.
ChildAt(off, k) == At(off + SizeofNode + k)
ChildrenAt(off) == {ChildAt(off, k) : k \in 0..(At(off + OffsetNumChild) - 1)}

\* lspci_tree0: the nodes at each depth below the root, and the edges to them;
\* a node whose bridge does not exist shows as bus -1.
Edges ==
  LET level[d \in 0..NumBus] ==
        IF d = 0 THEN {0} ELSE UNION {ChildrenAt(o) : o \in level[d - 1]}
  IN UNION {UNION {{IF Known(o) /\ Known(k)
                    THEN <<BridgeAt(o).busno, BridgeAt(k).dev>>
                    ELSE <<-1, k>> : k \in ChildrenAt(o)} : o \in level[d]} :
              d \in 0..(NumBus - 1)}

\* The same device and function, on whatever bus.
SameAddr(d, e) == d.dev = e.dev /\ d.fn = e.fn

\* acpi_handle_to_bridge: the node of the bridge to a bus, found by the
\* addresses on the way to it; the empty set if the tree has none.
NodeOf(b) ==
  LET node[bus \in 0..b] ==
        IF bus = 0 THEN {0}
        ELSE UNION {UNION {{o \in ChildrenAt(up) : SameAddr(BridgeAt(o).dev, f)} :
                             up \in node[f.bus]} :
                      f \in {g \in machine.fns : IsBridge(g) /\ g.sec = bus}}
  IN node[b]

-----------------------------------------------------------------------------
(* Interrupts.                                                             *)

\* assign_irq: a row of the interrupt table begins at each change of the
\* address, and holds the run of entries up to the next.
Starts(prt) == {k \in DOMAIN prt : k > 1 => ~SameAddr(prt[k - 1], prt[k])}
Run(prt, k) ==
  {j \in DOMAIN prt : j >= k /\ \A e \in k..j : SameAddr(prt[k], prt[e])}

\* Mutant: pins are taken to be numbered from 1, as the card numbers them.
IrqOfFromOne(prt, k, pin) ==
  LET own == {j \in Run(prt, k) : prt[j].pin = pin + 1}
  IN IF own = {} THEN -1 ELSE prt[Max(own)].irq

\* The interrupt of a pin in the row that begins at k; -1 if it is not listed.
IrqOf(prt, k, pin) ==
  LET own == {j \in Run(prt, k) : prt[j].pin = pin}
  IN IF own = {} THEN -1 ELSE prt[Max(own)].irq

\* Each bridge is given the entries of its bus; one that has none keeps what
\* its memory holds, taken as zero.
AssignIrqs ==
  /\ tables' =
       [p \in DOMAIN bridges |->
          LET given == {b \in DOMAIN machine.prt :
                          \E o \in NodeOf(b) : At(o + OffsetBridge) = p - 1}
          IN IF given = {} THEN <<>>
             ELSE machine.prt[CHOOSE b \in given : TRUE]]
  /\ UNCHANGED <<machine, tree, bridges, calls>>

Matches(e, f) == e.dev = f.dev /\ e.fn \in {AnyFn, f.fn}

\* find_pci_irq_table: the first row for f, as the number of its bridge and of
\* the entry it begins at; the empty set if there is none.
RowsFor(f) ==
  UNION {{<<p, k>> : k \in {e \in Starts(tables[p]) : Matches(tables[p][e], f)}} :
           p \in {q \in DOMAIN tables : bridges[q].busno = f.bus}}
FindIrqTable(f) ==
  {row \in RowsFor(f) :
     \A r \in RowsFor(f) :
       row[1] < r[1] \/ (row[1] = r[1] /\ row[2] <= r[2])}

=============================================================================
