--------------------------- MODULE InterruptProofs ---------------------------
(***************************************************************************)
(* Proofs about waiting for interrupts and about their way to the driver:  *)
(*  - wait_event (module Event), for every set of event bits.  IInv is     *)
(*    inductive as it stands: besides typing it says that a processor      *)
(*    between its second test and the end of its halt either has an        *)
(*    unsatisfied mask or a monitor that a handler has already disarmed;   *)
(*  - the sharing of interrupt lines (module Irq), for every number of     *)
(*    lines, handlers and devices;                                         *)
(*  - the start-up of PCI (modules PciTree and Pci), for every set of      *)
(*    machines.  The inductive invariants are in PciTreeInv.               *)
(***************************************************************************)
EXTENDS Event, PciTreeInv, SequenceLemmas, SequenceTheorems,
        FiniteSetTheorems, TLAPS

\* The initial state satisfies the inductive invariant.
LEMMA InitIInv == Init => IInv
BY DEF Init, IInv, TypeOK, ArmedUnsatisfied, AsleepArmed, PCs

\* Every step of the thread, of its caller and of the handlers keeps it.
LEMMA NextIInv == IInv /\ [Next]_vars => IInv'
<1> SUFFICES ASSUME IInv, [Next]_vars PROVE IInv'
  OBVIOUS
<1> USE DEF IInv, TypeOK, ArmedUnsatisfied, AsleepArmed, PCs, Satisfied
<1>1. ASSUME NEW b \in Bits, Start(b) PROVE IInv'
  BY <1>1 DEF Start
<1>2. ASSUME NEW b \in Bits, Clear(b) PROVE IInv'
  BY <1>2 DEF Clear
<1>3. ASSUME NEW b \in Bits, Signal(b) PROVE IInv'
  BY <1>3 DEF Signal, Disarm
<1>4. ASSUME NEW m \in SUBSET Bits, NEW any \in BOOLEAN, Call(m, any)
      PROVE IInv'
  BY <1>4 DEF Call
<1>5. CASE Test
  BY <1>5 DEF Test, Load
<1>6. CASE Monitor
  BY <1>6 DEF Monitor
<1>7. CASE Retest
  BY <1>7 DEF Retest, Load
<1>8. CASE Mwait
  BY <1>8 DEF Mwait
<1>9. CASE Disturb
  BY <1>9 DEF Disturb, Disarm
<1>10. CASE UNCHANGED vars
  BY <1>10 DEF vars
<1>11. QED
  BY <1>1, <1>2, <1>3, <1>4, <1>5, <1>6, <1>7, <1>8, <1>9, <1>10 DEF Next

\* The inductive invariant of wait_event holds in every state.
THEOREM IInvariance == Spec => []IInv
BY InitIInv, NextIInv, PTL DEF Spec

\* The variables of wait_event always hold values of their types.
THEOREM TypeCorrect == Spec => []TypeOK
<1>1. IInv => TypeOK
  BY DEF IInv
<1>2. QED
  BY <1>1, IInvariance, PTL

\* wait_event never halts the processor on an event word that already
\* satisfies its mask.
THEOREM LostWakeupFree == Spec => []NoLostWakeup
<1>1. IInv => NoLostWakeup
  BY DEF IInv, ArmedUnsatisfied, AsleepArmed, NoLostWakeup
<1>2. QED
  BY <1>1, IInvariance, PTL

-----------------------------------------------------------------------------
(* Refinement of Await, without its fairness condition.                    *)

\* The two begin alike.
LEMMA InitRefines == Init => Abstract!Init
BY DEF Init, Abstract!Init

\* Each step of wait_event is a step of the atomic wait, or none at all: the
\* call returns in the step that reads a satisfied word.
LEMMA NextRefines == IInv /\ [Next]_vars => [Abstract!Next]_(Abstract!vars)
<1> SUFFICES ASSUME IInv, [Next]_vars
             PROVE [Abstract!Next]_(Abstract!vars)
  OBVIOUS
<1> USE DEF Abstract!Next, Abstract!vars
<1>1. ASSUME NEW b \in Bits, Start(b) PROVE Abstract!Start(b)
  BY <1>1 DEF Start, Abstract!Start
<1>2. ASSUME NEW b \in Bits, Clear(b) PROVE Abstract!Clear(b)
  BY <1>2 DEF Clear, Abstract!Clear
<1>3. ASSUME NEW b \in Bits, Signal(b) PROVE Abstract!Signal(b)
  BY <1>3 DEF Signal, Disarm, Abstract!Signal
<1>4. ASSUME NEW m \in SUBSET Bits, NEW any \in BOOLEAN, Call(m, any)
      PROVE Abstract!Call(m, any)
  BY <1>4 DEF Call, Abstract!Call
<1>5. ASSUME NEW here \in {"test", "retest"},
             NEW otherwise \in {"monitor", "mwait"},
             Load(here, otherwise)
      PROVE [Abstract!Return]_(Abstract!vars)
  <2>1. CASE Satisfied(ready)
    BY <1>5, <2>1 DEF Load, Satisfied, Abstract!Return, Abstract!Satisfied
  <2>2. CASE ~Satisfied(ready)
    BY <1>5, <2>2 DEF Load
  <2>3. QED
    BY <2>1, <2>2
<1>6. CASE Test
  BY <1>6, <1>5 DEF Test
<1>7. CASE Retest
  BY <1>7, <1>5 DEF Retest
<1>8. CASE Monitor \/ Mwait \/ Disturb \/ UNCHANGED vars
  BY <1>8 DEF Monitor, Mwait, Disturb, Disarm, vars
<1>9. QED
  BY <1>1, <1>2, <1>3, <1>4, <1>6, <1>7, <1>8 DEF Next

\* wait_event implements the safety part of the atomic wait: it returns only
\* when the event word satisfies the mask.
THEOREM RefinesAwait ==
  Spec => Abstract!Init /\ [][Abstract!Next]_(Abstract!vars)
BY InitRefines, NextRefines, IInvariance, PTL DEF Spec

-----------------------------------------------------------------------------
(* The sharing of PCI interrupt lines (module Irq), for every number of    *)
(* lines, handlers and devices, and for handlers added at any time, line   *)
(* after line, while the lines are up.                                     *)

\* The inductive invariant: types, and every slot below a count is filled.
IrqInv == IrqTypeOK /\ FilledInv

\* pci_irq_init leaves every slot empty.
LEMMA InitIrq == IrqInit => IrqInv
BY IrqAssumption DEF IrqInit, IrqInv, IrqTypeOK, FilledInv, Slots, NoAdd

\* A thread begins to add a handler and goes on with it.
LEMMA AddStep ==
  ASSUME IrqInv, (\E irq \in Int, d \in Devices : Add(irq, d)) \/ AddNext
  PROVE  IrqInv'
<1> USE DEF IrqInv, Step, table, adding, dispatch
<1>1. ASSUME NEW irq \in Int, NEW d \in Devices, Add(irq, d) PROVE IrqInv'
  BY <1>1, IrqAssumption DEF Add, Tested, IrqTypeOK, FilledInv, Slots
<1>2. CASE StoreHandler
  <2>1. /\ add.irq \in PciIrqs /\ add.n \in Slots /\ add.dev \in Devices
        /\ add.n = num[add.irq]
    BY <1>2 DEF StoreHandler, IrqTypeOK, FilledInv
  <2>2. IrqTypeOK'
    BY <1>2, <2>1 DEF StoreHandler, IrqTypeOK
  <2>3. FilledInv'
    BY <1>2, <2>1, IrqAssumption DEF StoreHandler, IrqTypeOK, FilledInv
  <2>4. QED
    BY <2>2, <2>3
<1>3. CASE Redirect
  BY <1>3 DEF Redirect, IrqTypeOK, FilledInv
<1>4. CASE Count
  <2>1. /\ add.irq \in PciIrqs /\ add.n \in Slots /\ add.n = num[add.irq]
        /\ handlers[add.irq][add.n] # None
    BY <1>4 DEF Count, IrqTypeOK, FilledInv
  <2>2. add.n + 1 \in 0..MaxHandlers
    BY <2>1, IrqAssumption DEF Slots
  <2>3. IrqTypeOK'
    BY <1>4, <2>1, <2>2 DEF Count, IrqTypeOK
  <2>4. FilledInv'
    <3>1. ASSUME NEW q \in PciIrqs, NEW k \in Slots, k < num'[q]
          PROVE  handlers'[q][k] # None
      BY <1>4, <2>1, <3>1, IrqAssumption
         DEF Count, IrqTypeOK, FilledInv, Slots
    <3>2. QED
      BY <1>4, <3>1 DEF Count, FilledInv
  <2>5. QED
    BY <2>3, <2>4
<1>5. QED
  BY <1>1, <1>2, <1>3, <1>4 DEF AddNext

\* An interrupt is delivered, and its handlers are called.
LEMMA DispatchStep ==
  ASSUME IrqInv,
         \/ \E irq \in PciIrqs : Interrupt(irq)
         \/ DispatchNext
         \/ \E d \in Devices : Raise(d)
  PROVE  IrqInv'
<1> USE DEF IrqInv, table, adding, dispatch
<1>1. ASSUME NEW irq \in PciIrqs, Interrupt(irq) PROVE IrqInv'
  <2>1. num[irq] \in 0..MaxHandlers /\ 0 \in 0..num[irq]
    BY IrqAssumption DEF IrqTypeOK
  <2>2. IrqTypeOK'
    BY <1>1, <2>1 DEF Interrupt, IrqTypeOK
  <2>3. FilledInv'
    BY <1>1 DEF Interrupt, FilledInv
  <2>4. QED
    BY <2>2, <2>3
<1>2. CASE CallHandler
  BY <1>2, IrqAssumption DEF CallHandler, IrqTypeOK, FilledInv
<1>3. CASE EndOfInterrupt
  BY <1>3 DEF EndOfInterrupt, IrqTypeOK, FilledInv
<1>4. ASSUME NEW d \in Devices, Raise(d) PROVE IrqInv'
  BY <1>4 DEF Raise, IrqTypeOK, FilledInv
<1>5. QED
  BY <1>1, <1>2, <1>3, <1>4 DEF DispatchNext

\* It holds while any drivers add handlers for any lines.
THEOREM IrqInvariance == IrqSpec => []IrqInv
<1>1. IrqInv /\ [IrqNext]_irqVars => IrqInv'
  <2> SUFFICES ASSUME IrqInv, [IrqNext]_irqVars PROVE IrqInv'
    OBVIOUS
  <2>1. CASE UNCHANGED irqVars
    BY <2>1 DEF irqVars, table, adding, dispatch, IrqInv, IrqTypeOK, FilledInv
  <2>2. QED
    BY <2>1, AddStep, DispatchStep DEF IrqNext
<1>2. QED
  BY <1>1, InitIrq, PTL DEF IrqSpec

\* A counted slot that pci_irq comes to is filled.
LEMMA StoredWhenFilled == IrqInv => CalledIsStored
<1>1. ASSUME IrqInv, hpc = "loop", i < n PROVE handlers[hirq][i] # None
  <2>1. /\ hirq \in PciIrqs /\ i \in 0..n /\ n \in 0..MaxHandlers
        /\ n = num[hirq]
    BY <1>1 DEF IrqInv, IrqTypeOK, FilledInv
  <2>2. i \in Slots
    BY <1>1, <2>1, IrqAssumption DEF Slots
  <2>3. QED
    BY <1>1, <2>1, <2>2 DEF IrqInv, FilledInv
<1>2. QED
  BY <1>1 DEF CalledIsStored

\* pci_irq never calls through an empty slot, however many drivers share the
\* line and wherever it interrupts pci_irq_add.
THEOREM CallsAreStored == IrqSpec => []CalledIsStored
BY StoredWhenFilled, IrqInvariance, PTL

-----------------------------------------------------------------------------
(* Sets of bridges and their places.                                       *)

\* What the firmware's numbering says of the bridges alone.
BridgeSet(B) ==
  /\ IsFiniteSet(B)
  /\ \A f \in B :
       /\ f.bus \in Nat /\ f.dev \in Nat /\ f.fn \in Nat
       /\ f.sec \in Nat /\ f.bus < f.sec
  /\ \A f, g \in B : Addr(f) = Addr(g) => f = g
  /\ \A f, g \in B : f.sec = g.sec => f = g
  /\ \A f \in B : f.bus = 0 \/ \E g \in B : g.sec = f.bus

\* The bridges of a machine that the firmware has numbered are such a set.
LEMMA NumberedBridges ==
  ASSUME NEW fns, Numbered(fns)
  PROVE  BridgeSet(BridgesOf(fns))
<1>1. IsFiniteSet(BridgesOf(fns))
  <2>1. BridgesOf(fns) \in SUBSET fns
    BY DEF BridgesOf
  <2>2. QED
    BY <2>1, FS_Subset DEF Numbered
<1>2. \A f \in BridgesOf(fns) : f \in fns /\ Visible(fns, f) /\ IsBridge(f)
  BY DEF BridgesOf
<1>3. QED
  BY <1>1, <1>2 DEF Numbered, BridgeSet

\* Different bridges are in the order of the scan, one way or the other.
LEMMA BeforeTotal ==
  ASSUME NEW B, BridgeSet(B), NEW f \in B, NEW g \in B
  PROVE  /\ ~Before(f, f)
         /\ f # g => Before(f, g) \/ Before(g, f)
         /\ ~(Before(f, g) /\ Before(g, f))
BY DEF BridgeSet, Before, Addr

\* The order of the scan is transitive.
LEMMA BeforeTransitive ==
  ASSUME NEW B, BridgeSet(B), NEW f \in B, NEW g \in B, NEW h \in B,
         Before(f, g), Before(g, h)
  PROVE  Before(f, h)
BY DEF BridgeSet, Before

\* A subset of a set of bridges can be counted.
LEMMA Counted ==
  ASSUME NEW B, BridgeSet(B), NEW S, S \subseteq B
  PROVE  /\ IsFiniteSet(S)
         /\ Cardinality(S) \in Nat
         /\ Cardinality(S) <= Cardinality(B)
<1>1. S \in SUBSET B /\ IsFiniteSet(B)
  BY DEF BridgeSet
<1>2. QED
  BY <1>1, FS_Subset, FS_CardinalityType

\* A set of bridges has no fewer members than a subset of it, and more if the
\* subset is a proper one.
LEMMA CountedSubset ==
  ASSUME NEW B, BridgeSet(B), NEW S, S \subseteq B, NEW T, T \subseteq S
  PROVE  /\ Cardinality(T) <= Cardinality(S)
         /\ T # S => Cardinality(T) < Cardinality(S)
<1>1. IsFiniteSet(S) /\ Cardinality(S) \in Nat /\ Cardinality(T) \in Nat
  BY Counted
<1>2. T \in SUBSET S
  OBVIOUS
<1>3. QED
  BY <1>1, <1>2, FS_Subset

\* The numbers of two sets of bridges without a common member add up.
LEMMA CountedUnion ==
  ASSUME NEW B, BridgeSet(B), NEW S, S \subseteq B, NEW T, T \subseteq B,
         S \cap T = {}
  PROVE  Cardinality(S \cup T) = Cardinality(S) + Cardinality(T)
<1>1. /\ IsFiniteSet(S) /\ Cardinality(S) \in Nat
      /\ IsFiniteSet(T) /\ Cardinality(T) \in Nat
  BY Counted
<1>2. Cardinality(S \cap T) = 0
  BY FS_EmptySet
<1>3. Cardinality(S \cup T)
        = Cardinality(S) + Cardinality(T) - Cardinality(S \cap T)
  BY <1>1, FS_Union
<1>4. QED
  BY <1>1, <1>2, <1>3

\* The ints of a bus end where those of a bus with a higher number begin, or
\* before, and within the tree.
LEMMA BaseStep ==
  ASSUME NEW B, BridgeSet(B), NEW b \in Nat
  PROVE  /\ Base(B, b) \in Nat /\ Base(B, b) >= 2
         /\ NumOn(B, b) \in Nat
         /\ \A c \in Nat : b < c => Base(B, b) + 3 * NumOn(B, b) <= Base(B, c)
         /\ Base(B, b) + 3 * NumOn(B, b) <= 2 + 3 * Cardinality(B)
<1> DEFINE S == Below(B, b)
           T == OnBus(B, b)
<1>1. S \subseteq B /\ T \subseteq B /\ S \cap T = {}
  BY DEF Below, OnBus, BridgeSet
<1>2. /\ Cardinality(S) \in Nat /\ Cardinality(T) \in Nat
      /\ Cardinality(S \cup T) = Cardinality(S) + Cardinality(T)
      /\ Cardinality(S \cup T) <= Cardinality(B)
      /\ Cardinality(B) \in Nat
  <2>1. S \cup T \subseteq B
    BY <1>1
  <2>2. QED
    BY <1>1, <2>1, Counted, CountedUnion
<1>3. /\ Base(B, b) = 2 + 3 * Cardinality(S)
      /\ NumOn(B, b) = Cardinality(T)
  BY DEF Base, NumOn, SizeofNode
<1>4. ASSUME NEW c \in Nat, b < c
      PROVE  Base(B, b) + 3 * NumOn(B, b) <= Base(B, c)
  <2>1. S \cup T \subseteq Below(B, c) /\ Below(B, c) \subseteq B
    BY <1>4 DEF Below, OnBus, BridgeSet
  <2>2. /\ Cardinality(S \cup T) <= Cardinality(Below(B, c))
        /\ Cardinality(Below(B, c)) \in Nat
    BY <2>1, Counted, CountedSubset
  <2>3. Base(B, c) = 2 + 3 * Cardinality(Below(B, c))
    BY DEF Base, SizeofNode
  <2> HIDE DEF S, T
  <2>4. QED
    BY <1>2, <1>3, <2>2, <2>3
<1> HIDE DEF S, T
<1>5. Base(B, b) + 3 * NumOn(B, b) <= 2 + 3 * Cardinality(B)
  BY <1>2, <1>3
<1>6. Base(B, b) \in Nat /\ Base(B, b) >= 2 /\ NumOn(B, b) \in Nat
  BY <1>2, <1>3
<1>7. QED
  BY <1>4, <1>5, <1>6

\* The bridges before a bridge on its bus.
Earlier(B, f) == {g \in OnBus(B, f.bus) : Before(g, f)}

\* A bridge has fewer bridges before it on its bus than the bus has.
LEMMA RankRange ==
  ASSUME NEW B, BridgeSet(B), NEW f \in B
  PROVE  Rank(B, f) \in 0..(NumOn(B, f.bus) - 1)
<1>1. /\ Earlier(B, f) \subseteq OnBus(B, f.bus)
      /\ OnBus(B, f.bus) \subseteq B
      /\ f \in OnBus(B, f.bus)
      /\ f \notin Earlier(B, f)
  BY BeforeTotal DEF Earlier, OnBus
<1>2. /\ Cardinality(Earlier(B, f)) < Cardinality(OnBus(B, f.bus))
      /\ Cardinality(Earlier(B, f)) \in Nat
      /\ Cardinality(OnBus(B, f.bus)) \in Nat
  <2>1. Earlier(B, f) # OnBus(B, f.bus) /\ Earlier(B, f) \subseteq B
    BY <1>1
  <2>2. QED
    BY <1>1, <2>1, Counted, CountedSubset
<1>3. Rank(B, f) = Cardinality(Earlier(B, f))
  BY DEF Rank, Earlier
<1>4. QED
  BY <1>2, <1>3 DEF NumOn

\* The later of two bridges of a bus has the higher rank.
LEMMA RankOrder ==
  ASSUME NEW B, BridgeSet(B), NEW f \in B, NEW g \in B, f.bus = g.bus,
         Before(f, g)
  PROVE  Rank(B, f) < Rank(B, g)
<1>1. /\ Earlier(B, f) \subseteq Earlier(B, g)
      /\ Earlier(B, g) \subseteq B
      /\ f \in Earlier(B, g)
      /\ f \notin Earlier(B, f)
  BY BeforeTotal, BeforeTransitive DEF Earlier, OnBus
<1>2. Earlier(B, f) # Earlier(B, g)
  BY <1>1
<1>3. Cardinality(Earlier(B, f)) < Cardinality(Earlier(B, g))
  BY <1>1, <1>2, CountedSubset
<1>4. QED
  BY <1>3 DEF Rank, Earlier

\* Ranks on a bus differ.
LEMMA RankInjective ==
  ASSUME NEW B, BridgeSet(B), NEW f \in B, NEW g \in B, f.bus = g.bus, f # g
  PROVE  Rank(B, f) # Rank(B, g)
<1>1. Rank(B, f) \in Int /\ Rank(B, g) \in Int
  BY RankRange
<1>2. Rank(B, f) < Rank(B, g) \/ Rank(B, g) < Rank(B, f)
  BY BeforeTotal, RankOrder
<1>3. QED
  BY <1>1, <1>2

\* The k-th bridge of a bus exists.
LEMMA RankOnto ==
  ASSUME NEW B, BridgeSet(B), NEW b \in Nat, NEW k \in 0..(NumOn(B, b) - 1)
  PROVE  \E f \in OnBus(B, b) : Rank(B, f) = k
<1> DEFINE S == OnBus(B, b)
           T == 0..(NumOn(B, b) - 1)
           rank == [f \in S |-> Rank(B, f)]
<1>1. S \subseteq B /\ \A f \in S : f.bus = b
  BY DEF OnBus
<1>2. rank \in Injection(S, T)
  <2>1. rank \in [S -> T]
    BY <1>1, RankRange
  <2>2. ASSUME NEW f \in S, NEW g \in S, rank[f] = rank[g] PROVE f = g
    BY <1>1, <2>2, RankInjective
  <2>3. QED
    BY <2>1, <2>2 DEF Injection, IsInjective
<1>3. NumOn(B, b) \in Nat /\ NumOn(B, b) = Cardinality(S)
  BY <1>1, Counted DEF NumOn
<1>4. IsFiniteSet(T) /\ Cardinality(T) = NumOn(B, b)
  BY <1>3, FS_Interval
<1>5. rank \in Surjection(S, T)
  BY <1>2, <1>3, <1>4, FS_Injection
<1>6. k \in T
  OBVIOUS
<1>7. PICK f \in S : rank[f] = k
  BY <1>5, <1>6 DEF Surjection
<1>8. QED
  BY <1>7

\* The ints of a bridge lie between the base of its bus and that of the next.
LEMMA CellRange ==
  ASSUME NEW B, BridgeSet(B), NEW f \in B
  PROVE  /\ Base(B, f.bus) \in Nat /\ Base(B, f.bus) >= 2
         /\ Slot(B, f) \in Nat /\ Place(B, f) \in Nat
         /\ Rank(B, f) \in Nat /\ NumOn(B, f.bus) \in Nat
         /\ Rank(B, f) < NumOn(B, f.bus)
         /\ Slot(B, f) = Base(B, f.bus) + Rank(B, f)
         /\ Place(B, f) = Base(B, f.bus) + NumOn(B, f.bus) + 2 * Rank(B, f)
         /\ Base(B, f.bus) <= Slot(B, f)
         /\ Slot(B, f) < Base(B, f.bus) + NumOn(B, f.bus)
         /\ Base(B, f.bus) + NumOn(B, f.bus) <= Place(B, f)
         /\ Place(B, f) + 1 < Base(B, f.bus) + 3 * NumOn(B, f.bus)
<1>1. f.bus \in Nat
  BY DEF BridgeSet
<1>2. /\ Base(B, f.bus) \in Nat /\ Base(B, f.bus) >= 2
      /\ NumOn(B, f.bus) \in Nat
  BY <1>1, BaseStep
<1>3. Rank(B, f) \in 0..(NumOn(B, f.bus) - 1)
  BY RankRange
<1>4. QED
  BY <1>2, <1>3 DEF Slot, Place, SizeofNode

\* The ints of different bridges are different.
Cells(B, f) == {Slot(B, f), Place(B, f), Place(B, f) + 1}

\* No int belongs to two bridges.
LEMMA CellsDisjoint ==
  ASSUME NEW B, BridgeSet(B), NEW f \in B, NEW g \in B, f # g
  PROVE  Cells(B, f) \cap Cells(B, g) = {}
<1>1. f.bus \in Nat /\ g.bus \in Nat
  BY DEF BridgeSet
<1>2. ASSUME NEW p \in B, NEW q \in B, p.bus < q.bus
      PROVE  Cells(B, p) \cap Cells(B, q) = {}
  <2>1. p.bus \in Nat /\ q.bus \in Nat
    BY DEF BridgeSet
  <2>2. Base(B, p.bus) + 3 * NumOn(B, p.bus) <= Base(B, q.bus)
    BY <1>2, <2>1, BaseStep
  <2>3. QED
    BY <2>2, CellRange DEF Cells
<1>3. CASE f.bus = g.bus
  <2>1. Rank(B, f) # Rank(B, g)
    BY <1>3, RankInjective
  <2>2. QED
    BY <1>3, <2>1, CellRange DEF Cells
<1>4. QED
  BY <1>1, <1>2, <1>3

\* The ranks of the bridge that comes next after the first ones of its bus,
\* and of the last of those.
LEMMA RankNext ==
  ASSUME NEW B, BridgeSet(B), NEW b, NEW S, S \subseteq OnBus(B, b),
         \A g \in S, h \in OnBus(B, b) \ S : Before(g, h),
         NEW f \in OnBus(B, b) \ S, IsFirst(f, OnBus(B, b) \ S)
  PROVE  Rank(B, f) = Cardinality(S)
<1>1. f \in B /\ f.bus = b /\ OnBus(B, b) \subseteq B
  BY DEF OnBus
<1>2. ASSUME NEW g \in OnBus(B, b) PROVE Before(g, f) <=> g \in S
  BY <1>1, BeforeTotal DEF IsFirst
<1>3. Earlier(B, f) = S
  BY <1>1, <1>2 DEF Earlier
<1>4. QED
  BY <1>3 DEF Rank, Earlier

\* The last of the bridges that a call has come to.
LEMMA RankLast ==
  ASSUME NEW B, BridgeSet(B), NEW b, NEW S, S \subseteq OnBus(B, b),
         \A g \in S, h \in OnBus(B, b) \ S : Before(g, h),
         NEW f \in S, \A g \in S \ {f} : Before(g, f)
  PROVE  Rank(B, f) = Cardinality(S) - 1
<1>1. f \in B /\ f.bus = b /\ OnBus(B, b) \subseteq B
  BY DEF OnBus
<1>2. ASSUME NEW g \in OnBus(B, b) PROVE Before(g, f) <=> g \in S \ {f}
  <2>1. g \in B /\ ~Before(f, f) /\ ~(Before(f, g) /\ Before(g, f))
    BY <1>1, BeforeTotal
  <2>2. QED
    BY <2>1
<1>3. Earlier(B, f) = S \ {f}
  BY <1>1, <1>2 DEF Earlier
<1>4. IsFiniteSet(S) /\ S \subseteq B
  <2>1. S \subseteq B
    BY <1>1
  <2>2. QED
    BY <2>1, Counted
<1>5. Cardinality(S \ {f}) = Cardinality(S) - 1
  BY <1>4, FS_RemoveElement
<1>6. QED
  BY <1>3, <1>5 DEF Rank, Earlier

\* A bridge with bridges behind it that another follows on its bus.
NestedIn(B) ==
  \E f, g, h \in B : g.bus = f.sec /\ h.bus = f.bus /\ Before(f, h)

\* Without such a bridge the buses with bridges are in a row: the bus behind a
\* bridge, if it has bridges, is the next of them.
LEMMA NextBus ==
  ASSUME NEW B, BridgeSet(B), ~NestedIn(B), NEW f \in B,
         OnBus(B, f.sec) # {}, NEW g \in B, f.bus < g.bus
  PROVE  f.sec <= g.bus
<1> DEFINE
      Skips(p, q) == p.bus < q.bus /\ q.bus < p.sec
      Bad == {b \in Nat : \E p, q \in B : /\ p.bus = b
                                         /\ OnBus(B, p.sec) # {}
                                         /\ Skips(p, q)}
<1>1. \A p \in B : p.bus \in Nat /\ p.sec \in Nat /\ p.bus < p.sec
  BY DEF BridgeSet
<1>2. SUFFICES ASSUME Bad # {} PROVE FALSE
  BY <1>1
<1>3. PICK b \in Bad : \A c \in Bad : b <= c
  <2>1. Bad \subseteq Nat
    OBVIOUS
  <2>2. QED
    BY <1>2, <2>1, Least
<1>4. PICK p \in B : /\ p.bus = b /\ OnBus(B, p.sec) # {}
                    /\ \E q \in B : Skips(p, q)
  OBVIOUS
<1> DEFINE Over == {c \in Nat : \E q \in B : q.bus = c /\ Skips(p, q)}
<1>5. PICK c \in Over : \A d \in Over : c <= d
  <2>1. Over \subseteq Nat /\ Over # {}
    BY <1>1, <1>4
  <2>2. QED
    BY <2>1, Least
<1>6. PICK q \in B : q.bus = c /\ Skips(p, q)
  OBVIOUS
<1>7. PICK h \in B : h.sec = q.bus
  <2>1. q.bus # 0
    BY <1>1, <1>6
  <2>2. QED
    BY <2>1 DEF BridgeSet
<1>8. OnBus(B, h.sec) # {}
  BY <1>7 DEF OnBus
<1>9. CASE h.bus < p.bus
  <2>1. Skips(h, p)
    BY <1>6, <1>7, <1>9
  <2>2. h.bus \in Bad
    BY <1>1, <1>8, <2>1
  <2> HIDE DEF Bad
  <2>3. b <= h.bus
    BY <1>3, <2>2
  <2>4. QED
    BY <1>1, <1>4, <1>9, <2>3
<1>10. CASE p.bus < h.bus
  <2>1. Skips(p, h)
    BY <1>1, <1>6, <1>7, <1>10
  <2>2. h.bus \in Over
    BY <1>1, <2>1
  <2>3. QED
    BY <1>1, <1>5, <1>6, <1>7, <2>2
<1>11. CASE h.bus = p.bus
  <2>1. h # p
    BY <1>1, <1>6, <1>7
  <2>2. Before(h, p) \/ Before(p, h)
    BY <2>1, BeforeTotal
  <2>3. PICK s \in B : s.bus = p.sec
    BY <1>4 DEF OnBus
  <2>4. ~Before(p, h)
    BY <1>11, <2>3 DEF NestedIn
  <2>5. ~Before(h, p)
    BY <1>7, <1>11 DEF NestedIn
  <2>6. QED
    BY <2>2, <2>4, <2>5
<1>12. QED
  BY <1>1, <1>9, <1>10, <1>11

\* And the node of a bridge with bridges behind it is followed at once by the
\* place of their bus.
LEMMA PlaceNextBus ==
  ASSUME NEW B, BridgeSet(B), ~NestedIn(B), NEW f \in B, OnBus(B, f.sec) # {}
  PROVE  Place(B, f) + 2 = Base(B, f.sec)
<1>1. f.bus \in Nat /\ f.sec \in Nat /\ f.bus < f.sec
  BY DEF BridgeSet
<1>2. \A h \in OnBus(B, f.bus) : h # f => Before(h, f)
  BY BeforeTotal DEF NestedIn, OnBus
<1>3. Rank(B, f) = NumOn(B, f.bus) - 1
  <2>1. f \in OnBus(B, f.bus)
    BY DEF OnBus
  <2>2. QED
    BY <1>2, <2>1, RankLast DEF NumOn
<1>4. Below(B, f.sec) = Below(B, f.bus) \cup OnBus(B, f.bus)
  <2>1. ASSUME NEW g \in B PROVE g.bus < f.sec <=> g.bus <= f.bus
    <3>1. g.bus \in Nat
      BY DEF BridgeSet
    <3>2. f.bus < g.bus => f.sec <= g.bus
      BY NextBus
    <3>3. QED
      BY <1>1, <3>1, <3>2
  <2>2. \A g \in B : g.bus <= f.bus <=> g.bus < f.bus \/ g.bus = f.bus
    BY <1>1 DEF BridgeSet
  <2>3. QED
    BY <2>1, <2>2 DEF Below, OnBus
<1>5. Cardinality(Below(B, f.sec))
        = Cardinality(Below(B, f.bus)) + NumOn(B, f.bus)
  <2>1. /\ Below(B, f.bus) \subseteq B /\ OnBus(B, f.bus) \subseteq B
        /\ Below(B, f.bus) \cap OnBus(B, f.bus) = {}
    BY <1>1 DEF Below, OnBus
  <2>2. QED
    BY <1>4, <2>1, CountedUnion DEF NumOn
<1>6. Cardinality(Below(B, f.bus)) \in Nat
  <2>1. Below(B, f.bus) \subseteq B
    BY DEF Below
  <2>2. QED
    BY <2>1, Counted
<1>7. QED
  BY <1>3, <1>5, <1>6, CellRange DEF Base, SizeofNode

-----------------------------------------------------------------------------
(* Steps of build_tree.                                                    *)

\* The machines are numbered as the firmware does it.
LEMMA MachineBridges ==
  ASSUME machine \in Machines
  PROVE  BridgeSet(Bridges) /\ (Nested <=> NestedIn(Bridges))
<1>1. BridgeSet(BridgesOf(machine.fns))
  BY PciAssumption, NumberedBridges
<1>2. QED
  BY <1>1 DEF Bridges, Nested, NestedIn

\* The bridges come to are bridges of the machine.
LEMMA EnteredBridges ==
  ASSUME BuildInv
  PROVE  /\ Entered \subseteq Bridges
         /\ IsFiniteSet(Entered) /\ Cardinality(Entered) \in Nat
         /\ Cardinality(Entered) <= Cardinality(Bridges)
<1>1. Entered \subseteq Bridges
  BY DEF BuildInv, BridgesInv, Entered
<1>2. QED
  BY <1>1, MachineBridges, Counted DEF BuildInv

\* An active call: what the invariant says of it.
LEMMA Active ==
  ASSUME BuildInv, NEW j \in DOMAIN calls
  PROVE  /\ FrameInv(j)
         /\ j \in 1..Depth /\ Depth \in Nat
         /\ calls[j] \in Frames
         /\ calls[j].bus \in Nat /\ calls[j].offset \in Nat
         /\ calls[j].child \in Nat
         /\ calls[j].seen \subseteq OnBus(Bridges, calls[j].bus)
         /\ Cardinality(calls[j].seen) \in Nat
<1>1. FrameInv(j) /\ calls \in Seq(Frames)
  BY DEF BuildInv, CallsInv
<1>2. j \in 1..Depth /\ Depth \in Nat /\ calls[j] \in Frames
  BY <1>1 DEF Depth
<1>3. /\ calls[j].bus \in Nat /\ calls[j].offset \in Nat
      /\ calls[j].child \in Nat /\ calls[j].seen \subseteq Bridges
  BY <1>2 DEF Frames
<1>4. calls[j].seen = OnBus(Entered, calls[j].bus)
  BY <1>1 DEF FrameInv
<1>5. calls[j].seen \subseteq OnBus(Bridges, calls[j].bus)
  BY <1>4, EnteredBridges DEF OnBus
<1>6. Cardinality(calls[j].seen) \in Nat
  BY <1>3, MachineBridges, Counted DEF BuildInv
<1>7. QED
  BY <1>1, <1>2, <1>3, <1>5, <1>6

\* EnterChild comes to the bridge f.
Rest == OnBus(Bridges, Top.bus) \ Top.seen
Enters(f) ==
  /\ calls # <<>>
  /\ f \in Rest
  /\ IsFirst(f, Rest)
  /\ tree' = Put(Put(tree, Top.offset, Top.child), Top.child + OffsetBridge,
                 Len(bridges))
  /\ bridges' = Append(bridges, [dev |-> f, busno |-> f.sec])
  /\ calls' = Append([calls EXCEPT ![Depth].seen = @ \cup {f}],
                     Enter(f.sec, Top.child + SizeofNode))
  /\ machine' = machine

\* That is what EnterChild does.
LEMMA EnterChildEnters ==
  ASSUME EnterChild
  PROVE  \E f \in Bridges : Enters(f)
<1>1. ToSee = Rest /\ Rest \subseteq Bridges
  BY DEF ToSee, Rest, Kids, OnBus
<1>2. QED
  BY <1>1 DEF EnterChild, Enters

\* It has not been come to before, nor the bus behind it.
EnteredNew(f) ==
  /\ Depth \in DOMAIN calls /\ Top = calls[Depth]
  /\ f \notin Entered
  /\ f.bus = Top.bus
  /\ f.bus \in Nat /\ f.sec \in Nat /\ f.bus < f.sec
  /\ Reached(f.bus)
  /\ ~Reached(f.sec)
  /\ Rank(Bridges, f) = Cardinality(Top.seen)
  /\ Bridges' = Bridges
  /\ Nested' = Nested

\* So it is with the bridge that the loop of the call on top comes to.
LEMMA EnterNew ==
  ASSUME BuildInv, NEW f \in Bridges, Enters(f)
  PROVE  EnteredNew(f)
<1>1. Depth \in DOMAIN calls /\ Top = calls[Depth]
  <2>1. calls \in Seq(Frames) /\ calls # <<>>
    BY DEF BuildInv, CallsInv, Enters
  <2>2. QED
    BY <2>1 DEF Depth, Top
<1>2. /\ f \in OnBus(Bridges, Top.bus) \ Top.seen
      /\ IsFirst(f, OnBus(Bridges, Top.bus) \ Top.seen)
  BY DEF Enters, Rest
<1>3. f.bus = Top.bus
  BY <1>2 DEF OnBus
<1>4. BridgeSet(Bridges)
  BY MachineBridges DEF BuildInv
<1>5. f.bus \in Nat /\ f.sec \in Nat /\ f.bus < f.sec
  BY <1>4 DEF BridgeSet
<1>6. /\ Top.seen = OnBus(Entered, Top.bus)
      /\ Reached(Top.bus)
      /\ \A g \in Top.seen, h \in OnBus(Bridges, Top.bus) \ Top.seen :
           Before(g, h)
  BY <1>1, Active DEF FrameInv
<1>7. f \notin Entered
  BY <1>2, <1>3, <1>6 DEF OnBus
<1>8. ~Reached(f.sec)
  <2>1. f.sec # 0
    BY <1>5
  <2>2. \A g \in Entered : g.sec # f.sec
    BY <1>4, <1>7, EnteredBridges DEF BridgeSet
  <2>3. QED
    BY <2>1, <2>2 DEF Reached
<1>9. Top.seen \subseteq OnBus(Bridges, Top.bus)
  BY <1>1, Active
<1>10. Rank(Bridges, f) = Cardinality(Top.seen)
  BY <1>2, <1>4, <1>6, <1>9, RankNext
<1>11. Bridges' = Bridges /\ Nested' = Nested
  BY DEF Enters, Bridges, Nested
<1>12. QED
  BY <1>1, <1>3, <1>5, <1>6, <1>7, <1>8, <1>10, <1>11 DEF EnteredNew

\* The numbered bridges are one more.
EnteredOneMore(f) ==
  /\ Entered' = Entered \cup {f}
  /\ \A b : Reached(b)' <=> Reached(b) \/ b = f.sec
  /\ Len(bridges) \in Nat /\ Len(bridges)' = Len(bridges) + 1
  /\ \A p \in 1..Len(bridges) : bridges'[p] = bridges[p]
  /\ bridges'[Len(bridges) + 1] = [dev |-> f, busno |-> f.sec]

\* The members of a sequence with one more.
LEMMA AppendMembers ==
  ASSUME NEW S, NEW s \in Seq(S), NEW e \in S
  PROVE  /\ Append(s, e) \in Seq(S)
         /\ Len(s) \in Nat /\ Len(Append(s, e)) = Len(s) + 1
         /\ \A p \in 1..Len(s) : Append(s, e)[p] = s[p]
         /\ Append(s, e)[Len(s) + 1] = e
OBVIOUS

\* The bridge is appended to the bridges, which stay in order.
LEMMA EnterBridges ==
  ASSUME BuildInv, NEW f \in Bridges, Enters(f)
  PROVE  EnteredOneMore(f) /\ BridgesInv'
<1> DEFINE D == [dev : machine.fns \cup {HostBridge}, busno : Nat]
           e == [dev |-> f, busno |-> f.sec]
<1>1. EnteredNew(f)
  BY EnterNew
<1>2. bridges \in Seq(D) /\ e \in D /\ bridges # <<>>
  <2>1. f \in machine.fns
    BY DEF Bridges, BridgesOf
  <2>2. QED
    BY <1>1, <2>1 DEF BuildInv, BridgesInv, EnteredNew
<1>3. D' = D
  BY DEF Enters, HostBridge, Hosts, Devs
<1>4. bridges' = Append(bridges, e)
  BY DEF Enters
<1> HIDE DEF D
<1>5. /\ bridges' \in Seq(D)
      /\ Len(bridges) \in Nat /\ Len(bridges') = Len(bridges) + 1
      /\ \A p \in 1..Len(bridges) : bridges'[p] = bridges[p]
      /\ bridges'[Len(bridges) + 1] = e
      /\ Len(bridges) >= 1
  BY <1>2, <1>4, AppendMembers
<1> HIDE DEF e
<1>6. Entered' = Entered \cup {f}
  <2>1. Entered' = {bridges'[p].dev : p \in 2..Len(bridges')}
    BY DEF Entered
  <2>2. 2..Len(bridges') = (2..Len(bridges)) \cup {Len(bridges) + 1}
    BY <1>5
  <2>3. e.dev = f
    BY DEF e
  <2>4. \A p \in 2..Len(bridges) : bridges'[p].dev = bridges[p].dev
    BY <1>5
  <2>5. QED
    BY <1>5, <2>1, <2>2, <2>3, <2>4 DEF Entered
<1>7. ASSUME NEW b PROVE Reached(b)' <=> Reached(b) \/ b = f.sec
  BY <1>6 DEF Reached
<1>8. EnteredOneMore(f)
  BY <1>5, <1>6, <1>7 DEF EnteredOneMore, e
<1>9. BridgesInv'
  <2>1. bridges' \in Seq(D')
    BY <1>3, <1>5
  <2>2. bridges' # <<>> /\ bridges'[1].busno = 0
    BY <1>5 DEF BuildInv, BridgesInv
  <2>3. ASSUME NEW p \in 2..Len(bridges')
        PROVE  /\ bridges'[p].dev \in Bridges'
               /\ bridges'[p].busno = bridges'[p].dev.sec
    <3>1. Bridges' = Bridges
      BY <1>1 DEF EnteredNew
    <3>2. CASE p = Len(bridges) + 1
      BY <1>5, <3>1, <3>2 DEF e
    <3>3. CASE p \in 2..Len(bridges)
      BY <1>5, <3>1, <3>3 DEF BuildInv, BridgesInv
    <3>4. QED
      BY <1>5, <3>2, <3>3
  <2>4. Len(bridges') = 1 + Cardinality(Entered')
    <3>1. Cardinality(Entered \cup {f}) = Cardinality(Entered) + 1
      BY <1>1, EnteredBridges, FS_AddElement DEF EnteredNew
    <3>2. Len(bridges) = 1 + Cardinality(Entered)
      BY DEF BuildInv, BridgesInv
    <3>3. QED
      BY <1>5, <1>6, <3>1, <3>2, EnteredBridges
  <2>5. \A g \in Entered' : Reached(g.bus)'
    BY <1>1, <1>6, <1>7 DEF BuildInv, BridgesInv, EnteredNew
  <2>6. QED
    BY <2>1, <2>2, <2>3, <2>4, <2>5 DEF BridgesInv, D
<1>10. QED
  BY <1>8, <1>9

\* The call on top waits, and another is on top of it.
Calling(f) ==
  /\ Depth \in Nat \ {0} /\ Len(calls) = Depth /\ Depth' = Depth + 1
  /\ \A j \in 1..(Depth - 1) : calls'[j] = calls[j]
  /\ calls'[Depth].bus = calls[Depth].bus
  /\ calls'[Depth].offset = calls[Depth].offset
  /\ calls'[Depth].child = calls[Depth].child
  /\ calls'[Depth].seen = calls[Depth].seen \cup {f}
  /\ calls'[Depth + 1].bus = f.sec
  /\ calls'[Depth + 1].offset = calls[Depth].child + 2
  /\ calls'[Depth + 1].child = calls[Depth].child + 2 + NumOn(Bridges, f.sec)
  /\ calls'[Depth + 1].seen = {}

\* A call notes a child and another call begins.
LEMMA UpdateAndAppend ==
  ASSUME NEW S, NEW s \in Seq(S), s # <<>>, NEW c \in S, NEW d \in S
  PROVE  LET t == Append([s EXCEPT ![Len(s)] = c], d)
         IN /\ t \in Seq(S)
            /\ Len(s) \in Nat \ {0}
            /\ Len(t) = Len(s) + 1
            /\ \A j \in 1..(Len(s) - 1) : t[j] = s[j]
            /\ t[Len(s)] = c
            /\ t[Len(s) + 1] = d
<1> DEFINE u == [s EXCEPT ![Len(s)] = c]
<1>1. /\ u \in Seq(S) /\ Len(u) = Len(s) /\ Len(s) \in Nat \ {0}
      /\ u[Len(s)] = c
      /\ \A j \in 1..(Len(s) - 1) : u[j] = s[j]
  OBVIOUS
<1> HIDE DEF u
<1>2. /\ Append(u, d) \in Seq(S)
      /\ Len(Append(u, d)) = Len(s) + 1
      /\ \A p \in 1..Len(s) : Append(u, d)[p] = u[p]
      /\ Append(u, d)[Len(s) + 1] = d
  BY <1>1, AppendMembers
<1>3. /\ Append(u, d)[Len(s)] = c
      /\ \A j \in 1..(Len(s) - 1) : Append(u, d)[j] = s[j]
  BY <1>1, <1>2
<1>4. QED
  BY <1>1, <1>2, <1>3 DEF u

\* The calls after that.
LEMMA EnterCalling ==
  ASSUME BuildInv, NEW f \in Bridges, Enters(f)
  PROVE  Calling(f) /\ calls' \in Seq(Frames')
<1> DEFINE c == [Top EXCEPT !.seen = @ \cup {f}]
           d == Enter(f.sec, Top.child + SizeofNode)
<1>1. EnteredNew(f)
  BY EnterNew
<1>2. calls \in Seq(Frames) /\ calls # <<>> /\ Top \in Frames /\ Top = calls[Depth]
  <2>1. calls \in Seq(Frames) /\ calls # <<>>
    BY DEF BuildInv, CallsInv, Enters
  <2>2. QED
    BY <1>1, <2>1, Active DEF EnteredNew
<1>3. /\ c \in Frames
      /\ c.bus = Top.bus /\ c.offset = Top.offset /\ c.child = Top.child
      /\ c.seen = Top.seen \cup {f}
  BY <1>2 DEF Frames
<1>4. /\ d \in Frames
      /\ d.bus = f.sec /\ d.offset = Top.child + 2
      /\ d.child = Top.child + 2 + NumOn(Bridges, f.sec) /\ d.seen = {}
  <2>1. NumOn(Bridges, f.sec) \in Nat /\ NumOn(Bridges, f.sec) = Cardinality(Kids(f.sec))
    <3>1. BridgeSet(Bridges)
      BY MachineBridges DEF BuildInv
    <3>2. QED
      BY <1>1, <3>1, BaseStep DEF EnteredNew, NumOn, Kids, OnBus
  <2>2. Top.child \in Nat /\ f.sec \in Nat
    BY <1>1, <1>2 DEF EnteredNew, Frames
  <2>3. QED
    BY <2>1, <2>2 DEF Enter, FirstChild, SizeofNode, Frames
<1>5. calls' = Append([calls EXCEPT ![Len(calls)] = c], d)
  <2>1. calls' = Append([calls EXCEPT ![Depth].seen = @ \cup {f}], d)
    BY DEF Enters
  <2>2. QED
    BY <1>2, <2>1 DEF Depth
<1>6. Frames' = Frames
  BY <1>1 DEF EnteredNew, Frames
<1>7. /\ calls' \in Seq(Frames)
      /\ Len(calls) \in Nat \ {0}
      /\ Len(calls') = Len(calls) + 1
      /\ \A j \in 1..(Len(calls) - 1) : calls'[j] = calls[j]
      /\ calls'[Len(calls)] = c
      /\ calls'[Len(calls) + 1] = d
  <2> HIDE DEF c, d
  <2>1. QED
    BY <1>2, <1>3, <1>4, <1>5, UpdateAndAppend
<1> HIDE DEF c, d
<1>8. Calling(f)
  BY <1>2, <1>3, <1>4, <1>7 DEF Calling, Depth
<1>9. QED
  BY <1>6, <1>7, <1>8

\* The ints a call writes for the child its loop is at: within the tree, and
\* not after the place of the child; at that place if no bridges are nested.
Writes(j, f) ==
  /\ calls[j].offset \in 0..(1 + 3 * Cardinality(Bridges))
  /\ calls[j].child \in 0..(1 + 3 * Cardinality(Bridges))
  /\ calls[j].child + 1 \in 0..(1 + 3 * Cardinality(Bridges))
  /\ calls[j].child + 2 <= Base(Bridges, f.sec)
  /\ ~Nested => /\ calls[j].offset = Slot(Bridges, f)
                /\ calls[j].child = Place(Bridges, f)

\* Where a call writes of a bridge whose rank it has reached.
LEMMA WritesOfCall ==
  ASSUME BuildInv, NEW j \in DOMAIN calls, NEW f \in Bridges,
         f.bus = calls[j].bus, Rank(Bridges, f) = Passed(j)
  PROVE  Writes(j, f)
<1>1. BridgeSet(Bridges)
  BY MachineBridges DEF BuildInv
<1>2. f.bus \in Nat /\ f.sec \in Nat /\ f.bus < f.sec
  BY <1>1 DEF BridgeSet
<1>3. /\ calls[j].offset \in Nat /\ calls[j].child \in Nat
      /\ calls[j].child
           = calls[j].offset + NumOn(Bridges, f.bus) + Rank(Bridges, f)
      /\ calls[j].offset - Rank(Bridges, f) <= Base(Bridges, f.bus)
  BY Active DEF FrameInv
<1>4. /\ Base(Bridges, f.bus) + 3 * NumOn(Bridges, f.bus)
           <= 2 + 3 * Cardinality(Bridges)
      /\ Base(Bridges, f.bus) + 3 * NumOn(Bridges, f.bus)
           <= Base(Bridges, f.sec)
      /\ Base(Bridges, f.sec) \in Nat /\ Cardinality(Bridges) \in Nat
  BY <1>1, <1>2, BaseStep, Counted
<1>5. /\ Rank(Bridges, f) \in Nat /\ NumOn(Bridges, f.bus) \in Nat
      /\ Base(Bridges, f.bus) \in Nat
      /\ Rank(Bridges, f) < NumOn(Bridges, f.bus)
      /\ Slot(Bridges, f) = Base(Bridges, f.bus) + Rank(Bridges, f)
      /\ Place(Bridges, f) = Base(Bridges, f.bus) + NumOn(Bridges, f.bus)
                               + 2 * Rank(Bridges, f)
  BY <1>1, CellRange
<1>6. ~Nested => calls[j].offset = Base(Bridges, f.bus) + Rank(Bridges, f)
  <2>1. OnBus(Bridges, calls[j].bus) # {}
    BY DEF OnBus
  <2>2. QED
    BY <2>1 DEF BuildInv, TreeInv
<1>7. QED
  BY <1>3, <1>4, <1>5, <1>6 DEF Writes

\* The ints that are written belong to the bridge that is come to.
LEMMA EnterWrites ==
  ASSUME BuildInv, NEW f \in Bridges, Enters(f)
  PROVE  Writes(Depth, f) /\ Passed(Depth) = Rank(Bridges, f)
<1>1. EnteredNew(f)
  BY EnterNew
<1>2. Passed(Depth) = Rank(Bridges, f)
  <2>1. Cardinality(calls[Depth].seen) \in Nat
    BY <1>1, Active DEF EnteredNew
  <2>2. Depth \in Nat
    BY <1>1, Active DEF EnteredNew
  <2>3. QED
    BY <1>1, <2>1, <2>2 DEF EnteredNew, Passed
<1>3. QED
  BY <1>1, <1>2, WritesOfCall DEF EnteredNew

\* A call that goes on to wait has still passed the same children.
LEMMA EnterPassed ==
  ASSUME BuildInv, NEW f \in Bridges, Enters(f), NEW j \in 1..(Depth + 1)
  PROVE  Passed(j)' = IF j = Depth + 1 THEN 0 ELSE Passed(j)
<1>1. EnteredNew(f) /\ Calling(f) /\ calls \in Seq(Frames)
  BY EnterNew, EnterCalling DEF BuildInv, CallsInv
<1>2. /\ Depth \in Nat \ {0} /\ Depth' = Depth + 1
      /\ DOMAIN calls = 1..Depth
  BY <1>1 DEF Calling, Depth
<1>3. CASE j \in 1..(Depth - 1)
  BY <1>1, <1>2, <1>3 DEF Calling, Passed
<1>4. CASE j = Depth
  <2>1. /\ calls[j].seen \subseteq OnBus(Bridges, calls[j].bus)
        /\ Cardinality(calls[j].seen) \in Nat
    BY <1>2, <1>4, Active
  <2>2. IsFiniteSet(calls[j].seen)
    <3>1. calls[j].seen \subseteq Bridges
      BY <2>1 DEF OnBus
    <3>2. QED
      BY <3>1, MachineBridges, Counted DEF BuildInv
  <2>3. f \notin calls[j].seen /\ calls'[j].seen = calls[j].seen \cup {f}
    BY <1>1, <1>4 DEF Calling, EnteredNew, Enters, Rest
  <2>4. Cardinality(calls[j].seen \cup {f}) = Cardinality(calls[j].seen) + 1
    BY <2>2, <2>3, FS_AddElement
  <2>5. Passed(j) = Cardinality(calls[j].seen)
    BY <1>2, <1>4, <2>1 DEF Passed
  <2>6. Passed(j)' = Cardinality(calls'[j].seen) - 1
    BY <1>2, <1>4 DEF Passed
  <2>7. QED
    BY <1>2, <1>4, <2>1, <2>3, <2>4, <2>5, <2>6
<1>5. CASE j = Depth + 1
  <2>1. Cardinality(calls'[j].seen) = 0
    BY <1>1, <1>5, FS_EmptySet DEF Calling
  <2>2. ~(j < Depth')
    BY <1>2, <1>5
  <2>3. Passed(j)' = Cardinality(calls'[j].seen) - 0
    BY <2>2 DEF Passed
  <2>4. QED
    BY <1>5, <2>1, <2>3
<1>6. QED
  BY <1>2, <1>3, <1>4, <1>5

\* Every call is still where it should be, the new one too.
LEMMA EnterFrames ==
  ASSUME BuildInv, NEW f \in Bridges, Enters(f), NEW j \in DOMAIN calls'
  PROVE  FrameInv(j)'
<1>1. EnteredNew(f) /\ EnteredOneMore(f) /\ Calling(f)
  BY EnterNew, EnterBridges, EnterCalling
<1>2. /\ Depth \in Nat \ {0} /\ Len(calls) = Depth
      /\ Depth' = Depth + 1 /\ j \in 1..(Depth + 1)
      /\ DOMAIN calls = 1..Depth
  <2>1. calls \in Seq(Frames) /\ calls' \in Seq(Frames')
    BY EnterCalling DEF BuildInv, CallsInv
  <2>2. QED
    BY <1>1, <2>1 DEF Calling, Depth
<1>3. Bridges' = Bridges
  BY <1>1 DEF EnteredNew
<1>4. CASE j \in 1..(Depth - 1)
  <2>1. FrameInv(j) /\ j \in DOMAIN calls /\ j < Depth /\ j < Depth + 1
    BY <1>2, <1>4, Active
  <2>2. calls'[j] = calls[j]
    BY <1>1, <1>4 DEF Calling
  <2>3. Passed(j)' = Passed(j)
    BY <1>2, <1>4, EnterPassed
  <2>4. calls'[j + 1].bus = calls[j + 1].bus
    <3>1. j + 1 \in 1..(Depth - 1) \/ j + 1 = Depth
      BY <1>2, <1>4
    <3>2. QED
      BY <1>1, <3>1 DEF Calling
  <2>5. Reached(calls[j].bus)'
    BY <1>1, <2>1, <2>2 DEF FrameInv, EnteredOneMore
  <2>6. OnBus(Entered', calls[j].bus) = OnBus(Entered, calls[j].bus)
    <3>1. calls[j].bus < calls[Depth].bus
      BY <1>2, <1>4, <2>1 DEF BuildInv, CallsInv
    <3>2. calls[j].bus # f.bus
      BY <1>1, <2>1, <3>1, Active DEF EnteredNew
    <3>3. QED
      BY <1>1, <3>2 DEF EnteredOneMore, OnBus
  <2>7. QED
    BY <1>2, <1>3, <2>1, <2>2, <2>3, <2>4, <2>5, <2>6 DEF FrameInv
<1>5. CASE j = Depth
  <2>1. /\ FrameInv(j) /\ j \in DOMAIN calls
        /\ calls[j].seen \subseteq OnBus(Bridges, calls[j].bus)
    BY <1>2, <1>5, Active
  <2>2. /\ calls'[j].bus = calls[j].bus
        /\ calls'[j].offset = calls[j].offset
        /\ calls'[j].child = calls[j].child
        /\ calls'[j].seen = calls[j].seen \cup {f}
        /\ calls'[j + 1].bus = f.sec
    BY <1>1, <1>5 DEF Calling
  <2>3. /\ f \in OnBus(Bridges, calls[j].bus) \ calls[j].seen
        /\ \A g \in OnBus(Bridges, calls[j].bus) \ calls[j].seen : ~Before(g, f)
        /\ f.bus = calls[j].bus
    BY <1>1, <1>5 DEF EnteredNew, Enters, Rest, IsFirst
  <2>4. Passed(j)' = Passed(j)
    BY <1>2, <1>5, EnterPassed
  <2>5. Reached(calls[j].bus)'
    BY <1>1, <2>1, <2>2 DEF FrameInv, EnteredOneMore
  <2>6. calls'[j].seen = OnBus(Entered', calls[j].bus)
    BY <1>1, <2>1, <2>2, <2>3 DEF EnteredOneMore, OnBus, FrameInv
  <2>7. ASSUME NEW g \in calls'[j].seen,
               NEW h \in OnBus(Bridges, calls[j].bus) \ calls'[j].seen
        PROVE  Before(g, h)
    <3>1. CASE g = f
      <4>1. f \in Bridges /\ h \in Bridges /\ h # f
        BY <2>2 DEF OnBus
      <4>2. ~Before(h, f)
        BY <2>2, <2>3
      <4>3. QED
        BY <3>1, <4>1, <4>2, MachineBridges, BeforeTotal DEF BuildInv
    <3>2. CASE g # f
      BY <2>1, <2>2, <3>2 DEF FrameInv
    <3>3. QED
      BY <3>1, <3>2
  <2>8. \A g \in calls[j].seen : Before(g, f)
    BY <2>1, <2>3 DEF FrameInv
  <2>9. QED
    BY <1>2, <1>3, <1>5, <2>1, <2>2, <2>4, <2>5, <2>6, <2>7, <2>8 DEF FrameInv
<1>6. CASE j = Depth + 1
  <2>1. /\ calls'[j].bus = f.sec
        /\ calls'[j].offset = calls[Depth].child + 2
        /\ calls'[j].child = calls[Depth].child + 2 + NumOn(Bridges, f.sec)
        /\ calls'[j].seen = {}
    BY <1>1, <1>6 DEF Calling
  <2>2. Passed(j)' = 0
    BY <1>2, <1>6, EnterPassed
  <2>3. Reached(f.sec)'
    BY <1>1 DEF EnteredOneMore
  <2>4. OnBus(Entered', f.sec) = {}
    <3>1. \A g \in Entered : g.bus # f.sec
      BY <1>1 DEF EnteredNew, BuildInv, BridgesInv
    <3>2. f.bus # f.sec
      BY <1>1 DEF EnteredNew
    <3>3. QED
      BY <1>1, <3>1, <3>2 DEF EnteredOneMore, OnBus
  <2>5. /\ calls[Depth].child \in Nat /\ NumOn(Bridges, f.sec) \in Nat
        /\ calls[Depth].child + 2 <= Base(Bridges, f.sec)
    <3>1. calls[Depth].child \in Nat
      BY <1>2, Active
    <3>2. NumOn(Bridges, f.sec) \in Nat
      BY <1>1, MachineBridges, BaseStep DEF BuildInv, EnteredNew
    <3>3. QED
      BY <3>1, <3>2, EnterWrites DEF Writes
  <2>6. QED
    BY <1>2, <1>3, <1>6, <2>1, <2>2, <2>3, <2>4, <2>5 DEF FrameInv
<1>7. QED
  BY <1>2, <1>4, <1>5, <1>6

\* So the calls keep their invariant, and one bus more is open.
LEMMA EnterCalls ==
  ASSUME BuildInv, NEW f \in Bridges, Enters(f)
  PROVE  CallsInv' /\ \A bus : Open(bus)' <=> Open(bus) \/ bus = f.sec
<1>1. EnteredNew(f) /\ EnteredOneMore(f) /\ Calling(f)
      /\ calls' \in Seq(Frames') /\ calls \in Seq(Frames)
  BY EnterNew, EnterBridges, EnterCalling DEF BuildInv, CallsInv
<1>2. /\ Depth \in Nat \ {0}
      /\ DOMAIN calls = 1..Depth /\ DOMAIN calls' = 1..(Depth + 1)
  BY <1>1 DEF Calling, Depth
<1>3. ASSUME NEW j \in 1..Depth PROVE calls'[j].bus = calls[j].bus
  <2>1. j \in 1..(Depth - 1) \/ j = Depth
    BY <1>2
  <2>2. QED
    BY <1>1, <2>1 DEF Calling
<1>4. calls'[Depth + 1].bus = f.sec
  BY <1>1 DEF Calling
<1>5. ASSUME NEW bus PROVE Open(bus)' <=> Open(bus) \/ bus = f.sec
  BY <1>2, <1>3, <1>4 DEF Open
<1>6. calls' # <<>> /\ calls'[1].bus = 0
  <2>1. calls # <<>> /\ calls[1].bus = 0
    BY DEF BuildInv, CallsInv, Enters
  <2>2. QED
    BY <1>2, <1>3, <2>1
<1>7. ASSUME NEW j \in DOMAIN calls', NEW k \in DOMAIN calls', j < k
      PROVE  calls'[j].bus < calls'[k].bus
  <2>1. j \in 1..Depth
    BY <1>2, <1>7
  <2>2. calls[j].bus \in Nat /\ (j # Depth => calls[j].bus < calls[Depth].bus)
    BY <1>2, <2>1, Active DEF BuildInv, CallsInv
  <2>3. calls[Depth].bus = f.bus /\ f.bus \in Nat /\ f.sec \in Nat /\ f.bus < f.sec
    BY <1>1 DEF EnteredNew
  <2>4. CASE k \in 1..Depth
    BY <1>2, <1>3, <1>7, <2>1, <2>4 DEF BuildInv, CallsInv
  <2>5. CASE k = Depth + 1
    BY <1>3, <1>4, <2>1, <2>2, <2>3, <2>5
  <2>6. QED
    BY <1>2, <2>4, <2>5
<1>8. ASSUME NEW bus \in Nat, Reached(bus)'
      PROVE  Open(bus)' \/ OnBus(Bridges', bus) \subseteq Entered'
  <2>1. Reached(bus) \/ bus = f.sec
    BY <1>1, <1>8 DEF EnteredOneMore
  <2>2. CASE bus = f.sec
    BY <1>5, <2>2
  <2>3. CASE Reached(bus)
    <3>1. Open(bus) \/ OnBus(Bridges, bus) \subseteq Entered
      BY <2>3 DEF BuildInv, CallsInv
    <3>2. Bridges' = Bridges /\ Entered \subseteq Entered'
      BY <1>1 DEF EnteredNew, EnteredOneMore
    <3>3. QED
      BY <1>5, <3>1, <3>2
  <2>4. QED
    BY <2>1, <2>2, <2>3
<1>9. CallsInv'
  BY <1>1, <1>6, <1>7, <1>8, EnterFrames DEF CallsInv
<1>10. QED
  BY <1>5, <1>9

\* What has been written stays unless it is written again.
LEMMA PutHolds ==
  ASSUME NEW off, NEW v, tree' = Put(tree, off, v)
  PROVE  /\ Holds(off, v)'
         /\ \A o, w : o # off /\ Holds(o, w) => Holds(o, w)'
<1>1. /\ DOMAIN tree' = DOMAIN tree \cup {off}
      /\ tree'[off] = v
      /\ \A o \in DOMAIN tree : o # off => tree'[o] = tree[o]
  BY DEF Put
<1>2. QED
  BY <1>1 DEF Holds

\* What two writes leave of the tree.
LEMMA EnterHolds ==
  ASSUME NEW a, NEW b, NEW v, NEW w, a # b,
         tree' = Put(Put(tree, a, v), b, w)
  PROVE  /\ Holds(a, v)' /\ Holds(b, w)'
         /\ \A o, x : o \notin {a, b} /\ Holds(o, x) => Holds(o, x)'
<1> DEFINE t == Put(tree, a, v)
<1>1. /\ DOMAIN t = DOMAIN tree \cup {a}
      /\ t[a] = v
      /\ \A o \in DOMAIN tree : o # a => t[o] = tree[o]
  BY DEF Put
<1>2. tree' = Put(t, b, w)
  OBVIOUS
<1> HIDE DEF t
<1>3. /\ DOMAIN tree' = DOMAIN t \cup {b}
      /\ tree'[b] = w
      /\ \A o \in DOMAIN t : o # b => tree'[o] = t[o]
  BY <1>2 DEF Put
<1>4. QED
  BY <1>1, <1>3 DEF Holds

\* They do not go beyond the last int.
LEMMA EnterDomain ==
  ASSUME BuildInv, NEW f \in Bridges, Enters(f)
  PROVE  DomainInv'
<1>1. EnteredNew(f) /\ Writes(Depth, f)
  BY EnterNew, EnterWrites
<1>2. Top = calls[Depth] /\ Bridges' = Bridges
  BY <1>1 DEF EnteredNew
<1>3. tree' = Put(Put(tree, Top.offset, Top.child), Top.child + 0, Len(bridges))
  BY DEF Enters, OffsetBridge
<1>4. DOMAIN tree' = DOMAIN tree \cup {Top.offset} \cup {Top.child + 0}
  BY <1>3 DEF Put
<1>5. Top.child + 0 = Top.child
  BY <1>1, <1>2 DEF Writes
<1>6. QED
  BY <1>1, <1>2, <1>4, <1>5 DEF Writes, DomainInv, BuildInv

\* What the tree holds of a bridge stays when nothing of it is written.
LEMMA NodeStays ==
  ASSUME NEW g, NodeInv(g), Bridges' = Bridges,
         \A o \in Cells(Bridges, g) : \A x : Holds(o, x) => Holds(o, x)',
         Place(Bridges, g) \in Nat,
         Len(bridges) \in Nat, Len(bridges') \in Nat,
         Len(bridges) <= Len(bridges'),
         \A p \in 1..Len(bridges) : bridges'[p] = bridges[p],
         Open(g.sec) => Open(g.sec)'
  PROVE  NodeInv(g)'
<1>1. PICK s, q, m : /\ s = Slot(Bridges, g) /\ q = Place(Bridges, g)
                     /\ m = NumOn(Bridges, g.sec)
  OBVIOUS
<1>2. /\ Holds(s, q)
      /\ \E p \in 2..Len(bridges) : bridges[p].dev = g /\ Holds(q, p - 1)
      /\ Open(g.sec) \/ Holds(q + 1, m)
  BY <1>1 DEF NodeInv, OffsetBridge, OffsetNumChild
<1>3. \A o, x : o \in {s, q, q + 1} /\ Holds(o, x) => Holds(o, x)'
  BY <1>1 DEF Cells
<1>4. \E p \in 2..Len(bridges') : bridges'[p].dev = g /\ Holds(q, p - 1)'
  <2>1. PICK p \in 2..Len(bridges) : bridges[p].dev = g /\ Holds(q, p - 1)
    BY <1>2
  <2>2. p \in 2..Len(bridges') /\ bridges'[p].dev = g
    BY <2>1
  <2>3. QED
    BY <1>3, <2>1, <2>2
<1>5. Holds(s, q)' /\ (Open(g.sec)' \/ Holds(q + 1, m)')
  BY <1>2, <1>3
<1>6. s = Slot(Bridges', g) /\ q = Place(Bridges', g) /\ m = NumOn(Bridges', g.sec)
  BY <1>1
<1>7. QED
  BY <1>1, <1>4, <1>5, <1>6 DEF NodeInv, OffsetBridge, OffsetNumChild

\* On a machine without nested bridges they hit nothing that counts.
LEMMA EnterTree ==
  ASSUME BuildInv, NEW f \in Bridges, Enters(f), ~Nested
  PROVE  TreeInv'
<1>1. /\ EnteredNew(f) /\ EnteredOneMore(f) /\ Calling(f)
      /\ Writes(Depth, f) /\ Passed(Depth) = Rank(Bridges, f) /\ TreeInv
      /\ calls \in Seq(Frames) /\ calls' \in Seq(Frames')
  BY EnterNew, EnterBridges, EnterCalling, EnterWrites DEF BuildInv, CallsInv
<1>2. BridgeSet(Bridges) /\ ~NestedIn(Bridges) /\ Bridges' = Bridges
  BY <1>1, MachineBridges DEF BuildInv, EnteredNew
<1>3. /\ Depth \in Nat \ {0} /\ Depth' = Depth + 1
      /\ DOMAIN calls = 1..Depth /\ DOMAIN calls' = 1..(Depth + 1)
  BY <1>1 DEF Calling, Depth
<1>4. /\ calls[Depth].offset = Slot(Bridges, f)
      /\ calls[Depth].child = Place(Bridges, f)
      /\ Top = calls[Depth]
  BY <1>1 DEF Writes, EnteredNew
<1>5. /\ Slot(Bridges, f) \in Nat /\ Place(Bridges, f) \in Nat
      /\ Slot(Bridges, f) >= 2 /\ Place(Bridges, f) >= 2
      /\ Slot(Bridges, f) # Place(Bridges, f)
  BY <1>2, CellRange
<1>6. tree' = Put(Put(tree, Slot(Bridges, f), Place(Bridges, f)),
                  Place(Bridges, f), Len(bridges))
  BY <1>4, <1>5 DEF Enters, OffsetBridge
<1>7. PICK s, q, m : /\ s = Slot(Bridges, f) /\ q = Place(Bridges, f)
                     /\ m = Len(bridges)
  OBVIOUS
<1>8. /\ Holds(s, q)' /\ Holds(q, m)'
       /\ \A o, x : o \notin {s, q} /\ Holds(o, x) => Holds(o, x)'
  <2>1. tree' = Put(Put(tree, s, q), q, m) /\ s # q
    BY <1>5, <1>6, <1>7
  <2>2. QED
    BY <2>1, EnterHolds
<1>9. ASSUME NEW j \in DOMAIN calls', OnBus(Bridges, calls'[j].bus) # {}
      PROVE  calls'[j].offset = Base(Bridges, calls'[j].bus) + Passed(j)'
  <2>1. CASE j \in 1..Depth
    <3>1. /\ calls'[j].bus = calls[j].bus
          /\ calls'[j].offset = calls[j].offset
      <4>1. j \in 1..(Depth - 1) \/ j = Depth
        BY <1>3, <2>1
      <4>2. QED
        BY <1>1, <4>1 DEF Calling
    <3>2. calls[j].offset = Base(Bridges, calls[j].bus) + Passed(j)
      BY <1>1, <1>3, <1>9, <2>1, <3>1 DEF TreeInv
    <3>3. Passed(j)' = Passed(j)
      BY <1>1, <1>3, <2>1, EnterPassed
    <3>4. QED
      BY <3>1, <3>2, <3>3
  <2>2. CASE j = Depth + 1
    <3>1. calls'[j].bus = f.sec /\ calls'[j].offset = Place(Bridges, f) + 2
      BY <1>1, <1>4, <2>2 DEF Calling
    <3>2. Passed(j)' = 0
      BY <1>3, <2>2, EnterPassed
    <3>3. Place(Bridges, f) + 2 = Base(Bridges, f.sec)
      BY <1>2, <1>9, <3>1, PlaceNextBus
    <3>4. Base(Bridges, f.sec) \in Nat
      BY <1>5, <3>3
    <3>5. QED
      BY <3>1, <3>2, <3>3, <3>4
  <2>3. QED
    BY <1>3, <2>1, <2>2
<1>10. Holds(OffsetBridge, 0)'
  BY <1>1, <1>5, <1>7, <1>8 DEF TreeInv, OffsetBridge
<1>11. ASSUME NEW g \in Entered PROVE NodeInv(g)'
  <2>1. NodeInv(g) /\ g \in Bridges /\ g # f
    BY <1>1, EnteredBridges DEF TreeInv, EnteredNew
  <2>2. Cells(Bridges, f) \cap Cells(Bridges, g) = {}
    BY <1>2, <2>1, CellsDisjoint
  <2>3. \A o \in Cells(Bridges, g) : \A x : Holds(o, x) => Holds(o, x)'
    BY <1>7, <1>8, <2>2 DEF Cells
  <2>4. Place(Bridges, g) \in Nat
    BY <1>2, <2>1, CellRange
  <2>5. Open(g.sec) => Open(g.sec)'
    BY EnterCalls
  <2>6. QED
    BY <1>1, <1>2, <2>1, <2>3, <2>4, <2>5, NodeStays DEF EnteredOneMore
<1>12. NodeInv(f)'
  <2>1. PICK p : p = m + 1
    OBVIOUS
  <2>2. p \in 2..Len(bridges') /\ bridges'[p].dev = f /\ p - 1 = m
    <3>1. Len(bridges) >= 1 /\ Len(bridges) \in Nat
      BY <1>1, EnteredBridges DEF EnteredOneMore, BuildInv, BridgesInv
    <3>2. QED
      BY <1>1, <1>7, <2>1, <3>1 DEF EnteredOneMore
  <2>3. Holds(q, p - 1)'
    BY <1>8, <2>2
  <2>4. Open(f.sec)'
    BY EnterCalls
  <2>5. s = Slot(Bridges', f) /\ q = Place(Bridges', f) /\ q + 0 = q
    BY <1>2, <1>5, <1>7
  <2>6. QED
    BY <1>8, <2>2, <2>3, <2>4, <2>5 DEF NodeInv, OffsetBridge
<1>13. calls' # <<>>
  BY <1>3
<1>14. QED
  BY <1>1, <1>2, <1>9, <1>10, <1>11, <1>12, <1>13 DEF TreeInv, EnteredOneMore

\* The call on top returns to the one for the child f.
Returns(f) ==
  /\ Depth \in Nat /\ Depth > 1 /\ Depth' = Depth - 1
  /\ DOMAIN calls = 1..Depth /\ DOMAIN calls' = 1..(Depth - 1)
  /\ calls' \in Seq(Frames)
  /\ \A j \in 1..(Depth - 2) : calls'[j] = calls[j]
  /\ \A j \in 1..(Depth - 1) : calls'[j].bus = calls[j].bus
                               /\ calls'[j].seen = calls[j].seen
  /\ calls'[Depth - 1].child = calls[Depth - 1].child + 2
  /\ calls'[Depth - 1].offset = calls[Depth - 1].offset + 1
  /\ tree' = Put(tree, calls[Depth - 1].child + 1,
                 NumOn(Bridges, calls[Depth].bus))
  /\ OnBus(Bridges, calls[Depth].bus) \subseteq Entered
  /\ f \in Bridges /\ f \in Entered
  /\ f.bus = calls[Depth - 1].bus /\ f.sec = calls[Depth].bus
  /\ Rank(Bridges, f) = Passed(Depth - 1)
  /\ bridges' = bridges /\ machine' = machine
  /\ Bridges' = Bridges /\ Entered' = Entered /\ Nested' = Nested

\* The last call is gone, and the one before it goes on.
LEMMA PopAndUpdate ==
  ASSUME NEW S, NEW s \in Seq(S), Len(s) > 1, NEW c \in S
  PROVE  LET t == [SubSeq(s, 1, Len(s) - 1) EXCEPT ![Len(s) - 1] = c]
         IN /\ t \in Seq(S)
            /\ Len(t) = Len(s) - 1
            /\ \A j \in 1..(Len(s) - 2) : t[j] = s[j]
            /\ t[Len(s) - 1] = c
<1> DEFINE u == SubSeq(s, 1, Len(s) - 1)
<1>1. /\ u \in Seq(S) /\ Len(u) = Len(s) - 1 /\ Len(s) \in Nat
      /\ \A j \in 1..(Len(s) - 1) : u[j] = s[j]
  OBVIOUS
<1> HIDE DEF u
<1>2. /\ [u EXCEPT ![Len(s) - 1] = c] \in Seq(S)
      /\ Len([u EXCEPT ![Len(s) - 1] = c]) = Len(s) - 1
      /\ \A j \in 1..(Len(s) - 2) : [u EXCEPT ![Len(s) - 1] = c][j] = u[j]
      /\ [u EXCEPT ![Len(s) - 1] = c][Len(s) - 1] = c
  BY <1>1
<1>3. \A j \in 1..(Len(s) - 2) : [u EXCEPT ![Len(s) - 1] = c][j] = s[j]
  BY <1>1, <1>2
<1>4. QED
  BY <1>2, <1>3 DEF u

\* That is what ReturnFromChild does.
LEMMA ReturnReturns ==
  ASSUME BuildInv, ReturnFromChild
  PROVE  \E f \in Bridges : Returns(f)
<1>1. /\ calls \in Seq(Frames) /\ Depth = Len(calls) /\ Len(calls) > 1
      /\ DOMAIN calls = 1..Depth /\ Depth \in Nat
      /\ Top = calls[Depth] /\ ToSee = {}
  BY DEF ReturnFromChild, BuildInv, CallsInv, Depth, Top
<1>2. Bridges' = Bridges /\ Entered' = Entered /\ Nested' = Nested
  BY DEF ReturnFromChild, Bridges, Entered, Nested
<1>3. PICK k : k = Depth - 1
  OBVIOUS
<1>4. k \in DOMAIN calls /\ Depth \in DOMAIN calls /\ k < Depth /\ k + 1 = Depth
  BY <1>1, <1>3
<1>5. /\ FrameInv(k) /\ calls[k] \in Frames
      /\ calls[k].seen \subseteq OnBus(Bridges, calls[k].bus)
      /\ calls[k].child \in Nat /\ calls[k].offset \in Nat
  BY <1>4, Active
<1>6. /\ Top.seen \subseteq OnBus(Bridges, Top.bus)
      /\ Top.seen = OnBus(Entered, Top.bus)
  BY <1>1, <1>4, Active DEF FrameInv
<1>7. Top.seen = OnBus(Bridges, Top.bus)
  BY <1>1, <1>6 DEF ToSee, Kids, OnBus
<1>8. PICK f \in calls[k].seen : /\ f.sec = Top.bus
                                /\ \A g \in calls[k].seen \ {f} : Before(g, f)
  BY <1>1, <1>4, <1>5 DEF FrameInv
<1>9. f \in Bridges /\ f.bus = calls[k].bus /\ f \in Entered
  BY <1>5, <1>8 DEF FrameInv, OnBus
<1>10. Rank(Bridges, f) = Passed(k)
  <2>1. Rank(Bridges, f) = Cardinality(calls[k].seen) - 1
    BY <1>5, <1>8, MachineBridges, RankLast DEF FrameInv, BuildInv
  <2>2. QED
    BY <1>4, <2>1 DEF Passed
<1> DEFINE c == [calls[k] EXCEPT !.child = @ + SizeofNode, !.offset = @ + 1]
<1>11. /\ c \in Frames
       /\ c.bus = calls[k].bus /\ c.seen = calls[k].seen
       /\ c.child = calls[k].child + 2 /\ c.offset = calls[k].offset + 1
  <2>1. /\ calls[k].bus \in Nat /\ calls[k].seen \in SUBSET Bridges
        /\ calls[k].child + 2 \in Nat /\ calls[k].offset + 1 \in Nat
    BY <1>5 DEF Frames
  <2>2. PICK p \in Frames : p = calls[k]
    BY <1>5
  <2>3. [p EXCEPT !.child = p.child + 2] =
          [bus |-> p.bus, offset |-> p.offset, child |-> p.child + 2,
           seen |-> p.seen]
    BY DEF Frames
  <2>4. c = [[p EXCEPT !.child = p.child + 2] EXCEPT !.offset = p.offset + 1]
    BY <2>2 DEF SizeofNode, Frames
  <2>5. c = [bus |-> p.bus, offset |-> p.offset + 1, child |-> p.child + 2,
             seen |-> p.seen]
    <3>1. PICK q \in Frames :
            q = [bus |-> p.bus, offset |-> p.offset, child |-> p.child + 2,
                 seen |-> p.seen]
      BY <2>1, <2>2 DEF Frames
    <3>2. [q EXCEPT !.offset = p.offset + 1]
            = [bus |-> p.bus, offset |-> p.offset + 1, child |-> p.child + 2,
               seen |-> p.seen]
      BY <3>1 DEF Frames
    <3>3. c = [q EXCEPT !.offset = p.offset + 1]
      BY <2>3, <2>4, <3>1
    <3>4. QED
      BY <3>2, <3>3
  <2>6. QED
    BY <2>1, <2>2, <2>5 DEF Frames
<1>12. calls' = [SubSeq(calls, 1, Len(calls) - 1) EXCEPT ![Len(calls) - 1] = c]
  <2>1. calls' = [SubSeq(calls, 1, k) EXCEPT ![k].child = @ + SizeofNode,
                                             ![k].offset = @ + 1]
    BY <1>3 DEF ReturnFromChild
  <2>2. SubSeq(calls, 1, k)[k] = calls[k] /\ k \in DOMAIN SubSeq(calls, 1, k)
    BY <1>1, <1>3
  <2>3. QED
    BY <1>1, <1>3, <2>1, <2>2
<1> HIDE DEF c
<1>13. /\ calls' \in Seq(Frames) /\ Len(calls') = Depth - 1
       /\ \A j \in 1..(Depth - 2) : calls'[j] = calls[j]
       /\ calls'[Depth - 1] = c
  BY <1>1, <1>11, <1>12, PopAndUpdate
<1>14. /\ \A j \in 1..(Depth - 1) : calls'[j].bus = calls[j].bus
                                   /\ calls'[j].seen = calls[j].seen
       /\ calls'[Depth - 1].child = calls[Depth - 1].child + 2
       /\ calls'[Depth - 1].offset = calls[Depth - 1].offset + 1
       /\ DOMAIN calls' = 1..(Depth - 1) /\ Depth' = Depth - 1
  BY <1>1, <1>3, <1>11, <1>13 DEF Depth
<1>15. tree' = Put(tree, calls[Depth - 1].child + 1,
                   NumOn(Bridges, calls[Depth].bus))
  BY <1>1, <1>7 DEF ReturnFromChild, OffsetNumChild, NumOn
<1>16. OnBus(Bridges, calls[Depth].bus) \subseteq Entered
  BY <1>1, <1>6, <1>7 DEF OnBus
<1>17. bridges' = bridges /\ machine' = machine
  BY DEF ReturnFromChild
<1>18. QED
  BY <1>1, <1>2, <1>3, <1>8, <1>9, <1>10, <1>13, <1>14, <1>15, <1>16, <1>17
     DEF Returns

\* The calls keep their invariant; the bus of the one that returns is closed.
LEMMA ReturnCalls ==
  ASSUME BuildInv, NEW f \in Bridges, Returns(f)
  PROVE  /\ CallsInv'
         /\ \A bus : Open(bus) => Open(bus)' \/ bus = f.sec
         /\ \A j \in 1..(Depth - 1) :
              Passed(j)' = Passed(j) + (IF j = Depth - 1 THEN 1 ELSE 0)
<1>1. /\ Depth \in Nat /\ Depth > 1 /\ Depth' = Depth - 1
      /\ DOMAIN calls = 1..Depth /\ DOMAIN calls' = 1..(Depth - 1)
      /\ Bridges' = Bridges /\ Entered' = Entered
  BY DEF Returns
<1>2. ASSUME NEW b PROVE Reached(b)' <=> Reached(b)
  BY <1>1 DEF Reached
<1>3. ASSUME NEW bus, Open(bus) PROVE Open(bus)' \/ bus = f.sec
  <2>1. PICK j \in 1..Depth : calls[j].bus = bus
    BY <1>1, <1>3 DEF Open
  <2>2. CASE j = Depth
    BY <2>1, <2>2 DEF Returns
  <2>3. CASE j \in 1..(Depth - 1)
    BY <1>1, <2>1, <2>3 DEF Open, Returns
  <2>4. QED
    BY <1>1, <2>2, <2>3
<1>4. ASSUME NEW j \in 1..(Depth - 1)
      PROVE  Passed(j)' = Passed(j) + (IF j = Depth - 1 THEN 1 ELSE 0)
  <2>1. j \in DOMAIN calls
    BY <1>1
  <2>2. /\ Cardinality(calls[j].seen) \in Nat
        /\ calls'[j].seen = calls[j].seen
    BY <2>1, Active DEF Returns
  <2>3. Passed(j) = Cardinality(calls[j].seen) - 1
    BY <1>1, <2>2 DEF Passed
  <2>4. CASE j = Depth - 1
    <3>1. ~(j < Depth')
      BY <1>1, <2>4
    <3>2. Passed(j)' = Cardinality(calls'[j].seen) - 0
      BY <3>1 DEF Passed
    <3>3. QED
      BY <2>2, <2>3, <2>4, <3>2
  <2>5. CASE j # Depth - 1
    <3>1. j < Depth'
      BY <1>1, <2>5
    <3>2. Passed(j)' = Cardinality(calls'[j].seen) - 1
      BY <3>1 DEF Passed
    <3>3. QED
      BY <2>2, <2>3, <2>5, <3>2
  <2>6. QED
    BY <2>4, <2>5
<1>5. ASSUME NEW j \in 1..(Depth - 1) PROVE FrameInv(j)'
  <2>1. /\ FrameInv(j) /\ j < Depth
        /\ calls[j].offset \in Nat /\ calls[j].child \in Nat
        /\ calls[j].bus \in Nat
        /\ Cardinality(calls[j].seen) \in Nat
    BY <1>1, Active
  <2>2. /\ calls'[j].bus = calls[j].bus /\ calls'[j].seen = calls[j].seen
        /\ j + 1 < Depth => calls'[j + 1].bus = calls[j + 1].bus
    BY <1>1 DEF Returns
  <2>3. Passed(j) \in Int
    BY <2>1 DEF Passed
  <2>4. NumOn(Bridges, calls[j].bus) \in Nat /\ Base(Bridges, calls[j].bus) \in Nat
    BY <2>1, MachineBridges, BaseStep DEF BuildInv
  <2>5. /\ calls'[j].child
             = calls'[j].offset + NumOn(Bridges, calls[j].bus) + Passed(j)'
        /\ calls'[j].offset - Passed(j)' <= Base(Bridges, calls[j].bus)
    <3>1. /\ calls[j].child
               = calls[j].offset + NumOn(Bridges, calls[j].bus) + Passed(j)
          /\ calls[j].offset - Passed(j) <= Base(Bridges, calls[j].bus)
      BY <2>1 DEF FrameInv
    <3>2. CASE j = Depth - 1
      <4>1. /\ calls'[j].child = calls[j].child + 2
            /\ calls'[j].offset = calls[j].offset + 1
        BY <3>2 DEF Returns
      <4>2. Passed(j)' = Passed(j) + 1
        BY <1>4, <3>2
      <4>3. QED
        BY <2>1, <2>3, <2>4, <3>1, <4>1, <4>2
    <3>3. CASE j # Depth - 1
      <4>1. calls'[j] = calls[j]
        BY <1>1, <3>3 DEF Returns
      <4>2. Passed(j)' = Passed(j)
        BY <1>4, <2>3, <3>3
      <4>3. QED
        BY <3>1, <4>1, <4>2
    <3>4. QED
      BY <3>2, <3>3
  <2>6. QED
    BY <1>1, <1>2, <2>1, <2>2, <2>5 DEF FrameInv
<1>6. ASSUME NEW bus \in Nat, Reached(bus)'
      PROVE  Open(bus)' \/ OnBus(Bridges', bus) \subseteq Entered'
  <2>1. Open(bus) \/ OnBus(Bridges, bus) \subseteq Entered
    BY <1>2, <1>6 DEF BuildInv, CallsInv
  <2>2. OnBus(Bridges, f.sec) \subseteq Entered
    BY DEF Returns
  <2>3. QED
    BY <1>1, <1>3, <2>1, <2>2
<1>7. CallsInv'
  <2>1. calls' \in Seq(Frames')
    BY <1>1 DEF Returns, Frames
  <2>2. calls' # <<>> => calls'[1].bus = 0
    BY <1>1 DEF BuildInv, CallsInv, Returns
  <2>3. \A j, k \in DOMAIN calls' : j < k => calls'[j].bus < calls'[k].bus
    BY <1>1 DEF BuildInv, CallsInv, Returns
  <2>4. QED
    BY <1>1, <1>5, <1>6, <2>1, <2>2, <2>3 DEF CallsInv
<1>8. QED
  BY <1>3, <1>4, <1>7

\* The count of its children is written into the node of its bridge.
LEMMA ReturnTree ==
  ASSUME BuildInv, NEW f \in Bridges, Returns(f)
  PROVE  DomainInv' /\ (~Nested => TreeInv')
<1>1. /\ Depth \in Nat /\ Depth > 1 /\ Depth' = Depth - 1
      /\ DOMAIN calls = 1..Depth /\ DOMAIN calls' = 1..(Depth - 1)
      /\ Bridges' = Bridges /\ Entered' = Entered /\ bridges' = bridges
  BY DEF Returns
<1>2. PICK k : k = Depth - 1
  OBVIOUS
<1>3. Writes(k, f)
  <2>1. k \in DOMAIN calls
    BY <1>1, <1>2
  <2>2. QED
    BY <1>2, <2>1, WritesOfCall DEF Returns
<1>4. PICK m : m = NumOn(Bridges, calls[Depth].bus)
  OBVIOUS
<1>5. tree' = Put(tree, calls[k].child + 1, m)
  BY <1>2, <1>4 DEF Returns
<1>6. DomainInv'
  <2>1. DOMAIN tree' = DOMAIN tree \cup {calls[k].child + 1}
    BY <1>5 DEF Put
  <2>2. QED
    BY <1>1, <1>3, <2>1 DEF DomainInv, BuildInv, Writes
<1>7. ASSUME ~Nested PROVE TreeInv'
  <2>1. BridgeSet(Bridges) /\ TreeInv
    BY <1>7, MachineBridges DEF BuildInv
  <2>2. PICK q : q = Place(Bridges, f)
    OBVIOUS
  <2>3. calls[k].child = q /\ q \in Nat /\ q >= 2
    BY <1>3, <1>7, <2>1, <2>2, CellRange DEF Writes
  <2>4. /\ Holds(q + 1, m)'
        /\ \A o, x : o # q + 1 /\ Holds(o, x) => Holds(o, x)'
    BY <1>5, <2>3, PutHolds
  <2>5. ASSUME NEW j \in DOMAIN calls', OnBus(Bridges, calls'[j].bus) # {}
        PROVE  calls'[j].offset = Base(Bridges, calls'[j].bus) + Passed(j)'
    <3>1. /\ j \in 1..(Depth - 1) /\ j \in DOMAIN calls
          /\ calls'[j].bus = calls[j].bus
      BY <1>1 DEF Returns
    <3>2. /\ calls[j].offset = Base(Bridges, calls[j].bus) + Passed(j)
          /\ calls[j].offset \in Nat /\ calls[j].bus \in Nat
      BY <2>1, <2>5, <3>1, Active DEF TreeInv
    <3>3. Base(Bridges, calls[j].bus) \in Nat
      BY <2>1, <3>2, BaseStep
    <3>4. Passed(j) \in Int
      <4>1. Cardinality(calls[j].seen) \in Nat
        BY <3>1, Active
      <4>2. QED
        BY <4>1 DEF Passed
    <3>5. CASE j = Depth - 1
      <4>1. calls'[j].offset = calls[j].offset + 1
        BY <3>5 DEF Returns
      <4>2. Passed(j)' = Passed(j) + 1
        BY <3>1, <3>5, ReturnCalls
      <4>3. QED
        BY <3>1, <3>2, <3>3, <3>4, <4>1, <4>2
    <3>6. CASE j # Depth - 1
      <4>1. calls'[j].offset = calls[j].offset
        <5>1. j \in 1..(Depth - 2)
          BY <1>1, <3>1, <3>6
        <5>2. QED
          BY <5>1 DEF Returns
      <4>2. Passed(j)' = Passed(j)
        BY <3>1, <3>4, <3>6, ReturnCalls
      <4>3. QED
        BY <3>1, <3>2, <4>1, <4>2
    <3>7. QED
      BY <3>5, <3>6
  <2>6. Holds(OffsetBridge, 0)'
    BY <2>1, <2>3, <2>4 DEF TreeInv, OffsetBridge
  <2>7. ASSUME NEW g \in Entered PROVE NodeInv(g)'
    <3>1. NodeInv(g) /\ g \in Bridges
      BY <2>1, EnteredBridges DEF TreeInv
    <3>2. Len(bridges) \in Nat
      BY DEF BuildInv, BridgesInv
    <3>3. PICK s, p : s = Slot(Bridges, g) /\ p = Place(Bridges, g)
      OBVIOUS
    <3>4. p \in Nat /\ s \in Nat /\ s < p
      BY <2>1, <3>1, <3>3, CellRange
    <3>5. CASE g # f
      <4>1. q + 1 \notin Cells(Bridges, g)
        <5>1. Cells(Bridges, f) \cap Cells(Bridges, g) = {}
          BY <2>1, <3>1, <3>5, CellsDisjoint
        <5>2. QED
          BY <2>2, <5>1 DEF Cells
      <4>2. \A o \in Cells(Bridges, g) : \A x : Holds(o, x) => Holds(o, x)'
        BY <2>4, <4>1
      <4>3. Open(g.sec) => Open(g.sec)'
        <5>1. g.sec # f.sec
          BY <2>1, <3>1, <3>5 DEF BridgeSet
        <5>2. QED
          BY <5>1, ReturnCalls
      <4>4. QED
        BY <1>1, <3>1, <3>2, <3>3, <3>4, <4>2, <4>3, NodeStays
    <3>6. CASE g = f
      <4>1. p = q /\ m = NumOn(Bridges, g.sec)
        BY <1>4, <2>2, <3>3, <3>6 DEF Returns
      <4>2. /\ Holds(s, q)
            /\ \E e \in 2..Len(bridges) : bridges[e].dev = g /\ Holds(q, e - 1)
        BY <3>1, <3>3, <3>4, <4>1 DEF NodeInv, OffsetBridge
      <4>3. /\ Holds(s, q)'
            /\ \E e \in 2..Len(bridges) : bridges[e].dev = g /\ Holds(q, e - 1)'
        <5>1. s # q + 1 /\ q # q + 1
          BY <3>4, <4>1
        <5>2. PICK e \in 2..Len(bridges) : bridges[e].dev = g /\ Holds(q, e - 1)
          BY <4>2
        <5>3. Holds(q, e - 1)'
          BY <2>4, <5>1, <5>2
        <5>4. Holds(s, q)'
          BY <2>4, <4>2, <5>1
        <5>5. QED
          BY <5>2, <5>3, <5>4
      <4>4. /\ s = Slot(Bridges', g) /\ q = Place(Bridges', g) /\ q + 0 = q
            /\ m = NumOn(Bridges', g.sec)
        BY <1>1, <2>3, <3>3, <4>1
      <4>5. QED
        BY <1>1, <2>4, <4>3, <4>4 DEF NodeInv, OffsetBridge, OffsetNumChild
    <3>7. QED
      BY <3>5, <3>6
  <2>8. calls' # <<>>
    BY <1>1
  <2>9. QED
    BY <1>1, <2>5, <2>6, <2>7, <2>8 DEF TreeInv
<1>8. QED
  BY <1>6, <1>7

\* The count of the children of bridge 0 is written into the root.
LEMMA EndStep ==
  ASSUME BuildInv, BuildEnd
  PROVE  BuildInv'
<1>1. /\ Depth = 1 /\ DOMAIN calls = {1} /\ Top = calls[1] /\ ToSee = {}
      /\ calls[1].bus = 0 /\ calls' = <<>>
      /\ machine' = machine /\ bridges' = bridges
      /\ Bridges' = Bridges /\ Entered' = Entered /\ Nested' = Nested
  <2>1. calls \in Seq(Frames)
    BY DEF BuildInv, CallsInv
  <2>2. QED
    BY <2>1 DEF BuildEnd, BuildInv, CallsInv, Depth, Top, Bridges, Entered, Nested
<1>2. Top.seen = OnBus(Bridges, 0) /\ OnBus(Bridges, 0) \subseteq Entered
  <2>1. /\ Top.seen \subseteq OnBus(Bridges, 0)
        /\ Top.seen = OnBus(Entered, 0)
    BY <1>1, Active DEF FrameInv
  <2>2. QED
    BY <1>1, <2>1 DEF ToSee, Kids, OnBus
<1>3. PICK m : m = NumOn(Bridges, 0)
  OBVIOUS
<1>4. tree' = Put(tree, 1, m)
  BY <1>2, <1>3 DEF BuildEnd, OffsetNumChild, NumOn
<1>5. BridgesInv'
  <2>1. HostBridge' = HostBridge
    BY <1>1 DEF HostBridge, Hosts, Devs
  <2>2. \A b : Reached(b)' <=> Reached(b)
    BY <1>1 DEF Reached
  <2>3. QED
    BY <1>1, <2>1, <2>2 DEF BridgesInv, BuildInv
<1>6. CallsInv'
  <2>1. ASSUME NEW b \in Nat, Reached(b)' PROVE OnBus(Bridges', b) \subseteq Entered'
    <3>1. Open(b) \/ OnBus(Bridges, b) \subseteq Entered
      BY <1>1, <2>1 DEF Reached, BuildInv, CallsInv
    <3>2. Open(b) => b = 0
      BY <1>1 DEF Open
    <3>3. QED
      BY <1>1, <1>2, <3>1, <3>2
  <2>2. calls' \in Seq(Frames') /\ DOMAIN calls' = {}
    BY <1>1
  <2>3. QED
    BY <1>1, <2>1, <2>2 DEF CallsInv
<1>7. DomainInv'
  <2>1. DOMAIN tree' = DOMAIN tree \cup {1}
    BY <1>4 DEF Put
  <2>2. Cardinality(Bridges) \in Nat
    BY MachineBridges, Counted DEF BuildInv
  <2>3. QED
    BY <1>1, <2>1, <2>2 DEF DomainInv, BuildInv
<1>8. ASSUME ~Nested PROVE TreeInv'
  <2>1. BridgeSet(Bridges) /\ TreeInv
    BY <1>8, MachineBridges DEF BuildInv
  <2>2. /\ Holds(1, m)'
        /\ \A o, x : o # 1 /\ Holds(o, x) => Holds(o, x)'
    BY <1>4, PutHolds
  <2>3. Holds(OffsetBridge, 0)' /\ Holds(OffsetNumChild, m)'
    BY <2>1, <2>2 DEF TreeInv, OffsetBridge, OffsetNumChild
  <2>4. ASSUME NEW g \in Entered PROVE NodeInv(g)'
    <3>1. NodeInv(g) /\ g \in Bridges
      BY <2>1, EnteredBridges DEF TreeInv
    <3>2. 1 \notin Cells(Bridges, g) /\ Place(Bridges, g) \in Nat
      BY <2>1, <3>1, CellRange DEF Cells
    <3>3. \A o \in Cells(Bridges, g) : \A x : Holds(o, x) => Holds(o, x)'
      BY <2>2, <3>2
    <3>4. ~Open(g.sec)
      BY <1>1, <2>1, <3>1 DEF Open, BridgeSet
    <3>5. Len(bridges) \in Nat
      BY DEF BuildInv, BridgesInv
    <3>6. QED
      BY <1>1, <3>1, <3>2, <3>3, <3>4, <3>5, NodeStays
  <2>5. DOMAIN calls' = {}
    BY <1>1
  <2>6. m = NumOn(Bridges', 0)
    BY <1>1, <1>3
  <2>7. QED
    BY <1>1, <2>3, <2>4, <2>5, <2>6 DEF TreeInv
<1>9. QED
  BY <1>1, <1>5, <1>6, <1>7, <1>8 DEF BuildInv

\* The first call is for bus 0.
LEMMA InitBuild == TreeInit => BuildInv
<1> SUFFICES ASSUME TreeInit PROVE BuildInv
  OBVIOUS
<1>1. /\ machine \in Machines /\ BridgeSet(Bridges)
      /\ tree = [o \in {0} |-> 0]
      /\ bridges = <<[dev |-> HostBridge, busno |-> 0]>>
      /\ calls = <<Enter(0, 2)>>
  BY MachineBridges DEF TreeInit, SizeofNode
<1>2. Entered = {} /\ Cardinality(Entered) = 0
  <2>1. Len(bridges) = 1 /\ 2..1 = {}
    BY <1>1
  <2>2. Entered = {}
    BY <2>1 DEF Entered
  <2>3. QED
    BY <2>2, FS_EmptySet
<1>3. NumOn(Bridges, 0) \in Nat /\ Base(Bridges, 0) = 2 /\ Cardinality(Bridges) \in Nat
  <2>1. Below(Bridges, 0) = {}
    BY <1>1 DEF Below, BridgeSet
  <2>2. Base(Bridges, 0) = 2 + 3 * 0
    BY <2>1, FS_EmptySet DEF Base, SizeofNode
  <2>3. QED
    BY <1>1, <2>2, BaseStep, Counted
<1>4. /\ DOMAIN calls = {1} /\ Len(calls) = 1 /\ Depth = 1
      /\ calls[1] = [bus |-> 0, offset |-> 2, child |-> 2 + NumOn(Bridges, 0), seen |-> {}]
  BY <1>1 DEF Enter, Depth, FirstChild, NumOn, Kids, OnBus
<1>5. BridgesInv
  BY <1>1, <1>2 DEF BridgesInv
<1>6. Passed(1) = 0
  <2>1. Cardinality(calls[1].seen) = 0 /\ ~(1 < Depth)
    BY <1>4, FS_EmptySet
  <2>2. Passed(1) = Cardinality(calls[1].seen) - 0
    BY <2>1 DEF Passed
  <2>3. QED
    BY <2>1, <2>2
<1>7. FrameInv(1)
  BY <1>2, <1>3, <1>4, <1>6 DEF FrameInv, Reached, OnBus
<1>8. CallsInv
  <2>1. calls \in Seq(Frames)
    <3>1. Enter(0, 2) \in Frames
      BY <1>1, <1>3, <1>4 DEF Frames
    <3>2. QED
      BY <1>1, <3>1
  <2>2. \A b \in Nat : Reached(b) => Open(b)
    BY <1>2, <1>4 DEF Reached, Open
  <2>3. QED
    BY <1>4, <1>7, <2>1, <2>2 DEF CallsInv
<1>9. DomainInv
  BY <1>1, <1>3 DEF DomainInv
<1>10. TreeInv
  BY <1>1, <1>2, <1>3, <1>4, <1>6 DEF TreeInv, Holds, OffsetBridge
<1>11. QED
  BY <1>1, <1>5, <1>8, <1>9, <1>10 DEF BuildInv

\* Every step of build_tree keeps the invariant.
LEMMA BuildStep ==
  ASSUME BuildInv, BuildTree
  PROVE  BuildInv'
<1>1. CASE EnterChild
  <2>1. PICK f \in Bridges : Enters(f)
    BY <1>1, EnterChildEnters
  <2>2. BridgesInv' /\ CallsInv' /\ DomainInv' /\ (~Nested => TreeInv')
    BY <2>1, EnterBridges, EnterCalls, EnterDomain, EnterTree
  <2>3. machine' = machine /\ Nested' = Nested
    BY <2>1, EnterNew DEF Enters, EnteredNew
  <2>4. QED
    BY <2>2, <2>3 DEF BuildInv
<1>2. CASE ReturnFromChild
  <2>1. PICK f \in Bridges : Returns(f)
    BY <1>2, ReturnReturns
  <2>2. CallsInv' /\ DomainInv' /\ (~Nested => TreeInv')
    BY <2>1, ReturnCalls, ReturnTree
  <2>3. /\ machine' = machine /\ Nested' = Nested /\ bridges' = bridges
        /\ Bridges' = Bridges /\ Entered' = Entered
    BY <2>1 DEF Returns
  <2>4. BridgesInv'
    <3>1. HostBridge' = HostBridge
      BY <2>3 DEF HostBridge, Hosts, Devs
    <3>2. \A b : Reached(b)' <=> Reached(b)
      BY <2>3 DEF Reached
    <3>3. QED
      BY <2>3, <3>1, <3>2 DEF BridgesInv, BuildInv
  <2>5. QED
    BY <2>2, <2>3, <2>4 DEF BuildInv
<1>3. CASE BuildEnd
  BY <1>3, EndStep
<1>4. QED
  BY <1>1, <1>2, <1>3 DEF BuildTree

-----------------------------------------------------------------------------
(* The routing of the interrupts and the driver's search.                  *)

\* The interrupt tables of the bridges hold entries of interrupt tables.
Entries == [dev : Nat, fn : Nat, pin : 0..3, irq : Nat]
TablesInv == \A p \in DOMAIN tables : tables[p] \in Seq(Entries)

PhaseInv ==
  /\ TablesInv
  /\ phase \in {"build", "undefined", "search", "failed", "register",
               "running"}
  /\ todo \in Seq(Nat \cup {-1})

PciInv == BuildInv /\ IrqInv /\ PhaseInv

\* What the driver finds for a pin is an interrupt of the table, or -1.
LEMMA IrqOfType ==
  ASSUME NEW prt \in Seq(Entries), NEW k \in Nat, NEW pin \in Int
  PROVE  IrqOf(prt, k, pin) \in Nat \cup {-1}
<1> DEFINE own == {j \in Run(prt, k) : prt[j].pin = pin}
<1>1. /\ own \subseteq DOMAIN prt
      /\ DOMAIN prt = 1..Len(prt) /\ Len(prt) \in Nat
  BY DEF Run
<1>2. IrqOf(prt, k, pin) = IF own = {} THEN -1 ELSE prt[Max(own)].irq
  BY DEF IrqOf
<1>3. CASE own = {}
  BY <1>2, <1>3
<1>4. CASE own # {}
  <2>1. own \subseteq Nat /\ \A x \in own : x <= Len(prt)
    BY <1>1
  <2> HIDE DEF own
  <2>2. Max(own) \in own
    BY <1>1, <1>4, <2>1, Greatest
  <2>3. prt[Max(own)] \in Entries
    BY <1>1, <2>2
  <2>4. prt[Max(own)].irq \in Nat
    BY <2>3 DEF Entries
  <2>5. QED
    BY <1>2, <1>4, <2>4
<1>5. QED
  BY <1>3, <1>4

\* What the tree has been built to be does not change with the rest.
LEMMA BuildStays ==
  ASSUME BuildInv, UNCHANGED <<machine, tree, bridges, calls>>
  PROVE  BuildInv'
<1>1. Bridges' = Bridges /\ HostBridge' = HostBridge
  BY DEF Bridges, HostBridge, Hosts, Devs
<1>2. Nested' = Nested
  BY <1>1 DEF Nested
<1>3. Entered' = Entered /\ Depth' = Depth
  BY DEF Entered, Depth
<1>4. \A bus : Reached(bus)' = Reached(bus) /\ Open(bus)' = Open(bus)
  BY <1>3 DEF Reached, Open
<1>5. \A j : Passed(j)' = Passed(j)
  BY <1>3 DEF Passed
<1>6. Frames' = Frames
  BY <1>1 DEF Frames
<1>7. \A off, v : Holds(off, v)' = Holds(off, v)
  BY DEF Holds
<1>8. \A bus : /\ Base(Bridges, bus)' = Base(Bridges, bus)
               /\ NumOn(Bridges, bus)' = NumOn(Bridges, bus)
               /\ OnBus(Bridges, bus)' = OnBus(Bridges, bus)
               /\ OnBus(Entered, bus)' = OnBus(Entered, bus)
  BY <1>1, <1>3 DEF Base, NumOn, OnBus, Below
<1>9. \A f : /\ Slot(Bridges, f)' = Slot(Bridges, f)
             /\ Place(Bridges, f)' = Place(Bridges, f)
  BY <1>1 DEF Slot, Place, Base, NumOn, OnBus, Below, Rank
<1>10. BridgesInv'
  BY <1>1, <1>3, <1>4 DEF BuildInv, BridgesInv
<1>11. \A j : FrameInv(j)' = FrameInv(j)
  BY <1>3, <1>4, <1>5, <1>8 DEF FrameInv
<1>12. CallsInv'
  BY <1>3, <1>4, <1>6, <1>8, <1>11 DEF BuildInv, CallsInv
<1>13. DomainInv'
  BY <1>1 DEF BuildInv, DomainInv
<1>14. \A f : NodeInv(f)' = NodeInv(f)
  BY <1>4, <1>7, <1>8, <1>9 DEF NodeInv
<1>15. ~Nested => TreeInv'
  BY <1>3, <1>5, <1>7, <1>8, <1>14 DEF BuildInv, TreeInv
<1>16. QED
  BY <1>2, <1>10, <1>12, <1>13, <1>15 DEF BuildInv

\* The handlers do not change with the rest either.
LEMMA IrqStays ==
  ASSUME IrqInv, UNCHANGED irqVars
  PROVE  IrqInv'
BY DEF irqVars, table, adding, dispatch, IrqInv, IrqTypeOK, FilledInv

\* assign_irq hands out the tables that ACPI lists.
LEMMA AssignStep ==
  ASSUME BuildInv, AssignIrqs
  PROVE  TablesInv'
<1>1. SUFFICES ASSUME NEW p \in DOMAIN tables'
      PROVE  tables'[p] \in Seq(Entries)
  BY DEF TablesInv
<1> DEFINE given == {b \in DOMAIN machine.prt :
                       \E o \in NodeOf(b) : At(o + OffsetBridge) = p - 1}
<1>2. tables'[p] = IF given = {} THEN <<>>
                   ELSE machine.prt[CHOOSE b \in given : TRUE]
  BY <1>1 DEF AssignIrqs
<1>3. CASE given = {}
  BY <1>2, <1>3
<1>4. CASE given # {}
  <2>1. (CHOOSE b \in given : TRUE) \in given
    BY <1>4
  <2>2. PICK b \in DOMAIN machine.prt : tables'[p] = machine.prt[b]
    BY <1>2, <1>4, <2>1
  <2>3. machine \in Machines
    BY DEF BuildInv
  <2>4. QED
    BY <2>2, <2>3, NicAssumption DEF Entries
<1>5. QED
  BY <1>3, <1>4

\* r8169_init takes its interrupts from one of them.
LEMMA LookUpStep ==
  ASSUME PciInv, LookUp
  PROVE  PhaseInv'
<1>1. UNCHANGED tables
  BY DEF LookUp, treeVars
<1>2. TablesInv'
  BY <1>1 DEF PciInv, PhaseInv, TablesInv
<1>3. CASE phase' = "failed" /\ todo' = <<>>
  BY <1>2, <1>3 DEF PhaseInv
<1>4. ASSUME NEW row \in Rows, phase' = "register",
             todo' = [pin \in 1..4 |-> IrqOf(tables[row[1]], row[2], pin - 1)]
      PROVE  PhaseInv'
  <2>1. PICK f : row \in RowsFor(f)
    BY DEF Rows, FindIrqTable
  <2>2. PICK p \in DOMAIN tables : \E k \in Starts(tables[p]) : row = <<p, k>>
    BY <2>1 DEF RowsFor
  <2>3. PICK k \in Starts(tables[p]) : row = <<p, k>>
    BY <2>2
  <2>4. tables[p] \in Seq(Entries)
    BY DEF PciInv, PhaseInv, TablesInv
  <2>5. k \in Nat
    BY <2>4 DEF Starts
  <2>6. \A pin \in 1..4 : IrqOf(tables[p], k, pin - 1) \in Nat \cup {-1}
    BY <2>4, <2>5, IrqOfType
  <2>7. todo' = [pin \in 1..4 |-> IrqOf(tables[p], k, pin - 1)]
    BY <1>4, <2>3
  <2>8. todo' \in [1..4 -> Nat \cup {-1}]
    BY <2>6, <2>7
  <2>9. todo' \in Seq(Nat \cup {-1})
    BY <2>8, SeqDef
  <2>10. QED
    BY <1>2, <1>4, <2>9 DEF PhaseInv
<1>5. QED
  BY <1>3, <1>4 DEF LookUp

\* Every step of the start-up and every interrupt keeps the invariant.
LEMMA PciStep ==
  ASSUME PciInv, [PciNext]_pciVars
  PROVE  PciInv'
<1>1. BuildInv /\ IrqInv /\ PhaseInv
  BY DEF PciInv
<1>2. ASSUME UNCHANGED treeVars PROVE BuildInv' /\ TablesInv'
  <2>1. UNCHANGED <<machine, tree, bridges, calls>> /\ tables' = tables
    BY <1>2 DEF treeVars
  <2>2. BuildInv'
    BY <1>1, <2>1, BuildStays
  <2>3. QED
    BY <1>1, <2>1, <2>2 DEF PhaseInv, TablesInv
<1>3. CASE Build
  <2>1. tables' = tables
    BY <1>3 DEF Build, BuildTree, EnterChild, ReturnFromChild, BuildEnd
  <2>2. BuildInv'
    BY <1>1, <1>3, BuildStep DEF Build
  <2>3. IrqInv'
    BY <1>1, <1>3, IrqStays DEF Build
  <2>4. PhaseInv'
    BY <1>1, <1>3, <2>1 DEF Build, PhaseInv, TablesInv
  <2>5. QED
    BY <2>2, <2>3, <2>4 DEF PciInv
<1>4. CASE Built
  <2>1. IrqInv'
    BY <1>1, <1>4, IrqStays DEF Built
  <2>2. BuildInv' /\ TablesInv'
    <3>1. CASE AssignIrqs
      <4>1. TablesInv'
        BY <1>1, <3>1, AssignStep
      <4>2. UNCHANGED <<machine, tree, bridges, calls>>
        BY <3>1 DEF AssignIrqs
      <4>3. QED
        BY <1>1, <4>1, <4>2, BuildStays
    <3>2. CASE UNCHANGED treeVars
      BY <1>2, <3>2
    <3>3. QED
      BY <1>4, <3>1, <3>2 DEF Built
  <2>3. phase' \in {"search", "undefined"} /\ todo' = todo
    BY <1>4 DEF Built
  <2>4. PhaseInv'
    BY <1>1, <2>2, <2>3 DEF PhaseInv
  <2>5. QED
    BY <2>1, <2>2, <2>4 DEF PciInv
<1>5. CASE LookUp
  <2>1. IrqInv' /\ BuildInv'
    BY <1>1, <1>2, <1>5, IrqStays DEF LookUp
  <2>2. QED
    BY <1>5, <2>1, LookUpStep DEF PciInv
<1>6. CASE Register
  <2> DEFINE T == Nat \cup {-1}
  <2>1. todo \in Seq(T) /\ todo # <<>>
    BY <1>1, <1>6 DEF Register, PhaseInv
  <2>2. Head(todo) \in Int /\ Tail(todo) \in Seq(T)
    <3>1. T \subseteq Int
      OBVIOUS
    <3>2. Head(todo) \in T /\ Tail(todo) \in Seq(T)
      BY <2>1, HeadTailProperties
    <3>3. QED
      BY <3>1, <3>2
  <2>3. IrqInv'
    BY <1>1, <1>6, <2>2, AddStep, NicAssumption DEF Register
  <2>4. BuildInv' /\ TablesInv'
    BY <1>2, <1>6 DEF Register
  <2>5. PhaseInv'
    BY <1>1, <1>6, <2>2, <2>4 DEF Register, PhaseInv
  <2>6. QED
    BY <2>3, <2>4, <2>5 DEF PciInv
<1>7. CASE Registered
  <2>1. IrqInv' /\ BuildInv' /\ TablesInv'
    BY <1>1, <1>2, <1>7, IrqStays DEF Registered
  <2>2. PhaseInv'
    BY <1>1, <1>7, <2>1 DEF Registered, PhaseInv
  <2>3. QED
    BY <2>1, <2>2 DEF PciInv
<1>8. CASE Dispatch
  <2>1. IrqInv'
    BY <1>1, <1>8, AddStep, DispatchStep DEF Dispatch
  <2>2. BuildInv' /\ TablesInv'
    BY <1>2, <1>8 DEF Dispatch
  <2>3. PhaseInv'
    BY <1>1, <1>8, <2>2 DEF Dispatch, PhaseInv
  <2>4. QED
    BY <2>1, <2>2, <2>3 DEF PciInv
<1>9. CASE UNCHANGED pciVars
  <2>1. IrqInv' /\ BuildInv' /\ TablesInv'
    BY <1>1, <1>2, <1>9, IrqStays DEF pciVars
  <2>2. PhaseInv'
    BY <1>1, <1>9, <2>1 DEF pciVars, PhaseInv
  <2>3. QED
    BY <2>1, <2>2 DEF PciInv
<1>10. QED
  BY <1>3, <1>4, <1>5, <1>6, <1>7, <1>8, <1>9 DEF PciNext, Cmain

\* It holds when pci_init begins to build the tree.
LEMMA InitPci == PciInit => PciInv
<1> SUFFICES ASSUME PciInit PROVE PciInv
  OBVIOUS
<1>1. IrqInv
  BY InitIrq DEF PciInit
<1>2. BuildInv
  BY InitBuild DEF PciInit
<1>3. tables = <<>> /\ phase = "build" /\ todo = <<>>
  BY DEF PciInit, TreeInit
<1>4. PhaseInv
  BY <1>3 DEF PhaseInv, TablesInv
<1>5. QED
  BY <1>1, <1>2, <1>4 DEF PciInv

\* From the start of pci_init on, wherever an interrupt falls.
THEOREM PciInvariance == PciSpec => []PciInv
BY InitPci, PciStep, PTL DEF PciSpec

\* pci_irq never calls through an empty slot while the driver adds its
\* handler for what pci_init has found.
THEOREM PciCallsAreStored == PciSpec => []CalledIsStored
<1>1. PciInv => CalledIsStored
  BY StoredWhenFilled DEF PciInv
<1>2. QED
  BY <1>1, PciInvariance, PTL

\* The bridges that the tree is allocated for are as many as it gets.
LEMMA EnoughBridges ==
  ASSUME BuildInv
  PROVE  /\ Cardinality(Bridges) \in Nat
         /\ NumBridge \in Nat
         /\ Cardinality(Bridges) + 1 <= NumBridge
<1>1. machine \in Machines /\ Numbered(machine.fns)
  BY PciAssumption DEF BuildInv
<1>2. PICK h \in machine.fns : Visible(machine.fns, h) /\ h.kind = "host"
  BY <1>1 DEF Numbered
<1>3. h \in Hosts /\ h \notin Bridges
  BY <1>2 DEF Hosts, Devs, Bridges, BridgesOf, IsBridge
<1>4. IsFiniteSet(machine.fns) /\ Bridges \cup Hosts \subseteq machine.fns
  BY <1>1 DEF Numbered, Hosts, Devs, Bridges, BridgesOf
<1>5. IsFiniteSet(Bridges) /\ IsFiniteSet(Bridges \cup Hosts)
  BY <1>4, FS_Subset
<1>6. IsFiniteSet(Bridges \cup {h})
      /\ Cardinality(Bridges \cup {h}) = Cardinality(Bridges) + 1
  BY <1>3, <1>5, FS_AddElement
<1>7. Cardinality(Bridges \cup {h}) <= Cardinality(Bridges \cup Hosts)
  BY <1>3, <1>5, FS_Subset
<1>8. /\ Cardinality(Bridges) \in Nat
      /\ Cardinality(Bridges \cup Hosts) \in Nat
  BY <1>5, FS_CardinalityType
<1>9. QED
  BY <1>6, <1>7, <1>8 DEF NumBridge

\* build_tree writes no int beyond those pci_init has allocated, and numbers
\* no more bridges than there are, on any machine the firmware has numbered.
THEOREM PciTypeCorrect == PciSpec => []PciTypeOK
<1>1. ASSUME PciInv PROVE PciTypeOK
  <2>1. BuildInv /\ IrqTypeOK /\ PhaseInv
    BY <1>1 DEF PciInv, IrqInv
  <2>2. /\ Cardinality(Bridges) \in Nat
        /\ NumBridge \in Nat
        /\ Cardinality(Bridges) + 1 <= NumBridge
    BY <2>1, EnoughBridges
  <2>3. Cardinality(Entered) \in Nat
        /\ Cardinality(Entered) <= Cardinality(Bridges)
    BY <2>1, EnteredBridges
  <2>4. Len(bridges) = 1 + Cardinality(Entered)
    BY <2>1 DEF BuildInv, BridgesInv
  <2>5. Len(bridges) <= NumBridge
    BY <2>2, <2>3, <2>4
  <2>6. DOMAIN tree \subseteq 0..(1 + 3 * Cardinality(Bridges))
    BY <2>1 DEF BuildInv, DomainInv
  <2>7. TreeSize = 3 * NumBridge - 1
    BY <2>2 DEF TreeSize, SizeofNode
  <2>8. 1 + 3 * Cardinality(Bridges) <= TreeSize - 1
    BY <2>2, <2>7
  <2>9. TreeSize - 1 \in Int /\ 1 + 3 * Cardinality(Bridges) \in Int
    BY <2>2, <2>7
  <2>10. DOMAIN tree \subseteq 0..(TreeSize - 1)
    BY <2>6, <2>8, <2>9
  <2>11. QED
    BY <2>1, <2>5, <2>10 DEF PciTypeOK, PhaseInv
<1>2. PciInv => PciTypeOK
  BY <1>1
<1>3. QED
  BY <1>2, PciInvariance, PTL

-----------------------------------------------------------------------------
(* The tree that pci_init has built, as it is walked.                      *)

\* The tree of a machine without nested bridges, when build_tree is done.
Finished == BuildInv /\ calls = <<>> /\ ~Nested

\* The node of a bus: the root, or the node of the bridge to it.
IsNode(o, bus) ==
  \/ bus = 0 /\ o = 0
  \/ \E f \in Bridges : f.sec = bus /\ o = Place(Bridges, f)

\* On the way down from the root no bridge is missed: a missed one on the
\* lowest bus would be behind one that has been come to.
LEMMA AllEntered ==
  ASSUME BuildInv, calls = <<>>
  PROVE  Entered = Bridges
<1>1. BridgeSet(Bridges) /\ Entered \subseteq Bridges
  BY MachineBridges, EnteredBridges DEF BuildInv
<1> DEFINE Missed == Bridges \ Entered
           Buses == {f.bus : f \in Missed}
<1>2. SUFFICES ASSUME Missed # {} PROVE FALSE
  BY <1>1
<1>3. Buses \subseteq Nat /\ Buses # {}
  BY <1>1, <1>2 DEF BridgeSet
<1>4. PICK b \in Buses : \A c \in Buses : b <= c
  BY <1>3, Least
<1>5. PICK f \in Missed : f.bus = b
  OBVIOUS
<1>6. b \in Nat
  BY <1>3
<1>7. Reached(b)
  <2>1. CASE b = 0
    BY <2>1 DEF Reached
  <2>2. CASE b # 0
    <3>1. PICK g \in Bridges : g.sec = b
      BY <1>1, <1>5, <2>2 DEF BridgeSet
    <3>2. g.bus \in Nat /\ g.bus < b
      BY <1>1, <3>1 DEF BridgeSet
    <3>3. g \notin Missed
      <4> SUFFICES ASSUME g \in Missed PROVE FALSE
        OBVIOUS
      <4>1. g.bus \in Buses
        OBVIOUS
      <4>2. b <= g.bus
        BY <1>4, <4>1
      <4>3. QED
        BY <1>6, <3>2, <4>2
    <3>4. QED
      BY <3>1, <3>3 DEF Reached
  <2>3. QED
    BY <2>1, <2>2
<1>8. ~Open(b)
  BY DEF Open
<1>9. OnBus(Bridges, b) \subseteq Entered
  BY <1>6, <1>7, <1>8 DEF BuildInv, CallsInv
<1>10. QED
  BY <1>5, <1>9 DEF OnBus

\* The node of a bridge, as its readers see it.
LEMMA BridgeNode ==
  ASSUME Finished, NEW f \in Bridges
  PROVE  /\ At(Slot(Bridges, f)) = Place(Bridges, f)
         /\ Known(Place(Bridges, f))
         /\ BridgeAt(Place(Bridges, f)).dev = f
         /\ BridgeAt(Place(Bridges, f)).busno = f.sec
         /\ At(Place(Bridges, f) + OffsetNumChild) = NumOn(Bridges, f.sec)
<1>1. NodeInv(f)
  BY AllEntered DEF Finished, BuildInv, TreeInv
<1>2. PICK q : q = Place(Bridges, f)
  OBVIOUS
<1>3. q \in Nat
  BY <1>2, MachineBridges, CellRange DEF Finished, BuildInv
<1>4. At(Slot(Bridges, f)) = q
  BY <1>1, <1>2 DEF NodeInv, Holds, At
<1>5. PICK p \in 2..Len(bridges) : bridges[p].dev = f /\ Holds(q, p - 1)
  BY <1>1, <1>2, <1>3 DEF NodeInv, OffsetBridge
<1>6. At(q) = p - 1
  BY <1>5 DEF Holds, At
<1>7. bridges[p].busno = f.sec /\ p \in DOMAIN bridges
  BY <1>5 DEF Finished, BuildInv, BridgesInv
<1>8. At(q + OffsetBridge) + 1 = p
  BY <1>3, <1>6, <1>5 DEF OffsetBridge
<1>9. Known(q) /\ BridgeAt(q) = bridges[p]
  BY <1>7, <1>8 DEF Known, BridgeAt
<1>10. ~Open(f.sec)
  BY DEF Open, Finished
<1>11. At(q + OffsetNumChild) = NumOn(Bridges, f.sec)
  BY <1>1, <1>2, <1>10 DEF NodeInv, Holds, At
<1>12. QED
  BY <1>2, <1>4, <1>5, <1>7, <1>9, <1>11

\* The node of a bus: its number, and the place of the bridges on it.
LEMMA BusNode ==
  ASSUME Finished, NEW bus \in Nat, NEW o, IsNode(o, bus)
  PROVE  /\ o \in Nat
         /\ Known(o)
         /\ BridgeAt(o).busno = bus
         /\ At(o + OffsetNumChild) = NumOn(Bridges, bus)
         /\ NumOn(Bridges, bus) # 0 => o + SizeofNode = Base(Bridges, bus)
<1>1. BridgeSet(Bridges) /\ ~NestedIn(Bridges)
  BY MachineBridges DEF Finished, BuildInv
<1>2. CASE bus = 0 /\ o = 0
  <2>1. TreeInv /\ BridgesInv
    BY DEF Finished, BuildInv
  <2>2. At(0) = 0 /\ At(OffsetNumChild) = NumOn(Bridges, 0)
    BY <2>1 DEF TreeInv, Holds, At, Finished, OffsetBridge
  <2>3. 1 \in DOMAIN bridges /\ bridges[1].busno = 0
    BY <2>1 DEF BridgesInv
  <2>4. At(o + OffsetBridge) + 1 = 1
    BY <1>2, <2>2 DEF OffsetBridge
  <2>5. Known(o) /\ BridgeAt(o) = bridges[1]
    BY <2>3, <2>4 DEF Known, BridgeAt
  <2>6. Below(Bridges, 0) = {}
    BY <1>1 DEF BridgeSet, Below
  <2>7. Base(Bridges, 0) = 2
    BY <2>6, FS_EmptySet DEF Base, SizeofNode
  <2>8. o + OffsetNumChild = OffsetNumChild
    BY <1>2 DEF OffsetNumChild
  <2>9. QED
    BY <1>2, <2>2, <2>3, <2>5, <2>7, <2>8 DEF SizeofNode
<1>3. ASSUME NEW f \in Bridges, f.sec = bus, o = Place(Bridges, f)
      PROVE  /\ o \in Nat
             /\ Known(o)
             /\ BridgeAt(o).busno = bus
             /\ At(o + OffsetNumChild) = NumOn(Bridges, bus)
             /\ NumOn(Bridges, bus) # 0 => o + SizeofNode = Base(Bridges, bus)
  <2>1. o \in Nat
    BY <1>1, <1>3, CellRange
  <2>2. Known(o) /\ BridgeAt(o).busno = bus
        /\ At(o + OffsetNumChild) = NumOn(Bridges, bus)
    BY <1>3, BridgeNode
  <2>3. ASSUME NumOn(Bridges, bus) # 0
        PROVE  o + SizeofNode = Base(Bridges, bus)
    <3>1. OnBus(Bridges, bus) # {}
      BY <2>3, FS_EmptySet DEF NumOn
    <3>2. QED
      BY <1>1, <1>3, <3>1, PlaceNextBus DEF SizeofNode
  <2>4. QED
    BY <2>1, <2>2, <2>3
<1>4. QED
  BY <1>2, <1>3 DEF IsNode

\* Its children are the nodes of the bridges on that bus.
LEMMA NodeChildren ==
  ASSUME Finished, NEW bus \in Nat, NEW o, IsNode(o, bus)
  PROVE  ChildrenAt(o) = {Place(Bridges, g) : g \in OnBus(Bridges, bus)}
<1>1. BridgeSet(Bridges)
  BY MachineBridges DEF Finished, BuildInv
<1>2. /\ o \in Nat
      /\ At(o + OffsetNumChild) = NumOn(Bridges, bus)
      /\ NumOn(Bridges, bus) # 0 => o + SizeofNode = Base(Bridges, bus)
  BY BusNode
<1>3. NumOn(Bridges, bus) \in Nat
  BY <1>1, BaseStep
<1>4. ASSUME NEW g \in OnBus(Bridges, bus),
             NEW k \in 0..(NumOn(Bridges, bus) - 1), Rank(Bridges, g) = k
      PROVE  ChildAt(o, k) = Place(Bridges, g)
  <2>1. g \in Bridges /\ g.bus = bus
    BY DEF OnBus
  <2>2. o + SizeofNode = Base(Bridges, bus)
    BY <1>2, <1>3
  <2>3. Slot(Bridges, g) = o + SizeofNode + k
    BY <1>4, <2>1, <2>2 DEF Slot
  <2>4. QED
    BY <2>1, <2>3, BridgeNode DEF ChildAt
<1>5. ASSUME NEW k \in 0..(NumOn(Bridges, bus) - 1)
      PROVE  \E g \in OnBus(Bridges, bus) : ChildAt(o, k) = Place(Bridges, g)
  BY <1>1, <1>4, RankOnto
<1>6. ASSUME NEW g \in OnBus(Bridges, bus)
      PROVE  \E k \in 0..(NumOn(Bridges, bus) - 1) :
               ChildAt(o, k) = Place(Bridges, g)
  <2>1. Rank(Bridges, g) \in 0..(NumOn(Bridges, bus) - 1)
    BY <1>1, RankRange DEF OnBus
  <2>2. QED
    BY <1>4, <2>1
<1>7. ChildrenAt(o) = {ChildAt(o, k) : k \in 0..(NumOn(Bridges, bus) - 1)}
  BY <1>2 DEF ChildrenAt
<1>8. QED
  BY <1>5, <1>6, <1>7
\* The nodes at each depth, as lspci_tree0 comes to them.
IsLevel(h, m) ==
  h = [d \in 0..m |->
         IF d = 0 THEN {0} ELSE UNION {ChildrenAt(o) : o \in h[d - 1]}]
Level == CHOOSE h : IsLevel(h, NumBus)

\* There is such a function.
LEMMA LevelExists == IsLevel(Level, NumBus)
<1> DEFINE Body(h, m) ==
             [d \in 0..m |->
                IF d = 0 THEN {0} ELSE UNION {ChildrenAt(o) : o \in h[d - 1]}]
           Upto(h, m) == h = Body(h, m)
           S == {m \in Nat : \E h : Upto(h, m)}
<1>1. 0 \in S
  <2> DEFINE e == [d \in 0..0 |-> {0}]
  <2>1. Upto(e, 0)
    OBVIOUS
  <2>2. QED
    BY <2>1
<1>2. ASSUME NEW m \in Nat, m \in S PROVE m + 1 \in S
  <2>1. PICK h : Upto(h, m)
    BY <1>2
  <2> DEFINE e == Body(h, m + 1)
  <2>2. ASSUME NEW d \in 0..m PROVE e[d] = h[d]
    <3>1. e[d] = Body(h, m)[d]
      OBVIOUS
    <3> HIDE DEF Body, e
    <3>2. QED
      BY <2>1, <3>1
  <2>3. ASSUME NEW d \in 0..(m + 1), d # 0 PROVE h[d - 1] = e[d - 1]
    <3>1. d - 1 \in 0..m
      BY <2>3
    <3> HIDE DEF e
    <3>2. QED
      BY <2>2, <3>1
  <2>4. Upto(e, m + 1)
    <3>1. ASSUME NEW x, \A d \in 0..(m + 1) : d # 0 => h[d - 1] = x[d - 1]
          PROVE  Body(h, m + 1) = Body(x, m + 1)
      BY <3>1
    <3> HIDE DEF Body
    <3>2. QED
      BY <2>3, <3>1
  <2> HIDE DEF Upto, e
  <2>5. QED
    BY <2>4
<1>3. Nat \subseteq S
  <2> HIDE DEF S
  <2>1. QED
    BY <1>1, <1>2, SetInduction
<1>4. NumBus \in S
  BY <1>3, PciAssumption
<1>5. \E h : IsLevel(h, NumBus)
  BY <1>4 DEF IsLevel
<1>6. QED
  BY <1>5 DEF Level

\* The root, and then the children of the nodes above.
LEMMA LevelValue ==
  /\ Level[0] = {0}
  /\ \A d \in 0..(NumBus - 1) :
       Level[d + 1] = UNION {ChildrenAt(o) : o \in Level[d]}
<1>1. PICK h : h = Level
  OBVIOUS
<1>2. h = [d \in 0..NumBus |->
             IF d = 0 THEN {0} ELSE UNION {ChildrenAt(o) : o \in h[d - 1]}]
  BY <1>1, LevelExists DEF IsLevel
<1> DEFINE F == [d \in 0..NumBus |->
             IF d = 0 THEN {0} ELSE UNION {ChildrenAt(o) : o \in h[d - 1]}]
<1>3. F[0] = {0}
  BY PciAssumption
<1>4. ASSUME NEW d \in 0..(NumBus - 1)
      PROVE  F[d + 1] = UNION {ChildrenAt(o) : o \in h[d]}
  <2>1. d + 1 \in 0..NumBus /\ d + 1 # 0 /\ (d + 1) - 1 = d
    BY PciAssumption
  <2>2. F[d + 1] = UNION {ChildrenAt(o) : o \in h[(d + 1) - 1]}
    BY <2>1
  <2>3. QED
    BY <2>1, <2>2
<1> HIDE DEF F
<1>5. h = F
  BY <1>2 DEF F
<1>6. QED
  BY <1>1, <1>3, <1>4, <1>5

\* The edges, with the nodes at each depth.
EdgeOf(o, k) ==
  IF Known(o) /\ Known(k) THEN <<BridgeAt(o).busno, BridgeAt(k).dev>>
  ELSE <<-1, k>>

\* That is what Edges is defined with.
LEMMA EdgesAre ==
  Edges = UNION {UNION {{EdgeOf(o, k) : k \in ChildrenAt(o)} : o \in Level[d]} :
                   d \in 0..(NumBus - 1)}
BY DEF Edges, EdgeOf, Level, IsLevel


\* Every node that is come to is the node of a bus.
LEMMA LevelNodes ==
  ASSUME Finished, NEW d \in 0..NumBus, NEW o \in Level[d]
  PROVE  \E bus \in Nat : IsNode(o, bus)
<1> DEFINE Known2(k) == \A x \in Level[k] : \E bus \in Nat : IsNode(x, bus)
           S == {k \in Nat : k <= NumBus => Known2(k)}
<1>1. 0 \in S
  <2>1. IsNode(0, 0)
    BY DEF IsNode
  <2>2. QED
    BY <2>1, LevelValue
<1>2. ASSUME NEW k \in Nat, k \in S PROVE k + 1 \in S
  <2> SUFFICES ASSUME k + 1 <= NumBus PROVE Known2(k + 1)
    OBVIOUS
  <2>1. k \in 0..(NumBus - 1) /\ k <= NumBus
    BY PciAssumption
  <2>2. Level[k + 1] = UNION {ChildrenAt(x) : x \in Level[k]}
    BY <2>1, LevelValue
  <2>3. Known2(k)
    BY <1>2, <2>1
  <2>4. ASSUME NEW x \in Level[k], NEW y \in ChildrenAt(x)
        PROVE  \E bus \in Nat : IsNode(y, bus)
    <3>1. PICK bus \in Nat : IsNode(x, bus)
      BY <2>3
    <3>2. PICK g \in OnBus(Bridges, bus) : y = Place(Bridges, g)
      BY <3>1, NodeChildren
    <3>3. g \in Bridges /\ g.sec \in Nat
      BY MachineBridges DEF OnBus, Finished, BuildInv, BridgeSet
    <3>4. QED
      BY <3>2, <3>3 DEF IsNode
  <2>5. QED
    BY <2>2, <2>4
<1>3. Nat \subseteq S
  <2> HIDE DEF S
  <2>1. QED
    BY <1>1, <1>2, SetInduction
<1>4. d \in Nat /\ d <= NumBus
  BY PciAssumption
<1>5. d \in S
  BY <1>3, <1>4
<1>6. QED
  BY <1>4, <1>5

\* The node of every bus that has bridges is come to, in as many steps as its
\* number says at the most.
LEMMA NodesReached ==
  ASSUME Finished, NEW g \in Bridges
  PROVE  \E d \in 0..g.bus : \E o \in Level[d] : IsNode(o, g.bus)
<1> DEFINE Reach(f) == \E d \in 0..f.bus : \E o \in Level[d] : IsNode(o, f.bus)
           Missed == {f \in Bridges : ~Reach(f)}
           Buses == {f.bus : f \in Missed}
<1>1. BridgeSet(Bridges)
  BY MachineBridges DEF Finished, BuildInv
<1>2. SUFFICES ASSUME Missed # {} PROVE FALSE
  OBVIOUS
<1>3. Buses \subseteq Nat /\ Buses # {}
  BY <1>1, <1>2 DEF BridgeSet
<1>4. PICK b \in Buses : \A c \in Buses : b <= c
  BY <1>3, Least
<1>5. PICK f \in Missed : f.bus = b
  OBVIOUS
<1>6. b \in Nat /\ f \in Bridges
  BY <1>3
<1>7. CASE b = 0
  <2>1. 0 \in Level[0] /\ IsNode(0, b)
    BY <1>7, LevelValue DEF IsNode
  <2>2. QED
    BY <1>5, <1>7, <2>1
<1>8. CASE b # 0
  <2>1. PICK u \in Bridges : u.sec = b
    BY <1>1, <1>5, <1>6, <1>8 DEF BridgeSet
  <2>2. u.bus \in Nat /\ u.bus < b
    BY <1>1, <2>1 DEF BridgeSet
  <2>3. u \notin Missed
    <3> SUFFICES ASSUME u \in Missed PROVE FALSE
      OBVIOUS
    <3>1. u.bus \in Buses
      OBVIOUS
    <3>2. b <= u.bus
      BY <1>4, <3>1
    <3>3. QED
      BY <1>6, <2>2, <3>2
  <2>4. PICK d \in 0..u.bus : \E o \in Level[d] : IsNode(o, u.bus)
    BY <2>3
  <2>5. PICK o \in Level[d] : IsNode(o, u.bus)
    BY <2>4
  <2>6. Place(Bridges, u) \in ChildrenAt(o)
    BY <2>2, <2>5, NodeChildren DEF OnBus
  <2>7. b < NumBus
    BY <1>5, <1>6 DEF Bridges, BridgesOf, Visible
  <2>8. d \in 0..(NumBus - 1) /\ d + 1 \in 0..b
    BY <1>6, <2>2, <2>7, PciAssumption
  <2>9. Place(Bridges, u) \in Level[d + 1]
    BY <2>5, <2>6, <2>8, LevelValue
  <2>10. IsNode(Place(Bridges, u), b)
    BY <2>1 DEF IsNode
  <2>11. QED
    BY <1>5, <2>8, <2>9, <2>10
<1>9. QED
  BY <1>7, <1>8

\* The edges are the bridges, each below the bus it is on.
LEMMA FinishedFaithful ==
  ASSUME Finished
  PROVE  Faithful
<1>1. BridgeSet(Bridges)
  BY MachineBridges DEF Finished, BuildInv
<1>2. ASSUME NEW d \in 0..(NumBus - 1), NEW o \in Level[d],
             NEW k \in ChildrenAt(o)
      PROVE  EdgeOf(o, k) \in Wiring
  <2>1. d \in 0..NumBus
    BY PciAssumption
  <2>2. PICK bus \in Nat : IsNode(o, bus)
    BY <2>1, LevelNodes
  <2>3. PICK g \in OnBus(Bridges, bus) : k = Place(Bridges, g)
    BY <2>2, NodeChildren
  <2>4. g \in Bridges /\ g.bus = bus
    BY DEF OnBus
  <2>5. Known(o) /\ BridgeAt(o).busno = bus
    BY <2>2, BusNode
  <2>6. Known(k) /\ BridgeAt(k).dev = g
    BY <2>3, <2>4, BridgeNode
  <2>7. QED
    BY <2>4, <2>5, <2>6 DEF EdgeOf, Wiring
<1>3. ASSUME NEW g \in Bridges
      PROVE  \E d \in 0..(NumBus - 1) : \E o \in Level[d] :
               \E k \in ChildrenAt(o) : EdgeOf(o, k) = <<g.bus, g>>
  <2>1. g.bus \in Nat /\ g.bus < NumBus
    BY <1>1 DEF BridgeSet, Bridges, BridgesOf, Visible
  <2>2. PICK d \in 0..g.bus : \E o \in Level[d] : IsNode(o, g.bus)
    BY NodesReached
  <2>3. PICK o \in Level[d] : IsNode(o, g.bus)
    BY <2>2
  <2>4. d \in 0..(NumBus - 1)
    BY <2>1, PciAssumption
  <2>5. Place(Bridges, g) \in ChildrenAt(o)
    BY <2>1, <2>3, NodeChildren DEF OnBus
  <2>6. Known(o) /\ BridgeAt(o).busno = g.bus
    BY <2>1, <2>3, BusNode
  <2>7. Known(Place(Bridges, g)) /\ BridgeAt(Place(Bridges, g)).dev = g
    BY BridgeNode
  <2>8. EdgeOf(o, Place(Bridges, g)) = <<g.bus, g>>
    BY <2>6, <2>7 DEF EdgeOf
  <2>9. QED
    BY <2>4, <2>5, <2>8
<1>4. Edges \subseteq Wiring
  BY <1>2, EdgesAre
<1>5. Wiring \subseteq Edges
  <2>1. ASSUME NEW g \in Bridges PROVE <<g.bus, g>> \in Edges
    <3>1. PICK d \in 0..(NumBus - 1) : \E o \in Level[d] :
                 \E k \in ChildrenAt(o) : EdgeOf(o, k) = <<g.bus, g>>
      BY <1>3
    <3>2. QED
      BY <3>1, EdgesAre
  <2>2. QED
    BY <2>1 DEF Wiring
<1>6. QED
  BY <1>4, <1>5 DEF Faithful

\* On every machine on which no bridge follows one that has bridges behind it,
\* the tree that build_tree leaves holds every bridge below the bus it is on.
THEOREM TreeIsFaithful == PciSpec => []TreeUnlessNested
<1>1. ASSUME PciInv, calls = <<>>, ~Nested PROVE Faithful
  BY <1>1, FinishedFaithful DEF Finished, PciInv
<1>2. PciInv => TreeUnlessNested
  BY <1>1 DEF TreeUnlessNested
<1>3. QED
  BY <1>2, PciInvariance, PTL

-----------------------------------------------------------------------------
(* The tables that ACPI's tree finds its bridges for.                      *)

\* The nodes of the buses up to one, as acpi_handle_to_bridge comes to them.
Behind(bus) == {g \in machine.fns : IsBridge(g) /\ g.sec = bus}
Found(f, S) ==
  UNION {{o \in ChildrenAt(up) : SameAddr(BridgeAt(o).dev, f)} : up \in S}
IsNodes(h, m) ==
  h = [bus \in 0..m |->
         IF bus = 0 THEN {0}
         ELSE UNION {Found(f, h[f.bus]) : f \in Behind(bus)}]
Nodes(m) == CHOOSE h : IsNodes(h, m)

\* A bridge is on a bus with a lower number.
LEMMA BehindBelow ==
  ASSUME machine \in Machines, NEW m \in Nat, NEW bus \in 0..(m + 1),
         NEW f \in Behind(bus)
  PROVE  f \in machine.fns /\ f.bus \in Nat /\ f.bus < bus /\ f.bus \in 0..m
<1>1. Numbered(machine.fns)
  BY PciAssumption
<1>2. f \in machine.fns /\ IsBridge(f) /\ f.sec = bus
  BY DEF Behind
<1>3. f.bus \in Nat /\ f.bus < bus
  BY <1>1, <1>2 DEF Numbered
<1>4. QED
  BY <1>2, <1>3

\* There is such a function.
LEMMA NodesExist ==
  ASSUME machine \in Machines, NEW b \in Nat
  PROVE  IsNodes(Nodes(b), b)
<1> DEFINE Body(h, m) ==
             [bus \in 0..m |->
                IF bus = 0 THEN {0}
                ELSE UNION {Found(f, h[f.bus]) : f \in Behind(bus)}]
           Upto(h, m) == h = Body(h, m)
           S == {m \in Nat : \E h : Upto(h, m)}
<1>1. 0 \in S
  <2> DEFINE e == [bus \in 0..0 |-> {0}]
  <2>1. Upto(e, 0)
    OBVIOUS
  <2>2. QED
    BY <2>1
<1>2. ASSUME NEW m \in Nat, m \in S PROVE m + 1 \in S
  <2>1. PICK h : Upto(h, m)
    BY <1>2
  <2> DEFINE e == Body(h, m + 1)
  <2>2. ASSUME NEW c \in 0..m PROVE e[c] = h[c]
    <3>1. e[c] = Body(h, m)[c]
      OBVIOUS
    <3> HIDE DEF Body, e
    <3>2. QED
      BY <2>1, <3>1
  <2>3. Upto(e, m + 1)
    <3>1. ASSUME NEW x, \A c \in 0..m : h[c] = x[c]
          PROVE  Body(h, m + 1) = Body(x, m + 1)
      <4>1. ASSUME NEW bus \in 0..(m + 1)
            PROVE  UNION {Found(f, h[f.bus]) : f \in Behind(bus)}
                     = UNION {Found(f, x[f.bus]) : f \in Behind(bus)}
        <5>1. \A f \in Behind(bus) : h[f.bus] = x[f.bus]
          BY <3>1, BehindBelow
        <5>2. QED
          BY <5>1
      <4>2. QED
        BY <4>1
    <3> HIDE DEF Body, e
    <3>2. \A c \in 0..m : h[c] = e[c]
      BY <2>2
    <3>3. Body(h, m + 1) = Body(e, m + 1)
      BY <3>1, <3>2
    <3>4. QED
      BY <3>3 DEF e
  <2> HIDE DEF Upto, e
  <2>4. QED
    BY <2>3
<1>3. Nat \subseteq S
  <2> HIDE DEF S
  <2>1. QED
    BY <1>1, <1>2, SetInduction
<1>4. \E h : IsNodes(h, b)
  BY <1>3 DEF IsNodes
<1>5. QED
  BY <1>4 DEF Nodes

\* Its values: the root for bus 0, and what the buses above lead to.
LEMMA NodesValue ==
  ASSUME machine \in Machines, NEW b \in Nat
  PROVE  /\ Nodes(b)[0] = {0}
         /\ \A bus \in 1..b :
              Nodes(b)[bus]
                = UNION {Found(f, Nodes(b)[f.bus]) : f \in Behind(bus)}
<1>1. PICK h : h = Nodes(b)
  OBVIOUS
<1> DEFINE F == [bus \in 0..b |->
                   IF bus = 0 THEN {0}
                   ELSE UNION {Found(f, h[f.bus]) : f \in Behind(bus)}]
<1>2. h = F
  BY <1>1, NodesExist DEF IsNodes
<1>3. F[0] = {0}
  OBVIOUS
<1>4. \A bus \in 1..b :
        F[bus] = UNION {Found(f, h[f.bus]) : f \in Behind(bus)}
  OBVIOUS
<1> HIDE DEF F
<1>5. QED
  BY <1>1, <1>2, <1>3, <1>4

\* That is what NodeOf is defined with.
LEMMA NodeOfIs ==
  ASSUME NEW b
  PROVE  NodeOf(b) = Nodes(b)[b]
BY DEF NodeOf, Nodes, IsNodes, Found, Behind


\* On a machine without nested bridges acpi_handle_to_bridge finds the node of
\* the bus it is asked for, and finds none for a bus that the tree has not.
LEMMA NodeFound ==
  ASSUME Finished, NEW b \in Nat
  PROVE  \A o : o \in NodeOf(b) <=> IsNode(o, b)
<1>1. machine \in Machines /\ BridgeSet(Bridges) /\ Numbered(machine.fns)
  BY MachineBridges, PciAssumption DEF Finished, BuildInv
<1>2. PICK h : h = Nodes(b)
  OBVIOUS
<1> DEFINE Right(bus) == \A o : o \in h[bus] <=> IsNode(o, bus)
           Wrong == {bus \in 0..b : ~Right(bus)}
<1>3. SUFFICES Wrong = {}
  BY <1>2, NodeOfIs
<1>4. SUFFICES ASSUME Wrong # {} PROVE FALSE
  OBVIOUS
<1>5. PICK bus \in Wrong : \A c \in Wrong : bus <= c
  <2>1. Wrong \subseteq Nat
    OBVIOUS
  <2> HIDE DEF Wrong
  <2>2. QED
    BY <1>4, <2>1, Least
<1>6. bus \in 0..b /\ ~Right(bus)
  OBVIOUS
<1>7. \A c \in 0..b : c < bus => Right(c)
  <2> SUFFICES ASSUME NEW c \in 0..b, c < bus, ~Right(c) PROVE FALSE
    OBVIOUS
  <2>1. c \in Wrong
    OBVIOUS
  <2>2. bus <= c
    BY <1>5, <2>1
  <2>3. QED
    BY <1>6, <2>2
<1> HIDE DEF Wrong
<1>8. CASE bus = 0
  <2>1. h[0] = {0}
    BY <1>1, <1>2, NodesValue
  <2>2. ~\E f \in Bridges : f.sec = 0
    BY <1>1 DEF BridgeSet
  <2>3. \A o : IsNode(o, 0) <=> o = 0
    BY <2>2 DEF IsNode
  <2>4. QED
    BY <1>6, <1>8, <2>1, <2>3
<1>9. CASE bus # 0
  <2>1. bus \in 1..b /\ bus \in Nat
    BY <1>6, <1>9
  <2>2. h[bus] = UNION {Found(f, h[f.bus]) : f \in Behind(bus)}
    BY <1>1, <1>2, <2>1, NodesValue
  <2>3. ASSUME NEW f \in Behind(bus)
        PROVE  f \in machine.fns /\ f.bus \in Nat /\ Right(f.bus)
    <3>1. bus - 1 \in Nat /\ bus \in 0..((bus - 1) + 1)
      BY <2>1
    <3>2. f \in machine.fns /\ f.bus \in Nat /\ f.bus < bus
      BY <1>1, <3>1, BehindBelow
    <3>3. f.bus \in 0..b
      BY <1>6, <3>2
    <3>4. QED
      BY <1>7, <3>2, <3>3
  <2> HIDE DEF Right
  <2>4. ASSUME NEW f \in Behind(bus), NEW o \in Found(f, h[f.bus])
        PROVE  IsNode(o, bus)
    <3>1. PICK up \in h[f.bus] :
            o \in ChildrenAt(up) /\ SameAddr(BridgeAt(o).dev, f)
      BY DEF Found
    <3>2. IsNode(up, f.bus) /\ f.bus \in Nat
      BY <2>3 DEF Right
    <3>3. PICK g \in OnBus(Bridges, f.bus) : o = Place(Bridges, g)
      BY <3>1, <3>2, NodeChildren
    <3>4. g \in Bridges /\ g.bus = f.bus
      BY DEF OnBus
    <3>5. SameAddr(g, f)
      BY <3>1, <3>3, <3>4, BridgeNode
    <3>6. Addr(g) = Addr(f) /\ g \in machine.fns /\ f \in machine.fns
      BY <2>3, <3>4, <3>5 DEF SameAddr, Addr, Bridges, BridgesOf
    <3>7. g = f
      BY <1>1, <3>6 DEF Numbered
    <3>8. f.sec = bus
      BY DEF Behind
    <3>9. QED
      BY <3>3, <3>4, <3>7, <3>8 DEF IsNode
  <2>5. ASSUME NEW o, IsNode(o, bus)
        PROVE  \E f \in Behind(bus) : o \in Found(f, h[f.bus])
    <3>1. PICK f \in Bridges : f.sec = bus /\ o = Place(Bridges, f)
      BY <1>9, <2>5 DEF IsNode
    <3>2. f \in Behind(bus)
      BY <3>1 DEF Behind, Bridges, BridgesOf
    <3>3. \E up : IsNode(up, f.bus)
      BY <1>1 DEF BridgeSet, IsNode
    <3>4. PICK up : IsNode(up, f.bus)
      BY <3>3
    <3>5. up \in h[f.bus] /\ f.bus \in Nat
      BY <2>3, <3>2, <3>4 DEF Right
    <3>6. o \in ChildrenAt(up)
      BY <3>1, <3>4, <3>5, NodeChildren DEF OnBus
    <3>7. BridgeAt(o).dev = f
      BY <3>1, BridgeNode
    <3>8. o \in Found(f, h[f.bus])
      BY <3>5, <3>6, <3>7 DEF Found, SameAddr
    <3>9. QED
      BY <3>2, <3>8
  <2>6. \A o : o \in h[bus] <=> IsNode(o, bus)
    BY <2>2, <2>4, <2>5
  <2>7. QED
    BY <1>6, <2>6 DEF Right
<1>10. QED
  BY <1>8, <1>9

\* The number that a node holds is that of a bridge.
LEMMA NodeNumber ==
  ASSUME Finished, NEW b, NEW o, IsNode(o, b)
  PROVE  \E q \in DOMAIN bridges : At(o + OffsetBridge) = q - 1
<1>1. BuildInv /\ TreeInv /\ BridgesInv
  BY DEF Finished, BuildInv
<1>2. CASE o = 0
  <2>1. At(o + OffsetBridge) = 0
    BY <1>1, <1>2 DEF TreeInv, Holds, At, OffsetBridge
  <2>2. 1 \in DOMAIN bridges
    BY <1>1 DEF BridgesInv
  <2>3. QED
    BY <2>1, <2>2
<1>3. ASSUME NEW f \in Bridges, o = Place(Bridges, f)
      PROVE  \E q \in DOMAIN bridges : At(o + OffsetBridge) = q - 1
  <2>1. NodeInv(f)
    BY <1>1, AllEntered DEF Finished, TreeInv
  <2>2. PICK q \in 2..Len(bridges) : Holds(o + OffsetBridge, q - 1)
    BY <1>3, <2>1 DEF NodeInv
  <2>3. QED
    BY <1>1, <2>2 DEF Holds, At, BridgesInv
<1>4. QED
  BY <1>2, <1>3 DEF IsNode

\* assign_irq gives each bridge the table of the bus behind it, if ACPI lists
\* one.
LEMMA AssignRoutes ==
  ASSUME Finished, AssignIrqs
  PROVE  RoutedInv'
<1>1. /\ machine' = machine /\ bridges' = bridges
      /\ Bridges' = Bridges
  BY DEF AssignIrqs, Bridges
<1>2. machine \in Machines /\ DOMAIN machine.prt \subseteq Nat
  BY NicAssumption DEF Finished, BuildInv
<1>3. DOMAIN bridges = 1..Len(bridges)
  BY DEF Finished, BuildInv, BridgesInv
<1> DEFINE given(p) == {b \in DOMAIN machine.prt :
                          \E o \in NodeOf(b) : At(o + OffsetBridge) = p - 1}
<1>4. DOMAIN tables' = DOMAIN bridges
  BY DEF AssignIrqs
<1>5. ASSUME NEW p \in DOMAIN bridges
      PROVE  tables'[p] = IF given(p) = {} THEN <<>>
                          ELSE machine.prt[CHOOSE b \in given(p) : TRUE]
  BY DEF AssignIrqs
<1>6. ASSUME NEW p \in DOMAIN bridges, NEW b \in given(p)
      PROVE  bridges[p].busno = b
  <2>1. PICK o \in NodeOf(b) : At(o + OffsetBridge) = p - 1
    OBVIOUS
  <2>2. b \in Nat /\ IsNode(o, b)
    BY <1>2, NodeFound
  <2>3. BridgeAt(o).busno = b
    BY <2>2, BusNode
  <2>4. At(o + OffsetBridge) + 1 = p
    BY <1>3, <2>1
  <2>5. QED
    BY <2>3, <2>4 DEF BridgeAt
<1>7. ASSUME NEW p \in DOMAIN bridges, given(p) # {}
      PROVE  /\ bridges[p].busno \in DOMAIN machine.prt
             /\ tables'[p] = machine.prt[bridges[p].busno]
  <2>1. PICK b : b = (CHOOSE c \in given(p) : TRUE)
    OBVIOUS
  <2>2. b \in given(p)
    BY <1>7, <2>1
  <2>3. tables'[p] = machine.prt[b]
    BY <1>5, <1>7, <2>1
  <2>4. QED
    BY <1>6, <2>2, <2>3
<1>8. ASSUME NEW b \in DOMAIN machine.prt,
             b = 0 \/ \E f \in Bridges : f.sec = b
      PROVE  \E p \in DOMAIN bridges :
               bridges[p].busno = b /\ tables'[p] = machine.prt[b]
  <2>1. PICK o : IsNode(o, b)
    BY <1>8 DEF IsNode
  <2>2. b \in Nat /\ o \in NodeOf(b)
    BY <1>2, <2>1, NodeFound
  <2>3. Known(o) /\ BridgeAt(o).busno = b
    BY <2>1, <2>2, BusNode
  <2>4. PICK p : p = At(o + OffsetBridge) + 1
    OBVIOUS
  <2>5. p \in DOMAIN bridges /\ bridges[p].busno = b
    BY <2>3, <2>4 DEF Known, BridgeAt
  <2>6. At(o + OffsetBridge) = p - 1
    <3>1. At(o + OffsetBridge) \in Int
      <4>1. PICK q \in DOMAIN bridges : At(o + OffsetBridge) = q - 1
        BY <2>1, NodeNumber
      <4>2. QED
        BY <1>3, <4>1
    <3>2. QED
      BY <2>4, <3>1
  <2>7. b \in given(p)
    BY <2>2, <2>6
  <2>8. QED
    BY <1>7, <2>5, <2>7
<1>9. QED
  BY <1>1, <1>4, <1>5, <1>7, <1>8 DEF RoutedInv

-----------------------------------------------------------------------------
(* What the driver finds on a wired machine.                               *)

\* The entries of the card begin at k, and are four.
OwnAt(k) ==
  /\ k \in DOMAIN NicPrt
  /\ Own = k..(k + 3)
  /\ {NicPrt[j].pin : j \in Own} = 0..3
  /\ \A j \in Own :
       NicPrt[j].fn = NicPrt[k].fn /\ NicPrt[j].irq \in PciIrqs

\* The table of the card, and where its entries are.
LEMMA WiredTable ==
  ASSUME machine \in Machines, Wired
  PROVE  /\ machine.nic.bus \in DOMAIN machine.prt
         /\ machine.nic \in machine.fns
         /\ Visible(machine.fns, machine.nic)
         /\ machine.nic.bus \in Nat
         /\ NicPrt \in Seq(Entries)
         /\ \E k : OwnAt(k)
<1>1. machine.nic \in {f \in machine.fns : f.kind = "nic"}
  BY NicAssumption
<1>2. machine.nic.bus \in Nat
  BY <1>1, PciAssumption DEF Numbered
<1>3. NicPrt \in Seq(Entries)
  BY NicAssumption DEF Wired, NicPrt, Entries
<1>4. \E k : OwnAt(k)
  BY DEF Wired, OwnAt
<1>5. QED
  BY <1>1, <1>2, <1>3, <1>4 DEF Wired

\* They are one row of the table that assign_irq makes, and the only one that
\* is for the card.
LEMMA WiredRow ==
  ASSUME machine \in Machines, Wired, NEW k, OwnAt(k)
  PROVE  /\ \A e \in Starts(NicPrt) :
              Matches(NicPrt[e], machine.nic) <=> e = k
         /\ k \in Starts(NicPrt)
         /\ Run(NicPrt, k) = Own
<1>1. /\ NicPrt \in Seq(Entries) /\ DOMAIN NicPrt = 1..Len(NicPrt)
      /\ Len(NicPrt) \in Nat
  BY WiredTable
<1>2. k \in 1..Len(NicPrt) /\ Own = k..(k + 3)
  BY <1>1 DEF OwnAt
<1>3. \A j \in DOMAIN NicPrt :
        j \in Own <=> Matches(NicPrt[j], machine.nic)
  BY DEF Own, Matches
<1>4. \A j \in Own : j \in DOMAIN NicPrt /\ SameAddr(NicPrt[k], NicPrt[j])
  BY <1>2 DEF Own, OwnAt, SameAddr
<1>5. \A j, e \in DOMAIN NicPrt :
        SameAddr(NicPrt[j], NicPrt[e]) => (j \in Own <=> e \in Own)
  BY DEF Own, SameAddr
<1>6. k \in Own
  BY <1>2
<1>7. k \in Starts(NicPrt)
  <2>1. ASSUME k > 1 PROVE ~SameAddr(NicPrt[k - 1], NicPrt[k])
    <3>1. k - 1 \in DOMAIN NicPrt /\ k - 1 \notin Own
      BY <1>1, <1>2, <2>1
    <3>2. QED
      BY <1>2, <1>1, <1>5, <1>6, <3>1
  <2>2. QED
    BY <1>1, <1>2, <2>1 DEF Starts
<1>8. ASSUME NEW e \in Starts(NicPrt), e \in Own PROVE e = k
  <2> SUFFICES ASSUME e # k PROVE FALSE
    OBVIOUS
  <2>1. e \in Int /\ e > k /\ e > 1 /\ e - 1 \in Own
    BY <1>1, <1>2, <1>8
  <2>2. SameAddr(NicPrt[k], NicPrt[e]) /\ SameAddr(NicPrt[k], NicPrt[e - 1])
    BY <1>4, <1>8, <2>1
  <2>3. SameAddr(NicPrt[e - 1], NicPrt[e])
    BY <2>2 DEF SameAddr
  <2>4. QED
    BY <2>1, <2>3 DEF Starts
<1>9. \A e \in Starts(NicPrt) : Matches(NicPrt[e], machine.nic) <=> e = k
  <2>1. \A e \in Starts(NicPrt) : e \in DOMAIN NicPrt
    BY DEF Starts
  <2>2. QED
    BY <1>3, <1>6, <1>8, <2>1
<1>10. Run(NicPrt, k) \subseteq Own
  <2>1. ASSUME NEW j \in Run(NicPrt, k) PROVE j \in Own
    <3>1. j \in DOMAIN NicPrt /\ j >= k /\ k \in DOMAIN NicPrt
      BY <1>1, <1>2 DEF Run
    <3>2. SameAddr(NicPrt[k], NicPrt[j])
      <4>1. \A e \in k..j : SameAddr(NicPrt[k], NicPrt[e])
        BY DEF Run
      <4>2. j \in k..j
        BY <1>1, <1>2, <3>1
      <4>3. QED
        BY <4>1, <4>2
    <3>3. QED
      BY <1>5, <1>6, <3>1, <3>2
  <2>2. QED
    BY <2>1
<1>11. Own \subseteq Run(NicPrt, k)
  <2>1. ASSUME NEW j \in Own PROVE j \in Run(NicPrt, k)
    <3>1. j \in DOMAIN NicPrt /\ j >= k
      BY <1>2, <1>4
    <3>2. \A e \in k..j : e \in Own
      BY <1>2
    <3>3. QED
      BY <1>4, <3>1, <3>2 DEF Run
  <2>2. QED
    BY <2>1
<1>12. QED
  BY <1>7, <1>9, <1>10, <1>11

\* Four numbers that are all of 0..3 are different.
LEMMA FourPins ==
  ASSUME NEW a, NEW b, NEW c, NEW d, {a, b, c, d} = 0..3
  PROVE  a # b /\ a # c /\ a # d /\ b # c /\ b # d /\ c # d
<1>1. /\ a \in 0..3 /\ b \in 0..3 /\ c \in 0..3 /\ d \in 0..3
      /\ 0 \in {a, b, c, d} /\ 1 \in {a, b, c, d}
      /\ 2 \in {a, b, c, d} /\ 3 \in {a, b, c, d}
  OBVIOUS
<1>2. QED
  BY <1>1

\* Each of its pins has the interrupt that ACPI lists, and every listed one is
\* that of a pin.
LEMMA WiredIrqs ==
  ASSUME machine \in Machines, Wired, NEW k, OwnAt(k)
  PROVE  /\ \A pin \in 0..3 : IrqOf(NicPrt, k, pin) \in PciIrqs
         /\ \A q \in Listed : \E pin \in 0..3 : IrqOf(NicPrt, k, pin) = q
<1>1. /\ NicPrt \in Seq(Entries) /\ DOMAIN NicPrt = 1..Len(NicPrt)
      /\ Len(NicPrt) \in Nat
  BY WiredTable
<1>2. k \in 1..Len(NicPrt) /\ Own = k..(k + 3) /\ Own \subseteq DOMAIN NicPrt
  BY <1>1 DEF OwnAt, Own
<1> DEFINE Of(pin) == {j \in Own : NicPrt[j].pin = pin}
<1>3. ASSUME NEW pin \in 0..3
      PROVE  /\ Of(pin) # {}
             /\ IrqOf(NicPrt, k, pin) = NicPrt[Max(Of(pin))].irq
             /\ Max(Of(pin)) \in Of(pin)
  <2>1. Of(pin) # {}
    <3>1. pin \in {NicPrt[j].pin : j \in Own}
      BY DEF OwnAt
    <3>2. QED
      BY <3>1
  <2>2. Of(pin) = {j \in Run(NicPrt, k) : NicPrt[j].pin = pin}
    BY WiredRow
  <2>3. IrqOf(NicPrt, k, pin) = NicPrt[Max(Of(pin))].irq
    BY <2>1, <2>2 DEF IrqOf
  <2>4. Of(pin) \subseteq Nat /\ \A x \in Of(pin) : x <= Len(NicPrt)
    BY <1>1, <1>2
  <2> HIDE DEF Of
  <2>5. QED
    BY <1>1, <2>1, <2>3, <2>4, Greatest
<1>4. ASSUME NEW pin \in 0..3 PROVE IrqOf(NicPrt, k, pin) \in PciIrqs
  <2>1. PICK j \in Own : IrqOf(NicPrt, k, pin) = NicPrt[j].irq
    BY <1>3
  <2>2. QED
    BY <2>1 DEF OwnAt
<1>5. \A j, e \in Own : NicPrt[j].pin = NicPrt[e].pin => j = e
  <2>1. \A j \in Own : j = k \/ j = k + 1 \/ j = k + 2 \/ j = k + 3
    BY <1>1, <1>2
  <2>2. k \in Own /\ k + 1 \in Own /\ k + 2 \in Own /\ k + 3 \in Own
    BY <1>1, <1>2
  <2>3. {NicPrt[k].pin, NicPrt[k + 1].pin, NicPrt[k + 2].pin,
         NicPrt[k + 3].pin} = {NicPrt[j].pin : j \in Own}
    BY <2>1, <2>2
  <2>4. {NicPrt[k].pin, NicPrt[k + 1].pin, NicPrt[k + 2].pin,
         NicPrt[k + 3].pin} = 0..3
    BY <2>3 DEF OwnAt
  <2>5. /\ NicPrt[k].pin # NicPrt[k + 1].pin
        /\ NicPrt[k].pin # NicPrt[k + 2].pin
        /\ NicPrt[k].pin # NicPrt[k + 3].pin
        /\ NicPrt[k + 1].pin # NicPrt[k + 2].pin
        /\ NicPrt[k + 1].pin # NicPrt[k + 3].pin
        /\ NicPrt[k + 2].pin # NicPrt[k + 3].pin
    BY <2>4, FourPins
  <2>6. QED
    BY <2>1, <2>5
<1>6. ASSUME NEW q \in Listed
      PROVE  \E pin \in 0..3 : IrqOf(NicPrt, k, pin) = q
  <2>1. PICK j \in Own : q = NicPrt[j].irq
    BY DEF Listed
  <2>2. NicPrt[j] \in Entries
    BY <1>1, <1>2
  <2>3. PICK pin \in 0..3 : NicPrt[j].pin = pin
    BY <2>2 DEF Entries
  <2>4. Max(Of(pin)) \in Of(pin)
    BY <1>3
  <2>5. Max(Of(pin)) = j
    BY <1>5, <2>3, <2>4
  <2>6. QED
    BY <1>3, <2>1, <2>3, <2>5
<1>7. QED
  BY <1>4, <1>6

\* find_pci_irq_table finds that row, in the table of a bridge to the card's
\* bus.
LEMMA WiredFound ==
  ASSUME Finished, Wired, RoutedInv, NEW k, OwnAt(k)
  PROVE  /\ Rows # {}
         /\ \A row \in Rows : tables[row[1]] = NicPrt /\ row[2] = k
<1>1. machine \in Machines /\ Numbered(machine.fns)
  BY PciAssumption DEF Finished, BuildInv
<1>2. PICK f : f = machine.nic
  OBVIOUS
<1>3. /\ f.bus \in DOMAIN machine.prt /\ f \in machine.fns
      /\ Visible(machine.fns, f) /\ f.bus \in Nat
      /\ NicPrt = machine.prt[f.bus]
  BY <1>1, <1>2, WiredTable DEF NicPrt
<1>4. Rows = FindIrqTable(f)
  <2>1. {g \in machine.fns : g.kind = "nic"} = {f}
    BY <1>1, <1>2, NicAssumption
  <2>2. Cards = {f}
    BY <1>3, <2>1 DEF Cards, Devs
  <2>3. ~Before(f, f)
    BY <1>1, <1>3 DEF Numbered, Before
  <2>4. {c \in Cards : IsFirst(c, Cards)} = {f}
    BY <2>2, <2>3 DEF IsFirst
  <2>5. QED
    BY <2>4 DEF Rows
<1> DEFINE P == {p \in DOMAIN tables : /\ bridges[p].busno = f.bus
                                       /\ tables[p] = NicPrt}
<1>5. ASSUME NEW p \in DOMAIN tables, bridges[p].busno = f.bus,
             NEW e \in Starts(tables[p]), Matches(tables[p][e], f)
      PROVE  p \in P /\ e = k
  <2>1. tables[p] # <<>>
    BY DEF Starts
  <2>2. tables[p] = NicPrt
    BY <1>3, <1>5, <2>1 DEF RoutedInv
  <2>3. e = k
    BY <1>1, <1>2, <1>5, <2>2, WiredRow
  <2>4. QED
    BY <1>5, <2>2, <2>3
<1>6. ASSUME NEW p \in P
      PROVE  k \in Starts(tables[p]) /\ Matches(tables[p][k], f)
  BY <1>1, <1>2, WiredRow
<1>7. \A row : row \in RowsFor(f) <=> \E p \in P : row = <<p, k>>
  <2>1. ASSUME NEW row \in RowsFor(f) PROVE \E p \in P : row = <<p, k>>
    <3>1. PICK p \in DOMAIN tables :
            /\ bridges[p].busno = f.bus
            /\ \E e \in Starts(tables[p]) :
                 Matches(tables[p][e], f) /\ row = <<p, e>>
      BY DEF RowsFor
    <3>2. QED
      BY <1>5, <3>1
  <2>2. ASSUME NEW p \in P PROVE <<p, k>> \in RowsFor(f)
    BY <1>6 DEF RowsFor
  <2>3. QED
    BY <2>1, <2>2
<1>8. P # {}
  <2>1. f.bus = 0 \/ \E g \in Bridges : g.sec = f.bus
    BY <1>1, <1>3 DEF Numbered, Bridges
  <2>2. PICK p \in DOMAIN tables :
          bridges[p].busno = f.bus /\ tables[p] = machine.prt[f.bus]
    BY <1>3, <2>1 DEF RoutedInv
  <2>3. QED
    BY <1>3, <2>2
<1>9. P \subseteq Nat
  BY DEF RoutedInv, Finished, BuildInv, BridgesInv
<1>10. k \in Nat
  BY <1>1, WiredTable DEF OwnAt
<1> HIDE DEF P
<1>11. PICK p \in P : \A e \in P : p <= e
  BY <1>8, <1>9, Least
<1>12. <<p, k>> \in FindIrqTable(f)
  <2>1. <<p, k>> \in RowsFor(f)
    BY <1>7
  <2>2. ASSUME NEW e \in RowsFor(f)
        PROVE  p < e[1] \/ (p = e[1] /\ k <= e[2])
    <3>1. PICK s \in P : e = <<s, k>>
      BY <1>7
    <3>2. p \in Nat /\ s \in Nat /\ p <= s
      BY <1>9, <1>11
    <3>3. QED
      BY <1>10, <3>1, <3>2
  <2>3. QED
    BY <2>1, <2>2 DEF FindIrqTable
<1>13. ASSUME NEW row \in FindIrqTable(f)
       PROVE  tables[row[1]] = NicPrt /\ row[2] = k
  <2>1. PICK e \in P : row = <<e, k>>
    BY <1>7 DEF FindIrqTable
  <2>2. QED
    BY <2>1 DEF P
<1>14. QED
  BY <1>4, <1>12, <1>13

-----------------------------------------------------------------------------
(* The driver adds its handlers.                                           *)

\* The machine does not change.
LEMMA MachineStays ==
  ASSUME [PciNext]_pciVars
  PROVE  /\ machine' = machine /\ Bridges' = Bridges
         /\ Wired' = Wired /\ NicPrt' = NicPrt /\ Own' = Own
         /\ Listed' = Listed
<1>1. machine' = machine
  BY DEF PciNext, Cmain, Build, BuildTree, EnterChild, ReturnFromChild,
         BuildEnd, Built, AssignIrqs, LookUp, Register, Registered, Dispatch,
         treeVars, pciVars
<1>2. Bridges' = Bridges /\ NicPrt' = NicPrt
  BY <1>1 DEF Bridges, NicPrt
<1>3. Own' = Own
  BY <1>1, <1>2 DEF Own
<1>4. QED
  BY <1>1, <1>2, <1>3 DEF Wired, Listed, Nested

\* A line is unmasked before its first handler is counted.
LEMMA UnmaskedStep ==
  ASSUME IrqInv, UnmaskedInv, [IrqNext]_irqVars
  PROVE  UnmaskedInv'
<1> USE DEF Step, table, adding, dispatch
<1>1. ASSUME NEW irq \in Int, NEW d \in Devices, Add(irq, d)
      PROVE  UnmaskedInv'
  BY <1>1 DEF Add, Tested, UnmaskedInv
<1>2. CASE StoreHandler
  <2>1. add.irq \in PciIrqs /\ add.n \in Nat /\ add.n = num[add.irq]
    BY <1>2 DEF StoreHandler, IrqInv, IrqTypeOK, FilledInv, Slots
  <2>2. QED
    BY <1>2, <2>1 DEF StoreHandler, UnmaskedInv
<1>3. CASE Redirect
  BY <1>3 DEF Redirect, UnmaskedInv
<1>4. CASE Count
  <2>1. add.irq \in PciIrqs /\ add.irq \in routed
        /\ num \in [PciIrqs -> 0..MaxHandlers]
    BY <1>4 DEF Count, IrqInv, IrqTypeOK, UnmaskedInv
  <2>2. \A q \in PciIrqs : q # add.irq => num'[q] = num[q]
    BY <1>4, <2>1 DEF Count
  <2>3. routed' = routed /\ tpc' = "idle"
    BY <1>4 DEF Count
  <2>4. QED
    BY <2>1, <2>2, <2>3 DEF UnmaskedInv
<1>5. ASSUME NEW irq \in PciIrqs, Interrupt(irq) PROVE UnmaskedInv'
  BY <1>5 DEF Interrupt, UnmaskedInv
<1>6. CASE DispatchNext
  BY <1>6 DEF DispatchNext, CallHandler, EndOfInterrupt, UnmaskedInv
<1>7. ASSUME NEW d \in Devices, Raise(d) PROVE UnmaskedInv'
  BY <1>7 DEF Raise, UnmaskedInv
<1>8. CASE UNCHANGED irqVars
  BY <1>8 DEF irqVars, UnmaskedInv
<1>9. QED
  BY <1>1, <1>2, <1>3, <1>4, <1>5, <1>6, <1>7, <1>8 DEF IrqNext, AddNext

\* The lines listed for the card are interrupt lines.
LEMMA ListedLines ==
  ASSUME machine \in Machines, Wired
  PROVE  Listed \subseteq PciIrqs
<1>1. PICK k : OwnAt(k)
  BY WiredTable
<1>2. QED
  BY <1>1 DEF OwnAt, Listed

\* The tree is finished when the driver looks its card up.
LEMMA BuiltStep ==
  ASSUME PciInv, Wired, DriverInv, Built
  PROVE  DriverInv'
<1>1. Finished
  BY DEF PciInv, Built, Finished, Wired
<1>2. phase' = "search" /\ AssignIrqs
  BY <1>1, FinishedFaithful DEF Built
<1>3. RoutedInv'
  BY <1>1, <1>2, AssignRoutes
<1>4. calls' = <<>>
  BY <1>1, <1>2 DEF AssignIrqs, Finished
<1>5. tpc = "idle" /\ tpc' = tpc /\ num' = num
      /\ \A q \in PciIrqs : num[q] = 0
  BY DEF Built, DriverInv, irqVars, table, adding
<1>6. QED
  BY <1>2, <1>3, <1>4, <1>5 DEF DriverInv

\* It finds the lines that are listed, and no other.
LEMMA FoundStep ==
  ASSUME PciInv, Wired, DriverInv, LookUp, [PciNext]_pciVars
  PROVE  DriverInv'
<1>1. Finished /\ RoutedInv /\ machine \in Machines
  BY DEF PciInv, BuildInv, LookUp, Finished, Wired, DriverInv
<1>2. PICK k : OwnAt(k)
  BY <1>1, WiredTable
<1>3. Rows # {} /\ \A row \in Rows : tables[row[1]] = NicPrt /\ row[2] = k
  BY <1>1, <1>2, WiredFound
<1>4. phase' = "register"
      /\ todo' = [pin \in 1..4 |-> IrqOf(NicPrt, k, pin - 1)]
  BY <1>3 DEF LookUp
<1>5. /\ \A pin \in 0..3 : IrqOf(NicPrt, k, pin) \in PciIrqs
      /\ \A q \in Listed : \E pin \in 0..3 : IrqOf(NicPrt, k, pin) = q
  BY <1>1, <1>2, WiredIrqs
<1>6. todo' \in Seq(PciIrqs) /\ Len(todo') = 4 /\ DOMAIN todo' = 1..4
  <2>1. todo' \in [1..4 -> PciIrqs]
    BY <1>4, <1>5
  <2>2. todo' \in Seq(PciIrqs)
    BY <2>1, SeqDef
  <2>3. QED
    BY <2>1, <2>2
<1>7. tpc' = "idle" /\ \A q \in PciIrqs : num'[q] = 0
  BY DEF LookUp, DriverInv, irqVars, table, adding
<1>8. ASSUME NEW q \in Listed PROVE \E j \in DOMAIN todo' : todo'[j] = q
  <2>1. PICK pin \in 0..3 : IrqOf(NicPrt, k, pin) = q
    BY <1>5
  <2>2. pin + 1 \in 1..4 /\ (pin + 1) - 1 = pin
    OBVIOUS
  <2>3. todo'[pin + 1] = q
    BY <1>4, <2>1, <2>2
  <2>4. QED
    BY <1>6, <2>2, <2>3
<1>9. Busy' = 0
  BY <1>7 DEF Busy, Adding
<1>10. Listed' = Listed
  BY MachineStays
<1>11. QED
  BY <1>4, <1>6, <1>7, <1>8, <1>9, <1>10 DEF DriverInv

\* It begins to add its handler for the next of them.
LEMMA RegisterStep ==
  ASSUME PciInv, Wired, DriverInv, Register, [PciNext]_pciVars
  PROVE  DriverInv'
<1>1. /\ phase = "register" /\ phase' = phase
      /\ todo \in Seq(PciIrqs) /\ todo # <<>> /\ tpc = "idle"
      /\ todo' = Tail(todo) /\ Add(Head(todo), Nic)
  BY DEF Register, DriverInv, Add
<1>2. PICK h : h = Head(todo)
  OBVIOUS
<1>3. /\ h \in PciIrqs /\ Tail(todo) \in Seq(PciIrqs)
      /\ Len(Tail(todo)) = Len(todo) - 1 /\ Len(todo) \in Nat
      /\ Len(todo) >= 1 /\ todo[1] = h
  BY <1>1, <1>2, HeadTailProperties
<1>4. num \in [PciIrqs -> 0..MaxHandlers] /\ MaxHandlers \in Nat
  BY IrqAssumption DEF PciInv, IrqInv, IrqTypeOK
<1>5. Busy = 0 /\ ~Adding
  BY <1>1 DEF Busy, Adding
<1>6. num[h] < MaxHandlers
  <2>1. num[h] + Len(todo) + 0 <= 4 /\ num[h] \in Nat
    BY <1>1, <1>3, <1>4, <1>5 DEF DriverInv
  <2>2. QED
    BY <1>3, <1>4, <2>1, NicAssumption
<1>7. tpc' = "store" /\ add'.irq = h /\ num' = num
  BY <1>1, <1>2, <1>3, <1>6 DEF Add, Tested, table
<1>8. Busy' = 1 /\ Adding'
  BY <1>7 DEF Busy, Adding
<1>9. ASSUME NEW q \in PciIrqs PROVE num'[q] + Len(todo') + Busy' <= 4
  <2>1. num[q] + Len(todo) + 0 <= 4 /\ num[q] \in Nat
    BY <1>1, <1>4, <1>5 DEF DriverInv
  <2>2. QED
    BY <1>1, <1>3, <1>7, <1>8, <2>1
<1>10. ASSUME NEW q \in Listed
       PROVE  \/ num'[q] > 0
              \/ \E j \in DOMAIN todo' : todo'[j] = q
              \/ Adding' /\ add'.irq = q
  <2>1. CASE num[q] > 0
    BY <1>7, <2>1
  <2>2. ASSUME NEW j \in DOMAIN todo, todo[j] = q
        PROVE  \/ Adding' /\ add'.irq = q
               \/ \E e \in DOMAIN todo' : todo'[e] = q
    <3>1. CASE j = 1
      BY <1>3, <1>7, <1>8, <2>2, <3>1
    <3>2. CASE j # 1
      <4>1. j \in 2..Len(todo) /\ j - 1 \in 1..Len(Tail(todo))
        BY <1>1, <1>3, <3>2
      <4>2. Tail(todo)[j - 1] = todo[j]
        BY <1>1, <1>3, <4>1
      <4>3. j - 1 \in DOMAIN todo'
        BY <1>1, <1>3, <4>1
      <4>4. QED
        BY <1>1, <2>2, <4>2, <4>3
    <3>3. QED
      BY <3>1, <3>2
  <2>3. QED
    BY <1>1, <1>5, <2>1, <2>2 DEF DriverInv
<1>11. Listed' = Listed
  BY MachineStays
<1>12. QED
  BY <1>1, <1>3, <1>7, <1>9, <1>10, <1>11 DEF DriverInv

\* It goes on with that, whatever interrupts it.
LEMMA AddingStep ==
  ASSUME PciInv, Wired, DriverInv, Dispatch, [PciNext]_pciVars
  PROVE  DriverInv'
<1>1. /\ phase' = phase /\ todo' = todo /\ UNCHANGED treeVars
      /\ Listed' = Listed
  BY MachineStays DEF Dispatch
<1>2. RoutedInv => RoutedInv'
  BY <1>1 DEF RoutedInv, treeVars, Bridges
<1>3. num \in [PciIrqs -> 0..MaxHandlers] /\ MaxHandlers \in Nat
  BY IrqAssumption DEF PciInv, IrqInv, IrqTypeOK
<1>4. ASSUME num' = num, tpc' = tpc, add' = add PROVE DriverInv'
  BY <1>1, <1>2, <1>4 DEF DriverInv, Busy, Adding, treeVars
<1>5. ASSUME num' = num, add' = add, Adding, Adding', phase = "register"
      PROVE  DriverInv'
  <2>1. Busy' = Busy /\ tpc' \notin {"reset", "undefined"}
    BY <1>5 DEF Busy, Adding
  <2>2. QED
    BY <1>1, <1>5, <2>1 DEF DriverInv
<1>6. Adding => phase = "register"
  <2>1. phase \in {"build", "undefined", "search", "failed", "register",
                   "running"}
    BY DEF PciInv, PhaseInv
  <2>2. QED
    BY <2>1 DEF DriverInv, Adding
<1>7. CASE StoreHandler
  <2>1. num' = num /\ add' = add /\ Adding /\ Adding'
    BY <1>7 DEF StoreHandler, Step, Adding
  <2>2. QED
    BY <1>5, <1>6, <2>1
<1>8. CASE Redirect
  <2>1. num' = num /\ add' = add /\ Adding /\ Adding'
    BY <1>8 DEF Redirect, Step, Adding
  <2>2. QED
    BY <1>5, <1>6, <2>1
<1>9. CASE Count
  <2>1. Adding /\ tpc' = "idle" /\ num' = [num EXCEPT ![add.irq] = add.n + 1]
    BY <1>9 DEF Count, Step, Adding
  <2>2. phase = "register" /\ add.irq \in PciIrqs /\ add.n = num[add.irq]
    BY <1>6, <1>9, <2>1 DEF Count, Step, PciInv, IrqInv, IrqTypeOK, FilledInv
  <2>3. Busy = 1 /\ Busy' = 0 /\ ~Adding'
    BY <2>1 DEF Busy, Adding
  <2>4. todo \in Seq(PciIrqs) /\ Len(todo) \in Nat
    BY <2>2 DEF DriverInv
  <2>5. /\ num'[add.irq] = num[add.irq] + 1
        /\ \A q \in PciIrqs : q # add.irq => num'[q] = num[q]
        /\ \A q \in PciIrqs : num[q] \in Nat
    BY <1>3, <2>1, <2>2
  <2>6. ASSUME NEW q \in PciIrqs PROVE num'[q] + Len(todo) + 0 <= 4
    <3>1. num[q] + Len(todo) + 1 <= 4
      BY <2>2, <2>3 DEF DriverInv
    <3>2. CASE q = add.irq
      BY <2>2, <2>4, <2>5, <3>1, <3>2
    <3>3. CASE q # add.irq
      BY <2>4, <2>5, <3>1, <3>3
    <3>4. QED
      BY <3>2, <3>3
  <2>7. ASSUME NEW q \in Listed
        PROVE  num'[q] > 0 \/ \E j \in DOMAIN todo : todo[j] = q
    <3>1. q \in PciIrqs
      BY ListedLines DEF PciInv, BuildInv
    <3>2. CASE q = add.irq
      BY <2>2, <2>5, <3>1, <3>2
    <3>3. CASE q # add.irq
      BY <2>2, <2>5, <3>1, <3>3 DEF DriverInv
    <3>4. QED
      BY <3>2, <3>3
  <2>8. QED
    BY <1>1, <2>1, <2>2, <2>3, <2>4, <2>6, <2>7 DEF DriverInv
<1>10. CASE (\E irq \in PciIrqs : Interrupt(irq)) \/ DispatchNext
              \/ \E d \in Devices : Raise(d)
  BY <1>4, <1>10 DEF Interrupt, DispatchNext, CallHandler, EndOfInterrupt,
                     Raise, table, adding
<1>11. QED
  BY <1>7, <1>8, <1>9, <1>10 DEF Dispatch, AddNext

\* So does every step of the system.
LEMMA DriverStep ==
  ASSUME PciInv, Wired => DriverInv, [PciNext]_pciVars
  PROVE  Wired' => DriverInv'
<1> SUFFICES ASSUME Wired, DriverInv PROVE DriverInv'
  BY MachineStays
<1>1. ASSUME UNCHANGED irqVars PROVE num' = num /\ tpc' = tpc /\ add' = add
  BY <1>1 DEF irqVars, table, adding
<1>2. CASE Build
  <2>1. phase = "build" /\ phase' = phase /\ num' = num /\ tpc' = tpc
    BY <1>1, <1>2 DEF Build
  <2>2. QED
    BY <2>1 DEF DriverInv
<1>3. CASE Built
  BY <1>3, BuiltStep
<1>4. CASE LookUp
  BY <1>4, FoundStep
<1>5. CASE Register
  BY <1>5, RegisterStep
<1>6. CASE Registered
  <2>1. /\ phase = "register" /\ todo = <<>> /\ tpc = "idle"
        /\ phase' = "running" /\ num' = num /\ tpc' = tpc
    BY <1>1, <1>6 DEF Registered
  <2>2. \A q \in Listed : num[q] > 0
    BY <2>1 DEF DriverInv, Adding
  <2>3. QED
    BY <2>1, <2>2, MachineStays DEF DriverInv
<1>7. CASE Dispatch
  BY <1>7, AddingStep
<1>8. CASE UNCHANGED pciVars
  <2>1. /\ phase' = phase /\ todo' = todo /\ UNCHANGED treeVars
        /\ num' = num /\ tpc' = tpc /\ add' = add
    BY <1>1, <1>8 DEF pciVars
  <2>2. RoutedInv => RoutedInv'
    BY <2>1 DEF RoutedInv, treeVars, Bridges
  <2>3. QED
    BY <2>1, <2>2, MachineStays DEF DriverInv, Busy, Adding, treeVars
<1>9. QED
  BY <1>2, <1>3, <1>4, <1>5, <1>6, <1>7, <1>8 DEF PciNext, Cmain

\* Every step of the start-up adds a handler of the card, goes on with that,
\* or has nothing to do with interrupts.
LEMMA PciIsIrq ==
  ASSUME PciInv, [PciNext]_pciVars
  PROVE  [IrqNext]_irqVars
<1>1. CASE Register
  <2>1. Head(todo) \in Nat \cup {-1}
    BY <1>1, HeadTailProperties DEF Register, PciInv, PhaseInv
  <2>2. Head(todo) \in Int /\ Nic \in Devices
    BY <2>1, NicAssumption
  <2>3. QED
    BY <1>1, <2>2 DEF Register, IrqNext
<1>2. CASE Build \/ Built \/ LookUp \/ Registered
  BY <1>2 DEF Build, Built, LookUp, Registered
<1>3. CASE Dispatch
  BY <1>3 DEF Dispatch, IrqNext
<1>4. CASE UNCHANGED pciVars
  BY <1>4 DEF pciVars
<1>5. QED
  BY <1>1, <1>2, <1>3, <1>4 DEF PciNext, Cmain

\* The start-up uses the interrupt lines as any driver may.
THEOREM PciImplementsIrq == PciSpec => IrqSpec
<1>1. PciInit => IrqInit
  BY DEF PciInit
<1>2. PciInv /\ [PciNext]_pciVars => [IrqNext]_irqVars
  BY PciIsIrq
<1>3. QED
  BY <1>1, <1>2, PciInvariance, PTL DEF PciSpec, IrqSpec

\* What DriverReady says follows from the invariants.
LEMMA ReadyWhenDriven ==
  ASSUME PciInv, UnmaskedInv, Wired => DriverInv
  PROVE  DriverReady
<1> SUFFICES ASSUME Wired, DriverInv, phase = "running", NEW q \in Listed
             PROVE  q \in routed /\ num[q] > 0 /\ handlers[q][0] = Nic
  BY DEF DriverReady, DriverInv
<1>1. q \in PciIrqs /\ num[q] > 0
  BY ListedLines DEF PciInv, BuildInv, DriverInv
<1>2. q \in routed
  BY <1>1 DEF UnmaskedInv
<1>3. 0 \in Slots
  BY IrqAssumption DEF Slots
<1>4. handlers[q][0] # None /\ handlers[q][0] \in Devices \cup {None}
  BY <1>1, <1>3 DEF PciInv, IrqInv, IrqTypeOK, FilledInv
<1>5. QED
  BY <1>1, <1>2, <1>4, NicAssumption

\* On a machine that lists the four pins of the card and has no nested bridges,
\* the driver finds its lines through the tree, is never reset, and when it
\* runs each of its lines is delivered and has its handler.
THEOREM DriverIsReady == PciSpec => []DriverReady
<1>1. PciInit => UnmaskedInv /\ (Wired => DriverInv)
  <2> SUFFICES ASSUME PciInit PROVE UnmaskedInv /\ DriverInv
    OBVIOUS
  <2>1. phase = "build" /\ tpc = "idle" /\ \A q \in PciIrqs : num[q] = 0
    BY DEF PciInit, IrqInit
  <2>2. QED
    BY <2>1 DEF UnmaskedInv, DriverInv
<1>2. PciInv /\ UnmaskedInv /\ [PciNext]_pciVars => UnmaskedInv'
  BY PciIsIrq, UnmaskedStep DEF PciInv
<1>3. PciInv /\ (Wired => DriverInv) /\ [PciNext]_pciVars
        => (Wired => DriverInv)'
  BY DriverStep
<1>4. PciInv /\ UnmaskedInv /\ (Wired => DriverInv) => DriverReady
  BY ReadyWhenDriven
<1>5. QED
  BY <1>1, <1>2, <1>3, <1>4, PciInvariance, PTL DEF PciSpec

=============================================================================
