------------------------------- MODULE MCPci --------------------------------
(***************************************************************************)
(* Model checking of Pci: all machines of up to three bridges in any legal *)
(* numbering, with the card on any bus, alone or as function 1 of a device *)
(* that may or may not say that it has several, and with interrupt tables  *)
(* of several shapes.                                                      *)
(***************************************************************************)
EXTENDS Pci

MCIrqs == 16..19

Fn(bus, dev, fn, kind, multi, sec) ==
  [bus |-> bus, dev |-> dev, fn |-> fn, kind |-> kind, multi |-> multi,
   sec |-> sec]

\* The bus each of the buses 1..k is behind; the buses behind a bridge are
\* numbered without gaps.
Parents(k) ==
  {up \in [1..k -> 0..2] :
     \A b \in 1..k : up[b] < b /\ (up[b] # b - 1 =>
       \E c \in 1..(b - 1) : up[c] = up[b] /\ \A e \in (c + 1)..(b - 1) : up[e] >= c)}

\* Bridges are on their bus in the order of their secondary buses or in the
\* opposite one.
BridgeDev(b, reversed) == IF reversed THEN 9 - b ELSE 4 + b
PciBridges(k, up, reversed) ==
  {Fn(up[b], BridgeDev(b, reversed), 0, "bridge", FALSE, b) : b \in 1..k}

Card(bus, fn) == Fn(bus, 3, fn, "nic", FALSE, 0)
Others(bus, fn, multi) ==
  {Fn(0, 0, 0, "host", FALSE, 0), Fn(bus, 2, 0, "other", FALSE, 0)}
    \cup (IF fn = 0 THEN {} ELSE {Fn(bus, 3, 0, "other", multi, 0)})

Entry(dev, fn, pin, irq) == [dev |-> dev, fn |-> fn, pin |-> pin, irq |-> irq]
Pins(dev, fn, Irq(_)) == [p \in 1..4 |-> Entry(dev, fn, p - 1, Irq(p))]

\* The tables of the card's bus; the last but two have lines that are below
\* or beyond the PCI lines.
Prts(fn) ==
  {Pins(2, AnyFn, LAMBDA p : 20 - p) \o Pins(3, AnyFn, LAMBDA p : 15 + p),
   Pins(3, AnyFn, LAMBDA p : 17) \o Pins(2, AnyFn, LAMBDA p : 16),
   Pins(3, 1 - fn, LAMBDA p : 16) \o Pins(3, fn, LAMBDA p : 18),
   FlattenSeq(Interleave(Pins(2, AnyFn, LAMBDA p : 16),
                         Pins(3, AnyFn, LAMBDA p : 17))),
   SubSeq(Pins(3, AnyFn, LAMBDA p : 15 + p), 1, 3),
   Pins(3, AnyFn, LAMBDA p : IF p = 4 THEN 11 ELSE 16),
   Pins(3, AnyFn, LAMBDA p : 17 + p),
   Pins(2, AnyFn, LAMBDA p : 16),
   <<>>}

\* The line the card's pin is wired to, 0 standing for one that is not listed.
Line(prt, fn, pin) ==
  LET own == {k \in DOMAIN prt : /\ prt[k].dev = 3 /\ prt[k].pin = pin
                                 /\ prt[k].fn \in {AnyFn, fn}}
  IN IF own = {} THEN 0 ELSE prt[CHOOSE k \in own : TRUE].irq

Machine(k, up, reversed, bus, fn, multi, prt, pin) ==
  [fns |-> PciBridges(k, up, reversed) \cup Others(bus, fn, multi)
             \cup {Card(bus, fn)},
   nic |-> Card(bus, fn),
   prt |-> [b \in {0, bus} |-> IF b = bus THEN prt
                               ELSE Pins(3, AnyFn, LAMBDA p : 19)],
   line |-> Line(prt, fn, pin)]

MCMachines ==
  UNION {
    {Machine(k, up, reversed, bus, fn, multi, prt, pin) :
       up \in Parents(k), reversed \in BOOLEAN, bus \in 0..k,
       prt \in Prts(fn), pin \in {0, 3}} :
    k \in 0..3, fn \in {0, 1}, multi \in BOOLEAN}

=============================================================================
