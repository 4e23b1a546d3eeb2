------------------------------ MODULE SmpProofs ------------------------------
(***************************************************************************)
(* Proofs about smp.c and the handshake of bench.c (module Smp) for every  *)
(* number of processors and every number of C-states.  WakeupInv follows a *)
(* monitor from the moment it is armed to the end of the halt; it does not *)
(* depend on what the scripts of the handshake say.                        *)
(***************************************************************************)
EXTENDS Smp, SequenceLemmas, TLAPS

\* The cache lines of two mailboxes or bytes are different.
LEMMA LinesDiffer ==
  \A a, b : /\ CommandLine(a) = CommandLine(b) => a = b
            /\ ReadyLine(a) = ReadyLine(b) => a = b
            /\ CommandLine(a) # ReadyLine(b)
BY DEF CommandLine, ReadyLine

LEMMA InitWakeup == Init => WakeupInv
BY DEF Init, WakeupInv, ShapeInv, MailboxInv, ByteInv, Cpus, Bsp, Aps

\* The start-up interrupts take the APs out of every wait.
LEMMA BootApStep == ASSUME WakeupInv, BootAp PROVE WakeupInv'
<1> USE DEF WakeupInv, BootAp
<1>1. ShapeInv'
  BY DEF ShapeInv
<1>2. MailboxInv'
  BY LinesDiffer DEF ShapeInv, MailboxInv, Aps, Bsp, Cpus
<1>3. ByteInv'
  BY LinesDiffer DEF ShapeInv, ByteInv, Op, Aps, Bsp, Cpus
<1>4. QED
  BY <1>1, <1>2, <1>3

\* A command disarms the AP that waits for it.
LEMMA HelloApStep == ASSUME WakeupInv, NEW a \in Aps, HelloAp(a) PROVE WakeupInv'
<1> USE DEF WakeupInv, HelloAp, StoreWakes, Awake
<1>1. ShapeInv'
  BY DEF ShapeInv
<1>2. MailboxInv'
  BY LinesDiffer DEF ShapeInv, MailboxInv, Aps, Bsp, Cpus
<1>3. ByteInv'
  BY LinesDiffer DEF ShapeInv, ByteInv, Op, Aps, Bsp, Cpus
<1>4. QED
  BY <1>1, <1>2, <1>3

\* Processor 0 begins its script.
LEMMA BenchStep == ASSUME WakeupInv, Bench PROVE WakeupInv'
<1> USE DEF WakeupInv, Bench, Goto
<1>1. ShapeInv'
  BY DEF ShapeInv
<1>2. MailboxInv'
  BY LinesDiffer DEF ShapeInv, MailboxInv, Aps, Bsp, Cpus
<1>3. ByteInv'
  BY LinesDiffer DEF ShapeInv, ByteInv, Op, Aps, Bsp, Cpus
<1>4. QED
  BY <1>1, <1>2, <1>3

\* A store to a byte disarms every processor that waits for it.
LEMMA DoStoreStep == ASSUME WakeupInv, NEW p \in Cpus, DoStore(p) PROVE WakeupInv'
<1> USE DEF WakeupInv, DoStore, StoreWakes, Awake, Onward, Return, Rest, Goto
<1>1. ShapeInv'
  BY DEF ShapeInv
<1>2. MailboxInv'
  BY LinesDiffer DEF ShapeInv, MailboxInv, Aps, Bsp, Cpus
<1>3. ByteInv'
  <2> SUFFICES ASSUME NEW q \in Cpus
               PROVE  /\ pc'[q] \in {"check", "mwait", "halted"} /\ armed'[q] # None
                           => armed'[q] = ReadyLine(Op(q)'.ap)
                      /\ pc'[q] \in {"mwait", "halted"} /\ armed'[q] # None
                           => ready'[Op(q)'.ap] # Op(q)'.v
                      /\ pc'[q] = "halted" => armed'[q] # None
    BY DEF ByteInv
  <2>1. CASE q = p
    BY <2>1 DEF ShapeInv, Cpus, Bsp, Aps
  <2>2. CASE q # p
    <3>1. Op(q)' = Op(q)
      BY <2>2 DEF ShapeInv, Op
    <3>2. CASE armed[q] = ReadyLine(Op(p).ap)
      BY <2>2, <3>2 DEF ShapeInv
    <3>3. CASE armed[q] # ReadyLine(Op(p).ap)
      <4>1. pc'[q] = pc[q] /\ armed'[q] = armed[q]
        BY <2>2, <3>3 DEF ShapeInv
      <4>2. Op(q).ap # Op(p).ap => ready'[Op(q).ap] = ready[Op(q).ap]
        BY DEF ShapeInv
      <4>3. QED
        BY <3>1, <3>3, <4>1, <4>2 DEF ByteInv
    <3>4. QED
      BY <3>2, <3>3
  <2>3. QED
    BY <2>1, <2>2
<1>4. QED
  BY <1>1, <1>2, <1>3

\* A command of the bench disarms the AP that waits for it.
LEMMA DoPostStep == ASSUME WakeupInv, NEW p \in Cpus, DoPost(p) PROVE WakeupInv'
<1> USE DEF WakeupInv, DoPost, StoreWakes, Awake, Onward, Return, Rest, Goto
<1>1. ShapeInv'
  BY DEF ShapeInv
<1>2. MailboxInv'
  BY LinesDiffer DEF ShapeInv, MailboxInv, Aps, Bsp, Cpus
<1>3. ByteInv'
  BY LinesDiffer DEF ShapeInv, ByteInv, Op, Aps, Bsp, Cpus
<1>4. QED
  BY <1>1, <1>2, <1>3

\* The monitor of watch_mem1 is armed.
LEMMA WatchMonitorStep == ASSUME WakeupInv, NEW p \in Cpus, WatchMonitor(p) PROVE WakeupInv'
<1> USE DEF WakeupInv, WatchMonitor, Goto
<1>1. ShapeInv'
  BY DEF ShapeInv
<1>2. MailboxInv'
  BY LinesDiffer DEF ShapeInv, MailboxInv, Aps, Bsp, Cpus
<1>3. ByteInv'
  BY LinesDiffer DEF ShapeInv, ByteInv, Op, Aps, Bsp, Cpus
<1>4. QED
  BY <1>1, <1>2, <1>3

\* The byte is read behind the monitor.
LEMMA WatchCheckStep == ASSUME WakeupInv, NEW p \in Cpus, WatchCheck(p) PROVE WakeupInv'
<1> USE DEF WakeupInv, WatchCheck, Onward, Return, Rest, Goto
<1>1. ShapeInv'
  BY DEF ShapeInv
<1>2. MailboxInv'
  BY LinesDiffer DEF ShapeInv, MailboxInv, Aps, Bsp, Cpus
<1>3. ByteInv'
  BY ZenonT(30), LinesDiffer DEF ShapeInv, ByteInv, Op, Aps, Bsp, Cpus
<1>4. QED
  BY <1>1, <1>2, <1>3

\* The processor halts only while it is armed.
LEMMA WatchMwaitStep == ASSUME WakeupInv, NEW p \in Cpus, WatchMwait(p) PROVE WakeupInv'
<1> USE DEF WakeupInv, WatchMwait, Halt, Goto
<1>1. ShapeInv'
  BY DEF ShapeInv
<1>2. MailboxInv'
  BY LinesDiffer DEF ShapeInv, MailboxInv, Aps, Bsp, Cpus
<1>3. ByteInv'
  BY LinesDiffer DEF ShapeInv, ByteInv, Op, Aps, Bsp, Cpus
<1>4. QED
  BY <1>1, <1>2, <1>3

\* A starting AP clears its mailbox.
LEMMA StartStep == ASSUME WakeupInv, NEW a \in Aps, Start(a) PROVE WakeupInv'
<1> USE DEF WakeupInv, Start, Goto
<1>1. ShapeInv'
  BY DEF ShapeInv
<1>2. MailboxInv'
  BY LinesDiffer DEF ShapeInv, MailboxInv, Aps, Bsp, Cpus
<1>3. ByteInv'
  BY LinesDiffer DEF ShapeInv, ByteInv, Op, Aps, Bsp, Cpus
<1>4. QED
  BY <1>1, <1>2, <1>3

\* It enters ap_thread.
LEMMA EnableStep == ASSUME WakeupInv, NEW a \in Aps, Enable(a) PROVE WakeupInv'
<1> USE DEF WakeupInv, Enable, Goto
<1>1. ShapeInv'
  BY DEF ShapeInv
<1>2. MailboxInv'
  BY LinesDiffer DEF ShapeInv, MailboxInv, Aps, Bsp, Cpus
<1>3. ByteInv'
  BY LinesDiffer DEF ShapeInv, ByteInv, Op, Aps, Bsp, Cpus
<1>4. QED
  BY <1>1, <1>2, <1>3

\* An AP takes a command out of its mailbox.
LEMMA ClearStep == ASSUME WakeupInv, NEW a \in Aps, Clear(a) PROVE WakeupInv'
<1> USE DEF WakeupInv, Clear, Goto
<1>1. ShapeInv'
  BY DEF ShapeInv
<1>2. MailboxInv'
  BY LinesDiffer DEF ShapeInv, MailboxInv, Aps, Bsp, Cpus
<1>3. ByteInv'
  BY LinesDiffer DEF ShapeInv, ByteInv, Op, Aps, Bsp, Cpus
<1>4. QED
  BY <1>1, <1>2, <1>3

\* It has said hello.
LEMMA HelloStep == ASSUME WakeupInv, NEW a \in Aps, Hello(a) PROVE WakeupInv'
<1> USE DEF WakeupInv, Hello, Goto
<1>1. ShapeInv'
  BY DEF ShapeInv
<1>2. MailboxInv'
  BY LinesDiffer DEF ShapeInv, MailboxInv, Aps, Bsp, Cpus
<1>3. ByteInv'
  BY LinesDiffer DEF ShapeInv, ByteInv, Op, Aps, Bsp, Cpus
<1>4. QED
  BY <1>1, <1>2, <1>3

\* It arms its monitor on its mailbox.
LEMMA MonitorStep == ASSUME WakeupInv, NEW a \in Aps, Monitor(a) PROVE WakeupInv'
<1> USE DEF WakeupInv, Monitor, Goto
<1>1. ShapeInv'
  BY DEF ShapeInv
<1>2. MailboxInv'
  BY LinesDiffer DEF ShapeInv, MailboxInv, Aps, Bsp, Cpus
<1>3. ByteInv'
  BY LinesDiffer DEF ShapeInv, ByteInv, Op, Aps, Bsp, Cpus
<1>4. QED
  BY <1>1, <1>2, <1>3

\* It halts only while it is armed.
LEMMA MwaitStep == ASSUME WakeupInv, NEW a \in Aps, Mwait(a) PROVE WakeupInv'
<1> USE DEF WakeupInv, Mwait, Halt, Goto
<1>1. ShapeInv'
  BY DEF ShapeInv
<1>2. MailboxInv'
  BY LinesDiffer DEF ShapeInv, MailboxInv, Aps, Bsp, Cpus
<1>3. ByteInv'
  BY LinesDiffer DEF ShapeInv, ByteInv, Op, Aps, Bsp, Cpus
<1>4. QED
  BY <1>1, <1>2, <1>3

\* An interrupt disarms the monitor and ends the halt.
LEMMA DisturbStep == ASSUME WakeupInv, NEW p \in Cpus, Disturb(p) PROVE WakeupInv'
<1> USE DEF WakeupInv, Disturb, Awake, Goto
<1>1. ShapeInv'
  BY DEF ShapeInv
<1>2. MailboxInv'
  BY LinesDiffer DEF ShapeInv, MailboxInv, Aps, Bsp, Cpus
<1>3. ByteInv'
  BY LinesDiffer DEF ShapeInv, ByteInv, Op, Aps, Bsp, Cpus
<1>4. QED
  BY <1>1, <1>2, <1>3

\* An AP reads its mailbox before or behind its monitor.
LEMMA ReadStep ==
  ASSUME WakeupInv, NEW a \in Aps,
         \/ Read(a, "read", "monitor")
         \/ Read(a, "reread", "doze")
  PROVE  WakeupInv'
<1> USE DEF WakeupInv, Read, Goto
<1>1. ShapeInv'
  BY DEF ShapeInv
<1>2. MailboxInv'
  BY DEF ShapeInv, MailboxInv, Aps, Bsp, Cpus
<1>3. ByteInv'
  BY DEF ShapeInv, ByteInv, Op, Aps, Bsp, Cpus
<1>4. QED
  BY <1>1, <1>2, <1>3

\* Every step keeps the invariant.
LEMMA NextWakeup == WakeupInv /\ [Next]_vars => WakeupInv'
<1> SUFFICES ASSUME WakeupInv, [Next]_vars PROVE WakeupInv'
  OBVIOUS
<1>1. CASE BootAp \/ Bench
  BY <1>1, BootApStep, BenchStep
<1>2. ASSUME NEW a \in Aps, HelloAp(a) \/ Thread(a) PROVE WakeupInv'
  BY <1>2, HelloApStep, StartStep, EnableStep, ReadStep, MonitorStep,
     MwaitStep, ClearStep, HelloStep DEF Thread
<1>3. ASSUME NEW p \in Cpus, Perform(p) \/ Disturb(p) PROVE WakeupInv'
  BY <1>3, DoStoreStep, DoPostStep, WatchMonitorStep, WatchCheckStep,
     WatchMwaitStep, DisturbStep DEF Perform
<1>4. CASE UNCHANGED vars
  BY <1>4 DEF vars, WakeupInv, ShapeInv, MailboxInv, ByteInv, Op
<1>5. QED
  BY <1>1, <1>2, <1>3, <1>4 DEF Next

\* However many processors there are, none is halted while the mailbox or the
\* byte it waits for already holds what it waits for.
THEOREM LostWakeupFree == Spec => []NoLostWakeup
<1>1. WakeupInv => NoLostWakeup
  BY DEF WakeupInv, MailboxInv, ByteInv, NoLostWakeup
<1>2. QED
  BY <1>1, InitWakeup, NextWakeup, PTL DEF Spec

-----------------------------------------------------------------------------
(* Types.                                                                  *)

\* An operation is one of the scripts'.
LEMMA OpTypes ==
  \A a \in Aps : /\ \A v \in 0..9 : Store(a, v) \in Ops /\ Watch(a, v) \in Ops
                 /\ Post(a) \in Ops
BY DEF Store, Watch, Post, Ops

\* A loop over the APs executes the operations of its rounds.
LEMMA LoopType ==
  ASSUME NEW g \in [Aps -> Seq(Ops)]
  PROVE  /\ FlattenSeq(g) \in Seq(Ops)
         /\ FlattenSeq(g) = <<>> <=> \A a \in Aps : g[a] = <<>>
<1>1. g \in Seq(Seq(Ops)) /\ Len(g) = NumAp
  BY SmpAssumption DEF Aps
<1>2. QED
  BY <1>1, FlattenType, FlattenEmpty DEF Aps

\* So does one over the C-states.
LEMMA RepeatType ==
  ASSUME NEW k \in Nat, NEW ops \in Seq(Ops)
  PROVE  /\ Repeat(k, ops) \in Seq(Ops)
         /\ ops = <<>> => Repeat(k, ops) = <<>>
<1> DEFINE g == [i \in 1..k |-> ops]
<1>1. g \in Seq(Seq(Ops)) /\ Len(g) = k /\ \A i \in 1..k : g[i] = ops
  OBVIOUS
<1> HIDE DEF g
<1>2. QED
  BY <1>1, FlattenType, FlattenEmpty DEF Repeat, g

LEMMA TogetherType ==
  ASSUME NEW cpus \in SUBSET Aps, NEW v \in 0..8
  PROVE  /\ Together(cpus, v) \in Seq(Ops)
         /\ cpus = {} => Together(cpus, v) = <<>>
<1> DEFINE s == [a \in Aps |-> IF a \in cpus THEN <<Store(a, v)>> ELSE <<>>]
           w == [a \in Aps |-> IF a \in cpus THEN <<Watch(a, v + 1)>> ELSE <<>>]
<1>1. s \in [Aps -> Seq(Ops)] /\ w \in [Aps -> Seq(Ops)]
  <2>1. v \in 0..9 /\ v + 1 \in 0..9
    OBVIOUS
  <2>2. \A a \in Aps : Store(a, v) \in Ops /\ Watch(a, v + 1) \in Ops
    BY <2>1, OpTypes
  <2>3. QED
    BY <2>2
<1>2. cpus = {} => \A a \in Aps : s[a] = <<>> /\ w[a] = <<>>
  OBVIOUS
<1>3. Together(cpus, v) = FlattenSeq(s) \o FlattenSeq(w)
  BY DEF Together, ForEach
<1> HIDE DEF s, w
<1>4. /\ FlattenSeq(s) \in Seq(Ops) /\ FlattenSeq(w) \in Seq(Ops)
      /\ cpus = {} => FlattenSeq(s) = <<>> /\ FlattenSeq(w) = <<>>
  BY <1>1, <1>2, LoopType
<1>5. FlattenSeq(s) \o FlattenSeq(w) \in Seq(Ops)
  BY <1>4, ConcatType
<1>6. cpus = {} => FlattenSeq(s) \o FlattenSeq(w) = <<>>
  BY <1>4, ConcatEmpty
<1>7. QED
  BY <1>3, <1>5, <1>6

\* smp_bench does nothing exactly if no AP is enabled.
LEMMA BspScriptType ==
  ASSUME NEW cpus \in SUBSET Aps
  PROVE  /\ BspScript(cpus) \in Seq(Ops)
         /\ BspScript(cpus) = <<>> <=> cpus = {}
<1> DEFINE l == [a \in Aps |-> IF a \in cpus THEN Launch(a) ELSE <<>>]
           w == [a \in Aps |-> IF a \in cpus THEN <<Watch(a, 1)>> ELSE <<>>]
           c == [a \in Aps |-> IF a \in cpus THEN <<Store(a, 2), Watch(a, 3)>> ELSE <<>>]
           s == [a \in Aps |-> IF a \in cpus THEN Single(a) ELSE <<>>]
           L == FlattenSeq(l)
           W == FlattenSeq(w)
           C == Repeat(CStates, FlattenSeq(c))
           S == FlattenSeq(s)
           T(v) == Together(cpus, v)
<1>1. /\ l \in [Aps -> Seq(Ops)] /\ w \in [Aps -> Seq(Ops)]
      /\ c \in [Aps -> Seq(Ops)] /\ s \in [Aps -> Seq(Ops)]
  <2>1. \A a \in Aps : Launch(a) \in Seq(Ops)
    BY OpTypes DEF Launch
  <2>2. \A a \in Aps : Single(a) \in Seq(Ops)
    BY OpTypes DEF Single
  <2>3. \A a \in Aps : <<Watch(a, 1)>> \in Seq(Ops) /\ <<Store(a, 2), Watch(a, 3)>> \in Seq(Ops)
    BY OpTypes
  <2>4. QED
    BY <2>1, <2>2, <2>3
<1>2. /\ cpus = {} => \A a \in Aps : /\ l[a] = <<>> /\ w[a] = <<>>
                                     /\ c[a] = <<>> /\ s[a] = <<>>
  OBVIOUS
<1>3. \A a \in cpus : l[a] # <<>>
  BY DEF Launch
<1>4. BspScript(cpus) = L \o W \o C \o S \o T(4) \o T(6) \o T(8)
  BY DEF BspScript, ForEach
<1> HIDE DEF l, w, c, s
<1>5. /\ L \in Seq(Ops) /\ W \in Seq(Ops) /\ S \in Seq(Ops)
      /\ FlattenSeq(c) \in Seq(Ops)
      /\ cpus = {} => L = <<>> /\ W = <<>> /\ S = <<>> /\ FlattenSeq(c) = <<>>
      /\ cpus # {} => L # <<>>
  BY <1>1, <1>2, <1>3, LoopType
<1>6. C \in Seq(Ops) /\ (cpus = {} => C = <<>>)
  BY <1>5, SmpAssumption, RepeatType
<1>7. /\ T(4) \in Seq(Ops) /\ T(6) \in Seq(Ops) /\ T(8) \in Seq(Ops)
      /\ cpus = {} => T(4) = <<>> /\ T(6) = <<>> /\ T(8) = <<>>
  BY TogetherType
<1> HIDE DEF L, W, C, S, T
<1>8. L \o W \in Seq(Ops) /\ (L \o W = <<>> <=> L = <<>> /\ W = <<>>)
  BY <1>5, ConcatType, ConcatEmpty
<1>9. /\ L \o W \o C \in Seq(Ops)
      /\ L \o W \o C = <<>> <=> L \o W = <<>> /\ C = <<>>
  BY <1>6, <1>8, ConcatType, ConcatEmpty
<1>10. /\ L \o W \o C \o S \in Seq(Ops)
       /\ L \o W \o C \o S = <<>> <=> L \o W \o C = <<>> /\ S = <<>>
  BY <1>5, <1>9, ConcatType, ConcatEmpty
<1>11. /\ L \o W \o C \o S \o T(4) \in Seq(Ops)
       /\ L \o W \o C \o S \o T(4) = <<>> <=> L \o W \o C \o S = <<>> /\ T(4) = <<>>
  BY <1>7, <1>10, ConcatType, ConcatEmpty
<1>12. /\ L \o W \o C \o S \o T(4) \o T(6) \in Seq(Ops)
       /\ L \o W \o C \o S \o T(4) \o T(6) = <<>>
            <=> L \o W \o C \o S \o T(4) = <<>> /\ T(6) = <<>>
  BY <1>7, <1>11, ConcatType, ConcatEmpty
<1>13. /\ L \o W \o C \o S \o T(4) \o T(6) \o T(8) \in Seq(Ops)
       /\ L \o W \o C \o S \o T(4) \o T(6) \o T(8) = <<>>
            <=> L \o W \o C \o S \o T(4) \o T(6) = <<>> /\ T(8) = <<>>
  BY <1>7, <1>12, ConcatType, ConcatEmpty
<1>14. QED
  BY <1>4, <1>5, <1>6, <1>7, <1>8, <1>9, <1>10, <1>11, <1>12, <1>13

\* run_bench_ap always has something to do.
LEMMA ApScriptType ==
  ASSUME NEW a \in Aps
  PROVE  ApScript(a) \in Seq(Ops) /\ ApScript(a) # <<>>
<1> DEFINE b == <<Store(a, 1)>>
           c == <<Watch(a, 2), Store(a, 3)>>
           d == <<Watch(a, 4), Store(a, 5), Watch(a, 6), Store(a, 7),
                  Watch(a, 8), Store(a, 9)>>
           C == Repeat(CStates, c)
           D == Repeat(2, d)
<1>1. b \in Seq(Ops) /\ c \in Seq(Ops) /\ d \in Seq(Ops) /\ b # <<>>
  BY OpTypes
<1>2. ApScript(a) = b \o C \o D
  BY DEF ApScript
<1> HIDE DEF b, c, d
<1>3. C \in Seq(Ops) /\ D \in Seq(Ops)
  BY <1>1, SmpAssumption, RepeatType
<1> HIDE DEF C, D
<1>4. b \o C \in Seq(Ops) /\ b \o C # <<>>
  BY <1>1, <1>3, ConcatType, ConcatEmpty
<1>5. b \o C \o D \in Seq(Ops) /\ b \o C \o D # <<>>
  BY <1>3, <1>4, ConcatType, ConcatEmpty
<1>6. QED
  BY <1>2, <1>5

LEMMA InitTypes == Init => TypeOK
<1>1. <<>> \in Seq(Ops)
  OBVIOUS
<1>2. Init => /\ script \in [Cpus -> Seq(Ops)]
              /\ \A p \in Cpus : script[p] = <<>> /\ pc[p] \in {"shell", "off"}
              /\ \A a \in Aps : pc[a] = "off"
  BY <1>1 DEF Init, Cpus, Bsp, Aps
<1>3. Init => pc \in [Cpus -> {"shell", "off"}]
  BY DEF Init
<1>4. Init => armed \in [Cpus -> Lines \cup {None}]
  BY DEF Init
<1>5. Init => command \in [Aps -> Commands \cup {None}]
  BY DEF Init
<1>6. Init => taken \in [Aps -> Commands \cup {None}]
  BY DEF Init
<1>7. Init => ready \in [Aps -> 0..9]
  BY DEF Init
<1>8. Init => enabled \in SUBSET Aps /\ calm \in BOOLEAN
  BY DEF Init
<1>9. QED
  BY <1>2, <1>3, <1>4, <1>5, <1>6, <1>7, <1>8 DEF TypeOK, Running

\* The operation of a processor with a script, and what is left behind it.
LEMMA OpOf ==
  ASSUME TypeOK, NEW p \in Cpus, pc[p] \in Running
  PROVE  /\ Op(p).ap \in Aps /\ Op(p).v \in 0..9
         /\ Rest(p) \in Seq(Ops)
         /\ Onward(p) \in {"shell", "read", "run"}
         /\ Rest(p) # <<>> <=> Onward(p) \in Running
         /\ Onward(p) # "clear"
<1>1. script[p] \in Seq(Ops) /\ script[p] # <<>>
  BY DEF TypeOK
<1>2. Op(p) \in Ops /\ Rest(p) \in Seq(Ops)
  BY <1>1 DEF Op, Rest
<1>3. QED
  BY <1>2 DEF Ops, Onward, Return, Running

\* A processor that is woken up goes on where it waited.
LEMMA AwakeTypes ==
  ASSUME NEW s
  PROVE  /\ Awake(s) \in Running <=> s \in Running
         /\ Awake(s) = s \/ Awake(s) \in {"read", "run"}
BY DEF Awake, Running

LEMMA LineTypes ==
  \A a \in Aps : CommandLine(a) \in Lines /\ ReadyLine(a) \in Lines
BY DEF CommandLine, ReadyLine, Lines

\* The start-up interrupts take the APs out of their scripts.
LEMMA BootApTypes == ASSUME TypeOK, BootAp PROVE TypeOK'
BY LineTypes DEF TypeOK, BootAp, Cpus, Bsp, Aps, Running, Waiting, Commands

\* A command wakes an AP up.
LEMMA HelloApTypes == ASSUME TypeOK, NEW a \in Aps, HelloAp(a) PROVE TypeOK'
<1> USE DEF HelloAp, TypeOK
<1>1. ASSUME NEW p \in Cpus
      PROVE  /\ pc'[p] = pc[p] \/ pc'[p] = Awake(pc[p])
             /\ armed'[p] \in {None, armed[p]}
  BY DEF StoreWakes
<1>2. ASSUME NEW p \in Cpus
      PROVE  /\ pc'[p] = pc[p] \/ pc'[p] \in {"read", "run"}
             /\ pc'[p] \in Running <=> pc[p] \in Running
  BY <1>1, AwakeTypes
<1>3. pc' = [p \in Cpus |-> pc'[p]] /\ armed' = [p \in Cpus |-> armed'[p]]
  BY DEF StoreWakes
<1>4. command' \in [Aps -> Commands \cup {None}]
  BY DEF Commands
<1>5. QED
  BY ZenonT(30), <1>1, <1>2, <1>3, <1>4 DEF Running, Waiting, Cpus, Aps, Bsp

\* Processor 0 gets a script if an AP is enabled.
LEMMA BenchTypes == ASSUME TypeOK, Bench PROVE TypeOK'
<1> USE DEF Bench, TypeOK
<1>1. /\ BspScript(enabled) \in Seq(Ops)
      /\ BspScript(enabled) = <<>> <=> enabled = {}
  BY BspScriptType
<1>2. Bsp \in Cpus /\ Bsp \notin Aps
  BY DEF Cpus, Bsp, Aps
<1>3. script' \in [Cpus -> Seq(Ops)]
  BY <1>1, <1>2
<1>4. /\ pc' \in [Cpus -> Running \cup Waiting
                  \cup {"shell", "off", "start", "enable", "clear", "hello"}]
      /\ \A p \in Cpus : script'[p] # <<>> <=> pc'[p] \in Running
  BY <1>1, <1>2 DEF Goto, Running
<1>5. \A a \in Aps : pc'[a] = pc[a]
  BY <1>2 DEF Goto, Cpus
<1>6. calm' \in BOOLEAN
  BY DEF Calm
<1>7. QED
  BY <1>3, <1>4, <1>5, <1>6

\* An operation is taken off a script.
LEMMA DoStoreTypes == ASSUME TypeOK, NEW p \in Cpus, DoStore(p) PROVE TypeOK'
<1> USE DEF DoStore, TypeOK
<1>1. /\ Op(p).ap \in Aps /\ Op(p).v \in 0..9
      /\ Rest(p) \in Seq(Ops)
      /\ Onward(p) \in {"shell", "read", "run"}
      /\ Rest(p) # <<>> <=> Onward(p) \in Running
  BY OpOf DEF Running
<1>2. ASSUME NEW q \in Cpus
      PROVE  /\ pc'[q] = Goto(p, Onward(p))[q] \/ pc'[q] = Awake(Goto(p, Onward(p))[q])
             /\ armed'[q] \in {None, armed[q]}
  BY DEF StoreWakes
<1>3. ASSUME NEW q \in Cpus
      PROVE  Goto(p, Onward(p))[q] = IF q = p THEN Onward(p) ELSE pc[q]
  BY DEF Goto
<1>4. ASSUME NEW q \in Cpus
      PROVE  /\ q # p => pc'[q] = pc[q] \/ pc'[q] \in {"read", "run"}
             /\ q # p => (pc'[q] \in Running <=> pc[q] \in Running)
             /\ q = p => pc'[q] \in {"shell", "read", "run"}
             /\ q = p => (pc'[q] \in Running <=> Onward(p) \in Running)
  BY <1>1, <1>2, <1>3, AwakeTypes
<1>5. pc' = [q \in Cpus |-> pc'[q]] /\ armed' = [q \in Cpus |-> armed'[q]]
  BY DEF StoreWakes
<1>6. script' \in [Cpus -> Seq(Ops)] /\ ready' \in [Aps -> 0..9]
  BY <1>1
<1>7. \A q \in Cpus : script'[q] = IF q = p THEN Rest(p) ELSE script[q]
  BY <1>1
<1>8. \A q \in Cpus : script'[q] # <<>> <=> pc'[q] \in Running
  BY <1>1, <1>4, <1>7
<1>9. /\ pc' \in [Cpus -> Running \cup Waiting
                  \cup {"shell", "off", "start", "enable", "clear", "hello"}]
      /\ armed' \in [Cpus -> Lines \cup {None}]
      /\ \A a \in Aps : pc'[a] = "clear" => pc[a] = "clear"
  BY ZenonT(30), <1>2, <1>4, <1>5 DEF Running, Waiting, Cpus
<1>10. QED
  BY <1>6, <1>8, <1>9

LEMMA DoPostTypes == ASSUME TypeOK, NEW p \in Cpus, DoPost(p) PROVE TypeOK'
BY LineTypes, OpOf, AwakeTypes DEF TypeOK, DoPost, StoreWakes, Goto, Cpus, Bsp, Aps, Running, Waiting, Commands

LEMMA WatchMonitorTypes == ASSUME TypeOK, NEW p \in Cpus, WatchMonitor(p) PROVE TypeOK'
BY LineTypes, OpOf DEF TypeOK, WatchMonitor, Goto, Cpus, Bsp, Aps, Running, Waiting, Commands

LEMMA WatchCheckTypes == ASSUME TypeOK, NEW p \in Cpus, WatchCheck(p) PROVE TypeOK'
BY ZenonT(30), LineTypes, OpOf
   DEF TypeOK, WatchCheck, Goto, Cpus, Bsp, Aps, Running, Waiting, Commands

LEMMA WatchMwaitTypes == ASSUME TypeOK, NEW p \in Cpus, WatchMwait(p) PROVE TypeOK'
BY LineTypes DEF TypeOK, WatchMwait, Halt, Goto, Cpus, Bsp, Aps, Running, Waiting, Commands

\* The steps of an AP.
LEMMA StartTypes == ASSUME TypeOK, NEW a \in Aps, Start(a) PROVE TypeOK'
BY LineTypes DEF TypeOK, Start, Goto, Cpus, Bsp, Aps, Running, Waiting, Commands

LEMMA EnableTypes == ASSUME TypeOK, NEW a \in Aps, Enable(a) PROVE TypeOK'
BY LineTypes DEF TypeOK, Enable, Goto, Cpus, Bsp, Aps, Running, Waiting, Commands

LEMMA ClearTypes == ASSUME TypeOK, NEW a \in Aps, Clear(a) PROVE TypeOK'
BY LineTypes, ApScriptType DEF TypeOK, Clear, Goto, Cpus, Bsp, Aps, Running, Waiting, Commands

LEMMA HelloTypes == ASSUME TypeOK, NEW a \in Aps, Hello(a) PROVE TypeOK'
BY LineTypes DEF TypeOK, Hello, Goto, Cpus, Bsp, Aps, Running, Waiting, Commands

LEMMA MonitorTypes == ASSUME TypeOK, NEW a \in Aps, Monitor(a) PROVE TypeOK'
BY LineTypes DEF TypeOK, Monitor, Goto, Cpus, Bsp, Aps, Running, Waiting, Commands

LEMMA MwaitTypes == ASSUME TypeOK, NEW a \in Aps, Mwait(a) PROVE TypeOK'
BY LineTypes DEF TypeOK, Mwait, Halt, Goto, Cpus, Bsp, Aps, Running, Waiting, Commands

\* An interrupt ends a halt.
LEMMA DisturbTypes == ASSUME TypeOK, NEW p \in Cpus, Disturb(p) PROVE TypeOK'
BY LineTypes, AwakeTypes DEF TypeOK, Disturb, Goto, Cpus, Bsp, Aps, Running, Waiting, Commands

\* An AP takes a command only if there is one.
LEMMA ReadTypes ==
  ASSUME TypeOK, NEW a \in Aps,
         \/ Read(a, "read", "monitor")
         \/ Read(a, "reread", "doze")
  PROVE  TypeOK'
BY ZenonT(30) DEF TypeOK, Read, Goto, Cpus, Bsp, Aps, Running, Waiting, Commands

\* Every state has its types; in particular no processor is in the middle of a
\* script that is empty, and none clears its mailbox without a command.
THEOREM TypeCorrect == Spec => []TypeOK
<1>1. TypeOK /\ [Next]_vars => TypeOK'
  <2> SUFFICES ASSUME TypeOK, [Next]_vars PROVE TypeOK'
    OBVIOUS
  <2>1. CASE BootAp \/ Bench
    BY <2>1, BootApTypes, BenchTypes
  <2>2. ASSUME NEW a \in Aps, HelloAp(a) \/ Thread(a) PROVE TypeOK'
    BY <2>2, HelloApTypes, StartTypes, EnableTypes, ReadTypes, MonitorTypes,
       MwaitTypes, ClearTypes, HelloTypes DEF Thread
  <2>3. ASSUME NEW p \in Cpus, Perform(p) \/ Disturb(p) PROVE TypeOK'
    BY <2>3, DoStoreTypes, DoPostTypes, WatchMonitorTypes, WatchCheckTypes,
       WatchMwaitTypes, DisturbTypes DEF Perform
  <2>4. CASE UNCHANGED vars
    BY <2>4 DEF vars, TypeOK
  <2>5. QED
    BY <2>1, <2>2, <2>3, <2>4 DEF Next
<1>2. QED
  BY <1>1, InitTypes, PTL DEF Spec

-----------------------------------------------------------------------------
(* What a script does with one AP.                                         *)

OfAp(ops, a) == [i \in 1..Len(ops) |-> IF ops[i].ap = a THEN <<ops[i]>> ELSE <<>>]

LEMMA OfApType ==
  ASSUME NEW ops \in Seq(Ops), NEW a
  PROVE  /\ OfAp(ops, a) \in Seq(Seq(Ops))
         /\ Len(OfAp(ops, a)) = Len(ops)
         /\ OnAp(ops, a) = FlattenSeq(OfAp(ops, a))
         /\ OnAp(ops, a) \in Seq(Ops)
<1>1. \A i \in 1..Len(ops) : ops[i] \in Ops
  OBVIOUS
<1>2. OfAp(ops, a) \in Seq(Seq(Ops)) /\ Len(OfAp(ops, a)) = Len(ops)
  BY <1>1 DEF OfAp
<1>3. OnAp(ops, a) = FlattenSeq(OfAp(ops, a))
  BY DEF OnAp, OfAp
<1>4. QED
  BY <1>2, <1>3, FlattenType

\* A script whose operations are all on the AP, and one that has none.
LEMMA OnApAll ==
  ASSUME NEW ops \in Seq(Ops), NEW a, \A i \in 1..Len(ops) : ops[i].ap = a
  PROVE  OnAp(ops, a) = ops
<1>1. \A i \in 1..Len(ops) : OfAp(ops, a)[i] = <<ops[i]>>
  BY DEF OfAp
<1>2. QED
  BY <1>1, OfApType, FlattenOnes

LEMMA OnApNone ==
  ASSUME NEW ops \in Seq(Ops), NEW a, \A i \in 1..Len(ops) : ops[i].ap # a
  PROVE  OnAp(ops, a) = <<>>
<1>1. \A i \in 1..Len(ops) : OfAp(ops, a)[i] = <<>>
  BY DEF OfAp
<1>2. QED
  BY <1>1, OfApType, FlattenEmpty

LEMMA OnApNil == ASSUME NEW a PROVE OnAp(<<>>, a) = <<>>
<1>1. [i \in 1..Len(<<>>) |-> IF <<>>[i].ap = a THEN <<<<>>[i]>> ELSE <<>>] = <<>>
  OBVIOUS
<1>2. QED
  BY <1>1, FlattenNil DEF OnAp

\* One script after another.
LEMMA OnApConcat ==
  ASSUME NEW s \in Seq(Ops), NEW t \in Seq(Ops), NEW a
  PROVE  OnAp(s \o t, a) = OnAp(s, a) \o OnAp(t, a)
<1>1. s \o t \in Seq(Ops)
  OBVIOUS
<1>2. OfAp(s \o t, a) = OfAp(s, a) \o OfAp(t, a)
  BY <1>1 DEF OfAp
<1>3. FlattenSeq(OfAp(s, a) \o OfAp(t, a))
        = FlattenSeq(OfAp(s, a)) \o FlattenSeq(OfAp(t, a))
  BY OfApType, FlattenConcat
<1>4. QED
  BY <1>1, <1>2, <1>3, OfApType

\* The first operation and the rest.
LEMMA OnApHead ==
  ASSUME NEW s \in Seq(Ops), s # <<>>, NEW a
  PROVE  /\ Head(s).ap = a => /\ OnAp(s, a) # <<>>
                              /\ Head(OnAp(s, a)) = Head(s)
                              /\ OnAp(Tail(s), a) = Tail(OnAp(s, a))
         /\ Head(s).ap # a => OnAp(Tail(s), a) = OnAp(s, a)
<1> DEFINE h == <<Head(s)>>
<1>1. h \in Seq(Ops) /\ Tail(s) \in Seq(Ops) /\ s = h \o Tail(s)
      /\ Len(h) = 1 /\ h[1] = Head(s) /\ Head(s) \in Ops
  OBVIOUS
<1> HIDE DEF h
<1>2. OnAp(s, a) = OnAp(h, a) \o OnAp(Tail(s), a)
  <2>1. OnAp(h \o Tail(s), a) = OnAp(h, a) \o OnAp(Tail(s), a)
    BY <1>1, OnApConcat
  <2>2. QED
    BY <1>1, <2>1
<1>3. OnAp(Tail(s), a) \in Seq(Ops)
  BY <1>1, OfApType
<1>4. CASE Head(s).ap = a
  <2>1. OnAp(h, a) = h
    BY <1>1, <1>4, OnApAll
  <2> DEFINE t == OnAp(Tail(s), a)
  <2> HIDE DEF t
  <2>2. OnAp(s, a) = <<Head(s)>> \o t /\ t \in Seq(Ops)
    BY <1>2, <1>3, <2>1 DEF h, t
  <2>3. Head(<<Head(s)>> \o t) = Head(s) /\ Tail(<<Head(s)>> \o t) = t /\ <<Head(s)>> \o t # <<>>
    BY <1>1, <2>2
  <2>4. QED
    BY <1>4, <2>2, <2>3 DEF t
<1>5. CASE Head(s).ap # a
  <2>1. OnAp(h, a) = <<>>
    BY <1>1, <1>5, OnApNone
  <2>2. QED
    BY <1>2, <1>3, <1>5, <2>1, ConcatNil
<1>6. QED
  BY <1>4, <1>5

\* A sequence of scripts.
LEMMA OnApFlatten ==
  ASSUME NEW g \in Seq(Seq(Ops)), NEW a
  PROVE  OnAp(FlattenSeq(g), a) = FlattenSeq([i \in 1..Len(g) |-> OnAp(g[i], a)])
<1> DEFINE h == [i \in 1..Len(g) |-> OnAp(g[i], a)]
           T == {k \in Nat : k <= Len(g) => OnAp(FlatUpTo(g, k), a) = FlatUpTo(h, k)}
<1>1. \A i \in 1..Len(g) : g[i] \in Seq(Ops) /\ OnAp(g[i], a) \in Seq(Ops)
  BY OfApType
<1>2. /\ h \in Seq(Seq(Ops)) /\ Len(h) = Len(g)
      /\ \A i \in 1..Len(g) : h[i] = OnAp(g[i], a)
  BY <1>1
<1> HIDE DEF h
<1>3. 0 \in T
  <2>2. OnAp(<<>>, a) = <<>>
    BY OnApNil
  <2>3. FlatUpTo(g, 0) = <<>> /\ FlatUpTo(h, 0) = <<>>
    BY <1>2, FlatUpToIs
  <2>4. QED
    BY <2>2, <2>3
<1>4. ASSUME NEW k \in Nat, k \in T PROVE k + 1 \in T
  <2> SUFFICES ASSUME k + 1 <= Len(g)
               PROVE  OnAp(FlatUpTo(g, k + 1), a) = FlatUpTo(h, k + 1)
    OBVIOUS
  <2>1. k \in 0..(Len(g) - 1) /\ k \in 0..Len(g) /\ k <= Len(g) /\ k + 1 \in 1..Len(g)
    OBVIOUS
  <2>2. OnAp(FlatUpTo(g, k), a) = FlatUpTo(h, k)
    BY <1>4, <2>1
  <2>3. FlatUpTo(g, k + 1) = FlatUpTo(g, k) \o g[k + 1]
    BY <2>1, FlatUpToStep
  <2>4. FlatUpTo(h, k + 1) = FlatUpTo(h, k) \o h[k + 1]
    BY <1>2, <2>1, FlatUpToStep
  <2>5. FlatUpTo(g, k) \in Seq(Ops) /\ g[k + 1] \in Seq(Ops)
    BY <1>1, <2>1, FlatUpToType
  <2>6. OnAp(FlatUpTo(g, k) \o g[k + 1], a) = OnAp(FlatUpTo(g, k), a) \o OnAp(g[k + 1], a)
    BY <2>5, OnApConcat
  <2>7. QED
    BY <1>2, <2>1, <2>2, <2>3, <2>4, <2>6
<1>5. Nat \subseteq T
  <2> HIDE DEF T
  <2>1. QED
    BY <1>3, <1>4, SetInduction
<1>6. Len(g) \in T
  BY <1>5
<1>7. OnAp(FlatUpTo(g, Len(g)), a) = FlatUpTo(h, Len(g))
  BY <1>6
<1>8. QED
  BY <1>2, <1>7, FlatUpToIs DEF h

\* A loop over the APs, each round of which is about its own AP.
LEMMA OnApLoop ==
  ASSUME NEW g \in [Aps -> Seq(Ops)], NEW a \in Aps,
         \A b \in Aps : \A i \in 1..Len(g[b]) : g[b][i].ap = b
  PROVE  OnAp(FlattenSeq(g), a) = g[a]
<1> DEFINE h == [i \in 1..Len(g) |-> OnAp(g[i], a)]
<1>1. g \in Seq(Seq(Ops)) /\ Len(g) = NumAp
  BY SmpAssumption DEF Aps
<1>2. OnAp(FlattenSeq(g), a) = FlattenSeq(h)
  BY <1>1, OnApFlatten
<1>3. \A i \in 1..Len(g) : OnAp(g[i], a) \in Seq(Ops)
  BY <1>1, OfApType
<1>4. /\ h \in Seq(Seq(Ops)) /\ Len(h) = NumAp /\ a \in 1..NumAp
      /\ \A i \in 1..NumAp : h[i] = OnAp(g[i], a)
  BY <1>1, <1>3 DEF Aps
<1> HIDE DEF h
<1>5. h[a] = g[a]
  <2>1. g[a] \in Seq(Ops) /\ \A i \in 1..Len(g[a]) : g[a][i].ap = a
    OBVIOUS
  <2>2. OnAp(g[a], a) = g[a]
    BY <2>1, OnApAll
  <2>3. QED
    BY <1>4, <2>2
<1>6. ASSUME NEW j \in 1..NumAp, j # a PROVE h[j] = <<>>
  <2>1. g[j] \in Seq(Ops) /\ \A i \in 1..Len(g[j]) : g[j][i].ap # a
    BY <1>6 DEF Aps
  <2>2. OnAp(g[j], a) = <<>>
    BY <2>1, OnApNone
  <2>3. QED
    BY <1>4, <2>2
<1>7. FlattenSeq(h) = h[a]
  BY <1>4, <1>6, FlattenSingle
<1>8. QED
  BY <1>2, <1>5, <1>7

\* A loop over the C-states.
LEMMA OnApRepeat ==
  ASSUME NEW k \in Nat, NEW ops \in Seq(Ops), NEW a
  PROVE  OnAp(Repeat(k, ops), a) = Repeat(k, OnAp(ops, a))
<1> DEFINE g == [i \in 1..k |-> ops]
           h == [i \in 1..Len(g) |-> OnAp(g[i], a)]
           r == [i \in 1..k |-> OnAp(ops, a)]
<1>1. g \in Seq(Seq(Ops)) /\ Len(g) = k /\ \A i \in 1..k : g[i] = ops
  OBVIOUS
<1>2. OnAp(FlattenSeq(g), a) = FlattenSeq(h)
  BY <1>1, OnApFlatten
<1>3. h = r
  BY <1>1
<1>4. QED
  BY <1>2, <1>3 DEF Repeat

\* The i-th operation of a loop of rounds of length n.
Rounds(s, len, ops, n) ==
  /\ s \in Seq(Ops)
  /\ Len(s) = len
  /\ \A i \in 1..len : s[i] = ops[((i - 1) % n) + 1]

LEMMA RepeatAt ==
  ASSUME NEW k \in Nat, NEW ops \in Seq(Ops), NEW n \in Nat \ {0}, Len(ops) = n
  PROVE  Rounds(Repeat(k, ops), k * n, ops, n)
<1> DEFINE g == [i \in 1..k |-> ops]
           At(s, c) == /\ s \in Seq(Ops)
                       /\ Len(s) = c
                       /\ \A i \in 1..c : s[i] = ops[((i - 1) % n) + 1]
           T == {m \in Nat : m <= k => At(FlatUpTo(g, m), m * n)}
<1>1. g \in Seq(Seq(Ops)) /\ Len(g) = k /\ \A i \in 1..k : g[i] = ops
  OBVIOUS
<1> HIDE DEF g
<1>2. 0 \in T
  <2>1. FlatUpTo(g, 0) = <<>>
    BY <1>1, FlatUpToIs
  <2>2. 0 * n = 0
    OBVIOUS
  <2>3. At(<<>>, 0)
    OBVIOUS
  <2> HIDE DEF At
  <2>4. QED
    BY <2>1, <2>2, <2>3
<1>3. ASSUME NEW m \in Nat, m \in T PROVE m + 1 \in T
  <2> SUFFICES ASSUME m + 1 <= k PROVE At(FlatUpTo(g, m + 1), (m + 1) * n)
    OBVIOUS
  <2> DEFINE f == FlatUpTo(g, m)
             c == m * n
  <2>1. m \in 0..(Len(g) - 1) /\ m <= k /\ g[m + 1] = ops
    BY <1>1
  <2>2. At(f, c)
    BY <1>3, <2>1
  <2>3. FlatUpTo(g, m + 1) = f \o ops
    BY <1>1, <2>1, FlatUpToStep
  <2>4. c \in Nat /\ (m + 1) * n = c + n
    OBVIOUS
  <2>9. \A r \in 0..(n - 1) : (c + r) % n = r
    BY DivModUnique
  <2>10. c \in Nat /\ f \in Seq(Ops) /\ Len(f) = c
    BY <2>2, <2>4
  <2> HIDE DEF f, T, c
  <2>5. f \o ops \in Seq(Ops) /\ Len(f \o ops) = c + n
    BY <2>10
  <2>6. ASSUME NEW i \in 1..(c + n) PROVE (f \o ops)[i] = ops[((i - 1) % n) + 1]
    <3>1. CASE i <= c
      <4>1. i \in 1..c /\ (f \o ops)[i] = f[i]
        BY <2>2, <2>4, <3>1
      <4>2. QED
        BY <2>2, <4>1
    <3>2. CASE i > c
      <4> DEFINE r == i - 1 - c
      <4>1. r \in 0..(n - 1) /\ i - 1 = c + r /\ i = c + (r + 1) /\ r + 1 \in 1..n
        BY <2>4, <3>2
      <4> HIDE DEF r
      <4>2. (c + r) % n = r
        BY <2>9, <4>1
      <4>3. (f \o ops)[c + (r + 1)] = ops[r + 1]
        BY <2>2, <2>4, <4>1
      <4>4. QED
        BY <4>1, <4>2, <4>3
    <3>3. i <= c \/ i > c
      BY <2>10
    <3>4. QED
      BY <3>1, <3>2, <3>3
  <2>7. At(f \o ops, c + n)
    BY <2>5, <2>6
  <2> HIDE DEF At
  <2>8. QED
    BY <2>3, <2>4, <2>7
<1>4. Nat \subseteq T
  <2> HIDE DEF T
  <2>1. QED
    BY <1>2, <1>3, SetInduction
<1>5. At(FlatUpTo(g, k), k * n)
  BY <1>4
<1>6. FlatUpTo(g, k) = Repeat(k, ops)
  BY <1>1, FlatUpToIs DEF Repeat, g
<1>7. QED
  BY <1>5, <1>6 DEF Rounds

-----------------------------------------------------------------------------
(* The values of a byte and the parts of the two sides.                    *)

\* Each value differs from the one before, which it may follow.
LEMMA ValueSteps ==
  ASSUME NEW k \in 0..LastValue
  PROVE  /\ Value(k) \in 0..9
         /\ k > 0 => Follows(Value(k - 1), Value(k)) /\ Value(k - 1) # Value(k)
<1> DEFINE c == CStates
<1>1. c \in Nat \ {0} /\ k \in 0..(2 * c + 13)
  BY SmpAssumption DEF LastValue
<1>2. CASE k <= 1
  BY <1>2 DEF Value, Follows
<1>3. CASE 1 < k /\ k <= 2 * c + 1
  <2>1. Value(k) = 2 + (k % 2)
    BY <1>1, <1>3 DEF Value
  <2>2. CASE k = 2
    BY <1>1, <2>1, <2>2 DEF Value, Follows
  <2>3. CASE k > 2
    <3>1. Value(k - 1) = 2 + ((k - 1) % 2)
      BY <1>1, <1>3, <2>3 DEF Value
    <3>2. QED
      BY <1>1, <2>1, <2>3, <3>1 DEF Follows
  <2>4. QED
    BY <1>3, <2>2, <2>3
<1>4. CASE k > 2 * c + 1
  <2> DEFINE m == k - 2 * c - 2
  <2>1. m \in 0..11 /\ Value(k) = 4 + (m % 6)
    BY <1>1, <1>4 DEF Value
  <2>2. CASE m = 0
    <3>1. k - 1 = 2 * c + 1 /\ (k - 1) % 2 = 1
      BY <1>1, <2>2
    <3>2. Value(k - 1) = 3
      BY <1>1, <3>1 DEF Value
    <3>3. Value(k) = 4
      BY <2>1, <2>2
    <3>4. QED
      BY <3>2, <3>3 DEF Follows
  <2>3. CASE m > 0
    <3>1. Value(k - 1) = 4 + ((m - 1) % 6)
      BY <1>1, <1>4, <2>3 DEF Value
    <3>2. QED
      BY <2>1, <2>3, <3>1 DEF Follows
  <2>4. QED
    BY <2>1, <2>2, <2>3
<1>5. QED
  BY <1>1, <1>2, <1>3, <1>4

LEMMA LastValueIs == LastValue \in Nat /\ LastValue >= 15 /\ LastValue % 2 = 1
BY SmpAssumption DEF LastValue

\* The first operation of a part and what is left behind it.
LEMMA ApFromStep ==
  ASSUME NEW a \in Aps, NEW k \in 1..(LastValue + 1)
  PROVE  /\ ApFrom(a, k) \in Seq(Ops)
         /\ Len(ApFrom(a, k)) = LastValue + 1 - k
         /\ k <= LastValue => /\ ApFrom(a, k) # <<>>
                              /\ Head(ApFrom(a, k)) = ByAp(a, k)
                              /\ Tail(ApFrom(a, k)) = ApFrom(a, k + 1)
         /\ k = LastValue + 1 => ApFrom(a, k) = <<>>
<1>1. LastValue \in Nat
  BY LastValueIs
<1>2. \A n \in 1..LastValue : ByAp(a, n) \in Ops
  BY <1>1, ValueSteps, OpTypes DEF ByAp
<1>3. ASSUME NEW n \in 1..(LastValue + 1 - k) PROVE ByAp(a, k - 1 + n) \in Ops
  <2>1. k - 1 + n \in 1..LastValue
    BY <1>1
  <2>2. QED
    BY <1>2, <2>1
<1>4. ApFrom(a, k) \in Seq(Ops) /\ Len(ApFrom(a, k)) = LastValue + 1 - k
  BY <1>1, <1>3 DEF ApFrom
<1>5. ASSUME k <= LastValue
      PROVE  /\ ApFrom(a, k) # <<>>
             /\ Head(ApFrom(a, k)) = ByAp(a, k)
             /\ Tail(ApFrom(a, k)) = ApFrom(a, k + 1)
  <2>1. Len(ApFrom(a, k)) > 0 /\ ApFrom(a, k)[1] = ByAp(a, k - 1 + 1)
    BY <1>1, <1>4, <1>5 DEF ApFrom
  <2>2. Tail(ApFrom(a, k)) = ApFrom(a, k + 1)
    BY <1>1, <1>4, <1>5 DEF ApFrom
  <2>3. QED
    BY <1>4, <2>1, <2>2
<1>6. k = LastValue + 1 => ApFrom(a, k) = <<>>
  BY <1>1, <1>4
<1>7. QED
  BY <1>4, <1>5, <1>6

LEMMA BspFromStep ==
  ASSUME NEW a \in Aps, NEW k \in 1..(LastValue + 1)
  PROVE  /\ BspFrom(a, k) \in Seq(Ops)
         /\ Len(BspFrom(a, k)) = LastValue + 1 - k
         /\ k <= LastValue => /\ BspFrom(a, k) # <<>>
                              /\ Head(BspFrom(a, k)) = ByBsp(a, k)
                              /\ Tail(BspFrom(a, k)) = BspFrom(a, k + 1)
         /\ k = LastValue + 1 => BspFrom(a, k) = <<>>
<1>1. LastValue \in Nat
  BY LastValueIs
<1>2. \A n \in 1..LastValue : ByBsp(a, n) \in Ops
  BY <1>1, ValueSteps, OpTypes DEF ByBsp
<1>3. ASSUME NEW n \in 1..(LastValue + 1 - k) PROVE ByBsp(a, k - 1 + n) \in Ops
  <2>1. k - 1 + n \in 1..LastValue
    BY <1>1
  <2>2. QED
    BY <1>2, <2>1
<1>4. BspFrom(a, k) \in Seq(Ops) /\ Len(BspFrom(a, k)) = LastValue + 1 - k
  BY <1>1, <1>3 DEF BspFrom
<1>5. ASSUME k <= LastValue
      PROVE  /\ BspFrom(a, k) # <<>>
             /\ Head(BspFrom(a, k)) = ByBsp(a, k)
             /\ Tail(BspFrom(a, k)) = BspFrom(a, k + 1)
  <2>1. Len(BspFrom(a, k)) > 0 /\ BspFrom(a, k)[1] = ByBsp(a, k - 1 + 1)
    BY <1>1, <1>4, <1>5 DEF BspFrom
  <2>2. Tail(BspFrom(a, k)) = BspFrom(a, k + 1)
    BY <1>1, <1>4, <1>5 DEF BspFrom
  <2>3. QED
    BY <1>4, <2>1, <2>2
<1>6. k = LastValue + 1 => BspFrom(a, k) = <<>>
  BY <1>1, <1>4
<1>7. QED
  BY <1>4, <1>5, <1>6

\* One sequence after another.
Joined(w, s, t, m, n) ==
  /\ Len(w) = m + n
  /\ \A i \in 1..m : w[i] = s[i]
  /\ \A i \in 1..n : w[m + i] = t[i]

LEMMA JoinedIs ==
  ASSUME NEW m \in Nat, NEW n \in Nat, NEW s \in Seq(Ops), NEW t \in Seq(Ops),
         Len(s) = m, Len(t) = n
  PROVE  Joined(s \o t, s, t, m, n)
BY DEF Joined

\* A part is one operation, two for every C-state, and twelve.
LEMMA PartIs ==
  ASSUME NEW x \in Ops, NEW c \in Seq(Ops), Len(c) = 2,
         NEW d \in Seq(Ops), Len(d) = 12,
         NEW b \in Seq(Ops), Len(b) = LastValue, b[1] = x,
         \A n \in 1..(2 * CStates) : b[n + 1] = c[((n - 1) % 2) + 1],
         \A n \in 1..12 : b[2 * CStates + 1 + n] = d[n]
  PROVE  <<x>> \o Repeat(CStates, c) \o d = b
<1> DEFINE R == Repeat(CStates, c)
           m == 2 * CStates
           u == <<x>> \o R
<1>1. Rounds(R, CStates * 2, c, 2)
  <2>1. CStates \in Nat /\ 2 \in Nat \ {0}
    BY SmpAssumption
  <2>2. QED
    BY <2>1, RepeatAt
<1>2. m \in Nat /\ CStates * 2 = m /\ LastValue = m + 13 /\ Len(b) = m + 13
  BY SmpAssumption DEF LastValue
<1>3. R \in Seq(Ops) /\ Len(R) = m /\ \A n \in 1..m : R[n] = b[n + 1]
  BY <1>1, <1>2 DEF Rounds
<1>4. \A n \in 1..12 : b[m + 1 + n] = d[n]
  OBVIOUS
<1> HIDE DEF R, m
<1>5. u \in Seq(Ops) /\ Len(u) = m + 1 /\ u[1] = x /\ \A n \in 1..m : u[n + 1] = R[n]
  BY <1>2, <1>3
<1>6. ASSUME NEW n \in 1..(m + 1) PROVE u[n] = b[n]
  <2>1. CASE n = 1
    BY <1>5, <2>1
  <2>2. CASE n # 1
    <3>1. n - 1 \in 1..m /\ n - 1 + 1 = n
      BY <1>2, <2>2
    <3>2. u[n - 1 + 1] = R[n - 1] /\ R[n - 1] = b[n - 1 + 1]
      BY <1>3, <1>5, <3>1
    <3>3. QED
      BY <3>1, <3>2
  <2>3. QED
    BY <2>1, <2>2
<1> HIDE DEF u
<1>11. m \in Nat
  BY <1>2
<1>7. /\ u \o d \in Seq(Ops) /\ Len(u \o d) = m + 13
      /\ \A n \in 1..(m + 1) : (u \o d)[n] = u[n]
      /\ \A n \in 1..12 : (u \o d)[m + 1 + n] = d[n]
  <2>1. Joined(u \o d, u, d, m + 1, 12)
    <3>1. m + 1 \in Nat /\ 12 \in Nat
      BY <1>11
    <3>2. u \in Seq(Ops) /\ d \in Seq(Ops) /\ Len(u) = m + 1 /\ Len(d) = 12
      BY <1>5
    <3>3. QED
      BY <3>1, <3>2, JoinedIs
  <2>2. u \o d \in Seq(Ops) /\ m + 1 + 12 = m + 13
    BY <1>5, <1>11, ConcatType
  <2>3. QED
    BY <2>1, <2>2 DEF Joined
<1>8. ASSUME NEW n \in 1..(m + 13) PROVE (u \o d)[n] = b[n]
  <2>1. CASE n <= m + 1
    <3>1. n \in 1..(m + 1)
      BY <1>2, <2>1
    <3>2. QED
      BY <1>6, <1>7, <3>1
  <2>2. CASE n > m + 1
    <3>1. n - m - 1 \in 1..12 /\ m + 1 + (n - m - 1) = n
      BY <1>2, <2>2
    <3>2. /\ (u \o d)[m + 1 + (n - m - 1)] = d[n - m - 1]
          /\ b[m + 1 + (n - m - 1)] = d[n - m - 1]
      BY <1>4, <1>7, <3>1
    <3>3. QED
      BY <3>1, <3>2
  <2>3. n <= m + 1 \/ n > m + 1
    BY <1>11
  <2>4. QED
    BY <2>1, <2>2, <2>3
<1>9. u \o d = b
  <2>1. u \o d \in Seq(Ops) /\ b \in Seq(Ops) /\ Len(u \o d) = Len(b)
    BY <1>2, <1>7
  <2>2. \A n \in 1..Len(b) : (u \o d)[n] = b[n]
    BY <1>2, <1>8
  <2> DEFINE w == u \o d
  <2> HIDE DEF w
  <2>3. w \in Seq(Ops) /\ Len(w) = Len(b) /\ \A n \in 1..Len(b) : w[n] = b[n]
    BY <2>1, <2>2 DEF w
  <2>4. w = b
    BY <2>3
  <2>5. QED
    BY <2>4 DEF w
<1>10. QED
  BY <1>9 DEF R, u

\* The values of the C-states and of the measurements.
LEMMA ValueIs ==
  /\ Value(0) = 0 /\ Value(1) = 1 /\ 1 % 2 = 1
  /\ \A n \in 1..(2 * CStates) :
       /\ n + 1 \in 1..LastValue
       /\ Value(n + 1) = 2 + ((n - 1) % 2)
       /\ (n + 1) % 2 = (n - 1) % 2
       /\ (n - 1) % 2 \in {0, 1}
  /\ \A n \in 1..12 :
       /\ 2 * CStates + 1 + n \in 1..LastValue
       /\ Value(2 * CStates + 1 + n) = 4 + ((n - 1) % 6)
       /\ (2 * CStates + 1 + n) % 2 = (n - 1) % 2
<1>1. CStates \in Nat \ {0}
  BY SmpAssumption
<1>2. Value(0) = 0 /\ Value(1) = 1 /\ 1 % 2 = 1
  BY <1>1 DEF Value
<1>3. ASSUME NEW n \in 1..(2 * CStates)
      PROVE  /\ n + 1 \in 1..LastValue
             /\ Value(n + 1) = 2 + ((n - 1) % 2)
             /\ (n + 1) % 2 = (n - 1) % 2
             /\ (n - 1) % 2 \in {0, 1}
  <2>1. n + 1 \in 1..LastValue /\ n + 1 > 1 /\ n + 1 <= 2 * CStates + 1
    BY <1>1 DEF LastValue
  <2>2. (n + 1) % 2 = (n - 1) % 2 /\ (n - 1) % 2 \in {0, 1}
    BY <1>1
  <2>3. QED
    BY <1>1, <2>1, <2>2 DEF Value
<1>4. ASSUME NEW n \in 1..12
      PROVE  /\ 2 * CStates + 1 + n \in 1..LastValue
             /\ Value(2 * CStates + 1 + n) = 4 + ((n - 1) % 6)
             /\ (2 * CStates + 1 + n) % 2 = (n - 1) % 2
  <2> DEFINE k == 2 * CStates + 1 + n
  <2>1. k \in 1..LastValue /\ k > 1 /\ ~(k <= 2 * CStates + 1) /\ k - 2 * CStates - 2 = n - 1
    BY <1>1 DEF LastValue
  <2>2. Value(k) = 4 + ((n - 1) % 6)
    BY <1>1, <2>1 DEF Value
  <2>3. k % 2 = (n - 1) % 2
    BY <1>1
  <2>4. QED
    BY <2>1, <2>2, <2>3
<1>5. QED
  BY <1>2, <1>3, <1>4

\* run_bench_ap is the AP's part.
LEMMA ApScriptIs == ASSUME NEW a \in Aps PROVE ApScript(a) = ApFrom(a, 1)
<1> DEFINE x == Store(a, 1)
           c == <<Watch(a, 2), Store(a, 3)>>
           e == <<Watch(a, 4), Store(a, 5), Watch(a, 6), Store(a, 7),
                  Watch(a, 8), Store(a, 9)>>
           d == Repeat(2, e)
           b == ApFrom(a, 1)
<1>1. x \in Ops /\ c \in Seq(Ops) /\ Len(c) = 2 /\ e \in Seq(Ops) /\ Len(e) = 6
  BY OpTypes
<1>2. d \in Seq(Ops) /\ Len(d) = 12 /\ \A n \in 1..12 : d[n] = e[((n - 1) % 6) + 1]
  <2> HIDE DEF e
  <2>1. 2 \in Nat /\ 6 \in Nat \ {0}
    OBVIOUS
  <2>2. Rounds(Repeat(2, e), 2 * 6, e, 6)
    BY <1>1, <2>1, RepeatAt
  <2>3. QED
    BY <2>2 DEF Rounds
<1>3. ApScript(a) = <<x>> \o Repeat(CStates, c) \o d
  BY DEF ApScript
<1>4. b \in Seq(Ops) /\ Len(b) = LastValue
  BY LastValueIs, ApFromStep
<1>5. \A n \in 1..LastValue : b[n] = ByAp(a, n)
  BY LastValueIs DEF ApFrom
<1> HIDE DEF b, d
<1>6. b[1] = x
  BY <1>5, ValueIs, LastValueIs DEF ByAp
<1>7. ASSUME NEW n \in 1..(2 * CStates) PROVE b[n + 1] = c[((n - 1) % 2) + 1]
  <2>1. /\ n + 1 \in 1..LastValue
        /\ Value(n + 1) = 2 + ((n - 1) % 2)
        /\ (n + 1) % 2 = (n - 1) % 2
        /\ (n - 1) % 2 \in {0, 1}
    BY ValueIs
  <2>2. QED
    BY <1>5, <2>1 DEF ByAp
<1>8. ASSUME NEW n \in 1..12 PROVE b[2 * CStates + 1 + n] = d[n]
  <2>1. /\ 2 * CStates + 1 + n \in 1..LastValue
        /\ Value(2 * CStates + 1 + n) = 4 + ((n - 1) % 6)
        /\ (2 * CStates + 1 + n) % 2 = (n - 1) % 2
    BY ValueIs
  <2>2. d[n] = e[((n - 1) % 6) + 1]
    BY <1>2
  <2>3. b[2 * CStates + 1 + n] = IF (n - 1) % 2 = 1 THEN Store(a, 4 + ((n - 1) % 6))
                                 ELSE Watch(a, 4 + ((n - 1) % 6))
    BY <1>5, <2>1 DEF ByAp
  <2>4. e[((n - 1) % 6) + 1] = IF (n - 1) % 2 = 1 THEN Store(a, 4 + ((n - 1) % 6))
                               ELSE Watch(a, 4 + ((n - 1) % 6))
    <3>1. n \in {1, 2, 3, 4, 5, 6, 7, 8, 9, 10, 11, 12}
      OBVIOUS
    <3>2. QED
      BY <3>1
  <2>5. QED
    BY <2>2, <2>3, <2>4
<1> HIDE DEF x, c, e
<1>9. <<x>> \o Repeat(CStates, c) \o d = b
  BY <1>1, <1>2, <1>4, <1>6, <1>7, <1>8, PartIs
<1>10. QED
  BY <1>3, <1>9 DEF b

\* What each loop of smp_bench does with an AP that takes part.
LEMMA OnApTogether ==
  ASSUME NEW cpus \in SUBSET Aps, NEW a \in Aps, NEW v \in 0..8
  PROVE  OnAp(Together(cpus, v), a)
           = IF a \in cpus THEN <<Store(a, v)>> \o <<Watch(a, v + 1)>> ELSE <<>>
<1> DEFINE s == [b \in Aps |-> IF b \in cpus THEN <<Store(b, v)>> ELSE <<>>]
           w == [b \in Aps |-> IF b \in cpus THEN <<Watch(b, v + 1)>> ELSE <<>>]
<1>1. s \in [Aps -> Seq(Ops)] /\ w \in [Aps -> Seq(Ops)]
  <2>1. v \in 0..9 /\ v + 1 \in 0..9
    OBVIOUS
  <2>2. \A b \in Aps : Store(b, v) \in Ops /\ Watch(b, v + 1) \in Ops
    BY <2>1, OpTypes
  <2>3. QED
    BY <2>2
<1>2. /\ \A b \in Aps : \A i \in 1..Len(s[b]) : s[b][i].ap = b
      /\ \A b \in Aps : \A i \in 1..Len(w[b]) : w[b][i].ap = b
  BY DEF Store, Watch
<1>3. /\ s[a] = IF a \in cpus THEN <<Store(a, v)>> ELSE <<>>
      /\ w[a] = IF a \in cpus THEN <<Watch(a, v + 1)>> ELSE <<>>
  OBVIOUS
<1>4. Together(cpus, v) = FlattenSeq(s) \o FlattenSeq(w)
  BY DEF Together, ForEach
<1> HIDE DEF s, w
<1>5. OnAp(FlattenSeq(s), a) = s[a] /\ OnAp(FlattenSeq(w), a) = w[a]
  BY <1>1, <1>2, OnApLoop
<1>6. FlattenSeq(s) \in Seq(Ops) /\ FlattenSeq(w) \in Seq(Ops)
  BY <1>1, LoopType
<1>7. OnAp(FlattenSeq(s) \o FlattenSeq(w), a) = s[a] \o w[a]
  <2>1. OnAp(FlattenSeq(s) \o FlattenSeq(w), a)
          = OnAp(FlattenSeq(s), a) \o OnAp(FlattenSeq(w), a)
    BY <1>6, OnApConcat
  <2>2. QED
    BY <1>5, <2>1
<1>8. <<>> \o <<>> = <<>>
  OBVIOUS
<1>9. QED
  BY <1>3, <1>4, <1>7, <1>8

LEMMA OnApLoops ==
  ASSUME NEW cpus \in SUBSET Aps, NEW a \in Aps
  PROVE  /\ ForEach(cpus, Launch) \in Seq(Ops)
         /\ OnAp(ForEach(cpus, Launch), a) = IF a \in cpus THEN Launch(a) ELSE <<>>
         /\ ForEach(cpus, LAMBDA b : <<Watch(b, 1)>>) \in Seq(Ops)
         /\ OnAp(ForEach(cpus, LAMBDA b : <<Watch(b, 1)>>), a)
              = IF a \in cpus THEN <<Watch(a, 1)>> ELSE <<>>
         /\ ForEach(cpus, LAMBDA b : <<Store(b, 2), Watch(b, 3)>>) \in Seq(Ops)
         /\ OnAp(ForEach(cpus, LAMBDA b : <<Store(b, 2), Watch(b, 3)>>), a)
              = IF a \in cpus THEN <<Store(a, 2), Watch(a, 3)>> ELSE <<>>
         /\ ForEach(cpus, Single) \in Seq(Ops)
         /\ OnAp(ForEach(cpus, Single), a) = IF a \in cpus THEN Single(a) ELSE <<>>
<1> DEFINE l == [b \in Aps |-> IF b \in cpus THEN Launch(b) ELSE <<>>]
           w == [b \in Aps |-> IF b \in cpus THEN <<Watch(b, 1)>> ELSE <<>>]
           c == [b \in Aps |-> IF b \in cpus THEN <<Store(b, 2), Watch(b, 3)>> ELSE <<>>]
           s == [b \in Aps |-> IF b \in cpus THEN Single(b) ELSE <<>>]
<1>1. /\ l \in [Aps -> Seq(Ops)] /\ w \in [Aps -> Seq(Ops)]
      /\ c \in [Aps -> Seq(Ops)] /\ s \in [Aps -> Seq(Ops)]
  <2>1. \A b \in Aps : Launch(b) \in Seq(Ops)
    BY OpTypes DEF Launch
  <2>2. \A b \in Aps : Single(b) \in Seq(Ops)
    BY OpTypes DEF Single
  <2>3. \A b \in Aps : <<Watch(b, 1)>> \in Seq(Ops) /\ <<Store(b, 2), Watch(b, 3)>> \in Seq(Ops)
    BY OpTypes
  <2>4. QED
    BY <2>1, <2>2, <2>3
<1>2. \A b \in Aps : \A i \in 1..Len(l[b]) : l[b][i].ap = b
  BY DEF Launch, Store, Post
<1>3. \A b \in Aps : \A i \in 1..Len(w[b]) : w[b][i].ap = b
  BY DEF Watch
<1>4. \A b \in Aps : \A i \in 1..Len(c[b]) : c[b][i].ap = b
  BY DEF Store, Watch
<1>5. \A b \in Aps : \A i \in 1..Len(s[b]) : s[b][i].ap = b
  BY DEF Single, Store, Watch
<1>6. /\ l[a] = IF a \in cpus THEN Launch(a) ELSE <<>>
      /\ w[a] = IF a \in cpus THEN <<Watch(a, 1)>> ELSE <<>>
      /\ c[a] = IF a \in cpus THEN <<Store(a, 2), Watch(a, 3)>> ELSE <<>>
      /\ s[a] = IF a \in cpus THEN Single(a) ELSE <<>>
  OBVIOUS
<1>7. /\ ForEach(cpus, Launch) = FlattenSeq(l)
      /\ ForEach(cpus, LAMBDA b : <<Watch(b, 1)>>) = FlattenSeq(w)
      /\ ForEach(cpus, LAMBDA b : <<Store(b, 2), Watch(b, 3)>>) = FlattenSeq(c)
      /\ ForEach(cpus, Single) = FlattenSeq(s)
  BY DEF ForEach
<1> HIDE DEF l, w, c, s
<1>8. /\ FlattenSeq(l) \in Seq(Ops) /\ FlattenSeq(w) \in Seq(Ops)
      /\ FlattenSeq(c) \in Seq(Ops) /\ FlattenSeq(s) \in Seq(Ops)
  BY <1>1, LoopType
<1>9. OnAp(FlattenSeq(l), a) = l[a]
  BY <1>1, <1>2, OnApLoop
<1>10. OnAp(FlattenSeq(w), a) = w[a]
  BY <1>1, <1>3, OnApLoop
<1>11. OnAp(FlattenSeq(c), a) = c[a]
  BY <1>1, <1>4, OnApLoop
<1>12. OnAp(FlattenSeq(s), a) = s[a]
  BY <1>1, <1>5, OnApLoop
<1>13. QED
  BY <1>6, <1>7, <1>8, <1>9, <1>10, <1>11, <1>12

\* smp_bench does with an AP that takes part what the handshake asks for, and
\* nothing with the others.
LEMMA OnApParts ==
  ASSUME NEW cpus \in SUBSET Aps, NEW a \in Aps
  PROVE  LET part == IF a \in cpus THEN Launch(a) ELSE <<>>
             wait == IF a \in cpus THEN <<Watch(a, 1)>> ELSE <<>>
             ping == IF a \in cpus THEN <<Store(a, 2), Watch(a, 3)>> ELSE <<>>
             single == IF a \in cpus THEN Single(a) ELSE <<>>
             T(v) == IF a \in cpus THEN <<Store(a, v)>> \o <<Watch(a, v + 1)>> ELSE <<>>
         IN  OnAp(BspScript(cpus), a)
               = part \o wait \o Repeat(CStates, ping) \o single \o T(4) \o T(6) \o T(8)
<1> DEFINE l == ForEach(cpus, Launch)
           w == ForEach(cpus, LAMBDA b : <<Watch(b, 1)>>)
           c == ForEach(cpus, LAMBDA b : <<Store(b, 2), Watch(b, 3)>>)
           r == Repeat(CStates, c)
           s == ForEach(cpus, Single)
           x == Together(cpus, 4)
           y == Together(cpus, 6)
           z == Together(cpus, 8)
<1>1. /\ l \in Seq(Ops) /\ w \in Seq(Ops) /\ c \in Seq(Ops) /\ s \in Seq(Ops)
      /\ OnAp(l, a) = IF a \in cpus THEN Launch(a) ELSE <<>>
      /\ OnAp(w, a) = IF a \in cpus THEN <<Watch(a, 1)>> ELSE <<>>
      /\ OnAp(c, a) = IF a \in cpus THEN <<Store(a, 2), Watch(a, 3)>> ELSE <<>>
      /\ OnAp(s, a) = IF a \in cpus THEN Single(a) ELSE <<>>
  BY OnApLoops
<1>2. /\ x \in Seq(Ops) /\ y \in Seq(Ops) /\ z \in Seq(Ops)
      /\ OnAp(x, a) = IF a \in cpus THEN <<Store(a, 4)>> \o <<Watch(a, 4 + 1)>> ELSE <<>>
      /\ OnAp(y, a) = IF a \in cpus THEN <<Store(a, 6)>> \o <<Watch(a, 6 + 1)>> ELSE <<>>
      /\ OnAp(z, a) = IF a \in cpus THEN <<Store(a, 8)>> \o <<Watch(a, 8 + 1)>> ELSE <<>>
  <2>1. 4 \in 0..8 /\ 6 \in 0..8 /\ 8 \in 0..8
    OBVIOUS
  <2>2. x \in Seq(Ops) /\ y \in Seq(Ops) /\ z \in Seq(Ops)
    BY <2>1, TogetherType
  <2>3. OnAp(x, a) = IF a \in cpus THEN <<Store(a, 4)>> \o <<Watch(a, 4 + 1)>> ELSE <<>>
    BY ZenonT(30), <2>1, OnApTogether
  <2>4. OnAp(y, a) = IF a \in cpus THEN <<Store(a, 6)>> \o <<Watch(a, 6 + 1)>> ELSE <<>>
    BY ZenonT(30), <2>1, OnApTogether
  <2>5. OnAp(z, a) = IF a \in cpus THEN <<Store(a, 8)>> \o <<Watch(a, 8 + 1)>> ELSE <<>>
    BY ZenonT(30), <2>1, OnApTogether
  <2>6. QED
    BY <2>2, <2>3, <2>4, <2>5
<1>3. BspScript(cpus) = l \o w \o r \o s \o x \o y \o z
  BY DEF BspScript
<1> HIDE DEF l, w, c, s, x, y, z
<1>4. r \in Seq(Ops) /\ OnAp(r, a) = Repeat(CStates, OnAp(c, a))
  <2>1. CStates \in Nat /\ c \in Seq(Ops)
    BY <1>1, SmpAssumption
  <2>2. r \in Seq(Ops)
    BY <2>1, RepeatType
  <2>3. OnAp(r, a) = Repeat(CStates, OnAp(c, a))
    BY <2>1, OnApRepeat
  <2>4. QED
    BY <2>2, <2>3
<1> HIDE DEF r
<1>5. l \o w \in Seq(Ops) /\ OnAp(l \o w, a) = OnAp(l, a) \o OnAp(w, a)
  BY ZenonT(30), <1>1, ConcatType, OnApConcat
<1>6. /\ l \o w \o r \in Seq(Ops)
      /\ OnAp(l \o w \o r, a) = OnAp(l \o w, a) \o OnAp(r, a)
  BY <1>4, <1>5, ConcatType, OnApConcat
<1>7. /\ l \o w \o r \o s \in Seq(Ops)
      /\ OnAp(l \o w \o r \o s, a) = OnAp(l \o w \o r, a) \o OnAp(s, a)
  BY <1>1, <1>6, ConcatType, OnApConcat
<1>8. /\ l \o w \o r \o s \o x \in Seq(Ops)
      /\ OnAp(l \o w \o r \o s \o x, a) = OnAp(l \o w \o r \o s, a) \o OnAp(x, a)
  BY <1>2, <1>7, ConcatType, OnApConcat
<1>9. /\ l \o w \o r \o s \o x \o y \in Seq(Ops)
      /\ OnAp(l \o w \o r \o s \o x \o y, a)
           = OnAp(l \o w \o r \o s \o x, a) \o OnAp(y, a)
  BY <1>2, <1>8, ConcatType, OnApConcat
<1>10. OnAp(l \o w \o r \o s \o x \o y \o z, a)
         = OnAp(l \o w \o r \o s \o x \o y, a) \o OnAp(z, a)
  BY <1>2, <1>9, OnApConcat
<1>11. OnAp(BspScript(cpus), a)
         = OnAp(l, a) \o OnAp(w, a) \o OnAp(r, a) \o OnAp(s, a)
             \o OnAp(x, a) \o OnAp(y, a) \o OnAp(z, a)
  BY <1>3, <1>5, <1>6, <1>7, <1>8, <1>9, <1>10
<1>12. QED
  BY <1>1, <1>2, <1>4, <1>11

LEMMA BspScriptIs ==
  ASSUME NEW cpus \in SUBSET Aps, NEW a \in Aps
  PROVE  OnAp(BspScript(cpus), a) \in {<<>>, WholePart(a)}
<1>1. CASE a \notin cpus
  <2>1. OnAp(BspScript(cpus), a)
          = <<>> \o <<>> \o Repeat(CStates, <<>>) \o <<>> \o <<>> \o <<>> \o <<>>
    BY <1>1, OnApParts
  <2>2. <<>> \in Seq(Ops) /\ CStates \in Nat
    BY SmpAssumption
  <2>3. Repeat(CStates, <<>>) = <<>>
    BY <2>2, RepeatType
  <2>4. <<>> \o <<>> = <<>>
    OBVIOUS
  <2>5. QED
    BY <2>1, <2>3, <2>4
<1>2. CASE a \in cpus
  <2> DEFINE x == Watch(a, 1)
             c == <<Store(a, 2), Watch(a, 3)>>
             o == Single(a)
             f == <<Store(a, 4)>> \o <<Watch(a, 4 + 1)>>
             g == <<Store(a, 6)>> \o <<Watch(a, 6 + 1)>>
             h == <<Store(a, 8)>> \o <<Watch(a, 8 + 1)>>
             d == o \o f \o g \o h
             l == Launch(a)
             r == Repeat(CStates, c)
             b == BspFrom(a, 1)
  <2>1. OnAp(BspScript(cpus), a) = l \o <<x>> \o r \o o \o f \o g \o h
    BY <1>2, OnApParts
  <2>2. /\ x \in Ops /\ c \in Seq(Ops) /\ Len(c) = 2 /\ l \in Seq(Ops)
        /\ o \in Seq(Ops) /\ <<x>> \in Seq(Ops)
    BY OpTypes DEF Launch, Single
  <2>3. /\ o = <<Store(a, 4), Watch(a, 5), Store(a, 6), Watch(a, 7), Store(a, 8), Watch(a, 9)>>
        /\ f[1] = Store(a, 4) /\ f[2] = Watch(a, 5)
        /\ g[1] = Store(a, 6) /\ g[2] = Watch(a, 7)
        /\ h[1] = Store(a, 8) /\ h[2] = Watch(a, 9)
    <3>1. o = <<Store(a, 4), Watch(a, 5), Store(a, 6), Watch(a, 7), Store(a, 8), Watch(a, 9)>>
      BY DEF Single
    <3>2. 4 + 1 = 5 /\ 6 + 1 = 7 /\ 8 + 1 = 9
      OBVIOUS
    <3>3. ASSUME NEW y, NEW z PROVE (<<y>> \o <<z>>)[1] = y /\ (<<y>> \o <<z>>)[2] = z
      OBVIOUS
    <3>4. QED
      BY <3>1, <3>2, <3>3
  <2>4. r \in Seq(Ops)
    BY <2>2, SmpAssumption, RepeatType
  <2>5. /\ f \in Seq(Ops) /\ g \in Seq(Ops) /\ h \in Seq(Ops)
        /\ Len(o) = 6 /\ Len(f) = 2 /\ Len(g) = 2 /\ Len(h) = 2
    BY <2>3, OpTypes
  <2>6. /\ d \in Seq(Ops) /\ Len(d) = 12
        /\ \A n \in 1..6 : d[n] = o[n]
        /\ d[7] = f[1] /\ d[8] = f[2] /\ d[9] = g[1] /\ d[10] = g[2]
        /\ d[11] = h[1] /\ d[12] = h[2]
    <3> DEFINE y == o \o f
               z == y \o g
    <3>1. y \in Seq(Ops) /\ z \in Seq(Ops) /\ d \in Seq(Ops) /\ d = z \o h
      <4>1. y \in Seq(Ops)
        BY <2>2, <2>5, ConcatType
      <4> HIDE DEF y, o, f, g, h
      <4>2. z \in Seq(Ops)
        BY <4>1, <2>5, ConcatType
      <4>3. d = z \o h
        BY DEF y
      <4> HIDE DEF z
      <4>4. QED
        BY <4>1, <4>2, <4>3, <2>5, ConcatType
    <3>2. 6 \in Nat /\ 2 \in Nat /\ 8 \in Nat /\ 10 \in Nat
      OBVIOUS
    <3> HIDE DEF o, f, g, h
    <3>3. Joined(o \o f, o, f, 6, 2)
      BY <2>2, <2>5, <3>2, JoinedIs
    <3>4. Len(y) = 8
      BY <3>3 DEF Joined
    <3>5. Joined(y \o g, y, g, 8, 2)
      <4> HIDE DEF y, z
      <4>1. QED
        BY <2>5, <3>1, <3>2, <3>4, JoinedIs
    <3>6. Len(z) = 10
      BY <3>5 DEF Joined
    <3>7. Joined(z \o h, z, h, 10, 2)
      <4> HIDE DEF y, z
      <4>1. QED
        BY <2>5, <3>1, <3>2, <3>6, JoinedIs
    <3>8. Joined(y, o, f, 6, 2) /\ Joined(z, y, g, 8, 2) /\ Joined(d, z, h, 10, 2)
      BY <3>1, <3>3, <3>5, <3>7
    <3> HIDE DEF y, z, d
    <3>9. /\ \A n \in 1..6 : y[n] = o[n]
          /\ y[7] = f[1] /\ y[8] = f[2]
      <4>1. \A n \in 1..2 : y[6 + n] = f[n]
        BY <3>8 DEF Joined
      <4>2. QED
        BY <4>1, <3>8 DEF Joined
    <3>10. /\ \A n \in 1..8 : z[n] = y[n]
           /\ z[9] = g[1] /\ z[10] = g[2]
      <4>1. \A n \in 1..2 : z[8 + n] = g[n]
        BY <3>8 DEF Joined
      <4>2. QED
        BY <4>1, <3>8 DEF Joined
    <3>11. /\ \A n \in 1..10 : d[n] = z[n]
           /\ d[11] = h[1] /\ d[12] = h[2] /\ Len(d) = 12
      <4>1. \A n \in 1..2 : d[10 + n] = h[n]
        BY <3>8 DEF Joined
      <4>2. QED
        BY <4>1, <3>8 DEF Joined
    <3>12. \A n \in 1..6 : d[n] = o[n]
      <4>1. SUFFICES ASSUME NEW n \in 1..6 PROVE d[n] = o[n]
        OBVIOUS
      <4>2. n \in 1..8 /\ n \in 1..10
        OBVIOUS
      <4>3. d[n] = z[n] /\ z[n] = y[n] /\ y[n] = o[n]
        BY <3>9, <3>10, <3>11, <4>2
      <4>4. QED
        BY <4>3
    <3>13. d[7] = f[1] /\ d[8] = f[2] /\ d[9] = g[1] /\ d[10] = g[2]
      <4>1. d[7] = z[7] /\ d[8] = z[8] /\ d[9] = z[9] /\ d[10] = z[10]
        BY <3>11
      <4>2. z[7] = y[7] /\ z[8] = y[8]
        BY <3>10
      <4>3. QED
        BY <3>9, <3>10, <4>1, <4>2
    <3>14. QED
      BY <3>1, <3>11, <3>12, <3>13
  <2>7. b \in Seq(Ops) /\ Len(b) = LastValue
    BY LastValueIs, BspFromStep
  <2>8. \A n \in 1..LastValue : b[n] = ByBsp(a, n)
    BY LastValueIs DEF BspFrom
  <2>9. b[1] = x
    BY <2>8, ValueIs, LastValueIs DEF ByBsp
  <2> HIDE DEF b, d, r, l, o, f, g, h
  <2>10. ASSUME NEW n \in 1..(2 * CStates) PROVE b[n + 1] = c[((n - 1) % 2) + 1]
    <3>1. /\ n + 1 \in 1..LastValue
          /\ Value(n + 1) = 2 + ((n - 1) % 2)
          /\ (n + 1) % 2 = (n - 1) % 2
          /\ (n - 1) % 2 \in {0, 1}
      BY ValueIs
    <3>2. QED
      BY <2>8, <3>1 DEF ByBsp
  <2>11. ASSUME NEW n \in 1..12 PROVE b[2 * CStates + 1 + n] = d[n]
    <3>1. /\ 2 * CStates + 1 + n \in 1..LastValue
          /\ Value(2 * CStates + 1 + n) = 4 + ((n - 1) % 6)
          /\ (2 * CStates + 1 + n) % 2 = (n - 1) % 2
      BY ValueIs
    <3>2. b[2 * CStates + 1 + n] = IF (n - 1) % 2 = 1 THEN Watch(a, 4 + ((n - 1) % 6))
                                   ELSE Store(a, 4 + ((n - 1) % 6))
      BY <2>8, <3>1 DEF ByBsp
    <3>3. d[n] = IF (n - 1) % 2 = 1 THEN Watch(a, 4 + ((n - 1) % 6))
                 ELSE Store(a, 4 + ((n - 1) % 6))
      <4>1. n \in {1, 2, 3, 4, 5, 6, 7, 8, 9, 10, 11, 12}
        OBVIOUS
      <4>2. /\ d[1] = Store(a, 4) /\ d[2] = Watch(a, 5) /\ d[3] = Store(a, 6)
            /\ d[4] = Watch(a, 7) /\ d[5] = Store(a, 8) /\ d[6] = Watch(a, 9)
        <5>1. /\ d[1] = o[1] /\ d[2] = o[2] /\ d[3] = o[3]
              /\ d[4] = o[4] /\ d[5] = o[5] /\ d[6] = o[6]
          BY <2>6
        <5>2. QED
          BY <2>3, <5>1
      <4>3. /\ d[7] = Store(a, 4) /\ d[8] = Watch(a, 5) /\ d[9] = Store(a, 6)
            /\ d[10] = Watch(a, 7) /\ d[11] = Store(a, 8) /\ d[12] = Watch(a, 9)
        BY <2>3, <2>6
      <4>4. QED
        BY <4>1, <4>2, <4>3
    <3>4. QED
      BY <3>2, <3>3
  <2> HIDE DEF x, c
  <2>12. <<x>> \o r \o d = b
    BY <2>2, <2>6, <2>7, <2>9, <2>10, <2>11, PartIs DEF r
  <2>13. l \o <<x>> \o r \o o \o f \o g \o h = l \o (<<x>> \o r \o d)
    <3>1. Regrouped(l, <<x>>, r, o, f, g, h)
      BY <2>2, <2>4, <2>5, ConcatRegrouped
    <3>2. QED
      BY <3>1 DEF Regrouped, d
  <2>14. QED
    BY <2>1, <2>12, <2>13 DEF WholePart, l, b
<1>3. QED
  BY <1>1, <1>2

-----------------------------------------------------------------------------
(* The handshake.                                                          *)

\* What is left at the ends of a part.
LEMMA PartEnds ==
  ASSUME NEW a \in Aps
  PROVE  /\ WholePart(a) # <<>> /\ Head(WholePart(a)) = Store(a, 0)
         /\ Tail(WholePart(a)) # <<>> /\ Head(Tail(WholePart(a))) = Post(a)
         /\ Tail(Tail(WholePart(a))) = BspFrom(a, 1)
         /\ BspFrom(a, 1) # <<>>
         /\ WholePart(a) # Tail(WholePart(a))
<1>1. 1 \in 1..(LastValue + 1) /\ 1 <= LastValue
  BY LastValueIs
<1>2. BspFrom(a, 1) \in Seq(Ops) /\ BspFrom(a, 1) # <<>>
  BY <1>1, BspFromStep
<1> DEFINE w == WholePart(a)
           b == BspFrom(a, 1)
<1>3. w = <<Store(a, 0), Post(a)>> \o b
  BY DEF WholePart, Launch
<1>4. Store(a, 0) \in Ops /\ Post(a) \in Ops
  BY OpTypes
<1> HIDE DEF w, b
<1>5. /\ w \in Seq(Ops) /\ Len(w) = 2 + Len(b)
      /\ w[1] = Store(a, 0) /\ w[2] = Post(a)
      /\ \A i \in 1..Len(b) : w[i + 2] = b[i]
  BY <1>2, <1>3, <1>4 DEF b
<1>6. b \in Seq(Ops) /\ Len(b) \in Nat
  BY <1>2 DEF b
<1>7. /\ w # <<>> /\ Head(w) = Store(a, 0)
      /\ Tail(w) # <<>> /\ Head(Tail(w)) = Post(a)
      /\ w # Tail(w)
  <2>1. w # <<>> /\ Head(w) = w[1] /\ Tail(w) \in Seq(Ops) /\ Len(Tail(w)) = 1 + Len(b)
    BY <1>5, <1>6
  <2>2. Tail(w) # <<>> /\ Len(w) # Len(Tail(w))
    <3>1. Len(Tail(w)) > 0 /\ Len(Tail(w)) < Len(w)
      BY <1>5, <1>6, <2>1
    <3>2. \A t \in Seq(Ops) : Len(t) > 0 => t # <<>>
      OBVIOUS
    <3>3. Len(Tail(w)) \in Nat
      BY <2>1
    <3>4. Tail(w) # <<>>
      BY <2>1, <3>1, <3>2
    <3>5. Len(w) \in Nat
      BY <1>5, <1>6
    <3>6. QED
      BY <3>1, <3>3, <3>4, <3>5
  <2>3. Tail(w)[1] = w[2]
    BY <1>5, <1>6
  <2>4. Head(Tail(w)) = Tail(w)[1]
    BY <2>1, <2>2
  <2>5. QED
    BY <1>5, <2>1, <2>2, <2>3, <2>4
<1>8. Tail(Tail(w)) = b
  BY <1>5, <1>6
<1>9. QED
  BY <1>2, <1>7, <1>8 DEF w, b

\* Which operations are stores and which are waits.
LEMMA OpsOfParts ==
  ASSUME NEW a \in Aps, NEW k \in 1..LastValue
  PROVE  /\ ByBsp(a, k).ap = a /\ ByAp(a, k).ap = a
         /\ ByBsp(a, k).v = Value(k) /\ ByAp(a, k).v = Value(k)
         /\ ByBsp(a, k).op = IF k % 2 = 1 THEN "watch" ELSE "store"
         /\ ByAp(a, k).op = IF k % 2 = 1 THEN "store" ELSE "watch"
BY DEF ByBsp, ByAp, Store, Watch

\* A step that concerns neither script of an AP nor its byte.
LEMMA MeetsKept ==
  ASSUME NEW a \in Aps, Meets(a),
         OnAp(script[Bsp], a)' = OnAp(script[Bsp], a),
         script'[a] = script[a], ready'[a] = ready[a],
         NoBench(a) => NoBench(a)'
  PROVE  Meets(a)'
<1>1. CASE Apart(a)
  BY <1>1 DEF Meets, Apart, WholePart, Launch, BspFrom, ByBsp, Value, LastValue
<1>2. CASE Called(a)
  BY <1>2 DEF Meets, Called
<1>3. ASSUME NEW j \in 1..LastValue, NEW k \in 1..(LastValue + 1), InStep(a, j, k)
      PROVE  Meets(a)'
  BY <1>3 DEF Meets, InStep
<1>4. QED
  BY <1>1, <1>2, <1>3 DEF Meets

\* Between two benches no AP is in one.
LEMMA AtShell ==
  ASSUME TypeOK, MeetingInv, pc[Bsp] = "shell", NEW a \in Aps
  PROVE  /\ script[Bsp] = <<>> /\ Apart(a)
         /\ OnAp(script[Bsp], a) = <<>>
<1>1. script[Bsp] = <<>>
  BY DEF TypeOK, Running, Cpus
<1>2. OnAp(script[Bsp], a) = <<>>
  BY <1>1, OnApNil
<1>3. ~Called(a)
  BY <1>2, PartEnds DEF Called
<1>4. ASSUME NEW j \in 1..LastValue, NEW k \in 1..(LastValue + 1), InStep(a, j, k)
      PROVE  FALSE
  <2>1. j \in 1..(LastValue + 1) /\ j <= LastValue
    BY LastValueIs
  <2>2. QED
    BY <1>2, <1>4, <2>1, BspFromStep DEF InStep
<1>5. QED
  BY <1>1, <1>2, <1>3, <1>4 DEF MeetingInv, Meets

\* Processor 0 has something to do with the AP: what comes next.
LEMMA BspTurn ==
  ASSUME NEW a \in Aps, NEW j \in 1..LastValue
  PROVE  /\ BspFrom(a, j) # <<>> /\ Head(BspFrom(a, j)) = ByBsp(a, j)
         /\ Tail(BspFrom(a, j)) = BspFrom(a, j + 1)
         /\ j = LastValue => BspFrom(a, j + 1) = <<>>
         /\ j # LastValue => j + 1 \in 1..LastValue
         /\ j + 1 \in 1..(LastValue + 1)
<1>1. j \in 1..(LastValue + 1) /\ j <= LastValue /\ j + 1 \in 1..(LastValue + 1)
  BY LastValueIs
<1>2. j # LastValue => j + 1 \in 1..LastValue
  BY LastValueIs
<1>3. /\ BspFrom(a, j) # <<>> /\ Head(BspFrom(a, j)) = ByBsp(a, j)
      /\ Tail(BspFrom(a, j)) = BspFrom(a, j + 1)
  BY <1>1, BspFromStep
<1>4. j = LastValue => BspFrom(a, j + 1) = <<>>
  BY <1>1, BspFromStep
<1>5. QED
  BY <1>1, <1>2, <1>3, <1>4

\* The same of an AP in a bench.
LEMMA ApTurn ==
  ASSUME NEW a \in Aps, NEW k \in 1..(LastValue + 1), ApFrom(a, k) # <<>>
  PROVE  /\ k \in 1..LastValue
         /\ Head(ApFrom(a, k)) = ByAp(a, k)
         /\ Tail(ApFrom(a, k)) = ApFrom(a, k + 1)
         /\ k + 1 \in 1..(LastValue + 1)
<1>1. k # LastValue + 1
  BY ApFromStep
<1>2. k \in 1..LastValue /\ k <= LastValue /\ k + 1 \in 1..(LastValue + 1)
  BY <1>1, LastValueIs
<1>3. QED
  BY <1>2, ApFromStep

\* A value is the next one of the handshake, and not the one before.
LEMMA NextValue ==
  ASSUME NEW k \in 1..LastValue
  PROVE  /\ Value(k - 1) # Value(k) /\ Follows(Value(k - 1), Value(k))
         /\ k % 2 \in {0, 1} /\ (k + 1) % 2 # k % 2
         /\ k + 1 - 1 = k
         /\ LastValue % 2 = 1
<1>1. k \in 0..LastValue /\ k > 0
  BY LastValueIs
<1>2. Value(k - 1) # Value(k) /\ Follows(Value(k - 1), Value(k))
  BY <1>1, ValueSteps
<1>3. k % 2 \in {0, 1} /\ (k + 1) % 2 # k % 2 /\ k + 1 - 1 = k
  BY LastValueIs
<1>4. QED
  BY <1>2, <1>3, LastValueIs

LEMMA FirstValue == 1 \in 1..LastValue /\ 1 % 2 = 1 /\ Value(1) = 1
BY LastValueIs, ValueIs

\* Processor 0 stores to the byte of an AP: the byte begins again while the AP
\* is apart, or takes its next value.
LEMMA BspStores ==
  ASSUME NEW a \in Aps, Meets(a),
         OnAp(script[Bsp], a) # <<>>, Head(OnAp(script[Bsp], a)).op = "store",
         OnAp(script[Bsp], a)' = Tail(OnAp(script[Bsp], a)),
         ready'[a] = Head(OnAp(script[Bsp], a)).v,
         script'[a] = script[a], NoBench(a) => NoBench(a)'
  PROVE  /\ Meets(a)'
         /\ \/ ready'[a] = 0 /\ script[a] = <<>>
            \/ Follows(ready[a], ready'[a])
<1> DEFINE s == OnAp(script[Bsp], a)
<1>1. CASE Apart(a)
  <2>1. s # Tail(WholePart(a))
    BY PartEnds DEF Post
  <2>2. s = WholePart(a)
    BY <1>1, <2>1 DEF Apart
  <2>3. ready'[a] = 0
    BY <2>2, PartEnds DEF Store
  <2>4. Apart(a)'
    BY <1>1, <2>2, <2>3 DEF Apart, WholePart, Launch, BspFrom, ByBsp, Value, LastValue
  <2>5. QED
    BY <1>1, <2>3, <2>4 DEF Meets, Apart
<1>2. CASE Called(a)
  <2>1. 1 \in 1..LastValue /\ 1 % 2 = 1
    BY FirstValue
  <2>2. Head(s).op = "watch"
    BY <1>2, <2>1, BspTurn, OpsOfParts DEF Called
  <2>3. QED
    BY <2>2
<1>3. ASSUME NEW j \in 1..LastValue, NEW k \in 1..(LastValue + 1), InStep(a, j, k)
      PROVE  /\ Meets(a)'
             /\ Follows(ready[a], ready'[a])
  <2>1. s = BspFrom(a, j) /\ Head(s) = ByBsp(a, j) /\ s' = BspFrom(a, j + 1)
    BY <1>3, BspTurn DEF InStep
  <2>2. j % 2 = 0 /\ ready'[a] = Value(j) /\ j # LastValue
    BY <2>1, OpsOfParts, NextValue
  <2>3. j = k /\ ready[a] = Value(j - 1)
    <3>1. ~(j = k + 1 /\ k % 2 = 0)
      BY <2>2
    <3>2. QED
      BY <1>3, <2>2, <3>1 DEF InStep
  <2>4. j + 1 \in 1..LastValue
    BY <2>2, BspTurn
  <2>5. InStep(a, j + 1, k)'
    BY <1>3, <2>1, <2>2, <2>3 DEF InStep
  <2>6. Follows(ready[a], ready'[a])
    BY <2>2, <2>3, NextValue
  <2>7. QED
    BY <2>4, <2>5, <2>6 DEF Meets
<1>4. QED
  BY <1>1, <1>2, <1>3 DEF Meets

\* Processor 0 posts the command.
LEMMA BspPosts ==
  ASSUME NEW a \in Aps, Meets(a),
         OnAp(script[Bsp], a) # <<>>, Head(OnAp(script[Bsp], a)).op = "post",
         OnAp(script[Bsp], a)' = Tail(OnAp(script[Bsp], a)),
         ready'[a] = ready[a], script'[a] = script[a]
  PROVE  Meets(a)'
<1> DEFINE s == OnAp(script[Bsp], a)
<1>1. CASE Apart(a)
  <2>1. s # WholePart(a)
    BY PartEnds DEF Store
  <2>2. s = Tail(WholePart(a)) /\ ready[a] = 0
    BY <1>1, <2>1 DEF Apart
  <2>3. Called(a)'
    BY <1>1, <2>2, PartEnds DEF Apart, Called
  <2>4. QED
    BY <2>3 DEF Meets
<1>2. CASE Called(a)
  <2>1. 1 \in 1..LastValue /\ 1 % 2 = 1
    BY FirstValue
  <2>2. QED
    BY <1>2, <2>1, BspTurn, OpsOfParts DEF Called
<1>3. ASSUME NEW j \in 1..LastValue, NEW k \in 1..(LastValue + 1), InStep(a, j, k)
      PROVE  FALSE
  BY <1>3, BspTurn, OpsOfParts DEF InStep
<1>4. QED
  BY <1>1, <1>2, <1>3 DEF Meets

\* Processor 0 finds the value it waits for.
LEMMA BspSees ==
  ASSUME NEW a \in Aps, Meets(a),
         OnAp(script[Bsp], a) # <<>>, Head(OnAp(script[Bsp], a)).op = "watch",
         ready[a] = Head(OnAp(script[Bsp], a)).v,
         OnAp(script[Bsp], a)' = Tail(OnAp(script[Bsp], a)),
         ready'[a] = ready[a], script'[a] = script[a], NoBench(a) => NoBench(a)'
  PROVE  Meets(a)'
<1> DEFINE s == OnAp(script[Bsp], a)
<1>1. ~Apart(a)
  BY SMTT(30), PartEnds DEF Apart, Store, Post
<1>2. ~Called(a)
  <2>1. 1 \in 1..LastValue /\ Value(1) = 1
    BY FirstValue
  <2>2. Called(a) => Head(s).v = 1 /\ ready[a] = 0
    BY <2>1, BspTurn, OpsOfParts DEF Called
  <2>3. QED
    BY <2>2
<1>3. ASSUME NEW j \in 1..LastValue, NEW k \in 1..(LastValue + 1), InStep(a, j, k)
      PROVE  Meets(a)'
  <2>1. s = BspFrom(a, j) /\ Head(s) = ByBsp(a, j) /\ s' = BspFrom(a, j + 1)
    BY <1>3, BspTurn DEF InStep
  <2>2. j % 2 = 1 /\ ready[a] = Value(j)
    BY <2>1, OpsOfParts, NextValue
  <2>3. k = j + 1
    <3>1. j = k => ready[a] # Value(k - 1)
      BY <2>2, NextValue
    <3>2. j = k + 1 => ready[a] # Value(k)
      <4>1. j = k + 1 => j - 1 = k
        OBVIOUS
      <4>2. QED
        BY <2>2, <4>1, NextValue
    <3>3. QED
      BY <1>3, <3>1, <3>2 DEF InStep
  <2>4. ready[a] = Value(k - 1)
    BY <2>2, <2>3, NextValue
  <2>5. CASE j = LastValue
    <3>1. BspFrom(a, j + 1) = <<>> /\ k = LastValue + 1
      BY <2>3, <2>5, BspTurn
    <3>2. script[a] = <<>>
      BY <1>3, <3>1, ApFromStep DEF InStep
    <3>3. OnAp(script[Bsp], a)' = <<>> /\ Tail(WholePart(a)) # <<>>
      BY <2>1, <3>1, PartEnds
    <3>4. Apart(a)'
      BY <1>3, <3>2, <3>3
         DEF InStep, Apart, WholePart, Launch, BspFrom, ByBsp, Value, LastValue
    <3>5. QED
      BY <3>4 DEF Meets
  <2>6. CASE j # LastValue
    <3>1. j + 1 \in 1..LastValue
      BY <2>6, BspTurn
    <3>2. InStep(a, j + 1, k)'
      BY <1>3, <2>1, <2>3, <2>4 DEF InStep
    <3>3. QED
      BY <3>1, <3>2 DEF Meets
  <2>7. QED
    BY <2>5, <2>6
<1>4. QED
  BY <1>1, <1>2, <1>3 DEF Meets

\* An AP that executes a script is in the bench.
LEMMA ApInBench ==
  ASSUME NEW a \in Aps, Meets(a), script[a] # <<>>
  PROVE  \E j \in 1..LastValue, k \in 1..LastValue :
           /\ InStep(a, j, k)
           /\ Head(script[a]) = ByAp(a, k)
           /\ Tail(script[a]) = ApFrom(a, k + 1)
           /\ k + 1 \in 1..(LastValue + 1)
<1>1. PICK j \in 1..LastValue, k \in 1..(LastValue + 1) : InStep(a, j, k)
  BY DEF Meets, Apart, Called
<1>2. ApFrom(a, k) # <<>> /\ script[a] = ApFrom(a, k)
  BY <1>1 DEF InStep
<1>3. /\ k \in 1..LastValue
      /\ Head(script[a]) = ByAp(a, k) /\ Tail(script[a]) = ApFrom(a, k + 1)
      /\ k + 1 \in 1..(LastValue + 1)
  BY <1>2, ApTurn
<1>4. QED
  BY <1>1, <1>3

\* The AP stores the next value.
LEMMA ApStores ==
  ASSUME NEW a \in Aps, Meets(a), script[a] # <<>>, Head(script[a]).op = "store",
         OnAp(script[Bsp], a)' = OnAp(script[Bsp], a),
         ready'[a] = Head(script[a]).v,
         script'[a] = Tail(script[a]), NoBench(a) => NoBench(a)'
  PROVE  Meets(a)' /\ Follows(ready[a], ready'[a])
<1>1. PICK j \in 1..LastValue, k \in 1..LastValue :
        /\ InStep(a, j, k)
        /\ Head(script[a]) = ByAp(a, k) /\ Tail(script[a]) = ApFrom(a, k + 1)
        /\ k + 1 \in 1..(LastValue + 1)
  BY ApInBench
<1>2. k % 2 = 1 /\ ready'[a] = Value(k)
  BY <1>1, OpsOfParts, NextValue
<1>3. j = k /\ ready[a] = Value(k - 1)
  <2>1. ~(k = j + 1 /\ j % 2 = 1)
    BY <1>2
  <2>2. QED
    BY <1>1, <1>2, <2>1 DEF InStep
<1>4. InStep(a, j, k + 1)'
  BY <1>1, <1>2, <1>3 DEF InStep
<1>5. Follows(ready[a], ready'[a])
  BY <1>2, <1>3, NextValue
<1>6. QED
  BY <1>1, <1>4, <1>5 DEF Meets

\* The AP finds the value it waits for.
LEMMA ApSees ==
  ASSUME NEW a \in Aps, Meets(a), script[a] # <<>>, Head(script[a]).op = "watch",
         OnAp(script[Bsp], a)' = OnAp(script[Bsp], a),
         ready[a] = Head(script[a]).v, ready'[a] = ready[a],
         script'[a] = Tail(script[a]), NoBench(a) => NoBench(a)'
  PROVE  Meets(a)'
<1>1. PICK j \in 1..LastValue, k \in 1..LastValue :
        /\ InStep(a, j, k)
        /\ Head(script[a]) = ByAp(a, k) /\ Tail(script[a]) = ApFrom(a, k + 1)
        /\ k + 1 \in 1..(LastValue + 1)
  BY ApInBench
<1>2. k % 2 = 0 /\ ready[a] = Value(k)
  BY <1>1, OpsOfParts, NextValue
<1>3. j = k + 1
  <2>1. j = k => ready[a] # Value(k - 1)
    BY <1>2, NextValue
  <2>2. k = j + 1 => ready[a] # Value(j)
    <3>1. k = j + 1 => k - 1 = j
      OBVIOUS
    <3>2. QED
      BY <1>2, <3>1, NextValue
  <2>3. QED
    BY <1>1, <2>1, <2>2 DEF InStep
<1>4. k + 1 - 1 = k
  BY LastValueIs
<1>5. InStep(a, j, k + 1)'
  BY <1>1, <1>2, <1>3, <1>4 DEF InStep
<1>6. QED
  BY <1>1, <1>5 DEF Meets

\* The variables are functions; an operation at the head of a script is of one AP.
LEMMA Shapes ==
  ASSUME TypeOK
  PROVE  /\ ShapeInv
         /\ taken = [a \in Aps |-> taken[a]]
         /\ \A p \in Cpus : script[p] \in Seq(Ops)
         /\ \A p \in Cpus : pc[p] \in Running <=> script[p] # <<>>
         /\ Bsp \in Cpus /\ Bsp \notin Aps /\ \A a \in Aps : a \in Cpus /\ a # Bsp
BY DEF TypeOK, ShapeInv, Cpus, Bsp, Aps

\* What a processor does next concerns one AP, and its own byte if it is one.
LEMMA NextOp ==
  ASSUME TypeOK, MeetingInv, NEW p \in Cpus, pc[p] \in Running, NEW a \in Aps
  PROVE  /\ Op(p).ap \in Aps
         /\ p = Bsp /\ Op(p).ap = a =>
              /\ OnAp(script[Bsp], a) # <<>>
              /\ Head(OnAp(script[Bsp], a)) = Op(p)
              /\ OnAp(Rest(p), a) = Tail(OnAp(script[Bsp], a))
         /\ p = Bsp /\ Op(p).ap # a => OnAp(Rest(p), a) = OnAp(script[Bsp], a)
         /\ p # Bsp => p \in Aps /\ Op(p).ap = p /\ Op(p).op # "post"
<1>1. script[p] \in Seq(Ops) /\ script[p] # <<>>
  BY Shapes
<1>2. p = Bsp => /\ Op(p).ap = a => /\ OnAp(script[Bsp], a) # <<>>
                                    /\ Head(OnAp(script[Bsp], a)) = Op(p)
                                    /\ OnAp(Rest(p), a) = Tail(OnAp(script[Bsp], a))
                 /\ Op(p).ap # a => OnAp(Rest(p), a) = OnAp(script[Bsp], a)
  BY <1>1, OnApHead DEF Op, Rest
<1>3. ASSUME p # Bsp PROVE p \in Aps /\ Op(p).ap = p /\ Op(p).op # "post"
  <2>1. p \in Aps /\ Meets(p)
    BY <1>3 DEF MeetingInv, Cpus
  <2>2. PICK k \in 1..LastValue : Head(script[p]) = ByAp(p, k)
    BY <1>1, <2>1, ApInBench
  <2>3. QED
    BY <2>1, <2>2, OpsOfParts DEF Op
<1>4. QED
  BY <1>2, <1>3, OpOf

LEMMA InitMeeting == Init => MeetingInv
<1> SUFFICES ASSUME Init PROVE MeetingInv
  OBVIOUS
<1>1. WatchInv
  BY DEF Init, WatchInv, Cpus, Bsp, Aps
<1>2. ASSUME NEW a \in Aps PROVE Apart(a)
  <2>1. script[Bsp] = <<>> /\ script[a] = <<>> /\ NoBench(a)
    BY SmpAssumption DEF Init, Cpus, Bsp, Aps, NoBench, Commands
  <2>2. OnAp(script[Bsp], a) = <<>>
    BY <2>1, OnApNil
  <2>3. QED
    BY <2>1, <2>2, PartEnds DEF Apart
<1>3. QED
  BY <1>1, <1>2 DEF MeetingInv, Meets

\* Every step keeps a wait at the head of the script of a processor that waits.
LEMMA WatchKept == ASSUME TypeOK, MeetingInv, Next PROVE WatchInv'
<1>1. WatchInv /\ ShapeInv
  BY Shapes DEF MeetingInv
<1> USE <1>1 DEF WatchInv, ShapeInv, Op, Goto, StoreWakes, Awake
<1>2. CASE BootAp
  BY <1>2 DEF BootAp, Cpus
<1>3. CASE Bench
  BY <1>3 DEF Bench, Cpus, Bsp
<1>4. ASSUME NEW a \in Aps, HelloAp(a) PROVE WatchInv'
  BY <1>4 DEF HelloAp
<1>5. ASSUME NEW a \in Aps, Thread(a) PROVE WatchInv'
  <2>1. a \in Cpus
    BY DEF Cpus
  <2>2. CASE Start(a) \/ Enable(a) \/ Monitor(a) \/ Mwait(a) \/ Hello(a)
    BY <2>1, <2>2 DEF Start, Enable, Monitor, Mwait, Hello, Halt
  <2>3. CASE Read(a, "read", "monitor") \/ Read(a, "reread", "doze")
    BY <2>1, <2>3 DEF Read
  <2>4. CASE Clear(a)
    BY <2>1, <2>4 DEF Clear
  <2>5. QED
    BY <1>5, <2>2, <2>3, <2>4 DEF Thread
<1>6. ASSUME NEW p \in Cpus, Perform(p) PROVE WatchInv'
  <2>1. CASE DoStore(p)
    BY <2>1 DEF DoStore, Onward, Return
  <2>2. CASE DoPost(p)
    BY <2>2 DEF DoPost, Onward, Return
  <2>3. CASE WatchMonitor(p)
    BY <2>3 DEF WatchMonitor
  <2>4. CASE WatchCheck(p)
    BY <2>4 DEF WatchCheck, Onward, Return
  <2>5. CASE WatchMwait(p)
    BY <2>5 DEF WatchMwait, Halt
  <2>6. QED
    BY <1>6, <2>1, <2>2, <2>3, <2>4, <2>5 DEF Perform
<1>7. ASSUME NEW p \in Cpus, Disturb(p) PROVE WatchInv'
  BY <1>7 DEF Disturb
<1>8. QED
  BY <1>2, <1>3, <1>4, <1>5, <1>6, <1>7 DEF Next

\* What is left of the script of processor 0 on an AP, in the next state.
LEMMA NextPart ==
  ASSUME NEW a \in Aps, NEW s, script'[Bsp] = s
  PROVE  OnAp(script[Bsp], a)' = OnAp(s, a)
BY DEF OnAp

\* The start-up interrupts and the beginning of a bench meet every AP apart.
LEMMA ShellMeets == ASSUME TypeOK, MeetingInv, BootAp \/ Bench, NEW a \in Aps PROVE Meets(a)'
<1>1. pc[Bsp] = "shell" /\ ready' = ready /\ command' = command /\ taken' = taken
  BY DEF BootAp, Bench
<1>2. script[Bsp] = <<>> /\ Apart(a) /\ OnAp(script[Bsp], a) = <<>>
  BY <1>1, AtShell
<1>3. script[a] = <<>> /\ NoBench(a)
  BY <1>2 DEF Apart
<1>4. pc'[a] \in {"start", pc[a]} /\ script'[a] = <<>>
  BY <1>3, Shapes DEF BootAp, Bench, Goto, ShapeInv
<1>5. NoBench(a)'
  BY <1>1, <1>3, <1>4 DEF NoBench
<1>6. OnAp(script[Bsp], a)' \in {<<>>, WholePart(a)}
  <2>1. CASE BootAp
    <3>1. script'[Bsp] = <<>>
      BY <2>1 DEF BootAp, Cpus
    <3>2. QED
      BY <3>1, NextPart, OnApNil
  <2>2. CASE Bench
    <3>1. script'[Bsp] = BspScript(enabled) /\ enabled \in SUBSET Aps
      BY <2>2, Shapes DEF Bench, ShapeInv, TypeOK
    <3>2. OnAp(script[Bsp], a)' = OnAp(BspScript(enabled), a)
      BY <3>1, NextPart
    <3>3. QED
      BY <3>1, <3>2, BspScriptIs
  <2>3. QED
    BY <2>1, <2>2
<1>7. OnAp(script[Bsp], a)' # Tail(WholePart(a))
  BY <1>6, PartEnds
<1>8. Apart(a)'
  BY <1>4, <1>5, <1>6, <1>7
     DEF Apart, WholePart, Launch, BspFrom, ByBsp, Value, LastValue
<1>9. QED
  BY <1>8 DEF Meets

\* A step that executes no operation of a script.
LEMMA OtherMeets ==
  ASSUME TypeOK, MeetingInv, NEW a \in Aps,
         script' = script, ready' = ready, NoBench(a) => NoBench(a)'
  PROVE  Meets(a)'
<1>1. OnAp(script[Bsp], a)' = OnAp(script[Bsp], a)
  BY NextPart
<1>2. QED
  BY <1>1, MeetsKept DEF MeetingInv

\* A processor that goes on from a halt does not get hold of a command.
LEMMA WakesApart ==
  ASSUME TypeOK, NEW a \in Aps, NEW line, NEW next, next[a] \in {pc[a], "run", "read"},
         StoreWakes(line, next), command'[a] \in {command[a], "HELLO"}, taken' = taken
  PROVE  NoBench(a) => NoBench(a)'
<1>1. pc'[a] \in {pc[a], "run", "read"}
  BY Shapes DEF StoreWakes, Awake
<1>2. QED
  BY <1>1 DEF NoBench, Commands

\* A command is put into a mailbox or is taken out.
LEMMA ThreadMeets ==
  ASSUME TypeOK, MeetingInv, NEW b \in Aps, HelloAp(b) \/ Thread(b), NEW a \in Aps
  PROVE  Meets(a)'
<1> USE Shapes
<1>1. CASE HelloAp(b)
  <2>1. command'[a] \in {command[a], "HELLO"}
    BY <1>1 DEF HelloAp, ShapeInv
  <2>2. NoBench(a) => NoBench(a)'
    BY <1>1, <2>1, WakesApart DEF HelloAp
  <2>3. QED
    BY <1>1, <2>2, OtherMeets DEF HelloAp
<1>2. CASE Start(b) \/ Enable(b) \/ Monitor(b) \/ Mwait(b) \/ Hello(b)
  <2>1. /\ script' = script /\ ready' = ready
        /\ taken' = taken /\ command'[a] \in {command[a], None}
        /\ pc'[a] \in {pc[a], "enable", "read", "reread", "asleep"}
    BY <1>2 DEF Start, Enable, Monitor, Mwait, Hello, Halt, Goto, ShapeInv
  <2>2. NoBench(a) => NoBench(a)'
    BY <2>1, SmpAssumption DEF NoBench, Commands
  <2>3. QED
    BY <2>1, <2>2, OtherMeets
<1>3. CASE Read(b, "read", "monitor") \/ Read(b, "reread", "doze")
  <2>1. /\ script' = script /\ ready' = ready /\ command' = command
        /\ b = a => taken'[a] = command[a]
        /\ b # a => taken'[a] = taken[a] /\ pc'[a] = pc[a]
    BY <1>3 DEF Read, Goto, ShapeInv
  <2>2. NoBench(a) => NoBench(a)'
    BY <2>1 DEF NoBench
  <2>3. QED
    BY <2>1, <2>2, OtherMeets
<1>4. CASE Clear(b)
  <2>1. /\ ready' = ready /\ taken' = taken
        /\ b = a => /\ pc[a] = "clear" /\ command'[a] = None
                    /\ pc'[a] \in {"run", "hello"}
                    /\ script'[a] = IF taken[a] = "RUN_BENCH" THEN ApScript(a) ELSE <<>>
        /\ b # a => /\ command'[a] = command[a] /\ pc'[a] = pc[a]
                    /\ script'[a] = script[a]
        /\ script'[Bsp] = script[Bsp]
    BY <1>4 DEF Clear, Goto, ShapeInv
  <2>2. OnAp(script[Bsp], a)' = OnAp(script[Bsp], a)
    BY <2>1, NextPart
  <2>3. Meets(a)
    BY DEF MeetingInv
  <2>4. CASE b # a
    <3>1. NoBench(a) => NoBench(a)'
      BY <2>1, <2>4 DEF NoBench
    <3>2. QED
      BY <2>1, <2>2, <2>3, <2>4, <3>1, MeetsKept
  <2>5. CASE b = a /\ taken[a] # "RUN_BENCH"
    <3>1. script[a] = <<>> /\ script'[a] = <<>>
      BY <2>1, <2>5 DEF Running
    <3>2. NoBench(a) => NoBench(a)'
      BY <2>1, <2>5, SmpAssumption DEF NoBench, Commands
    <3>3. QED
      BY <2>1, <2>2, <2>3, <3>1, <3>2, MeetsKept
  <2>6. CASE b = a /\ taken[a] = "RUN_BENCH"
    <3>1. ~NoBench(a)
      BY <2>1, <2>6 DEF NoBench
    <3>2. Called(a)
      BY <2>3, <3>1 DEF Meets, Apart, InStep
    <3>3. script'[a] = ApFrom(a, 1)
      BY <2>1, <2>6, ApScriptIs
    <3>4. NoBench(a)'
      BY <2>1, <2>6, SmpAssumption DEF NoBench, Commands
    <3>5. 1 - 1 = 0 /\ Value(0) = 0 /\ 1 \in 1..LastValue /\ 1 \in 1..(LastValue + 1)
      <4>1. Value(0) = 0
        BY ValueIs
      <4>2. 1 \in 1..LastValue
        BY FirstValue
      <4>3. 1 \in 1..(LastValue + 1)
        BY LastValueIs
      <4>4. QED
        BY <4>1, <4>2, <4>3
    <3>6. InStep(a, 1, 1)'
      BY <2>1, <2>2, <3>2, <3>3, <3>4, <3>5 DEF Called, InStep
    <3>7. QED
      BY <3>5, <3>6 DEF Meets
  <2>7. QED
    BY <2>4, <2>5, <2>6
<1>5. QED
  BY <1>1, <1>2, <1>3, <1>4 DEF Thread

\* What a store does to the byte of one AP.
Turns(a) ==
  ready'[a] # ready[a] =>
    \/ Follows(ready[a], ready'[a])
    \/ ready'[a] = 0 /\ pc[a] \notin Running

\* A step of a script of processor 0.
LEMMA BspPerforms ==
  ASSUME TypeOK, MeetingInv, Perform(Bsp), NEW a \in Aps
  PROVE  Meets(a)' /\ Turns(a)
<1> USE Shapes
<1> DEFINE q == Op(Bsp).ap
           s == OnAp(script[Bsp], a)
<1>1. Meets(a) /\ (pc[a] \in Running <=> script[a] # <<>>)
  BY DEF MeetingInv
<1>2. CASE DoStore(Bsp)
  <2>1. /\ pc[Bsp] \in Running /\ Op(Bsp).op = "store"
        /\ script'[a] = script[a] /\ script'[Bsp] = Rest(Bsp)
        /\ q = a => ready'[a] = Op(Bsp).v
        /\ q # a => ready'[a] = ready[a]
    BY <1>2 DEF DoStore, ShapeInv, Running
  <2>2. NoBench(a) => NoBench(a)'
    <3>1. Goto(Bsp, Onward(Bsp))[a] = pc[a]
      BY DEF Goto, ShapeInv
    <3>2. QED
      BY <1>2, <3>1, WakesApart DEF DoStore
  <2>3. OnAp(script[Bsp], a)' = OnAp(Rest(Bsp), a)
    BY <2>1, NextPart
  <2>4. CASE q = a
    <3>1. s # <<>> /\ Head(s) = Op(Bsp) /\ OnAp(script[Bsp], a)' = Tail(s)
      BY <2>1, <2>3, <2>4, NextOp
    <3>2. /\ Meets(a)'
          /\ \/ ready'[a] = 0 /\ script[a] = <<>>
             \/ Follows(ready[a], ready'[a])
      BY <1>1, <2>1, <2>2, <2>4, <3>1, BspStores
    <3>3. QED
      BY <1>1, <3>2 DEF Turns
  <2>5. CASE q # a
    <3>1. OnAp(script[Bsp], a)' = s
      BY <2>1, <2>3, <2>5, NextOp
    <3>2. QED
      BY <1>1, <2>1, <2>2, <2>5, <3>1, MeetsKept DEF Turns
  <2>6. QED
    BY <2>4, <2>5
<1>3. CASE DoPost(Bsp)
  <2>1. /\ pc[Bsp] \in Running /\ Op(Bsp).op = "post"
        /\ script'[a] = script[a] /\ script'[Bsp] = Rest(Bsp)
        /\ ready'[a] = ready[a]
        /\ q # a => command'[a] = command[a]
    BY <1>3 DEF DoPost, ShapeInv, Running
  <2>2. OnAp(script[Bsp], a)' = OnAp(Rest(Bsp), a)
    BY <2>1, NextPart
  <2>3. CASE q = a
    <3>1. s # <<>> /\ Head(s) = Op(Bsp) /\ OnAp(script[Bsp], a)' = Tail(s)
      BY <2>1, <2>2, <2>3, NextOp
    <3>2. Meets(a)'
      BY <1>1, <2>1, <3>1, BspPosts
    <3>3. QED
      BY <2>1, <3>2 DEF Turns
  <2>4. CASE q # a
    <3>1. OnAp(script[Bsp], a)' = s
      BY <2>1, <2>2, <2>4, NextOp
    <3>2. Goto(Bsp, Onward(Bsp))[a] = pc[a]
      BY DEF Goto, ShapeInv
    <3>3. NoBench(a) => NoBench(a)'
      BY <1>3, <2>1, <2>4, <3>2, WakesApart DEF DoPost
    <3>4. QED
      BY <1>1, <2>1, <3>1, <3>3, MeetsKept DEF Turns
  <2>5. QED
    BY <2>3, <2>4
<1>4. CASE WatchMonitor(Bsp) \/ WatchMwait(Bsp)
  <2>1. /\ script' = script /\ ready' = ready /\ command' = command /\ taken' = taken
        /\ pc'[a] = pc[a]
    BY <1>4 DEF WatchMonitor, WatchMwait, Halt, Goto, ShapeInv
  <2>2. NoBench(a) => NoBench(a)'
    BY <2>1 DEF NoBench
  <2>3. QED
    BY <2>1, <2>2, OtherMeets DEF Turns
<1>5. CASE WatchCheck(Bsp)
  <2>1. /\ pc[Bsp] = "check" /\ ready' = ready /\ command' = command /\ taken' = taken
        /\ pc'[a] = pc[a] /\ script'[a] = script[a]
        /\ ready[q] = Op(Bsp).v => script'[Bsp] = Rest(Bsp)
        /\ ready[q] # Op(Bsp).v => script' = script
    BY <1>5 DEF WatchCheck, Goto, ShapeInv
  <2>2. NoBench(a) => NoBench(a)'
    BY <2>1 DEF NoBench
  <2>3. Op(Bsp).op = "watch" /\ pc[Bsp] \in Running
    BY <2>1 DEF MeetingInv, WatchInv, Running
  <2>4. CASE ready[q] # Op(Bsp).v
    BY <2>1, <2>2, <2>4, OtherMeets DEF Turns
  <2>5. CASE ready[q] = Op(Bsp).v
    <3>1. OnAp(script[Bsp], a)' = OnAp(Rest(Bsp), a)
      BY <2>1, <2>5, NextPart
    <3>2. CASE q = a
      <4>1. s # <<>> /\ Head(s) = Op(Bsp) /\ OnAp(script[Bsp], a)' = Tail(s)
        BY <2>3, <3>1, <3>2, NextOp
      <4>2. Meets(a)'
        BY <1>1, <2>1, <2>2, <2>3, <2>5, <3>2, <4>1, BspSees
      <4>3. QED
        BY <2>1, <4>2 DEF Turns
    <3>3. CASE q # a
      <4>1. OnAp(script[Bsp], a)' = s
        BY <2>3, <3>1, <3>3, NextOp
      <4>2. QED
        BY <1>1, <2>1, <2>2, <4>1, MeetsKept DEF Turns
    <3>4. QED
      BY <3>2, <3>3
  <2>6. QED
    BY <2>4, <2>5
<1>6. QED
  BY <1>2, <1>3, <1>4, <1>5 DEF Perform

\* A step of a script of an AP.
LEMMA ApPerforms ==
  ASSUME TypeOK, MeetingInv, NEW b \in Aps, Perform(b), NEW a \in Aps
  PROVE  Meets(a)' /\ Turns(a)
<1> USE Shapes
<1>1. Meets(a) /\ b # Bsp /\ b \in Cpus
  BY DEF MeetingInv
<1>2. ASSUME pc[b] \in Running
      PROVE  Op(b).ap = b /\ Op(b).op # "post" /\ script[b] # <<>>
  BY <1>1, <1>2, NextOp
<1>3. CASE DoStore(b)
  <2>1. pc[b] \in Running /\ Op(b).op = "store"
    BY <1>3 DEF DoStore, Running
  <2>2. Op(b).ap = b /\ script[b] # <<>>
    BY <1>2, <2>1
  <2>3. /\ script'[Bsp] = script[Bsp] /\ script'[b] = Tail(script[b])
        /\ ready'[b] = Head(script[b]).v
        /\ a # b => script'[a] = script[a] /\ ready'[a] = ready[a]
    BY <1>1, <1>3, <2>2 DEF DoStore, ShapeInv, Op, Rest
  <2>4. NoBench(a) => NoBench(a)'
    <3>1. Goto(b, Onward(b))[a] \in {pc[a], "run", "read"}
      BY <1>1 DEF Goto, ShapeInv, Onward, Return
    <3>2. QED
      BY <1>3, <3>1, WakesApart DEF DoStore
  <2>5. OnAp(script[Bsp], a)' = OnAp(script[Bsp], a)
    BY <2>3, NextPart
  <2>6. CASE a = b
    <3>1. Head(script[a]).op = "store"
      BY <2>1, <2>6 DEF Op
    <3>2. QED
      BY <1>1, <2>2, <2>3, <2>4, <2>5, <2>6, <3>1, ApStores DEF Turns
  <2>7. CASE a # b
    BY <1>1, <2>3, <2>4, <2>5, <2>7, MeetsKept DEF Turns
  <2>8. QED
    BY <2>6, <2>7
<1>4. CASE DoPost(b)
  BY <1>2, <1>4 DEF DoPost, Running
<1>5. CASE WatchMonitor(b) \/ WatchMwait(b)
  <2>1. /\ script' = script /\ ready' = ready /\ command' = command /\ taken' = taken
        /\ pc'[a] \in {pc[a], "check", "halted", "run"}
    BY <1>5 DEF WatchMonitor, WatchMwait, Halt, Goto, ShapeInv
  <2>2. NoBench(a) => NoBench(a)'
    BY <2>1 DEF NoBench
  <2>3. QED
    BY <2>1, <2>2, OtherMeets DEF Turns
<1>6. CASE WatchCheck(b)
  <2>1. pc[b] \in Running /\ Op(b).op = "watch"
    BY <1>1, <1>6 DEF WatchCheck, Running, MeetingInv, WatchInv
  <2>2. Op(b).ap = b /\ script[b] # <<>>
    BY <1>2, <2>1
  <2>3. /\ ready' = ready /\ command' = command /\ taken' = taken
        /\ pc'[a] \in {pc[a], "mwait", "run", "read"}
        /\ ready[b] # Head(script[b]).v => script' = script
        /\ ready[b] = Head(script[b]).v =>
             /\ script'[Bsp] = script[Bsp] /\ script'[b] = Tail(script[b])
             /\ a # b => script'[a] = script[a]
    BY <1>1, <1>6, <2>2 DEF WatchCheck, ShapeInv, Op, Rest, Goto, Onward, Return
  <2>4. NoBench(a) => NoBench(a)'
    BY <2>3 DEF NoBench
  <2>5. CASE ready[b] # Head(script[b]).v
    BY <2>3, <2>4, <2>5, OtherMeets DEF Turns
  <2>6. CASE ready[b] = Head(script[b]).v
    <3>1. OnAp(script[Bsp], a)' = OnAp(script[Bsp], a)
      BY <2>3, <2>6, NextPart
    <3>2. CASE a = b
      <4>1. Head(script[a]).op = "watch"
        BY <2>1, <3>2 DEF Op
      <4>2. Meets(a)'
        BY <1>1, <2>2, <2>3, <2>4, <2>6, <3>1, <3>2, <4>1, ApSees
      <4>3. QED
        BY <2>3, <4>2 DEF Turns
    <3>3. CASE a # b
      BY <1>1, <2>3, <2>4, <2>6, <3>1, <3>3, MeetsKept DEF Turns
    <3>4. QED
      BY <3>2, <3>3
  <2>7. QED
    BY <2>5, <2>6
<1>7. QED
  BY <1>3, <1>4, <1>5, <1>6 DEF Perform

\* Every step keeps the meeting and turns every byte as the handshake asks for.
LEMMA NextMeeting ==
  TypeOK /\ MeetingInv /\ [Next]_vars => MeetingInv' /\ \A a \in Aps : Turns(a)
<1> SUFFICES ASSUME TypeOK, MeetingInv, [Next]_vars
             PROVE  MeetingInv' /\ \A a \in Aps : Turns(a)
  OBVIOUS
<1>1. CASE UNCHANGED vars
  <2>1. /\ pc' = pc /\ script' = script /\ command' = command
        /\ taken' = taken /\ ready' = ready
    BY <1>1 DEF vars
  <2>2. \A a \in Aps : NoBench(a) => NoBench(a)'
    BY <2>1 DEF NoBench
  <2>3. \A a \in Aps : Meets(a)'
    BY <2>1, <2>2, OtherMeets
  <2>4. WatchInv'
    BY <2>1 DEF MeetingInv, WatchInv, Op
  <2>5. QED
    BY <2>1, <2>3, <2>4 DEF MeetingInv, Turns
<1>2. CASE Next
  <2>1. SUFFICES ASSUME NEW a \in Aps PROVE Meets(a)' /\ Turns(a)
    BY <1>2, WatchKept DEF MeetingInv
  <2>2. CASE BootAp \/ Bench
    BY <2>2, ShellMeets DEF BootAp, Bench, Turns
  <2>3. ASSUME NEW b \in Aps, HelloAp(b) \/ Thread(b) PROVE Meets(a)' /\ Turns(a)
    <3>1. ready' = ready
      BY <2>3 DEF HelloAp, Thread, Start, Enable, Read, Monitor, Mwait, Halt, Clear, Hello
    <3>2. QED
      BY <2>3, <3>1, ThreadMeets DEF Turns
  <2>4. ASSUME NEW p \in Cpus, Perform(p) PROVE Meets(a)' /\ Turns(a)
    BY <2>4, BspPerforms, ApPerforms DEF Cpus
  <2>5. ASSUME NEW p \in Cpus, Disturb(p) PROVE Meets(a)' /\ Turns(a)
    <3>1. /\ script' = script /\ ready' = ready /\ command' = command /\ taken' = taken
          /\ pc'[a] \in {pc[a], "read", "run"}
      BY <2>5, Shapes DEF Disturb, Goto, Awake, ShapeInv
    <3>2. NoBench(a) => NoBench(a)'
      BY <3>1 DEF NoBench
    <3>3. QED
      BY <3>1, <3>2, OtherMeets DEF Turns
  <2>6. QED
    BY <1>2, <2>2, <2>3, <2>4, <2>5 DEF Next
<1>3. QED
  BY <1>1, <1>2

\* The two sides of a bench stay in step.
THEOREM SidesMeet == Spec => []MeetingInv
<1>1. TypeOK /\ MeetingInv /\ [Next]_vars => MeetingInv'
  BY NextMeeting
<1>2. QED
  BY <1>1, InitMeeting, TypeCorrect, PTL DEF Spec

\* However many APs take part and however many C-states there are, a byte takes
\* the values of smp_bench and run_bench_ap in the order of the protocol: no
\* side stores over a value that the other has not seen, and processor 0 resets
\* the byte of an AP only while that is not in run_bench_ap.
THEOREM HandshakeInOrder == Spec => Handshake
<1>1. TypeOK /\ MeetingInv /\ [Next]_vars
        => [\A a \in Aps :
              ready'[a] # ready[a] =>
                \/ Follows(ready[a], ready'[a])
                \/ ready'[a] = 0 /\ pc[a] \notin Running]_vars
  BY NextMeeting DEF Turns
<1>2. QED
  BY <1>1, TypeCorrect, SidesMeet, PTL DEF Spec, Handshake

=============================================================================
