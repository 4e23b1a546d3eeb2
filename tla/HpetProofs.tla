----------------------------- MODULE HpetProofs ------------------------------
(***************************************************************************)
(* Proofs about hpet.c and wait.c (module Hpet) for every width of the     *)
(* counter, frequency and set of stack addresses.  IInv relates the        *)
(* counter, the comparator and the time that has passed since the call,    *)
(* and says when the timer is at rest; both only as long as no wait has    *)
(* begun with its event word set.                                          *)
(***************************************************************************)
EXTENDS Hpet, TLAPS

\* A remainder of Width is a value of the counter.
LEMMA ModType == \A k \in Nat : k % Width \in Counts
BY HpetAssumption DEF Counts

\* The ticks of a call are a value of the counter.
LEMMA TicksType == \A c \in Calls : TicksOf(c) \in Counts
<1> TAKE c \in Calls
<1>1. c.n \in Nat
  BY HpetAssumption DEF Calls
<1>2. c.n * FreqKhz \in Nat
  BY <1>1, HpetAssumption
<1>3. QED
  BY <1>2, ModType DEF TicksOf, MsecToTick

\* The next value of the counter is the successor, or zero after the last.
LEMMA NextCount ==
  \A k \in Counts : /\ Next32(k) \in Counts
                    /\ Next32(k) = IF k + 1 = Width THEN 0 ELSE k + 1
<1> TAKE k \in Counts
<1>1. k + 1 \in Nat /\ k + 1 <= Width
  BY HpetAssumption DEF Counts
<1>2. Next32(k) = IF k + 1 = Width THEN 0 ELSE k + 1
  BY <1>1, HpetAssumption DEF Next32
<1>3. QED
  BY <1>1, <1>2, HpetAssumption DEF Counts

\* The initial state satisfies the inductive invariant.
LEMMA InitIInv == Init => IInv
<1> SUFFICES ASSUME Init PROVE IInv
  OBVIOUS
<1>1. TypeOK
  <2>1. 0 \in Counts /\ 0 \in 0..MaxElapsed
    BY HpetAssumption DEF Counts, MaxElapsed
  <2>2. QED
    BY <2>1 DEF Init, TypeOK
<1>2. CallInv /\ RestInv /\ SetupInv /\ TimeInv
  BY DEF Init, CallInv, RestInv, SetupInv, TimeInv
<1>3. QED
  BY <1>1, <1>2 DEF IInv

\* A call begins with the timer as the previous one left it.
LEMMA CallStep ==
  ASSUME IInv, NEW c \in Calls, NEW f \in Frames, Call(c, f)
  PROVE  IInv'
<1> USE DEF IInv, Call, Step, timer
<1>1. PICK w \in BOOLEAN :
        word' = [word EXCEPT ![f] = w] /\ dirty' = (dirty \/ w)
  BY DEF FirstWord
<1>2. TypeOK'
  BY <1>1, TicksType, HpetAssumption DEF TypeOK, MaxElapsed
<1>3. CallInv'
  BY DEF CallInv
<1>4. RestInv'
  BY <1>1 DEF RestInv, TypeOK
<1>5. SetupInv' /\ TimeInv'
  BY <1>1 DEF SetupInv, TimeInv
<1>6. QED
  BY <1>2, <1>3, <1>4, <1>5

\* hpet_oneshot sets the timer up, register by register.
LEMMA SetupStep ==
  ASSUME IInv, SetConf \/ ZeroCount \/ SetComparator \/ SetPointer
  PROVE  IInv'
<1> USE DEF IInv, TypeOK, CallInv, RestInv, SetupInv, TimeInv, Step, timer,
            Counts
<1>1. CASE SetConf
  BY <1>1 DEF SetConf
<1>2. CASE ZeroCount
  BY <1>2, HpetAssumption DEF ZeroCount
<1>3. CASE SetComparator
  BY <1>3 DEF SetComparator
<1>4. CASE SetPointer
  BY <1>4 DEF SetPointer
<1>5. QED
  BY <1>1, <1>2, <1>3, <1>4

\* The counter starts at zero.
LEMMA StartStep == ASSUME IInv, Start PROVE IInv'
<1> USE DEF IInv, Start, Step
<1>1. TypeOK'
  BY DEF TypeOK
<1>2. CallInv' /\ RestInv' /\ SetupInv'
  BY DEF TypeOK, CallInv, RestInv, SetupInv
<1>3. TimeInv'
  BY HpetAssumption
     DEF TypeOK, RestInv, SetupInv, TimeInv, Counts, MaxElapsed
<1>4. QED
  BY <1>1, <1>2, <1>3

\* The thread returns with its event word set.
LEMMA ReturnStep == ASSUME IInv, Return PROVE IInv'
<1> USE DEF IInv, Return, Step, timer
<1>1. TypeOK'
  BY HpetAssumption DEF TypeOK, MaxElapsed
<1>2. CallInv' /\ RestInv' /\ SetupInv' /\ TimeInv'
  BY DEF CallInv, RestInv, SetupInv, TimeInv
<1>3. QED
  BY <1>1, <1>2

\* Time passes, and the counter with it; a match latches the interrupt.
LEMMA TickStep == ASSUME IInv, Tick PROVE IInv'
<1> USE DEF IInv, Tick
<1>1. TypeOK'
  BY NextCount, HpetAssumption DEF TypeOK, MaxElapsed
<1>2. CallInv' /\ RestInv'
  BY DEF CallInv, RestInv
<1>3. SetupInv'
  BY DEF SetupInv, RestInv
<1>4. TimeInv'
  <2> SUFFICES ASSUME ~dirty, pc = "wait"
               PROVE  IF pending' \/ word'[frame'] THEN ticks' <= elapsed'
                      ELSE count' <= elapsed'
    BY DEF TimeInv
  <2>1. /\ ticks \in 0..(Width - 1) /\ count \in 0..(Width - 1)
        /\ elapsed \in 0..MaxElapsed
        /\ comparator = ticks
    BY DEF TypeOK, SetupInv, Counts
  <2>2. elapsed' = IF elapsed < MaxElapsed THEN elapsed + 1 ELSE elapsed
    OBVIOUS
  <2>3. Width \in Nat /\ Width > 1 /\ MaxElapsed = 2 * Width
    BY HpetAssumption DEF MaxElapsed
  <2>4. CASE pending \/ word[frame]
    <3>1. ticks <= elapsed
      BY <2>4 DEF TimeInv
    <3>2. ticks' <= elapsed'
      BY <2>1, <2>2, <2>3, <3>1
    <3>3. pending' \/ word'[frame']
      BY <2>4
    <3>4. QED
      BY <3>2, <3>3
  <2>5. CASE ~pending /\ ~word[frame]
    <3>1. count <= elapsed
      BY <2>5 DEF TimeInv
    <3>2. CASE ~enabled
      <4>1. count' = count
        BY <3>2
      <4>2. ~pending'
        BY <2>5, <3>2
      <4>3. count <= elapsed'
        BY <2>1, <2>2, <2>3, <3>1
      <4>4. QED
        BY <2>5, <3>1, <4>1, <4>2, <4>3
    <3>3. CASE enabled
      <4>1. count' = IF count + 1 = Width THEN 0 ELSE count + 1
        BY <3>3, <2>1, NextCount DEF Counts
      <4>2. pending' => count' = ticks
        BY <3>3, <2>1, <2>5 DEF SetupInv
      <4>3. count' <= elapsed' /\ ticks <= Width - 1
        BY <2>1, <2>2, <2>3, <3>1, <4>1
      <4>4. pending' => ticks <= elapsed'
        BY <4>2, <4>3
      <4>5. QED
        BY <2>5, <4>3, <4>4
    <3>4. QED
      BY <3>2, <3>3 DEF TypeOK
  <2>6. QED
    BY <2>4, <2>5
<1>5. QED
  BY <1>1, <1>2, <1>3, <1>4

\* The handler sets the word its pointer names and stops the counter.
LEMMA IntrStep == ASSUME IInv, Intr PROVE IInv'
<1> USE DEF IInv, Intr
<1>1. TypeOK'
  BY DEF TypeOK
<1>2. CallInv' /\ SetupInv'
  BY DEF CallInv, SetupInv
<1>3. RestInv' /\ TimeInv'
  BY DEF TypeOK, RestInv, SetupInv, CallInv, TimeInv
<1>4. QED
  BY <1>1, <1>2, <1>3

\* Every step keeps the inductive invariant.
LEMMA NextIInv == IInv /\ [Next]_vars => IInv'
<1> SUFFICES ASSUME IInv, [Next]_vars PROVE IInv'
  OBVIOUS
<1>1. CASE \E c \in Calls, f \in Frames : Call(c, f)
  BY <1>1, CallStep
<1>2. CASE ThreadNext
  BY <1>2, SetupStep, StartStep, ReturnStep DEF ThreadNext
<1>3. CASE Tick
  BY <1>3, TickStep
<1>4. CASE Intr
  BY <1>4, IntrStep
<1>5. CASE UNCHANGED vars
  BY <1>5 DEF IInv, TypeOK, CallInv, RestInv, SetupInv, TimeInv, vars, timer
<1>6. QED
  BY <1>1, <1>2, <1>3, <1>4, <1>5 DEF Next

THEOREM IInvariance == Spec => []IInv
BY InitIInv, NextIInv, PTL DEF Spec

\* The variables of the timer and of its callers always hold values of their
\* types: in particular the ticks of a wait have wrapped to 32 bits.
THEOREM TypeCorrect == Spec => []TypeOK
<1>1. IInv => TypeOK
  BY DEF IInv
<1>2. QED
  BY <1>1, IInvariance, PTL

\* Between waits that have begun with a clear event word the counter is
\* stopped and no interrupt is on its way.
THEOREM QuietBetweenWaits == Spec => []IdleIsQuiet
<1>1. IInv => IdleIsQuiet
  BY DEF IInv, RestInv, IdleIsQuiet
<1>2. QED
  BY <1>1, IInvariance, PTL

\* The handler of hpet.c writes through ready_ptr only into the event word of
\* the wait in progress, as long as every wait has begun with a clear one.
THEOREM LiveWordWritten == Spec => WritesLiveWord
<1>1. IInv /\ [Next]_vars => [pending /\ ~pending' /\ ~dirty => ptr = frame]_vars
  BY DEF IInv, RestInv, SetupInv
<1>2. QED
  BY <1>1, IInvariance, PTL DEF Spec, WritesLiveWord

\* The ticks of a wait that fits are not less than the time asked for.
LEMMA AskedFits ==
  ASSUME NEW c \in Calls, Fits(c)
  PROVE  TicksOf(c) \in Nat /\ Asked(c) \in Nat /\ Asked(c) <= TicksOf(c)
<1> DEFINE t == c.n * FreqKhz
<1>1. t \in Nat
  BY HpetAssumption DEF Calls
<1>2. TicksOf(c) = t
  BY <1>1, HpetAssumption DEF TicksOf, MsecToTick, Fits
<1>3. t \div UsecPerMsec \in Nat /\ t \div UsecPerMsec <= t
  <2> HIDE DEF t
  <2>1. QED
    BY <1>1, HpetAssumption
<1>4. QED
  BY <1>1, <1>2, <1>3 DEF Asked

\* A wait that fits in the width of the counter lasts at least as long as it
\* was asked to, as long as every wait has begun with a clear event word.
THEOREM CleanWaitsAreFull == Spec => CleanWaitsFull
<1>1. ASSUME IInv, [Next]_vars PROVE [FullUnlessDirty]_vars
  <2> SUFFICES ASSUME pc = "wait", pc' = "idle", ~dirty, Fits(call)
               PROVE  elapsed >= Asked(call)
    BY DEF FullUnlessDirty
  <2>1. word[frame]
    BY <1>1 DEF Next, Call, ThreadNext, SetConf, ZeroCount, SetComparator,
                SetPointer, Start, Return, Tick, Intr, Step, vars
  <2>2. ticks <= elapsed /\ call \in Calls /\ ticks = TicksOf(call)
    BY <1>1, <2>1 DEF IInv, TimeInv, CallInv
  <2>3. elapsed \in Nat
    BY <1>1, HpetAssumption DEF IInv, TypeOK, MaxElapsed
  <2>4. QED
    BY <2>2, <2>3, AskedFits
<1>2. QED
  BY <1>1, IInvariance, PTL DEF Spec, CleanWaitsFull

=============================================================================
