---------------------------- MODULE Ns16550Proofs ----------------------------
(***************************************************************************)
(* Proofs about the serial port (module Ns16550) for every depth of the    *)
(* FIFO, length of a read and number of characters.  CountInv holds        *)
(* whatever characters arrive; CalmInv as long as none comes sooner than   *)
(* it is asked for.                                                        *)
(***************************************************************************)
EXTENDS Ns16550, TLAPS, SequenceTheorems

-----------------------------------------------------------------------------
(* Character numbers.                                                      *)

\* The number k characters after c, for k less than the number of numbers.
LEMMA AfterValue ==
  \A c, k \in Chars :
    /\ After(c, k) = IF c + k < Codes THEN c + k ELSE c + k - Codes
    /\ After(c, k) \in Chars
BY SerialAssumption DEF After, Chars

LEMMA AfterAfter ==
  \A c, j, k \in Chars :
    j + k < Codes => After(After(c, j), k) = After(c, j + k)
<1> TAKE c, j, k \in Chars
<1> HAVE j + k < Codes
<1>1. j + k \in Chars
  BY SerialAssumption DEF Chars
<1>2. /\ After(c, j) = IF c + j < Codes THEN c + j ELSE c + j - Codes
      /\ After(c, j) \in Chars
  BY AfterValue
<1>3. After(After(c, j), k) = IF After(c, j) + k < Codes THEN After(c, j) + k
                              ELSE After(c, j) + k - Codes
  BY <1>2, AfterValue
<1>4. After(c, j + k) = IF c + (j + k) < Codes THEN c + (j + k)
                        ELSE c + (j + k) - Codes
  BY <1>1, AfterValue
<1>5. QED
  BY <1>2, <1>3, <1>4, SerialAssumption DEF Chars

-----------------------------------------------------------------------------
(* Types and counts: no assumption about the characters.                   *)

SafeInv == TypeOK /\ CountInv

\* The empty buffer has its type.
LEMMA EmptyType == <<>> \in Seq(Chars) /\ Len(<<>>) = 0
BY EmptySeq

LEMMA InitSafe == Init => SafeInv
<1> SUFFICES ASSUME Init PROVE SafeInv
  OBVIOUS
<1> USE DEF Init, SafeInv
<1>1. fifo \in Seq(Chars) /\ Len(fifo) <= Depth
  BY EmptyType, SerialAssumption
<1>2. buffer \in Seq(Chars) /\ Len(buffer) <= MaxRead
  BY EmptyType, SerialAssumption
<1>3. arrival \in Chars /\ seen \in Chars
  BY SerialAssumption DEF Chars
<1>4. remain \in -1..MaxRead /\ n \in 0..MaxRead /\ burst \in 0..MaxBurst
  BY SerialAssumption
<1>5. TypeOK
  BY <1>1, <1>2, <1>3, <1>4 DEF TypeOK
<1>6. CountInv
  BY DEF CountInv
<1>7. QED
  BY <1>5, <1>6

\* A character arrives.
LEMMA ArriveSafe == ASSUME SafeInv, Arrive PROVE SafeInv'
<1> USE DEF SafeInv, Arrive, request
<1>1. arrival' \in Chars
  BY SerialAssumption, AfterValue DEF TypeOK, Chars
<1>2. burst' \in 0..MaxBurst
  BY SerialAssumption DEF TypeOK
<1>3. fifo' \in Seq(Chars) /\ Len(fifo') <= Depth
  <2>1. fifo \in Seq(Chars) /\ Len(fifo) <= Depth /\ arrival \in Chars
    BY DEF TypeOK
  <2>2. CASE Len(fifo) < Depth
    <3>1. fifo' = Append(fifo, arrival)
      BY <2>2 DEF SetPort
    <3>2. QED
      BY <2>1, <2>2, <3>1, AppendProperties, SerialAssumption
  <2>3. CASE ~(Len(fifo) < Depth)
    BY <2>1, <2>3
  <2>4. QED
    BY <2>2, <2>3
<1>4. ier' \in BOOLEAN /\ pending' \in BOOLEAN /\ hurried' \in BOOLEAN
  BY DEF TypeOK, SetPort, Line
<1>5. TypeOK'
  BY <1>1, <1>2, <1>3, <1>4 DEF TypeOK
<1>6. CountInv'
  BY DEF CountInv
<1>7. QED
  BY <1>5, <1>6

\* The thread goes through ns16550_read and returns.
LEMMA ThreadSafe ==
  ASSUME SafeInv, ThreadNext \/ Leave \/ \E k \in 1..MaxRead : Read(k)
  PROVE  SafeInv'
<1> USE DEF SafeInv, Step, port, handler, request
<1>0. CASE SetEvent \/ SetBit
  BY <1>0 DEF SetEvent, SetBit, TypeOK, CountInv
<1>1. ASSUME NEW k \in 1..MaxRead, Read(k) PROVE SafeInv'
  <2>1. buffer' \in Seq(Chars) /\ Len(buffer') <= MaxRead
    BY <1>1, EmptyType, SerialAssumption DEF Read
  <2>2. n' \in 1..MaxRead /\ n' \in 0..MaxRead
    BY <1>1, SerialAssumption DEF Read
  <2>3. TypeOK'
    BY <1>1, <2>1, <2>2 DEF Read, TypeOK
  <2>4. CountInv'
    BY <1>1, <2>2 DEF Read, CountInv
  <2>5. QED
    BY <2>3, <2>4
<1>2. CASE SetRemain
  <2>1. n \in 1..MaxRead /\ remain' = n
    BY <1>2, SerialAssumption DEF SetRemain, TypeOK, CountInv
  <2>2. TypeOK'
    BY <1>2, <2>1, SerialAssumption DEF SetRemain, TypeOK
  <2>3. CountInv'
    BY <1>2, <2>1 DEF SetRemain, CountInv
  <2>4. QED
    BY <2>2, <2>3
<1>3. CASE SetPointer
  BY <1>3 DEF SetPointer, TypeOK, CountInv
<1>4. CASE Enable
  BY <1>4 DEF Enable, SetPort, Line, TypeOK, CountInv
<1>5. CASE Return
  <2>1. seen' \in Chars
    <3>1. CASE buffer = <<>>
      BY <1>5, <3>1 DEF Return, TypeOK
    <3>2. CASE buffer # <<>>
      <4>1. buffer[Len(buffer)] \in Chars /\ 1 \in Chars
        BY <3>2, SerialAssumption DEF TypeOK, Chars
      <4>2. QED
        BY <1>5, <3>2, <4>1, AfterValue DEF Return
    <3>3. QED
      BY <3>1, <3>2
  <2>2. buffer' \in Seq(Chars) /\ Len(buffer') <= MaxRead
    BY <1>5, EmptyType, SerialAssumption DEF Return
  <2>3. n' \in 0..MaxRead
    BY <1>5, SerialAssumption DEF Return
  <2>4. TypeOK'
    BY <1>5, <2>1, <2>2, <2>3 DEF Return, TypeOK
  <2>5. CountInv'
    BY <1>5 DEF Return, CountInv
  <2>6. QED
    BY <2>4, <2>5
<1>6. CASE Leave
  <2>1. buffer' \in Seq(Chars) /\ Len(buffer') <= MaxRead
    BY <1>6, EmptyType, SerialAssumption DEF Leave
  <2>2. n' \in 0..MaxRead /\ left' \in {"yes", "late"}
    BY <1>6, SerialAssumption DEF Leave
  <2>3. TypeOK'
    BY <1>6, <2>1, <2>2 DEF Leave, TypeOK
  <2>4. CountInv'
    BY <1>6, <2>2 DEF Leave, CountInv
  <2>5. QED
    BY <2>3, <2>4
<1>7. QED
  BY <1>0, <1>1, <1>2, <1>3, <1>4, <1>5, <1>6 DEF ThreadNext

\* The handler empties the FIFO.
LEMMA HandlerSafe == ASSUME SafeInv, IntrEnter \/ HandlerNext PROVE SafeInv'
<1> USE DEF SafeInv, port, request
<1>1. CASE IntrEnter
  BY <1>1 DEF IntrEnter, TypeOK, CountInv
<1>2. CASE IntrChar
  <2>1. fifo' \in Seq(Chars) /\ Len(fifo') <= Depth /\ Head(fifo) \in Chars
    <3>1. fifo \in Seq(Chars) /\ fifo # <<>> /\ Len(fifo) <= Depth
      BY <1>2 DEF IntrChar, TypeOK
    <3>2. fifo' = Tail(fifo)
      BY <1>2 DEF IntrChar, SetPort
    <3>3. QED
      BY <3>1, <3>2, HeadTailProperties, SerialAssumption
  <2>2. ier' \in BOOLEAN /\ pending' \in BOOLEAN
    BY <1>2 DEF IntrChar, SetPort, Line, TypeOK
  <2>3. /\ buffer' \in Seq(Chars) /\ Len(buffer') <= MaxRead
        /\ stray' \in BOOLEAN
    <3>1. buffer \in Seq(Chars) /\ Len(buffer) <= MaxRead /\ n \in 0..MaxRead
      BY DEF TypeOK
    <3>2. CASE current /\ Len(buffer) < n
      <4>1. buffer' = Append(buffer, Head(fifo)) /\ stray' = stray
        BY <1>2, <3>2 DEF IntrChar, Store
      <4>2. Len(buffer') = Len(buffer) + 1 /\ buffer' \in Seq(Chars)
        BY <2>1, <3>1, <4>1, AppendProperties
      <4>3. QED
        BY <3>1, <3>2, <4>1, <4>2, SerialAssumption DEF TypeOK
    <3>3. CASE ~(current /\ Len(buffer) < n)
      BY <1>2, <3>1, <3>3 DEF IntrChar, Store
    <3>4. QED
      BY <3>2, <3>3
  <2>4. remain' \in -1..MaxRead
    BY <1>2, SerialAssumption DEF IntrChar, TypeOK
  <2>5. hpc' \in {"poll", "signal"}
    BY <1>2 DEF IntrChar
  <2>6. TypeOK'
    BY <1>2, <2>1, <2>2, <2>3, <2>4, <2>5 DEF IntrChar, TypeOK
  <2>7. CountInv'
    BY <1>2, <2>4, SerialAssumption DEF IntrChar, Complete, CountInv, TypeOK
  <2>8. QED
    BY <2>6, <2>7
<1>3. CASE Signal
  <2>1. left # "yes" /\ (left = "no" => remain <= 0)
    BY <1>3 DEF Signal, CountInv
  <2>2. QED
    BY <1>3, <2>1 DEF Signal, TypeOK, CountInv
<1>4. CASE Disable
  BY <1>4 DEF Disable, SetPort, Line, TypeOK, CountInv
<1>5. CASE IntrExit
  BY <1>5, SerialAssumption DEF IntrExit, TypeOK, CountInv
<1>6. QED
  BY <1>1, <1>2, <1>3, <1>4, <1>5 DEF HandlerNext

LEMMA NextSafe == SafeInv /\ [Next]_vars => SafeInv'
<1> SUFFICES ASSUME SafeInv, [Next]_vars PROVE SafeInv'
  OBVIOUS
<1>1. CASE UNCHANGED vars
  BY <1>1 DEF vars, port, request, handler, SafeInv, TypeOK, CountInv
<1>2. QED
  BY <1>1, ArriveSafe, ThreadSafe, HandlerSafe DEF Next

THEOREM SafeInvariance == Spec => []SafeInv
BY InitSafe, NextSafe, PTL DEF Spec

-----------------------------------------------------------------------------
(* Calm: no character comes sooner than it is asked for.                   *)

Calm == ~stray /\ left # "late" /\ InterruptInv /\ ProgressInv /\ OrderInv

LEMMA InitCalm == Init => Calm
<1> SUFFICES ASSUME Init PROVE Calm
  OBVIOUS
<1>1. Len(fifo) = 0 /\ Len(buffer) = 0
  BY EmptyType DEF Init
<1>2. arrival = After(seen, Len(buffer) + Len(fifo))
  BY <1>1, AfterValue, SerialAssumption DEF Init, Chars
<1>3. OrderInv
  BY <1>1, <1>2 DEF OrderInv
<1>4. ~stray /\ left # "late" /\ InterruptInv /\ ProgressInv
  BY <1>1 DEF Init, InterruptInv, ProgressInv
<1>5. QED
  BY <1>3, <1>4 DEF Calm

\* The character that arrives is the next one, and there is room for it.
LEMMA ArriveCalm == ASSUME SafeInv, Calm, Arrive, ~hurried' PROVE Calm'
<1> USE DEF Calm
<1>1. hpc = "off" /\ Len(fifo) < Demand /\ left = "no" /\ left' = "no"
  <2>1. hpc = "off" /\ ~(Len(fifo) >= Demand)
    BY DEF Arrive
  <2>2. Len(fifo) \in Nat /\ Demand \in Int
    BY SerialAssumption DEF SafeInv, TypeOK, Demand
  <2>3. left # "yes"
    BY <2>1, <2>2 DEF Demand
  <2>4. QED
    BY <2>1, <2>2, <2>3 DEF SafeInv, TypeOK, Arrive
<1>2. /\ fifo \in Seq(Chars) /\ buffer \in Seq(Chars) /\ seen \in Chars
      /\ arrival \in Chars /\ Len(buffer) <= MaxRead /\ remain \in -1..MaxRead
      /\ Len(fifo) \in Nat /\ Len(buffer) \in Nat
  BY DEF SafeInv, TypeOK
<1>3. Len(fifo) < Depth
  BY <1>1, <1>2, SerialAssumption DEF Demand
<1>4. /\ fifo' = Append(fifo, arrival)
      /\ pending' = (pending \/ (Line(ier, fifo') /\ ~Line(ier, fifo)))
  BY <1>3 DEF Arrive, SetPort
<1>5. UNCHANGED <<ier, pc, n, ready, remain, current, buffer, stray, hpc, seen>>
  BY <1>3 DEF Arrive, SetPort, request
<1>6. /\ Len(fifo') = Len(fifo) + 1 /\ fifo' # <<>>
      /\ \A i \in 1..Len(fifo) : fifo'[i] = fifo[i]
      /\ fifo'[Len(fifo) + 1] = arrival
  BY <1>2, <1>4, AppendProperties
<1>7. InterruptInv'
  BY <1>1, <1>4, <1>5, <1>6 DEF InterruptInv, Line
<1>8. ProgressInv'
  BY <1>1, <1>2, <1>5, <1>6 DEF ProgressInv, Demand
<1>9. OrderInv'
  <2> DEFINE t == Len(buffer) + Len(fifo)
  <2>1. t \in Chars /\ 1 \in Chars /\ t + 1 < Codes
    BY <1>2, <1>3, SerialAssumption DEF Chars
  <2>2. arrival = After(seen, t)
    BY DEF OrderInv
  <2>3. arrival' = After(seen, t + 1)
    BY <1>2, <2>1, <2>2, AfterAfter DEF Arrive
  <2>4. Len(buffer') + Len(fifo') = t + 1
    BY <1>2, <1>5, <1>6
  <2>5. ASSUME NEW i \in 1..Len(fifo')
        PROVE  fifo'[i] = After(seen, Len(buffer) + i - 1)
    <3>1. CASE i \in 1..Len(fifo)
      BY <1>6, <3>1 DEF OrderInv
    <3>2. CASE i = Len(fifo) + 1
      <4>1. Len(buffer) + i - 1 = t
        BY <1>2, <3>2
      <4>2. QED
        BY <1>6, <2>2, <3>2, <4>1
    <3>3. QED
      BY <1>2, <1>6, <3>1, <3>2
  <2>6. QED
    BY <1>5, <2>3, <2>4, <2>5 DEF OrderInv
<1>10. QED
  BY <1>1, <1>5, <1>7, <1>8, <1>9

\* The thread asks for characters and takes them.
LEMMA ThreadCalm ==
  ASSUME SafeInv, Calm, ~hurried',
         ThreadNext \/ Leave \/ \E k \in 1..MaxRead : Read(k)
  PROVE  Calm'
<1> USE DEF Calm, Step, port, handler, request
<1>1. /\ fifo \in Seq(Chars) /\ buffer \in Seq(Chars) /\ seen \in Chars
      /\ Len(fifo) \in Nat /\ Len(buffer) \in Nat
      /\ Len(buffer) <= MaxRead /\ n \in 0..MaxRead
  BY DEF SafeInv, TypeOK
<1>0. CASE SetEvent \/ SetBit
  BY <1>0 DEF SetEvent, SetBit, InterruptInv, ProgressInv, OrderInv
<1>2. ASSUME NEW k \in 1..MaxRead, Read(k) PROVE Calm'
  <2>1. buffer = <<>> /\ buffer' = <<>>
    BY <1>2 DEF Read, ProgressInv
  <2>2. QED
    BY <1>2, <2>1 DEF Read, InterruptInv, ProgressInv, OrderInv
<1>3. CASE SetRemain
  BY <1>3 DEF SetRemain, InterruptInv, ProgressInv, OrderInv
<1>4. CASE SetPointer
  BY <1>4 DEF SetPointer, InterruptInv, ProgressInv, OrderInv
<1>5. CASE Enable
  <2>1. /\ fifo' = fifo /\ ier' = TRUE
        /\ pending' = (pending \/ (Line(TRUE, fifo) /\ ~Line(ier, fifo)))
    BY <1>5 DEF Enable, SetPort
  <2>2. InterruptInv'
    BY <1>5, <2>1 DEF Enable, InterruptInv, ProgressInv, Line
  <2>3. n > 0 /\ remain = n /\ buffer = <<>> /\ Len(buffer) = 0 /\ Len(fifo) <= 1
    BY <1>5, EmptyType DEF Enable, ProgressInv, SafeInv, CountInv
  <2>4. ProgressInv'
    BY <1>1, <1>5, <2>1, <2>3 DEF Enable, ProgressInv
  <2>5. QED
    BY <1>5, <2>1, <2>2, <2>4 DEF Enable, OrderInv
<1>6. CASE Return
  <2>1. Len(buffer) = n /\ n > 0 /\ Len(fifo) <= 1 /\ n \in 1..Len(buffer)
    BY <1>1, <1>6 DEF Return, ProgressInv, SafeInv, CountInv
  <2>2. n \in Chars /\ n - 1 \in Chars /\ 1 \in Chars /\ 0 \in Chars
        /\ (n - 1) + 1 = n /\ n < Codes /\ n + 1 < Codes
    BY <1>1, <2>1, SerialAssumption DEF Chars
  <2>3. seen' = After(seen, n)
    <3>1. buffer # <<>>
      BY <2>1, EmptyType
    <3>2. seen' = After(buffer[n], 1)
      BY <1>6, <2>1, <3>1 DEF Return
    <3>3. buffer[n] = After(seen, n - 1)
      BY <2>1 DEF OrderInv
    <3>4. QED
      BY <1>1, <2>2, <3>2, <3>3, AfterAfter
  <2>4. \A k \in 0..1 : After(seen', k) = After(seen, n + k)
    <3> TAKE k \in 0..1
    <3>1. k \in Chars /\ n + k < Codes
      BY <2>2, SerialAssumption DEF Chars
    <3>2. QED
      BY <1>1, <2>2, <2>3, <3>1, AfterAfter
  <2>5. Len(buffer') = 0 /\ fifo' = fifo /\ arrival' = arrival
    BY <1>6, EmptyType DEF Return
  <2>6. OrderInv'
    <3>1. ASSUME NEW i \in 1..Len(fifo)
          PROVE  fifo[i] = After(seen', Len(buffer') + i - 1)
      <4>1. i = 1 /\ Len(buffer') + i - 1 = 0 /\ Len(buffer) + i - 1 = n + 0
        BY <1>1, <2>1, <2>5
      <4>2. fifo[i] = After(seen, n + 0)
        BY <4>1 DEF OrderInv
      <4>3. QED
        BY <2>4, <4>1, <4>2
    <3>2. arrival = After(seen', Len(buffer') + Len(fifo))
      <4>1. Len(fifo) \in 0..1 /\ Len(buffer') + Len(fifo) = Len(fifo)
        <5>1. Len(fifo) \in 0..1 /\ 0 + Len(fifo) = Len(fifo)
          <6>1. Len(fifo) \in Nat
            BY <1>1
          <6>2. Len(fifo) <= 1
            BY <2>1
          <6>3. \A k \in Nat : k <= 1 => k \in 0..1 /\ 0 + k = k
            OBVIOUS
          <6>4. QED
            BY <6>1, <6>2, <6>3
        <5>2. QED
          BY <2>5, <5>1
      <4>2. arrival = After(seen, n + Len(fifo))
        BY <2>1 DEF OrderInv
      <4>3. QED
        BY <2>4, <4>1, <4>2
    <3>3. QED
      BY <2>5, <3>1, <3>2 DEF OrderInv
  <2>7. InterruptInv' /\ ~stray' /\ left' # "late"
    BY <1>6 DEF Return, InterruptInv
  <2>8. ProgressInv'
    BY <1>6, <2>1 DEF Return, ProgressInv
  <2>9. QED
    BY <2>6, <2>7, <2>8
<1>7. CASE Leave
  <2>1. fifo = <<>> /\ Len(fifo) = 0 /\ hpc = "off" /\ pc = "wait" /\ ~ready /\ n = 1
    BY <1>7, EmptyType DEF Leave
  <2>2. Len(buffer) = 0
    <3>1. remain > 0 /\ Len(buffer) + remain = 1 /\ remain \in -1..MaxRead
      BY <2>1 DEF ProgressInv, SafeInv, TypeOK
    <3>2. QED
      BY <1>1, <3>1, SerialAssumption
  <2>3. left' = "yes" /\ Len(buffer') = 0 /\ buffer' = <<>> /\ pc' = "idle"
    BY <1>7, <2>1, EmptyType DEF Leave, SafeInv, CountInv, Calm, TypeOK
  <2>4. InterruptInv' /\ ~stray'
    BY <1>7, <2>1, <2>3 DEF Leave, InterruptInv
  <2>5. ProgressInv' /\ OrderInv'
    BY <1>7, <2>1, <2>2, <2>3 DEF Leave, ProgressInv, OrderInv
  <2>6. QED
    BY <2>3, <2>4, <2>5
<1>8. QED
  BY <1>0, <1>2, <1>3, <1>4, <1>5, <1>6, <1>7 DEF ThreadNext

\* A character goes from the FIFO to the end of the buffer.
LEMMA IntrCharCalm == ASSUME SafeInv, Calm, IntrChar PROVE Calm'
<1> USE DEF Calm
<1>1. /\ fifo \in Seq(Chars) /\ buffer \in Seq(Chars) /\ fifo # <<>>
      /\ Len(fifo) \in Nat /\ Len(buffer) \in Nat /\ n \in Nat
      /\ remain \in -1..MaxRead
  BY SerialAssumption DEF SafeInv, TypeOK, IntrChar
<1>2. hpc = "poll" /\ pc = "wait" /\ ~ready /\ ~pending /\ ier
  BY <1>1 DEF IntrChar, InterruptInv
<1>3. /\ current /\ Len(buffer) + remain = n /\ Len(fifo) <= remain /\ remain > 0
  BY <1>2 DEF ProgressInv
<1>4. /\ buffer' = Append(buffer, Head(fifo)) /\ stray' = stray
      /\ remain' = remain - 1
      /\ hpc' = IF remain' = 0 THEN "signal" ELSE "poll"
      /\ fifo' = Tail(fifo) /\ ier' = ier
      /\ UNCHANGED <<arrival, pc, n, ready, current, seen, left>>
  <2>1. current /\ Len(buffer) < n /\ remain > -1
    BY <1>1, <1>3, SerialAssumption
  <2>2. QED
    BY <2>1 DEF IntrChar, Store, SetPort, Complete
<1>5. ~pending'
  BY <1>1, <1>2 DEF IntrChar, SetPort, Line
<1>6. /\ Head(fifo) \in Chars /\ Head(fifo) = fifo[1]
      /\ fifo' \in Seq(Chars) /\ Len(fifo') = Len(fifo) - 1
      /\ \A i \in 1..Len(fifo') : fifo'[i] = fifo[i + 1]
  BY <1>1, <1>4, HeadTailProperties
<1>7. /\ Len(buffer') = Len(buffer) + 1
      /\ \A i \in 1..Len(buffer) : buffer'[i] = buffer[i]
      /\ buffer'[Len(buffer) + 1] = Head(fifo)
  BY <1>1, <1>4, <1>6, AppendProperties
<1>8. remain' = 0 => fifo' = <<>>
  BY <1>1, <1>3, <1>4, <1>6, EmptySeq
<1>9. InterruptInv'
  BY <1>2, <1>4, <1>5, <1>8 DEF InterruptInv
<1>10. ProgressInv'
  <2>1. Len(buffer') + remain' = n /\ Len(fifo') <= remain'
    BY <1>1, <1>3, <1>4, <1>6, <1>7, SerialAssumption
  <2>2. remain' # 0 => remain' > 0
    BY <1>1, <1>3, <1>4
  <2>3. QED
    BY <1>2, <1>3, <1>4, <2>1, <2>2 DEF ProgressInv
<1>11. OrderInv'
  <2>1. Len(fifo) > 0
    BY <1>1, EmptySeq
  <2>2. ASSUME NEW i \in 1..Len(buffer') PROVE buffer'[i] = After(seen, i - 1)
    <3>1. CASE i \in 1..Len(buffer)
      BY <1>7, <3>1 DEF OrderInv
    <3>2. CASE i = Len(buffer) + 1
      <4>1. 1 \in 1..Len(fifo) /\ Len(buffer) + 1 - 1 = i - 1
        BY <1>1, <2>1, <3>2
      <4>2. QED
        BY <1>6, <1>7, <3>2, <4>1 DEF OrderInv
    <3>3. QED
      BY <1>1, <1>7, <3>1, <3>2
  <2>3. ASSUME NEW i \in 1..Len(fifo')
        PROVE  fifo'[i] = After(seen, Len(buffer') + i - 1)
    <3>1. i + 1 \in 1..Len(fifo) /\ Len(buffer) + (i + 1) - 1 = Len(buffer') + i - 1
      BY <1>1, <1>6, <1>7
    <3>2. QED
      BY <1>6, <3>1 DEF OrderInv
  <2>4. Len(buffer') + Len(fifo') = Len(buffer) + Len(fifo)
    BY <1>1, <1>6, <1>7
  <2>5. QED
    BY <1>4, <2>2, <2>3, <2>4 DEF OrderInv
<1>12. QED
  BY <1>4, <1>9, <1>10, <1>11

\* The rest of the handler.
LEMMA HandlerCalm ==
  ASSUME SafeInv, Calm, IntrEnter \/ Signal \/ Disable \/ IntrExit
  PROVE  Calm'
<1> USE DEF Calm, port, request
<1>1. CASE IntrEnter
  BY <1>1 DEF IntrEnter, InterruptInv, ProgressInv, OrderInv, SafeInv, CountInv
<1>2. CASE Signal
  <2>1. /\ left = "no" /\ left' = "no" /\ remain = 0
        /\ Len(fifo) = 0 /\ Len(buffer) \in Nat /\ n \in Nat
    BY <1>2, EmptyType, SerialAssumption
       DEF Signal, SafeInv, TypeOK, CountInv, InterruptInv
  <2>2. pc = "wait" /\ ~ready /\ ready' /\ Len(buffer) = n
    <3>1. pc = "wait" /\ ~ready
      BY <1>2 DEF Signal, InterruptInv
    <3>2. Len(buffer) = n
      BY <2>1, <3>1 DEF ProgressInv
    <3>3. ready' = TRUE
      <4>1. pc # "idle" /\ pc \notin {"event", "bit"}
        BY <3>1
      <4>2. ready' \in {TRUE}
        BY <1>2, <4>1, Zenon DEF Signal
      <4>3. QED
        BY <4>2
    <3>4. QED
      BY <3>1, <3>2, <3>3
  <2>3. InterruptInv'
    BY <1>2, <2>1, <2>2 DEF Signal, InterruptInv
  <2>4. ProgressInv' /\ OrderInv'
    BY <1>2, <2>1, <2>2 DEF Signal, ProgressInv, OrderInv
  <2>5. QED
    BY <1>2, <2>1, <2>3, <2>4 DEF Signal
<1>3. CASE Disable
  <2>1. left = "no" /\ left' = "no"
    BY <1>3 DEF Disable, SafeInv, TypeOK, CountInv
  <2>2. InterruptInv'
    BY <1>3, <2>1 DEF Disable, SetPort, Line, InterruptInv
  <2>3. QED
    BY <1>3, <2>1, <2>2 DEF Disable, SetPort, ProgressInv, OrderInv
<1>4. CASE IntrExit
  BY <1>4 DEF IntrExit, InterruptInv, ProgressInv, OrderInv
<1>5. QED
  BY <1>1, <1>2, <1>3, <1>4

LEMMA NextCalm ==
  ASSUME SafeInv, ~hurried => Calm, [Next]_vars, ~hurried'
  PROVE  Calm'
<1>1. ~hurried
  BY DEF Next, Arrive, ThreadNext, HandlerNext, Read, SetEvent, SetBit,
         SetRemain, SetPointer, Enable, Return, Leave, IntrEnter, IntrChar,
         Signal, Disable, IntrExit, vars
<1>2. CASE UNCHANGED vars
  BY <1>1, <1>2 DEF Calm, InterruptInv, ProgressInv, OrderInv, vars, port,
                    request, handler
<1>3. QED
  BY <1>1, <1>2, ArriveCalm, ThreadCalm, IntrCharCalm, HandlerCalm
     DEF Next, HandlerNext

THEOREM IInvariance == Spec => []IInv
<1>1. Init => IInv
  BY InitSafe, InitCalm DEF SafeInv, IInv, CalmInv, Calm
<1>2. IInv /\ [Next]_vars => IInv'
  BY NextSafe, NextCalm DEF SafeInv, IInv, CalmInv, Calm
<1>3. QED
  BY <1>1, <1>2, PTL DEF Spec

-----------------------------------------------------------------------------

\* The variables of the port and of the driver always hold values of their
\* types: the FIFO and the buffer never grow beyond their sizes.
THEOREM TypeCorrect == Spec => []TypeOK
<1>1. IInv => TypeOK
  BY DEF IInv
<1>2. QED
  BY <1>1, IInvariance, PTL

\* cns16550_intr stores only inside the buffer of the read in progress, as
\* long as no character comes sooner than it is asked for.
THEOREM StoresInside == Spec => []NoStray
<1>1. IInv => NoStray
  BY DEF IInv, CalmInv, NoStray
<1>2. QED
  BY <1>1, IInvariance, PTL

\* Under the same condition a read returns the characters that follow those of
\* the read before it.
THEOREM ReadsFollow == Spec => []BufferIsNext
<1>1. IInv => BufferIsNext
  <2> SUFFICES ASSUME IInv, pc = "wait", ready, ~hurried
               PROVE  /\ Len(buffer) = n
                      /\ \A i \in 1..n : buffer[i] = After(seen, i - 1)
    BY DEF BufferIsNext
  <2>1. ProgressInv /\ OrderInv
    BY DEF IInv, CalmInv
  <2>2. Len(buffer) = n
    BY <2>1 DEF ProgressInv
  <2>3. QED
    BY <2>1, <2>2 DEF OrderInv
<1>2. QED
  BY <1>1, IInvariance, PTL

\* An event is set only in a read that has not completed, whatever characters
\* arrive, unless one has come for a read that was left.
THEOREM SignalsOnlyReads == Spec => SignalsInProgress
<1>1. IInv => left \in {"no", "yes", "late"} /\ CountInv
  BY DEF IInv, TypeOK
<1>2. IInv /\ [Next]_vars
        => [ready' /\ ~ready /\ left # "late"
              => pc \in {"pointer", "enable", "wait"}]_vars
  BY <1>1 DEF CountInv, Next, Arrive, ThreadNext, HandlerNext, Read, SetEvent, SetBit,
         SetRemain, SetPointer, Enable, Return, Leave, IntrEnter, IntrChar,
         Signal, Disable, IntrExit, vars, port, request, handler
<1>3. QED
  BY <1>2, IInvariance, PTL DEF Spec, SignalsInProgress

=============================================================================
