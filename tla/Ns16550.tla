------------------------------ MODULE Ns16550 -------------------------------
(***************************************************************************)
(* kernel/ns16550.c: asynchronous input from the serial port.  A caller    *)
(* gives ns16550_read a buffer of n characters and an event word; the      *)
(* interrupt handler empties the FIFO of the port into the buffer and, at  *)
(* the n-th character, sets the event and disables the interrupt of the    *)
(* port.  Both run on processor 0, the handler with interrupts disabled.   *)
(*                                                                         *)
(* do_tcpip_rs (main.c) leaves its last read under way when a packet has   *)
(* come: the port stays enabled, the event word is in a frame that is      *)
(* gone, and the next ns16550_read replaces the request store by store.    *)
(*                                                                         *)
(* The port and the edge-triggered interrupt are external.  Characters are *)
(* numbered in order of arrival, modulo Codes.                             *)
(***************************************************************************)
EXTENDS Integers, Sequences

CONSTANTS
  Codes,            \* distinct character numbers
  Depth,            \* depth of the receive FIFO (16)
  MaxRead,          \* largest n of a read (2 in main.c); it fits in the FIFO
  MaxBurst          \* bound of the characters that arrive in one handler run

ASSUME SerialAssumption ==
  /\ Codes \in Nat /\ Depth \in Nat /\ MaxRead \in Nat
  /\ MaxRead > 0 /\ Depth >= MaxRead /\ Codes > Depth + MaxRead
  /\ MaxBurst \in Nat

VARIABLES
  fifo, arrival,    \* characters received and not read; number of the next
  ier,              \* IER: the receive interrupts are enabled
  pending,          \* an edge of the interrupt line is latched
  pc, n,            \* the thread and the argument of its read
  ready,            \* the bit of its event word
  remain,           \* request_set.read_remain, -1 standing for all negatives
  current,          \* request_set.read_ptr points into the caller's buffer
  buffer,           \* what has been stored in that buffer
  stray,            \* a character was stored outside it
  hpc, burst,       \* the handler, and the arrivals during its run
  seen,             \* number of the next character the callers expect
  hurried,          \* history: a character came sooner than it was wanted
  left              \* "yes" from the leaving of a read until the next one is
                    \* complete; "late" if a character comes in between

port == <<fifo, arrival, ier, pending>>
handler == <<hpc, burst>>
request == <<ready, remain, current, buffer, stray>>
vars == <<port, pc, n, request, handler, seen, hurried, left>>

Chars == 0..(Codes - 1)
After(c, k) == (c + k) % Codes

TypeOK ==
  /\ fifo \in Seq(Chars) /\ Len(fifo) <= Depth
  /\ arrival \in Chars
  /\ ier \in BOOLEAN
  /\ pending \in BOOLEAN
  /\ pc \in {"idle", "event", "bit", "remain", "pointer", "enable", "wait"}
  /\ n \in 0..MaxRead
  /\ ready \in BOOLEAN
  /\ remain \in -1..MaxRead
  /\ current \in BOOLEAN
  /\ buffer \in Seq(Chars) /\ Len(buffer) <= MaxRead
  /\ stray \in BOOLEAN
  /\ hpc \in {"off", "poll", "signal", "disable"}
  /\ burst \in 0..MaxBurst
  /\ seen \in Chars
  /\ hurried \in BOOLEAN
  /\ left \in {"no", "yes", "late"}

\* After ns16550_init and ns16550_init_intr.
Init ==
  /\ fifo = <<>>
  /\ arrival = 0
  /\ ier = FALSE
  /\ pending = FALSE
  /\ pc = "idle"
  /\ n = 0
  /\ ready = FALSE
  /\ remain = 0
  /\ current = FALSE
  /\ buffer = <<>>
  /\ stray = FALSE
  /\ hpc = "off"
  /\ burst = 0
  /\ seen = 0
  /\ hurried = FALSE
  /\ left = "no"

-----------------------------------------------------------------------------
(* The port.                                                               *)

\* A new state of the port; an edge is latched when its line goes up.
Line(e, f) == e /\ f # <<>>
SetPort(e, f) ==
  /\ ier' = e
  /\ fifo' = f
  /\ pending' = (pending \/ (Line(e, f) /\ ~Line(ier, fifo)))

\* How many characters may wait in the FIFO for the read in progress, or for
\* the next one; none as long as a read that was left would get them.
Demand ==
  IF left = "yes" THEN 0 ELSE IF pc = "wait" /\ ~ready THEN remain ELSE 1

\* A character arrives, and is lost if the FIFO is full.
Arrive ==
  /\ hpc # "off" => burst < MaxBurst
  /\ hurried' = (hurried \/ hpc # "off" \/ Len(fifo) >= Demand)
  /\ left' = IF left = "yes" THEN "late" ELSE left
  /\ burst' = IF hpc = "off" THEN 0 ELSE burst + 1
  /\ arrival' = After(arrival, 1)
  /\ IF Len(fifo) < Depth THEN SetPort(ier, Append(fifo, arrival))
                          ELSE UNCHANGED <<ier, fifo, pending>>
  /\ UNCHANGED <<pc, n, request, hpc, seen>>

-----------------------------------------------------------------------------
(* The thread: ns16550_read and the wait of its caller.                    *)

Step(from, to) == hpc = "off" /\ pc = from /\ pc' = to

\* The caller clears its event word and calls ns16550_read.
Read(k) ==
  /\ Step("idle", "event")
  /\ n' = k
  /\ ready' = FALSE
  /\ buffer' = <<>>
  /\ current' = FALSE
  /\ UNCHANGED <<port, remain, stray, handler, seen, hurried, left>>

\* ready_ptr, then ready_bit.
SetEvent ==
  /\ Step("event", "bit")
  /\ UNCHANGED <<port, n, request, handler, seen, hurried, left>>

SetBit ==
  /\ Step("bit", "remain")
  /\ UNCHANGED <<port, n, request, handler, seen, hurried, left>>

\* Mutant: one character too many is asked for.
SetRemainPlusOne ==
  /\ Step("remain", "pointer")
  /\ remain' = n + 1
  /\ UNCHANGED <<port, n, ready, current, buffer, stray, handler, seen, hurried, left>>

SetRemain ==
  /\ Step("remain", "pointer")
  /\ remain' = n
  /\ UNCHANGED <<port, n, ready, current, buffer, stray, handler, seen, hurried, left>>

\* Mutant: the pointer is left as the previous read left it.
KeepPointer ==
  /\ Step("pointer", "enable")
  /\ UNCHANGED <<port, n, request, handler, seen, hurried, left>>

SetPointer ==
  /\ Step("pointer", "enable")
  /\ current' = TRUE
  /\ UNCHANGED <<port, n, ready, remain, buffer, stray, handler, seen, hurried, left>>

Enable ==
  /\ Step("enable", "wait")
  /\ SetPort(TRUE, fifo)
  /\ left' = IF left = "yes" THEN "no" ELSE left
  /\ UNCHANGED <<arrival, n, request, handler, seen, hurried>>

\* wait_event_any returns and the caller uses its buffer.
Return ==
  /\ Step("wait", "idle")
  /\ ready
  /\ seen' = IF buffer = <<>> THEN seen ELSE After(buffer[Len(buffer)], 1)
  /\ current' = FALSE
  /\ buffer' = <<>>
  /\ n' = 0
  /\ UNCHANGED <<port, ready, remain, stray, handler, hurried, left>>

\* do_tcpip_rs returns with a packet, and its read of one character goes on.
Leave ==
  /\ Step("wait", "idle")
  /\ ~ready
  /\ n = 1
  /\ hurried' = (hurried \/ fifo # <<>>)
  /\ left' = IF left = "no" /\ fifo = <<>> THEN "yes" ELSE "late"
  /\ current' = FALSE
  /\ buffer' = <<>>
  /\ n' = 0
  /\ UNCHANGED <<port, ready, remain, stray, handler, seen>>

-----------------------------------------------------------------------------
(* The handler cns16550_intr.                                              *)

IntrEnter ==
  /\ hpc = "off"
  /\ pending
  /\ pending' = FALSE
  /\ hpc' = "poll"
  /\ UNCHANGED <<fifo, arrival, ier, pc, n, request, burst, seen, hurried, left>>

\* *read_ptr = c; read_ptr++.
Store(c) ==
  IF current /\ Len(buffer) < n
  THEN buffer' = Append(buffer, c) /\ UNCHANGED stray
  ELSE stray' = TRUE /\ UNCHANGED buffer

\* Mutant: the request counts as complete at any count that is not positive.
CompleteLoose(k) == k <= 0

Complete(k) == k = 0

\* One iteration of the loop, up to the test of read_remain.
IntrChar ==
  /\ hpc = "poll"
  /\ fifo # <<>>
  /\ SetPort(ier, Tail(fifo))
  /\ Store(Head(fifo))
  /\ remain' = IF remain > -1 THEN remain - 1 ELSE -1
  /\ hpc' = IF Complete(remain') THEN "signal" ELSE "poll"
  /\ UNCHANGED <<arrival, pc, n, ready, current, burst, seen, hurried, left>>

\* Mutant: the event is not set.
NoSignal ==
  /\ hpc = "signal"
  /\ hpc' = "disable"
  /\ UNCHANGED <<port, pc, n, request, burst, seen, hurried, left>>

\* *ready_ptr |= ready_bit.  Until ns16550_read has stored the two they are
\* those of an earlier call; its event word may have had the address of the
\* present one, and its bit the same number.
Signal ==
  /\ hpc = "signal"
  /\ ready' \in IF pc = "idle" THEN {ready}
               ELSE IF pc \in {"event", "bit"} THEN {ready, TRUE} ELSE {TRUE}
  /\ hpc' = "disable"
  /\ UNCHANGED <<port, pc, n, remain, current, buffer, stray, burst, seen, hurried, left>>

\* The interrupts of the port are disabled; the loop goes on.
Disable ==
  /\ hpc = "disable"
  /\ SetPort(FALSE, fifo)
  /\ hpc' = "poll"
  /\ UNCHANGED <<arrival, pc, n, request, burst, seen, hurried, left>>

\* LSR shows no more data: end of interrupt.
IntrExit ==
  /\ hpc = "poll"
  /\ fifo = <<>>
  /\ hpc' = "off"
  /\ burst' = 0
  /\ UNCHANGED <<port, pc, n, request, seen, hurried, left>>

-----------------------------------------------------------------------------

ThreadNext == SetEvent \/ SetBit \/ SetRemain \/ SetPointer \/ Enable
              \/ Return
HandlerNext == IntrChar \/ Signal \/ Disable \/ IntrExit

Next ==
  \/ Arrive
  \/ \E k \in 1..MaxRead : Read(k)
  \/ ThreadNext
  \/ Leave
  \/ IntrEnter
  \/ HandlerNext

(***************************************************************************)
(* The processor executes the thread, takes interrupts and executes the    *)
(* handler; characters keep arriving.  At 115200 baud a character takes    *)
(* far longer than a turn of the handler's loop or than the few            *)
(* instructions of ns16550_read: the handler reaches its end (MaxBurst),   *)
(* and the thread, which runs only while no handler does, is not starved   *)
(* by interrupts (strong fairness).                                        *)
(***************************************************************************)
Fairness ==
  /\ SF_vars(ThreadNext)
  /\ WF_vars(IntrEnter)
  /\ WF_vars(HandlerNext)
  /\ WF_vars(Arrive)

Spec == Init /\ [][Next]_vars /\ Fairness

-----------------------------------------------------------------------------
(* Properties.                                                             *)

\* The caller that is woken finds in its buffer the n characters that follow
\* the ones the previous read returned, nothing lost and nothing twice, as long
\* as characters arrive no faster than they are asked for.
BufferIsNext ==
  pc = "wait" /\ ready /\ ~hurried =>
    /\ Len(buffer) = n
    /\ \A i \in 1..n : buffer[i] = After(seen, i - 1)

\* Under the same condition the handler stores only inside the buffer of the
\* read in progress.
NoStray == ~hurried => ~stray

\* A read in progress returns, whatever characters arrive and whatever a
\* late interrupt of the previous read does to its request.
ReadEnds == pc # "idle" ~> pc = "idle"

\* An event is set only while its read is in progress: an interrupt that
\* finds the read complete does not signal it again.  A character that comes
\* for a read that was left may set the event of the next one too soon.
SignalsInProgress ==
  [][ready' /\ ~ready /\ left # "late" => pc \in {"pointer", "enable", "wait"}]_vars

-----------------------------------------------------------------------------
(* The inductive invariants.                                               *)

\* The count is positive only in a read whose event is not set or that was
\* left, and the event is set only in such a read, whatever characters arrive;
\* nothing happens to a read that was left before a character comes.
CountInv ==
  /\ pc # "idle" => n > 0
  /\ left = "no" =>
       /\ pc \in {"idle", "event", "bit", "remain"} \/ ready => remain <= 0
       /\ pc \in {"event", "bit", "remain"} => ~ready
       /\ hpc = "signal" => remain = 0 /\ pc \in {"pointer", "enable", "wait"}
  /\ left = "yes" =>
       fifo = <<>> /\ hpc \in {"off", "poll"} /\ ~ready /\ pc # "wait"

\* Interrupts come only to a read that waits or was left, and its last
\* character is the last in the FIFO.
InterruptInv ==
  /\ ier <=> \/ pc = "wait" /\ ~ready
             \/ hpc = "disable"
             \/ left = "yes"
  /\ pending <=> hpc = "off" /\ ier /\ fifo # <<>>
  /\ hpc # "off" => pc = "wait"
  /\ hpc \in {"signal", "disable"} => fifo = <<>>
  /\ hpc = "poll" /\ ready => fifo = <<>>
  /\ hpc = "signal" => ~ready
  /\ hpc = "disable" => ready

\* What is stored and what is still to come make up the read in progress.
ProgressInv ==
  /\ pc \in {"enable", "wait"} => current
  /\ pc # "wait" => buffer = <<>> /\ Len(fifo) <= 1
  /\ pc \notin {"idle", "wait"} => ~ready
  /\ pc \in {"pointer", "enable"} => remain = n
  /\ pc = "wait" /\ ~ready =>
       /\ Len(buffer) + remain = n
       /\ Len(fifo) <= remain
       /\ hpc # "signal" => remain > 0
  /\ pc = "wait" /\ ready => Len(buffer) = n /\ Len(fifo) <= 1

\* The buffer, then the FIFO, then the line carry consecutive characters.
OrderInv ==
  /\ \A i \in 1..Len(buffer) : buffer[i] = After(seen, i - 1)
  /\ \A i \in 1..Len(fifo) : fifo[i] = After(seen, Len(buffer) + i - 1)
  /\ arrival = After(seen, Len(buffer) + Len(fifo))

CalmInv ==
  ~hurried => ~stray /\ left # "late" /\ InterruptInv /\ ProgressInv /\ OrderInv

IInv == TypeOK /\ CountInv /\ CalmInv

=============================================================================
