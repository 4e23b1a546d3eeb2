------------------------------- MODULE R8169 --------------------------------
(***************************************************************************)
(* kernel/net/r8169.c: the gigabit Ethernet driver.  Two rings of          *)
(* descriptors are shared by three parties: the thread that enqueues       *)
(* buffers (r8169_tx_packet, r8169_rx_packet), the network controller,     *)
(* which works on the descriptors whose OWN bit is set, and the interrupt  *)
(* handler r8169_irq, which reports the descriptors the controller has     *)
(* given back.  Thread and handler run on processor 0, to which irq.c      *)
(* routes every PCI interrupt; the handler runs with interrupts disabled.  *)
(* The controller works at any moment.                                     *)
(*                                                                         *)
(* A request q stands for a buffer together with the event word and bits   *)
(* given for it: buf holds the q whose buffer address is in a descriptor,  *)
(* ev the q whose event pointer, event bits and flags pointer are in the   *)
(* driver's arrays.  The controller itself is external, modelled from how  *)
(* the driver uses it.                                                     *)
(***************************************************************************)
EXTENDS Naturals

CONSTANTS
  NumBuffer,        \* R8169_NUM_BUFFER
  Requests,
  None,             \* a null pointer
  Uses,             \* the rings and the requests the clients use them for
  Misc              \* the errors (0x804a) and link changes that can happen

Rings == {"rx", "tx"}

ASSUME RingAssumption ==
  /\ NumBuffer \in Nat /\ NumBuffer > 1
  /\ None \notin Requests
  /\ Uses \subseteq Rings \X Requests
  /\ Misc \subseteq {"err", "link"}

VARIABLES
  owned, eor, buf,  \* per ring and slot: OWN and EOR bits, buffer address
  ev,               \* per ring and slot: event pointer and bits
  pos, ownPos,      \* rx_pos, tx_pos and rx_own_pos, tx_own_pos
  lock,             \* rx_lock, tx_lock
  nic,              \* the controller's current slot of each ring
  status,           \* InterruptStatus
  polling,          \* the controller is looking at the transmit ring
  pc, call,         \* the thread, and the arguments of its current call
  enabled,          \* the interrupt flag of processor 0
  hpc, hring, bits, \* the handler, the ring it works on, its local bits
  own, hpos,        \* its locals own and pos
  out,              \* requests accepted and not yet consumed
  done,             \* requests whose event bits are set
  filled            \* requests whose buffer the controller has finished with

desc   == <<owned, eor, buf>>
device == <<nic, polling>>
thread == <<pc, call>>
irq    == <<hpc, hring, bits, own, hpos>>
vars   == <<desc, ev, pos, ownPos, lock, device, status, thread, enabled, irq,
            out, done, filled>>

Slots == 0..(NumBuffer - 1)

\* Mutant: the position is not wrapped.
SuccUnwrapped(i) == i + 1

\* pos++, and back to 0 at R8169_NUM_BUFFER; (own+1) & R8169_DESC_POS_MASK.
Succ(i) == IF i + 1 = NumBuffer THEN 0 ELSE i + 1

\* InterruptMask 0xffef enables everything but RDU.
Unmasked == Rings \cup Misc

NoCall == [ring |-> "rx", req |-> None]

ThreadPCs == {"idle", "check", "fill", "cli", "acquire", "own", "pos",
              "unlock", "kick"}
HandlerPCs == {"off", "misc", "ack", "lock", "scan", "store", "exit"}

TypeOK ==
  /\ owned \in [Rings -> [Slots -> BOOLEAN]]
  /\ eor \in [Rings -> [Slots -> BOOLEAN]]
  /\ buf \in [Rings -> [Slots -> Requests \cup {None}]]
  /\ ev \in [Rings -> [Slots -> Requests \cup {None}]]
  /\ pos \in [Rings -> Slots]
  /\ ownPos \in [Rings -> Slots]
  /\ lock \in [Rings -> BOOLEAN]
  /\ nic \in [Rings -> Slots]
  /\ status \subseteq Unmasked \cup {"rdu"}
  /\ polling \in BOOLEAN
  /\ pc \in ThreadPCs
  /\ call \in [ring : Rings, req : Requests \cup {None}]
  /\ (pc # "idle") => (call.req \in Requests)
  /\ enabled \in BOOLEAN
  /\ hpc \in HandlerPCs
  /\ hring \in Rings
  /\ bits \subseteq Unmasked \cup {"rdu"}
  /\ own \in Slots
  /\ hpos \in Slots
  /\ out \subseteq Requests
  /\ done \subseteq Requests
  /\ filled \subseteq Requests

\* The state r8169_init leaves behind.
Init ==
  /\ owned = [r \in Rings |-> [i \in Slots |-> FALSE]]
  /\ eor = [r \in Rings |-> [i \in Slots |-> i = NumBuffer - 1]]
  /\ buf = [r \in Rings |-> [i \in Slots |-> None]]
  /\ ev = [r \in Rings |-> [i \in Slots |-> None]]
  /\ pos = [r \in Rings |-> 0]
  /\ ownPos = [r \in Rings |-> 0]
  /\ lock = [r \in Rings |-> FALSE]
  /\ nic = [r \in Rings |-> 0]
  /\ status = {}
  /\ polling = FALSE
  /\ pc = "idle"
  /\ call = NoCall
  /\ enabled = TRUE
  /\ hpc = "off"
  /\ hring = "tx"
  /\ bits = {}
  /\ own = 0
  /\ hpos = 0
  /\ out = {}
  /\ done = {}
  /\ filled = {}

-----------------------------------------------------------------------------
(* The thread: r8169_rx_packet and r8169_tx_packet.  It advances only      *)
(* while the handler is not running.                                       *)

Step(from, to) ==
  /\ hpc = "off"
  /\ pc = from
  /\ pc' = to

Call(r, q) ==
  /\ Step("idle", "check")
  /\ <<r, q>> \in Uses
  /\ q \notin out
  /\ call' = [ring |-> r, req |-> q]
  /\ UNCHANGED <<desc, ev, pos, ownPos, lock, device, status, enabled, irq,
                 out, done, filled>>

\* Mutant: the receive ring uses the test of the transmit ring.
FullByOwn(r) == owned[r][pos[r]]

\* The receive ring keeps one slot empty; the transmit ring looks at the OWN
\* bit of the slot it is about to use.
Full(r) == IF r = "rx" THEN Succ(pos[r]) = ownPos[r] ELSE owned[r][pos[r]]

\* R8169_DESC_FULL, or go on.
Check ==
  /\ Step("check", IF Full(call.ring) THEN "idle" ELSE "fill")
  /\ out' = IF Full(call.ring) THEN out ELSE out \cup {call.req}
  /\ UNCHANGED <<desc, ev, pos, ownPos, lock, device, status, call, enabled,
                 irq, done, filled>>

\* Mutant: the buffer address goes to the descriptor after the position was
\* advanced.
FillAhead ==
  /\ Step("fill", "cli")
  /\ buf' = [buf EXCEPT ![call.ring][Succ(pos[call.ring])] = call.req]
  /\ ev' = [ev EXCEPT ![call.ring][pos[call.ring]] = call.req]
  /\ UNCHANGED <<owned, eor, pos, ownPos, lock, device, status, call, enabled,
                 irq, out, done, filled>>

\* d[2], then ep[], eb[] and flags_ret[].
Fill ==
  /\ Step("fill", "cli")
  /\ buf' = [buf EXCEPT ![call.ring][pos[call.ring]] = call.req]
  /\ ev' = [ev EXCEPT ![call.ring][pos[call.ring]] = call.req]
  /\ UNCHANGED <<owned, eor, pos, ownPos, lock, device, status, call, enabled,
                 irq, out, done, filled>>

\* Mutant: a plain spinlock, without cli.
KeepInt ==
  /\ Step("cli", "acquire")
  /\ UNCHANGED <<desc, ev, pos, ownPos, lock, device, status, call, enabled,
                 irq, out, done, filled>>

\* spinlock_and_disable_int_local.
DisableInt ==
  /\ Step("cli", "acquire")
  /\ enabled' = FALSE
  /\ UNCHANGED <<desc, ev, pos, ownPos, lock, device, status, call, irq, out,
                 done, filled>>

Acquire ==
  /\ Step("acquire", "own")
  /\ ~lock[call.ring]
  /\ lock' = [lock EXCEPT ![call.ring] = TRUE]
  /\ UNCHANGED <<desc, ev, pos, ownPos, device, status, call, enabled, irq,
                 out, done, filled>>

\* d[0] = desc0: from here on the slot is the controller's.
SetOwn ==
  /\ Step("own", "pos")
  /\ owned' = [owned EXCEPT ![call.ring][pos[call.ring]] = TRUE]
  /\ eor' = [eor EXCEPT ![call.ring][pos[call.ring]] =
                 pos[call.ring] + 1 = NumBuffer]
  /\ UNCHANGED <<buf, ev, pos, ownPos, lock, device, status, call, enabled,
                 irq, out, done, filled>>

SetPos ==
  /\ Step("pos", "unlock")
  /\ pos' = [pos EXCEPT ![call.ring] = Succ(@)]
  /\ UNCHANGED <<desc, ev, ownPos, lock, device, status, call, enabled, irq,
                 out, done, filled>>

\* The lock a call on ring r releases: both functions name rx_lock.
Released(r) == "rx"

\* spinunlock_and_restore_int_local.
Unlock ==
  /\ Step("unlock", "kick")
  /\ lock' = [lock EXCEPT ![Released(call.ring)] = FALSE]
  /\ enabled' = TRUE
  /\ UNCHANGED <<desc, ev, pos, ownPos, device, status, call, irq, out, done,
                 filled>>

\* Clear RDU, or write TPPoll.
Kick ==
  /\ Step("kick", "idle")
  /\ status' = IF call.ring = "rx" THEN status \ {"rdu"} ELSE status
  /\ polling' = (polling \/ call.ring = "tx")
  /\ call' = NoCall
  /\ UNCHANGED <<desc, ev, pos, ownPos, lock, nic, enabled, irq, out, done,
                 filled>>

\* The client has waited for the event of q; its event word goes away.
Consume(q) ==
  /\ Step("idle", "idle")
  /\ q \in done
  /\ done' = done \ {q}
  /\ out' = out \ {q}
  /\ filled' = filled \ {q}
  /\ UNCHANGED <<desc, ev, pos, ownPos, lock, device, status, call, enabled,
                 irq>>

-----------------------------------------------------------------------------
(* The interrupt handler r8169_irq.  A local that is not read any more is   *)
(* forgotten at once.                                                      *)

Handler(from, to) ==
  /\ hpc = from
  /\ hpc' = to

\* The level-triggered interrupt is taken, and InterruptStatus is read.
IrqEnter ==
  /\ Handler("off", "misc")
  /\ enabled
  /\ status \cap Unmasked # {}
  /\ enabled' = FALSE
  /\ bits' = status
  /\ UNCHANGED <<desc, ev, pos, ownPos, lock, device, status, thread, hring,
                 own, hpos, out, done, filled>>

\* Errors and link changes are only acknowledged.
IrqMisc ==
  /\ Handler("misc", "ack")
  /\ status' = status \ (bits \cap Misc)
  /\ hring' = "tx"
  /\ bits' = bits \cap Rings
  /\ UNCHANGED <<desc, ev, pos, ownPos, lock, device, thread, enabled, own,
                 hpos, out, done, filled>>

\* The transmit ring comes first, then the receive ring.
Leave == hpc' = (IF hring = "tx" THEN "ack" ELSE "exit") /\ hring' = "rx"

\* Read own_pos and acknowledge, or skip the ring.
IrqAck ==
  /\ hpc = "ack"
  /\ own' = IF hring \in bits THEN ownPos[hring] ELSE own
  /\ status' = IF hring \in bits THEN status \ {hring} ELSE status
  /\ bits' = bits \ {hring}
  /\ IF hring \in bits THEN hpc' = "lock" /\ UNCHANGED hring ELSE Leave
  /\ UNCHANGED <<desc, ev, pos, ownPos, lock, device, thread, enabled, hpos,
                 out, done, filled>>

\* spinlock, then read pos.
IrqLock ==
  /\ Handler("lock", "scan")
  /\ ~lock[hring]
  /\ lock' = [lock EXCEPT ![hring] = TRUE]
  /\ hpos' = pos[hring]
  /\ UNCHANGED <<desc, ev, pos, ownPos, device, status, thread, enabled,
                 hring, bits, own, out, done, filled>>

\* Mutant: the OWN bit is not tested.
ReportableEarly == own # hpos

Reportable == own # hpos /\ ~owned[hring][own]

\* One iteration of the while loop: *ep[own] |= eb[own].
IrqReport ==
  /\ Handler("scan", "scan")
  /\ Reportable
  /\ done' = done \cup {ev[hring][own]}
  /\ own' = Succ(own)
  /\ UNCHANGED <<desc, ev, pos, ownPos, lock, device, status, thread, enabled,
                 hring, bits, hpos, out, filled>>

IrqScanned ==
  /\ Handler("scan", "store")
  /\ ~Reportable
  /\ UNCHANGED <<desc, ev, pos, ownPos, lock, device, status, thread, enabled,
                 hring, bits, own, hpos, out, done, filled>>

\* Mutant: the interrupt is acknowledged after the scan.
IrqStoreAck ==
  /\ hpc = "store"
  /\ lock' = [lock EXCEPT ![hring] = FALSE]
  /\ ownPos' = [ownPos EXCEPT ![hring] = own]
  /\ status' = status \ {hring}
  /\ own' = 0
  /\ hpos' = 0
  /\ Leave
  /\ UNCHANGED <<desc, ev, pos, device, thread, enabled, bits, out, done,
                 filled>>

\* spinunlock, then the new own_pos.
IrqStore ==
  /\ hpc = "store"
  /\ lock' = [lock EXCEPT ![hring] = FALSE]
  /\ ownPos' = [ownPos EXCEPT ![hring] = own]
  /\ own' = 0
  /\ hpos' = 0
  /\ Leave
  /\ UNCHANGED <<desc, ev, pos, device, status, thread, enabled, bits, out,
                 done, filled>>

\* End of interrupt and iret.
IrqExit ==
  /\ Handler("exit", "off")
  /\ enabled' = TRUE
  /\ UNCHANGED <<desc, ev, pos, ownPos, lock, device, status, thread, hring,
                 bits, own, hpos, out, done, filled>>

-----------------------------------------------------------------------------
(* The controller.                                                         *)

\* A packet is sent or received through the current descriptor, which goes
\* back to the driver; EOR sends the controller back to slot 0.
NicComplete(r) ==
  /\ owned[r][nic[r]]
  /\ r = "tx" => polling
  /\ owned' = [owned EXCEPT ![r][nic[r]] = FALSE]
  /\ filled' = filled \cup {buf[r][nic[r]]}
  /\ nic' = [nic EXCEPT ![r] = IF eor[r][@] THEN 0 ELSE @ + 1]
  /\ status' = status \cup {r}
  /\ UNCHANGED <<eor, buf, ev, pos, ownPos, lock, polling, thread, enabled,
                 irq, out, done>>

\* Nothing to send: the controller waits for the next TPPoll.
NicTxIdle ==
  /\ polling
  /\ ~owned["tx"][nic["tx"]]
  /\ polling' = FALSE
  /\ UNCHANGED <<desc, ev, pos, ownPos, lock, nic, status, thread, enabled,
                 irq, out, done, filled>>

\* A packet arrives and there is no descriptor for it.
NicRxUnavailable ==
  /\ ~owned["rx"][nic["rx"]]
  /\ "rdu" \notin status
  /\ status' = status \cup {"rdu"}
  /\ UNCHANGED <<desc, ev, pos, ownPos, lock, device, thread, enabled, irq,
                 out, done, filled>>

\* A transmission error, an overflow or a change of the link.
NicMisc(e) ==
  /\ e \notin status
  /\ status' = status \cup {e}
  /\ UNCHANGED <<desc, ev, pos, ownPos, lock, device, thread, enabled, irq,
                 out, done, filled>>

-----------------------------------------------------------------------------

ThreadNext == Check \/ Fill \/ DisableInt \/ Acquire \/ SetOwn \/ SetPos
              \/ Unlock \/ Kick

HandlerNext == IrqMisc \/ IrqAck \/ IrqLock \/ IrqReport \/ IrqScanned
               \/ IrqStore \/ IrqExit

NicNext ==
  \/ \E r \in Rings : NicComplete(r)
  \/ NicTxIdle
  \/ NicRxUnavailable
  \/ \E e \in Misc : NicMisc(e)

Next ==
  \/ \E r \in Rings, q \in Requests : Call(r, q)
  \/ \E q \in Requests : Consume(q)
  \/ ThreadNext
  \/ IrqEnter
  \/ HandlerNext
  \/ NicNext

(***************************************************************************)
(* Thread and handler go on executing.  A pending interrupt is taken       *)
(* although the thread disables interrupts again and again: the processor  *)
(* takes it as soon as they are enabled.  The controller works on the      *)
(* descriptors it owns, and packets keep arriving.                         *)
(***************************************************************************)
Fairness ==
  /\ WF_vars(ThreadNext)
  /\ WF_vars(HandlerNext)
  /\ SF_vars(IrqEnter)
  /\ \A r \in Rings : WF_vars(NicComplete(r))

Spec == Init /\ [][Next]_vars
FairSpec == Spec /\ Fairness

-----------------------------------------------------------------------------
(* Properties.                                                             *)

\* The event of a request is set only after the controller has finished with
\* the buffer of that very request, and only while the request is
\* outstanding: a stale event pointer is never written through.
DoneIsFinished == done \subseteq filled \cap out

\* The controller is never given, and never keeps, a descriptor of a buffer
\* it has already returned, nor two descriptors of one buffer.
OwnedIsOutstanding ==
  \A r \in Rings, i \in Slots : owned[r][i] =>
    /\ buf[r][i] \in out \ filled
    /\ \A s \in Rings, j \in Slots :
         owned[s][j] /\ buf[s][j] = buf[r][i] => s = r /\ j = i

\* The handler never finds rx_lock taken: on the processor it interrupts, the
\* lock is only ever held with interrupts disabled.
RxHandlerRuns == hpc = "lock" /\ hring = "rx" => ~lock["rx"]

\* tx_lock is held only inside one of the two critical sections it protects.
TxLockReleased ==
  lock["tx"] => \/ pc \in {"own", "pos", "unlock"} /\ call.ring = "tx"
                \/ hpc \in {"scan", "store"} /\ hring = "tx"


\* The receive ring is a queue of at most NumBuffer - 1 requests, reported
\* once each and in order.
Distance(i, j) == IF i <= j THEN j - i ELSE j + NumBuffer - i
RxHead == IF hring = "rx" /\ hpc \in {"lock", "scan", "store"}
          THEN own ELSE ownPos["rx"]
RxTail == IF pc = "pos" /\ call.ring = "rx"
          THEN Succ(pos["rx"]) ELSE pos["rx"]
RxQueue == [k \in 1..Distance(RxHead, RxTail) |->
              ev["rx"][(RxHead + k - 1) % NumBuffer]]
Queue == INSTANCE RequestQueue WITH
           queue <- RxQueue,
           served <- Distance(RxHead, nic["rx"]),
           Capacity <- NumBuffer - 1
ImplementsQueue == Queue!Spec

\* Nobody gets on any more: the processor spins for tx_lock, which its last
\* owner has not released, with interrupts disabled.
Stuck ==
  /\ lock["tx"]
  /\ \/ hpc = "lock" /\ hring = "tx"
     \/ pc = "acquire" /\ call.ring = "tx" /\ hpc = "off"

\* A receive buffer the driver accepts is reported, as packets arrive: no
\* completion is lost between the acknowledge, the scan of the ring and the
\* next interrupt.  Only tx_lock can prevent it.
Reported(q) == Queue!InQueue(q) ~> (q \in done \/ Stuck)

=============================================================================
