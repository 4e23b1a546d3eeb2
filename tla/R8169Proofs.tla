---------------------------- MODULE R8169Proofs -----------------------------
(***************************************************************************)
(* Proofs about the Ethernet driver (module R8169) for every ring size,    *)
(* every set of requests and every traffic.  The invariant IInv of module  *)
(* R8169Inv is inductive; most actions leave the rings and both ends of    *)
(* their windows alone (Quiet), and only Check, Fill, SetOwn, SetPos,      *)
(* Consume, IrqReport and NicComplete need an argument about the ring.     *)
(***************************************************************************)
EXTENDS R8169Inv, TLAPS, Sequences, SequenceTheorems

USE DEF Rings, Slots

-----------------------------------------------------------------------------
(* Arithmetic of the ring.                                                 *)

\* The successor of a slot is a slot.
LEMMA SuccType == \A i \in Slots : Succ(i) \in Slots
BY RingAssumption DEF Succ

\* No slot lies in an empty stretch, nor at the end of one.
LEMMA InEnds == \A a, b \in Slots : ~In(b, a, b) /\ (a # b => In(a, a, b))
BY DEF In

\* Moving the end of a stretch that does not fill the ring adds one slot.
LEMMA InGrow ==
  \A i, a, b \in Slots :
    Succ(b) # a => (In(i, a, Succ(b)) <=> In(i, a, b) \/ i = b)
BY RingAssumption DEF In, Succ

\* Moving its beginning takes one slot away.
LEMMA InShrink ==
  \A i, a, b \in Slots :
    a # b => (In(i, Succ(a), b) <=> In(i, a, b) /\ i # a)
BY RingAssumption DEF In, Succ

\* A later beginning gives a smaller stretch.
LEMMA InSub ==
  \A i, a, x, b \in Slots :
    (In(x, a, b) \/ x = b) /\ In(i, x, b) => In(i, a, b)
BY DEF In

-----------------------------------------------------------------------------

\* The ends of the windows are slots.
LEMMA EndsType ==
  TypeOK => \A r \in Rings : HeadOf(r) \in Slots /\ TailOf(r) \in Slots
BY SuccType DEF TypeOK, HeadOf, TailOf

\* A step that leaves the rings and the windows alone.
Quiet ==
  /\ UNCHANGED <<owned, eor, buf, ev, nic, out, done, filled>>
  /\ \A r \in Rings : HeadOf(r)' = HeadOf(r) /\ TailOf(r)' = TailOf(r)

LEMMA QuietStep ==
  ASSUME IInv, Quiet
  PROVE  (PlaceInv /\ OwnInv /\ WindowInv /\ DistinctInv /\ DoneInv)'
<1>1. PlaceInv'
  BY DEF IInv, Quiet, PlaceInv
<1>2. OwnInv'
  BY DEF IInv, Quiet, OwnInv
<1>3. WindowInv'
  BY DEF IInv, Quiet, WindowInv
<1>4. DistinctInv'
  BY DEF IInv, Quiet, DistinctInv
<1>5. DoneInv'
  BY DEF IInv, Quiet, DoneInv
<1>6. QED
  BY <1>1, <1>2, <1>3, <1>4, <1>5

-----------------------------------------------------------------------------
(* The quiet actions.                                                      *)

LEMMA CallStep ==
  ASSUME IInv, NEW r \in Rings, NEW q \in Requests, Call(r, q)
  PROVE  IInv'
<1> USE DEF IInv
<1>1. TypeOK'
  BY DEF TypeOK, Call, Step, desc, device, thread, irq, Unmasked, ThreadPCs, HandlerPCs, NoCall
<1>2. Quiet
  BY DEF Quiet, TypeOK, LockInv, TxInv, HeadOf, TailOf, Call, Step, desc, device, thread, irq
<1>3. FlagInv' /\ LockInv' /\ ScanInv'
  BY DEF FlagInv, LockInv, ScanInv, TxInv, TypeOK, Call, Step, desc, device, thread, irq, Released
<1>4. TxInv'
  BY <1>2 DEF Quiet, TxInv, LockInv, TypeOK, Call, Step, desc, device, thread, irq
<1>5. RoomInv'
  BY <1>2 DEF Quiet, RoomInv, TxInv, TypeOK, Call, Step, desc, device, thread, irq, Succ
<1>6. CallInv'
  BY <1>2 DEF Quiet, CallInv, TypeOK, Call, Step, desc, device, thread, irq
<1>7. QED
  BY <1>1, <1>2, <1>3, <1>4, <1>5, <1>6, QuietStep

LEMMA DisableIntStep == ASSUME IInv, DisableInt PROVE IInv'
<1> USE DEF IInv
<1>1. TypeOK'
  BY DEF TypeOK, DisableInt, Step, desc, device, thread, irq, Unmasked, ThreadPCs, HandlerPCs, NoCall
<1>2. Quiet
  BY DEF Quiet, TypeOK, LockInv, TxInv, HeadOf, TailOf, DisableInt, Step, desc, device, thread, irq
<1>3. FlagInv' /\ LockInv' /\ ScanInv'
  BY DEF FlagInv, LockInv, ScanInv, TxInv, TypeOK, DisableInt, Step, desc, device, thread, irq, Released
<1>4. TxInv'
  BY <1>2 DEF Quiet, TxInv, LockInv, TypeOK, DisableInt, Step, desc, device, thread, irq
<1>5. RoomInv'
  BY <1>2 DEF Quiet, RoomInv, TxInv, TypeOK, DisableInt, Step, desc, device, thread, irq, Succ
<1>6. CallInv'
  BY <1>2 DEF Quiet, CallInv, TypeOK, DisableInt, Step, desc, device, thread, irq
<1>7. QED
  BY <1>1, <1>2, <1>3, <1>4, <1>5, <1>6, QuietStep

LEMMA AcquireStep == ASSUME IInv, Acquire PROVE IInv'
<1> USE DEF IInv
<1>1. TypeOK'
  BY DEF TypeOK, Acquire, Step, desc, device, thread, irq, Unmasked, ThreadPCs, HandlerPCs, NoCall
<1>2. Quiet
  BY DEF Quiet, TypeOK, LockInv, TxInv, HeadOf, TailOf, Acquire, Step, desc, device, thread, irq
<1>3. FlagInv' /\ LockInv' /\ ScanInv'
  BY DEF FlagInv, LockInv, ScanInv, TxInv, TypeOK, Acquire, Step, desc, device, thread, irq, Released
<1>4. TxInv'
  BY <1>2 DEF Quiet, TxInv, LockInv, TypeOK, Acquire, Step, desc, device, thread, irq
<1>5. RoomInv'
  BY <1>2, RingAssumption DEF Quiet, RoomInv, TxInv, TypeOK, Acquire, Step, desc, device, thread, irq, Succ
<1>6. CallInv'
  BY <1>2 DEF Quiet, CallInv, TypeOK, Acquire, Step, desc, device, thread, irq
<1>7. QED
  BY <1>1, <1>2, <1>3, <1>4, <1>5, <1>6, QuietStep

LEMMA UnlockStep == ASSUME IInv, Unlock PROVE IInv'
<1> USE DEF IInv
<1>1. TypeOK'
  BY DEF TypeOK, Unlock, Step, desc, device, thread, irq, Unmasked, ThreadPCs, HandlerPCs, NoCall
<1>2. Quiet
  BY DEF Quiet, TypeOK, LockInv, TxInv, HeadOf, TailOf, Unlock, Step, desc, device, thread, irq
<1>3. FlagInv' /\ LockInv' /\ ScanInv'
  BY DEF FlagInv, LockInv, ScanInv, TxInv, TypeOK, Unlock, Step, desc, device, thread, irq, Released
<1>4. TxInv'
  BY <1>2 DEF Quiet, TxInv, LockInv, TypeOK, Unlock, Step, desc, device, thread, irq, Released
<1>5. RoomInv'
  BY <1>2 DEF Quiet, RoomInv, TxInv, TypeOK, Unlock, Step, desc, device, thread, irq, Succ
<1>6. CallInv'
  BY <1>2 DEF Quiet, CallInv, TypeOK, Unlock, Step, desc, device, thread, irq
<1>7. QED
  BY <1>1, <1>2, <1>3, <1>4, <1>5, <1>6, QuietStep

LEMMA KickStep == ASSUME IInv, Kick PROVE IInv'
<1> USE DEF IInv
<1>1. TypeOK'
  BY DEF TypeOK, Kick, Step, desc, device, thread, irq, Unmasked, ThreadPCs, HandlerPCs, NoCall
<1>2. Quiet
  BY DEF Quiet, TypeOK, LockInv, TxInv, HeadOf, TailOf, Kick, Step, desc, device, thread, irq
<1>3. FlagInv' /\ LockInv' /\ ScanInv'
  BY DEF FlagInv, LockInv, ScanInv, TxInv, TypeOK, Kick, Step, desc, device, thread, irq, Released
<1>4. TxInv'
  BY <1>2 DEF Quiet, TxInv, LockInv, TypeOK, Kick, Step, desc, device, thread, irq
<1>5. RoomInv'
  BY <1>2 DEF Quiet, RoomInv, TxInv, TypeOK, Kick, Step, desc, device, thread, irq, Succ
<1>6. CallInv'
  BY <1>2 DEF Quiet, CallInv, TypeOK, Kick, Step, desc, device, thread, irq
<1>7. QED
  BY <1>1, <1>2, <1>3, <1>4, <1>5, <1>6, QuietStep

LEMMA IrqEnterStep == ASSUME IInv, IrqEnter PROVE IInv'
<1> USE DEF IInv
<1>1. TypeOK'
  BY DEF TypeOK, IrqEnter, Handler, desc, device, thread, irq, Unmasked, ThreadPCs, HandlerPCs, NoCall
<1>2. Quiet
  BY DEF Quiet, TypeOK, LockInv, TxInv, HeadOf, TailOf, IrqEnter, Handler, desc, device, thread, irq
<1>3. FlagInv' /\ LockInv' /\ ScanInv'
  BY DEF FlagInv, LockInv, ScanInv, TxInv, TypeOK, IrqEnter, Handler, desc, device, thread, irq, Released
<1>4. TxInv'
  BY <1>2 DEF Quiet, TxInv, LockInv, TypeOK, IrqEnter, Handler, desc, device, thread, irq
<1>5. RoomInv'
  BY <1>2 DEF Quiet, RoomInv, TxInv, TypeOK, IrqEnter, Handler, desc, device, thread, irq, Succ
<1>6. CallInv'
  BY <1>2 DEF Quiet, CallInv, TypeOK, IrqEnter, Handler, desc, device, thread, irq
<1>7. QED
  BY <1>1, <1>2, <1>3, <1>4, <1>5, <1>6, QuietStep

LEMMA IrqMiscStep == ASSUME IInv, IrqMisc PROVE IInv'
<1> USE DEF IInv
<1>1. TypeOK'
  BY DEF TypeOK, IrqMisc, Handler, desc, device, thread, irq, Unmasked, ThreadPCs, HandlerPCs, NoCall
<1>2. Quiet
  BY DEF Quiet, TypeOK, LockInv, TxInv, HeadOf, TailOf, IrqMisc, Handler, desc, device, thread, irq
<1>3. FlagInv' /\ LockInv' /\ ScanInv'
  BY DEF FlagInv, LockInv, ScanInv, TxInv, TypeOK, IrqMisc, Handler, desc, device, thread, irq, Released
<1>4. TxInv'
  BY <1>2 DEF Quiet, TxInv, LockInv, TypeOK, IrqMisc, Handler, desc, device, thread, irq
<1>5. RoomInv'
  BY <1>2 DEF Quiet, RoomInv, TxInv, TypeOK, IrqMisc, Handler, desc, device, thread, irq, Succ
<1>6. CallInv'
  BY <1>2 DEF Quiet, CallInv, TypeOK, IrqMisc, Handler, desc, device, thread, irq
<1>7. QED
  BY <1>1, <1>2, <1>3, <1>4, <1>5, <1>6, QuietStep

LEMMA IrqAckStep == ASSUME IInv, IrqAck PROVE IInv'
<1> USE DEF IInv
<1>1. TypeOK'
  BY DEF TypeOK, IrqAck, Handler, desc, device, thread, irq, Leave, Unmasked, ThreadPCs, HandlerPCs, NoCall
<1>2. Quiet
  BY DEF Quiet, TypeOK, LockInv, TxInv, HeadOf, TailOf, IrqAck, Handler, desc, device, thread, irq, Leave
<1>3. FlagInv' /\ LockInv' /\ ScanInv'
  BY DEF FlagInv, LockInv, ScanInv, TxInv, TypeOK, IrqAck, Handler, desc, device, thread, irq, Leave, Released
<1>4. TxInv'
  BY <1>2 DEF Quiet, TxInv, LockInv, TypeOK, IrqAck, Handler, desc, device, thread, irq, Leave
<1>5. RoomInv'
  BY <1>2 DEF Quiet, RoomInv, TxInv, TypeOK, IrqAck, Handler, desc, device, thread, irq, Leave, Succ
<1>6. CallInv'
  BY <1>2 DEF Quiet, CallInv, TypeOK, IrqAck, Handler, desc, device, thread, irq, Leave
<1>7. QED
  BY <1>1, <1>2, <1>3, <1>4, <1>5, <1>6, QuietStep

LEMMA IrqLockStep == ASSUME IInv, IrqLock PROVE IInv'
<1> USE DEF IInv
<1>1. TypeOK'
  BY DEF TypeOK, IrqLock, Handler, desc, device, thread, irq, Unmasked, ThreadPCs, HandlerPCs, NoCall
<1>2. Quiet
  BY DEF Quiet, TypeOK, LockInv, TxInv, HeadOf, TailOf, IrqLock, Handler, desc, device, thread, irq
<1>3. FlagInv' /\ LockInv' /\ ScanInv'
  BY DEF FlagInv, LockInv, ScanInv, TxInv, TypeOK, IrqLock, Handler, desc, device, thread, irq, Released
<1>4. TxInv'
  BY <1>2 DEF Quiet, TxInv, LockInv, TypeOK, IrqLock, Handler, desc, device, thread, irq
<1>5. RoomInv'
  BY <1>2 DEF Quiet, RoomInv, TxInv, TypeOK, IrqLock, Handler, desc, device, thread, irq, Succ
<1>6. CallInv'
  BY <1>2 DEF Quiet, CallInv, TypeOK, IrqLock, Handler, desc, device, thread, irq
<1>7. QED
  BY <1>1, <1>2, <1>3, <1>4, <1>5, <1>6, QuietStep

LEMMA IrqScannedStep == ASSUME IInv, IrqScanned PROVE IInv'
<1> USE DEF IInv
<1>1. TypeOK'
  BY DEF TypeOK, IrqScanned, Handler, desc, device, thread, irq, Unmasked, ThreadPCs, HandlerPCs, NoCall
<1>2. Quiet
  BY DEF Quiet, TypeOK, LockInv, TxInv, HeadOf, TailOf, IrqScanned, Handler, desc, device, thread, irq
<1>3. FlagInv' /\ LockInv' /\ ScanInv'
  BY DEF FlagInv, LockInv, ScanInv, TxInv, TypeOK, IrqScanned, Handler, desc, device, thread, irq, Released
<1>4. TxInv'
  BY <1>2 DEF Quiet, TxInv, LockInv, TypeOK, IrqScanned, Handler, desc, device, thread, irq
<1>5. RoomInv'
  BY <1>2 DEF Quiet, RoomInv, TxInv, TypeOK, IrqScanned, Handler, desc, device, thread, irq, Succ
<1>6. CallInv'
  BY <1>2 DEF Quiet, CallInv, TypeOK, IrqScanned, Handler, desc, device, thread, irq
<1>7. QED
  BY <1>1, <1>2, <1>3, <1>4, <1>5, <1>6, QuietStep

LEMMA IrqStoreStep == ASSUME IInv, IrqStore PROVE IInv'
<1> USE DEF IInv
<1>1. TypeOK'
  BY RingAssumption DEF Slots, TypeOK, IrqStore, Handler, desc, device, thread, irq, Leave, Unmasked, ThreadPCs, HandlerPCs, NoCall
<1>2. Quiet
  BY DEF Quiet, TypeOK, LockInv, TxInv, HeadOf, TailOf, IrqStore, Handler, desc, device, thread, irq, Leave
<1>3. FlagInv' /\ LockInv' /\ ScanInv'
  BY DEF FlagInv, LockInv, ScanInv, TxInv, TypeOK, IrqStore, Handler, desc, device, thread, irq, Leave, Released
<1>4. TxInv'
  BY <1>2 DEF Quiet, TxInv, LockInv, TypeOK, IrqStore, Handler, desc, device, thread, irq, Leave
<1>5. RoomInv'
  BY <1>2 DEF Quiet, RoomInv, TxInv, TypeOK, IrqStore, Handler, desc, device, thread, irq, Leave, Succ
<1>6. CallInv'
  BY <1>2 DEF Quiet, CallInv, TypeOK, IrqStore, Handler, desc, device, thread, irq, Leave
<1>7. QED
  BY <1>1, <1>2, <1>3, <1>4, <1>5, <1>6, QuietStep

LEMMA IrqExitStep == ASSUME IInv, IrqExit PROVE IInv'
<1> USE DEF IInv
<1>1. TypeOK'
  BY RingAssumption DEF TypeOK, IrqExit, Handler, desc, device, thread, irq, Unmasked, ThreadPCs, HandlerPCs, NoCall
<1>2. Quiet
  BY DEF Quiet, TypeOK, LockInv, TxInv, HeadOf, TailOf, IrqExit, Handler, desc, device, thread, irq
<1>3. FlagInv' /\ LockInv' /\ ScanInv'
  BY DEF FlagInv, LockInv, ScanInv, TxInv, TypeOK, IrqExit, Handler, desc, device, thread, irq, Released
<1>4. TxInv'
  BY <1>2 DEF Quiet, TxInv, LockInv, TypeOK, IrqExit, Handler, desc, device, thread, irq
<1>5. RoomInv'
  BY <1>2 DEF Quiet, RoomInv, TxInv, TypeOK, IrqExit, Handler, desc, device, thread, irq, Succ
<1>6. CallInv'
  BY <1>2 DEF Quiet, CallInv, TypeOK, IrqExit, Handler, desc, device, thread, irq
<1>7. QED
  BY <1>1, <1>2, <1>3, <1>4, <1>5, <1>6, QuietStep

LEMMA NicTxIdleStep == ASSUME IInv, NicTxIdle PROVE IInv'
<1> USE DEF IInv
<1>1. TypeOK'
  BY DEF TypeOK, NicTxIdle, Handler, desc, device, thread, irq, Unmasked, ThreadPCs, HandlerPCs, NoCall
<1>2. Quiet
  BY DEF Quiet, TypeOK, LockInv, TxInv, HeadOf, TailOf, NicTxIdle, Handler, desc, device, thread, irq
<1>3. FlagInv' /\ LockInv' /\ ScanInv'
  BY DEF FlagInv, LockInv, ScanInv, TxInv, TypeOK, NicTxIdle, Handler, desc, device, thread, irq, Released
<1>4. TxInv'
  BY <1>2 DEF Quiet, TxInv, LockInv, TypeOK, NicTxIdle, Handler, desc, device, thread, irq
<1>5. RoomInv'
  BY <1>2 DEF Quiet, RoomInv, TxInv, TypeOK, NicTxIdle, Handler, desc, device, thread, irq, Succ
<1>6. CallInv'
  BY <1>2 DEF Quiet, CallInv, TypeOK, NicTxIdle, Handler, desc, device, thread, irq
<1>7. QED
  BY <1>1, <1>2, <1>3, <1>4, <1>5, <1>6, QuietStep

LEMMA NicRxUnavailableStep == ASSUME IInv, NicRxUnavailable PROVE IInv'
<1> USE DEF IInv
<1>1. TypeOK'
  BY DEF TypeOK, NicRxUnavailable, Handler, desc, device, thread, irq, Unmasked, ThreadPCs, HandlerPCs, NoCall
<1>2. Quiet
  BY DEF Quiet, TypeOK, LockInv, TxInv, HeadOf, TailOf, NicRxUnavailable, Handler, desc, device, thread, irq
<1>3. FlagInv' /\ LockInv' /\ ScanInv'
  BY DEF FlagInv, LockInv, ScanInv, TxInv, TypeOK, NicRxUnavailable, Handler, desc, device, thread, irq, Released
<1>4. TxInv'
  BY <1>2 DEF Quiet, TxInv, LockInv, TypeOK, NicRxUnavailable, Handler, desc, device, thread, irq
<1>5. RoomInv'
  BY <1>2 DEF Quiet, RoomInv, TxInv, TypeOK, NicRxUnavailable, Handler, desc, device, thread, irq, Succ
<1>6. CallInv'
  BY <1>2 DEF Quiet, CallInv, TypeOK, NicRxUnavailable, Handler, desc, device, thread, irq
<1>7. QED
  BY <1>1, <1>2, <1>3, <1>4, <1>5, <1>6, QuietStep

LEMMA NicMiscStep ==
  ASSUME IInv, NEW e \in Misc, NicMisc(e)
  PROVE  IInv'
<1> USE DEF IInv
<1>1. TypeOK'
  BY ZenonT(30)
     DEF TypeOK, NicMisc, Handler, desc, device, thread, irq, Unmasked, ThreadPCs, HandlerPCs, NoCall
<1>2. Quiet
  BY DEF Quiet, TypeOK, LockInv, TxInv, HeadOf, TailOf, NicMisc, Handler, desc, device, thread, irq
<1>3. FlagInv' /\ LockInv' /\ ScanInv'
  BY DEF FlagInv, LockInv, ScanInv, TxInv, TypeOK, NicMisc, Handler, desc, device, thread, irq, Released
<1>4. TxInv'
  BY <1>2, RingAssumption DEF Quiet, TxInv, LockInv, TypeOK, NicMisc, Handler, desc, device, thread, irq
<1>5. RoomInv'
  BY <1>2 DEF Quiet, RoomInv, TxInv, TypeOK, NicMisc, Handler, desc, device, thread, irq, Succ
<1>6. CallInv'
  BY <1>2 DEF Quiet, CallInv, TypeOK, NicMisc, Handler, desc, device, thread, irq
<1>7. QED
  BY <1>1, <1>2, <1>3, <1>4, <1>5, <1>6, QuietStep

-----------------------------------------------------------------------------
(* The actions that change the rings, their windows or the requests.       *)

LEMMA CheckStep == ASSUME IInv, Check PROVE IInv'
<1> USE DEF IInv
<1>1. TypeOK'
  BY DEF TypeOK, Check, Step, desc, device, irq, ThreadPCs
<1>2. \A r \in Rings : HeadOf(r)' = HeadOf(r) /\ TailOf(r)' = TailOf(r)
  BY DEF HeadOf, TailOf, Check, Step, irq
<1>3. out \subseteq out' /\ UNCHANGED <<owned, eor, buf, ev, nic, done, filled>>
  BY DEF Check, desc, device
<1>4. FlagInv' /\ LockInv' /\ ScanInv'
  BY DEF FlagInv, LockInv, ScanInv, Check, Step, irq
<1>5. TxInv' /\ RoomInv'
  BY <1>2 DEF TxInv, RoomInv, HeadOf, TypeOK, Check, Step, Full, Succ, desc, irq
<1>6. CallInv'
  <2>1. \A r \in Rings, i \in Slots :
          In(i, HeadOf(r), TailOf(r)) => buf[r][i] \in out
    BY DEF WindowInv
  <2>2. QED
    BY <1>2, <2>1 DEF CallInv, DoneInv, TypeOK, Check, Step, desc
<1>7. PlaceInv' /\ OwnInv' /\ WindowInv' /\ DistinctInv' /\ DoneInv'
  BY <1>2, <1>3 DEF PlaceInv, OwnInv, WindowInv, DistinctInv, DoneInv
<1>8. QED
  BY <1>1, <1>4, <1>5, <1>6, <1>7

LEMMA FillStep == ASSUME IInv, Fill PROVE IInv'
<1> USE DEF IInv
<1> DEFINE r0 == call.ring
           p0 == pos[call.ring]
<1>1. TypeOK'
  BY DEF TypeOK, Fill, Step, device, irq, ThreadPCs
<1>2. \A r \in Rings : HeadOf(r)' = HeadOf(r) /\ TailOf(r)' = TailOf(r)
  BY DEF HeadOf, TailOf, Fill, Step, irq
<1>3. r0 \in Rings /\ p0 \in Slots /\ TailOf(r0) = p0
  BY DEF TypeOK, TailOf, Fill, Step
\* The slot that is filled is outside the window.
<1>4. \A r \in Rings, i \in Slots :
        In(i, HeadOf(r), TailOf(r)) =>
          buf'[r][i] = buf[r][i] /\ ev'[r][i] = ev[r][i]
  <2>1. ~In(p0, HeadOf(r0), TailOf(r0))
    BY <1>3, EndsType, InEnds
  <2>2. QED
    BY <1>3, <2>1 DEF TypeOK, Fill
<1>5. buf'[r0][p0] = call.req /\ ev'[r0][p0] = call.req
  BY <1>3 DEF TypeOK, Fill
<1>6. FlagInv' /\ LockInv' /\ ScanInv'
  BY DEF FlagInv, LockInv, ScanInv, Fill, Step, irq
<1>7. TxInv' /\ RoomInv'
  BY <1>2 DEF TxInv, RoomInv, Fill, Step, Succ, irq
<1>8. CallInv'
  BY <1>2, <1>4, <1>5 DEF CallInv, Fill, Step
<1>9. PlaceInv' /\ OwnInv' /\ DoneInv'
  BY <1>2 DEF PlaceInv, OwnInv, DoneInv, Fill, device
<1>10. WindowInv' /\ DistinctInv'
  BY <1>2, <1>4 DEF WindowInv, DistinctInv, Fill, device
<1>11. QED
  BY <1>1, <1>6, <1>7, <1>8, <1>9, <1>10

LEMMA SetOwnStep == ASSUME IInv, SetOwn PROVE IInv'
<1> USE DEF IInv
<1>0. PICK r0 \in Rings, p0 \in Slots : r0 = call.ring /\ p0 = pos[call.ring]
  BY DEF TypeOK, SetOwn, Step
<1>1. TypeOK'
  BY DEF TypeOK, SetOwn, Step, device, irq, ThreadPCs
<1>2. TailOf(r0) = p0 /\ TailOf(r0)' = Succ(p0) /\ Succ(p0) # HeadOf(r0)
  BY <1>0 DEF TypeOK, RoomInv, TailOf, SetOwn, Step
<1>3. \A r \in Rings : /\ HeadOf(r)' = HeadOf(r)
                       /\ r # r0 => TailOf(r)' = TailOf(r)
  BY <1>0 DEF TypeOK, HeadOf, TailOf, SetOwn, Step, irq
<1>4. \A i \in Slots : /\ ~In(p0, HeadOf(r0), p0)
                       /\ In(i, HeadOf(r0), Succ(p0)) <=>
                            In(i, HeadOf(r0), p0) \/ i = p0
  BY <1>2, EndsType, InGrow, InEnds
\* The controller is not behind Head, so its stretch grows by the slot too.
<1>5. nic[r0] \in Slots /\ (In(nic[r0], HeadOf(r0), p0) \/ nic[r0] = p0)
  BY <1>2 DEF TypeOK, PlaceInv
<1>6. Succ(p0) # nic[r0]
  <2>1. Succ(p0) # p0 /\ ~In(Succ(p0), HeadOf(r0), p0)
    BY <1>2, EndsType, RingAssumption DEF Succ, In
  <2>2. QED
    BY <1>5, <2>1
<1>7. \A i \in Slots :
        In(i, nic[r0], Succ(p0)) <=> In(i, nic[r0], p0) \/ i = p0
  BY <1>2, <1>5, <1>6, InGrow
<1>8. \A i \in Slots : ~In(p0, nic[r0], p0)
  BY <1>2, <1>5, InEnds
<1>9. \A r \in Rings, i \in Slots :
        owned'[r][i] <=> owned[r][i] \/ (r = r0 /\ i = p0)
  BY <1>0 DEF TypeOK, SetOwn
<1>10. UNCHANGED <<buf, ev, nic, out, done, filled>>
  BY DEF SetOwn, device
<1>11. FlagInv' /\ LockInv' /\ ScanInv'
  BY DEF FlagInv, LockInv, ScanInv, SetOwn, Step, irq
<1>12. TxInv'
  BY <1>0, <1>2, <1>3, <1>9 DEF TxInv, LockInv, SetOwn, Step, irq
<1>13. RoomInv'
  BY <1>0, <1>2, <1>3 DEF RoomInv, SetOwn, Step
<1>14. CallInv'
  BY DEF CallInv, SetOwn, Step
<1>15. PlaceInv'
  <2>1. ASSUME NEW r \in Rings, NEW i \in Slots
        PROVE  eor'[r][i] <=> i + 1 = NumBuffer
    <3>1. CASE r = r0 /\ i = p0
      BY <1>0, <3>1 DEF TypeOK, SetOwn
    <3>2. CASE ~(r = r0 /\ i = p0)
      <4>1. eor'[r][i] = eor[r][i]
        BY <1>0, <3>2 DEF TypeOK, SetOwn
      <4>2. QED
        BY <4>1 DEF PlaceInv
    <3>3. QED
      BY <3>1, <3>2
  <2>2. ASSUME NEW r \in Rings
        PROVE  In(nic[r], HeadOf(r)', TailOf(r)') \/ nic[r] = TailOf(r)'
    <3>1. CASE r = r0
      BY <1>2, <1>3, <1>4, <1>5, <3>1
    <3>2. CASE r # r0
      BY <1>3, <3>2 DEF PlaceInv
    <3>3. QED
      BY <3>1, <3>2
  <2>3. QED
    BY <1>10, <2>1, <2>2 DEF PlaceInv
<1>16. OwnInv'
  <2> SUFFICES ASSUME NEW r \in Rings, NEW i \in Slots
               PROVE  owned'[r][i] <=> In(i, nic[r], TailOf(r)')
    BY <1>10 DEF OwnInv
  <2>1. CASE r = r0
    BY <1>2, <1>7, <1>9, <2>1 DEF OwnInv
  <2>2. CASE r # r0
    BY <1>3, <1>9, <2>2 DEF OwnInv
  <2>3. QED
    BY <2>1, <2>2
<1>17. buf[r0][p0] = call.req /\ ev[r0][p0] = call.req
       /\ call.req \in out \ filled /\ call.req \notin done
  BY <1>0 DEF CallInv, DoneInv, SetOwn, Step
<1>18. WindowInv'
  <2> SUFFICES ASSUME NEW r \in Rings, NEW i \in Slots,
                      In(i, HeadOf(r)', TailOf(r)')
               PROVE  /\ ev[r][i] = buf[r][i]
                      /\ buf[r][i] \in out \ done
                      /\ buf[r][i] \in filled <=> ~In(i, nic[r], TailOf(r)')
    BY <1>10 DEF WindowInv
  <2>1. CASE r # r0
    BY <1>3, <2>1 DEF WindowInv
  <2>2. CASE r = r0 /\ i = p0
    BY <1>2, <1>7, <1>17, <2>2
  <2>3. CASE r = r0 /\ i # p0
    BY <1>2, <1>3, <1>4, <1>7, <2>3 DEF WindowInv
  <2>4. QED
    BY <2>1, <2>2, <2>3
<1>19. DistinctInv'
  <2>1. \A r \in Rings, i \in Slots :
          In(i, HeadOf(r)', TailOf(r)') =>
            \/ In(i, HeadOf(r), TailOf(r)) /\ buf[r][i] # call.req
            \/ r = r0 /\ i = p0
    BY <1>2, <1>3, <1>4 DEF CallInv, SetOwn, Step
  <2>2. QED
    BY <1>10, <1>17, <2>1 DEF DistinctInv
<1>20. DoneInv'
  BY <1>10 DEF DoneInv
<1>21. QED
  BY <1>1, <1>11, <1>12, <1>13, <1>14, <1>15, <1>16, <1>18, <1>19, <1>20

LEMMA SetPosStep == ASSUME IInv, SetPos PROVE IInv'
<1> USE DEF IInv
<1>1. TypeOK'
  BY SuccType DEF TypeOK, SetPos, Step, desc, device, irq, ThreadPCs
<1>2. Quiet
  BY DEF Quiet, TypeOK, HeadOf, TailOf, SetPos, Step, desc, device, irq
<1>3. FlagInv' /\ LockInv' /\ ScanInv'
  BY DEF FlagInv, LockInv, ScanInv, SetPos, Step, irq
<1>4. TxInv'
  BY <1>2, RingAssumption
     DEF Quiet, TxInv, LockInv, TypeOK, SetPos, Step, Succ, desc, irq
<1>5. RoomInv' /\ CallInv'
  BY DEF RoomInv, CallInv, SetPos, Step
<1>6. QED
  BY <1>1, <1>2, <1>3, <1>4, <1>5, QuietStep

LEMMA ConsumeStep ==
  ASSUME IInv, NEW q \in Requests, Consume(q)
  PROVE  IInv'
<1> USE DEF IInv
<1>1. TypeOK'
  BY DEF TypeOK, Consume, Step, desc, device, irq
<1>2. \A r \in Rings : HeadOf(r)' = HeadOf(r) /\ TailOf(r)' = TailOf(r)
  BY DEF HeadOf, TailOf, Consume, Step, irq
<1>3. FlagInv' /\ LockInv' /\ ScanInv'
  BY DEF FlagInv, LockInv, ScanInv, Consume, Step, irq
<1>4. TxInv' /\ RoomInv' /\ CallInv'
  BY <1>2 DEF TxInv, RoomInv, CallInv, Consume, Step, desc, irq
<1>5. PlaceInv' /\ OwnInv' /\ DistinctInv' /\ DoneInv'
  BY <1>2 DEF PlaceInv, OwnInv, DistinctInv, DoneInv, Consume, desc, device
\* No slot of a window holds a request that was reported.
<1>6. WindowInv'
  BY <1>2 DEF WindowInv, Consume, desc, device
<1>7. QED
  BY <1>1, <1>3, <1>4, <1>5, <1>6

LEMMA IrqReportStep == ASSUME IInv, IrqReport PROVE IInv'
<1> USE DEF IInv
\* The handler is at the head of a window that is not empty.
<1>1. hring \in Rings /\ HeadOf(hring) = own /\ TailOf(hring) = hpos
      /\ own # hpos /\ own \in Slots /\ hpos \in Slots
  BY DEF TypeOK, LockInv, ScanInv, HeadOf, TailOf, IrqReport, Handler,
         Reportable
<1>2. In(own, HeadOf(hring), TailOf(hring))
  BY <1>1, InEnds
<1>3. ev[hring][own] = buf[hring][own] /\ buf[hring][own] \in out \ done
  BY <1>1, <1>2 DEF WindowInv
\* The controller has released the slot, so it is further on.
<1>4. ~In(own, nic[hring], TailOf(hring)) /\ buf[hring][own] \in filled
  BY <1>1, <1>2 DEF IrqReport, Reportable, OwnInv, WindowInv
<1>5. \A r \in Rings : /\ HeadOf(r)' = IF r = hring THEN Succ(own) ELSE HeadOf(r)
                       /\ TailOf(r)' = TailOf(r)
  BY DEF HeadOf, TailOf, IrqReport, Handler, thread
<1>6. \A i \in Slots : In(i, Succ(own), hpos) <=> In(i, own, hpos) /\ i # own
  BY <1>1, InShrink
<1>7. \A r \in Rings, i \in Slots :
        In(i, HeadOf(r)', TailOf(r)') =>
          In(i, HeadOf(r), TailOf(r)) /\ ~(r = hring /\ i = own)
  BY <1>1, <1>5, <1>6
<1>8. UNCHANGED <<owned, eor, buf, ev, nic, out, filled>>
      /\ done' = done \cup {buf[hring][own]}
  BY <1>3 DEF IrqReport, desc, device
<1>9. TypeOK'
  BY <1>1, <1>3, <1>8, SuccType
     DEF TypeOK, IrqReport, Handler, thread, device, HandlerPCs
<1>10. FlagInv' /\ LockInv' /\ ScanInv'
  BY DEF FlagInv, LockInv, ScanInv, IrqReport, Handler, thread
<1>11. TxInv'
  BY <1>5, <1>8 DEF TxInv, TypeOK, LockInv, IrqReport, Handler, thread
<1>12. RoomInv'
  BY <1>1, <1>5, RingAssumption
     DEF RoomInv, TypeOK, TxInv, LockInv, ScanInv, Succ, IrqReport, Handler,
         thread
<1>13. CallInv'
  BY <1>7, <1>8 DEF CallInv, IrqReport, Handler, thread
<1>14. PlaceInv'
  BY SMTT(30), <1>1, <1>2, <1>4, <1>5, <1>6, <1>8, InEnds DEF PlaceInv, TypeOK
<1>15. OwnInv'
  BY <1>5, <1>8 DEF OwnInv
<1>16. WindowInv'
  BY <1>1, <1>2, <1>5, <1>7, <1>8 DEF WindowInv, DistinctInv
<1>17. DistinctInv'
  BY <1>7, <1>8 DEF DistinctInv
<1>18. DoneInv'
  BY <1>3, <1>4, <1>8 DEF DoneInv
<1>19. QED
  BY <1>9, <1>10, <1>11, <1>12, <1>13, <1>14, <1>15, <1>16, <1>17, <1>18

LEMMA NicCompleteStep ==
  ASSUME IInv, NEW r0 \in Rings, NicComplete(r0)
  PROVE  IInv'
<1> USE DEF IInv
<1> DEFINE n0 == nic[r0]
\* The slot is the first of the controller's stretch.
<1>1. n0 \in Slots /\ owned[r0][n0] /\ In(n0, n0, TailOf(r0)) /\ n0 # TailOf(r0)
  <2>1. n0 \in Slots /\ In(n0, n0, TailOf(r0))
    BY DEF TypeOK, NicComplete, OwnInv
  <2>2. QED
    BY <2>1, EndsType, InEnds DEF NicComplete
<1>2. In(n0, HeadOf(r0), TailOf(r0))
  BY <1>1 DEF PlaceInv
<1>3. buf[r0][n0] \in out \ done /\ buf[r0][n0] \notin filled
  BY <1>1, <1>2 DEF WindowInv
<1>4. \A r \in Rings : HeadOf(r)' = HeadOf(r) /\ TailOf(r)' = TailOf(r)
  BY DEF HeadOf, TailOf, NicComplete, thread, irq
<1>5. UNCHANGED <<eor, buf, ev, out, done>>
      /\ filled' = filled \cup {buf[r0][n0]}
  BY DEF NicComplete
<1>6. \A r \in Rings : nic'[r] = IF r = r0 THEN Succ(n0) ELSE nic[r]
  BY <1>1 DEF TypeOK, PlaceInv, NicComplete, Succ
<1>7. \A i \in Slots :
        In(i, Succ(n0), TailOf(r0)) <=> In(i, n0, TailOf(r0)) /\ i # n0
  BY <1>1, EndsType, InShrink
<1>8. \A r \in Rings, i \in Slots :
        owned'[r][i] <=> owned[r][i] /\ ~(r = r0 /\ i = n0)
  BY <1>1 DEF TypeOK, NicComplete
<1>9. TypeOK'
  <2>1. nic' \in [Rings -> Slots]
    BY <1>1, RingAssumption DEF TypeOK, PlaceInv, NicComplete
  <2>2. filled' \subseteq Requests
    BY <1>3, <1>5 DEF TypeOK
  <2>3. QED
    BY <2>1, <2>2 DEF TypeOK, NicComplete, thread, irq, Unmasked
<1>10. FlagInv' /\ LockInv' /\ ScanInv'
  BY DEF FlagInv, LockInv, ScanInv, NicComplete, thread, irq
<1>11. TxInv'
  BY <1>1, <1>4, <1>8 DEF TxInv, NicComplete, thread, irq
<1>12. RoomInv'
  BY <1>4 DEF RoomInv, TypeOK, NicComplete, Succ, thread, irq
<1>13. CallInv'
  BY <1>1, <1>2, <1>4, <1>5 DEF CallInv, NicComplete, thread
<1>14. PlaceInv'
  <2>1. In(Succ(n0), HeadOf(r0), TailOf(r0)) \/ Succ(n0) = TailOf(r0)
    BY <1>1, <1>2, EndsType, RingAssumption DEF In, Succ
  <2>2. QED
    BY <2>1, <1>4, <1>5, <1>6 DEF PlaceInv
<1>15. OwnInv'
  BY <1>4, <1>6, <1>7, <1>8 DEF OwnInv
<1>16. WindowInv'
  <2> SUFFICES ASSUME NEW r \in Rings, NEW i \in Slots,
                      In(i, HeadOf(r), TailOf(r))
               PROVE  /\ ev[r][i] = buf[r][i]
                      /\ buf[r][i] \in out \ done
                      /\ buf[r][i] \in filled' <=> ~In(i, nic'[r], TailOf(r))
    BY <1>4, <1>5 DEF WindowInv
  <2>1. CASE r = r0 /\ i = n0
    BY <1>1, <1>2, <1>5, <1>6, <1>7, <2>1 DEF WindowInv
  <2>2. CASE ~(r = r0 /\ i = n0)
    <3>1. buf[r][i] # buf[r0][n0]
      BY <1>1, <1>2, <2>2 DEF DistinctInv
    <3>2. In(i, nic'[r], TailOf(r)) <=> In(i, nic[r], TailOf(r))
      BY <1>6, <1>7, <2>2
    <3>3. QED
      BY <1>5, <3>1, <3>2 DEF WindowInv
  <2>3. QED
    BY <2>1, <2>2
<1>17. DistinctInv'
  BY <1>4, <1>5 DEF DistinctInv
<1>18. DoneInv'
  BY <1>3, <1>5 DEF DoneInv
<1>19. QED
  BY <1>9, <1>10, <1>11, <1>12, <1>13, <1>14, <1>15, <1>16, <1>17, <1>18

-----------------------------------------------------------------------------
(* The theorems.                                                           *)

LEMMA InitIInv == Init => IInv
<1> SUFFICES ASSUME Init PROVE IInv
  OBVIOUS
<1> USE RingAssumption DEF Init
<1>1. TypeOK
  <2>1. eor \in [Rings -> [Slots -> BOOLEAN]]
    BY Zenon
  <2>2. 0 \in Slots
    OBVIOUS
  <2>3. /\ owned \in [Rings -> [Slots -> BOOLEAN]]
        /\ buf \in [Rings -> [Slots -> Requests \cup {None}]]
        /\ ev \in [Rings -> [Slots -> Requests \cup {None}]]
        /\ pos \in [Rings -> Slots]
        /\ ownPos \in [Rings -> Slots]
        /\ lock \in [Rings -> BOOLEAN]
        /\ nic \in [Rings -> Slots]
    BY <2>2, Zenon
  <2>4. QED
    BY <2>1, <2>2, <2>3, Zenon DEF TypeOK, ThreadPCs, HandlerPCs, NoCall
<1>2. \A r \in Rings : HeadOf(r) = 0 /\ TailOf(r) = 0
  BY DEF HeadOf, TailOf
<1>3. \A i \in Slots : ~In(i, 0, 0)
  BY DEF In
<1>4. FlagInv /\ LockInv /\ TxInv /\ RoomInv /\ CallInv /\ ScanInv /\ DoneInv
  BY <1>2 DEF FlagInv, LockInv, TxInv, RoomInv, CallInv, ScanInv, DoneInv
<1>5. PlaceInv
  <2>1. \A r \in Rings, i \in Slots : eor[r][i] <=> i = NumBuffer - 1
    BY Zenon
  <2>2. QED
    BY <1>2, <2>1 DEF PlaceInv
<1>6. OwnInv /\ WindowInv /\ DistinctInv
  BY <1>2, <1>3 DEF OwnInv, WindowInv, DistinctInv
<1>7. QED
  BY <1>1, <1>4, <1>5, <1>6 DEF IInv

LEMMA StutterStep == ASSUME IInv, UNCHANGED vars PROVE IInv'
<1> USE DEF IInv, vars, desc, device, thread, irq
<1>1. TypeOK'
  BY DEF TypeOK
<1>2. Quiet
  BY DEF Quiet, HeadOf, TailOf
<1>3. FlagInv' /\ LockInv' /\ ScanInv'
  BY DEF FlagInv, LockInv, ScanInv
<1>4. TxInv' /\ RoomInv' /\ CallInv'
  BY <1>2 DEF Quiet, TxInv, RoomInv, CallInv, Succ, TypeOK
<1>5. QED
  BY <1>1, <1>2, <1>3, <1>4, QuietStep

LEMMA NextIInv == IInv /\ [Next]_vars => IInv'
<1> SUFFICES ASSUME IInv, [Next]_vars PROVE IInv'
  OBVIOUS
<1>1. CASE UNCHANGED vars
  BY <1>1, StutterStep
<1>2. CASE \E r \in Rings, q \in Requests : Call(r, q)
  BY <1>2, CallStep
<1>3. CASE \E q \in Requests : Consume(q)
  BY <1>3, ConsumeStep
<1>4. CASE ThreadNext
  BY <1>4, CheckStep, FillStep, DisableIntStep, AcquireStep, SetOwnStep,
     SetPosStep, UnlockStep, KickStep DEF ThreadNext
<1>5. CASE IrqEnter
  BY <1>5, IrqEnterStep
<1>6. CASE HandlerNext
  BY <1>6, IrqMiscStep, IrqAckStep, IrqLockStep, IrqReportStep,
     IrqScannedStep, IrqStoreStep, IrqExitStep DEF HandlerNext
<1>7. CASE NicNext
  BY <1>7, NicCompleteStep, NicTxIdleStep, NicRxUnavailableStep, NicMiscStep
     DEF NicNext
<1>8. QED
  BY <1>1, <1>2, <1>3, <1>4, <1>5, <1>6, <1>7 DEF Next

THEOREM IInvariance == Spec => []IInv
BY InitIInv, NextIInv, PTL DEF Spec

\* The state of the driver, of the controller and of the handler is always
\* well-formed.
THEOREM TypeCorrect == Spec => []TypeOK
<1>1. IInv => TypeOK
  BY DEF IInv
<1>2. QED
  BY <1>1, IInvariance, PTL

\* r8169_irq sets the event bits of a request only after the controller has
\* finished with its buffer, and only while the request is outstanding.
THEOREM ReportsAreTrue == Spec => []DoneIsFinished
<1>1. IInv => DoneIsFinished
  BY DEF IInv, DoneInv, DoneIsFinished
<1>2. QED
  BY <1>1, IInvariance, PTL

\* The controller owns only descriptors of buffers it has not returned, and
\* one descriptor per buffer.
THEOREM OwnershipIsExclusive == Spec => []OwnedIsOutstanding
<1>1. IInv => OwnedIsOutstanding
  <2> SUFFICES ASSUME IInv PROVE OwnedIsOutstanding
    OBVIOUS
  <2>1. \A r \in Rings, i \in Slots : owned[r][i] =>
          In(i, nic[r], TailOf(r)) /\ In(i, HeadOf(r), TailOf(r))
    <3>1. TypeOK /\ OwnInv /\ PlaceInv
      BY DEF IInv
    <3>2. \A r \in Rings : nic[r] \in Slots
      BY <3>1 DEF TypeOK
    <3>3. QED
      BY <3>1, <3>2, EndsType, InSub DEF OwnInv, PlaceInv
  <2>2. QED
    BY <2>1 DEF IInv, WindowInv, DistinctInv, OwnedIsOutstanding
<1>2. QED
  BY <1>1, IInvariance, PTL

\* The handler never spins on rx_lock: it cannot interrupt its holder.
THEOREM RxHandlerNeverSpins == Spec => []RxHandlerRuns
<1>1. IInv => RxHandlerRuns
  BY DEF IInv, LockInv, RxHandlerRuns
<1>2. QED
  BY <1>1, IInvariance, PTL

-----------------------------------------------------------------------------
(* The receive ring implements the bounded queue of module RequestQueue: a *)
(* step of the driver or of the controller accepts, serves, reports or     *)
(* consumes one request of the queue, or leaves it alone.                  *)

\* Slot number k, counted from slot i.
Nth(i, k) == (i + k) % NumBuffer

-----------------------------------------------------------------------------
(* Arithmetic of the ring.                                                 *)

LEMMA NthValue ==
  \A i \in Slots, k \in Slots :
    /\ Nth(i, k) = IF i + k < NumBuffer THEN i + k ELSE i + k - NumBuffer
    /\ Nth(i, k) \in Slots
BY RingAssumption DEF Nth

\* Distances are smaller than the ring, and the first ones name the slots of
\* the stretch.
LEMMA DistanceType ==
  \A i, j \in Slots : Distance(i, j) \in Slots /\ (Distance(i, j) = 0 <=> i = j)
BY RingAssumption DEF Distance

LEMMA NthIn ==
  \A i, j, k \in Slots : k < Distance(i, j) => In(Nth(i, k), i, j)
<1> TAKE i, j, k \in Slots
<1>1. Nth(i, k) = IF i + k < NumBuffer THEN i + k ELSE i + k - NumBuffer
  BY NthValue
<1>2. QED
  BY <1>1, RingAssumption DEF In, Distance

LEMMA NthEnd == \A i, j \in Slots : Nth(i, Distance(i, j)) = j
<1> TAKE i, j \in Slots
<1> DEFINE k == Distance(i, j)
<1>1. Nth(i, k) = IF i + k < NumBuffer THEN i + k ELSE i + k - NumBuffer
  BY NthValue, DistanceType
<1>2. QED
  BY <1>1, RingAssumption DEF Distance

LEMMA NthFirst == \A i \in Slots : Nth(i, 0) = i
BY RingAssumption, NthValue

\* The end of a stretch that does not fill the ring moves on.
LEMMA DistanceGrow ==
  \A i, j \in Slots : Succ(j) # i => Distance(i, Succ(j)) = Distance(i, j) + 1
BY RingAssumption DEF Distance, Succ

\* Its beginning moves on.
LEMMA DistanceShrink ==
  \A i, j \in Slots : i # j => Distance(Succ(i), j) = Distance(i, j) - 1
BY RingAssumption DEF Distance, Succ

LEMMA NthShift ==
  \A i, k \in Slots : k + 1 < NumBuffer => Nth(Succ(i), k) = Nth(i, k + 1)
<1> TAKE i, k \in Slots
<1> HAVE k + 1 < NumBuffer
<1>1. Succ(i) \in Slots /\ k + 1 \in Slots
  BY RingAssumption, SuccType
<1>2. /\ Nth(Succ(i), k) = IF Succ(i) + k < NumBuffer THEN Succ(i) + k
                                        ELSE Succ(i) + k - NumBuffer
      /\ Nth(i, k + 1) = IF i + (k + 1) < NumBuffer THEN i + (k + 1)
                                        ELSE i + (k + 1) - NumBuffer
  BY <1>1, NthValue
<1>3. QED
  BY <1>1, <1>2, RingAssumption DEF Succ

\* A slot inside a stretch is nearer than its end.
LEMMA DistanceIn ==
  \A i, j, x \in Slots : In(x, i, j) => Distance(i, x) < Distance(i, j)
BY RingAssumption DEF In, Distance

\* Two ends of one stretch.
LEMMA DistanceLast ==
  \A i, j \in Slots : Succ(j) # i => Distance(i, j) < NumBuffer - 1
BY RingAssumption DEF Distance, Succ

-----------------------------------------------------------------------------
(* The queue the ring stands for.                                          *)

\* The ends of the queue's stretch are those of the receive window.
LEMMA EndsOfQueue == RxHead = HeadOf("rx") /\ RxTail = TailOf("rx")
BY DEF RxHead, RxTail, HeadOf, TailOf

\* Its length, its elements and the requests in it.
LEMMA QueueShape ==
  ASSUME IInv
  PROVE  /\ RxHead \in Slots /\ RxTail \in Slots
         /\ RxQueue \in Seq(Requests)
         /\ Len(RxQueue) = Distance(RxHead, RxTail)
         /\ Distance(RxHead, RxTail) \in Slots
         /\ \A k \in 1..Distance(RxHead, RxTail) :
              /\ k - 1 \in Slots
              /\ RxQueue[k] = ev["rx"][Nth(RxHead, k - 1)]
              /\ In(Nth(RxHead, k - 1), RxHead, RxTail)
<1> DEFINE d == Distance(RxHead, RxTail)
<1>1. RxHead \in Slots /\ RxTail \in Slots
  BY EndsOfQueue, EndsType DEF IInv
<1>2. d \in Slots
  BY <1>1, DistanceType
<1>3. \A k \in 1..d : /\ k - 1 \in Slots
                       /\ Nth(RxHead, k - 1) \in Slots
                       /\ In(Nth(RxHead, k - 1), RxHead, RxTail)
  <2> TAKE k \in 1..d
  <2>1. k - 1 \in Slots /\ k - 1 < d
    BY <1>2, RingAssumption
  <2>2. QED
    BY <1>1, <2>1, NthIn, NthValue
<1>4. RxQueue = [k \in 1..d |-> ev["rx"][Nth(RxHead, k - 1)]]
  <2>1. \A k \in 1..d : Nth(RxHead, k - 1) = (RxHead + k - 1) % NumBuffer
    <3> TAKE k \in 1..d
    <3>1. RxHead + (k - 1) = RxHead + k - 1
      BY <1>1, <1>2, RingAssumption
    <3>2. QED
      BY <3>1 DEF Nth
  <2>2. QED
    BY <2>1 DEF RxQueue
<1>5. \A k \in 1..d : ev["rx"][Nth(RxHead, k - 1)] \in Requests
  <2> TAKE k \in 1..d
  <2> DEFINE i == Nth(RxHead, k - 1)
  <2>1. i \in Slots /\ In(i, HeadOf("rx"), TailOf("rx"))
    BY <1>3, EndsOfQueue
  <2>2. ev["rx"][i] \in out
    BY <2>1 DEF IInv, WindowInv
  <2>3. QED
    BY <2>2 DEF IInv, TypeOK
<1>6. RxQueue \in Seq(Requests) /\ Len(RxQueue) = d
  BY <1>2, <1>4, <1>5, RingAssumption
<1>7. QED
  BY <1>1, <1>2, <1>3, <1>4, <1>6

\* A step that moves neither end and disturbs no slot of the window leaves the
\* queue alone.
LEMMA SameQueue ==
  ASSUME IInv, RxHead' = RxHead, RxTail' = RxTail, nic'["rx"] = nic["rx"],
         \A i \in Slots : In(i, RxHead, RxTail) => ev'["rx"][i] = ev["rx"][i]
  PROVE  RxQueue' = RxQueue /\ Distance(RxHead, nic["rx"])' = Distance(RxHead, nic["rx"])
<1> DEFINE d == Distance(RxHead, RxTail)
<1>1. \A k \in 1..d : /\ (RxHead + k - 1) % NumBuffer \in Slots
                       /\ In((RxHead + k - 1) % NumBuffer, RxHead, RxTail)
  <2> TAKE k \in 1..d
  <2>1. RxHead + (k - 1) = RxHead + k - 1
    BY QueueShape, RingAssumption
  <2>2. QED
    BY <2>1, QueueShape, NthValue DEF Nth
<1>2. Distance(RxHead, RxTail)' = d
  BY DEF Distance
<1>3. RxQueue' = RxQueue
  BY <1>1, <1>2 DEF RxQueue
<1>4. QED
  BY <1>3 DEF Distance

-----------------------------------------------------------------------------
(* The steps.                                                              *)

\* The actions that do not touch the receive window.
LEMMA OtherSteps ==
  ASSUME IInv,
         \/ \E r \in Rings, q \in Requests : Call(r, q)
         \/ Check \/ Fill \/ DisableInt \/ Acquire \/ SetPos \/ Unlock \/ Kick
         \/ IrqEnter \/ IrqMisc \/ IrqAck \/ IrqLock \/ IrqScanned \/ IrqStore
         \/ IrqExit
         \/ NicTxIdle \/ NicRxUnavailable \/ \E e \in Misc : NicMisc(e)
         \/ UNCHANGED vars
  PROVE  UNCHANGED Queue!vars
<1>1. nic' = nic /\ done' = done
  BY DEF Call, Check, Fill, DisableInt, Acquire, SetPos, Unlock, Kick,
         IrqEnter, IrqMisc, IrqAck, IrqLock, IrqScanned, IrqStore, IrqExit,
         NicTxIdle, NicRxUnavailable, NicMisc, vars, device
<1>2. RxTail' = RxTail
  BY DEF RxTail, IInv, TypeOK, FlagInv, LockInv, Step, Handler, thread, irq,
         Call, Check, Fill, DisableInt, Acquire, SetPos, Unlock, Kick,
         IrqEnter, IrqMisc, IrqAck, IrqLock, IrqScanned, IrqStore, IrqExit,
         NicTxIdle, NicRxUnavailable, NicMisc, vars
<1>3. RxHead' = RxHead
  BY DEF RxHead, IInv, TypeOK, TxInv, Step, Handler, thread, irq, Leave,
         Call, Check, Fill, DisableInt, Acquire, SetPos, Unlock, Kick,
         IrqEnter, IrqMisc, IrqAck, IrqLock, IrqScanned, IrqStore, IrqExit,
         NicTxIdle, NicRxUnavailable, NicMisc, vars
<1>4. ASSUME NEW i \in Slots, In(i, RxHead, RxTail)
      PROVE  ev'["rx"][i] = ev["rx"][i]
  <2>1. CASE Fill
    <3>1. RxTail \in Slots /\ RxHead \in Slots
      BY QueueShape
    <3>2. i # RxTail
      BY <1>4, <3>1, InEnds
    <3>3. pc = "fill" /\ RxTail = pos["rx"]
      BY <2>1 DEF Fill, Step, RxTail
    <3>4. call.ring \in Rings /\ ev \in [Rings -> [Slots -> Requests \cup {None}]]
      BY DEF IInv, TypeOK
    <3>5. QED
      BY <2>1, <3>2, <3>3, <3>4 DEF Fill
  <2>2. CASE ~Fill
    BY <2>2
       DEF Call, Check, DisableInt, Acquire, SetPos, Unlock, Kick,
           IrqEnter, IrqMisc, IrqAck, IrqLock, IrqScanned, IrqStore, IrqExit,
           NicTxIdle, NicRxUnavailable, NicMisc, vars
  <2>3. QED
    BY <2>1, <2>2
<1>5. QED
  BY <1>1, <1>2, <1>3, <1>4, SameQueue DEF Queue!vars

\* A client that has seen its event takes the request away.
LEMMA ConsumeQueue ==
  ASSUME IInv, NEW q \in Requests, Consume(q)
  PROVE  Queue!Consume(q)
<1>1. RxTail' = RxTail /\ RxHead' = RxHead /\ nic' = nic /\ ev' = ev
  BY DEF Consume, Step, RxTail, RxHead, desc, device, irq
<1>2. QED
  BY <1>1, SameQueue DEF Consume, Queue!Consume

\* The controller serves the next request of the receive ring; the transmit
\* ring is not part of the queue.
LEMMA ServeQueue ==
  ASSUME IInv, NEW r \in Rings, NicComplete(r)
  PROVE  Queue!Serve \/ UNCHANGED Queue!vars
<1>1. /\ RxTail' = RxTail /\ RxHead' = RxHead /\ ev' = ev /\ done' = done
  BY DEF NicComplete, RxTail, RxHead, thread, irq
<1>2. CASE r = "tx"
  <2>1. nic'["rx"] = nic["rx"]
    BY <1>2 DEF NicComplete, IInv, TypeOK
  <2>2. QED
    BY <1>1, <2>1, SameQueue DEF Queue!vars
<1>3. CASE r = "rx"
  <2> DEFINE x == nic["rx"]
  <2>1. x \in Slots /\ RxHead \in Slots /\ RxTail \in Slots /\ owned["rx"][x]
    BY <1>3, QueueShape DEF IInv, TypeOK, NicComplete
  <2>2. In(x, x, RxTail)
    BY <2>1, EndsOfQueue DEF IInv, OwnInv
  <2>3. In(x, RxHead, RxTail)
    BY <2>1, <2>2, InEnds, EndsOfQueue DEF IInv, PlaceInv
  <2>4. nic'["rx"] = Succ(x)
    BY <1>3, <2>1 DEF NicComplete, IInv, TypeOK, PlaceInv, Succ
  <2>5. Distance(RxHead, x) < Distance(RxHead, RxTail)
    BY <2>1, <2>3, DistanceIn
  <2>6. Succ(x) # RxHead
    BY <2>1, <2>3, RingAssumption DEF In, Succ
  <2>7. Distance(RxHead, Succ(x)) = Distance(RxHead, x) + 1
    BY <2>1, <2>6, DistanceGrow
  <2>8. RxQueue' = RxQueue
    BY <1>1 DEF RxQueue, Distance
  <2>9. Distance(RxHead, nic["rx"])' = Distance(RxHead, Succ(x))
    BY <1>1, <2>4 DEF Distance
  <2>10. QED
    BY <1>1, <2>5, <2>7, <2>8, <2>9, QueueShape DEF Queue!Serve
<1>4. QED
  BY <1>2, <1>3

\* d[0] = desc0 appends the request of the call to the queue, if the call is
\* one of r8169_rx_packet.
LEMMA AcceptQueue ==
  ASSUME IInv, SetOwn
  PROVE  \/ \E q \in Requests : Queue!Accept(q)
         \/ UNCHANGED Queue!vars
<1>1. RxHead' = RxHead /\ ev' = ev /\ done' = done /\ nic' = nic
  BY DEF SetOwn, Step, RxHead, irq, device
<1>2. CASE call.ring # "rx"
  <2>1. RxTail' = RxTail
    BY <1>2 DEF SetOwn, Step, RxTail, IInv, TypeOK
  <2>2. QED
    BY <1>1, <2>1, SameQueue DEF Queue!vars
<1>3. CASE call.ring = "rx"
  <2> DEFINE p == pos["rx"]
             q == call.req
             d == Distance(RxHead, RxTail)
  <2>1. pc = "own" /\ RxTail = p /\ RxTail' = Succ(p)
    BY <1>3 DEF SetOwn, Step, RxTail, IInv, TypeOK
  <2>2. p \in Slots /\ q \in Requests /\ RxHead \in Slots /\ d \in Slots
    BY <2>1, QueueShape DEF IInv, TypeOK
  <2>3. Succ(p) # RxHead
    BY <1>3, <2>1, EndsOfQueue DEF IInv, RoomInv
  <2>4. Len(RxQueue) = d /\ d < NumBuffer - 1
    BY <2>1, <2>2, <2>3, QueueShape, DistanceLast
  <2>5. ~Queue!InQueue(q)
    <3> SUFFICES ASSUME NEW k \in 1..d, RxQueue[k] = q PROVE FALSE
      BY <2>4 DEF Queue!InQueue
    <3> DEFINE i == Nth(RxHead, k - 1)
    <3>1. In(i, HeadOf("rx"), TailOf("rx")) /\ i \in Slots /\ ev["rx"][i] = q
      BY <2>2, QueueShape, NthValue, EndsOfQueue
    <3>2. buf["rx"][i] = q
      BY <3>1 DEF IInv, WindowInv
    <3>3. QED
      BY <2>1, <3>1, <3>2 DEF IInv, CallInv
  <2>6. q \notin done
    BY <2>1 DEF IInv, CallInv, DoneInv
  <2>7. RxQueue' = Append(RxQueue, q)
    <3>1. Distance(RxHead, RxTail)' = d + 1
      BY <1>1, <2>1, <2>2, <2>3, DistanceGrow DEF Distance
    <3>2. ev["rx"][(RxHead + (d + 1) - 1) % NumBuffer] = q
      <4>1. RxHead + (d + 1) - 1 = RxHead + d
        BY <2>2, RingAssumption
      <4>2. Nth(RxHead, d) = p
        BY <2>1, <2>2, NthEnd
      <4>3. ev["rx"][p] = q
        BY <1>3, <2>1 DEF IInv, CallInv
      <4>4. QED
        BY <4>1, <4>2, <4>3 DEF Nth
    <3>3. RxQueue' = [k \in 1..(d + 1) |-> ev["rx"][(RxHead + k - 1) % NumBuffer]]
      BY <1>1, <3>1 DEF RxQueue
    <3>4. RxQueue = [k \in 1..d |-> ev["rx"][(RxHead + k - 1) % NumBuffer]]
      BY DEF RxQueue
    <3>5. d \in Nat /\ RxQueue \in Seq(Requests)
      BY <2>2, QueueShape, RingAssumption
    <3> DEFINE e(k) == ev["rx"][(RxHead + k - 1) % NumBuffer]
    <3> HIDE DEF e, d
    <3>6. RxQueue' = [k \in 1..(d + 1) |-> IF k = d + 1 THEN q ELSE RxQueue[k]]
      BY <3>2, <3>3, <3>4, <3>5 DEF e
    <3>7. QED
      BY <2>4, <3>5, <3>6
  <2>8. UNCHANGED Distance(RxHead, nic["rx"])
    BY <1>1 DEF Distance
  <2>9. QED
    BY <1>1, <2>2, <2>4, <2>5, <2>6, <2>7, <2>8 DEF Queue!Accept
<1>4. QED
  BY <1>2, <1>3

\* The handler takes the request at the head of the queue out of it, which
\* the controller has served.
LEMMA ReportQueue == ASSUME IInv, IrqReport PROVE Queue!Report
<1> DEFINE d == Distance(RxHead, RxTail)
           x == nic["rx"]
<1>1. hpc = "scan" /\ hring = "rx" /\ hpos = pos["rx"] /\ pc # "pos"
  BY DEF IrqReport, Handler, IInv, TxInv, ScanInv, LockInv
<1>2. RxHead = own /\ RxTail = pos["rx"] /\ own # pos["rx"] /\ ~owned["rx"][own]
  BY <1>1 DEF RxHead, RxTail, IrqReport, Reportable
<1>3. own \in Slots /\ RxTail \in Slots /\ x \in Slots /\ d \in Slots
  BY <1>2, QueueShape DEF IInv, TypeOK
<1>4. RxHead' = Succ(own) /\ RxTail' = RxTail /\ nic' = nic /\ ev' = ev
  BY <1>1, <1>2 DEF IrqReport, Handler, RxHead, RxTail, desc, device, thread
<1>5. x # own
  <2>1. ~In(own, x, RxTail)
    BY <1>2, <1>3, EndsOfQueue DEF IInv, OwnInv
  <2>2. In(own, own, RxTail)
    BY <1>2, <1>3, InEnds
  <2>3. QED
    BY <2>1, <2>2
<1>6. Distance(own, x) \in Nat /\ Distance(own, x) > 0
  BY <1>3, <1>5, DistanceType, RingAssumption
<1>7. Distance(RxHead, nic["rx"])' = Distance(own, x) - 1
  BY <1>3, <1>4, <1>5, DistanceShrink DEF Distance
<1>8. d > 0 /\ Distance(RxHead, RxTail)' = d - 1
  <2>1. d # 0
    BY <1>2, <1>3, DistanceType
  <2>2. Distance(Succ(own), RxTail) = d - 1
    BY <1>2, <1>3, DistanceShrink
  <2>3. Distance(RxHead, RxTail)' = Distance(Succ(own), RxTail)
    BY <1>4 DEF Distance
  <2>4. QED
    BY <1>3, <2>1, <2>2, <2>3, RingAssumption
<1>9. Head(RxQueue) = ev["rx"][own]
  <2>1. RxQueue[1] = ev["rx"][Nth(RxHead, 1 - 1)]
    BY <1>3, <1>8, QueueShape, RingAssumption
  <2>2. Nth(RxHead, 1 - 1) = own
    BY <1>2, <1>3, NthFirst
  <2>3. Len(RxQueue) # 0 /\ RxQueue \in Seq(Requests)
    BY <1>3, <1>8, QueueShape, RingAssumption
  <2>4. QED
    BY <2>1, <2>2, <2>3
<1>10. RxQueue' = Tail(RxQueue)
  <2> DEFINE e(k) == ev["rx"][(Succ(own) + k - 1) % NumBuffer]
  <2>1. RxQueue' = [k \in 1..(d - 1) |-> e(k)]
    BY <1>4, <1>8 DEF RxQueue
  <2>2. \A k \in 1..(d - 1) : e(k) = RxQueue[k + 1]
    <3> TAKE k \in 1..(d - 1)
    <3>1. /\ k - 1 \in Slots /\ (k - 1) + 1 < NumBuffer /\ (k - 1) + 1 = k
          /\ k + 1 \in 1..d /\ (k + 1) - 1 = k
      BY <1>3, RingAssumption
    <3>2. Succ(own) + k - 1 = Succ(own) + (k - 1)
      BY <1>3, SuccType, RingAssumption
    <3>3. RxQueue[k + 1] = ev["rx"][Nth(RxHead, k)]
      BY <3>1, QueueShape
    <3>4. Nth(Succ(own), k - 1) = Nth(own, k)
      BY <1>3, <3>1, NthShift
    <3>5. QED
      BY <1>2, <3>2, <3>3, <3>4 DEF Nth
  <2>3. RxQueue \in Seq(Requests) /\ Len(RxQueue) = d /\ d \in Nat /\ d > 0
    BY <1>3, <1>8, QueueShape, RingAssumption
  <2> HIDE DEF e, d
  <2>4. Tail(RxQueue) = [k \in 1..(d - 1) |-> RxQueue[k + 1]]
    <3> DEFINE t == [k \in 1..(d - 1) |-> RxQueue[k + 1]]
    <3>1. /\ Tail(RxQueue) \in Seq(Requests)
          /\ Len(Tail(RxQueue)) = d - 1
          /\ \A k \in 1..(d - 1) : Tail(RxQueue)[k] = RxQueue[k + 1]
      BY <2>3, HeadTailProperties
    <3>2. \A k \in 1..(d - 1) : RxQueue[k + 1] \in Requests
      BY <2>3
    <3>3. t \in Seq(Requests) /\ Len(t) = d - 1
      BY <2>3, <3>2
    <3>4. QED
      BY <3>1, <3>3, SeqEqual
  <2>5. QED
    BY <2>1, <2>2, <2>4
<1>11. done' = done \cup {Head(RxQueue)}
  BY <1>1, <1>9 DEF IrqReport
<1>12. QED
  BY <1>2, <1>6, <1>7, <1>10, <1>11 DEF Queue!Report

\* Every step of the driver is a step of the queue or leaves it alone.
LEMMA StepIsQueueStep == IInv /\ [Next]_vars => [Queue!Next]_(Queue!vars)
<1> SUFFICES ASSUME IInv, [Next]_vars PROVE [Queue!Next]_(Queue!vars)
  OBVIOUS
<1>1. CASE UNCHANGED vars
  BY <1>1, OtherSteps
<1>2. CASE \E r \in Rings, q \in Requests : Call(r, q)
  BY <1>2, OtherSteps
<1>3. CASE \E q \in Requests : Consume(q)
  BY <1>3, ConsumeQueue DEF Queue!Next
<1>4. CASE ThreadNext
  BY <1>4, AcceptQueue, OtherSteps DEF ThreadNext, Queue!Next
<1>5. CASE IrqEnter
  BY <1>5, OtherSteps
<1>6. CASE HandlerNext
  BY <1>6, ReportQueue, OtherSteps DEF HandlerNext, Queue!Next
<1>7. CASE NicNext
  BY <1>7, ServeQueue, OtherSteps DEF NicNext, Queue!Next
<1>8. QED
  BY <1>1, <1>2, <1>3, <1>4, <1>5, <1>6, <1>7 DEF Next

\* The ring r8169_init leaves behind is the empty queue.
LEMMA InitIsQueueInit == Init => Queue!Init
<1> SUFFICES ASSUME Init PROVE Queue!Init
  OBVIOUS
<1>1. RxHead = 0 /\ RxTail = 0 /\ nic["rx"] = 0 /\ done = {}
  BY DEF Init, RxHead, RxTail
<1>2. Distance(0, 0) = 0
  BY DEF Distance
<1>3. RxQueue = <<>>
  BY <1>1, <1>2 DEF RxQueue
<1>4. QED
  BY <1>1, <1>2, <1>3 DEF Queue!Init

\* The receive side of r8169.c is a queue of at most R8169_NUM_BUFFER - 1
\* buffers that are served, and reported once each, in the order of their
\* acceptance.
THEOREM ReceiveRingIsQueue == Spec => ImplementsQueue
BY InitIsQueueInit, StepIsQueueStep, IInvariance, PTL
   DEF Spec, ImplementsQueue, Queue!Spec

=============================================================================
