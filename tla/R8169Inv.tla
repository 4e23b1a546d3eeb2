------------------------------ MODULE R8169Inv ------------------------------
(***************************************************************************)
(* The inductive invariant of R8169.  On each ring the slots that hold a   *)
(* request lie between Head and Tail; the controller has finished with the *)
(* ones before nic and owns the ones from nic on.                          *)
(***************************************************************************)
EXTENDS R8169

\* Slot i lies in the half-open stretch of the ring from a to b.
In(i, a, b) == IF a <= b THEN a <= i /\ i < b ELSE a <= i \/ i < b

\* The handler's own position while it scans ring r, and the position the
\* thread is about to store while it enqueues on it.
HeadOf(r) == IF hring = r /\ hpc \in {"lock", "scan", "store"}
             THEN own ELSE ownPos[r]
TailOf(r) == IF pc = "pos" /\ call.ring = r THEN Succ(pos[r]) ELSE pos[r]

\* Interrupts are off exactly in the handler and in the critical sections.
FlagInv ==
  enabled <=> hpc = "off" /\ pc \notin {"acquire", "own", "pos", "unlock"}

LockInv ==
  /\ pc \in {"own", "pos", "unlock"} => lock[call.ring]
  /\ hpc # "off" => pc \notin {"acquire", "own", "pos", "unlock"}
  /\ lock["rx"] => \/ pc \in {"own", "pos", "unlock"} /\ call.ring = "rx"
                   \/ hpc \in {"scan", "store"}

\* tx_lock is never released, so the transmit ring carries one request at
\* most and the handler never gets past its lock.
TxInv ==
  /\ "tx" \in status \cup bits => lock["tx"]
  /\ \A i \in Slots : owned["tx"][i] => lock["tx"]
  /\ hpc = "lock" /\ hring = "tx" => lock["tx"]
  /\ hpc \in {"scan", "store", "exit"} => hring = "rx"
  /\ HeadOf("tx") = 0
  /\ pos["tx"] \in {0, 1}
  /\ pos["tx"] = 1 => lock["tx"]
  /\ pc \in {"own", "pos"} /\ call.ring = "tx" => pos["tx"] = 0

\* The thread has room for the request it is enqueuing.
RoomInv ==
  /\ pc \in {"fill", "cli", "acquire"} /\ call.ring = "rx"
       => Succ(pos["rx"]) # HeadOf("rx")
  /\ pc \in {"own", "pos"} => Succ(pos[call.ring]) # HeadOf(call.ring)

\* The request the thread is enqueuing is in no window yet.
CallInv ==
  /\ pc = "check" => call.req \notin out
  /\ pc \in {"fill", "cli", "acquire", "own"} =>
       /\ call.req \in out \ filled
       /\ \A r \in Rings, i \in Slots :
            In(i, HeadOf(r), TailOf(r)) => buf[r][i] # call.req
  /\ pc \in {"cli", "acquire", "own"} =>
       /\ buf[call.ring][pos[call.ring]] = call.req
       /\ ev[call.ring][pos[call.ring]] = call.req

\* The handler scans up to the current pos.
ScanInv == hpc = "scan" => hpos = pos[hring]

\* The controller lies between Head and Tail, and EOR marks the last slot.
PlaceInv ==
  /\ \A r \in Rings : In(nic[r], HeadOf(r), TailOf(r)) \/ nic[r] = TailOf(r)
  /\ \A r \in Rings, i \in Slots : eor[r][i] <=> i + 1 = NumBuffer

\* The controller owns the slots from nic to Tail, and no others.
OwnInv ==
  \A r \in Rings, i \in Slots : owned[r][i] <=> In(i, nic[r], TailOf(r))

\* A slot of the window holds one outstanding, unreported request, finished
\* by the controller exactly if it is before nic.
WindowInv ==
  \A r \in Rings, i \in Slots : In(i, HeadOf(r), TailOf(r)) =>
    /\ ev[r][i] = buf[r][i]
    /\ buf[r][i] \in out \ done
    /\ buf[r][i] \in filled <=> ~In(i, nic[r], TailOf(r))

DistinctInv ==
  \A r, s \in Rings, i, j \in Slots :
    /\ In(i, HeadOf(r), TailOf(r))
    /\ In(j, HeadOf(s), TailOf(s))
    /\ buf[r][i] = buf[s][j]
    => r = s /\ i = j

DoneInv == done \subseteq filled /\ filled \subseteq out

IInv ==
  /\ TypeOK
  /\ FlagInv
  /\ LockInv
  /\ TxInv
  /\ RoomInv
  /\ CallInv
  /\ ScanInv
  /\ PlaceInv
  /\ OwnInv
  /\ WindowInv
  /\ DistinctInv
  /\ DoneInv

=============================================================================
