---------------------------- MODULE RequestQueue ----------------------------
(***************************************************************************)
(* What an asynchronous ring driver promises its clients.  A request that  *)
(* was accepted is served by the device in the order of acceptance, and    *)
(* its completion is reported once, in the same order, after the device    *)
(* has served it.                                                          *)
(***************************************************************************)
EXTENDS Naturals, Sequences

CONSTANTS
  Requests,         \* the requests: a buffer and the event that reports it
  Capacity          \* how many may be accepted and not yet reported

VARIABLES
  queue,            \* accepted and not reported, oldest first
  served,           \* how many at the head of queue the device has served
  done              \* reported, and not yet seen by the client

vars == <<queue, served, done>>

InQueue(q) == \E i \in 1..Len(queue) : queue[i] = q

Init ==
  /\ queue = <<>>
  /\ served = 0
  /\ done = {}

Accept(q) ==
  /\ Len(queue) < Capacity
  /\ ~InQueue(q)
  /\ q \notin done
  /\ queue' = Append(queue, q)
  /\ UNCHANGED <<served, done>>

Serve ==
  /\ served < Len(queue)
  /\ served' = served + 1
  /\ UNCHANGED <<queue, done>>

Report ==
  /\ served > 0
  /\ done' = done \cup {Head(queue)}
  /\ queue' = Tail(queue)
  /\ served' = served - 1

Consume(q) ==
  /\ q \in done
  /\ done' = done \ {q}
  /\ UNCHANGED <<queue, served>>

Next ==
  \/ Serve
  \/ Report
  \/ \E q \in Requests : Accept(q) \/ Consume(q)

Spec == Init /\ [][Next]_vars

=============================================================================
