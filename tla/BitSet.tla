------------------------------- MODULE BitSet -------------------------------
(***************************************************************************)
(* A bit tree as its clients see it: a set of bit numbers from which the   *)
(* highest can be taken.  The header says otherwise of the taking: lowest  *)
(* bit, negative if there is none (npr/bittree.h:22-23); npr_bittree_get   *)
(* looks for the highest bit of every word (npr/bittree.c:154-157) and has *)
(* no test for an empty tree.                                              *)
(***************************************************************************)
EXTENDS Naturals

CONSTANT NumBits

VARIABLES
  bits,             \* the bits that are set
  got               \* the result of the last get, or None
CONSTANT None

vars == <<bits, got>>

Init ==
  /\ bits = {}
  /\ got = None

Set(i) ==
  /\ bits' = bits \cup {i}
  /\ UNCHANGED got

Clear(i) ==
  /\ bits' = bits \ {i}
  /\ UNCHANGED got

\* The highest bit is taken.
Get ==
  \E i \in bits :
    /\ \A k \in bits : k <= i
    /\ bits' = bits \ {i}
    /\ got' = i

Next == (\E i \in 0..(NumBits - 1) : Set(i) \/ Clear(i)) \/ Get

Spec == Init /\ [][Next]_vars

=============================================================================
