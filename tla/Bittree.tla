------------------------------ MODULE Bittree -------------------------------
(***************************************************************************)
(* A bit tree of npr/bittree.c used by one client: bits are set, cleared   *)
(* and taken in any order.                                                 *)
(***************************************************************************)
EXTENDS BittreeOps

CONSTANTS
  NumBits,          \* num_bits
  None

ASSUME SizeAssumption == NumBits \in Nat \ {0}

VARIABLES
  p,                \* buffer
  got               \* the result of the last get, or None

vars == <<p, got>>

Tree == Layout(NumBits)
BitNumbers == 0..(NumBits - 1)
Bits == BitsOf(Tree, p, NumBits)

TypeOK ==
  /\ p \in [0..(Size(NumBits) - 1) -> SUBSET (0..(WordBits - 1))]
  /\ got \in BitNumbers \cup {None}

Init ==
  /\ p = Zeros(NumBits)
  /\ got = None

Set(i) ==
  /\ p' = SetBit(Tree, p, i)
  /\ UNCHANGED got

Clear(i) ==
  /\ p' = ClearBit(Tree, p, i)
  /\ UNCHANGED got

\* NPR_BITTREE_HAVE_BITS.
HaveBits == p[0] # {}

\* Mutant: the bit is found and not cleared.
DoGetKeep ==
  \E path \in GetPaths(Tree, p) :
    /\ got' = GetResult(path)
    /\ UNCHANGED p

\* npr_bittree_get.
DoGet ==
  \E path \in GetPaths(Tree, p) :
    /\ got' = GetResult(path)
    /\ p' = GetWrites(Tree, p, path)

\* A client asks for a bit after it has seen that there is one.
Get == HaveBits /\ DoGet

Next == (\E i \in BitNumbers : Set(i) \/ Clear(i)) \/ Get

Spec == Init /\ [][Next]_vars

-----------------------------------------------------------------------------
(* Properties.                                                             *)

\* The positions of the words below word w of a level that are not zero: the
\* level below has m words, at off.
Children(words, off, m, w) ==
  {b \in 0..(WordBits - 1) :
     /\ w * WordBits + b < m
     /\ words[off + w * WordBits + b] # {}}

\* Every summary word holds exactly the positions of the words below it that
\* are not zero, and no bit for a word that does not exist.
SummariesOf(words, n) ==
  /\ \A w \in 0..(L2Size(n) - 1) :
       words[Layout(n).l2 + w] = Children(words, Layout(n).l3, L3Size(n), w)
  /\ \A w \in 0..(L1Size(n) - 1) :
       words[1 + w] = Children(words, Layout(n).l2, L2Size(n), w)
  /\ words[0] = Children(words, 1, L1Size(n), 0)

Summaries == SummariesOf(p, NumBits)

\* The test of the root word that clients use is exact.
HaveBitsIsExact == HaveBits <=> Bits # {}

\* Set and clear do to the bits of the tree what they do to a set, and get
\* takes the highest of them (bittree.c:135-178), which is not what the header
\* calls "ffs" (bittree.h:22).
Abstract == INSTANCE BitSet WITH bits <- Bits
ImplementsBitSet == Abstract!Spec

=============================================================================
