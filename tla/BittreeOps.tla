----------------------------- MODULE BittreeOps -----------------------------
(***************************************************************************)
(* npr/bittree.c: the functions on a bit tree, a bitmap under three levels *)
(* of summary words.  A word is the set of the positions of its bits that  *)
(* are one; the buffer is a function from word indices.  Words outside the *)
(* buffer, which only get can reach, read as zero and swallow writes.      *)
(***************************************************************************)
EXTENDS Integers, FiniteSetsExt

CONSTANTS
  WordBits,         \* BITTREE_WORD_NUM_BITS (64)
  IntBits           \* the bits of an int (32)

ASSUME WordAssumption ==
  /\ WordBits \in Nat \ {0}
  /\ IntBits \in 1..WordBits

CeilDiv(n, d) == (n + d - 1) \div d

L3Size(n) == CeilDiv(n, WordBits)
L2Size(n) == CeilDiv(L3Size(n), WordBits)
L1Size(n) == CeilDiv(L2Size(n), WordBits)

\* npr_bittree_byte_size, in words.
Size(n) == 1 + L1Size(n) + L2Size(n) + L3Size(n)

\* npr_bittree_init: offsets[0] and offsets[1].
Layout(n) == [l2 |-> 1 + L1Size(n), l3 |-> 1 + L1Size(n) + L2Size(n)]

\* A buffer after memset(buffer, 0, npr_bittree_byte_size(n)).
Zeros(n) == [i \in 0..(Size(n) - 1) |-> {}]

\* The tree as a set of bit numbers.
BitsOf(t, p, n) ==
  {i \in 0..(n - 1) : (i % WordBits) \in p[t.l3 + i \div WordBits]}

-----------------------------------------------------------------------------

\* The words that bit i has a part in.
Word3(i) == i \div WordBits
Word2(i) == Word3(i) \div WordBits
Word1(i) == Word2(i) \div WordBits

\* Mutant: one summary level is forgotten.
SetBitTwoLevels(t, p, i) ==
  [p EXCEPT ![t.l3 + Word3(i)] = @ \cup {i % WordBits},
            ![1 + Word1(i)] = @ \cup {Word2(i) % WordBits},
            ![0] = @ \cup {Word1(i) % WordBits}]

SetBit(t, p, i) ==
  [p EXCEPT ![t.l3 + Word3(i)] = @ \cup {i % WordBits},
            ![t.l2 + Word2(i)] = @ \cup {Word3(i) % WordBits},
            ![1 + Word1(i)] = @ \cup {Word2(i) % WordBits},
            ![0] = @ \cup {Word1(i) % WordBits}]

\* npr_bittree_p: the int made of the other bits of the word is not zero.
TestBit(t, p, i) ==
  \E b \in p[t.l3 + Word3(i)] \ {i % WordBits} : b < IntBits

\* Mutant: a summary bit is cleared together with the first bit below it.
SummaryAlways(word, child, b) == word \ {b}

\* A word without the bit of a child that has become zero.
Summary(word, child, b) == IF child = {} THEN word \ {b} ELSE word

ClearBit(t, p, i) ==
  LET b3 == p[t.l3 + Word3(i)] \ {i % WordBits}
      b2 == Summary(p[t.l2 + Word2(i)], b3, Word3(i) % WordBits)
      b1 == Summary(p[1 + Word1(i)], b2, Word2(i) % WordBits)
      b0 == Summary(p[0], b1, Word1(i) % WordBits)
  IN [p EXCEPT ![t.l3 + Word3(i)] = b3, ![t.l2 + Word2(i)] = b2,
               ![1 + Word1(i)] = b1, ![0] = b0]

-----------------------------------------------------------------------------
(* npr_bittree_get.                                                        *)

\* __bsrq: the highest bit of a word; undefined for zero.
Bsr(word) == IF word = {} THEN 0..(WordBits - 1) ELSE {Max(word)}

At(p, i) == IF i \in DOMAIN p THEN p[i] ELSE {}

\* The positions found on the way down, for the index of each next word the
\* position in the word before it.
GetPaths(t, p) ==
  {path \in [1..4 -> 0..(WordBits - 1)] :
     /\ path[1] \in Bsr(p[0])
     /\ path[2] \in Bsr(At(p, 1 + path[1]))
     /\ path[3] \in Bsr(At(p, t.l2 + path[2]))
     /\ path[4] \in Bsr(At(p, t.l3 + path[3]))}

\* Mutant: the levels are combined in the wrong order.
GetResultReversed(path) ==
  ((path[4] * WordBits + path[3]) * WordBits + path[2]) * WordBits + path[1]

GetResult(path) ==
  ((path[1] * WordBits + path[2]) * WordBits + path[3]) * WordBits + path[4]

\* The four words written back, the highest level last.
GetWrites(t, p, path) ==
  LET b3 == At(p, t.l3 + path[3]) \ {path[4]}
      b2 == Summary(At(p, t.l2 + path[2]), b3, path[3])
      b1 == Summary(At(p, 1 + path[1]), b2, path[2])
      b0 == Summary(p[0], b1, path[1])
  IN [i \in DOMAIN p |->
        CASE i = 0 -> b0
          [] i = 1 + path[1] -> b1
          [] i = t.l2 + path[2] -> b2
          [] i = t.l3 + path[3] -> b3
          [] OTHER -> p[i]]

=============================================================================
