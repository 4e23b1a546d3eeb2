--------------------------- MODULE BittreeProofs ----------------------------
(***************************************************************************)
(* Theorems about the bit tree of npr/bittree.c, for every word size, and  *)
(* about its two clients: one that sets, clears and takes bits in any      *)
(* order, and the start of the page allocator.                             *)
(***************************************************************************)
EXTENDS Bittree, PageInit, SequenceLemmas, TLAPS

-----------------------------------------------------------------------------
(* Division.                                                               *)

\* NPR_CEIL_DIV: the number of words that hold n bits.
LEMMA CeilDivBound ==
  ASSUME NEW n \in Nat, NEW d \in Nat \ {0}
  PROVE  /\ CeilDiv(n, d) \in Nat
         /\ n <= CeilDiv(n, d) * d
         /\ CeilDiv(n, d) * d < n + d
<1> DEFINE k == n + d - 1
           q == k \div d
           r == k % d
<1>1. k \in Nat
  OBVIOUS
<1>2. q \in Nat /\ r \in 0..(d - 1) /\ k = q * d + r
  BY <1>1, DivMod
<1> HIDE DEF q, r
<1>3. q * d \in Nat
  BY <1>2
<1>4. n <= q * d /\ q * d < n + d
  BY <1>2, <1>3
<1>5. QED
  BY <1>2, <1>4 DEF CeilDiv, q


\* A bit below n is in one of the words that hold n bits, and every one of
\* them has a bit below n.
LEMMA WordOfBit ==
  ASSUME NEW n \in Nat, NEW k \in Nat
  PROVE  /\ k < n => k \div WordBits < CeilDiv(n, WordBits)
         /\ k < CeilDiv(n, WordBits) => k * WordBits < n
         /\ n <= WordBits => CeilDiv(n, WordBits) <= 1
         /\ n > 0 => CeilDiv(n, WordBits) > 0
<1> DEFINE c == CeilDiv(n, WordBits)
<1>1. WordBits \in Nat \ {0}
  BY WordAssumption
<1>2. c \in Nat /\ n <= c * WordBits /\ c * WordBits < n + WordBits
  BY <1>1, CeilDivBound
<1>3. k \div WordBits \in Nat /\ (k \div WordBits) * WordBits <= k
  BY <1>1, DivMod
<1> HIDE DEF c
<1>4. ASSUME k < n PROVE k \div WordBits < c
  <2>1. ASSUME c <= k \div WordBits PROVE FALSE
    <3>1. c * WordBits <= (k \div WordBits) * WordBits
      BY <1>1, <1>2, <1>3, <2>1, TimesMonotone
    <3>2. QED
      BY <1>1, <1>2, <1>3, <1>4, <3>1
  <2>2. QED
    BY <1>2, <1>3, <2>1
<1>5. ASSUME k < c PROVE k * WordBits < n
  <2>1. (k + 1) * WordBits <= c * WordBits
    BY <1>1, <1>2, <1>5, TimesMonotone
  <2>2. (k + 1) * WordBits = k * WordBits + WordBits
    BY <1>1
  <2>3. QED
    BY <1>1, <1>2, <2>1, <2>2
<1>6. ASSUME n <= WordBits PROVE c <= 1
  <2>1. ASSUME 2 <= c PROVE FALSE
    <3>1. 2 * WordBits <= c * WordBits
      BY <1>1, <1>2, <2>1, TimesMonotone
    <3>2. QED
      BY <1>1, <1>2, <1>6, <3>1
  <2>2. QED
    BY <1>2, <2>1
<1>7. n > 0 => c > 0
  BY <1>1, <1>2
<1>8. QED
  BY <1>4, <1>5, <1>6, <1>7 DEF c

-----------------------------------------------------------------------------
(* The words of a tree.                                                    *)

\* A buffer of n bits.
Buffer(n) == [0..(Size(n) - 1) -> SUBSET (0..(WordBits - 1))]

\* No bit is set behind the last one.
NoBitBehind(words, n) ==
  \A w \in 0..(L3Size(n) - 1) :
    \A b \in words[Layout(n).l3 + w] : w * WordBits + b < n

\* The levels follow each other in the buffer.
LEMMA Sizes ==
  ASSUME NEW n \in Nat
  PROVE  /\ L1Size(n) \in Nat /\ L2Size(n) \in Nat /\ L3Size(n) \in Nat
         /\ Layout(n).l2 = 1 + L1Size(n)
         /\ Layout(n).l3 = Layout(n).l2 + L2Size(n)
         /\ Size(n) = Layout(n).l3 + L3Size(n)
         /\ Layout(n).l2 \in Nat /\ Layout(n).l3 \in Nat /\ Size(n) \in Nat
<1>1. /\ L3Size(n) \in Nat
      /\ L2Size(n) \in Nat
      /\ L1Size(n) \in Nat
  BY WordAssumption, CeilDivBound DEF L1Size, L2Size, L3Size
<1>2. QED
  BY <1>1 DEF Layout, Size

\* The words that a bit of the tree has a part in are words of their levels.
LEMMA WordsOfBit ==
  ASSUME NEW n \in Nat, NEW k \in 0..(n - 1)
  PROVE  /\ Word3(k) \in 0..(L3Size(n) - 1)
         /\ Word2(k) \in 0..(L2Size(n) - 1)
         /\ Word1(k) \in 0..(L1Size(n) - 1)
         /\ k % WordBits \in 0..(WordBits - 1)
         /\ Word3(k) % WordBits \in 0..(WordBits - 1)
         /\ Word2(k) % WordBits \in 0..(WordBits - 1)
         /\ Word1(k) % WordBits \in 0..(WordBits - 1)
<1>1. WordBits \in Nat \ {0}
  BY WordAssumption
<1>b. k \in Nat /\ k < n
  OBVIOUS
<1>2. Word3(k) \in Nat /\ Word3(k) < L3Size(n) /\ k % WordBits \in 0..(WordBits - 1)
  BY <1>1, <1>b, DivMod, WordOfBit DEF Word3, L3Size
<1>3. /\ Word2(k) \in Nat /\ Word2(k) < L2Size(n)
      /\ Word3(k) % WordBits \in 0..(WordBits - 1)
  BY <1>1, <1>2, Sizes, DivMod, WordOfBit DEF Word2, L2Size
<1>4. /\ Word1(k) \in Nat /\ Word1(k) < L1Size(n)
      /\ Word2(k) % WordBits \in 0..(WordBits - 1)
  BY <1>1, <1>3, Sizes, DivMod, WordOfBit DEF Word1, L1Size
<1>5. Word1(k) % WordBits \in 0..(WordBits - 1)
  BY <1>1, <1>4, DivMod
<1>6. L1Size(n) \in Nat /\ L2Size(n) \in Nat /\ L3Size(n) \in Nat
  BY Sizes
<1>7. QED
  BY <1>2, <1>3, <1>4, <1>5, <1>6

\* A buffer in which one word of every level is changed.
FourWords(words, n, w3, w2, w1, v3, v2, v1, v0) ==
  [words EXCEPT ![Layout(n).l3 + w3] = v3, ![Layout(n).l2 + w2] = v2,
                ![1 + w1] = v1, ![0] = v0]

\* The words of such a buffer.
ChangedAt(new, words, n, w3, w2, w1, v3, v2, v1, v0) ==
  /\ \A w \in 0..(L3Size(n) - 1) :
       new[Layout(n).l3 + w] = IF w = w3 THEN v3 ELSE words[Layout(n).l3 + w]
  /\ \A w \in 0..(L2Size(n) - 1) :
       new[Layout(n).l2 + w] = IF w = w2 THEN v2 ELSE words[Layout(n).l2 + w]
  /\ \A w \in 0..(L1Size(n) - 1) :
       new[1 + w] = IF w = w1 THEN v1 ELSE words[1 + w]
  /\ new[0] = v0

LEMMA FourWordsOf ==
  ASSUME NEW n \in Nat, NEW words \in Buffer(n),
         NEW w3 \in 0..(L3Size(n) - 1), NEW w2 \in 0..(L2Size(n) - 1),
         NEW w1 \in 0..(L1Size(n) - 1),
         NEW v3 \in SUBSET (0..(WordBits - 1)), NEW v2 \in SUBSET (0..(WordBits - 1)),
         NEW v1 \in SUBSET (0..(WordBits - 1)), NEW v0 \in SUBSET (0..(WordBits - 1)),
         NEW new, new = FourWords(words, n, w3, w2, w1, v3, v2, v1, v0)
  PROVE  new \in Buffer(n) /\ ChangedAt(new, words, n, w3, w2, w1, v3, v2, v1, v0)
<1> DEFINE t == Layout(n)
           x3 == t.l3 + w3
           x2 == t.l2 + w2
           x1 == 1 + w1
<1>1. /\ L1Size(n) \in Nat /\ L2Size(n) \in Nat /\ L3Size(n) \in Nat
      /\ t.l2 = 1 + L1Size(n) /\ t.l3 = t.l2 + L2Size(n)
      /\ Size(n) = t.l3 + L3Size(n)
  BY Sizes
<1>2. new = [words EXCEPT ![x3] = v3, ![x2] = v2, ![x1] = v1, ![0] = v0]
  BY DEF FourWords
<1>3. words \in [0..(Size(n) - 1) -> SUBSET (0..(WordBits - 1))]
  BY DEF Buffer
<1> HIDE DEF t
<1>4. /\ x3 \in 0..(Size(n) - 1) /\ x2 \in 0..(Size(n) - 1)
      /\ x1 \in 0..(Size(n) - 1) /\ 0 \in 0..(Size(n) - 1)
      /\ x3 # x2 /\ x3 # x1 /\ x3 # 0 /\ x2 # x1 /\ x2 # 0 /\ x1 # 0
  BY <1>1
<1> HIDE DEF x3, x2, x1
<1>5. /\ new \in [0..(Size(n) - 1) -> SUBSET (0..(WordBits - 1))]
      /\ new[x3] = v3 /\ new[x2] = v2 /\ new[x1] = v1 /\ new[0] = v0
      /\ \A x \in (0..(Size(n) - 1)) \ {x3, x2, x1, 0} : new[x] = words[x]
  BY <1>2, <1>3, <1>4
<1>6. ASSUME NEW w \in 0..(L3Size(n) - 1)
      PROVE  new[t.l3 + w] = IF w = w3 THEN v3 ELSE words[t.l3 + w]
  <2>1. w # w3 => t.l3 + w \in (0..(Size(n) - 1)) \ {x3, x2, x1, 0}
    BY <1>1 DEF x3, x2, x1
  <2>2. QED
    BY <1>5, <2>1 DEF x3
<1>7. ASSUME NEW w \in 0..(L2Size(n) - 1)
      PROVE  new[t.l2 + w] = IF w = w2 THEN v2 ELSE words[t.l2 + w]
  <2>1. w # w2 => t.l2 + w \in (0..(Size(n) - 1)) \ {x3, x2, x1, 0}
    BY <1>1 DEF x3, x2, x1
  <2>2. QED
    BY <1>5, <2>1 DEF x2
<1>8. ASSUME NEW w \in 0..(L1Size(n) - 1)
      PROVE  new[1 + w] = IF w = w1 THEN v1 ELSE words[1 + w]
  <2>1. w # w1 => 1 + w \in (0..(Size(n) - 1)) \ {x3, x2, x1, 0}
    BY <1>1 DEF x3, x2, x1
  <2>2. QED
    BY <1>5, <2>1 DEF x1
<1>9. QED
  BY <1>5, <1>6, <1>7, <1>8 DEF Buffer, ChangedAt, t

\* The four words that a bit has a part in are four words of the buffer.
LEMMA WordPlaces ==
  ASSUME NEW n \in Nat, NEW k \in 0..(n - 1)
  PROVE  LET x3 == Layout(n).l3 + Word3(k)
             x2 == Layout(n).l2 + Word2(k)
             x1 == 1 + Word1(k)
         IN  /\ x3 \in 0..(Size(n) - 1) /\ x2 \in 0..(Size(n) - 1)
             /\ x1 \in 0..(Size(n) - 1) /\ 0 \in 0..(Size(n) - 1)
             /\ x3 # x2 /\ x3 # x1 /\ x3 # 0 /\ x2 # x1 /\ x2 # 0 /\ x1 # 0
<1>1. /\ Word3(k) \in 0..(L3Size(n) - 1) /\ Word2(k) \in 0..(L2Size(n) - 1)
      /\ Word1(k) \in 0..(L1Size(n) - 1)
  BY WordsOfBit
<1>2. /\ L1Size(n) \in Nat /\ L2Size(n) \in Nat /\ L3Size(n) \in Nat
      /\ Layout(n).l2 = 1 + L1Size(n) /\ Layout(n).l3 = Layout(n).l2 + L2Size(n)
      /\ Size(n) = Layout(n).l3 + L3Size(n)
  BY Sizes
<1>3. QED
  BY <1>1, <1>2

\* Every word of the buffer is in one of the levels.
LEMMA EveryPlace ==
  ASSUME NEW n \in Nat, NEW x \in 0..(Size(n) - 1)
  PROVE  \/ x = 0
         \/ \E w \in 0..(L1Size(n) - 1) : x = 1 + w
         \/ \E w \in 0..(L2Size(n) - 1) : x = Layout(n).l2 + w
         \/ \E w \in 0..(L3Size(n) - 1) : x = Layout(n).l3 + w
<1>1. /\ L1Size(n) \in Nat /\ L2Size(n) \in Nat /\ L3Size(n) \in Nat
      /\ Layout(n).l2 = 1 + L1Size(n) /\ Layout(n).l3 = Layout(n).l2 + L2Size(n)
      /\ Size(n) = Layout(n).l3 + L3Size(n)
  BY Sizes
<1>2. CASE x = 0
  BY <1>2
<1>3. CASE 0 < x /\ x < Layout(n).l2
  <2>1. x - 1 \in 0..(L1Size(n) - 1) /\ x = 1 + (x - 1)
    BY <1>1, <1>3
  <2>2. QED
    BY <2>1
<1>4. CASE Layout(n).l2 <= x /\ x < Layout(n).l3
  <2>1. x - Layout(n).l2 \in 0..(L2Size(n) - 1) /\ x = Layout(n).l2 + (x - Layout(n).l2)
    BY <1>1, <1>4
  <2>2. QED
    BY <2>1
<1>5. CASE Layout(n).l3 <= x
  <2>1. x - Layout(n).l3 \in 0..(L3Size(n) - 1) /\ x = Layout(n).l3 + (x - Layout(n).l3)
    BY <1>1, <1>5
  <2>2. QED
    BY <2>1
<1>6. QED
  BY <1>1, <1>2, <1>3, <1>4, <1>5

\* npr_bittree_set changes one word of every level.
LEMMA SetBitWords ==
  ASSUME NEW n \in Nat, NEW k \in 0..(n - 1), NEW words \in Buffer(n)
  PROVE  SetBit(Layout(n), words, k) =
           FourWords(words, n, Word3(k), Word2(k), Word1(k),
                     words[Layout(n).l3 + Word3(k)] \cup {k % WordBits},
                     words[Layout(n).l2 + Word2(k)] \cup {Word3(k) % WordBits},
                     words[1 + Word1(k)] \cup {Word2(k) % WordBits},
                     words[0] \cup {Word1(k) % WordBits})
<1> DEFINE x3 == Layout(n).l3 + Word3(k)
           x2 == Layout(n).l2 + Word2(k)
           x1 == 1 + Word1(k)
<1>1. /\ x3 \in 0..(Size(n) - 1) /\ x2 \in 0..(Size(n) - 1)
      /\ x1 \in 0..(Size(n) - 1) /\ 0 \in 0..(Size(n) - 1)
      /\ x3 # x2 /\ x3 # x1 /\ x3 # 0 /\ x2 # x1 /\ x2 # 0 /\ x1 # 0
  BY WordPlaces
<1>2. words \in [0..(Size(n) - 1) -> SUBSET (0..(WordBits - 1))]
  BY DEF Buffer
<1> HIDE DEF x3, x2, x1
<1>3. SetBit(Layout(n), words, k) =
        [words EXCEPT ![x3] = @ \cup {k % WordBits}, ![x2] = @ \cup {Word3(k) % WordBits},
                      ![x1] = @ \cup {Word2(k) % WordBits}, ![0] = @ \cup {Word1(k) % WordBits}]
  BY DEF SetBit, x3, x2, x1
<1>4. SetBit(Layout(n), words, k) =
        [words EXCEPT ![x3] = words[x3] \cup {k % WordBits},
                      ![x2] = words[x2] \cup {Word3(k) % WordBits},
                      ![x1] = words[x1] \cup {Word2(k) % WordBits},
                      ![0] = words[0] \cup {Word1(k) % WordBits}]
  BY <1>1, <1>2, <1>3
<1>5. QED
  BY <1>4 DEF FourWords, x3, x2, x1

\* npr_bittree_clear does too.
LEMMA ClearBitWords ==
  ASSUME NEW n \in Nat, NEW k \in 0..(n - 1), NEW words \in Buffer(n)
  PROVE  LET v3 == words[Layout(n).l3 + Word3(k)] \ {k % WordBits}
             v2 == Summary(words[Layout(n).l2 + Word2(k)], v3, Word3(k) % WordBits)
             v1 == Summary(words[1 + Word1(k)], v2, Word2(k) % WordBits)
             v0 == Summary(words[0], v1, Word1(k) % WordBits)
         IN  ClearBit(Layout(n), words, k) =
               FourWords(words, n, Word3(k), Word2(k), Word1(k), v3, v2, v1, v0)
BY DEF ClearBit, FourWords

-----------------------------------------------------------------------------
(* Summary levels.                                                         *)

\* Every one of the parents words at up holds the positions of the words
\* below it, which are the first of the m words at off.
Exact(words, up, parents, off, m) ==
  \A w \in 0..(parents - 1) : words[up + w] = Children(words, off, m, w)

LEMMA SummariesAreExact ==
  ASSUME NEW n \in Nat, NEW words
  PROVE  SummariesOf(words, n) <=>
           /\ Exact(words, Layout(n).l2, L2Size(n), Layout(n).l3, L3Size(n))
           /\ Exact(words, 1, L1Size(n), Layout(n).l2, L2Size(n))
           /\ Exact(words, 0, 1, 1, L1Size(n))
BY DEF SummariesOf, Exact

\* The word below word w at position b is the only one of that number.
LEMMA ChildNumber ==
  ASSUME NEW w \in Nat, NEW b \in 0..(WordBits - 1), NEW k \in Nat
  PROVE  /\ w * WordBits + b \in Nat
         /\ w * WordBits + b = k <=> w = k \div WordBits /\ b = k % WordBits
<1>1. WordBits \in Nat \ {0}
  BY WordAssumption
<1>2. /\ w * WordBits + b \in Nat
      /\ (w * WordBits + b) \div WordBits = w /\ (w * WordBits + b) % WordBits = b
  BY <1>1, DivModUnique
<1>3. k = (k \div WordBits) * WordBits + (k % WordBits)
  BY <1>1, DivMod
<1>4. QED
  BY <1>2, <1>3

\* Of the m words at off only word k has changed.
OnlyChange(old, new, off, m, k) ==
  \A c \in 0..(m - 1) : c # k => new[off + c] = old[off + c]

\* When one word changes, only its own position in the word above it does.
LEMMA ChildChanges ==
  ASSUME NEW off \in Nat, NEW m \in Nat, NEW k \in 0..(m - 1), NEW old, NEW new,
         OnlyChange(old, new, off, m, k),
         NEW w \in Nat
  PROVE  /\ w # k \div WordBits => Children(new, off, m, w) = Children(old, off, m, w)
         /\ w = k \div WordBits /\ new[off + k] # {} =>
              Children(new, off, m, w) = Children(old, off, m, w) \cup {k % WordBits}
         /\ w = k \div WordBits /\ new[off + k] = {} =>
              Children(new, off, m, w) = Children(old, off, m, w) \ {k % WordBits}
         /\ w = k \div WordBits /\ old[off + k] # {} =>
              k % WordBits \in Children(old, off, m, w)
<1>1. WordBits \in Nat \ {0}
  BY WordAssumption
<1>2. k \in Nat /\ k < m /\ k % WordBits \in 0..(WordBits - 1)
  BY <1>1, DivMod
<1>3. ASSUME NEW words, NEW b
      PROVE  b \in Children(words, off, m, w) <=>
               /\ b \in 0..(WordBits - 1)
               /\ w * WordBits + b \in 0..(m - 1)
               /\ words[off + (w * WordBits + b)] # {}
  <2>1. ASSUME b \in 0..(WordBits - 1)
        PROVE  /\ w * WordBits + b \in Nat
               /\ off + w * WordBits + b = off + (w * WordBits + b)
    BY <1>1, <2>1
  <2>2. QED
    BY <1>2, <2>1 DEF Children
<1>4. ASSUME NEW b \in 0..(WordBits - 1), w * WordBits + b \in 0..(m - 1),
             ~(w = k \div WordBits /\ b = k % WordBits)
      PROVE  new[off + (w * WordBits + b)] = old[off + (w * WordBits + b)]
  BY <1>2, <1>4, ChildNumber DEF OnlyChange
<1>5. ASSUME w = k \div WordBits
      PROVE  w * WordBits + (k % WordBits) = k
  BY <1>2, <1>5, ChildNumber
<1>6. QED
  BY <1>2, <1>3, <1>4, <1>5

\* A level stays exact when a word below is made non-zero and its bit is set.
LEMMA SetLevel ==
  ASSUME NEW up \in Nat, NEW parents \in Nat, NEW off \in Nat, NEW m \in Nat,
         NEW k \in 0..(m - 1), NEW old, NEW new,
         Exact(old, up, parents, off, m),
         OnlyChange(old, new, off, m, k),
         new[off + k] # {},
         \A w \in 0..(parents - 1) :
           new[up + w] = IF w = k \div WordBits THEN old[up + w] \cup {k % WordBits}
                                                ELSE old[up + w]
  PROVE  Exact(new, up, parents, off, m)
<1> SUFFICES ASSUME NEW w \in 0..(parents - 1)
             PROVE  new[up + w] = Children(new, off, m, w)
  BY DEF Exact
<1>1. old[up + w] = Children(old, off, m, w)
  BY DEF Exact
<1>2. /\ w # k \div WordBits => Children(new, off, m, w) = Children(old, off, m, w)
      /\ w = k \div WordBits /\ new[off + k] # {} =>
           Children(new, off, m, w) = Children(old, off, m, w) \cup {k % WordBits}
  <2>1. w \in Nat
    OBVIOUS
  <2>2. QED
    BY <2>1, ChildChanges
<1>3. QED
  BY <1>1, <1>2

\* A level stays exact when a word below loses bits, and its bit is cleared
\* if it has become zero.
LEMMA ClearLevel ==
  ASSUME NEW up \in Nat, NEW parents \in Nat, NEW off \in Nat, NEW m \in Nat,
         NEW k \in 0..(m - 1), NEW old, NEW new,
         Exact(old, up, parents, off, m),
         OnlyChange(old, new, off, m, k),
         new[off + k] \subseteq old[off + k],
         \A w \in 0..(parents - 1) :
           new[up + w] = IF w = k \div WordBits
                         THEN Summary(old[up + w], new[off + k], k % WordBits)
                         ELSE old[up + w]
  PROVE  Exact(new, up, parents, off, m)
<1> SUFFICES ASSUME NEW w \in 0..(parents - 1)
             PROVE  new[up + w] = Children(new, off, m, w)
  BY DEF Exact
<1>1. old[up + w] = Children(old, off, m, w)
  BY DEF Exact
<1>2. /\ w # k \div WordBits => Children(new, off, m, w) = Children(old, off, m, w)
      /\ w = k \div WordBits /\ new[off + k] # {} =>
           Children(new, off, m, w) = Children(old, off, m, w) \cup {k % WordBits}
      /\ w = k \div WordBits /\ new[off + k] = {} =>
           Children(new, off, m, w) = Children(old, off, m, w) \ {k % WordBits}
      /\ w = k \div WordBits /\ old[off + k] # {} =>
           k % WordBits \in Children(old, off, m, w)
  <2>1. w \in Nat
    OBVIOUS
  <2>2. QED
    BY <2>1, ChildChanges
<1>3. new[up + w] = IF w = k \div WordBits
                    THEN Summary(old[up + w], new[off + k], k % WordBits)
                    ELSE old[up + w]
  OBVIOUS
<1>4. QED
  BY <1>1, <1>2, <1>3 DEF Summary

-----------------------------------------------------------------------------
(* Set and clear, for every tree whose top level is one word.              *)

\* A tree of up to WordBits^4 bits has one word at the top that has a bit for
\* every word of the next level.
LEMMA FourLevels ==
  ASSUME NEW n \in Nat, n <= WordBits * WordBits * WordBits * WordBits
  PROVE  L1Size(n) <= WordBits
<1>1. WordBits \in Nat \ {0}
  BY WordAssumption
<1>2. /\ L1Size(n) \in Nat /\ L2Size(n) \in Nat /\ L3Size(n) \in Nat
  BY Sizes
<1>3. WordBits * WordBits \in Nat /\ WordBits * WordBits * WordBits \in Nat
  BY <1>1
<1> SUFFICES ASSUME WordBits < L1Size(n) PROVE FALSE
  BY <1>1, <1>2
<1>4. WordBits * WordBits < L2Size(n)
  BY <1>1, <1>2, WordOfBit DEF L1Size
<1>5. WordBits * WordBits * WordBits < L3Size(n)
  BY <1>2, <1>3, <1>4, WordOfBit DEF L2Size
<1>6. WordBits * WordBits * WordBits * WordBits < n
  BY <1>3, <1>5, WordOfBit DEF L3Size
<1>7. QED
  BY <1>1, <1>3, <1>6

\* The top word has a bit of its own for a number below WordBits.
LEMMA TopWord ==
  ASSUME NEW k \in Nat, k < WordBits
  PROVE  k \div WordBits = 0 /\ k % WordBits = k
<1>1. 0 * WordBits + k = k /\ WordBits \in Nat \ {0} /\ k \in 0..(WordBits - 1)
  BY WordAssumption
<1>2. QED
  BY <1>1, DivModUnique

\* What the words of a tree must be.
TreeOK(words, n) ==
  /\ words \in Buffer(n)
  /\ SummariesOf(words, n)
  /\ NoBitBehind(words, n)

\* A bit is in the tree if it is in its word.
LEMMA BitInWord ==
  ASSUME NEW n \in Nat, NEW words, NEW k \in 0..(n - 1)
  PROVE  k \in BitsOf(Layout(n), words, n) <=>
           k % WordBits \in words[Layout(n).l3 + Word3(k)]
BY DEF BitsOf, Word3

\* Two bits are the same if their words and their positions are.
LEMMA SameBit ==
  ASSUME NEW k \in Nat, NEW c \in Nat
  PROVE  k = c <=> Word3(k) = Word3(c) /\ k % WordBits = c % WordBits
<1>1. WordBits \in Nat \ {0}
  BY WordAssumption
<1>2. /\ k = Word3(k) * WordBits + (k % WordBits)
      /\ c = Word3(c) * WordBits + (c % WordBits)
  BY <1>1, DivMod DEF Word3
<1>3. QED
  BY <1>2

\* The words after npr_bittree_set.
SetAt(new, words, n, k) ==
  /\ \A w \in 0..(L3Size(n) - 1) :
       new[Layout(n).l3 + w] =
         IF w = Word3(k) THEN words[Layout(n).l3 + w] \cup {k % WordBits}
                         ELSE words[Layout(n).l3 + w]
  /\ \A w \in 0..(L2Size(n) - 1) :
       new[Layout(n).l2 + w] =
         IF w = Word2(k) THEN words[Layout(n).l2 + w] \cup {Word3(k) % WordBits}
                         ELSE words[Layout(n).l2 + w]
  /\ \A w \in 0..(L1Size(n) - 1) :
       new[1 + w] = IF w = Word1(k) THEN words[1 + w] \cup {Word2(k) % WordBits}
                                    ELSE words[1 + w]
  /\ new[0] = words[0] \cup {Word1(k) % WordBits}

LEMMA AfterSet ==
  ASSUME NEW n \in Nat, NEW k \in 0..(n - 1), NEW words \in Buffer(n),
         NEW new, new = SetBit(Layout(n), words, k)
  PROVE  new \in Buffer(n) /\ SetAt(new, words, n, k)
<1> DEFINE v3 == words[Layout(n).l3 + Word3(k)] \cup {k % WordBits}
           v2 == words[Layout(n).l2 + Word2(k)] \cup {Word3(k) % WordBits}
           v1 == words[1 + Word1(k)] \cup {Word2(k) % WordBits}
           v0 == words[0] \cup {Word1(k) % WordBits}
<1>1. /\ Word3(k) \in 0..(L3Size(n) - 1) /\ Word2(k) \in 0..(L2Size(n) - 1)
      /\ Word1(k) \in 0..(L1Size(n) - 1)
      /\ {k % WordBits} \subseteq 0..(WordBits - 1)
      /\ {Word3(k) % WordBits} \subseteq 0..(WordBits - 1)
      /\ {Word2(k) % WordBits} \subseteq 0..(WordBits - 1)
      /\ {Word1(k) % WordBits} \subseteq 0..(WordBits - 1)
  BY WordsOfBit
<1>2. \A x \in 0..(Size(n) - 1) : words[x] \subseteq 0..(WordBits - 1)
  BY DEF Buffer
<1>3. /\ v3 \in SUBSET (0..(WordBits - 1)) /\ v2 \in SUBSET (0..(WordBits - 1))
      /\ v1 \in SUBSET (0..(WordBits - 1)) /\ v0 \in SUBSET (0..(WordBits - 1))
  BY <1>1, <1>2, WordPlaces
<1>4. new = FourWords(words, n, Word3(k), Word2(k), Word1(k), v3, v2, v1, v0)
  BY SetBitWords
<1> HIDE DEF v3, v2, v1, v0
<1>5. /\ new \in Buffer(n)
      /\ ChangedAt(new, words, n, Word3(k), Word2(k), Word1(k), v3, v2, v1, v0)
  BY <1>1, <1>3, <1>4, FourWordsOf
<1>6. QED
  BY <1>5 DEF ChangedAt, SetAt, v3, v2, v1, v0

\* The words after npr_bittree_clear.
ClearedAt(new, words, n, k) ==
  /\ \A w \in 0..(L3Size(n) - 1) :
       new[Layout(n).l3 + w] =
         IF w = Word3(k) THEN words[Layout(n).l3 + w] \ {k % WordBits}
                         ELSE words[Layout(n).l3 + w]
  /\ \A w \in 0..(L2Size(n) - 1) :
       new[Layout(n).l2 + w] =
         IF w = Word2(k) THEN Summary(words[Layout(n).l2 + w],
                                      new[Layout(n).l3 + Word3(k)], Word3(k) % WordBits)
                         ELSE words[Layout(n).l2 + w]
  /\ \A w \in 0..(L1Size(n) - 1) :
       new[1 + w] =
         IF w = Word1(k) THEN Summary(words[1 + w],
                                      new[Layout(n).l2 + Word2(k)], Word2(k) % WordBits)
                         ELSE words[1 + w]
  /\ new[0] = Summary(words[0], new[1 + Word1(k)], Word1(k) % WordBits)
  /\ \A x \in 0..(Size(n) - 1) : new[x] \subseteq words[x]

LEMMA AfterClear ==
  ASSUME NEW n \in Nat, NEW k \in 0..(n - 1), NEW words \in Buffer(n),
         NEW new, new = ClearBit(Layout(n), words, k)
  PROVE  new \in Buffer(n) /\ ClearedAt(new, words, n, k)
<1> DEFINE v3 == words[Layout(n).l3 + Word3(k)] \ {k % WordBits}
           v2 == Summary(words[Layout(n).l2 + Word2(k)], v3, Word3(k) % WordBits)
           v1 == Summary(words[1 + Word1(k)], v2, Word2(k) % WordBits)
           v0 == Summary(words[0], v1, Word1(k) % WordBits)
<1>1. /\ Word3(k) \in 0..(L3Size(n) - 1) /\ Word2(k) \in 0..(L2Size(n) - 1)
      /\ Word1(k) \in 0..(L1Size(n) - 1)
  BY WordsOfBit
<1>2. \A x \in 0..(Size(n) - 1) : words[x] \subseteq 0..(WordBits - 1)
  BY DEF Buffer
<1>3. /\ v3 \in SUBSET (0..(WordBits - 1)) /\ v2 \in SUBSET (0..(WordBits - 1))
      /\ v1 \in SUBSET (0..(WordBits - 1)) /\ v0 \in SUBSET (0..(WordBits - 1))
  BY <1>2, WordPlaces DEF Summary
<1>4. new = FourWords(words, n, Word3(k), Word2(k), Word1(k), v3, v2, v1, v0)
  BY ClearBitWords
<1>5. /\ v3 \subseteq words[Layout(n).l3 + Word3(k)]
      /\ v2 \subseteq words[Layout(n).l2 + Word2(k)]
      /\ v1 \subseteq words[1 + Word1(k)] /\ v0 \subseteq words[0]
  BY DEF Summary
<1>6. /\ v2 = Summary(words[Layout(n).l2 + Word2(k)], v3, Word3(k) % WordBits)
      /\ v1 = Summary(words[1 + Word1(k)], v2, Word2(k) % WordBits)
      /\ v0 = Summary(words[0], v1, Word1(k) % WordBits)
      /\ v3 = words[Layout(n).l3 + Word3(k)] \ {k % WordBits}
  OBVIOUS
<1> HIDE DEF v3, v2, v1, v0
<1>7. /\ new \in Buffer(n)
      /\ ChangedAt(new, words, n, Word3(k), Word2(k), Word1(k), v3, v2, v1, v0)
  BY <1>1, <1>3, <1>4, FourWordsOf
<1>8. ASSUME NEW x \in 0..(Size(n) - 1)
      PROVE  new[x] \subseteq words[x]
  <2>1. CASE x = 0
    BY <1>5, <1>7, <2>1 DEF ChangedAt
  <2>2. CASE \E w \in 0..(L1Size(n) - 1) : x = 1 + w
    BY <1>5, <1>7, <2>2 DEF ChangedAt
  <2>3. CASE \E w \in 0..(L2Size(n) - 1) : x = Layout(n).l2 + w
    BY <1>5, <1>7, <2>3 DEF ChangedAt
  <2>4. CASE \E w \in 0..(L3Size(n) - 1) : x = Layout(n).l3 + w
    BY <1>5, <1>7, <2>4 DEF ChangedAt
  <2>5. QED
    BY <2>1, <2>2, <2>3, <2>4, EveryPlace
<1>9. /\ new[Layout(n).l3 + Word3(k)] = v3 /\ new[Layout(n).l2 + Word2(k)] = v2
      /\ new[1 + Word1(k)] = v1
  BY <1>1, <1>7 DEF ChangedAt
<1>10. QED
  BY <1>6, <1>7, <1>8, <1>9 DEF ChangedAt, ClearedAt

\* npr_bittree_set adds its bit to the tree, whatever the summary words are.
LEMMA SetBitAdds ==
  ASSUME NEW n \in Nat, NEW k \in 0..(n - 1), NEW words \in Buffer(n)
  PROVE  /\ SetBit(Layout(n), words, k) \in Buffer(n)
         /\ BitsOf(Layout(n), SetBit(Layout(n), words, k), n) =
              BitsOf(Layout(n), words, n) \cup {k}
<1> DEFINE new == SetBit(Layout(n), words, k)
<1>1. new \in Buffer(n) /\ SetAt(new, words, n, k)
  BY AfterSet
<1> HIDE DEF new
<1>2. ASSUME NEW c \in 0..(n - 1)
      PROVE  c \in BitsOf(Layout(n), new, n) <=> c \in BitsOf(Layout(n), words, n) \cup {k}
  <2>1. Word3(c) \in 0..(L3Size(n) - 1)
    BY WordsOfBit
  <2>2. k \in Nat /\ c \in Nat
    OBVIOUS
  <2>3. k = c <=> Word3(k) = Word3(c) /\ k % WordBits = c % WordBits
    BY <2>2, SameBit
  <2>4. c % WordBits \in new[Layout(n).l3 + Word3(c)] <=>
          c % WordBits \in words[Layout(n).l3 + Word3(c)] \/ k = c
    BY <1>1, <2>1, <2>3 DEF SetAt
  <2>5. QED
    BY <2>4, BitInWord
<1>3. \A c \in BitsOf(Layout(n), new, n) \cup BitsOf(Layout(n), words, n) \cup {k} : c \in 0..(n - 1)
  BY DEF BitsOf
<1>4. BitsOf(Layout(n), new, n) = BitsOf(Layout(n), words, n) \cup {k}
  BY <1>2, <1>3
<1>5. QED
  BY <1>1, <1>4 DEF new

\* npr_bittree_clear removes its bit from the tree, whatever the summary
\* words are.
LEMMA ClearBitRemoves ==
  ASSUME NEW n \in Nat, NEW k \in 0..(n - 1), NEW words \in Buffer(n)
  PROVE  /\ ClearBit(Layout(n), words, k) \in Buffer(n)
         /\ BitsOf(Layout(n), ClearBit(Layout(n), words, k), n) =
              BitsOf(Layout(n), words, n) \ {k}
<1> DEFINE new == ClearBit(Layout(n), words, k)
<1>1. new \in Buffer(n) /\ ClearedAt(new, words, n, k)
  BY AfterClear
<1> HIDE DEF new
<1>2. ASSUME NEW c \in 0..(n - 1)
      PROVE  c \in BitsOf(Layout(n), new, n) <=> c \in BitsOf(Layout(n), words, n) \ {k}
  <2>1. Word3(c) \in 0..(L3Size(n) - 1)
    BY WordsOfBit
  <2>2. k \in Nat /\ c \in Nat
    OBVIOUS
  <2>3. k = c <=> Word3(k) = Word3(c) /\ k % WordBits = c % WordBits
    BY <2>2, SameBit
  <2>4. QED
    BY ZenonT(30), <1>1, <2>1, <2>3, BitInWord DEF ClearedAt
<1>3. \A c \in BitsOf(Layout(n), new, n) \cup BitsOf(Layout(n), words, n) : c \in 0..(n - 1)
  BY DEF BitsOf
<1>4. BitsOf(Layout(n), new, n) = BitsOf(Layout(n), words, n) \ {k}
  BY <1>2, <1>3
<1>5. QED
  BY <1>1, <1>4 DEF new

\* npr_bittree_set keeps every summary word exact.
LEMMA SetBitKeeps ==
  ASSUME NEW n \in Nat, L1Size(n) <= WordBits, NEW k \in 0..(n - 1),
         NEW words, TreeOK(words, n)
  PROVE  TreeOK(SetBit(Layout(n), words, k), n)
<1> DEFINE new == SetBit(Layout(n), words, k)
           t == Layout(n)
<1>1. /\ words \in Buffer(n)
      /\ Exact(words, t.l2, L2Size(n), t.l3, L3Size(n))
      /\ Exact(words, 1, L1Size(n), t.l2, L2Size(n))
      /\ Exact(words, 0, 1, 1, L1Size(n))
      /\ NoBitBehind(words, n)
  BY SummariesAreExact DEF TreeOK
<1>2. new \in Buffer(n) /\ SetAt(new, words, n, k)
  BY <1>1, AfterSet
<1>3. /\ Word3(k) \in 0..(L3Size(n) - 1) /\ Word2(k) \in 0..(L2Size(n) - 1)
      /\ Word1(k) \in 0..(L1Size(n) - 1)
  BY WordsOfBit
<1>4. /\ L1Size(n) \in Nat /\ L2Size(n) \in Nat /\ L3Size(n) \in Nat
      /\ t.l2 \in Nat /\ t.l3 \in Nat
  BY Sizes
<1> HIDE DEF new, t
<1>5. Exact(new, t.l2, L2Size(n), t.l3, L3Size(n))
  <2>1. OnlyChange(words, new, t.l3, L3Size(n), Word3(k)) /\ new[t.l3 + Word3(k)] # {}
    BY <1>2, <1>3 DEF OnlyChange, SetAt, t
  <2>2. \A w \in 0..(L2Size(n) - 1) :
          new[t.l2 + w] = IF w = Word3(k) \div WordBits
                          THEN words[t.l2 + w] \cup {Word3(k) % WordBits}
                          ELSE words[t.l2 + w]
    BY <1>2 DEF Word2, SetAt, t
  <2>3. QED
    BY <1>1, <1>3, <1>4, <2>1, <2>2, SetLevel
<1>6. Exact(new, 1, L1Size(n), t.l2, L2Size(n))
  <2>1. OnlyChange(words, new, t.l2, L2Size(n), Word2(k)) /\ new[t.l2 + Word2(k)] # {}
    BY <1>2, <1>3 DEF OnlyChange, SetAt, t
  <2>2. \A w \in 0..(L1Size(n) - 1) :
          new[1 + w] = IF w = Word2(k) \div WordBits
                       THEN words[1 + w] \cup {Word2(k) % WordBits}
                       ELSE words[1 + w]
    BY <1>2 DEF Word1, SetAt, t
  <2>3. QED
    BY <1>1, <1>3, <1>4, <2>1, <2>2, SetLevel
<1>7. Exact(new, 0, 1, 1, L1Size(n))
  <2>1. OnlyChange(words, new, 1, L1Size(n), Word1(k)) /\ new[1 + Word1(k)] # {}
    BY <1>2, <1>3 DEF OnlyChange, SetAt, t
  <2>2. Word1(k) \div WordBits = 0
    BY <1>3, <1>4, WordAssumption, TopWord
  <2>3. ASSUME NEW w \in 0..(1 - 1)
        PROVE  new[0 + w] = IF w = Word1(k) \div WordBits
                            THEN words[0 + w] \cup {Word1(k) % WordBits}
                            ELSE words[0 + w]
    <3>1. w = 0 /\ 0 + w = 0
      OBVIOUS
    <3>2. QED
      BY <1>2, <2>2, <3>1 DEF SetAt
  <2>4. QED
    BY <1>1, <1>3, <1>4, <2>1, <2>3, SetLevel
<1>8. ASSUME NEW w \in 0..(L3Size(n) - 1), NEW b \in new[t.l3 + w]
      PROVE  w * WordBits + b < n
  <2>1. k = Word3(k) * WordBits + (k % WordBits)
    BY WordAssumption, DivMod DEF Word3
  <2>2. CASE b \in words[t.l3 + w]
    BY <1>1, <2>2 DEF NoBitBehind, t
  <2>3. CASE w = Word3(k) /\ b = k % WordBits
    BY <2>1, <2>3
  <2>4. QED
    BY <1>2, <2>2, <2>3 DEF SetAt, t
<1>9. NoBitBehind(new, n)
  BY <1>8 DEF NoBitBehind, t
<1>10. QED
  BY <1>2, <1>5, <1>6, <1>7, <1>9, SummariesAreExact DEF TreeOK, new, t

\* npr_bittree_clear keeps every summary word exact.
LEMMA ClearBitKeeps ==
  ASSUME NEW n \in Nat, L1Size(n) <= WordBits, NEW k \in 0..(n - 1),
         NEW words, TreeOK(words, n)
  PROVE  TreeOK(ClearBit(Layout(n), words, k), n)
<1> DEFINE new == ClearBit(Layout(n), words, k)
           t == Layout(n)
<1>1. /\ words \in Buffer(n)
      /\ Exact(words, t.l2, L2Size(n), t.l3, L3Size(n))
      /\ Exact(words, 1, L1Size(n), t.l2, L2Size(n))
      /\ Exact(words, 0, 1, 1, L1Size(n))
      /\ NoBitBehind(words, n)
  BY SummariesAreExact DEF TreeOK
<1>2. new \in Buffer(n) /\ ClearedAt(new, words, n, k)
  BY <1>1, AfterClear
<1>3. /\ Word3(k) \in 0..(L3Size(n) - 1) /\ Word2(k) \in 0..(L2Size(n) - 1)
      /\ Word1(k) \in 0..(L1Size(n) - 1)
  BY WordsOfBit
<1>4. /\ L1Size(n) \in Nat /\ L2Size(n) \in Nat /\ L3Size(n) \in Nat
      /\ t.l2 \in Nat /\ t.l3 \in Nat
  BY Sizes
<1> HIDE DEF new
<1>11. /\ new[t.l3 + Word3(k)] \subseteq words[t.l3 + Word3(k)]
      /\ new[t.l2 + Word2(k)] \subseteq words[t.l2 + Word2(k)]
      /\ new[1 + Word1(k)] \subseteq words[1 + Word1(k)]
  BY <1>2, WordPlaces DEF ClearedAt
<1> HIDE DEF t
<1>5. Exact(new, t.l2, L2Size(n), t.l3, L3Size(n))
  <2>1. OnlyChange(words, new, t.l3, L3Size(n), Word3(k))
    BY <1>2, <1>3 DEF OnlyChange, ClearedAt, t
  <2>2. \A w \in 0..(L2Size(n) - 1) :
          new[t.l2 + w] =
            IF w = Word3(k) \div WordBits
            THEN Summary(words[t.l2 + w], new[t.l3 + Word3(k)], Word3(k) % WordBits)
            ELSE words[t.l2 + w]
    BY <1>2 DEF Word2, ClearedAt, t
  <2>3. QED
    BY <1>1, <1>3, <1>4, <1>11, <2>1, <2>2, ClearLevel
<1>6. Exact(new, 1, L1Size(n), t.l2, L2Size(n))
  <2>1. OnlyChange(words, new, t.l2, L2Size(n), Word2(k))
    BY <1>2, <1>3 DEF OnlyChange, ClearedAt, t
  <2>2. \A w \in 0..(L1Size(n) - 1) :
          new[1 + w] =
            IF w = Word2(k) \div WordBits
            THEN Summary(words[1 + w], new[t.l2 + Word2(k)], Word2(k) % WordBits)
            ELSE words[1 + w]
    BY <1>2 DEF Word1, ClearedAt, t
  <2>3. QED
    BY <1>1, <1>3, <1>4, <1>11, <2>1, <2>2, ClearLevel
<1>7. Exact(new, 0, 1, 1, L1Size(n))
  <2>1. OnlyChange(words, new, 1, L1Size(n), Word1(k))
    BY <1>2, <1>3 DEF OnlyChange, ClearedAt
  <2>2. Word1(k) \div WordBits = 0
    BY <1>3, <1>4, WordAssumption, TopWord
  <2>3. ASSUME NEW w \in 0..(1 - 1)
        PROVE  new[0 + w] =
                 IF w = Word1(k) \div WordBits
                 THEN Summary(words[0 + w], new[1 + Word1(k)], Word1(k) % WordBits)
                 ELSE words[0 + w]
    <3>1. w = 0 /\ 0 + w = 0
      OBVIOUS
    <3>2. QED
      BY <1>2, <2>2, <3>1 DEF ClearedAt
  <2>4. QED
    BY <1>1, <1>3, <1>4, <1>11, <2>1, <2>3, ClearLevel
<1>8. NoBitBehind(new, n)
  BY <1>1, <1>2 DEF NoBitBehind, ClearedAt
<1>9. QED
  BY <1>2, <1>5, <1>6, <1>7, <1>8, SummariesAreExact DEF TreeOK, new, t

\* Words that are all zero have no position in the word above.
AllZero(words, off, m) == \A c \in 0..(m - 1) : words[off + c] = {}

LEMMA NoChildren ==
  ASSUME NEW words, NEW off \in Nat, NEW m \in Nat, NEW w \in Nat, AllZero(words, off, m)
  PROVE  Children(words, off, m, w) = {}
<1> SUFFICES ASSUME NEW b \in Children(words, off, m, w) PROVE FALSE
  OBVIOUS
<1>1. /\ b \in 0..(WordBits - 1) /\ w * WordBits + b < m
      /\ words[off + w * WordBits + b] # {}
  BY DEF Children
<1>2. w * WordBits \in Nat
  BY WordAssumption
<1>3. /\ w * WordBits + b \in 0..(m - 1)
      /\ off + w * WordBits + b = off + (w * WordBits + b)
  BY <1>1, <1>2, WordAssumption
<1>4. QED
  BY <1>1, <1>3 DEF AllZero

\* A buffer of zeros is a tree without bits.
LEMMA ZerosKeep ==
  ASSUME NEW n \in Nat
  PROVE  TreeOK(Zeros(n), n) /\ BitsOf(Layout(n), Zeros(n), n) = {}
<1> DEFINE t == Layout(n)
           zeros == Zeros(n)
<1>1. /\ L1Size(n) \in Nat /\ L2Size(n) \in Nat /\ L3Size(n) \in Nat
      /\ t.l2 = 1 + L1Size(n) /\ t.l3 = t.l2 + L2Size(n) /\ Size(n) = t.l3 + L3Size(n)
  BY Sizes
<1>2. \A x \in 0..(Size(n) - 1) : zeros[x] = {}
  BY DEF Zeros
<1>3. zeros \in Buffer(n)
  BY DEF Zeros, Buffer
<1> HIDE DEF t, zeros
<1>4. /\ \A w \in 0..(L3Size(n) - 1) : zeros[t.l3 + w] = {}
      /\ \A w \in 0..(L2Size(n) - 1) : zeros[t.l2 + w] = {}
      /\ \A w \in 0..(L1Size(n) - 1) : zeros[1 + w] = {}
      /\ zeros[0] = {}
  BY <1>1, <1>2
<1>5. /\ AllZero(zeros, t.l3, L3Size(n)) /\ AllZero(zeros, t.l2, L2Size(n))
      /\ AllZero(zeros, 1, L1Size(n)) /\ t.l3 \in Nat /\ t.l2 \in Nat
  BY <1>1, <1>4 DEF AllZero
<1>6. SummariesOf(zeros, n)
  <2>1. ASSUME NEW w \in 0..(L2Size(n) - 1)
        PROVE  zeros[t.l2 + w] = Children(zeros, t.l3, L3Size(n), w)
    <3>1. w \in Nat /\ zeros[t.l2 + w] = {}
      BY <1>1, <1>4
    <3>2. Children(zeros, t.l3, L3Size(n), w) = {}
      BY <1>1, <1>5, <3>1, NoChildren
    <3>3. QED
      BY <3>1, <3>2
  <2>2. ASSUME NEW w \in 0..(L1Size(n) - 1)
        PROVE  zeros[1 + w] = Children(zeros, t.l2, L2Size(n), w)
    <3>1. w \in Nat /\ zeros[1 + w] = {}
      BY <1>1, <1>4
    <3>2. Children(zeros, t.l2, L2Size(n), w) = {}
      BY <1>1, <1>5, <3>1, NoChildren
    <3>3. QED
      BY <3>1, <3>2
  <2>3. zeros[0] = Children(zeros, 1, L1Size(n), 0)
    BY <1>1, <1>4, <1>5, NoChildren
  <2>4. QED
    BY <2>1, <2>2, <2>3 DEF SummariesOf, t
<1>7. NoBitBehind(zeros, n)
  BY <1>4 DEF NoBitBehind, t
<1>8. \A k \in 0..(n - 1) : k \notin BitsOf(t, zeros, n)
  BY <1>4, BitInWord, WordsOfBit DEF t
<1>9. BitsOf(t, zeros, n) = {}
  BY <1>8 DEF BitsOf
<1>10. QED
  BY <1>3, <1>6, <1>7, <1>9 DEF TreeOK, t, zeros

-----------------------------------------------------------------------------
(* The way down the levels.                                                *)

\* The position of a word that is not zero is in the word above it.
LEMMA ParentOf ==
  ASSUME NEW up \in Nat, NEW parents \in Nat, NEW off \in Nat, NEW m \in Nat,
         NEW words, Exact(words, up, parents, off, m),
         NEW c \in 0..(m - 1), c \div WordBits < parents, words[off + c] # {}
  PROVE  c % WordBits \in words[up + c \div WordBits]
<1>7. c \in Nat /\ WordBits \in Nat \ {0}
  BY WordAssumption
<1>8. /\ c \div WordBits \in Nat /\ c % WordBits \in 0..(WordBits - 1)
      /\ c = (c \div WordBits) * WordBits + (c % WordBits)
  BY <1>7, DivMod
<1>1. /\ c \div WordBits \in 0..(parents - 1) /\ c % WordBits \in 0..(WordBits - 1)
      /\ c = (c \div WordBits) * WordBits + (c % WordBits)
  BY <1>8
<1> DEFINE w == c \div WordBits
           b == c % WordBits
<1> HIDE DEF w, b
<1>2. w \in 0..(parents - 1) /\ b \in 0..(WordBits - 1) /\ c = w * WordBits + b
  BY <1>1 DEF w, b
<1>3. off + w * WordBits + b = off + c /\ w * WordBits + b < m
  BY <1>2, WordAssumption
<1>4. b \in Children(words, off, m, w)
  BY <1>2, <1>3 DEF Children
<1>5. b \in words[up + w]
  BY <1>2, <1>4 DEF Exact
<1>6. QED
  BY <1>5 DEF w, b

\* A bit of a summary word leads to a word that is not zero.
LEMMA ChildOf ==
  ASSUME NEW up \in Nat, NEW parents \in Nat, NEW off \in Nat, NEW m \in Nat,
         NEW words, Exact(words, up, parents, off, m),
         NEW w \in 0..(parents - 1), NEW b \in words[up + w]
  PROVE  /\ b \in 0..(WordBits - 1)
         /\ w * WordBits + b \in 0..(m - 1)
         /\ words[off + (w * WordBits + b)] # {}
<1>1. b \in Children(words, off, m, w)
  BY DEF Exact
<1>2. /\ b \in 0..(WordBits - 1) /\ w * WordBits + b < m
      /\ words[off + w * WordBits + b] # {}
  BY <1>1 DEF Children
<1>3. w * WordBits \in Nat
  BY WordAssumption
<1>4. /\ w * WordBits + b \in 0..(m - 1)
      /\ off + w * WordBits + b = off + (w * WordBits + b)
  BY <1>2, <1>3, WordAssumption
<1>5. QED
  BY <1>2, <1>4

\* The root word is zero exactly when there is no bit in the tree.
LEMMA RootTells ==
  ASSUME NEW n \in Nat, L1Size(n) <= WordBits, NEW words, TreeOK(words, n)
  PROVE  words[0] # {} <=> BitsOf(Layout(n), words, n) # {}
<1> DEFINE t == Layout(n)
<1>1. /\ words \in Buffer(n)
      /\ Exact(words, t.l2, L2Size(n), t.l3, L3Size(n))
      /\ Exact(words, 1, L1Size(n), t.l2, L2Size(n))
      /\ Exact(words, 0, 1, 1, L1Size(n))
      /\ NoBitBehind(words, n)
  BY SummariesAreExact DEF TreeOK
<1>2. /\ L1Size(n) \in Nat /\ L2Size(n) \in Nat /\ L3Size(n) \in Nat
      /\ t.l2 \in Nat /\ t.l3 \in Nat /\ Size(n) \in Nat
      /\ Size(n) = t.l3 + L3Size(n)
  BY Sizes
<1> HIDE DEF t
<1>3. ASSUME words[0] # {} PROVE BitsOf(t, words, n) # {}
  <2>1. PICK b0 \in words[0] : TRUE
    BY <1>3
  <2>2. b0 \in words[0 + 0]
    BY <2>1
  <2> DEFINE w1 == 0 * WordBits + b0
  <2>3. w1 \in 0..(L1Size(n) - 1) /\ words[1 + w1] # {}
    <3>1. 0 \in 0..(1 - 1) /\ 0 \in Nat /\ 1 \in Nat
      OBVIOUS
    <3>2. QED
      BY <1>1, <1>2, <2>2, <3>1, ChildOf
  <2> HIDE DEF w1
  <2>4. PICK b1 \in words[1 + w1] : TRUE
    BY <2>3
  <2> DEFINE w2 == w1 * WordBits + b1
  <2>5. w2 \in 0..(L2Size(n) - 1) /\ words[t.l2 + w2] # {}
    BY <1>1, <1>2, <2>3, <2>4, ChildOf
  <2> HIDE DEF w2
  <2>6. PICK b2 \in words[t.l2 + w2] : TRUE
    BY <2>5
  <2> DEFINE w3 == w2 * WordBits + b2
  <2>7. w3 \in 0..(L3Size(n) - 1) /\ words[t.l3 + w3] # {}
    BY <1>1, <1>2, <2>5, <2>6, ChildOf
  <2> HIDE DEF w3
  <2>8. PICK b3 \in words[t.l3 + w3] : TRUE
    BY <2>7
  <2>9. b3 \in 0..(WordBits - 1)
    <3>1. t.l3 + w3 \in 0..(Size(n) - 1)
      BY <1>2, <2>7
    <3>2. words[t.l3 + w3] \subseteq 0..(WordBits - 1)
      BY <1>1, <3>1 DEF Buffer
    <3>3. QED
      BY <2>8, <3>2
  <2> DEFINE k == w3 * WordBits + b3
  <2>10. k \in Nat /\ w3 = k \div WordBits /\ b3 = k % WordBits
    BY <2>7, <2>9, ChildNumber
  <2>11. k < n
    BY <1>1, <2>7, <2>8 DEF NoBitBehind, t
  <2> HIDE DEF k
  <2>12. k \in BitsOf(t, words, n)
    BY <2>8, <2>10, <2>11 DEF BitsOf
  <2>13. QED
    BY <2>12
<1>4. ASSUME BitsOf(t, words, n) # {} PROVE words[0] # {}
  <2>1. PICK k \in 0..(n - 1) : k % WordBits \in words[t.l3 + Word3(k)]
    BY <1>4 DEF BitsOf, Word3
  <2>2. /\ Word3(k) \in 0..(L3Size(n) - 1) /\ Word2(k) \in 0..(L2Size(n) - 1)
        /\ Word1(k) \in 0..(L1Size(n) - 1)
    BY WordsOfBit
  <2>3. words[t.l2 + Word2(k)] # {}
    <3>1. Word3(k) \div WordBits < L2Size(n) /\ words[t.l3 + Word3(k)] # {}
      BY <1>2, <2>1, <2>2 DEF Word2
    <3>2. Word3(k) % WordBits \in words[t.l2 + Word3(k) \div WordBits]
      BY <1>1, <1>2, <2>2, <3>1, ParentOf
    <3>3. QED
      BY <3>2 DEF Word2
  <2>4. words[1 + Word1(k)] # {}
    <3>1. Word2(k) \div WordBits < L1Size(n)
      BY <1>2, <2>2 DEF Word1
    <3>2. Word2(k) % WordBits \in words[1 + Word2(k) \div WordBits]
      BY <1>1, <1>2, <2>2, <2>3, <3>1, ParentOf
    <3>3. QED
      BY <3>2 DEF Word1
  <2>5. Word1(k) \div WordBits = 0
    BY <1>2, <2>2, WordAssumption, TopWord
  <2>6. words[0 + 0] # {}
    <3>1. Word1(k) \div WordBits < 1
      BY <2>5
    <3>2. Word1(k) % WordBits \in words[0 + Word1(k) \div WordBits]
      BY <1>1, <1>2, <2>2, <2>4, <3>1, ParentOf
    <3>3. QED
      BY <2>5, <3>2
  <2>7. QED
    BY <2>6
<1>5. QED
  BY <1>3, <1>4 DEF t

\* In every tree of up to WordBits^4 bits, not only in those that get can be
\* used on, npr_bittree_set and npr_bittree_clear leave every summary word
\* exact, add and remove the one bit, and keep the root word true.
THEOREM FourLevelTree ==
  ASSUME NEW n \in Nat, n <= WordBits * WordBits * WordBits * WordBits,
         NEW words, TreeOK(words, n), NEW k \in 0..(n - 1)
  PROVE  LET t == Layout(n)
             set == SetBit(t, words, k)
             clear == ClearBit(t, words, k)
         IN  /\ TreeOK(set, n) /\ BitsOf(t, set, n) = BitsOf(t, words, n) \cup {k}
             /\ TreeOK(clear, n) /\ BitsOf(t, clear, n) = BitsOf(t, words, n) \ {k}
             /\ set[0] # {}
             /\ clear[0] # {} <=> BitsOf(t, words, n) \ {k} # {}
<1> DEFINE set == SetBit(Layout(n), words, k)
           clear == ClearBit(Layout(n), words, k)
<1>1. L1Size(n) <= WordBits /\ words \in Buffer(n)
  BY FourLevels DEF TreeOK
<1>2. TreeOK(set, n) /\ TreeOK(clear, n)
  BY <1>1, SetBitKeeps, ClearBitKeeps
<1>3. /\ BitsOf(Layout(n), set, n) = BitsOf(Layout(n), words, n) \cup {k}
      /\ BitsOf(Layout(n), clear, n) = BitsOf(Layout(n), words, n) \ {k}
  BY <1>1, SetBitAdds, ClearBitRemoves
<1> HIDE DEF set, clear
<1>4. /\ set[0] # {} <=> BitsOf(Layout(n), set, n) # {}
      /\ clear[0] # {} <=> BitsOf(Layout(n), clear, n) # {}
  BY <1>1, <1>2, RootTells
<1>5. QED
  BY <1>2, <1>3, <1>4 DEF set, clear

-----------------------------------------------------------------------------
(* Get, for the trees that have one word on each summary level.            *)

\* __bsrq finds the highest bit of a word that is not zero.
LEMMA BsrFinds ==
  ASSUME NEW word \in SUBSET (0..(WordBits - 1)), word # {}, NEW b \in Bsr(word)
  PROVE  b \in word /\ \A x \in word : x <= b
<1>1. word \subseteq Nat /\ \A x \in word : x <= WordBits
  BY WordAssumption
<1>2. Max(word) \in word /\ \A x \in word : x <= Max(word)
  BY <1>1, WordAssumption, Greatest
<1>3. QED
  BY <1>2 DEF Bsr

\* A tree of up to WordBits^2 bits has one word on each summary level.
LEMMA TwoLevels ==
  ASSUME NEW n \in Nat \ {0}, n <= WordBits * WordBits
  PROVE  /\ L3Size(n) \in 1..WordBits /\ L2Size(n) = 1 /\ L1Size(n) = 1
         /\ Layout(n).l2 = 2 /\ Layout(n).l3 = 3
<1>1. WordBits \in Nat \ {0} /\ WordBits \in Nat /\ n \in Nat /\ n > 0
  BY WordAssumption
<1>2. L1Size(n) \in Nat /\ L2Size(n) \in Nat /\ L3Size(n) \in Nat
  BY <1>1, Sizes
<1>3. L3Size(n) <= WordBits /\ L3Size(n) > 0
  <2>1. WordBits < L3Size(n) => WordBits * WordBits < n
    BY <1>1, WordOfBit DEF L3Size
  <2>2. L3Size(n) > 0
    BY <1>1, WordOfBit DEF L3Size
  <2>3. WordBits * WordBits \in Nat
    BY <1>1
  <2>4. QED
    BY <1>1, <1>2, <2>1, <2>2, <2>3
<1>4. L2Size(n) = 1
  <2>1. L2Size(n) <= 1 /\ L2Size(n) > 0
    BY <1>2, <1>3, WordOfBit DEF L2Size
  <2>2. QED
    BY <1>2, <2>1
<1>5. L1Size(n) = 1
  <2>1. L1Size(n) <= 1 /\ L1Size(n) > 0
    BY <1>1, <1>2, <1>4, WordOfBit DEF L1Size
  <2>2. QED
    BY <1>2, <2>1
<1>6. Layout(n).l2 = 1 + L1Size(n) /\ Layout(n).l3 = Layout(n).l2 + L2Size(n)
  BY <1>1, Sizes
<1>7. QED
  BY <1>1, <1>2, <1>3, <1>4, <1>5, <1>6

\* npr_bittree_get, of a tree that has a bit: the number it returns is the
\* highest bit of the tree, and the words it writes back are those of
\* npr_bittree_clear.
LEMMA GetIsClear ==
  ASSUME NEW n \in Nat \ {0}, n <= WordBits * WordBits,
         NEW words, TreeOK(words, n), words[0] # {},
         NEW path \in GetPaths(Layout(n), words)
  PROVE  /\ GetResult(path) \in BitsOf(Layout(n), words, n)
         /\ \A c \in BitsOf(Layout(n), words, n) : c <= GetResult(path)
         /\ GetWrites(Layout(n), words, path) = ClearBit(Layout(n), words, GetResult(path))
<1> DEFINE k == path[3] * WordBits + path[4]
<1>1. /\ L3Size(n) \in 1..WordBits /\ L2Size(n) = 1 /\ L1Size(n) = 1
      /\ Layout(n).l2 = 2 /\ Layout(n).l3 = 3
  BY TwoLevels
<1>2. n \in Nat /\ Size(n) = 3 + L3Size(n) /\ WordBits \in Nat \ {0}
  BY <1>1, Sizes, WordAssumption
<1>3. /\ words \in [0..(2 + L3Size(n)) -> SUBSET (0..(WordBits - 1))]
      /\ Exact(words, 2, 1, 3, L3Size(n))
      /\ Exact(words, 1, 1, 2, 1)
      /\ Exact(words, 0, 1, 1, 1)
      /\ NoBitBehind(words, n)
  <2>1. TreeOK(words, n) /\ Size(n) - 1 = 2 + L3Size(n)
    BY <1>1, <1>2
  <2>2. QED
    BY <1>1, <1>2, <2>1, SummariesAreExact DEF TreeOK, Buffer
<1>4. /\ path[1] \in Bsr(words[0])
      /\ path[2] \in Bsr(At(words, 1 + path[1]))
      /\ path[3] \in Bsr(At(words, 2 + path[2]))
      /\ path[4] \in Bsr(At(words, 3 + path[3]))
      /\ path \in [1..4 -> 0..(WordBits - 1)]
  BY <1>1 DEF GetPaths
<1>5. /\ 0 \in 0..(1 - 1) /\ 0 \in Nat /\ 1 \in Nat /\ 2 \in Nat /\ 3 \in Nat
      /\ L3Size(n) \in Nat
      /\ 0 \in DOMAIN words /\ 1 \in DOMAIN words /\ 2 \in DOMAIN words
  BY <1>1, <1>3
<1>6. path[1] = 0 /\ words[1] # {}
  <2>1. path[1] \in words[0 + 0]
    BY SMTT(30), <1>3, <1>4, <1>5, BsrFinds
  <2>2. 0 * WordBits + path[1] \in 0..(1 - 1) /\ words[1 + (0 * WordBits + path[1])] # {}
    BY <1>3, <1>5, <2>1, ChildOf
  <2>3. 0 * WordBits + path[1] = path[1]
    BY <1>2, <1>4
  <2>4. QED
    BY <2>2, <2>3
<1>7. path[2] = 0 /\ words[2] # {}
  <2>1. path[2] \in words[1 + 0]
    <3>1. path[2] \in Bsr(words[1]) /\ words[1] \in SUBSET (0..(WordBits - 1))
      BY SMTT(30), <1>3, <1>4, <1>5, <1>6 DEF At
    <3>2. path[2] \in words[1]
      BY <1>6, <3>1, BsrFinds
    <3>3. QED
      BY <3>2
  <2>2. 0 * WordBits + path[2] \in 0..(1 - 1) /\ words[2 + (0 * WordBits + path[2])] # {}
    BY <1>3, <1>5, <2>1, ChildOf
  <2>3. 0 * WordBits + path[2] = path[2]
    BY <1>2, <1>4
  <2>4. QED
    BY <2>2, <2>3
<1>8. /\ path[3] \in 0..(L3Size(n) - 1) /\ words[3 + path[3]] # {}
      /\ 3 + path[3] \in DOMAIN words
      /\ \A x \in words[2] : x <= path[3]
  <2>7. path[3] \in Bsr(words[2]) /\ words[2] \in SUBSET (0..(WordBits - 1))
    BY SMTT(30), <1>3, <1>4, <1>5, <1>7 DEF At
  <2>8. path[3] \in words[2] /\ \A x \in words[2] : x <= path[3]
    BY <1>7, <2>7, BsrFinds
  <2>1. path[3] \in words[2 + 0]
    BY <2>8
  <2>2. /\ 0 * WordBits + path[3] \in 0..(L3Size(n) - 1)
        /\ words[3 + (0 * WordBits + path[3])] # {}
    BY <1>3, <1>5, <2>1, ChildOf
  <2>3. 0 * WordBits + path[3] = path[3]
    BY <1>2, <1>4
  <2>4. path[3] \in 0..(L3Size(n) - 1) /\ words[3 + path[3]] # {}
    BY <2>2, <2>3
  <2>5. 3 + path[3] \in DOMAIN words
    BY <1>3, <1>5, <2>4
  <2>6. QED
    BY <2>4, <2>5, <2>8
<1>9. /\ path[4] \in words[3 + path[3]] /\ path[4] \in 0..(WordBits - 1)
      /\ \A x \in words[3 + path[3]] : x <= path[4]
  <2>1. words[3 + path[3]] \in SUBSET (0..(WordBits - 1))
    BY <1>3, <1>8
  <2>2. path[4] \in Bsr(words[3 + path[3]])
    BY <1>4, <1>8 DEF At
  <2>3. QED
    BY <1>4, <1>8, <2>1, <2>2, BsrFinds
<1>10. /\ k \in Nat /\ k < n
       /\ Word3(k) = path[3] /\ k % WordBits = path[4]
       /\ Word2(k) = 0 /\ Word3(k) % WordBits = path[3]
       /\ Word1(k) = 0 /\ Word2(k) % WordBits = 0 /\ Word1(k) % WordBits = 0
  <2>1. k < n
    BY <1>1, <1>3, <1>8, <1>9 DEF NoBitBehind
  <2>2. k \in Nat /\ k \div WordBits = path[3] /\ k % WordBits = path[4]
    BY <1>8, <1>9, ChildNumber
  <2>3. path[3] \div WordBits = 0 /\ path[3] % WordBits = path[3]
    <3>1. path[3] \in Nat /\ path[3] < WordBits
      BY <1>1, <1>2, <1>8
    <3>2. QED
      BY <3>1, TopWord
  <2>4. 0 \div WordBits = 0 /\ 0 % WordBits = 0
    BY <1>2, TopWord
  <2> HIDE DEF k
  <2>5. QED
    BY <2>1, <2>2, <2>3, <2>4 DEF Word1, Word2, Word3
<1>11. GetResult(path) = k
  BY <1>2, <1>6, <1>7, <1>8, <1>9 DEF GetResult
<1>17. ASSUME NEW c \in BitsOf(Layout(n), words, n) PROVE c <= k
  <2>1. c \in 0..(n - 1) /\ c \in Nat /\ c < n
    BY <1>2 DEF BitsOf
  <2>2. c % WordBits \in words[3 + Word3(c)]
    BY <1>1, <1>2, <2>1, BitInWord
  <2>3. /\ Word3(c) \in Nat /\ c % WordBits \in 0..(WordBits - 1)
        /\ c = Word3(c) * WordBits + (c % WordBits)
    BY <1>2, <2>1, DivMod DEF Word3
  <2>4. Word3(c) \in 0..(L3Size(n) - 1)
    <3>1. Word3(c) < L3Size(n)
      BY <1>2, <2>1, WordOfBit DEF L3Size, Word3
    <3>2. QED
      BY <1>1, <2>3, <3>1
  <2>5. Word3(c) \div WordBits = 0 /\ Word3(c) % WordBits = Word3(c)
    <3>1. Word3(c) \in Nat /\ Word3(c) < WordBits
      BY <1>1, <1>2, <2>3, <2>4
    <3>2. QED
      BY <3>1, TopWord
  <2>6. Word3(c) % WordBits \in words[2 + Word3(c) \div WordBits]
    <3>1. words[3 + Word3(c)] # {} /\ Word3(c) \div WordBits < 1
      BY <2>2, <2>5
    <3>2. QED
      BY <1>3, <1>5, <2>4, <3>1, ParentOf
  <2>7. Word3(c) <= path[3]
    BY <1>8, <2>5, <2>6
  <2>8. CASE Word3(c) = path[3]
    BY <1>2, <1>8, <1>9, <2>2, <2>3, <2>8
  <2>9. CASE Word3(c) < path[3]
    <3>1. (Word3(c) + 1) * WordBits <= path[3] * WordBits
      <4>1. path[3] - (Word3(c) + 1) \in Nat
        BY <1>8, <2>3, <2>9
      <4>2. (path[3] - (Word3(c) + 1)) * WordBits >= 0
        BY <1>2, <4>1
      <4>3. QED
        BY <1>2, <1>8, <2>3, <4>2
    <3>2. (Word3(c) + 1) * WordBits = Word3(c) * WordBits + WordBits
      BY <1>2, <2>3
    <3>3. Word3(c) * WordBits \in Nat /\ path[3] * WordBits \in Nat
      BY <1>2, <1>8, <2>3
    <3>4. QED
      BY <1>2, <1>9, <2>3, <3>1, <3>2, <3>3
  <2>10. QED
    BY <1>8, <2>3, <2>7, <2>8, <2>9
<1> HIDE DEF k
<1>12. k \in BitsOf(Layout(n), words, n)
  BY <1>1, <1>9, <1>10, BitInWord
<1> DEFINE v3 == words[3 + path[3]] \ {path[4]}
           v2 == Summary(words[2], v3, path[3])
           v1 == Summary(words[1], v2, 0)
           v0 == Summary(words[0], v1, 0)
<1>13. ClearBit(Layout(n), words, k) =
         [words EXCEPT ![3 + path[3]] = v3, ![2] = v2, ![1] = v1, ![0] = v0]
  <2>1. /\ Layout(n).l3 + Word3(k) = 3 + path[3]
        /\ Layout(n).l2 + Word2(k) = 2 /\ 1 + Word1(k) = 1
    BY <1>1, <1>10
  <2>2. QED
    BY <1>10, <2>1 DEF ClearBit
<1>14. GetWrites(Layout(n), words, path) =
         [x \in DOMAIN words |->
            CASE x = 0 -> v0
              [] x = 1 -> v1
              [] x = 2 -> v2
              [] x = 3 + path[3] -> v3
              [] OTHER -> words[x]]
  BY <1>1, <1>5, <1>6, <1>7, <1>8 DEF GetWrites, At
<1> HIDE DEF v3, v2, v1, v0
<1>15. GetWrites(Layout(n), words, path) = ClearBit(Layout(n), words, k)
  <2>1. /\ 3 + path[3] # 2 /\ 3 + path[3] # 1 /\ 3 + path[3] # 0
    BY <1>1, <1>8
  <2> DEFINE x3 == 3 + path[3]
             new == [words EXCEPT ![x3] = v3, ![2] = v2, ![1] = v1, ![0] = v0]
  <2>2. x3 \in DOMAIN words /\ x3 # 2 /\ x3 # 1 /\ x3 # 0
    BY <1>8, <2>1
  <2> HIDE DEF x3
  <2>6. /\ new[0] = v0 /\ new[1] = v1 /\ new[2] = v2 /\ new[x3] = v3
        /\ \A x \in DOMAIN words \ {0, 1, 2, x3} : new[x] = words[x]
    BY <1>3, <1>5, <2>2
  <2>7. new = [x \in DOMAIN words |-> new[x]]
    BY <1>3
  <2>3. /\ new = [x \in DOMAIN words |-> new[x]]
        /\ \A x \in DOMAIN words :
             new[x] = CASE x = 0 -> v0
                        [] x = 1 -> v1
                        [] x = 2 -> v2
                        [] x = x3 -> v3
                        [] OTHER -> words[x]
    <3> HIDE DEF new
    <3>1. QED
      BY <2>2, <2>6, <2>7
  <2> HIDE DEF new
  <2>4. GetWrites(Layout(n), words, path) = new
    BY <1>14, <2>3 DEF x3
  <2>5. QED
    BY <1>13, <2>4 DEF x3, new
<1>16. QED
  BY <1>11, <1>12, <1>15, <1>17

-----------------------------------------------------------------------------
(* The client of Bittree, for every tree of up to WordBits^2 bits.         *)

\* The inductive invariant: TypeOK and Summaries, and no bit behind the last
\* one, without which a bit that get finds might not be one of the tree.
BitInv ==
  /\ TreeOK(p, NumBits)
  /\ got \in BitNumbers \cup {None}

LEMMA BitInvInit ==
  Init => BitInv /\ Bits = {}
BY SizeAssumption, ZerosKeep DEF Init, BitInv, Bits, Tree

LEMMA BitSteps ==
  ASSUME NumBits <= WordBits * WordBits, BitInv, Next
  PROVE  BitInv' /\ Abstract!Next
<1>1. NumBits \in Nat /\ NumBits \in Nat \ {0} /\ L1Size(NumBits) <= WordBits
  BY SizeAssumption, WordAssumption, TwoLevels
<1>2. TreeOK(p, NumBits) /\ p \in Buffer(NumBits)
  BY DEF BitInv, TreeOK
<1>3. ASSUME NEW k \in BitNumbers, Set(k)
      PROVE  BitInv' /\ Abstract!Next
  <2>1. k \in 0..(NumBits - 1) /\ p' = SetBit(Layout(NumBits), p, k) /\ got' = got
    BY <1>3 DEF Set, Tree, BitNumbers
  <2>2. TreeOK(p', NumBits)
    BY <1>1, <1>2, <2>1, SetBitKeeps
  <2>3. Bits' = Bits \cup {k}
    BY <1>1, <1>2, <2>1, SetBitAdds DEF Bits, Tree
  <2>4. Abstract!Set(k)
    BY <2>1, <2>3 DEF Abstract!Set
  <2>5. QED
    BY <2>1, <2>2, <2>4 DEF BitInv, Abstract!Next
<1>4. ASSUME NEW k \in BitNumbers, Clear(k)
      PROVE  BitInv' /\ Abstract!Next
  <2>1. k \in 0..(NumBits - 1) /\ p' = ClearBit(Layout(NumBits), p, k) /\ got' = got
    BY <1>4 DEF Clear, Tree, BitNumbers
  <2>2. TreeOK(p', NumBits)
    BY <1>1, <1>2, <2>1, ClearBitKeeps
  <2>3. Bits' = Bits \ {k}
    BY <1>1, <1>2, <2>1, ClearBitRemoves DEF Bits, Tree
  <2>4. Abstract!Clear(k)
    BY <2>1, <2>3 DEF Abstract!Clear
  <2>5. QED
    BY <2>1, <2>2, <2>4 DEF BitInv, Abstract!Next
<1>5. ASSUME Get PROVE BitInv' /\ Abstract!Next
  <2>1. PICK path \in GetPaths(Layout(NumBits), p) :
          got' = GetResult(path) /\ p' = GetWrites(Layout(NumBits), p, path)
    BY <1>5 DEF Get, DoGet, Tree
  <2>2. p[0] # {}
    BY <1>5 DEF Get, HaveBits
  <2> DEFINE k == GetResult(path)
  <2>3. /\ k \in Bits /\ \A c \in Bits : c <= k
        /\ p' = ClearBit(Layout(NumBits), p, k)
    BY <1>1, <1>2, <2>1, <2>2, GetIsClear DEF Bits, Tree
  <2> HIDE DEF k
  <2>4. k \in 0..(NumBits - 1)
    BY <2>3 DEF Bits, BitsOf
  <2>5. TreeOK(p', NumBits)
    BY <1>1, <1>2, <2>3, <2>4, ClearBitKeeps
  <2>6. Bits' = Bits \ {k}
    BY <1>1, <1>2, <2>3, <2>4, ClearBitRemoves DEF Bits, Tree
  <2>7. Abstract!Get /\ got' = k
    BY <2>1, <2>3, <2>6 DEF Abstract!Get, k
  <2>8. QED
    BY <2>4, <2>5, <2>7 DEF BitInv, BitNumbers, Abstract!Next
<1>6. QED
  BY <1>3, <1>4, <1>5 DEF Next

LEMMA BitInvariant ==
  ASSUME NumBits <= WordBits * WordBits
  PROVE  Spec => []BitInv
<1>1. Init => BitInv
  BY BitInvInit
<1>2. BitInv /\ [Next]_vars => BitInv'
  <2>1. BitInv /\ UNCHANGED vars => BitInv'
    BY DEF BitInv, vars
  <2>2. QED
    BY <2>1, BitSteps
<1>3. QED
  BY <1>1, <1>2, PTL DEF Spec

\* The words stay words, and a bit that was got is a bit number.
THEOREM BitTypes ==
  ASSUME NumBits <= WordBits * WordBits
  PROVE  Spec => []TypeOK
<1>1. BitInv => TypeOK
  BY DEF BitInv, TreeOK, Buffer, TypeOK
<1>2. QED
  BY <1>1, BitInvariant, PTL

\* Whatever is set, cleared and taken, every summary word holds exactly the
\* positions of the words below it that are not zero.
THEOREM SummariesStayExact ==
  ASSUME NumBits <= WordBits * WordBits
  PROVE  Spec => []Summaries
<1>1. BitInv => Summaries
  BY DEF BitInv, TreeOK, Summaries
<1>2. QED
  BY <1>1, BitInvariant, PTL

\* NPR_BITTREE_HAVE_BITS tells whether there is a bit in the tree.
THEOREM RootWordTells ==
  ASSUME NumBits <= WordBits * WordBits
  PROVE  Spec => []HaveBitsIsExact
<1>1. BitInv => HaveBitsIsExact
  BY SizeAssumption, WordAssumption, TwoLevels, RootTells
  DEF BitInv, HaveBitsIsExact, HaveBits, Bits, Tree
<1>2. QED
  BY <1>1, BitInvariant, PTL

\* The tree is a set: set, clear and get do to its bits what BitSet says,
\* and get, called behind NPR_BITTREE_HAVE_BITS, takes the highest of them.
THEOREM TreeIsASet ==
  ASSUME NumBits <= WordBits * WordBits
  PROVE  Spec => ImplementsBitSet
<1>1. Init => Abstract!Init
  BY BitInvInit DEF Init, Abstract!Init
<1>2. BitInv /\ [Next]_vars => [Abstract!Next]_(Abstract!vars)
  <2>1. UNCHANGED vars => UNCHANGED Abstract!vars
    BY DEF vars, Abstract!vars, Bits, Tree
  <2>2. QED
    BY <2>1, BitSteps
<1>3. QED
  BY <1>1, <1>2, BitInvariant, PTL DEF Spec, ImplementsBitSet, Abstract!Spec

-----------------------------------------------------------------------------
(* The start of the page allocator, for every map of memory.               *)

\* Page k of memory lies in an entry of the map before entry m that is usable.
Covered(m) ==
  {k \in 0..(max - 1) :
     \E c \in 1..(m - 1) :
       /\ Usable(map[c])
       /\ map[c].addr \div PageUnits <= k
       /\ k < End(map[c]) \div PageUnits}

\* The usable entries before entry m are aligned.
AlignedBefore(m) == \A c \in 1..(m - 1) : Usable(map[c]) => Aligned(map[c])

\* The inductive invariant.  The tree ends behind the last usable page, so
\* that no page is set that has no word.  While the entries are handled the
\* free pages are those of the entries before, and of the entry being handled
\* the pages before j.  While pages are reserved, those from j on are as the
\* entries left them.
ScanInv == pc = "scan" => i = 1

MaxInv ==
  pc \in {"entry", "pages", "reserve", "done"} =>
    \A c \in 1..Len(map) : Usable(map[c]) => End(map[c]) \div PageUnits <= max

EntryInv ==
  pc = "entry" => AlignedBefore(i) /\ Free = Covered(i)

PagesInv ==
  pc = "pages" =>
    /\ i <= Len(map) /\ Usable(map[i])
    /\ AlignedBefore(i + 1)
    /\ map[i].addr \div PageUnits <= j /\ j <= End(map[i]) \div PageUnits
    /\ Free = Covered(i) \cup (map[i].addr \div PageUnits)..(j - 1)

ReserveInv ==
  pc \in {"reserve", "done"} /\ Reserved <= max =>
    /\ AlignedBefore(Len(map) + 1)
    /\ j <= Reserved
    /\ Free \subseteq Covered(Len(map) + 1)
    /\ Covered(Len(map) + 1) \ 0..(j - 1) \subseteq Free

MemInv ==
  /\ MemTypeOK
  /\ ScanInv
  /\ MaxInv
  /\ EntryInv
  /\ PagesInv
  /\ ReserveInv

\* The entries of a map.
LEMMA MapEntries ==
  ASSUME map \in Maps, NEW c \in 1..Len(map)
  PROVE  map[c] \in [type : {1, 2}, addr : Nat, len : Nat]
<1> DEFINE EntryType == [type : {1, 2}, addr : Nat, len : Nat]
<1>1. map \in Seq(EntryType)
  BY PageAssumption
<1> HIDE DEF EntryType
<1>2. map[c] \in EntryType
  BY <1>1
<1>3. QED
  BY <1>2 DEF EntryType

\* The numbers in a map.
LEMMA MapTypes ==
  ASSUME map \in Maps
  PROVE  /\ Len(map) \in Nat /\ DOMAIN map = 1..Len(map)
         /\ \A c \in 1..Len(map) :
              /\ map[c].type \in {1, 2} /\ map[c].addr \in Nat /\ map[c].len \in Nat
              /\ End(map[c]) \in Nat /\ map[c].addr <= End(map[c])
              /\ map[c].addr \div PageUnits \in Nat
              /\ End(map[c]) \div PageUnits \in Nat
<1>1. map \in Seq([type : {1, 2}, addr : Nat, len : Nat])
  BY PageAssumption
<1>2. Len(map) \in Nat /\ DOMAIN map = 1..Len(map)
  BY <1>1
<1>3. ASSUME NEW c \in 1..Len(map)
      PROVE  /\ map[c].type \in {1, 2} /\ map[c].addr \in Nat /\ map[c].len \in Nat
             /\ End(map[c]) \in Nat /\ map[c].addr <= End(map[c])
             /\ map[c].addr \div PageUnits \in Nat
             /\ End(map[c]) \div PageUnits \in Nat
  <2>1. map[c] \in [type : {1, 2}, addr : Nat, len : Nat]
    BY MapEntries
  <2>2. End(map[c]) \in Nat /\ map[c].addr <= End(map[c])
    BY <2>1 DEF End
  <2>3. QED
    BY <2>1, <2>2, PageAssumption, DivMod
<1>4. QED
  BY <1>2, <1>3

\* Quotients keep the order.
LEMMA DivMonotone ==
  ASSUME NEW a \in Nat, NEW c \in Nat, NEW d \in Nat \ {0}, a <= c
  PROVE  a \div d <= c \div d
<1> DEFINE qa == a \div d
           qc == c \div d
<1>1. /\ qa \in Nat /\ qc \in Nat
      /\ a = qa * d + (a % d) /\ c = qc * d + (c % d)
      /\ a % d \in 0..(d - 1) /\ c % d \in 0..(d - 1)
  BY DivMod
<1> HIDE DEF qa, qc
<1>2. ASSUME qc + 1 <= qa PROVE FALSE
  <2>1. (qc + 1) * d <= qa * d
    BY <1>1, <1>2, TimesMonotone
  <2>2. (qc + 1) * d = qc * d + d
    BY <1>1
  <2>3. qc * d \in Nat /\ qa * d \in Nat
    BY <1>1
  <2>4. QED
    BY <1>1, <2>1, <2>2, <2>3
<1>3. qa <= qc
  BY <1>1, <1>2
<1>4. QED
  BY <1>3 DEF qa, qc

\* A map is finite, so there is an end of memory.
LEMMA EndsBounded ==
  ASSUME map \in Maps
  PROVE  \E bound \in Nat : \A c \in 1..Len(map) : End(map[c]) <= bound
<1> DEFINE S == {m \in Nat : m <= Len(map) =>
                   \E bound \in Nat : \A c \in 1..m : End(map[c]) <= bound}
<1>1. Len(map) \in Nat /\ \A c \in 1..Len(map) : End(map[c]) \in Nat
  BY MapTypes
<1>2. 0 \in S
  OBVIOUS
<1>3. ASSUME NEW m \in Nat, m \in S PROVE m + 1 \in S
  <2> SUFFICES ASSUME m + 1 <= Len(map)
               PROVE  \E bound \in Nat : \A c \in 1..(m + 1) : End(map[c]) <= bound
    OBVIOUS
  <2>1. PICK bound \in Nat : \A c \in 1..m : End(map[c]) <= bound
    BY <1>1, <1>3
  <2>2. m + 1 \in 1..Len(map)
    BY <1>1
  <2>3. End(map[m + 1]) \in Nat
    BY <1>1, <2>2
  <2>4. bound + End(map[m + 1]) \in Nat
    BY <2>3
  <2>5. ASSUME NEW c \in 1..(m + 1) PROVE End(map[c]) <= bound + End(map[m + 1])
    <3>1. CASE c = m + 1
      BY <2>3, <3>1
    <3>2. CASE c \in 1..m
      <4>1. End(map[c]) \in Nat /\ End(map[c]) <= bound
        BY <1>1, <2>1, <2>2, <3>2
      <4>2. QED
        BY <2>3, <4>1
    <3>3. QED
      BY <3>1, <3>2
  <2>6. QED
    BY <2>4, <2>5
<1>4. Len(map) \in S
  BY <1>1, <1>2, <1>3, SetInduction
<1>5. QED
  BY <1>1, <1>4

\* The first loop finds the end of memory.
LEMMA LargestEnd ==
  ASSUME map \in Maps
  PROVE  LET last == Largest({End(e) : e \in {f \in Entries : Usable(f)}})
         IN  /\ last \in Nat
             /\ \A c \in 1..Len(map) : Usable(map[c]) => End(map[c]) <= last
<1> DEFINE S == {End(e) : e \in {f \in Entries : Usable(f)}}
           last == Largest(S)
<1>1. Len(map) \in Nat /\ DOMAIN map = 1..Len(map) /\ \A c \in 1..Len(map) : End(map[c]) \in Nat
  BY MapTypes
<1>2. PICK bound \in Nat : \A c \in 1..Len(map) : End(map[c]) <= bound
  BY EndsBounded
<1>3. S \subseteq Nat /\ \A x \in S : x <= bound
  BY <1>1, <1>2 DEF Entries
<1>4. \A c \in 1..Len(map) : Usable(map[c]) => End(map[c]) \in S
  BY <1>1 DEF Entries
<1> HIDE DEF S
<1>5. last \in Nat /\ \A x \in S : x <= last
  BY <1>3, Greatest DEF Largest
<1>6. QED
  BY <1>4, <1>5 DEF S

\* npr_bittree_clear of any number keeps the words of the buffer words.
LEMMA ClearBitType ==
  ASSUME NEW n \in Nat, NEW words \in Buffer(n), NEW k
  PROVE  ClearBit(Layout(n), words, k) \in Buffer(n)
<1> DEFINE D == 0..(Size(n) - 1)
           x3 == Layout(n).l3 + Word3(k)
           x2 == Layout(n).l2 + Word2(k)
           x1 == 1 + Word1(k)
           v3 == words[x3] \ {k % WordBits}
           v2 == Summary(words[x2], v3, Word3(k) % WordBits)
           v1 == Summary(words[x1], v2, Word2(k) % WordBits)
           v0 == Summary(words[0], v1, Word1(k) % WordBits)
<1>1. words \in [D -> SUBSET (0..(WordBits - 1))]
  BY DEF Buffer
<1>2. ClearBit(Layout(n), words, k) =
        [words EXCEPT ![x3] = v3, ![x2] = v2, ![x1] = v1, ![0] = v0]
  BY DEF ClearBit
<1>3. /\ x3 \in D => v3 \in SUBSET (0..(WordBits - 1))
      /\ x2 \in D => v2 \in SUBSET (0..(WordBits - 1))
      /\ x1 \in D => v1 \in SUBSET (0..(WordBits - 1))
      /\ 0 \in D => v0 \in SUBSET (0..(WordBits - 1))
  BY <1>1 DEF Summary
<1> HIDE DEF D, x3, x2, x1, v3, v2, v1, v0
<1>4. [words EXCEPT ![x3] = v3, ![x2] = v2, ![x1] = v1, ![0] = v0]
        \in [D -> SUBSET (0..(WordBits - 1))]
  BY <1>1, <1>3
<1>5. QED
  BY <1>2, <1>4 DEF Buffer, D

\* The words of the tree of pages are a buffer of max bits.
LEMMA TreeBuffer ==
  ASSUME MemTypeOK, pc \in {"entry", "pages", "reserve", "done"}
  PROVE  tree_bits \in Buffer(max) /\ max \in Nat
BY DEF MemTypeOK, Buffer

\* The third loop has an end.
LEMMA ReservedType ==
  ASSUME NEW n \in Nat
  PROVE  StartPages + CeilDiv(Size(n) * WordUnits, PageUnits) \in Nat
<1>1. Size(n) * WordUnits \in Nat
  BY SMTT(30), Sizes, PageAssumption
<1>2. PageUnits \in Nat \ {0} /\ StartPages \in Nat
  BY PageAssumption
<1>3. CeilDiv(Size(n) * WordUnits, PageUnits) \in Nat
  BY <1>1, <1>2, CeilDivBound
<1>4. QED
  BY <1>2, <1>3

\* The invariant holds at the start.
LEMMA MemInvInit ==
  MemInit => MemInv
BY MapTypes DEF MemInit, MemInv, MemTypeOK, ScanInv, MaxInv, EntryInv, PagesInv, ReserveInv

\* The first loop: the tree is empty, and has a bit for every usable page.
LEMMA ScanKeeps ==
  ASSUME MemInv, Scan PROVE MemInv'
<1>1. map \in Maps /\ i = 1 /\ i \in 1..(Len(map) + 1) /\ j \in Nat /\ UNCHANGED <<map, i, j>>
  BY DEF MemInv, MemTypeOK, ScanInv, Scan
<1>2. CASE pc' = "fatal" /\ UNCHANGED <<max, tree_bits>>
  BY <1>1, <1>2 DEF MemInv, MemTypeOK, ScanInv, MaxInv, EntryInv, PagesInv, ReserveInv
<1> DEFINE last == Largest({End(e) : e \in {f \in Entries : Usable(f)}})
<1>3. CASE pc' = "entry" /\ max' = last \div PageUnits /\ tree_bits' = Zeros(max')
  <2>1. last \in Nat /\ \A c \in 1..Len(map) : Usable(map[c]) => End(map[c]) <= last
    BY <1>1, LargestEnd
  <2> HIDE DEF last
  <2>2. max' \in Nat
    BY <1>3, <2>1, PageAssumption, DivMod
  <2>3. \A c \in 1..Len(map) : Usable(map[c]) => End(map[c]) \div PageUnits <= max'
    BY <1>1, <1>3, <2>1, MapTypes, PageAssumption, DivMonotone
  <2>4. tree_bits' \in Buffer(max') /\ Free' = {}
    BY <1>3, <2>2, ZerosKeep DEF TreeOK, Free, free_bits
  <2>5. MemTypeOK'
    BY <1>1, <1>3, <2>2, <2>4 DEF MemTypeOK, Buffer
  <2>6. MaxInv'
    BY <1>1, <2>3 DEF MaxInv
  <2>7. Covered(i)' = {} /\ AlignedBefore(i)'
    BY <1>1 DEF Covered, AlignedBefore
  <2>8. QED
    BY <1>3, <2>4, <2>5, <2>6, <2>7 DEF MemInv, ScanInv, EntryInv, PagesInv, ReserveInv
<1>4. QED
  BY <1>2, <1>3 DEF Scan

\* An entry that is not usable changes nothing; one that is not aligned is
\* the end.
LEMMA EntryKeeps ==
  ASSUME MemInv, Entry PROVE MemInv'
<1>1. /\ map \in Maps /\ i \in 1..(Len(map) + 1) /\ j \in Nat /\ max \in Nat
      /\ pc = "entry" /\ i <= Len(map)
      /\ UNCHANGED <<map, max, tree_bits>>
      /\ AlignedBefore(i) /\ Free = Covered(i)
  BY DEF MemInv, MemTypeOK, EntryInv, Entry
<1>2. /\ Len(map) \in Nat /\ i \in 1..Len(map) /\ i \in Nat /\ i + 1 \in Nat
      /\ map[i].addr \in Nat /\ map[i].addr \div PageUnits \in Nat
      /\ map[i].addr <= End(map[i]) /\ End(map[i]) \in Nat
  BY <1>1, MapTypes
<1>3. Free' = Free
  BY <1>1 DEF Free, free_bits
<1>4. \A c \in 1..((i + 1) - 1) : c \in 1..(i - 1) \/ c = i
  BY <1>2
<1>5. MaxInv' /\ ScanInv'
  BY <1>1 DEF MemInv, MaxInv, ScanInv, Entry
<1>6. CASE Usable(map[i]) /\ Aligned(map[i])
  <2>1. pc' = "pages" /\ i' = i /\ j' = map[i].addr \div PageUnits
    BY <1>1, <1>6 DEF Entry
  <2>2. MemTypeOK'
    BY <1>1, <1>2, <2>1 DEF MemInv, MemTypeOK
  <2>3. AlignedBefore(i + 1)'
    BY <1>1, <1>4, <1>6, <2>1 DEF AlignedBefore
  <2>4. Covered(i)' = Covered(i)
    BY <1>1, <2>1 DEF Covered
  <2>5. /\ (map[i].addr \div PageUnits)..(j' - 1) = {}
        /\ map[i].addr \div PageUnits <= j' /\ j' <= End(map[i]) \div PageUnits
    BY <1>2, <2>1, PageAssumption, DivMonotone
  <2>6. PagesInv'
    BY <1>1, <1>2, <1>3, <1>6, <2>1, <2>3, <2>4, <2>5 DEF PagesInv
  <2>7. QED
    BY <1>5, <2>1, <2>2, <2>6 DEF MemInv, EntryInv, ReserveInv
<1>7. CASE Usable(map[i]) /\ ~Aligned(map[i])
  <2>1. pc' = "fatal" /\ i' = i /\ j' = map[i].addr \div PageUnits
    BY <1>1, <1>7 DEF Entry
  <2>2. MemTypeOK'
    BY <1>1, <1>2, <2>1 DEF MemInv, MemTypeOK
  <2>3. QED
    BY <1>5, <2>1, <2>2 DEF MemInv, EntryInv, PagesInv, ReserveInv
<1>8. CASE ~Usable(map[i])
  <2>1. pc' = "entry" /\ i' = i + 1 /\ j' = j
    BY <1>1, <1>8 DEF Entry
  <2>2. MemTypeOK'
    BY <1>1, <1>2, <2>1 DEF MemInv, MemTypeOK
  <2>3. AlignedBefore(i)'
    BY <1>1, <1>4, <1>8, <2>1 DEF AlignedBefore
  <2>4. Covered(i)' = Covered(i)
    <3>1. /\ i' - 1 = i /\ 1..i = 1..(i - 1) \cup {i}
      BY <1>2, <2>1
    <3>2. Covered(i)' = {k \in 0..(max - 1) :
                           \E c \in 1..i :
                             /\ Usable(map[c])
                             /\ map[c].addr \div PageUnits <= k
                             /\ k < End(map[c]) \div PageUnits}
      BY <1>1, <2>1, <3>1 DEF Covered
    <3>3. QED
      BY <1>8, <3>1, <3>2 DEF Covered
  <2>5. QED
    BY <1>1, <1>3, <1>5, <2>1, <2>2, <2>3, <2>4 DEF MemInv, EntryInv, PagesInv, ReserveInv
<1>9. QED
  BY <1>6, <1>7, <1>8

\* A page of a usable entry becomes free, or all of them are.
LEMMA SetPageKeeps ==
  ASSUME MemInv, SetPage PROVE MemInv'
<1>1. /\ map \in Maps /\ i \in 1..Len(map) /\ j \in Nat /\ max \in Nat
      /\ pc = "pages" /\ UNCHANGED <<map, max>>
      /\ Usable(map[i]) /\ AlignedBefore(i + 1)
      /\ map[i].addr \div PageUnits <= j /\ j <= End(map[i]) \div PageUnits
      /\ Free = Covered(i) \cup (map[i].addr \div PageUnits)..(j - 1)
      /\ \A c \in 1..Len(map) : Usable(map[c]) => End(map[c]) \div PageUnits <= max
  BY DEF MemInv, MemTypeOK, MaxInv, PagesInv, SetPage
<1>2. /\ Len(map) \in Nat /\ i \in Nat /\ i + 1 \in 1..(Len(map) + 1)
      /\ map[i].addr \div PageUnits \in Nat /\ End(map[i]) \div PageUnits \in Nat
      /\ End(map[i]) \div PageUnits <= max
  BY <1>1, MapTypes
<1>3. MaxInv'
  BY <1>1 DEF MaxInv
<1>4. CASE j < End(map[i]) \div PageUnits
  <2>1. pc' = "pages" /\ i' = i /\ j' = j + 1 /\ tree_bits' = SetBit(free_bits, tree_bits, j)
    BY <1>1, <1>4 DEF SetPage
  <2>2. j \in 0..(max - 1) /\ tree_bits \in Buffer(max)
    BY <1>1, <1>2, <1>4, TreeBuffer DEF MemInv
  <2>3. tree_bits' \in Buffer(max) /\ Free' = Free \cup {j}
    BY <1>1, <2>1, <2>2, SetBitAdds DEF Free, free_bits
  <2>4. MemTypeOK'
    BY <1>1, <1>2, <2>1, <2>3 DEF MemTypeOK, Buffer
  <2>5. Covered(i)' = Covered(i) /\ AlignedBefore(i + 1)'
    BY <1>1, <2>1 DEF Covered, AlignedBefore
  <2>6. /\ (map[i].addr \div PageUnits)..(j' - 1) = (map[i].addr \div PageUnits)..(j - 1) \cup {j}
        /\ map[i].addr \div PageUnits <= j' /\ j' <= End(map[i]) \div PageUnits
    BY <1>1, <1>2, <1>4, <2>1
  <2>7. PagesInv'
    BY <1>1, <1>2, <2>1, <2>3, <2>5, <2>6 DEF PagesInv
  <2>8. QED
    BY <1>3, <2>1, <2>4, <2>7 DEF MemInv, ScanInv, EntryInv, ReserveInv
<1>5. CASE ~(j < End(map[i]) \div PageUnits)
  <2>1. pc' = "entry" /\ i' = i + 1 /\ j' = j /\ tree_bits' = tree_bits
    BY <1>1, <1>5 DEF SetPage
  <2>2. MemTypeOK'
    BY <1>1, <1>2, <2>1 DEF MemInv, MemTypeOK
  <2>3. Free' = Free /\ Free \subseteq 0..(max - 1)
    BY <1>1, <2>1 DEF Free, free_bits, BitsOf
  <2>4. AlignedBefore(i)'
    BY <1>1, <2>1 DEF AlignedBefore
  <2>5. Covered(i)' = {k \in 0..(max - 1) :
                         \E c \in 1..i :
                           /\ Usable(map[c])
                           /\ map[c].addr \div PageUnits <= k
                           /\ k < End(map[c]) \div PageUnits}
    <3>1. (i + 1) - 1 = i
      BY <1>2
    <3>2. QED
      BY <1>1, <2>1, <3>1 DEF Covered
  <2>6. ASSUME NEW k \in 0..(max - 1)
        PROVE  k \in Covered(i)' <=>
                 \/ k \in Covered(i)
                 \/ /\ map[i].addr \div PageUnits <= k
                    /\ k < End(map[i]) \div PageUnits
    <3>1. 1..i = 1..(i - 1) \cup {i}
      BY <1>1, <1>2
    <3>2. QED
      BY <1>1, <2>5, <3>1 DEF Covered
  <2>7. ASSUME NEW k \in 0..(max - 1)
        PROVE  k \in Free <=> k \in Covered(i)'
    <3>1. k \in Free <=> k \in Covered(i) \/ k \in (map[i].addr \div PageUnits)..(j - 1)
      BY <1>1
    <3>2. QED
      BY <1>1, <1>2, <1>5, <2>6, <3>1
  <2>8. Free' = Covered(i)'
    BY <2>3, <2>5, <2>7
  <2>9. QED
    BY <1>3, <2>1, <2>2, <2>4, <2>8 DEF MemInv, ScanInv, EntryInv, PagesInv, ReserveInv
<1>6. QED
  BY <1>4, <1>5

\* All entries have been handled.
LEMMA EndOfMapKeeps ==
  ASSUME MemInv, EndOfMap PROVE MemInv'
<1>1. /\ map \in Maps /\ i \in 1..(Len(map) + 1) /\ max \in Nat
      /\ pc = "entry" /\ pc' = "reserve" /\ j' = 0 /\ i > Len(map)
      /\ UNCHANGED <<map, i, max, tree_bits>>
      /\ AlignedBefore(i) /\ Free = Covered(i)
  BY DEF MemInv, MemTypeOK, EntryInv, EndOfMap
<1>2. i = Len(map) + 1
  BY <1>1, MapTypes
<1>3. /\ Free' = Free /\ Covered(Len(map) + 1)' = Covered(i)
      /\ AlignedBefore(Len(map) + 1)'
  BY <1>1, <1>2 DEF Free, free_bits, Covered, AlignedBefore
<1>4. Reserved' \in Nat
  BY <1>1, ReservedType DEF Reserved, TreePages
<1>5. ReserveInv'
  BY <1>1, <1>3, <1>4 DEF ReserveInv
<1>6. MemTypeOK'
  BY <1>1 DEF MemInv, MemTypeOK
<1>7. QED
  BY <1>1, <1>5, <1>6 DEF MemInv, ScanInv, MaxInv, EntryInv, PagesInv

\* Only a page below the end of the third loop is cleared, or none.
LEMMA ReserveKeeps ==
  ASSUME MemInv, Reserve PROVE MemInv'
<1>1. /\ map \in Maps /\ j \in Nat /\ max \in Nat /\ pc = "reserve"
      /\ UNCHANGED <<map, i, max>>
      /\ tree_bits \in Buffer(max)
      /\ Reserved \in Nat /\ Reserved' = Reserved
  BY TreeBuffer, ReservedType DEF MemInv, MemTypeOK, Reserve, Reserved, TreePages
<1>2. /\ MaxInv' /\ Covered(Len(map) + 1)' = Covered(Len(map) + 1)
      /\ AlignedBefore(Len(map) + 1)' = AlignedBefore(Len(map) + 1)
  BY <1>1 DEF MemInv, MaxInv, Covered, AlignedBefore, Reserve
<1>3. CASE j < Reserved
  <2>1. /\ pc' = "reserve" /\ j' = j + 1
        /\ \/ tree_bits' = ClearBit(Layout(max), tree_bits, j)
           \/ tree_bits' = tree_bits
    BY <1>1, <1>3 DEF Reserve, free_bits
  <2>2. tree_bits' \in Buffer(max)
    BY <1>1, <2>1, ClearBitType
  <2>3. MemTypeOK'
    BY <1>1, <2>1, <2>2 DEF MemInv, MemTypeOK, Buffer
  <2>4. ASSUME Reserved <= max
        PROVE  Free' = Free \/ Free' = Free \ {j}
    <3>1. j \in 0..(max - 1)
      BY <1>1, <1>3, <2>4
    <3>2. QED
      BY <1>1, <2>1, <3>1, ClearBitRemoves DEF Free, free_bits
  <2>5. ASSUME Reserved <= max
        PROVE  /\ j' <= Reserved
               /\ Free' \subseteq Covered(Len(map) + 1)
               /\ Covered(Len(map) + 1) \ 0..(j' - 1) \subseteq Free'
    <3>1. /\ Free \subseteq Covered(Len(map) + 1)
          /\ Covered(Len(map) + 1) \ 0..(j - 1) \subseteq Free
      BY <1>1, <2>5 DEF MemInv, ReserveInv
    <3>2. j' <= Reserved /\ 0..(j' - 1) = 0..(j - 1) \cup {j}
      BY <1>1, <1>3, <2>1
    <3>3. QED
      BY <2>4, <2>5, <3>1, <3>2
  <2>6. ReserveInv'
    BY <1>1, <1>2, <2>5 DEF MemInv, ReserveInv
  <2>7. QED
    BY <1>2, <2>1, <2>3, <2>6 DEF MemInv, ScanInv, EntryInv, PagesInv
<1>4. CASE ~(j < Reserved)
  <2>1. pc' = "done" /\ j' = j /\ tree_bits' = tree_bits
    BY <1>1, <1>4 DEF Reserve
  <2>2. MemTypeOK' /\ Free' = Free
    BY <1>1, <2>1 DEF MemInv, MemTypeOK, Free, free_bits
  <2>3. ReserveInv'
    BY <1>1, <1>2, <2>1, <2>2 DEF MemInv, ReserveInv
  <2>4. QED
    BY <1>2, <2>1, <2>2, <2>3 DEF MemInv, ScanInv, EntryInv, PagesInv
<1>5. QED
  BY <1>3, <1>4

LEMMA MemInvariant ==
  MemSpec => []MemInv
<1>1. MemInv /\ [MemNext]_memVars => MemInv'
  <2>1. MemInv /\ UNCHANGED memVars => MemInv'
    BY DEF memVars, MemInv, MemTypeOK, ScanInv, MaxInv, EntryInv, PagesInv, ReserveInv,
           Free, free_bits, Covered, AlignedBefore, Reserved, TreePages
  <2>2. QED
    BY <2>1, ScanKeeps, EntryKeeps, SetPageKeeps, EndOfMapKeeps, ReserveKeeps DEF MemNext
<1>2. QED
  BY <1>1, MemInvInit, PTL DEF MemSpec

\* The words of the tree of pages stay words of the size memory asks for.
THEOREM MemTypes == MemSpec => []MemTypeOK
<1>1. MemInv => MemTypeOK
  BY DEF MemInv
<1>2. QED
  BY <1>1, MemInvariant, PTL

\* The pages of an aligned entry are those that begin and end in it.
LEMMA PagesOfEntry ==
  ASSUME NEW c \in Nat, NEW e \in [type : {1, 2}, addr : Nat, len : Nat], Aligned(e)
  PROVE  /\ e.addr <= c * PageUnits <=> e.addr \div PageUnits <= c
         /\ (c + 1) * PageUnits <= e.addr + e.len <=> c < End(e) \div PageUnits
<1> DEFINE a == e.addr \div PageUnits
           z == End(e) \div PageUnits
<1>1. PageUnits \in Nat \ {0} /\ e.addr \in Nat /\ e.addr + e.len \in Nat
  BY PageAssumption
<1>2. a \in Nat /\ z \in Nat /\ e.addr = a * PageUnits /\ e.addr + e.len = z * PageUnits
  <2>1. /\ a \in Nat /\ e.addr = a * PageUnits + (e.addr % PageUnits)
        /\ z \in Nat
        /\ e.addr + e.len = z * PageUnits + ((e.addr + e.len) % PageUnits)
    BY <1>1, DivMod DEF End
  <2>2. e.addr % PageUnits = 0 /\ (e.addr + e.len) % PageUnits = 0
    BY DEF Aligned, End
  <2> HIDE DEF a, z
  <2>3. QED
    BY <1>1, <2>1, <2>2
<1> HIDE DEF a, z
<1>3. ASSUME NEW u \in Nat, NEW v \in Nat
      PROVE  u * PageUnits <= v * PageUnits <=> u <= v
  <2>1. u <= v => u * PageUnits <= v * PageUnits
    BY <1>1, TimesMonotone
  <2>2. ASSUME v + 1 <= u PROVE v * PageUnits < u * PageUnits
    <3>1. (v + 1) * PageUnits <= u * PageUnits
      BY <1>1, <2>2, TimesMonotone
    <3>2. (v + 1) * PageUnits = v * PageUnits + PageUnits
      BY <1>1
    <3>3. v * PageUnits \in Nat /\ u * PageUnits \in Nat
      BY <1>1
    <3>4. QED
      BY <1>1, <3>1, <3>2, <3>3
  <2>3. v * PageUnits \in Nat /\ u * PageUnits \in Nat
    BY <1>1
  <2>4. QED
    BY <2>1, <2>2, <2>3
<1>4. c + 1 \in Nat /\ (c + 1 <= z <=> c < z)
  BY <1>2
<1>5. QED
  BY <1>2, <1>3, <1>4 DEF a, z

\* If memory goes on behind the tree, the page allocator starts with pages of
\* usable memory only, and with all of them that are not reserved, whatever
\* map of memory the BIOS gives.
THEOREM OnlyUsablePagesAreFree == MemSpec => []FreeIsUsable
<1>1. MemInv => FreeIsUsable
  <2> SUFFICES ASSUME MemInv, pc = "done", Reserved <= max
               PROVE  /\ Free \subseteq UsablePages
                      /\ UsablePages \ (0..(Reserved - 1)) \subseteq Free
    BY DEF FreeIsUsable
  <2>1. /\ map \in Maps /\ max \in Nat /\ j \in Nat /\ AlignedBefore(Len(map) + 1)
        /\ j <= Reserved /\ Free \subseteq Covered(Len(map) + 1)
        /\ Covered(Len(map) + 1) \ 0..(j - 1) \subseteq Free
    BY DEF MemInv, MemTypeOK, ReserveInv
  <2>2. /\ Len(map) \in Nat /\ DOMAIN map = 1..Len(map)
        /\ \A c \in 1..Len(map) : map[c] \in [type : {1, 2}, addr : Nat, len : Nat]
    BY <2>1, MapTypes, MapEntries
  <2>3. Entries = {map[c] : c \in 1..Len(map)} /\ (Len(map) + 1) - 1 = Len(map)
    BY <2>2 DEF Entries
  <2>4. ASSUME NEW k \in 0..(max - 1), NEW c \in 1..Len(map), map[c].type = 1
        PROVE  /\ map[c].addr <= k * PageUnits <=> map[c].addr \div PageUnits <= k
               /\ (k + 1) * PageUnits <= map[c].addr + map[c].len <=>
                    k < End(map[c]) \div PageUnits
    <3>1. Aligned(map[c])
      BY <2>1, <2>3, <2>4 DEF AlignedBefore, Usable
    <3>2. QED
      BY <2>2, <3>1, PagesOfEntry
  <2>5. UsablePages = Covered(Len(map) + 1)
    BY <2>3, <2>4 DEF UsablePages, Covered, Usable
  <2>6. Reserved \in Nat /\ 0..(j - 1) \subseteq 0..(Reserved - 1)
    BY <2>1, ReservedType DEF Reserved, TreePages
  <2>7. QED
    BY <2>1, <2>5, <2>6
<1>2. QED
  BY <1>1, MemInvariant, PTL

=============================================================================
