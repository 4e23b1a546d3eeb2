--------------------------- MODULE SequenceLemmas ----------------------------
(***************************************************************************)
(* Lemmas about numbers and sequences that the proofs of several           *)
(* components cite: induction, and the concatenation of the members of a   *)
(* sequence.                                                               *)
(***************************************************************************)
EXTENDS Integers, Sequences, SequencesExt, WellFoundedInduction, TLAPS

-----------------------------------------------------------------------------
(* Division.                                                               *)

\* A number is its quotient times the divisor, plus its remainder.
LEMMA DivMod ==
  ASSUME NEW k \in Nat, NEW d \in Nat \ {0}
  PROVE  /\ k \div d \in Nat
         /\ k % d \in 0..(d - 1)
         /\ k = (k \div d) * d + (k % d)
OBVIOUS

\* Quotient and remainder are determined by that.
LEMMA DivModUnique ==
  ASSUME NEW q \in Nat, NEW d \in Nat \ {0}, NEW r \in 0..(d - 1)
  PROVE  /\ q * d + r \in Nat
         /\ (q * d + r) \div d = q
         /\ (q * d + r) % d = r
OBVIOUS

\* A multiple that is not above another has no greater factor.
LEMMA TimesMonotone ==
  ASSUME NEW a \in Nat, NEW c \in Nat, NEW d \in Nat, a <= c
  PROVE  a * d <= c * d
OBVIOUS

-----------------------------------------------------------------------------
(* Induction.                                                              *)

LEMMA LessOnNat ==
  IsWellFoundedOn({ss \in Nat \X Nat : ss[1] < ss[2]}, Nat)
<1>1. OpToRel(<, Nat) = {ss \in Nat \X Nat : ss[1] < ss[2]}
  BY DEF OpToRel
<1>2. QED
  BY <1>1, NatLessThanWellFounded

\* A set of natural numbers has a least member.
LEMMA Least ==
  ASSUME NEW S, S \subseteq Nat, S # {}
  PROVE  \E x \in S : \A y \in S : x <= y
<1>1. PICK x \in S : \A y \in S : <<y, x>> \notin {ss \in Nat \X Nat : ss[1] < ss[2]}
  BY LessOnNat, WFMin
<1>2. ASSUME NEW y \in S PROVE x <= y
  <2>1. x \in Nat /\ y \in Nat
    OBVIOUS
  <2>2. ~(y < x)
    BY <1>1, <2>1
  <2>3. QED
    BY <2>1, <2>2
<1>3. QED
  BY <1>2

\* What holds of zero, and of the next number whenever it holds of a number,
\* holds of all: S is the set of the numbers of which it holds.
LEMMA SetInduction ==
  ASSUME NEW S, 0 \in S, \A n \in Nat : n \in S => n + 1 \in S
  PROVE  Nat \subseteq S
<1> SUFFICES ASSUME ~(Nat \subseteq S) PROVE FALSE
  OBVIOUS
<1> DEFINE T == Nat \ S
<1>1. T \subseteq Nat /\ T # {}
  OBVIOUS
<1>2. PICK x \in T : \A y \in T : x <= y
  BY <1>1, Least
<1>3. x # 0 /\ x - 1 \in Nat /\ x - 1 \notin T
  BY <1>2
<1>4. (x - 1) + 1 = x
  BY <1>3
<1>5. QED
  BY <1>2, <1>3, <1>4

\* A set of natural numbers with a bound has a greatest member, and Max
\* chooses it.
LEMMA Greatest ==
  ASSUME NEW S, S \subseteq Nat, S # {}, NEW bound \in Nat, \A x \in S : x <= bound
  PROVE  Max(S) \in S /\ \A x \in S : x <= Max(S)
<1> DEFINE T == {x \in Nat : \A y \in S : y <= x}
<1>1. T \subseteq Nat /\ bound \in T
  OBVIOUS
<1>2. PICK x \in T : \A y \in T : x <= y
  BY <1>1, Least
<1>3. x \in S
  <2> SUFFICES ASSUME x \notin S PROVE FALSE
    OBVIOUS
  <2>1. PICK z \in S : TRUE
    OBVIOUS
  <2>2. x \in Nat /\ \A y \in S : y \in Nat /\ y < x
    OBVIOUS
  <2>3. x - 1 \in Nat /\ \A y \in S : y <= x - 1
    BY <2>1, <2>2
  <2>4. x - 1 \in T
    BY <2>3
  <2>5. QED
    BY <1>2, <2>2, <2>4
<1>4. \E y \in S : \A z \in S : y >= z
  BY <1>3
<1>5. Max(S) \in S /\ \A z \in S : Max(S) >= z
  BY <1>4 DEF Max
<1>6. QED
  BY <1>5

-----------------------------------------------------------------------------
(* FlattenSeq.                                                             *)

\* The function FlattenSeq is defined with.
IsFlatten(f, g) ==
  f = [i \in 1..Len(g) |-> IF i = 1 THEN g[i] ELSE f[i - 1] \o g[i]]

\* Its value at k + 1.
FlattenAt(f, g, k) ==
  /\ k = 0 => f[k + 1] = g[k + 1]
  /\ k # 0 => f[k + 1] = f[k] \o g[k + 1]

LEMMA FlattenStep ==
  ASSUME NEW g, NEW f, IsFlatten(f, g), NEW k \in Nat, k + 1 \in 1..Len(g)
  PROVE  FlattenAt(f, g, k)
<1> DEFINE F == [i \in 1..Len(g) |-> IF i = 1 THEN g[i] ELSE f[i - 1] \o g[i]]
<1>1. F[k + 1] = IF k + 1 = 1 THEN g[k + 1] ELSE f[k + 1 - 1] \o g[k + 1]
  OBVIOUS
<1>2. f = F
  BY DEF IsFlatten
<1> HIDE DEF F
<1>3. f[k + 1] = F[k + 1]
  BY <1>2
<1>4. k + 1 - 1 = k /\ (k + 1 = 1 <=> k = 0)
  OBVIOUS
<1>5. QED
  BY <1>1, <1>3, <1>4 DEF FlattenAt

\* Two such functions for sequences that begin with the same members agree on
\* those.
AgreeUpTo(g, h, n) == \A i \in 1..n : g[i] = h[i]

LEMMA FlattenAgree ==
  ASSUME NEW g, NEW h, NEW n \in Nat, Len(g) \in Nat, Len(h) \in Nat,
         n <= Len(g), n <= Len(h), AgreeUpTo(g, h, n),
         NEW e, IsFlatten(e, g), NEW f, IsFlatten(f, h)
  PROVE  AgreeUpTo(e, f, n)
<1> USE DEF AgreeUpTo
<1> DEFINE S == {i \in Nat : i \in 1..n => e[i] = f[i]}
<1>1. 0 \in S
  OBVIOUS
<1>2. ASSUME NEW k \in Nat, k \in S PROVE k + 1 \in S
  <2> SUFFICES ASSUME k + 1 \in 1..n PROVE e[k + 1] = f[k + 1]
    OBVIOUS
  <2>1. k + 1 \in 1..Len(g) /\ k + 1 \in 1..Len(h) /\ g[k + 1] = h[k + 1]
    OBVIOUS
  <2>2. FlattenAt(e, g, k)
    BY <2>1, FlattenStep
  <2>3. FlattenAt(f, h, k)
    BY <2>1, FlattenStep
  <2>4. k # 0 => k \in 1..n
    OBVIOUS
  <2>5. k \in 1..n => e[k] = f[k]
    BY <1>2
  <2>6. QED
    BY <2>1, <2>2, <2>3, <2>4, <2>5 DEF FlattenAt
<1>3. Nat \subseteq S
  BY <1>1, <1>2, SetInduction
<1>4. QED
  BY <1>3

\* There is such a function for every sequence.
LEMMA FlattenExists ==
  ASSUME NEW g, Len(g) \in Nat
  PROVE  \E f : IsFlatten(f, g)
<1> DEFINE Body(f, n) == [i \in 1..n |-> IF i = 1 THEN g[i] ELSE f[i - 1] \o g[i]]
           Upto(f, n) == f = Body(f, n)
           S == {n \in Nat : \E f : Upto(f, n)}
<1>1. 0 \in S
  <2>1. Upto(<<>>, 0)
    OBVIOUS
  <2>2. QED
    BY <2>1
<1>2. ASSUME NEW n \in Nat, n \in S PROVE n + 1 \in S
  <2>1. PICK f : Upto(f, n)
    BY <1>2
  <2> DEFINE e == Body(f, n + 1)
  <2>2. ASSUME NEW i \in 1..n PROVE e[i] = f[i]
    <3>1. e[i] = Body(f, n)[i]
      OBVIOUS
    <3> HIDE DEF Body, e
    <3>2. QED
      BY <2>1, <3>1
  <2>3. ASSUME NEW i \in 1..(n + 1), i # 1 PROVE f[i - 1] = e[i - 1]
    <3>1. i - 1 \in 1..n
      BY <2>3
    <3> HIDE DEF e
    <3>2. QED
      BY <2>2, <3>1
  <2>4. Upto(e, n + 1)
    <3>1. ASSUME NEW x, \A i \in 1..(n + 1) : i # 1 => f[i - 1] = x[i - 1]
          PROVE  Body(f, n + 1) = Body(x, n + 1)
      BY <3>1
    <3> HIDE DEF Body
    <3>2. QED
      BY <2>3, <3>1
  <2> HIDE DEF Upto, e
  <2>5. QED
    BY <2>4
<1>3. Nat \subseteq S
  <2> HIDE DEF S
  <2>1. QED
    BY <1>1, <1>2, SetInduction
<1>4. QED
  BY <1>3 DEF IsFlatten

\* FlattenSeq takes the last value of that function.
LEMMA FlattenIs ==
  ASSUME NEW g, Len(g) \in Nat \ {0}, NEW f, IsFlatten(f, g)
  PROVE  FlattenSeq(g) = f[Len(g)]
<1> DEFINE c == CHOOSE e : IsFlatten(e, g)
<1>1. IsFlatten(c, g)
  BY FlattenExists
<1>2. FlattenSeq(g) = c[Len(g)]
  BY DEF FlattenSeq, IsFlatten
<1>3. Len(g) \in 1..Len(g)
  OBVIOUS
<1> HIDE DEF c
<1>4. c[Len(g)] = f[Len(g)]
  <2>1. AgreeUpTo(g, g, Len(g))
    BY DEF AgreeUpTo
  <2>2. AgreeUpTo(c, f, Len(g))
    BY <1>1, <2>1, FlattenAgree
  <2>3. QED
    BY <1>3, <2>2 DEF AgreeUpTo
<1>5. QED
  BY <1>2, <1>4

LEMMA ConcatType ==
  ASSUME NEW S, NEW s \in Seq(S), NEW t \in Seq(S)
  PROVE  s \o t \in Seq(S)
OBVIOUS

\* FlattenSeq by recursion from the end.
LEMMA FlattenNil == FlattenSeq(<<>>) = <<>>
BY DEF FlattenSeq

LEMMA FlattenAppend ==
  ASSUME NEW S, NEW g \in Seq(Seq(S)), NEW x \in Seq(S)
  PROVE  FlattenSeq(Append(g, x)) = FlattenSeq(g) \o x
<1> DEFINE n == Len(g)
           h == Append(g, x)
<1>1. /\ n \in Nat /\ Len(h) = n + 1 /\ h[n + 1] = x
      /\ \A i \in 1..n : h[i] = g[i]
  OBVIOUS
<1> HIDE DEF h, n
<1>2. PICK f : IsFlatten(f, h)
  BY <1>1, FlattenExists
<1>3. FlattenAt(f, h, n)
  <2>1. n + 1 \in 1..Len(h)
    BY <1>1
  <2>2. QED
    BY <1>1, <1>2, <2>1, FlattenStep
<1>4. FlattenSeq(h) = f[n + 1]
  BY <1>1, <1>2, FlattenIs
<1>5. CASE n = 0
  <2>1. g = <<>> /\ FlattenSeq(g) = <<>>
    BY <1>5, FlattenNil DEF n
  <2>2. f[n + 1] = x
    BY <1>1, <1>3, <1>5 DEF FlattenAt
  <2>3. QED
    BY <1>4, <2>1, <2>2 DEF h
<1>6. CASE n # 0
  <2>1. PICK e : IsFlatten(e, g)
    BY FlattenExists
  <2>2. FlattenSeq(g) = e[n]
    BY SMTT(30), <1>6, <2>1, FlattenIs DEF n
  <2>3. n <= Len(g) /\ n <= Len(h) /\ Len(h) \in Nat /\ Len(g) \in Nat
    BY <1>1 DEF n
  <2>4. AgreeUpTo(g, h, n)
    BY <1>1 DEF AgreeUpTo
  <2>5. AgreeUpTo(e, f, n)
    BY <1>1, <1>2, <2>1, <2>3, <2>4, FlattenAgree
  <2>6. e[n] = f[n]
    BY <1>1, <1>6, <2>5 DEF AgreeUpTo
  <2>7. QED
    BY <1>1, <1>3, <1>4, <1>6, <2>2, <2>6 DEF FlattenAt, h
<1>7. QED
  BY <1>5, <1>6 DEF h

\* The concatenation of the first k members.
FlatUpTo(g, k) == FlattenSeq(SubSeq(g, 1, k))

LEMMA FlatUpToIs ==
  ASSUME NEW S, NEW g \in Seq(Seq(S))
  PROVE  /\ FlatUpTo(g, 0) = <<>>
         /\ FlatUpTo(g, Len(g)) = FlattenSeq(g)
<1>1. SubSeq(g, 1, 0) = <<>>
  OBVIOUS
<1>2. SubSeq(g, 1, Len(g)) = g
  OBVIOUS
<1>3. QED
  BY <1>1, <1>2, FlattenNil DEF FlatUpTo

LEMMA FlatUpToStep ==
  ASSUME NEW S, NEW g \in Seq(Seq(S)), NEW k \in 0..(Len(g) - 1)
  PROVE  FlatUpTo(g, k + 1) = FlatUpTo(g, k) \o g[k + 1]
<1>1. /\ SubSeq(g, 1, k) \in Seq(Seq(S))
      /\ g[k + 1] \in Seq(S)
  OBVIOUS
<1>2. SubSeq(g, 1, k + 1) = Append(SubSeq(g, 1, k), g[k + 1])
  OBVIOUS
<1>3. QED
  BY <1>1, <1>2, FlattenAppend DEF FlatUpTo

\* It is a sequence of the members' elements.
LEMMA FlatUpToType ==
  ASSUME NEW S, NEW g \in Seq(Seq(S))
  PROVE  \A k \in 0..Len(g) : FlatUpTo(g, k) \in Seq(S)
<1> DEFINE T == {k \in Nat : k <= Len(g) => FlatUpTo(g, k) \in Seq(S)}
<1>1. 0 \in T
  <2>1. FlatUpTo(g, 0) = <<>> /\ <<>> \in Seq(S)
    BY FlatUpToIs
  <2>2. QED
    BY <2>1
<1>2. ASSUME NEW k \in Nat, k \in T PROVE k + 1 \in T
  <2> SUFFICES ASSUME k + 1 <= Len(g) PROVE FlatUpTo(g, k + 1) \in Seq(S)
    OBVIOUS
  <2>1. k \in 0..(Len(g) - 1) /\ k <= Len(g)
    OBVIOUS
  <2>2. FlatUpTo(g, k) \in Seq(S)
    BY <1>2, <2>1
  <2>3. FlatUpTo(g, k + 1) = FlatUpTo(g, k) \o g[k + 1]
    BY <2>1, FlatUpToStep
  <2>4. g[k + 1] \in Seq(S)
    BY <2>1
  <2>5. FlatUpTo(g, k) \o g[k + 1] \in Seq(S)
    BY <2>2, <2>4, ConcatType
  <2>6. QED
    BY <2>3, <2>5
<1>3. Nat \subseteq T
  BY <1>1, <1>2, SetInduction
<1>4. QED
  BY <1>3

LEMMA FlattenType ==
  ASSUME NEW S, NEW g \in Seq(Seq(S))
  PROVE  FlattenSeq(g) \in Seq(S)
<1>1. Len(g) \in 0..Len(g)
  OBVIOUS
<1>2. QED
  BY <1>1, FlatUpToType, FlatUpToIs

\* It is empty if all members are.
LEMMA ConcatEmpty ==
  ASSUME NEW S, NEW s \in Seq(S), NEW t \in Seq(S)
  PROVE  s \o t = <<>> <=> s = <<>> /\ t = <<>>
<1>1. Len(s \o t) = Len(s) + Len(t) /\ s \o t \in Seq(S)
  OBVIOUS
<1>2. \A x \in Seq(S) : x = <<>> <=> Len(x) = 0
  OBVIOUS
<1>3. QED
  BY <1>1, <1>2

LEMMA FlattenEmpty ==
  ASSUME NEW S, NEW g \in Seq(Seq(S))
  PROVE  FlattenSeq(g) = <<>> <=> \A i \in 1..Len(g) : g[i] = <<>>
<1> DEFINE T == {k \in Nat : k <= Len(g) =>
                   (FlatUpTo(g, k) = <<>> <=> \A i \in 1..k : g[i] = <<>>)}
<1>1. 0 \in T
  BY FlatUpToIs
<1>2. ASSUME NEW k \in Nat, k \in T PROVE k + 1 \in T
  <2> SUFFICES ASSUME k + 1 <= Len(g)
               PROVE  FlatUpTo(g, k + 1) = <<>>
                        <=> \A i \in 1..(k + 1) : g[i] = <<>>
    BY SMTT(30)
  <2>1. k \in 0..(Len(g) - 1) /\ k \in 0..Len(g) /\ k <= Len(g)
    OBVIOUS
  <2>2. FlatUpTo(g, k) = <<>> <=> \A i \in 1..k : g[i] = <<>>
    BY <1>2, <2>1
  <2>3. FlatUpTo(g, k + 1) = FlatUpTo(g, k) \o g[k + 1]
    BY <2>1, FlatUpToStep
  <2>4. g[k + 1] \in Seq(S) /\ FlatUpTo(g, k) \in Seq(S)
    BY <2>1, FlatUpToType
  <2>5. FlatUpTo(g, k) \o g[k + 1] = <<>>
          <=> FlatUpTo(g, k) = <<>> /\ g[k + 1] = <<>>
    BY <2>4, ConcatEmpty
  <2>6. (\A i \in 1..(k + 1) : g[i] = <<>>)
          <=> (\A i \in 1..k : g[i] = <<>>) /\ g[k + 1] = <<>>
    <3>1. \A i \in 1..(k + 1) : i \in 1..k \/ i = k + 1
      OBVIOUS
    <3>2. k + 1 \in 1..(k + 1) /\ \A i \in 1..k : i \in 1..(k + 1)
      OBVIOUS
    <3>3. QED
      BY <3>1, <3>2
  <2>7. QED
    BY <2>2, <2>3, <2>5, <2>6
<1>3. Nat \subseteq T
  BY <1>1, <1>2, SetInduction
<1>4. Len(g) \in T
  BY <1>3
<1>5. QED
  BY <1>4, FlatUpToIs

\* What the provers know of concatenation, as lemmas to cite.
LEMMA ConcatNil ==
  ASSUME NEW S, NEW s \in Seq(S)
  PROVE  s \o <<>> = s /\ <<>> \o s = s
OBVIOUS

LEMMA ConcatThree ==
  ASSUME NEW S, NEW s \in Seq(S), NEW t \in Seq(S), NEW u \in Seq(S)
  PROVE  (s \o t) \o u = s \o (t \o u)
OBVIOUS

\* The same as a predicate, for long concatenations.
Associates(s, t, u) == (s \o t) \o u = s \o (t \o u)

LEMMA ConcatAssociates ==
  ASSUME NEW S, NEW s \in Seq(S), NEW t \in Seq(S), NEW u \in Seq(S)
  PROVE  Associates(s, t, u)
BY ConcatThree DEF Associates

\* Seven sequences, grouped. A predicate again, to be cited for terms.
Regrouped(l, w, r, s, x, y, z) ==
  l \o w \o r \o s \o x \o y \o z = l \o (w \o r \o (s \o x \o y \o z))

LEMMA ConcatRegrouped ==
  ASSUME NEW S, NEW l \in Seq(S), NEW w \in Seq(S), NEW r \in Seq(S),
         NEW s \in Seq(S), NEW x \in Seq(S), NEW y \in Seq(S), NEW z \in Seq(S)
  PROVE  Regrouped(l, w, r, s, x, y, z)
<1> DEFINE p == w \o r
           u == s \o x
           t == u \o y
<1>1. p \in Seq(S) /\ u \in Seq(S)
  BY ConcatType
<1>2. t \in Seq(S)
  BY <1>1, ConcatType
<1>3. p \o s \in Seq(S) /\ p \o u \in Seq(S) /\ p \o t \in Seq(S)
  BY <1>1, <1>2, ConcatType
<1> HIDE DEF p, u, t
<1>4. /\ Associates(l, w, r) /\ Associates(l, p, s) /\ Associates(p, s, x)
      /\ Associates(p, u, y) /\ Associates(p, t, z)
      /\ Associates(l, p \o s, x) /\ Associates(l, p \o u, y) /\ Associates(l, p \o t, z)
  BY <1>1, <1>2, <1>3, ConcatAssociates
<1>5. l \o w \o r \o s \o x = l \o (p \o u)
  BY <1>4, Zenon DEF Associates, p, u
<1>6. l \o w \o r \o s \o x \o y = l \o (p \o t)
  BY <1>4, <1>5, Zenon DEF Associates, t
<1>7. l \o w \o r \o s \o x \o y \o z = l \o (p \o (t \o z))
  BY <1>4, <1>6, Zenon DEF Associates
<1>8. QED
  BY <1>7, Zenon DEF p, t, u, Regrouped

\* FlattenSeq distributes over the concatenation of sequences of sequences.
LEMMA FlattenConcat ==
  ASSUME NEW S, NEW g \in Seq(Seq(S)), NEW h \in Seq(Seq(S))
  PROVE  FlattenSeq(g \o h) = FlattenSeq(g) \o FlattenSeq(h)
<1> DEFINE n == Len(g)
           T == {k \in Nat : k <= Len(h) =>
                   FlatUpTo(g \o h, n + k) = FlattenSeq(g) \o FlatUpTo(h, k)}
<1>1. /\ g \o h \in Seq(Seq(S)) /\ Len(g \o h) = n + Len(h)
      /\ n \in Nat /\ Len(h) \in Nat
      /\ \A k \in 1..Len(h) : (g \o h)[n + k] = h[k]
  OBVIOUS
<1>2. FlattenSeq(g) \in Seq(S)
  BY FlattenType
<1>3. 0 \in T
  <2>1. SubSeq(g \o h, 1, n) = g /\ n + 0 = n
    OBVIOUS
  <2>2. FlatUpTo(g \o h, n + 0) = FlattenSeq(g)
    BY <2>1 DEF FlatUpTo
  <2>3. FlatUpTo(h, 0) = <<>>
    BY FlatUpToIs
  <2>4. FlattenSeq(g) \o FlatUpTo(h, 0) = FlattenSeq(g)
    BY <1>2, <2>3, ConcatNil
  <2>5. QED
    BY <2>2, <2>4
<1> HIDE DEF n
<1>4. ASSUME NEW k \in Nat, k \in T PROVE k + 1 \in T
  <2> SUFFICES ASSUME k + 1 <= Len(h)
               PROVE  FlatUpTo(g \o h, n + (k + 1)) = FlattenSeq(g) \o FlatUpTo(h, k + 1)
    OBVIOUS
  <2>1. /\ k \in 0..(Len(h) - 1) /\ k \in 0..Len(h) /\ k <= Len(h)
        /\ n + k \in 0..(Len(g \o h) - 1) /\ n + (k + 1) = n + k + 1
        /\ k + 1 \in 1..Len(h)
    BY <1>1
  <2>2. FlatUpTo(g \o h, n + k) = FlattenSeq(g) \o FlatUpTo(h, k)
    BY <1>4, <2>1
  <2>3. FlatUpTo(g \o h, n + k + 1) = FlatUpTo(g \o h, n + k) \o (g \o h)[n + k + 1]
    BY <1>1, <2>1, FlatUpToStep
  <2>4. (g \o h)[n + k + 1] = h[k + 1]
    <3>1. (g \o h)[n + (k + 1)] = h[k + 1]
      BY <1>1, <2>1
    <3>2. QED
      BY <2>1, <3>1
  <2>5. FlatUpTo(h, k + 1) = FlatUpTo(h, k) \o h[k + 1]
    BY <2>1, FlatUpToStep
  <2>6. FlatUpTo(h, k) \in Seq(S) /\ h[k + 1] \in Seq(S)
    BY <2>1, FlatUpToType
  <2>7. (FlattenSeq(g) \o FlatUpTo(h, k)) \o h[k + 1]
          = FlattenSeq(g) \o (FlatUpTo(h, k) \o h[k + 1])
    <3>1. ASSUME NEW s \in Seq(S), NEW t \in Seq(S), NEW u \in Seq(S)
          PROVE  (s \o t) \o u = s \o (t \o u)
      BY SMTT(30), ConcatThree
    <3>2. QED
      BY <1>2, <2>6, <3>1, Zenon
  <2>8. QED
    BY <2>1, <2>2, <2>3, <2>4, <2>5, <2>7
<1>5. Nat \subseteq T
  BY <1>3, <1>4, SetInduction
<1>6. FlatUpTo(g \o h, n + Len(h)) = FlattenSeq(g) \o FlatUpTo(h, Len(h))
  BY SMTT(30), <1>1, <1>5
<1>7. QED
  BY <1>1, <1>6, FlatUpToIs

\* If all members but one are empty, it is that one.
LEMMA FlattenSingle ==
  ASSUME NEW S, NEW g \in Seq(Seq(S)), NEW i \in 1..Len(g),
         \A j \in 1..Len(g) : j # i => g[j] = <<>>
  PROVE  FlattenSeq(g) = g[i]
<1> DEFINE T == {k \in Nat : k <= Len(g) =>
                   FlatUpTo(g, k) = IF k < i THEN <<>> ELSE g[i]}
<1>1. 0 \in T
  BY FlatUpToIs
<1>2. ASSUME NEW k \in Nat, k \in T PROVE k + 1 \in T
  <2> SUFFICES ASSUME k + 1 <= Len(g)
               PROVE  FlatUpTo(g, k + 1) = IF k + 1 < i THEN <<>> ELSE g[i]
    OBVIOUS
  <2>1. k \in 0..(Len(g) - 1) /\ k <= Len(g) /\ k + 1 \in 1..Len(g)
    OBVIOUS
  <2>2. FlatUpTo(g, k) = IF k < i THEN <<>> ELSE g[i]
    BY <1>2, <2>1
  <2>3. FlatUpTo(g, k + 1) = FlatUpTo(g, k) \o g[k + 1]
    BY <2>1, FlatUpToStep
  <2>4. g[k + 1] \in Seq(S) /\ g[i] \in Seq(S) /\ <<>> \in Seq(S)
    BY <2>1
  <2>5. CASE k + 1 < i
    <3>1. FlatUpTo(g, k) = <<>> /\ g[k + 1] = <<>>
      BY <2>1, <2>2, <2>5
    <3>2. QED
      BY <2>3, <2>4, <2>5, <3>1, ConcatNil
  <2>6. CASE k + 1 = i
    <3>1. FlatUpTo(g, k) = <<>> /\ ~(k + 1 < i)
      BY <2>2, <2>6
    <3>2. <<>> \o g[i] = g[i]
      BY <2>4, ConcatNil
    <3>3. QED
      BY <2>3, <2>6, <3>1, <3>2
  <2>7. CASE k + 1 > i
    <3>1. FlatUpTo(g, k) = g[i] /\ g[k + 1] = <<>> /\ ~(k + 1 < i)
      BY <2>1, <2>2, <2>7
    <3>2. g[i] \o <<>> = g[i]
      BY <2>4, ConcatNil
    <3>3. QED
      BY <2>3, <3>1, <3>2
  <2>8. QED
    BY <2>5, <2>6, <2>7
<1>3. Nat \subseteq T
  <2> HIDE DEF T
  <2>1. QED
    BY <1>1, <1>2, SetInduction
<1>4. ~(Len(g) < i) /\ Len(g) \in Nat
  OBVIOUS
<1>5. QED
  BY <1>3, <1>4, FlatUpToIs

\* If every member has one element, it is the sequence of those.
LEMMA FlattenOnes ==
  ASSUME NEW S, NEW s \in Seq(S), NEW g \in Seq(Seq(S)), Len(g) = Len(s),
         \A i \in 1..Len(s) : g[i] = <<s[i]>>
  PROVE  FlattenSeq(g) = s
<1> DEFINE T == {k \in Nat : k <= Len(s) => FlatUpTo(g, k) = SubSeq(s, 1, k)}
<1>1. 0 \in T
  <2>1. SubSeq(s, 1, 0) = <<>>
    OBVIOUS
  <2>2. QED
    BY <2>1, FlatUpToIs
<1>2. ASSUME NEW k \in Nat, k \in T PROVE k + 1 \in T
  <2> SUFFICES ASSUME k + 1 <= Len(s) PROVE FlatUpTo(g, k + 1) = SubSeq(s, 1, k + 1)
    OBVIOUS
  <2>1. k \in 0..(Len(g) - 1) /\ k <= Len(s) /\ g[k + 1] = <<s[k + 1]>>
    OBVIOUS
  <2>2. FlatUpTo(g, k) = SubSeq(s, 1, k)
    BY <1>2, <2>1
  <2>3. FlatUpTo(g, k + 1) = FlatUpTo(g, k) \o g[k + 1]
    BY <2>1, FlatUpToStep
  <2>4. SubSeq(s, 1, k) \o <<s[k + 1]>> = SubSeq(s, 1, k + 1)
    OBVIOUS
  <2>5. QED
    BY <2>1, <2>2, <2>3, <2>4
<1>3. Nat \subseteq T
  <2> HIDE DEF T
  <2>1. QED
    BY <1>1, <1>2, SetInduction
<1>4. Len(s) \in T
  <2>1. Len(s) \in Nat
    OBVIOUS
  <2>2. QED
    BY <1>3, <2>1
<1>5. SubSeq(s, 1, Len(s)) = s
  OBVIOUS
<1>6. FlatUpTo(g, Len(g)) = s
  <2>1. FlatUpTo(g, Len(s)) = SubSeq(s, 1, Len(s))
    BY <1>4
  <2> HIDE DEF T
  <2>2. QED
    BY <1>5, <2>1
<1>7. QED
  BY <1>6, FlatUpToIs

=============================================================================
