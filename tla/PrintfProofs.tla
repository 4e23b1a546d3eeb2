---------------------------- MODULE PrintfProofs -----------------------------
(***************************************************************************)
(* Proofs about printf-format.c and printf.c (modules FormatBuild, Sprintf *)
(* and Printf) for every text, table size, argument and sequence of        *)
(* buffers.  The parser reads only inside the text and fills only its      *)
(* table, and cuts a text into the pieces it means (ParseInv: they are the *)
(* pieces so far and what the text means from the position at which the    *)
(* piece under way begins).  npr_sprintf reads only the arguments there    *)
(* are and writes only into the buffer of the call (IInv: the place in the *)
(* arguments is the number of conversions before the place in the pieces). *)
(* However the output is cut into buffers, each character comes once and   *)
(* in its place, and is_fini tells when it is complete (PrintedInv: what   *)
(* is printed and what is left of the piece at hand are the pieces up to   *)
(* this one).                                                              *)
(***************************************************************************)
EXTENDS Printf, SequenceLemmas, TLAPS, SequenceTheorems, FiniteSetTheorems

-----------------------------------------------------------------------------
(* Ranks.                                                                  *)

Before(k) == {m \in 1..k : IsConversion(f[m])}

LEMMA BeforeFinite ==
  ASSUME NEW k \in Nat
  PROVE  IsFiniteSet(Before(k)) /\ Rank(k) = Cardinality(Before(k)) /\ Rank(k) \in Nat
<1>1. IsFiniteSet(1..k)
  BY FS_Interval
<1>2. IsFiniteSet(Before(k))
  BY <1>1, FS_Subset DEF Before
<1>3. QED
  BY <1>2, FS_CardinalityType DEF Before, Rank

\* The rank grows by one at each conversion.
LEMMA RankNext ==
  ASSUME NEW k \in Nat
  PROVE  Rank(k + 1) = IF IsConversion(f[k + 1]) THEN Rank(k) + 1 ELSE Rank(k)
<1>1. CASE IsConversion(f[k + 1])
  <2>1. Before(k + 1) = Before(k) \cup {k + 1} /\ k + 1 \notin Before(k)
    BY <1>1 DEF Before
  <2>2. Cardinality(Before(k) \cup {k + 1}) = Cardinality(Before(k)) + 1
    BY <2>1, BeforeFinite, FS_AddElement
  <2>3. QED
    BY <1>1, <2>1, <2>2, BeforeFinite
<1>2. CASE ~IsConversion(f[k + 1])
  <2>1. Before(k + 1) = Before(k)
    BY <1>2 DEF Before
  <2>2. QED
    BY <1>2, <2>1, BeforeFinite
<1>3. QED
  BY <1>1, <1>2

LEMMA RankZero == Rank(0) = 0
<1>1. Before(0) = {}
  BY DEF Before
<1>2. QED
  BY <1>1, BeforeFinite, FS_EmptySet

LEMMA RankMonotone ==
  ASSUME NEW j \in Nat, NEW k \in Nat, j <= k
  PROVE  Rank(j) <= Rank(k)
<1>1. Before(j) \subseteq Before(k)
  BY DEF Before
<1>2. QED
  BY <1>1, BeforeFinite, FS_Subset

\* A conversion has a rank of its own.
LEMMA RankPositive ==
  ASSUME NEW k \in Nat \ {0}, IsConversion(f[k])
  PROVE  Rank(k) \in 1..Rank(k)
<1>1. k - 1 \in Nat /\ (k - 1) + 1 = k
  OBVIOUS
<1>2. Rank(k) = Rank(k - 1) + 1
  BY <1>1, RankNext
<1>3. QED
  BY <1>1, <1>2, BeforeFinite

-----------------------------------------------------------------------------
(* Sequences of output characters.                                         *)

LEMMA CharactersAreOutput ==
  ASSUME NEW s \in Seq(Characters)
  PROVE  s \in Seq(Output)
<1>1. Characters \subseteq Output
  BY DEF Output
<1>2. QED
  BY <1>1, SeqMonotonic

LEMMA SpecialOutput ==
  /\ " " \in Output /\ "-" \in Output /\ "0" \in Output
  /\ \A n \in 1..16 : Digits[n] \in Output
<1>1. Digits[1] = "0"
  BY DEF Digits
<1>2. QED
  BY <1>1 DEF Output

LEMMA FillType ==
  ASSUME NEW c \in Output, NEW n \in Int
  PROVE  Fill(c, n) \in Seq(Output)
<1>1. CASE n >= 0
  BY <1>1 DEF Fill
<1>2. CASE n < 0
  <2>1. 1..n = 1..0
    BY <1>2
  <2>2. Fill(c, n) = [k \in 1..0 |-> c]
    BY <2>1 DEF Fill
  <2>3. QED
    BY <2>2
<1>3. QED
  BY <1>1, <1>2

LEMMA DifferenceType ==
  ASSUME NEW m \in Int, NEW n \in Int
  PROVE  m - n \in Int
OBVIOUS

\* A part of a sequence.
LEMMA PartType ==
  ASSUME NEW S, NEW s \in Seq(S), NEW m \in Nat \ {0}, NEW n \in 0..Len(s)
  PROVE  /\ SubSeq(s, m, n) \in Seq(S)
         /\ Len(SubSeq(s, m, n)) = IF m <= n THEN n - m + 1 ELSE 0
<1>1. \A i0 \in m..n : s[i0] \in S
  OBVIOUS
<1>2. m \in Int /\ n \in Int
  OBVIOUS
<1>3. QED
  BY <1>1, <1>2, SubSeqProperties

-----------------------------------------------------------------------------
(* npr_printf_build_format.                                                *)

LEMMA DigitValueType ==
  ASSUME NEW c, IsDigit(c)
  PROVE  DigitValue[c] \in Nat
BY DEF IsDigit, DigitValue

LEMMA TimesType ==
  ASSUME NEW c, NEW k
  PROVE  Times(c, k) \in 0..2
BY DEF Times

LEMMA OrdinaryType ==
  ASSUME NEW s \in Seq(Characters)
  PROVE  Ordinary(s) \in Formats
BY DEF Ordinary, Formats, Types

BuildInv == BuildTypeOK /\ (label = "ord_str" => f # <<>>)
Building == label \notin {"args", "print"}

LEMMA FormatStartOK ==
  ASSUME BuildInv, FormatStart
  PROVE  BuildInv' /\ Building'
<1> USE FormatAssumption DEF BuildInv, BuildTypeOK, Building
<1>1. label = "start" /\ text' = text /\ zero' = zero /\ wid' = wid
  BY DEF FormatStart
<1>2. i \in 0..Len(text) /\ Len(text) \in Nat /\ Len(f) \in Nat
  BY <1>1
<1>3. CASE AtEnd
  BY <1>1, <1>2, <1>3 DEF FormatStart
<1>4. CASE ~AtEnd /\ Next1 = "%"
  BY <1>1, <1>2, <1>4 DEF FormatStart, AtEnd
<1>5. CASE ~AtEnd /\ Next1 # "%" /\ Len(f) >= MaxFormat
  BY <1>1, <1>2, <1>5 DEF FormatStart
<1>6. CASE ~AtEnd /\ Next1 # "%" /\ ~(Len(f) >= MaxFormat)
  <2>1. label' = "ord_str" /\ f' = Append(f, Ordinary(<<>>)) /\ i' = i
    BY <1>6 DEF FormatStart
  <2>2. Ordinary(<<>>) \in Formats
    BY OrdinaryType, EmptySeq
  <2>3. f' \in Seq(Formats) /\ Len(f') = Len(f) + 1
    BY <2>1, <2>2, AppendProperties
  <2>4. f' # <<>> /\ Len(f') <= MaxFormat
    BY <1>2, <1>6, <2>3, EmptySeq
  <2>5. QED
    BY <1>1, <1>2, <2>1, <2>3, <2>4
<1>7. QED
  BY <1>3, <1>4, <1>5, <1>6

LEMMA OrdStrOK ==
  ASSUME BuildInv, OrdStr
  PROVE  BuildInv' /\ Building'
<1> USE FormatAssumption DEF BuildInv, BuildTypeOK, Building
<1>1. label = "ord_str" /\ text' = text /\ zero' = zero /\ wid' = wid
  BY DEF OrdStr
<1>2. i \in 0..Len(text) /\ Len(text) \in Nat /\ Len(f) \in Nat
  BY <1>1
<1>3. CASE AtEnd
  BY <1>1, <1>2, <1>3 DEF OrdStr
<1>4. CASE ~AtEnd /\ Next1 = "%"
  BY <1>1, <1>2, <1>4 DEF OrdStr, AtEnd
<1>5. CASE ~AtEnd /\ Next1 # "%"
  <2> DEFINE last == f[Len(f)]
             longer == [last EXCEPT !.ordinary = Append(@, Next1)]
  <2>1. Len(f) \in 1..Len(f)
    BY <1>1, <1>2, EmptySeq
  <2>2. last \in Formats
    BY <2>1, ElementOfSeq
  <2>3. Next1 \in Characters
    <3>1. i + 1 \in 1..Len(text)
      BY <1>2, <1>5 DEF AtEnd
    <3>2. QED
      BY <3>1, ElementOfSeq DEF Next1
  <2>4. Append(last.ordinary, Next1) \in Seq(Characters)
    BY <2>2, <2>3, AppendProperties DEF Formats
  <2>5. longer \in Formats
    BY <2>2, <2>4 DEF Formats
  <2>6. /\ i' = i + 1 /\ label' = label
        /\ f' = [f EXCEPT ![Len(f)] = longer]
    BY <1>5 DEF OrdStr
  <2> HIDE DEF longer
  <2>7. f' \in Seq(Formats) /\ Len(f') = Len(f)
    BY <2>1, <2>5, <2>6, ExceptSeq
  <2>8. f' # <<>>
    BY <1>2, <2>1, <2>7, EmptySeq
  <2>9. i' \in 0..Len(text)
    BY <1>2, <1>5, <2>6 DEF AtEnd
  <2>10. QED
    BY <1>1, <2>6, <2>7, <2>8, <2>9
<1>6. QED
  BY <1>3, <1>4, <1>5

LEMMA FmtNumberOK ==
  ASSUME BuildInv, FmtNumber
  PROVE  BuildInv' /\ Building'
<1> USE FormatAssumption DEF BuildInv, BuildTypeOK, Building
<1>1. label = "number" /\ text' = text /\ f' = f /\ wid' = 0
  BY DEF FmtNumber, Goto
<1>2. i \in 0..Len(text) /\ Len(text) \in Nat
  BY <1>1
<1>3. label' \in {"invalid", "digits"}
  BY DEF FmtNumber, Goto
<1>4. zero' \in BOOLEAN
  BY Zenon DEF FmtNumber
<1>5. i' = IF ~AtEnd /\ Next1 = "0" THEN i + 1 ELSE i
  BY DEF FmtNumber
<1>6. i' \in 0..Len(text)
  BY <1>2, <1>5 DEF AtEnd
<1>7. QED
  BY <1>1, <1>3, <1>4, <1>6

LEMMA FmtDigitsOK ==
  ASSUME BuildInv, FmtDigits
  PROVE  BuildInv' /\ Building'
<1> USE FormatAssumption DEF BuildInv, BuildTypeOK, Building
<1>1. label = "digits" /\ text' = text /\ f' = f /\ zero' = zero
  BY DEF FmtDigits
<1>2. i \in 0..Len(text) /\ Len(text) \in Nat
  BY <1>1
<1>3. CASE AtEnd
  BY <1>1, <1>2, <1>3 DEF FmtDigits
<1>4. CASE ~AtEnd /\ IsDigit(Next1)
  <2>1. i' = i + 1 /\ wid' = wid * 10 + DigitValue[Next1] /\ label' = label
    <3>1. Next1 \notin {".", "-"}
      BY <1>4 DEF IsDigit, DigitValue
    <3>2. QED
      BY <1>4, <3>1 DEF FmtDigits
  <2>2. wid' \in Nat
    BY <1>4, <2>1, DigitValueType
  <2>3. i' \in 0..Len(text)
    BY <1>2, <1>4, <2>1 DEF AtEnd
  <2>4. QED
    BY <1>1, <2>1, <2>2, <2>3
<1>5. CASE ~AtEnd /\ ~IsDigit(Next1) /\ Next1 \in {".", "-"}
  <2>1. label' = "number" /\ i' = i + 1 /\ wid' = wid
    BY <1>5 DEF FmtDigits
  <2>2. i' \in 0..Len(text)
    BY <1>2, <1>5, <2>1 DEF AtEnd
  <2>3. QED
    BY <1>1, <2>1, <2>2
<1>6. CASE ~AtEnd /\ ~IsDigit(Next1) /\ Next1 \notin {".", "-"}
  BY <1>1, <1>2, <1>6 DEF FmtDigits
<1>7. QED
  BY <1>3, <1>4, <1>5, <1>6

LEMMA FmtTypeOK ==
  ASSUME BuildInv, FmtType
  PROVE  BuildInv' /\ Building'
<1> USE FormatAssumption DEF BuildInv, BuildTypeOK, Building
<1> DEFINE long == Times("l", i + 1)
           at == i + 1 + long + Times("h", i + 1 + long)
           piece == [type |-> text[at], long |-> long, wid |-> wid,
                     zero |-> zero, ordinary |-> <<>>]
<1>1. label = "type" /\ text' = text /\ zero' = zero /\ wid' = wid
  BY DEF FmtType
<1>2. i \in 0..Len(text) /\ Len(text) \in Nat /\ Len(f) \in Nat
  BY <1>1
<1>3. long \in 0..2 /\ at \in Nat
  BY <1>2, TimesType
<1>4. CASE label' # "start"
  <2>1. label' \in {"invalid", "too_many"} /\ i' = i /\ f' = f
    BY <1>4 DEF FmtType
  <2>2. QED
    BY <1>1, <1>2, <2>1
<1>5. CASE label' = "start"
  <2>1. /\ at <= Len(text) /\ ~(Len(f) >= MaxFormat)
        /\ text[at] \in TypesFor(long)
        /\ i' = at /\ f' = Append(f, piece)
    BY <1>2, <1>3, <1>5 DEF FmtType
  <2>2. text[at] \in Types
    BY <2>1 DEF TypesFor, Types
  <2>3. <<>> \in Seq(Characters)
    BY EmptySeq
  <2>4. piece \in Formats
    BY <1>3, <2>2, <2>3 DEF Formats
  <2> HIDE DEF piece
  <2>5. f' \in Seq(Formats) /\ Len(f') = Len(f) + 1
    BY <2>1, <2>4, AppendProperties
  <2>6. Len(f') <= MaxFormat
    BY <1>2, <2>1, <2>5
  <2>7. i' \in 0..Len(text)
    BY <1>3, <2>1
  <2>8. QED
    BY <1>1, <1>5, <2>5, <2>6, <2>7
<1>6. QED
  BY <1>4, <1>5

LEMMA BuildStep ==
  ASSUME IInv, BuildNext, UNCHANGED print
  PROVE  IInv'
<1>1. BuildInv
  BY DEF IInv, TypeOK, StageInv, BuildInv
<1>2. BuildInv' /\ Building'
  BY <1>1, FormatStartOK, OrdStrOK, FmtNumberOK, FmtDigitsOK, FmtTypeOK
     DEF BuildNext
<1>3. Building
  BY DEF BuildNext, FormatStart, OrdStr, FmtNumber, FmtDigits, FmtType, Goto,
         Building
<1>4. args = <<>> /\ pc = "idle" /\ format_index = 0 /\ arg_index = 0
  BY <1>3 DEF IInv, StageInv, Building
<1>5. UNCHANGED <<pc, args, format_index, arg_index, state, char_index,
                  num_digit, sign, dump_digit_buf, rest, dst, dstlen,
                  is_fini, sent>>
  BY DEF print, place, number, inputs
<1>6. TypeOK'
  <2>1. Len(f') \in Nat
    BY <1>2 DEF BuildInv, BuildTypeOK
  <2>2. (format_index \in 0..Len(f))'
    BY <1>4, <1>5, <2>1
  <2>3. QED
    BY <1>2, <1>5, <2>2 DEF IInv, TypeOK, BuildInv
<1>7. StageInv'
  BY <1>2, <1>4, <1>5 DEF StageInv, BuildInv, Building
<1>8. ArgsInv'
  BY <1>2 DEF ArgsInv, Building
<1>9. NumberInv'
  BY <1>4, <1>5 DEF NumberInv, IInv
<1>10. QED
  BY <1>6, <1>7, <1>8, <1>9 DEF IInv

-----------------------------------------------------------------------------
(* Ranks and arguments.                                                    *)

LEMMA RankSame ==
  ASSUME f' = f
  PROVE  \A k \in Nat : Rank(k)' = Rank(k)
BY DEF Rank, IsConversion

\* A number of an argument is an integer, its text is there.
LEMMA ArgumentType ==
  ASSUME NEW p \in Formats, NEW a \in ArgsFor(p)
  PROVE  /\ a \in Arguments
         /\ p.type = "s" => a.p \in Strings /\ a.u = Len(a.p)
         /\ p.type = "c" => a.p \in Chars
<1> USE DEF ArgsFor, Arguments
<1>1. CASE p.type = "s"
  <2>1. PICK s \in Strings : a = [p |-> s, u |-> Len(s)]
    BY <1>1
  <2>2. s \in Seq(Characters)
    BY SprintfAssumption
  <2>3. Len(s) \in Nat
    BY <2>2, LenProperties
  <2>4. QED
    BY <1>1, <2>1, <2>3
<1>2. CASE p.type = "c"
  BY <1>2
<1>3. CASE p.type \in {"d", "u", "x"}
  <2>1. PICK n \in IF p.long = 0 THEN Ints ELSE Longs :
               a = [p |-> <<>>, u |-> n]
    BY <1>3
  <2>2. Ints \subseteq Int /\ Longs \subseteq Int
    BY SprintfAssumption
  <2>3. n \in Int
    BY <2>1, <2>2
  <2>4. QED
    BY <1>3, <2>1, <2>3
<1>4. CASE p.type \notin {"s", "c", "d", "u", "x"}
  BY <1>4
<1>5. QED
  BY <1>1, <1>2, <1>3, <1>4

LEMMA StartOK ==
  ASSUME IInv, Start
  PROVE  IInv'
<1>1. /\ label = "args" /\ label' = "print" /\ i = Len(f)
      /\ format_index' = 0 /\ arg_index' = 0 /\ state' = 0 /\ char_index' = 0
      /\ UNCHANGED <<text, i, f, zero, wid, pc, num_digit, sign, rest,
                     dump_digit_buf, dst, is_fini, args, dstlen, sent>>
  BY DEF Start, Goto, number, inputs
<1>2. Len(f) \in Nat /\ Len(args) \in Nat
  BY DEF IInv, TypeOK, BuildTypeOK
<1>3. pc = "idle" /\ Len(args) = Rank(i)
  BY <1>1 DEF IInv, StageInv, ArgsInv
<1>4. TypeOK'
  BY <1>1, <1>2 DEF IInv, TypeOK, BuildTypeOK
<1>5. StageInv'
  BY <1>1 DEF StageInv
<1>6. ArgsInv'
  <2>1. Rank(0)' = 0 /\ Rank(Len(f))' = Rank(Len(f))
    BY <1>1, <1>2, RankZero, RankSame
  <2>2. (/\ i = Len(f)
         /\ Len(args) = Rank(Len(f))
         /\ arg_index = Rank(format_index))'
    BY <1>1, <1>3, <2>1
  <2>3. \A k \in 1..i : IsConversion(f[k]) => args[Rank(k)] \in ArgsFor(f[k])
    BY <1>1 DEF IInv, ArgsInv
  <2>4. (\A k \in 1..i : IsConversion(f[k]) => args[Rank(k)] \in ArgsFor(f[k]))'
    BY <1>1, <2>3 DEF Rank, IsConversion, ArgsFor
  <2>5. QED
    BY <1>1, <2>2, <2>4 DEF ArgsInv
<1>7. NumberInv'
  BY <1>1, <1>3 DEF NumberInv, IInv
<1>8. QED
  BY <1>4, <1>5, <1>6, <1>7 DEF IInv

LEMMA BuiltOK ==
  ASSUME IInv, Built
  PROVE  IInv'
<1>1. /\ label = "built" /\ label' \in {"args", "fatal"} /\ i' = 0
      /\ UNCHANGED <<text, f, zero, wid, pc, format_index, arg_index, state,
                     char_index, num_digit, sign, rest, dump_digit_buf, dst,
                     dstlen, is_fini, args, sent>>
  BY DEF Built, Goto, print, place, number, inputs
<1>2. /\ args = <<>> /\ pc = "idle" /\ format_index = 0 /\ arg_index = 0
  BY <1>1 DEF IInv, StageInv
<1>3. Len(f) \in Nat /\ Len(text) \in Nat
  BY DEF IInv, TypeOK, BuildTypeOK
<1>4. TypeOK'
  BY <1>1, <1>3 DEF IInv, TypeOK, BuildTypeOK
<1>5. StageInv'
  BY <1>1, <1>2 DEF StageInv
<1>6. ArgsInv'
  <2>1. Len(args) = 0
    BY <1>2, EmptySeq
  <2>2. Rank(0)' = 0
    BY <1>1, RankZero, RankSame
  <2>3. (Len(args) = Rank(i))'
    BY <1>1, <2>1, <2>2
  <2>4. (1..i)' = {}
    BY <1>1
  <2>5. QED
    BY <1>1, <2>3, <2>4 DEF ArgsInv
<1>7. NumberInv'
  BY <1>1, <1>2 DEF NumberInv, IInv
<1>8. QED
  BY <1>4, <1>5, <1>6, <1>7 DEF IInv

LEMMA BuildArgOK ==
  ASSUME IInv, BuildArg
  PROVE  IInv'
<1>1. /\ label = "args" /\ i < Len(f) /\ i' = i + 1
      /\ UNCHANGED <<text, label, f, zero, wid, pc, format_index, arg_index,
                     state, char_index, num_digit, sign, rest,
                     dump_digit_buf, dst, dstlen, is_fini, sent>>
  BY DEF BuildArg, place, number
<1>2. /\ Len(f) \in Nat /\ i \in Nat /\ f \in Seq(Formats)
      /\ args \in Seq(Arguments)
  BY <1>1 DEF IInv, TypeOK, BuildTypeOK
<1>3. /\ pc = "idle" /\ format_index = 0 /\ arg_index = 0
      /\ Len(args) = Rank(i)
  BY <1>1 DEF IInv, StageInv, ArgsInv
<1>4. i + 1 \in 1..Len(f) /\ f[i + 1] \in Formats
  BY <1>1, <1>2, ElementOfSeq
<1>5. Rank(i) \in Nat
  BY <1>2, BeforeFinite
<1>6. /\ args' \in Seq(Arguments)
      /\ Len(args') = Rank(i + 1)
      /\ \A k \in 1..Rank(i) : args'[k] = args[k]
      /\ IsConversion(f[i + 1]) => args'[Rank(i + 1)] \in ArgsFor(f[i + 1])
  <2>1. CASE IsConversion(f[i + 1])
    <3>1. PICK a \in ArgsFor(f[i + 1]) : args' = Append(args, a)
      BY <2>1 DEF BuildArg
    <3>2. a \in Arguments
      BY <1>4, ArgumentType
    <3>3. Rank(i + 1) = Rank(i) + 1
      BY <1>2, <2>1, RankNext
    <3>4. /\ args' \in Seq(Arguments)
          /\ Len(args') = Len(args) + 1
          /\ \A k \in 1..Len(args) : args'[k] = args[k]
          /\ args'[Len(args) + 1] = a
      BY <1>2, <3>1, <3>2, AppendProperties
    <3>5. QED
      BY <1>3, <3>3, <3>4
  <2>2. CASE ~IsConversion(f[i + 1])
    <3>1. args' = args
      BY <2>2 DEF BuildArg
    <3>2. Rank(i + 1) = Rank(i)
      BY <1>2, <2>2, RankNext
    <3>3. QED
      BY <1>2, <1>3, <2>2, <3>1, <3>2
  <2>3. QED
    BY <2>1, <2>2
<1>7. TypeOK'
  <2>1. Len(args') \in Nat
    BY <1>6, LenProperties
  <2>2. (i \in 0..Len(f))'
    BY <1>1, <1>2
  <2>3. BuildTypeOK'
    BY <1>1, <2>2 DEF IInv, TypeOK, BuildTypeOK
  <2>4. (arg_index \in 0..Len(args))'
    BY <1>1, <1>3, <2>1
  <2>5. QED
    BY <1>1, <1>6, <2>3, <2>4 DEF IInv, TypeOK
<1>8. StageInv'
  BY <1>1, <1>3 DEF StageInv
<1>9. ArgsInv'
  <2>1. (Len(args) = Rank(i))'
    <3>1. Rank(i)' = Rank(i + 1)
      BY <1>1 DEF Rank, IsConversion
    <3>2. QED
      BY <1>6, <3>1
  <2>2. \A k \in 1..(i + 1) :
          IsConversion(f[k]) => args'[Rank(k)] \in ArgsFor(f[k])
    <3>1. SUFFICES ASSUME NEW k \in 1..(i + 1), IsConversion(f[k])
                   PROVE  args'[Rank(k)] \in ArgsFor(f[k])
      OBVIOUS
    <3>2. CASE k = i + 1
      BY <1>6, <3>1, <3>2
    <3>3. CASE k \in 1..i
      <4>1. args[Rank(k)] \in ArgsFor(f[k])
        BY <1>1, <3>1, <3>3 DEF IInv, ArgsInv
      <4>2. k \in Nat \ {0} /\ k <= i
        BY <1>2, <3>3
      <4>3. Rank(k) \in 1..Rank(k) /\ Rank(k) <= Rank(i)
        BY <1>2, <3>1, <4>2, RankPositive, RankMonotone
      <4>4. Rank(k) \in 1..Rank(i)
        BY <1>5, <4>3
      <4>5. QED
        BY <1>6, <4>1, <4>4
    <3>4. QED
      BY <1>2, <3>2, <3>3
  <2>3. (\A k \in 1..i : IsConversion(f[k]) => args[Rank(k)] \in ArgsFor(f[k]))'
    BY <1>1, <2>2 DEF Rank, IsConversion, ArgsFor
  <2>4. QED
    BY <1>1, <2>1, <2>3 DEF ArgsInv
<1>10. NumberInv'
  BY <1>1, <1>3 DEF NumberInv, IInv
<1>11. QED
  BY <1>7, <1>8, <1>9, <1>10 DEF IInv

-----------------------------------------------------------------------------
(* npr_sprintf: what its stages do to the buffer and to the place.         *)

Printing == IInv /\ label = "print"

\* What keeps its type as long as nothing else changes.
Kept == UNCHANGED <<build, args, dstlen, sent>>

LEMMA PrintingType ==
  ASSUME Printing
  PROVE  /\ f \in Seq(Formats) /\ Len(f) \in Nat
         /\ args \in Seq(Arguments) /\ Len(args) \in Nat
         /\ format_index \in 0..Len(f) /\ arg_index \in 0..Len(args)
         /\ dst \in Seq(Output) /\ Len(dst) \in Nat
         /\ dstlen \in Nat /\ Len(dst) <= dstlen
         /\ Room \in Nat
         /\ char_index \in Nat
<1>1. f \in Seq(Formats) /\ args \in Seq(Arguments) /\ dst \in Seq(Output)
  BY DEF Printing, IInv, TypeOK, BuildTypeOK
<1>2. Len(f) \in Nat /\ Len(args) \in Nat /\ Len(dst) \in Nat
  BY <1>1, LenProperties
<1>3. QED
  BY <1>1, <1>2 DEF Printing, IInv, TypeOK, Room

\* The piece at hand has its argument, and it is one for the piece.
LEMMA ArgOfPiece ==
  ASSUME Printing, format_index < Len(f)
  PROVE  /\ Piece \in Formats
         /\ IsConversion(Piece) => arg_index < Len(args) /\ Arg \in ArgsFor(Piece)
<1>1. format_index \in Nat /\ format_index + 1 \in 1..Len(f)
  BY PrintingType
<1>2. Piece \in Formats
  BY <1>1, PrintingType, ElementOfSeq DEF Piece
<1>3. ASSUME IsConversion(Piece)
      PROVE  arg_index < Len(args) /\ Arg \in ArgsFor(Piece)
  <2>1. IsConversion(f[format_index + 1])
    BY <1>3 DEF Piece
  <2>2. /\ arg_index = Rank(format_index) /\ Len(args) = Rank(Len(f))
        /\ i = Len(f)
    BY DEF Printing, IInv, ArgsInv
  <2>3. Rank(format_index + 1) = arg_index + 1
    BY <1>1, <2>1, <2>2, RankNext
  <2>4. Rank(format_index + 1) <= Rank(Len(f))
    BY <1>1, PrintingType, RankMonotone
  <2>5. arg_index < Len(args)
    BY <2>2, <2>3, <2>4, PrintingType
  <2>6. args[Rank(format_index + 1)] \in ArgsFor(f[format_index + 1])
    BY <1>1, <2>1, <2>2 DEF Printing, IInv, ArgsInv
  <2>7. QED
    BY <2>3, <2>5, <2>6 DEF Arg, Piece
<1>4. QED
  BY <1>2, <1>3

LEMMA NextPieceOK ==
  ASSUME Printing, format_index < Len(f), NextPiece
  PROVE  /\ format_index' \in 0..Len(f)
         /\ arg_index' \in 0..Len(args)
         /\ arg_index' = Rank(format_index')
         /\ state' = 0
<1>1. /\ format_index \in Nat /\ format_index + 1 \in 1..Len(f)
      /\ arg_index = Rank(format_index)
  BY PrintingType DEF Printing, IInv, ArgsInv
<1>2. format_index' = format_index + 1 /\ state' = 0
  BY DEF NextPiece
<1>3. Rank(format_index + 1) =
        IF IsConversion(f[format_index + 1]) THEN arg_index + 1 ELSE arg_index
  BY <1>1, RankNext
<1>4. arg_index' = Rank(format_index + 1)
  BY <1>3 DEF NextPiece, Piece
<1>5. arg_index' \in 0..Len(args)
  <2>1. CASE IsConversion(Piece)
    BY <2>1, ArgOfPiece, PrintingType DEF NextPiece
  <2>2. CASE ~IsConversion(Piece)
    BY <2>2, PrintingType DEF NextPiece
  <2>3. QED
    BY <2>1, <2>2
<1>6. QED
  BY <1>1, <1>2, <1>4, <1>5, PrintingType

LEMMA WriteOK ==
  ASSUME Printing, NEW s \in Seq(Output), Write(s)
  PROVE  dst' \in Seq(Output) /\ Len(dst') <= dstlen
<1> DEFINE n == IF Len(s) <= Room THEN Len(s) ELSE Room
           part == SubSeq(s, 1, n)
<1>1. Len(s) \in Nat /\ n \in 0..Len(s) /\ n <= Room
  BY PrintingType, LenProperties
<1>2. part \in Seq(Output) /\ Len(part) = n
  <2> HIDE DEF n
  <2>1. part \in Seq(Output) /\ Len(part) = IF 1 <= n THEN n - 1 + 1 ELSE 0
    BY <1>1, PartType
  <2>2. QED
    BY <1>1, <2>1
<1>3. dst' = dst \o part
  BY DEF Write
<1> HIDE DEF part, n
<1>4. dst' \in Seq(Output) /\ Len(dst') = Len(dst) + Len(part)
  BY <1>2, <1>3, PrintingType, ConcatProperties
<1>5. QED
  BY <1>1, <1>2, <1>4, PrintingType DEF Room

LEMMA OutputRunOK ==
  ASSUME Printing, NEW s \in Seq(Output), NEW from \in Nat,
         OutputRun(s, from)
  PROVE  /\ dst' \in Seq(Output) /\ Len(dst') <= dstlen
         /\ char_index' \in Nat
         /\ is_fini' \in BOOLEAN
         /\ pc' \in {"run", "idle"}
<1> DEFINE left == SubSeq(s, from + 1, Len(s))
<1>1. left \in Seq(Output)
  <2>1. Len(s) \in 0..Len(s) /\ from + 1 \in Nat \ {0}
    BY LenProperties
  <2>2. QED
    BY <2>1, PartType
<1>2. /\ Write(left)
      /\ is_fini' = (Len(left) <= Room)
      /\ char_index' = IF is_fini' THEN 0 ELSE from + Room
      /\ pc' = IF is_fini' THEN "run" ELSE "idle"
  BY DEF OutputRun
<1> HIDE DEF left
<1>3. dst' \in Seq(Output) /\ Len(dst') <= dstlen
  BY <1>1, <1>2, WriteOK
<1>4. is_fini' \in BOOLEAN
  BY <1>2
<1>5. char_index' \in Nat
  BY <1>2, PrintingType
<1>6. QED
  BY <1>2, <1>3, <1>4, <1>5

\* A stage that leaves the digits alone, and its place or the next piece's.
LEMMA StageStep ==
  ASSUME Printing, Kept, UNCHANGED number, pc = "run",
         pc' \in {"run", "idle"},
         dst' \in Seq(Output), Len(dst') <= dstlen,
         char_index' \in Nat, is_fini' \in BOOLEAN,
         format_index' \in 0..Len(f), arg_index' \in 0..Len(args),
         arg_index' = Rank(format_index'), state' \in 0..3
  PROVE  IInv'
<1>1. UNCHANGED <<text, label, i, f, zero, wid, args, dstlen, sent, num_digit,
                  sign, dump_digit_buf, rest>>
  BY DEF Kept, build, number
<1>2. TypeOK'
  BY <1>1 DEF Printing, IInv, TypeOK, BuildTypeOK, NumberInv
<1>3. StageInv'
  BY <1>1 DEF StageInv, Printing
<1>4. ArgsInv'
  BY <1>1 DEF ArgsInv, Printing, IInv, Rank, IsConversion, ArgsFor
<1>5. NumberInv'
  BY <1>1 DEF NumberInv, Printing, IInv
<1>6. QED
  BY <1>2, <1>3, <1>4, <1>5 DEF IInv

-----------------------------------------------------------------------------
(* The stages of a string, of ordinary characters and of a character.      *)

LEMMA StayOK ==
  ASSUME Printing
  PROVE  /\ format_index \in 0..Len(f) /\ arg_index \in 0..Len(args)
         /\ arg_index = Rank(format_index) /\ state \in 0..3
         /\ is_fini \in BOOLEAN
BY DEF Printing, IInv, TypeOK, ArgsInv

\* A run that ends its piece.
LEMMA LastRun ==
  ASSUME Printing, Kept, UNCHANGED number, pc = "run",
         format_index < Len(f),
         NEW s \in Seq(Output), OutputRun(s, char_index),
         IF is_fini' THEN NextPiece ELSE UNCHANGED place
  PROVE  IInv'
<1>1. /\ dst' \in Seq(Output) /\ Len(dst') <= dstlen
      /\ char_index' \in Nat /\ is_fini' \in BOOLEAN
      /\ pc' \in {"run", "idle"}
  BY PrintingType, OutputRunOK
<1>2. CASE is_fini'
  <2>1. NextPiece
    BY <1>2
  <2>2. QED
    BY <1>1, <2>1, NextPieceOK, StageStep
<1>3. CASE ~is_fini'
  <2>1. UNCHANGED <<format_index, arg_index, state>>
    BY <1>3 DEF place
  <2>2. /\ format_index' \in 0..Len(f) /\ arg_index' \in 0..Len(args)
        /\ arg_index' = Rank(format_index') /\ state' \in 0..3
    BY <2>1, StayOK
  <2>3. QED
    BY <1>1, <2>2, StageStep
<1>4. QED
  BY <1>2, <1>3

\* A run that does not, or a sign.
LEMMA SamePiece ==
  ASSUME Printing, Kept, UNCHANGED number, pc = "run",
         pc' \in {"run", "idle"},
         dst' \in Seq(Output), Len(dst') <= dstlen,
         char_index' \in Nat, is_fini' \in BOOLEAN,
         UNCHANGED <<format_index, arg_index>>, state' \in 0..3
  PROVE  IInv'
<1>1. /\ format_index' \in 0..Len(f) /\ arg_index' \in 0..Len(args)
      /\ arg_index' = Rank(format_index')
  BY StayOK
<1>2. QED
  BY <1>1, StageStep

LEMMA StrPaddingOK ==
  ASSUME Printing, StrPadding, UNCHANGED build
  PROVE  IInv'
<1> DEFINE s == Fill(" ", Piece.wid - Arg.u)
<1>1. /\ pc = "run" /\ format_index < Len(f) /\ Piece.type = "s"
      /\ OutputRun(s, char_index)
      /\ state' = IF is_fini' THEN 1 ELSE 0
      /\ UNCHANGED <<format_index, arg_index>> /\ UNCHANGED number
      /\ UNCHANGED <<args, dstlen, sent>>
  BY DEF StrPadding, At, inputs
<1>2. Piece \in Formats /\ Arg \in ArgsFor(Piece)
  BY <1>1, ArgOfPiece DEF IsConversion
<1>3. Arg.u \in Int /\ Piece.wid \in Int
  BY <1>2, ArgumentType DEF Arguments, Formats
<1>4. s \in Seq(Output)
  <2>1. Piece.wid - Arg.u \in Int
    BY <1>3, DifferenceType
  <2>2. " " \in Output
    BY SpecialOutput
  <2>3. QED
    BY <2>1, <2>2, FillType
<1> HIDE DEF s
<1>5. /\ dst' \in Seq(Output) /\ Len(dst') <= dstlen
      /\ char_index' \in Nat /\ is_fini' \in BOOLEAN
      /\ pc' \in {"run", "idle"}
  BY <1>1, <1>4, PrintingType, OutputRunOK
<1>6. Kept /\ state' \in 0..3
  BY <1>1 DEF Kept
<1>7. QED
  BY <1>1, <1>5, <1>6, SamePiece

LEMMA StrOK ==
  ASSUME Printing, Str, UNCHANGED build
  PROVE  IInv'
<1>1. /\ pc = "run" /\ format_index < Len(f) /\ Piece.type = "s"
      /\ OutputRun(Arg.p, char_index)
      /\ IF is_fini' THEN NextPiece ELSE UNCHANGED place
      /\ UNCHANGED number
      /\ UNCHANGED <<args, dstlen, sent>>
  BY DEF Str, At, inputs
<1>2. Piece \in Formats /\ Arg \in ArgsFor(Piece)
  BY <1>1, ArgOfPiece DEF IsConversion
<1>3. Arg.p \in Seq(Output)
  BY <1>1, <1>2, ArgumentType, SprintfAssumption, CharactersAreOutput
<1>4. Kept
  BY <1>1 DEF Kept
<1>5. QED
  BY <1>1, <1>3, <1>4, LastRun

LEMMA OrdinariesOK ==
  ASSUME Printing, Ordinaries, UNCHANGED build
  PROVE  IInv'
<1>1. /\ pc = "run" /\ format_index < Len(f)
      /\ OutputRun(Piece.ordinary, char_index)
      /\ IF is_fini' THEN NextPiece ELSE UNCHANGED place
      /\ UNCHANGED number
      /\ UNCHANGED <<args, dstlen, sent>>
  BY DEF Ordinaries, At, inputs
<1>2. Piece \in Formats
  BY <1>1, ArgOfPiece
<1>3. Piece.ordinary \in Seq(Characters)
  BY <1>2 DEF Formats
<1>4. Piece.ordinary \in Seq(Output)
  BY <1>3, CharactersAreOutput
<1>5. Kept
  BY <1>1 DEF Kept
<1>6. QED
  BY <1>1, <1>4, <1>5, LastRun

LEMMA CharOK ==
  ASSUME Printing, Char, UNCHANGED build
  PROVE  IInv'
<1>1. /\ pc = "run" /\ format_index < Len(f) /\ Piece.type = "c"
      /\ UNCHANGED number
      /\ UNCHANGED <<char_index, is_fini, args, dstlen, sent>>
  BY DEF Char, At, inputs
<1>2. Kept /\ char_index' \in Nat /\ is_fini' \in BOOLEAN
  BY <1>1, PrintingType, StayOK DEF Kept
<1>3. CASE Room > 0
  <2>1. dst' = dst \o Arg.p /\ NextPiece /\ pc' = pc
    BY <1>3 DEF Char
  <2>2. Piece \in Formats /\ Arg \in ArgsFor(Piece)
    BY <1>1, ArgOfPiece DEF IsConversion
  <2>3. Arg.p \in Chars
    BY <1>1, <2>2, ArgumentType
  <2>4. Arg.p \in Seq(Output) /\ Len(Arg.p) = 1
    BY <2>3, SprintfAssumption, CharactersAreOutput
  <2>5. dst' \in Seq(Output) /\ Len(dst') = Len(dst) + 1
    <3>1. dst \in Seq(Output)
      BY PrintingType
    <3>2. /\ dst \o Arg.p \in Seq(Output)
          /\ Len(dst \o Arg.p) = Len(dst) + Len(Arg.p)
      BY <2>4, <3>1, ConcatProperties
    <3>3. QED
      BY <2>1, <2>4, <3>2
  <2>6. Len(dst') <= dstlen
    BY <1>3, <2>5, PrintingType DEF Room
  <2>7. QED
    BY <1>1, <1>2, <2>1, <2>5, <2>6, NextPieceOK, StageStep
<1>4. CASE ~(Room > 0)
  <2>1. pc' = "idle" /\ dst' = dst /\ UNCHANGED <<format_index, arg_index, state>>
    BY <1>4 DEF Char, place
  <2>2. state' \in 0..3
    BY <2>1, StayOK
  <2>3. QED
    BY <1>1, <1>2, <2>1, <2>2, PrintingType, SamePiece
<1>5. QED
  BY <1>3, <1>4

-----------------------------------------------------------------------------
(* The stages of a number.                                                 *)

LEMMA StartNumberOK ==
  ASSUME Printing, StartNumber, UNCHANGED build
  PROVE  IInv'
<1>1. /\ pc = "run" /\ format_index < Len(f) /\ Piece.type \in Numbers
      /\ state = 0 /\ pc' = "convert"
      /\ sign' = IF Value(Piece, Arg.u) < 0 THEN 1 ELSE 0
      /\ rest' = Magnitude(Value(Piece, Arg.u))
      /\ dump_digit_buf' = IF Value(Piece, Arg.u) = 0 THEN <<"0">> ELSE <<>>
      /\ UNCHANGED <<format_index, arg_index, state, char_index, num_digit,
                     dst, is_fini, args, dstlen, sent>>
  BY DEF StartNumber, At, place, inputs
<1>2. Arg.u \in Int
  <2>1. IsConversion(Piece)
    BY <1>1 DEF IsConversion, Numbers
  <2>2. QED
    BY <1>1, <2>1, ArgOfPiece, ArgumentType DEF Arguments
<1>3. Value(Piece, Arg.u) \in Int
  BY <1>2, SprintfAssumption DEF Value, Unsigned
<1>4. sign' \in {0, 1} /\ rest' \in Nat
  BY <1>1, <1>3 DEF Magnitude
<1>5. dump_digit_buf' \in Seq(Output)
  <2>1. <<"0">> \in Seq(Output)
    <3>1. "0" \in Output
      BY SpecialOutput
    <3>2. QED
      BY <3>1
  <2>2. <<>> \in Seq(Output)
    BY EmptySeq
  <2>3. QED
    BY <1>1, <2>1, <2>2
<1>6. UNCHANGED <<text, label, i, f, zero, wid>>
  BY DEF build
<1>7. TypeOK'
  BY <1>1, <1>4, <1>5, <1>6 DEF Printing, IInv, TypeOK, BuildTypeOK
<1>8. StageInv' /\ ArgsInv'
  BY <1>1, <1>6 DEF Printing, IInv, StageInv, ArgsInv, Rank, IsConversion, ArgsFor
<1>9. NumberInv'
  BY <1>1, <1>6 DEF NumberInv, Piece
<1>10. QED
  BY <1>7, <1>8, <1>9 DEF IInv

LEMMA ConvertDigitOK ==
  ASSUME Printing, ConvertDigit, UNCHANGED build
  PROVE  IInv'
<1> DEFINE digit == Digits[(rest % Base(Piece)) + 1]
<1>1. /\ pc = "convert" /\ rest > 0
      /\ dump_digit_buf' = Append(dump_digit_buf, digit)
      /\ rest' = rest \div Base(Piece)
      /\ UNCHANGED <<pc, format_index, arg_index, state, char_index, num_digit,
                     sign, dst, is_fini, args, dstlen, sent>>
  BY DEF ConvertDigit, place, inputs
<1>2. Base(Piece) \in {10, 16} /\ rest \in Nat /\ state = 0
  BY <1>1 DEF Base, Printing, IInv, TypeOK, NumberInv
<1>3. (rest % Base(Piece)) + 1 \in 1..16 /\ rest \div Base(Piece) \in Nat
  <2>1. CASE Base(Piece) = 10
    BY <1>2, <2>1
  <2>2. CASE Base(Piece) = 16
    BY <1>2, <2>2
  <2>3. QED
    BY <1>2, <2>1, <2>2
<1>4. digit \in Output
  BY <1>3, SpecialOutput
<1> HIDE DEF digit
<1>5. dump_digit_buf' \in Seq(Output)
  BY <1>1, <1>4, AppendProperties DEF Printing, IInv, TypeOK
<1>6. UNCHANGED <<text, label, i, f, zero, wid>>
  BY DEF build
<1>7. rest' \in Nat
  BY <1>1, <1>3
<1>8. TypeOK'
  BY <1>1, <1>2, <1>5, <1>6, <1>7 DEF Printing, IInv, TypeOK, BuildTypeOK
<1>9. StageInv' /\ ArgsInv'
  BY <1>1, <1>6 DEF Printing, IInv, StageInv, ArgsInv, Rank, IsConversion, ArgsFor
<1>10. NumberInv'
  BY <1>1, <1>6 DEF Printing, IInv, NumberInv, Piece
<1>11. QED
  BY <1>8, <1>9, <1>10 DEF IInv

LEMMA OverrunOK ==
  ASSUME Printing, Overrun, UNCHANGED build
  PROVE  IInv'
<1>1. /\ pc = "convert" /\ pc' = "overrun"
      /\ UNCHANGED <<format_index, arg_index, state, char_index, num_digit,
                     sign, dump_digit_buf, rest, dst, is_fini, args, dstlen,
                     sent>>
  BY DEF Overrun, place, number, inputs
<1>2. UNCHANGED <<text, label, i, f, zero, wid>>
  BY DEF build
<1>3. TypeOK'
  BY <1>1, <1>2 DEF Printing, IInv, TypeOK, BuildTypeOK
<1>4. StageInv' /\ ArgsInv'
  BY <1>1, <1>2 DEF Printing, IInv, StageInv, ArgsInv, Rank, IsConversion, ArgsFor
<1>5. NumberInv'
  BY <1>1, <1>2 DEF Printing, IInv, NumberInv, Piece
<1>6. QED
  BY <1>3, <1>4, <1>5 DEF IInv

LEMMA ConvertedOK ==
  ASSUME Printing, Converted, UNCHANGED build
  PROVE  IInv'
<1>1. /\ pc = "convert" /\ pc' = "run" /\ state' = 1
      /\ num_digit' = Len(dump_digit_buf)
      /\ UNCHANGED <<format_index, arg_index, char_index, sign, dump_digit_buf,
                     rest, dst, is_fini, args, dstlen, sent>>
  BY DEF Converted, inputs
<1>2. Len(dump_digit_buf) \in Nat
  BY LenProperties DEF Printing, IInv, TypeOK
<1>3. UNCHANGED <<text, label, i, f, zero, wid>>
  BY DEF build
<1>4. TypeOK'
  BY <1>1, <1>2, <1>3 DEF Printing, IInv, TypeOK, BuildTypeOK
<1>5. StageInv' /\ ArgsInv'
  BY <1>1, <1>3 DEF Printing, IInv, StageInv, ArgsInv, Rank, IsConversion, ArgsFor
<1>6. NumberInv'
  BY <1>1, <1>2 DEF NumberInv
<1>7. QED
  BY <1>4, <1>5, <1>6 DEF IInv

LEMMA SignOK ==
  ASSUME Printing, NEW stage \in 1..2, Sign(stage), state = stage
  PROVE  /\ dst' \in Seq(Output) /\ Len(dst') <= dstlen
         /\ is_fini' \in BOOLEAN /\ state' \in 0..3
         /\ pc = "run" => pc' \in {"run", "idle"}
<1>1. CASE sign = 1 /\ Room = 0
  BY <1>1, PrintingType, StayOK DEF Sign
<1>2. CASE ~(sign = 1 /\ Room = 0)
  <2>1. /\ dst' = IF sign = 1 THEN Append(dst, "-") ELSE dst
        /\ state' = stage + 1 /\ pc' = pc /\ is_fini' = is_fini
    BY <1>2 DEF Sign
  <2>2. Append(dst, "-") \in Seq(Output) /\ Len(Append(dst, "-")) = Len(dst) + 1
    BY PrintingType, SpecialOutput, AppendProperties
  <2>3. sign = 1 => Len(dst) + 1 <= dstlen
    BY <1>2, PrintingType DEF Room
  <2>4. QED
    BY <2>1, <2>2, <2>3, PrintingType, StayOK
<1>3. QED
  BY <1>1, <1>2

LEMMA SignStagesOK ==
  ASSUME Printing, SignBeforeZeros \/ SignBehindSpaces, UNCHANGED build
  PROVE  IInv'
<1>1. PICK stage \in 1..2 : Sign(stage) /\ state = stage
  BY DEF SignBeforeZeros, SignBehindSpaces, At
<1>2. /\ pc = "run" /\ UNCHANGED <<format_index, arg_index>>
      /\ UNCHANGED number /\ UNCHANGED <<args, dstlen, sent>>
      /\ char_index' \in {0, char_index}
  BY DEF SignBeforeZeros, SignBehindSpaces, At, inputs
<1>3. Kept /\ char_index' \in Nat
  BY <1>2, PrintingType DEF Kept
<1>4. QED
  BY <1>1, <1>2, <1>3, SignOK, SamePiece

LEMMA PadOK ==
  ASSUME Printing, Kept, UNCHANGED number, pc = "run", format_index < Len(f),
         UNCHANGED <<format_index, arg_index>>,
         NEW c \in Output, NEW stage \in 1..2, Pad(c, stage)
  PROVE  IInv'
<1> DEFINE s == Fill(c, Padding)
<1>1. OutputRun(s, char_index) /\ state' = IF is_fini' THEN stage + 1 ELSE stage
  BY DEF Pad
<1>2. Padding \in Int
  <2>1. Piece.wid \in Int
    BY ArgOfPiece DEF Formats
  <2>2. num_digit + sign \in Int
    BY DEF Printing, IInv, TypeOK
  <2>3. QED
    BY <2>1, <2>2, DifferenceType DEF Padding
<1>3. s \in Seq(Output)
  BY <1>2, FillType
<1> HIDE DEF s
<1>4. /\ dst' \in Seq(Output) /\ Len(dst') <= dstlen
      /\ char_index' \in Nat /\ is_fini' \in BOOLEAN
      /\ pc' \in {"run", "idle"}
  BY <1>1, <1>3, PrintingType, OutputRunOK
<1>5. state' \in 0..3
  <2>1. stage + 1 \in 0..3 /\ stage \in 0..3
    OBVIOUS
  <2>2. QED
    BY <1>1, <2>1
<1>6. QED
  BY <1>4, <1>5, SamePiece

LEMMA PadStagesOK ==
  ASSUME Printing, Spaces \/ Zeros, UNCHANGED build
  PROVE  IInv'
<1>1. /\ pc = "run" /\ UNCHANGED <<format_index, arg_index>>
      /\ UNCHANGED number /\ UNCHANGED <<args, dstlen, sent>>
      /\ format_index < Len(f)
  BY DEF Spaces, Zeros, At, inputs
<1>2. Kept
  BY <1>1 DEF Kept
<1>3. CASE Spaces
  <2>1. Pad(" ", 1)
    BY <1>3 DEF Spaces
  <2>2. " " \in Output
    BY SpecialOutput
  <2>3. 1 \in 1..2
    OBVIOUS
  <2>4. QED
    BY <1>1, <1>2, <2>1, <2>2, <2>3, PadOK
<1>4. CASE Zeros
  <2>1. Pad("0", 2)
    BY <1>4 DEF Zeros
  <2>2. "0" \in Output
    BY SpecialOutput
  <2>3. 2 \in 1..2
    OBVIOUS
  <2>4. QED
    BY <1>1, <1>2, <2>1, <2>2, <2>3, PadOK
<1>5. QED
  BY <1>3, <1>4

LEMMA NumberDigitsOK ==
  ASSUME Printing, NumberDigits, UNCHANGED build
  PROVE  IInv'
<1> DEFINE left == [k \in 1..num_digit |-> dump_digit_buf[num_digit + 1 - k]]
<1>1. /\ pc = "run" /\ format_index < Len(f) /\ Write(left)
      /\ is_fini' = (num_digit <= Room)
      /\ num_digit' = IF is_fini' THEN num_digit ELSE num_digit - Room
      /\ pc' = IF is_fini' THEN "run" ELSE "idle"
      /\ IF is_fini' THEN NextPiece ELSE UNCHANGED place
      /\ UNCHANGED <<char_index, sign, dump_digit_buf, rest, args, dstlen, sent>>
  BY DEF NumberDigits, At, inputs
<1>2. /\ num_digit \in Nat /\ dump_digit_buf \in Seq(Output)
      /\ num_digit <= Len(dump_digit_buf)
  BY <1>1 DEF Printing, IInv, TypeOK, NumberInv
<1>3. left \in Seq(Output)
  <2>1. ASSUME NEW k \in 1..num_digit
        PROVE  dump_digit_buf[num_digit + 1 - k] \in Output
    <3>1. num_digit + 1 - k \in 1..Len(dump_digit_buf)
      BY <1>2, LenProperties
    <3>2. QED
      BY <1>2, <3>1, ElementOfSeq
  <2>2. left \in [1..num_digit -> Output]
    BY <2>1
  <2> HIDE DEF left
  <2>3. QED
    BY <1>2, <2>2, SeqDef
<1> HIDE DEF left
<1>4. dst' \in Seq(Output) /\ Len(dst') <= dstlen
  BY <1>1, <1>3, WriteOK
<1>5. is_fini' \in BOOLEAN
  BY <1>1
<1>6. pc' \in {"run", "idle"}
  BY <1>1
<1>7. num_digit' \in Nat /\ num_digit' <= num_digit
  <2>1. CASE num_digit <= Room
    <3>1. num_digit' = num_digit
      BY <1>1, <2>1
    <3>2. QED
      BY <1>2, <3>1
  <2>2. CASE ~(num_digit <= Room)
    <3>1. Room \in Nat
      BY PrintingType
    <3>2. num_digit' = num_digit - Room
      BY <1>1, <2>2
    <3>3. QED
      BY <1>2, <2>2, <3>1, <3>2
  <2>3. QED
    BY <2>1, <2>2
<1>8. /\ format_index' \in 0..Len(f) /\ arg_index' \in 0..Len(args)
      /\ arg_index' = Rank(format_index') /\ state' \in 0..3
  <2>1. CASE is_fini'
    <3>1. NextPiece
      BY <1>1, <2>1
    <3>2. QED
      BY <1>1, <3>1, NextPieceOK
  <2>2. CASE ~is_fini'
    <3>1. UNCHANGED <<format_index, arg_index, state>>
      BY <1>1, <2>2 DEF place
    <3>2. QED
      BY <3>1, StayOK
  <2>3. QED
    BY <2>1, <2>2
<1>9. UNCHANGED <<text, label, i, f, zero, wid>>
  BY DEF build
<1>10. num_digit' <= Len(dump_digit_buf)
  BY <1>2, <1>7, LenProperties
<1>11. TypeOK'
  BY <1>1, <1>2, <1>4, <1>5, <1>6, <1>7, <1>8, <1>9, <1>10
     DEF Printing, IInv, TypeOK, BuildTypeOK
<1>12. StageInv'
  BY <1>9 DEF StageInv, Printing
<1>13. ArgsInv'
  BY <1>1, <1>8, <1>9
     DEF ArgsInv, Printing, IInv, Rank, IsConversion, ArgsFor
<1>14. NumberInv'
  BY <1>1, <1>6, <1>10 DEF NumberInv
<1>15. QED
  BY <1>11, <1>12, <1>13, <1>14 DEF IInv

LEMMA FinishOK ==
  ASSUME Printing, Finish, UNCHANGED build
  PROVE  IInv'
<1>1. /\ pc = "run" /\ pc' = "idle" /\ is_fini' = TRUE
      /\ UNCHANGED <<format_index, arg_index, state, char_index, dst, args,
                     dstlen, sent>>
      /\ UNCHANGED number
  BY DEF Finish, place, inputs
<1>2. /\ dst' \in Seq(Output) /\ Len(dst') <= dstlen /\ char_index' \in Nat
      /\ state' \in 0..3 /\ Kept
  BY <1>1, PrintingType, StayOK DEF Kept
<1>3. QED
  BY <1>1, <1>2, SamePiece

-----------------------------------------------------------------------------
(* The theorem.                                                            *)

LEMMA ClientOK ==
  ASSUME IInv, NEW n \in Lengths, Client(n)
  PROVE  IInv'
<1>1. /\ label = "print" /\ pc = "idle" /\ pc' = "run"
      /\ sent' = sent \o dst /\ dst' = <<>> /\ dstlen' = n /\ is_fini' = FALSE
      /\ UNCHANGED <<text, label, i, f, zero, wid, format_index, arg_index,
                     state, char_index, num_digit, sign, dump_digit_buf,
                     rest, args>>
  BY DEF Client, Call, build, place, number
<1>2. sent' \in Seq(Output)
  BY <1>1, ConcatProperties DEF IInv, TypeOK
<1>3. dst' \in Seq(Output) /\ Len(dst') <= dstlen' /\ dstlen' \in Nat
  BY <1>1, EmptySeq, SprintfAssumption
<1>4. TypeOK'
  BY <1>1, <1>2, <1>3 DEF IInv, TypeOK, BuildTypeOK
<1>5. StageInv' /\ ArgsInv'
  BY <1>1 DEF IInv, StageInv, ArgsInv, Rank, IsConversion, ArgsFor
<1>6. NumberInv'
  BY <1>1 DEF IInv, NumberInv
<1>7. QED
  BY <1>4, <1>5, <1>6 DEF IInv

LEMMA PrintStep ==
  ASSUME IInv, PrintNext, UNCHANGED build
  PROVE  IInv'
<1>1. Printing
  <2>1. pc # "idle"
    BY DEF PrintNext, StrPadding, Str, Ordinaries, Char, StartNumber,
           ConvertDigit, Overrun, Converted, SignBeforeZeros, Spaces, Zeros,
           SignBehindSpaces, NumberDigits, Finish, At
  <2>2. QED
    BY <2>1 DEF Printing, IInv, StageInv
<1>2. QED
  BY <1>1, StrPaddingOK, StrOK, OrdinariesOK, CharOK, StartNumberOK,
     ConvertDigitOK, OverrunOK, ConvertedOK, SignStagesOK, PadStagesOK,
     NumberDigitsOK, FinishOK DEF PrintNext

LEMMA InitOK == Init => IInv
<1> SUFFICES ASSUME Init PROVE IInv
  OBVIOUS
<1>1. <<>> \in Seq(Formats) /\ <<>> \in Seq(Arguments) /\ <<>> \in Seq(Output)
  BY EmptySeq
<1>2. Len(<<>>) = 0
  BY EmptySeq
<1>3. /\ text \in Seq(Characters) /\ label = "start" /\ i = 0 /\ f = <<>>
      /\ zero = FALSE /\ wid = 0
  BY FormatAssumption DEF Init, BuildInit
<1>4. /\ pc = "idle" /\ args = <<>> /\ format_index = 0 /\ arg_index = 0
      /\ state = 0 /\ char_index = 0 /\ num_digit = 0 /\ sign = 0
      /\ dump_digit_buf = <<>> /\ rest = 0 /\ dst = <<>> /\ dstlen = 0
      /\ is_fini = FALSE /\ sent = <<>>
  BY DEF Init, PrintInit
<1>5. Len(text) \in Nat
  BY <1>3, LenProperties
<1>6. BuildTypeOK
  <2>1. Len(f) <= MaxFormat
    BY <1>2, <1>3, FormatAssumption
  <2>2. i \in 0..Len(text)
    BY <1>3, <1>5
  <2>3. QED
    BY <1>1, <1>3, <2>1, <2>2 DEF BuildTypeOK
<1>7. TypeOK
  <2>1. Len(f) = 0 /\ Len(args) = 0 /\ Len(dst) = 0
    BY <1>2, <1>3, <1>4
  <2>2. /\ format_index \in 0..Len(f) /\ arg_index \in 0..Len(args)
        /\ state \in 0..3 /\ sign \in {0, 1} /\ Len(dst) <= dstlen
    BY <1>4, <2>1
  <2>3. QED
    BY <1>1, <1>4, <1>6, <2>2 DEF TypeOK
<1>8. StageInv /\ ArgsInv
  BY <1>3, <1>4 DEF StageInv, ArgsInv
<1>9. NumberInv
  BY <1>2, <1>4 DEF NumberInv
<1>10. QED
  BY <1>7, <1>8, <1>9 DEF IInv

LEMMA StutterOK ==
  ASSUME IInv, UNCHANGED vars
  PROVE  IInv'
<1>1. UNCHANGED <<text, label, i, f, zero, wid, pc, args, format_index,
                  arg_index, state, char_index, num_digit, sign, rest,
                  dump_digit_buf, dst, dstlen, is_fini, sent>>
  BY DEF vars, build, print, place, number, inputs
<1>2. TypeOK'
  BY <1>1 DEF IInv, TypeOK, BuildTypeOK
<1>3. StageInv' /\ ArgsInv'
  BY <1>1 DEF IInv, StageInv, ArgsInv, Rank, IsConversion, ArgsFor
<1>4. NumberInv'
  BY <1>1 DEF IInv, NumberInv, Piece
<1>5. QED
  BY <1>2, <1>3, <1>4 DEF IInv

\* The parser fills no piece beyond its table; npr_sprintf takes no argument
\* that is not there, prints no digit it has not converted and never writes
\* beyond the buffer of the call (npr/printf-format.c:37, npr/printf.c:254).
THEOREM TypeCorrect == Spec => []TypeOK
<1>1. Init => IInv
  BY InitOK
<1>2. IInv /\ [Next]_vars => IInv'
  BY BuildStep, BuiltOK, BuildArgOK, StartOK, PrintStep, ClientOK, StutterOK
     DEF Next, Proceed
<1>3. IInv => TypeOK
  BY DEF IInv
<1>4. QED
  BY <1>1, <1>2, <1>3, PTL DEF Spec

-----------------------------------------------------------------------------
(* Numerals.                                                               *)

Bases == {10, 16}

LEMMA Quotient ==
  ASSUME NEW b \in Bases, NEW m \in Nat
  PROVE  /\ m \div b \in Nat /\ m \div b <= m
         /\ (m % b) + 1 \in 1..16
         /\ m >= b => m \div b > 0 /\ m \div b < m
         /\ m < b => m \div b = 0 /\ m % b = m
<1>1. CASE b = 10
  BY <1>1
<1>2. CASE b = 16
  BY <1>2
<1>3. QED
  BY <1>1, <1>2 DEF Bases

\* The value at m of the function that NumeralOf defines.
NumeralAt(g, b, m) ==
  g[m] = IF m < b THEN <<Digits[m + 1]>>
         ELSE Append(g[m \div b], Digits[(m % b) + 1])
GoodTo(g, b, k) == \A m \in 0..k : NumeralAt(g, b, m)
SameTo(g, h, k) == \A m \in 0..k : g[m] = h[m]

LEMMA NumeralUnique ==
  ASSUME NEW b \in Bases, NEW g, NEW h, NEW k \in Nat, GoodTo(g, b, k), GoodTo(h, b, k)
  PROVE  SameTo(g, h, k)
<1> DEFINE T == {n \in Nat : n <= k => SameTo(g, h, n)}
<1>1. ASSUME NEW n \in Nat, n <= k, \A m \in 0..(n - 1) : g[m] = h[m]
      PROVE  SameTo(g, h, n)
  <2>1. NumeralAt(g, b, n) /\ NumeralAt(h, b, n)
    BY <1>1 DEF GoodTo
  <2>2. n >= b => n \div b \in 0..(n - 1)
    BY <1>1, Quotient
  <2>3. n \in Nat /\ b \in Nat
    BY <1>1 DEF Bases
  <2>4. n >= b => g[n \div b] = h[n \div b]
    BY <1>1, <2>2
  <2>5. n < b \/ n >= b
    BY <2>3
  <2>6. g[n] = h[n]
    BY <2>1, <2>3, <2>4, <2>5 DEF NumeralAt
  <2>7. \A m \in 0..n : m \in 0..(n - 1) \/ m = n
    BY <1>1
  <2>8. QED
    BY <1>1, <2>6, <2>7 DEF SameTo
<1>2. 0 \in T
  <2>1. \A m \in 0..(0 - 1) : g[m] = h[m]
    OBVIOUS
  <2>2. QED
    BY <1>1, <2>1
<1>3. ASSUME NEW n \in Nat, n \in T PROVE n + 1 \in T
  <2>1. SUFFICES ASSUME n + 1 <= k PROVE SameTo(g, h, n + 1)
    OBVIOUS
  <2>2. SameTo(g, h, n) /\ n + 1 \in Nat /\ n + 1 - 1 = n
    BY <1>3, <2>1
  <2> HIDE DEF T
  <2>3. \A m \in 0..(n + 1 - 1) : g[m] = h[m]
    BY <2>2 DEF SameTo
  <2>4. QED
    BY <1>1, <2>1, <2>2, <2>3
<1>4. Nat \subseteq T
  <2> HIDE DEF T
  <2>1. QED
    BY <1>2, <1>3, SetInduction
<1>5. QED
  BY <1>4

LEMMA NumeralExists ==
  ASSUME NEW b \in Bases, NEW k \in Nat
  PROVE  \E g : GoodTo(g, b, k)
<1> DEFINE T == {n \in Nat : \E g : GoodTo(g, b, n)}
<1>1. 0 \in T
  <2> DEFINE g == [m \in {0} |-> <<Digits[m + 1]>>]
  <2>1. 0 < b /\ g[0] = <<Digits[0 + 1]>>
    BY DEF Bases
  <2>2. \A m \in 0..0 : m = 0
    OBVIOUS
  <2> HIDE DEF g
  <2>3. NumeralAt(g, b, 0)
    BY <2>1 DEF NumeralAt
  <2>4. GoodTo(g, b, 0)
    BY <2>2, <2>3 DEF GoodTo
  <2>5. QED
    BY <2>4
<1>2. ASSUME NEW n \in Nat, n \in T PROVE n + 1 \in T
  <2>1. PICK g : GoodTo(g, b, n)
    BY <1>2
  <2> DEFINE last == IF n + 1 < b THEN <<Digits[n + 1 + 1]>>
                     ELSE Append(g[(n + 1) \div b], Digits[((n + 1) % b) + 1])
             e == [m \in 0..(n + 1) |-> IF m = n + 1 THEN last ELSE g[m]]
  <2>2. e[n + 1] = last /\ \A m \in 0..n : e[m] = g[m]
    OBVIOUS
  <2>3. ASSUME NEW m \in 0..(n + 1), m >= b PROVE m \div b \in 0..n
    BY <2>3, Quotient
  <2>4. b \in Nat
    BY DEF Bases
  <2> HIDE DEF e, last
  <2>5. NumeralAt(e, b, n + 1)
    <3>1. n + 1 >= b => e[(n + 1) \div b] = g[(n + 1) \div b]
      <4>1. n + 1 \in 0..(n + 1)
        OBVIOUS
      <4>2. QED
        BY <2>2, <2>3, <4>1
    <3>2. n + 1 < b \/ n + 1 >= b
      BY <2>4
    <3>3. n + 1 < b => ~(n + 1 >= b)
      BY <2>4
    <3>4. QED
      BY <2>2, <3>1, <3>2, <3>3 DEF NumeralAt, last
  <2>6. ASSUME NEW m \in 0..n PROVE NumeralAt(e, b, m)
    <3>1. NumeralAt(g, b, m) /\ e[m] = g[m]
      BY <2>1, <2>2 DEF GoodTo
    <3>2. m >= b => e[m \div b] = g[m \div b]
      <4>1. m \in 0..(n + 1)
        OBVIOUS
      <4>2. QED
        BY <2>2, <2>3, <4>1
    <3>3. m < b \/ m >= b
      BY <2>4
    <3>4. QED
      BY <3>1, <3>2, <3>3 DEF NumeralAt
  <2>7. \A m \in 0..(n + 1) : m \in 0..n \/ m = n + 1
    OBVIOUS
  <2>8. GoodTo(e, b, n + 1)
    BY <2>5, <2>6, <2>7 DEF GoodTo
  <2>9. QED
    BY <2>8
<1>3. Nat \subseteq T
  <2> HIDE DEF T
  <2>1. QED
    BY <1>1, <1>2, SetInduction
<1>4. QED
  BY <1>3

\* The function for all numbers.
IsNumeral(g, b) ==
  g = [m \in Nat |-> IF m < b THEN <<Digits[m + 1]>>
                     ELSE Append(g[m \div b], Digits[(m % b) + 1])]

LEMMA NumeralFunction == ASSUME NEW b \in Bases PROVE \E g : IsNumeral(g, b)
<1> DEFINE h(k) == CHOOSE g : GoodTo(g, b, k)
           e == [m \in Nat |-> h(m)[m]]
           s == [m \in Nat |-> IF m < b THEN <<Digits[m + 1]>>
                               ELSE Append(e[m \div b], Digits[(m % b) + 1])]
<1>1. \A k \in Nat : GoodTo(h(k), b, k)
  BY NumeralExists
<1> HIDE DEF h
<1>2. ASSUME NEW m \in Nat PROVE e[m] = s[m]
  <2>1. NumeralAt(h(m), b, m)
    BY <1>1 DEF GoodTo
  <2>2. b \in Nat /\ (m < b \/ m >= b)
    BY DEF Bases
  <2>3. ASSUME m >= b PROVE h(m)[m \div b] = e[m \div b]
    <3> DEFINE q == m \div b
    <3>1. q \in Nat /\ q < m
      BY <2>3, Quotient
    <3> HIDE DEF q
    <3>2. GoodTo(h(q), b, q) /\ GoodTo(h(m), b, m)
      BY <1>1, <3>1
    <3>3. GoodTo(h(m), b, q)
      BY <3>1, <3>2 DEF GoodTo
    <3>4. SameTo(h(m), h(q), q)
      BY <3>1, <3>2, <3>3, NumeralUnique
    <3>5. h(m)[q] = h(q)[q]
      BY <3>1, <3>4 DEF SameTo
    <3>6. e[q] = h(q)[q]
      BY <3>1
    <3>7. QED
      BY <3>5, <3>6 DEF q
  <2>4. e[m] = h(m)[m]
    OBVIOUS
  <2>5. s[m] = IF m < b THEN <<Digits[m + 1]>>
               ELSE Append(e[m \div b], Digits[(m % b) + 1])
    OBVIOUS
  <2> HIDE DEF e, s
  <2>6. QED
    BY <2>1, <2>2, <2>3, <2>4, <2>5 DEF NumeralAt
<1>3. e = s
  <2>1. e = [m \in Nat |-> e[m]] /\ s = [m \in Nat |-> s[m]]
    OBVIOUS
  <2> HIDE DEF e, s
  <2>2. QED
    BY <1>2, <2>1
<1>4. IsNumeral(e, b)
  <2> HIDE DEF e
  <2>1. QED
    BY <1>3 DEF IsNumeral
<1>5. QED
  BY <1>4

\* Digit by digit from the end: what NumeralOf says of a number.
LEMMA NumeralIs ==
  ASSUME NEW b \in Bases, NEW n \in Nat
  PROVE  /\ n < b => NumeralOf(n, b) = <<Digits[n + 1]>>
         /\ n >= b => NumeralOf(n, b)
                        = Append(NumeralOf(n \div b, b), Digits[(n % b) + 1])
<1> DEFINE c == CHOOSE g : IsNumeral(g, b)
<1>1. IsNumeral(c, b)
  BY NumeralFunction
<1>2. \A m : NumeralOf(m, b) = c[m]
  BY DEF NumeralOf, IsNumeral
<1> HIDE DEF c
<1>3. c[n] = IF n < b THEN <<Digits[n + 1]>>
             ELSE Append(c[n \div b], Digits[(n % b) + 1])
  <2> DEFINE s == [m \in Nat |-> IF m < b THEN <<Digits[m + 1]>>
                                 ELSE Append(c[m \div b], Digits[(m % b) + 1])]
  <2>1. s[n] = IF n < b THEN <<Digits[n + 1]>>
               ELSE Append(c[n \div b], Digits[(n % b) + 1])
    OBVIOUS
  <2>2. c = s
    BY <1>1 DEF IsNumeral
  <2> HIDE DEF s
  <2>3. c[n] = s[n]
    BY <2>2
  <2>4. QED
    BY <2>1, <2>3
<1>4. n >= b => ~(n < b)
  BY DEF Bases
<1>5. QED
  BY <1>2, <1>3, <1>4

LEMMA NumeralType ==
  ASSUME NEW b \in Bases, NEW n \in Nat
  PROVE  NumeralOf(n, b) \in Seq(Output)
<1> DEFINE T == {k \in Nat : \A m \in 0..k : NumeralOf(m, b) \in Seq(Output)}
<1>1. ASSUME NEW m \in Nat, \A q \in 0..(m - 1) : NumeralOf(q, b) \in Seq(Output)
      PROVE  NumeralOf(m, b) \in Seq(Output)
  <2>1. b \in Nat /\ (m < b \/ m >= b)
    BY DEF Bases
  <2>2. CASE m < b
    <3>1. m + 1 \in 1..16
      BY <2>1, <2>2 DEF Bases
    <3>2. Digits[m + 1] \in Output
      BY <3>1, SpecialOutput
    <3>3. <<Digits[m + 1]>> \in Seq(Output)
      BY <3>2
    <3>4. QED
      BY <2>2, <3>3, NumeralIs
  <2>3. CASE m >= b
    <3>1. m \div b \in 0..(m - 1)
      BY <2>3, Quotient
    <3>2. Digits[(m % b) + 1] \in Output
      BY Quotient, SpecialOutput
    <3>3. NumeralOf(m \div b, b) \in Seq(Output)
      BY <1>1, <3>1
    <3>4. Append(NumeralOf(m \div b, b), Digits[(m % b) + 1]) \in Seq(Output)
      BY <3>2, <3>3, AppendProperties
    <3>5. QED
      BY <2>3, <3>4, NumeralIs
  <2>4. QED
    BY <2>1, <2>2, <2>3
<1>2. 0 \in T
  <2>1. \A q \in 0..(0 - 1) : NumeralOf(q, b) \in Seq(Output)
    OBVIOUS
  <2>2. NumeralOf(0, b) \in Seq(Output)
    BY <1>1, <2>1
  <2>3. \A m \in 0..0 : m = 0
    OBVIOUS
  <2>4. QED
    BY <2>2, <2>3
<1>3. ASSUME NEW k \in Nat, k \in T PROVE k + 1 \in T
  <2>1. \A m \in 0..k : NumeralOf(m, b) \in Seq(Output)
    BY <1>3
  <2>2. k + 1 \in Nat /\ k + 1 - 1 = k
    BY <1>3
  <2>3. NumeralOf(k + 1, b) \in Seq(Output)
    BY <1>1, <2>1, <2>2
  <2>4. \A m \in 0..(k + 1) : m \in 0..k \/ m = k + 1
    BY <1>3
  <2>5. QED
    BY <2>1, <2>2, <2>3, <2>4
<1>4. Nat \subseteq T
  <2> HIDE DEF T
  <2>1. QED
    BY <1>2, <1>3, SetInduction
<1>5. n \in T /\ n \in 0..n
  BY <1>4
<1>6. QED
  BY <1>5

LEMMA NumeralLength ==
  ASSUME NEW b \in Bases, NEW n \in Nat
  PROVE  /\ Len(NumeralOf(n, b)) \in Nat \ {0}
         /\ n < b => Len(NumeralOf(n, b)) = 1
         /\ n >= b => Len(NumeralOf(n, b)) = Len(NumeralOf(n \div b, b)) + 1
<1>1. b \in Nat /\ (n < b \/ n >= b)
  BY DEF Bases
<1>2. CASE n < b
  <2>1. NumeralOf(n, b) = <<Digits[n + 1]>>
    BY <1>2, NumeralIs
  <2>2. ~(n >= b)
    BY <1>1, <1>2
  <2>3. QED
    BY <1>2, <2>1, <2>2
<1>3. CASE n >= b
  <2>1. n \div b \in Nat /\ (n % b) + 1 \in 1..16
    BY Quotient
  <2>2. NumeralOf(n \div b, b) \in Seq(Output) /\ Digits[(n % b) + 1] \in Output
    BY <2>1, NumeralType, SpecialOutput
  <2>3. NumeralOf(n, b) = Append(NumeralOf(n \div b, b), Digits[(n % b) + 1])
    BY <1>3, NumeralIs
  <2>4. Len(NumeralOf(n, b)) = Len(NumeralOf(n \div b, b)) + 1
    BY <2>2, <2>3, AppendProperties
  <2>5. Len(NumeralOf(n \div b, b)) \in Nat
    BY <2>2, LenProperties
  <2>6. ~(n < b)
    BY <1>1, <1>3
  <2>7. QED
    BY <2>4, <2>5, <2>6
<1>4. QED
  BY <1>1, <1>2, <1>3

\* A smaller number, in a larger base, has no more digits.
LEMMA ShorterNumeral ==
  ASSUME NEW b \in Bases, NEW c \in Bases, c <= b, NEW n \in Nat, NEW m \in 0..n
  PROVE  Len(NumeralOf(m, b)) <= Len(NumeralOf(n, c))
<1> DEFINE Shorter(k) ==
             \A x \in 0..k : Len(NumeralOf(x, b)) <= Len(NumeralOf(k, c))
           T == {k \in Nat : \A y \in 0..k : Shorter(y)}
<1>1. ASSUME NEW k \in Nat, \A y \in 0..(k - 1) : Shorter(y)
      PROVE  Shorter(k)
  <2> SUFFICES ASSUME NEW x \in 0..k
               PROVE  Len(NumeralOf(x, b)) <= Len(NumeralOf(k, c))
    OBVIOUS
  <2>1. x \in Nat /\ b \in Nat /\ c \in Nat /\ (x < b \/ x >= b)
    BY DEF Bases
  <2>2. CASE x < b
    <3>1. Len(NumeralOf(x, b)) = 1 /\ Len(NumeralOf(k, c)) \in Nat \ {0}
      BY <2>1, <2>2, NumeralLength
    <3>2. QED
      BY <3>1
  <2>3. CASE x >= b
    <3>1. k >= c
      BY <2>1, <2>3
    <3>2. x \div b \in 0..(k \div c)
      <4>1. CASE b = 10 /\ c = 10
        BY <2>1, <4>1
      <4>2. CASE b = 16 /\ c = 10
        BY <2>1, <4>2
      <4>3. CASE b = 16 /\ c = 16
        BY <2>1, <4>3
      <4>4. QED
        BY <4>1, <4>2, <4>3 DEF Bases
    <3>3. k \div c \in 0..(k - 1)
      BY <3>1, Quotient
    <3>4. Len(NumeralOf(x \div b, b)) <= Len(NumeralOf(k \div c, c))
      BY <1>1, <3>2, <3>3
    <3>5. /\ Len(NumeralOf(x, b)) = Len(NumeralOf(x \div b, b)) + 1
          /\ Len(NumeralOf(k, c)) = Len(NumeralOf(k \div c, c)) + 1
      BY <2>1, <2>3, <3>1, NumeralLength
    <3>6. /\ Len(NumeralOf(x \div b, b)) \in Nat
          /\ Len(NumeralOf(k \div c, c)) \in Nat
      <4>1. x \div b \in Nat /\ k \div c \in Nat
        BY <3>2, <3>3
      <4>2. QED
        BY <4>1, NumeralLength
    <3>7. QED
      BY <3>4, <3>5, <3>6
  <2>4. QED
    BY <2>1, <2>2, <2>3
<1> HIDE DEF Shorter
<1>2. 0 \in T
  <2>1. \A y \in 0..(0 - 1) : Shorter(y)
    OBVIOUS
  <2>2. Shorter(0)
    BY <1>1, <2>1
  <2>3. \A y \in 0..0 : y = 0
    OBVIOUS
  <2>4. QED
    BY <2>2, <2>3
<1>3. ASSUME NEW k \in Nat, k \in T PROVE k + 1 \in T
  <2>1. \A y \in 0..k : Shorter(y)
    BY <1>3
  <2>2. k + 1 \in Nat /\ k + 1 - 1 = k
    BY <1>3
  <2>3. Shorter(k + 1)
    BY <1>1, <2>1, <2>2
  <2>4. \A y \in 0..(k + 1) : y \in 0..k \/ y = k + 1
    BY <1>3
  <2>5. QED
    BY <2>1, <2>2, <2>3, <2>4
<1>4. Nat \subseteq T
  <2> HIDE DEF T
  <2>1. QED
    BY <1>2, <1>3, SetInduction
<1>5. n \in T /\ n \in 0..n
  BY <1>4
<1>6. Shorter(n)
  BY <1>5
<1>7. QED
  BY <1>6 DEF Shorter

-----------------------------------------------------------------------------
(* Parts of sequences.                                                     *)

LEMMA WholePart ==
  ASSUME NEW S, NEW s \in Seq(S)
  PROVE  SubSeq(s, 0 + 1, Len(s)) = s /\ SubSeq(s, 1, Len(s)) = s
OBVIOUS

LEMMA SplitAt ==
  ASSUME NEW S, NEW s \in Seq(S), NEW k \in 0..Len(s)
  PROVE  /\ SubSeq(s, 1, k) \in Seq(S) /\ Len(SubSeq(s, 1, k)) = k
         /\ SubSeq(s, k + 1, Len(s)) \in Seq(S)
         /\ Len(SubSeq(s, k + 1, Len(s))) = Len(s) - k
         /\ SubSeq(s, 1, k) \o SubSeq(s, k + 1, Len(s)) = s
<1>1. k \in Nat /\ Len(s) \in Nat /\ k <= Len(s)
  OBVIOUS
<1>2. SubSeq(s, 1, k) \in Seq(S) /\ Len(SubSeq(s, 1, k)) = k
  BY <1>1
<1>3. /\ SubSeq(s, k + 1, Len(s)) \in Seq(S)
      /\ Len(SubSeq(s, k + 1, Len(s))) = Len(s) - k
  BY <1>1
<1>4. SubSeq(s, 1, k) \o SubSeq(s, k + 1, Len(s)) = s
  <2>1. 1 \in 1..(Len(s) + 1) /\ k \in (1 - 1)..Len(s) /\ Len(s) \in k..Len(s)
    BY <1>1
  <2>2. SubSeq(s, 1, k) \o SubSeq(s, k + 1, Len(s)) = SubSeq(s, 1, Len(s))
    BY <2>1, ConcatAdjacentSubSeq
  <2>3. QED
    BY <2>2, WholePart
<1>5. QED
  BY <1>2, <1>3, <1>4

\* What is left of what is left.
LEMMA RestOfRest ==
  ASSUME NEW S, NEW s \in Seq(S), NEW k \in 0..Len(s), NEW m \in 0..(Len(s) - k)
  PROVE  SubSeq(SubSeq(s, k + 1, Len(s)), m + 1, Len(s) - k) = SubSeq(s, k + m + 1, Len(s))
OBVIOUS

\* The digits, the highest first.
LEMMA ReversedType ==
  ASSUME NEW buf \in Seq(Output), NEW n \in 0..Len(buf)
  PROVE  /\ Reversed(buf, n) \in Seq(Output)
         /\ Len(Reversed(buf, n)) = n
         /\ \A k \in 1..n : Reversed(buf, n)[k] = buf[n + 1 - k]
<1>1. n \in Nat /\ \A k \in 1..n : n + 1 - k \in 1..Len(buf)
  OBVIOUS
<1>2. \A k \in 1..n : buf[n + 1 - k] \in Output
  BY <1>1, ElementOfSeq
<1>3. QED
  BY <1>1, <1>2 DEF Reversed

LEMMA ReversedRest ==
  ASSUME NEW buf \in Seq(Output), NEW n \in 0..Len(buf), NEW m \in 0..n
  PROVE  SubSeq(Reversed(buf, n), m + 1, n) = Reversed(buf, n - m)
<1> DEFINE s == Reversed(buf, n)
           t == Reversed(buf, n - m)
<1>1. /\ s \in Seq(Output) /\ Len(s) = n
      /\ \A k \in 1..n : s[k] = buf[n + 1 - k]
  BY ReversedType
<1>2. n - m \in 0..Len(buf) /\ n \in Nat /\ m \in Nat
  OBVIOUS
<1>3. /\ t \in Seq(Output) /\ Len(t) = n - m
      /\ \A k \in 1..(n - m) : t[k] = buf[n - m + 1 - k]
  BY <1>2, ReversedType
<1> HIDE DEF s, t
<1>4. /\ SubSeq(s, m + 1, n) \in Seq(Output) /\ Len(SubSeq(s, m + 1, n)) = n - m
      /\ \A k \in 1..(n - m) : SubSeq(s, m + 1, n)[k] = s[m + k]
  BY <1>1, <1>2
<1>5. ASSUME NEW k \in 1..(n - m) PROVE SubSeq(s, m + 1, n)[k] = t[k]
  <2>1. m + k \in 1..n /\ n + 1 - (m + k) = n - m + 1 - k
    BY <1>2
  <2>2. s[m + k] = buf[n + 1 - (m + k)]
    BY <1>1, <2>1
  <2>3. QED
    BY <1>3, <1>4, <2>1, <2>2
<1> DEFINE u == SubSeq(s, m + 1, n)
<1> HIDE DEF u
<1>6. u = t
  BY <1>2, <1>3, <1>4, <1>5 DEF u
<1>7. QED
  BY <1>6 DEF s, t, u

LEMMA ReversedAppend ==
  ASSUME NEW buf \in Seq(Output), NEW c \in Output
  PROVE  Reversed(Append(buf, c), Len(Append(buf, c))) = <<c>> \o Reversed(buf, Len(buf))
<1> DEFINE e == Append(buf, c)
           n == Len(buf)
           s == Reversed(e, n + 1)
           t == Reversed(buf, n)
           u == <<c>> \o t
<1>1. /\ e \in Seq(Output) /\ Len(e) = n + 1 /\ n \in Nat /\ e[n + 1] = c
      /\ \A k \in 1..n : e[k] = buf[k]
  OBVIOUS
<1>2. n \in 0..Len(buf) /\ n + 1 \in 0..Len(e)
  BY <1>1
<1> HIDE DEF e, n
<1>3. /\ s \in Seq(Output) /\ Len(s) = n + 1
      /\ \A k \in 1..(n + 1) : s[k] = e[n + 1 + 1 - k]
  BY <1>1, <1>2, ReversedType
<1>4. /\ t \in Seq(Output) /\ Len(t) = n
      /\ \A k \in 1..n : t[k] = buf[n + 1 - k]
  BY <1>1, <1>2, ReversedType
<1> HIDE DEF s, t
<1>5. /\ u \in Seq(Output) /\ Len(u) = n + 1 /\ u[1] = c
      /\ \A k \in 1..n : u[k + 1] = t[k]
  BY <1>1, <1>4
<1> HIDE DEF u
<1>6. ASSUME NEW k \in 1..(n + 1) PROVE s[k] = u[k]
  <2>1. CASE k = 1
    BY <1>1, <1>3, <1>5, <2>1
  <2>2. CASE k # 1
    <3>1. /\ k - 1 \in 1..n /\ (k - 1) + 1 = k /\ n + 1 - (k - 1) \in 1..n
          /\ n + 1 + 1 - k = n + 1 - (k - 1)
      BY <1>1, <2>2
    <3>2. s[k] = e[n + 1 - (k - 1)] /\ e[n + 1 - (k - 1)] = buf[n + 1 - (k - 1)]
      BY <1>1, <1>3, <3>1
    <3>3. u[k] = t[k - 1] /\ t[k - 1] = buf[n + 1 - (k - 1)]
      BY <1>4, <1>5, <3>1
    <3>4. QED
      BY <3>2, <3>3
  <2>3. QED
    BY <2>1, <2>2
<1>7. s = u
  BY <1>1, <1>3, <1>5, <1>6
<1>8. QED
  BY <1>1, <1>7 DEF s, u, t, e, n

-----------------------------------------------------------------------------
(* What a piece prints.                                                    *)

LEMMA NumberOf ==
  ASSUME NEW p \in Formats, NEW a \in ArgsFor(p), p.type \in Numbers
  PROVE  /\ a.p = <<>> /\ a.u \in Int /\ p.wid \in Int /\ p.zero \in BOOLEAN
         /\ a.u \in IF p.long = 0 THEN Ints ELSE Longs
         /\ Unsigned(a.u, IF p.long = 0 THEN IntMax ELSE LongMax) \in Int
         /\ Value(p, a.u) \in Int
         /\ Base(p) \in Bases
<1>1. a \in {[p |-> <<>>, u |-> n] : n \in IF p.long = 0 THEN Ints ELSE Longs}
  BY DEF ArgsFor, Numbers
<1>2. Ints \subseteq Int /\ Longs \subseteq Int
  BY SprintfAssumption
<1>9. PICK n \in IF p.long = 0 THEN Ints ELSE Longs : a = [p |-> <<>>, u |-> n]
  BY <1>1
<1>10. a.p = <<>> /\ a.u = n
  BY <1>9
<1>3. a.p = <<>> /\ a.u \in Int /\ a.u \in IF p.long = 0 THEN Ints ELSE Longs
  BY <1>2, <1>10
<1>4. p.wid \in Int /\ p.zero \in BOOLEAN
  BY DEF Formats
<1>5. \A max \in {IntMax, LongMax} : Unsigned(a.u, max) \in Int
  BY <1>3, SprintfAssumption DEF Unsigned
<1>6. Value(p, a.u) \in Int
  BY <1>3, <1>5 DEF Value
<1>7. Base(p) \in Bases
  BY DEF Base, Bases
<1>8. QED
  BY <1>3, <1>4, <1>5, <1>6, <1>7

LEMMA TextOf ==
  ASSUME NEW p \in Formats, NEW a \in ArgsFor(p), p.type \in {"s", "c"}
  PROVE  /\ a.p \in Seq(Output)
         /\ p.type = "s" => a.u = Len(a.p) /\ p.wid - a.u \in Int
         /\ p.type = "c" => Len(a.p) = 1
<1>1. /\ p.type = "s" => a.p \in Strings /\ a.u = Len(a.p)
      /\ p.type = "c" => a.p \in Chars
  BY ArgumentType
<1>2. a.p \in Seq(Characters)
  BY <1>1, SprintfAssumption
<1>3. a.p \in Seq(Output)
  BY <1>2, CharactersAreOutput
<1>4. Len(a.p) \in Nat /\ p.wid \in Nat
  BY <1>2, LenProperties DEF Formats
<1>5. p.type = "s" => p.wid - a.u \in Int
  BY <1>1, <1>4
<1>6. p.type = "c" => Len(a.p) = 1
  BY <1>1, SprintfAssumption
<1>7. QED
  BY <1>1, <1>3, <1>5, <1>6

LEMMA MinusIs ==
  /\ Fill("-", 1) = <<"-">> /\ Fill("-", 0) = <<>>
  /\ \A sg \in {0, 1} : Fill("-", sg) \in Seq(Output) /\ Len(Fill("-", sg)) = sg
<1>1. Fill("-", 1) = <<"-">>
  BY DEF Fill
<1>2. Fill("-", 0) = <<>>
  BY DEF Fill
<1>3. <<"-">> \in Seq(Output) /\ <<>> \in Seq(Output)
  <2>1. "-" \in Output
    BY SpecialOutput
  <2>2. <<"-">> \in Seq(Output)
    BY <2>1
  <2>3. QED
    BY <2>2, EmptySeq
<1>4. Len(<<"-">>) = 1 /\ Len(<<>>) = 0
  OBVIOUS
<1>5. QED
  BY <1>1, <1>2, <1>3, <1>4

LEMMA RenderedType ==
  ASSUME NEW p \in Formats, NEW a, IsConversion(p) => a \in ArgsFor(p)
  PROVE  Rendered(p, a) \in Seq(Output)
<1>1. CASE p.type \in Numbers
  <2> DEFINE n == IF p.type = "d" THEN a.u
                  ELSE Unsigned(a.u, IF p.long = 0 THEN IntMax ELSE LongMax)
             minus == IF n < 0 THEN <<"-">> ELSE <<>>
             digits == NumeralOf(Magnitude(n), Base(p))
             missing == p.wid - Len(minus) - Len(digits)
  <2>1. a \in ArgsFor(p)
    BY <1>1 DEF IsConversion, Numbers
  <2>2. n \in Int /\ p.wid \in Int /\ Base(p) \in Bases
    BY <1>1, <2>1, NumberOf
  <2>3. minus \in Seq(Output)
    <3>1. "-" \in Output
      BY SpecialOutput
    <3>2. <<"-">> \in Seq(Output)
      BY <3>1
    <3>3. QED
      BY <3>2, EmptySeq
  <2>4. Rendered(p, a) = IF p.zero THEN minus \o Fill("0", missing) \o digits
                                   ELSE Fill(" ", missing) \o minus \o digits
    BY <1>1 DEF Rendered
  <2> HIDE DEF n, minus
  <2>5. Magnitude(n) \in Nat
    BY <2>2 DEF Magnitude
  <2>6. digits \in Seq(Output)
    BY <2>2, <2>5, NumeralType
  <2> HIDE DEF digits
  <2>7. missing \in Int
    BY <2>2, <2>3, <2>6
  <2> HIDE DEF missing
  <2>8. Fill("0", missing) \in Seq(Output) /\ Fill(" ", missing) \in Seq(Output)
    BY <2>7, SpecialOutput, FillType
  <2>9. /\ minus \o Fill("0", missing) \in Seq(Output)
        /\ Fill(" ", missing) \o minus \in Seq(Output)
    BY <2>3, <2>8, ConcatType
  <2>10. /\ minus \o Fill("0", missing) \o digits \in Seq(Output)
         /\ Fill(" ", missing) \o minus \o digits \in Seq(Output)
    BY <2>6, <2>9, ConcatType
  <2>11. QED
    BY <2>4, <2>10
<1>2. CASE p.type = "s"
  <2>1. a \in ArgsFor(p)
    BY <1>2 DEF IsConversion
  <2>2. a.p \in Seq(Output) /\ p.wid - Len(a.p) \in Int
    BY <1>2, <2>1, TextOf
  <2>3. Fill(" ", p.wid - Len(a.p)) \in Seq(Output)
    BY <2>2, SpecialOutput, FillType
  <2>4. Rendered(p, a) = Fill(" ", p.wid - Len(a.p)) \o a.p
    BY <1>2 DEF Rendered, Numbers
  <2>5. QED
    BY <2>2, <2>3, <2>4, ConcatType
<1>3. CASE p.type = "c"
  <2>1. a \in ArgsFor(p)
    BY <1>3 DEF IsConversion
  <2>2. a.p \in Seq(Output)
    BY <1>3, <2>1, TextOf
  <2>3. Rendered(p, a) = a.p
    BY <1>3 DEF Rendered, Numbers
  <2>4. QED
    BY <2>2, <2>3
<1>4. CASE p.type = "ordinary"
  <2>1. p.ordinary \in Seq(Characters)
    BY DEF Formats
  <2>2. Rendered(p, a) = p.ordinary
    BY <1>4 DEF Rendered, Numbers
  <2>3. QED
    BY <2>1, <2>2, CharactersAreOutput
<1>5. QED
  BY <1>1, <1>2, <1>3, <1>4 DEF Formats, Types, Numbers

\* At its beginning the whole piece is left.
LEMMA FreshPiece ==
  ASSUME NEW p \in Formats, NEW a, IsConversion(p) => a \in ArgsFor(p),
         NEW nd, NEW sg, NEW buf
  PROVE  /\ Run(p, a, 0, nd, sg, buf) \in Seq(Output)
         /\ Left(p, a, 0, 0, nd, sg, buf) = Rendered(p, a)
<1> DEFINE run == Run(p, a, 0, nd, sg, buf)
           after == After(p, a, 0, nd, sg, buf)
<1>1. CASE p.type \in Numbers
  <2>1. run = Rendered(p, a) /\ after = <<>>
    BY <1>1 DEF Run, After, Numbers
  <2>2. run \in Seq(Output)
    BY <2>1, RenderedType
  <2> HIDE DEF run, after
  <2>3. SubSeq(run, 0 + 1, Len(run)) \o after = run
    BY <2>1, <2>2, WholePart, ConcatNil
  <2>4. QED
    BY <2>1, <2>2, <2>3 DEF Left, run, after
<1>2. CASE p.type = "s"
  <2>1. run = Fill(" ", p.wid - a.u) /\ after = a.p
    BY <1>2 DEF Run, After, Numbers
  <2>2. a \in ArgsFor(p)
    BY <1>2 DEF IsConversion
  <2>3. a.p \in Seq(Output) /\ a.u = Len(a.p) /\ p.wid - a.u \in Int
    BY <1>2, <2>2, TextOf
  <2>4. run \in Seq(Output)
    BY <2>1, <2>3, SpecialOutput, FillType
  <2>5. Rendered(p, a) = run \o after
    BY <1>2, <2>1, <2>3 DEF Rendered, Numbers
  <2> HIDE DEF run, after
  <2>6. SubSeq(run, 0 + 1, Len(run)) = run
    BY <2>4, WholePart
  <2>7. QED
    BY <2>4, <2>5, <2>6 DEF Left, run, after
<1>3. CASE p.type \in {"c", "ordinary"}
  <2>1. run = Rendered(p, a) /\ after = <<>>
    BY <1>3 DEF Run, After, Numbers, Rendered
  <2>2. run \in Seq(Output)
    BY <2>1, RenderedType
  <2> HIDE DEF run, after
  <2>3. SubSeq(run, 0 + 1, Len(run)) \o after = run
    BY <2>1, <2>2, WholePart, ConcatNil
  <2>4. QED
    BY <2>1, <2>2, <2>3 DEF Left, run, after
<1>4. QED
  BY <1>1, <1>2, <1>3 DEF Formats, Types, Numbers

-----------------------------------------------------------------------------
(* The pieces one after another.                                           *)

Shown(k) == Rendered(f[k], ArgOf(k))

\* The pieces have their arguments.
Supplied ==
  /\ f \in Seq(Formats)
  /\ \A k \in 1..Len(f) : IsConversion(f[k]) => args[Rank(k)] \in ArgsFor(f[k])

LEMMA ShownType ==
  ASSUME Supplied, NEW k \in 1..Len(f)
  PROVE  Shown(k) \in Seq(Output) /\ f[k] \in Formats
<1>1. f[k] \in Formats
  BY ElementOfSeq DEF Supplied
<1>2. IsConversion(f[k]) => ArgOf(k) \in ArgsFor(f[k])
  BY DEF Supplied, ArgOf
<1>3. QED
  BY <1>1, <1>2, RenderedType DEF Shown

LEMMA UpToStep ==
  ASSUME Supplied, NEW k \in 0..(Len(f) - 1)
  PROVE  UpTo(k + 1) = UpTo(k) \o Shown(k + 1)
<1> DEFINE g == [m \in 1..k |-> Shown(m)]
           h == [m \in 1..(k + 1) |-> Shown(m)]
           x == Shown(k + 1)
<1>1. Len(f) \in Nat
  BY LenProperties DEF Supplied
<1>2. \A m \in 1..(k + 1) : Shown(m) \in Seq(Output)
  <2>1. \A m \in 1..(k + 1) : m \in 1..Len(f)
    BY <1>1
  <2>2. QED
    BY <2>1, ShownType
<1>3. k \in Nat /\ x \in Seq(Output)
  BY <1>1, <1>2
<1>4. g \in Seq(Seq(Output)) /\ Len(g) = k
  BY <1>2, <1>3
<1>5. h = Append(g, x)
  BY <1>3
<1>6. UpTo(k) = FlattenSeq(g) /\ UpTo(k + 1) = FlattenSeq(h)
  BY DEF UpTo, Shown
<1> HIDE DEF g, h, x
<1>7. FlattenSeq(Append(g, x)) = FlattenSeq(g) \o x
  BY <1>3, <1>4, FlattenAppend
<1>8. QED
  BY <1>5, <1>6, <1>7 DEF x

LEMMA UpToNone == UpTo(0) = <<>>
<1>1. [m \in 1..0 |-> Rendered(f[m], ArgOf(m))] = <<>>
  OBVIOUS
<1>2. QED
  BY <1>1, FlattenNil DEF UpTo

LEMMA UpToType ==
  ASSUME Supplied
  PROVE  \A k \in 0..Len(f) : UpTo(k) \in Seq(Output)
<1> DEFINE T == {k \in Nat : k <= Len(f) => UpTo(k) \in Seq(Output)}
<1>1. 0 \in T
  <2>1. <<>> \in Seq(Output)
    OBVIOUS
  <2>2. QED
    BY <2>1, UpToNone
<1>2. ASSUME NEW k \in Nat, k \in T PROVE k + 1 \in T
  <2>1. SUFFICES ASSUME k + 1 <= Len(f) PROVE UpTo(k + 1) \in Seq(Output)
    OBVIOUS
  <2>2. Len(f) \in Nat
    BY LenProperties DEF Supplied
  <2>3. k \in 0..(Len(f) - 1) /\ k + 1 \in 1..Len(f) /\ k <= Len(f)
    BY <2>1, <2>2
  <2>4. UpTo(k) \in Seq(Output)
    BY <1>2, <2>3
  <2>5. Shown(k + 1) \in Seq(Output)
    BY <2>3, ShownType
  <2>6. UpTo(k + 1) = UpTo(k) \o Shown(k + 1)
    BY <2>3, UpToStep
  <2>7. QED
    BY <2>4, <2>5, <2>6, ConcatType
<1>3. Nat \subseteq T
  <2> HIDE DEF T
  <2>1. QED
    BY <1>1, <1>2, SetInduction
<1>4. Len(f) \in Nat
  BY LenProperties DEF Supplied
<1>5. QED
  BY <1>3, <1>4

\* The pieces from one on are what comes behind those before it.
LEMMA UpToEnd ==
  ASSUME Supplied, NEW k \in 0..Len(f)
  PROVE  \E t \in Seq(Output) : Whole = UpTo(k) \o t
<1>1. Len(f) \in Nat
  BY LenProperties DEF Supplied
<1> DEFINE P(n) == \E t \in Seq(Output) : Whole = UpTo(n) \o t
           T == {m \in Nat : m <= Len(f) => P(Len(f) - m)}
<1>2. 0 \in T
  <2>1. Whole = UpTo(Len(f)) /\ Len(f) - 0 = Len(f) /\ Len(f) \in 0..Len(f)
    BY <1>1 DEF Whole
  <2>2. UpTo(Len(f)) \in Seq(Output)
    BY <2>1, UpToType
  <2>3. Whole = UpTo(Len(f)) \o <<>> /\ <<>> \in Seq(Output)
    BY <2>1, <2>2, ConcatNil
  <2>4. QED
    BY <2>1, <2>3
<1>3. ASSUME NEW m \in Nat, m \in T PROVE m + 1 \in T
  <2>1. SUFFICES ASSUME m + 1 <= Len(f) PROVE P(Len(f) - (m + 1))
    OBVIOUS
  <2> DEFINE n == Len(f) - (m + 1)
  <2>2. n \in 0..(Len(f) - 1) /\ n + 1 = Len(f) - m /\ m <= Len(f)
        /\ n + 1 \in 1..Len(f) /\ n \in 0..Len(f)
    BY <1>1, <2>1
  <2>3. P(n + 1)
    BY <1>3, <2>2
  <2> HIDE DEF n
  <2>4. PICK t \in Seq(Output) : Whole = UpTo(n + 1) \o t
    BY <2>3
  <2>5. UpTo(n) \in Seq(Output) /\ Shown(n + 1) \in Seq(Output)
    BY <2>2, UpToType, ShownType
  <2>6. UpTo(n + 1) = UpTo(n) \o Shown(n + 1)
    BY <2>2, UpToStep
  <2>7. Associates(UpTo(n), Shown(n + 1), t)
    BY <2>5, ConcatAssociates
  <2>8. Whole = UpTo(n) \o (Shown(n + 1) \o t)
    BY <2>4, <2>6, <2>7 DEF Associates
  <2>9. Shown(n + 1) \o t \in Seq(Output)
    BY <2>5, ConcatType
  <2>10. QED
    BY <2>8, <2>9 DEF n
<1>4. Nat \subseteq T
  <2> HIDE DEF T
  <2>1. QED
    BY <1>2, <1>3, SetInduction
<1>5. Len(f) - k \in Nat /\ Len(f) - k <= Len(f) /\ Len(f) - (Len(f) - k) = k
  BY <1>1
<1>6. Len(f) - k \in T
  BY <1>4, <1>5
<1>7. P(Len(f) - (Len(f) - k))
  BY <1>5, <1>6
<1>8. QED
  BY <1>5, <1>7

-----------------------------------------------------------------------------
(* The output as npr_sprintf goes on.                                      *)

RunNow == Run(Piece, Arg, state, num_digit, sign, dump_digit_buf)
AfterNow == After(Piece, Arg, state, num_digit, sign, dump_digit_buf)
LeftOf(run, after, ci) == SubSeq(run, ci + 1, Len(run)) \o after
Owed(fits, out, left, all) == fits => out \o left = all

\* A step of npr_sprintf or of its caller.
Same == Printing /\ label' = label /\ f' = f /\ args' = args

LEMMA Fixed ==
  ASSUME f' = f, args' = args
  PROVE  /\ UnsignedFits' <=> UnsignedFits
         /\ \A k : UpTo(k)' = UpTo(k)
         /\ Whole' = Whole
         /\ \A k : ArgOf(k)' = ArgOf(k)
<1>1. \A k : ArgOf(k)' = ArgOf(k)
  BY DEF ArgOf, Rank
<1>2. \A k : UpTo(k)' = UpTo(k)
  BY DEF UpTo, ArgOf, Rank
<1>3. Whole' = Whole
  BY DEF Whole, UpTo, ArgOf, Rank
<1>4. UnsignedFits' <=> UnsignedFits
  BY DEF UnsignedFits, ArgOf, Rank
<1>5. QED
  BY <1>1, <1>2, <1>3, <1>4

\* The pieces have their arguments, and the one at hand is the argument of
\* its piece.
LEMMA PrintingSupplied ==
  ASSUME Printing
  PROVE  /\ Supplied
         /\ format_index < Len(f) =>
              /\ Piece = f[format_index + 1]
              /\ IsConversion(Piece) => Arg = ArgOf(format_index + 1)
<1>1. Supplied
  <2>1. i = Len(f)
    BY DEF Printing, IInv, ArgsInv
  <2>2. QED
    BY <2>1, PrintingType DEF Supplied, Printing, IInv, ArgsInv
<1>2. ASSUME format_index < Len(f), IsConversion(Piece)
      PROVE  Arg = ArgOf(format_index + 1)
  <2>1. format_index \in Nat /\ arg_index = Rank(format_index)
    BY PrintingType DEF Printing, IInv, ArgsInv
  <2>2. Rank(format_index + 1) = arg_index + 1
    BY <1>2, <2>1, RankNext DEF Piece
  <2>3. QED
    BY <1>2, <2>2 DEF ArgOf, Arg, Piece
<1>3. QED
  BY <1>1, <1>2 DEF Piece

LEMMA OutputNow ==
  ASSUME Printing, OutputInv, format_index < Len(f)
  PROVE  /\ char_index <= Len(RunNow)
         /\ char_index > 0 => Counts(Piece, state)
         /\ LeftOf(RunNow, AfterNow, char_index) \in Seq(Output)
         /\ Owed(UnsignedFits, Printed, LeftOf(RunNow, AfterNow, char_index),
                 UpTo(format_index + 1))
BY DEF OutputInv, Printing, RunNow, AfterNow, LeftOf, Left, Owed

\* A step within a piece.
LEMMA WithinPiece ==
  ASSUME Same, format_index < Len(f), UNCHANGED <<format_index, arg_index>>,
         char_index' <= Len(RunNow'),
         char_index' > 0 => Counts(Piece, state'),
         LeftOf(RunNow', AfterNow', char_index') \in Seq(Output),
         Owed(UnsignedFits, Printed', LeftOf(RunNow', AfterNow', char_index'),
              UpTo(format_index + 1))
  PROVE  OutputInv'
<1>1. /\ UnsignedFits' <=> UnsignedFits
      /\ UpTo(format_index + 1)' = UpTo(format_index + 1)
      /\ Piece' = Piece
  BY Fixed DEF Same, UpTo, ArgOf, Rank, Piece
<1>2. label' = "print" /\ format_index' < Len(f')
  BY DEF Same, Printing
<1>3. Left(Piece, Arg, state, char_index, num_digit, sign, dump_digit_buf)'
        = LeftOf(RunNow', AfterNow', char_index')
  BY DEF Left, LeftOf, RunNow, AfterNow
<1>4. Run(Piece, Arg, state, num_digit, sign, dump_digit_buf)' = RunNow'
  BY DEF RunNow
<1>5. Counts(Piece, state)' <=> Counts(Piece, state')
  BY <1>1
<1>6. QED
  BY <1>1, <1>2, <1>3, <1>4, <1>5 DEF OutputInv, Owed

\* The end of a piece, or the beginning of the first one.
LEMMA AtBeginning ==
  ASSUME f' = f, args' = args, Supplied,
         format_index' \in 0..Len(f), arg_index' = Rank(format_index'),
         state' = 0, char_index' = 0,
         Owed(UnsignedFits, Printed', <<>>, UpTo(format_index')),
         Printed' \in Seq(Output)
  PROVE  OutputInv'
<1> DEFINE k == format_index'
<1>1. k \in 0..Len(f) /\ Len(f) \in Nat /\ f \in Seq(Formats) /\ k \in Nat
  BY LenProperties DEF Supplied
<1>2. UnsignedFits => Printed' = UpTo(k)
  BY ConcatNil DEF Owed
<1>3. CASE k < Len(f)
  <2>1. k \in 0..(Len(f) - 1) /\ k + 1 \in 1..Len(f)
    <3> HIDE DEF k
    <3>1. QED
      BY <1>1, <1>3
  <2>2. Piece' = f[k + 1]
    BY DEF Piece
  <2>3. IsConversion(f[k + 1]) => Arg' = ArgOf(k + 1) /\ ArgOf(k + 1) \in ArgsFor(f[k + 1])
    <3>1. Arg' = args[Rank(k) + 1]
      BY DEF Arg
    <3>2. IsConversion(f[k + 1]) => Rank(k + 1) = Rank(k) + 1
      BY <1>1, RankNext
    <3>3. QED
      BY <2>1, <3>1, <3>2 DEF ArgOf, Supplied
  <2>4. f[k + 1] \in Formats
    BY <2>1, ShownType
  <2> DEFINE p == f[k + 1]
             a == Arg'
             nd == num_digit'
             sg == sign'
             buf == dump_digit_buf'
  <2>5. p \in Formats /\ (IsConversion(p) => a \in ArgsFor(p))
    BY <2>3, <2>4
  <2>6. /\ Run(p, a, 0, nd, sg, buf) \in Seq(Output)
        /\ Left(p, a, 0, 0, nd, sg, buf) = Rendered(p, a)
    <3> HIDE DEF p, a, nd, sg, buf
    <3>1. QED
      BY <2>5, FreshPiece
  <2>7. Rendered(p, a) = Shown(k + 1)
    BY <2>3, <2>4 DEF Shown, Rendered, IsConversion, Numbers, Formats, Types
  <2>8. Shown(k + 1) \in Seq(Output)
    BY <2>1, ShownType
  <2>9. UpTo(k + 1) = UpTo(k) \o Shown(k + 1)
    BY <2>1, UpToStep
  <2>10. 0 <= Len(Run(p, a, 0, nd, sg, buf))
    BY <2>6, LenProperties
  <2>11. /\ UnsignedFits' <=> UnsignedFits
         /\ UpTo(format_index + 1)' = UpTo(k + 1)
    BY Fixed DEF UpTo, ArgOf, Rank
  <2>12. /\ Run(Piece, Arg, state, num_digit, sign, dump_digit_buf)'
              = Run(p, a, 0, nd, sg, buf)
         /\ Left(Piece, Arg, state, char_index, num_digit, sign, dump_digit_buf)'
              = Left(p, a, 0, 0, nd, sg, buf)
    BY <2>2
  <2>13. format_index' < Len(f') /\ char_index' = 0
    BY <1>3
  <2> HIDE DEF p, a, nd, sg, buf
  <2>14. UnsignedFits => Printed' \o Left(p, a, 0, 0, nd, sg, buf) = UpTo(k + 1)
    BY <1>2, <2>6, <2>7, <2>9
  <2>15. Left(p, a, 0, 0, nd, sg, buf) \in Seq(Output)
    BY <2>6, <2>7, <2>8
  <2> HIDE DEF k
  <2>16. QED
    BY <2>10, <2>11, <2>12, <2>13, <2>14, <2>15 DEF OutputInv
<1>4. CASE ~(k < Len(f))
  <2>1. k = Len(f)
    BY <1>1, <1>4
  <2>2. UnsignedFits' => UnsignedFits /\ Whole' = UpTo(Len(f))
    BY Fixed DEF Whole
  <2>3. QED
    BY <1>2, <1>4, <2>1, <2>2 DEF OutputInv
<1>5. QED
  BY <1>3, <1>4

-----------------------------------------------------------------------------
(* What is written, and what is left of a run.                             *)

\* What is written and what is not are what was to be written.
Moved(out, left, new, rest2) == out \o left = new \o rest2

LEMMA WritePrints ==
  ASSUME Printing, sent' = sent, NEW s \in Seq(Output), NEW r \in Seq(Output),
         Write(s)
  PROVE  /\ Printed' \in Seq(Output)
         /\ Len(s) <= Room => Moved(Printed, s \o r, Printed', r)
         /\ ~(Len(s) <= Room) =>
              /\ Len(dst') = dstlen
              /\ Moved(Printed, s \o r, Printed', SubSeq(s, Room + 1, Len(s)) \o r)
<1> DEFINE n == IF Len(s) <= Room THEN Len(s) ELSE Room
           part == SubSeq(s, 1, n)
           left == SubSeq(s, n + 1, Len(s))
<1>1. Len(s) \in Nat /\ n \in 0..Len(s)
  BY PrintingType, LenProperties
<1>2. dst' = dst \o part
  BY DEF Write
<1>3. /\ part \in Seq(Output) /\ Len(part) = n
      /\ left \in Seq(Output) /\ part \o left = s
  <2> HIDE DEF n
  <2>1. QED
    BY <1>1, SplitAt
<1>4. sent \in Seq(Output) /\ dst \in Seq(Output)
  BY PrintingType DEF Printing, IInv, TypeOK
<1>5. Len(s) <= Room => left = <<>>
  <2>1. ASSUME Len(s) <= Room PROVE left = <<>>
    BY <1>1, <2>1
  <2>2. QED
    BY <2>1
<1>6. ~(Len(s) <= Room) => n = Room /\ left = SubSeq(s, Room + 1, Len(s))
  OBVIOUS
<1>7. Printed' = sent \o (dst \o part)
  BY <1>2 DEF Printed
<1> HIDE DEF n, part, left
<1>8. dst \o part \in Seq(Output) /\ Len(dst \o part) = Len(dst) + n
  BY <1>3, <1>4, ConcatProperties
<1>9. Printed' \in Seq(Output) /\ Printed \in Seq(Output)
  BY <1>4, <1>7, <1>8, ConcatType DEF Printed
<1>10. Moved(Printed, s \o r, Printed', left \o r)
  <2> DEFINE w == left \o r
             d == dst \o part
  <2>1. w \in Seq(Output) /\ d \in Seq(Output)
    BY <1>3, <1>8, ConcatType
  <2>2. part \o w \in Seq(Output)
    BY <1>3, <2>1, ConcatType
  <2>3. /\ Associates(part, left, r) /\ Associates(dst, part, w)
        /\ Associates(sent, dst, part \o w)
        /\ Associates(sent, d, w)
    BY <1>3, <1>4, <2>1, <2>2, ConcatAssociates
  <2> HIDE DEF w
  <2>4. s \o r = part \o w
    BY <1>3, <2>3 DEF Associates, w
  <2>5. (sent \o dst) \o (part \o w) = sent \o (dst \o (part \o w))
    BY <2>3 DEF Associates
  <2>6. (sent \o d) \o w = sent \o (d \o w)
    BY <2>3 DEF Associates
  <2>7. d \o w = dst \o (part \o w)
    BY <2>3 DEF Associates
  <2>8. Printed \o (s \o r) = Printed' \o w
    <3>1. Printed' = sent \o d
      BY <1>7
    <3> HIDE DEF d
    <3>2. QED
      BY <2>4, <2>5, <2>6, <2>7, <3>1, Zenon DEF Printed
  <2>9. QED
    BY <2>8 DEF Moved, w
<1>11. Len(s) <= Room => left \o r = r
  BY <1>5, ConcatNil
<1>12. ~(Len(s) <= Room) => Len(dst') = dstlen
  <2>1. ASSUME ~(Len(s) <= Room) PROVE Len(dst') = dstlen
    <3>1. n = Room /\ Len(dst') = Len(dst) + n
      BY <1>2, <1>6, <1>8, <2>1
    <3>2. QED
      BY <3>1, PrintingType DEF Room
  <2>2. QED
    BY <2>1
<1>13. QED
  BY <1>6, <1>9, <1>10, <1>11, <1>12

\* fill_with and dump_str.
LEMMA RunPrints ==
  ASSUME Printing, sent' = sent, NEW s \in Seq(Output), NEW r \in Seq(Output),
         OutputRun(s, char_index), char_index <= Len(s),
         NEW fits \in BOOLEAN, NEW all,
         Owed(fits, Printed, LeftOf(s, r, char_index), all)
  PROVE  /\ Printed' \in Seq(Output)
         /\ is_fini' =>
              pc' = "run" /\ char_index' = 0 /\ Owed(fits, Printed', r, all)
         /\ ~is_fini' =>
              /\ pc' = "idle" /\ Len(dst') = dstlen
              /\ char_index' \in 0..Len(s)
              /\ LeftOf(s, r, char_index') \in Seq(Output)
              /\ Owed(fits, Printed', LeftOf(s, r, char_index'), all)
<1> DEFINE left == SubSeq(s, char_index + 1, Len(s))
<1>1. /\ Write(left)
      /\ is_fini' = (Len(left) <= Room)
      /\ char_index' = IF is_fini' THEN 0 ELSE char_index + Room
      /\ pc' = IF is_fini' THEN "run" ELSE "idle"
  BY DEF OutputRun
<1>2. char_index \in 0..Len(s) /\ Room \in Nat /\ Len(s) \in Nat
  BY PrintingType, LenProperties
<1>3. left \in Seq(Output) /\ Len(left) = Len(s) - char_index
  BY <1>2, SplitAt
<1>4. LeftOf(s, r, char_index) = left \o r
  BY DEF LeftOf
<1> DEFINE more == SubSeq(left, Room + 1, Len(left))
<1> HIDE DEF left
<1>5. /\ Printed' \in Seq(Output)
      /\ Len(left) <= Room => Moved(Printed, left \o r, Printed', r)
      /\ ~(Len(left) <= Room) =>
           /\ Len(dst') = dstlen
           /\ Moved(Printed, left \o r, Printed', more \o r)
  BY <1>1, <1>3, WritePrints
<1>6. CASE is_fini'
  <2>1. Len(left) <= Room
    BY <1>1, <1>6
  <2>2. Owed(fits, Printed', r, all)
    BY <1>4, <1>5, <2>1 DEF Moved, Owed
  <2>3. QED
    BY <1>1, <1>5, <1>6, <2>2
<1>7. CASE ~is_fini'
  <2>1. ~(Len(left) <= Room)
    BY <1>1, <1>7
  <2>2. char_index' = char_index + Room
    BY <1>1, <1>7
  <2>3. char_index' \in 0..Len(s) /\ Room \in 0..(Len(s) - char_index)
    BY <1>2, <1>3, <2>1, <2>2
  <2>4. more = SubSeq(s, char_index' + 1, Len(s))
    <3>1. SubSeq(SubSeq(s, char_index + 1, Len(s)), Room + 1, Len(s) - char_index)
            = SubSeq(s, char_index + Room + 1, Len(s))
      BY <1>2, <2>3, RestOfRest
    <3>2. QED
      BY <1>3, <2>2, <3>1 DEF left
  <2>5. LeftOf(s, r, char_index') = more \o r
    BY <2>4 DEF LeftOf
  <2>6. more \in Seq(Output)
    BY <2>3, <2>4, SplitAt
  <2>7. LeftOf(s, r, char_index') \in Seq(Output)
    BY <2>5, <2>6, ConcatType
  <2> HIDE DEF more
  <2>8. Owed(fits, Printed', LeftOf(s, r, char_index'), all)
    BY <1>4, <1>5, <2>1, <2>5 DEF Moved, Owed
  <2>9. QED
    BY <1>1, <1>5, <1>7, <2>1, <2>3, <2>7, <2>8
<1>8. is_fini' \in BOOLEAN
  BY <1>1
<1>9. QED
  BY <1>6, <1>7, <1>8

LEMMA LeftAll ==
  ASSUME NEW run \in Seq(Output), NEW after
  PROVE  LeftOf(run, after, 0) = run \o after
<1>1. SubSeq(run, 0 + 1, Len(run)) = run
  BY WholePart
<1>2. QED
  BY <1>1 DEF LeftOf

-----------------------------------------------------------------------------
(* The stages of strings, ordinary characters and padding.                 *)

\* What else a stage must see to.
LEMMA StagePrints ==
  ASSUME Printing, PrintedInv, Kept, UNCHANGED number, OutputInv',
         pc' \in {"run", "idle"},
         pc' = "idle" => ~is_fini' /\ Len(dst') = dstlen
  PROVE  PrintedInv'
<1>1. /\ label' = label /\ label = "print" /\ dump_digit_buf' = dump_digit_buf
      /\ dstlen' = dstlen
  BY DEF Kept, build, number, Printing
<1>2. ConvertInv'
  BY DEF ConvertInv
<1>3. FlagInv'
  BY <1>1 DEF FlagInv
<1>4. QED
  BY <1>1, <1>2, <1>3 DEF PrintedInv

LEMMA KeptSame ==
  ASSUME Printing, Kept
  PROVE  Same /\ sent' = sent /\ Arg' = args[arg_index' + 1] /\ dstlen' = dstlen
BY DEF Kept, build, Same, Arg

\* A run that ends its piece.
LEMMA LastRunPrints ==
  ASSUME Printing, PrintedInv, Kept, UNCHANGED number, format_index < Len(f),
         NEW s \in Seq(Output), OutputRun(s, char_index), RunNow = s,
         AfterNow = <<>>, Counts(Piece, state),
         IF is_fini' THEN NextPiece ELSE UNCHANGED place
  PROVE  PrintedInv'
<1> DEFINE fits == UnsignedFits
           all == UpTo(format_index + 1)
<1>1. OutputInv
  BY DEF PrintedInv
<1>2. /\ char_index <= Len(s)
      /\ Owed(fits, Printed, LeftOf(s, <<>>, char_index), all)
  BY <1>1, OutputNow
<1>3. Same /\ sent' = sent
  BY KeptSame
<1>4. fits \in BOOLEAN /\ <<>> \in Seq(Output)
  BY EmptySeq DEF UnsignedFits
<1> HIDE DEF fits, all
<1>5. /\ Printed' \in Seq(Output)
      /\ is_fini' =>
           pc' = "run" /\ char_index' = 0 /\ Owed(fits, Printed', <<>>, all)
      /\ ~is_fini' =>
           /\ pc' = "idle" /\ Len(dst') = dstlen
           /\ char_index' \in 0..Len(s)
           /\ LeftOf(s, <<>>, char_index') \in Seq(Output)
           /\ Owed(fits, Printed', LeftOf(s, <<>>, char_index'), all)
  BY <1>2, <1>3, <1>4, RunPrints
<1>6. CASE is_fini'
  <2>1. NextPiece
    BY <1>6
  <2>2. /\ format_index' \in 0..Len(f) /\ arg_index' = Rank(format_index')
        /\ state' = 0 /\ format_index' = format_index + 1
    BY <2>1, NextPieceOK DEF NextPiece
  <2>3. Owed(UnsignedFits, Printed', <<>>, UpTo(format_index'))
    BY <1>5, <1>6, <2>2 DEF fits, all
  <2>4. Supplied
    BY PrintingSupplied
  <2>5. OutputInv'
    BY <1>3, <1>5, <1>6, <2>2, <2>3, <2>4, AtBeginning DEF Same
  <2>6. QED
    BY <1>5, <1>6, <2>5, StagePrints
<1>7. CASE ~is_fini'
  <2>1. UNCHANGED <<format_index, arg_index, state>>
    BY <1>7 DEF place
  <2>2. RunNow' = s /\ AfterNow' = <<>>
    BY <1>3, <2>1 DEF RunNow, AfterNow, Piece, Arg, Same, number
  <2>3. char_index' <= Len(RunNow')
    BY <1>5, <1>7, <2>2
  <2>4. Counts(Piece, state')
    BY <2>1
  <2>5. OutputInv'
    BY <1>3, <1>5, <1>7, <2>1, <2>2, <2>3, <2>4, WithinPiece DEF fits, all
  <2>6. QED
    BY <1>5, <1>7, <2>5, StagePrints
<1>8. QED
  BY <1>6, <1>7

\* A run that another stage of the piece follows.
LEMMA NextRunPrints ==
  ASSUME Printing, PrintedInv, Kept, UNCHANGED number, format_index < Len(f),
         UNCHANGED <<format_index, arg_index>>,
         NEW s \in Seq(Output), NEW r \in Seq(Output),
         OutputRun(s, char_index), RunNow = s, AfterNow = r,
         Counts(Piece, state),
         NEW next, state' = IF is_fini' THEN next ELSE state,
         NEW t \in Seq(Output), NEW u,
         Run(Piece, Arg, next, num_digit, sign, dump_digit_buf) = t,
         After(Piece, Arg, next, num_digit, sign, dump_digit_buf) = u,
         t \o u = r
  PROVE  PrintedInv'
<1> DEFINE fits == UnsignedFits
           all == UpTo(format_index + 1)
<1>1. OutputInv
  BY DEF PrintedInv
<1>2. /\ char_index <= Len(s)
      /\ Owed(fits, Printed, LeftOf(s, r, char_index), all)
  BY <1>1, OutputNow
<1>3. Same /\ sent' = sent
  BY KeptSame
<1>4. fits \in BOOLEAN
  BY DEF UnsignedFits
<1> HIDE DEF fits, all
<1>5. /\ Printed' \in Seq(Output)
      /\ is_fini' =>
           pc' = "run" /\ char_index' = 0 /\ Owed(fits, Printed', r, all)
      /\ ~is_fini' =>
           /\ pc' = "idle" /\ Len(dst') = dstlen
           /\ char_index' \in 0..Len(s)
           /\ LeftOf(s, r, char_index') \in Seq(Output)
           /\ Owed(fits, Printed', LeftOf(s, r, char_index'), all)
  BY <1>2, <1>3, <1>4, RunPrints
<1>6. /\ RunNow' = Run(Piece, Arg, state', num_digit, sign, dump_digit_buf)
      /\ AfterNow' = After(Piece, Arg, state', num_digit, sign, dump_digit_buf)
  BY <1>3 DEF RunNow, AfterNow, Piece, Arg, Same, number
<1>7. CASE is_fini'
  <2>1. RunNow' = t /\ AfterNow' = u /\ char_index' = 0
    BY <1>5, <1>6, <1>7
  <2>2. LeftOf(RunNow', AfterNow', char_index') = r
    BY <2>1, LeftAll
  <2>3. char_index' <= Len(RunNow') /\ ~(char_index' > 0)
    BY <2>1, LenProperties
  <2>4. OutputInv'
    BY <1>3, <1>5, <1>7, <2>2, <2>3, WithinPiece DEF fits, all
  <2>5. QED
    BY <1>5, <1>7, <2>4, StagePrints
<1>8. CASE ~is_fini'
  <2>1. state' = state
    BY <1>8
  <2>2. RunNow' = s /\ AfterNow' = r
    BY <1>6, <2>1 DEF RunNow, AfterNow
  <2>3. char_index' <= Len(RunNow')
    BY <1>5, <1>8, <2>2
  <2>4. Counts(Piece, state')
    BY <2>1
  <2>5. OutputInv'
    BY <1>3, <1>5, <1>8, <2>2, <2>3, <2>4, WithinPiece DEF fits, all
  <2>6. QED
    BY <1>5, <1>8, <2>5, StagePrints
<1>9. QED
  BY <1>7, <1>8

LEMMA StringRuns ==
  ASSUME NEW p, p.type = "s", NEW a, NEW nd, NEW sg, NEW buf
  PROVE  /\ Run(p, a, 0, nd, sg, buf) = Fill(" ", p.wid - a.u)
         /\ After(p, a, 0, nd, sg, buf) = a.p
         /\ Run(p, a, 1, nd, sg, buf) = a.p
         /\ After(p, a, 1, nd, sg, buf) = <<>>
<1>1. /\ Run(p, a, 0, nd, sg, buf) = Fill(" ", p.wid - a.u)
      /\ Run(p, a, 1, nd, sg, buf) = a.p
  BY DEF Run, Numbers
<1>2. /\ After(p, a, 0, nd, sg, buf) = a.p
      /\ After(p, a, 1, nd, sg, buf) = <<>>
  BY DEF After, Numbers
<1>3. QED
  BY <1>1, <1>2

LEMMA StrPaddingPrints ==
  ASSUME Printing, PrintedInv, StrPadding, UNCHANGED build
  PROVE  PrintedInv'
<1> DEFINE s == Fill(" ", Piece.wid - Arg.u)
           t == Arg.p
<1>1. /\ pc = "run" /\ format_index < Len(f) /\ Piece.type = "s" /\ state = 0
      /\ OutputRun(s, char_index)
      /\ state' = IF is_fini' THEN 1 ELSE 0
      /\ UNCHANGED <<format_index, arg_index>> /\ UNCHANGED number
      /\ UNCHANGED <<args, dstlen, sent>>
  BY DEF StrPadding, At, inputs
<1>2. Piece \in Formats /\ Arg \in ArgsFor(Piece)
  BY <1>1, ArgOfPiece DEF IsConversion
<1>3. t \in Seq(Output) /\ Piece.wid - Arg.u \in Int
  BY <1>1, <1>2, TextOf
<1>4. s \in Seq(Output)
  BY <1>3, SpecialOutput, FillType
<1>5. /\ RunNow = s /\ AfterNow = t /\ Counts(Piece, state)
      /\ Run(Piece, Arg, 1, num_digit, sign, dump_digit_buf) = t
      /\ After(Piece, Arg, 1, num_digit, sign, dump_digit_buf) = <<>>
  BY ZenonT(30), <1>1, StringRuns DEF RunNow, AfterNow, Counts
<1>6. t \o <<>> = t
  BY <1>3, ConcatNil
<1>7. Kept /\ state' = IF is_fini' THEN 1 ELSE state
  BY <1>1 DEF Kept
<1> HIDE DEF s, t
<1>8. QED
  BY <1>1, <1>3, <1>4, <1>5, <1>6, <1>7, NextRunPrints

LEMMA StrPrints ==
  ASSUME Printing, PrintedInv, Str, UNCHANGED build
  PROVE  PrintedInv'
<1>1. /\ pc = "run" /\ format_index < Len(f) /\ Piece.type = "s" /\ state = 1
      /\ OutputRun(Arg.p, char_index)
      /\ IF is_fini' THEN NextPiece ELSE UNCHANGED place
      /\ UNCHANGED number
      /\ UNCHANGED <<args, dstlen, sent>>
  BY DEF Str, At, inputs
<1>2. Piece \in Formats /\ Arg \in ArgsFor(Piece)
  BY <1>1, ArgOfPiece DEF IsConversion
<1>3. Arg.p \in Seq(Output)
  BY <1>1, <1>2, TextOf
<1>4. RunNow = Arg.p /\ AfterNow = <<>> /\ Counts(Piece, state) /\ Kept
  BY <1>1 DEF RunNow, AfterNow, Run, After, Counts, Numbers, Kept
<1>5. QED
  BY <1>1, <1>3, <1>4, LastRunPrints

LEMMA OrdinariesPrint ==
  ASSUME Printing, PrintedInv, Ordinaries, UNCHANGED build
  PROVE  PrintedInv'
<1>1. /\ pc = "run" /\ format_index < Len(f) /\ Piece.type = "ordinary"
      /\ OutputRun(Piece.ordinary, char_index)
      /\ IF is_fini' THEN NextPiece ELSE UNCHANGED place
      /\ UNCHANGED number
      /\ UNCHANGED <<args, dstlen, sent>>
  BY DEF Ordinaries, At, inputs
<1>2. Piece.ordinary \in Seq(Output)
  BY <1>1, ArgOfPiece, CharactersAreOutput DEF Formats
<1>3. RunNow = Piece.ordinary /\ AfterNow = <<>> /\ Counts(Piece, state) /\ Kept
  BY <1>1 DEF RunNow, AfterNow, Run, After, Counts, Numbers, Kept
<1>4. QED
  BY <1>1, <1>2, <1>3, LastRunPrints

LEMMA CharPrints ==
  ASSUME Printing, PrintedInv, Char, UNCHANGED build
  PROVE  PrintedInv'
<1>1. /\ pc = "run" /\ format_index < Len(f) /\ Piece.type = "c" /\ state = 0
      /\ UNCHANGED number
      /\ UNCHANGED <<char_index, is_fini, args, dstlen, sent>>
  BY DEF Char, At, inputs
<1>2. Piece \in Formats /\ Arg \in ArgsFor(Piece)
  BY <1>1, ArgOfPiece DEF IsConversion
<1>3. Arg.p \in Seq(Output) /\ Len(Arg.p) = 1
  BY <1>1, <1>2, TextOf
<1>4. Kept /\ Same
  BY <1>1, KeptSame DEF Kept
<1>5. RunNow = Arg.p /\ AfterNow = <<>> /\ ~Counts(Piece, state)
  BY <1>1 DEF RunNow, AfterNow, Run, After, Counts, Numbers
<1>6. OutputInv
  BY DEF PrintedInv
<1>7. char_index = 0
  BY <1>1, <1>5, <1>6, OutputNow, PrintingType
<1>8. sent \in Seq(Output) /\ dst \in Seq(Output)
  BY PrintingType DEF Printing, IInv, TypeOK
<1>9. CASE Room > 0
  <2>1. dst' = dst \o Arg.p /\ NextPiece /\ pc' = pc
    BY <1>9 DEF Char
  <2>2. LeftOf(RunNow, AfterNow, char_index) = Arg.p
    BY <1>3, <1>5, <1>7, LeftAll, ConcatNil
  <2>3. Owed(UnsignedFits, Printed, Arg.p, UpTo(format_index + 1))
    BY <1>1, <1>6, <2>2, OutputNow
  <2>4. /\ format_index' \in 0..Len(f) /\ arg_index' = Rank(format_index')
        /\ state' = 0 /\ format_index' = format_index + 1
    BY <1>1, <2>1, NextPieceOK DEF NextPiece
  <2>5. Associates(sent, dst, Arg.p)
    BY <1>3, <1>8, ConcatAssociates
  <2>6. Printed' = Printed \o Arg.p
    BY <1>1, <2>1, <2>5 DEF Printed, Associates
  <2>7. Printed \in Seq(Output) /\ Printed' \in Seq(Output)
    BY <1>3, <1>8, <2>6, ConcatType DEF Printed
  <2>8. Owed(UnsignedFits, Printed', <<>>, UpTo(format_index'))
    BY <2>3, <2>4, <2>6, <2>7, ConcatNil DEF Owed
  <2>9. Supplied
    BY PrintingSupplied
  <2>10. OutputInv'
    BY <1>1, <1>4, <1>7, <2>4, <2>7, <2>8, <2>9, AtBeginning DEF Same
  <2>11. QED
    BY <1>1, <1>4, <2>1, <2>10, StagePrints
<1>10. CASE ~(Room > 0)
  <2>1. pc' = "idle" /\ dst' = dst /\ UNCHANGED <<format_index, arg_index, state>>
    BY <1>10 DEF Char, place
  <2>2. /\ RunNow' = RunNow /\ AfterNow' = AfterNow /\ Printed' = Printed
        /\ Piece' = Piece /\ label' = label /\ f' = f
    BY <1>1, <1>4, <2>1 DEF RunNow, AfterNow, Piece, Arg, Same, number, Printed
  <2>3. /\ LeftOf(RunNow', AfterNow', char_index') \in Seq(Output)
        /\ char_index' <= Len(RunNow') /\ ~(char_index' > 0)
        /\ Owed(UnsignedFits, Printed', LeftOf(RunNow', AfterNow', char_index'),
                UpTo(format_index + 1))
    BY <1>1, <1>6, <1>7, <2>2, OutputNow
  <2>4. OutputInv'
    BY <1>1, <1>4, <2>1, <2>3, WithinPiece
  <2>5. Len(dst) = dstlen
    BY <1>10, PrintingType DEF Room
  <2>6. ConvertInv' /\ FlagInv'
    BY <1>1, <2>1, <2>2, <2>5 DEF ConvertInv, FlagInv
  <2>7. Len(dump_digit_buf)' <= DigitBuf /\ label' = "print"
    BY <1>1, <2>2 DEF PrintedInv, number, Printing
  <2>8. QED
    BY <2>4, <2>6, <2>7 DEF PrintedInv
<1>11. QED
  BY <1>9, <1>10

-----------------------------------------------------------------------------
(* The stages of a number.                                                 *)

\* Its padding, sign and digits.
LEMMA NumberParts ==
  ASSUME NEW p \in Formats, NEW buf \in Seq(Output), NEW nd \in 0..Len(buf),
         NEW sg \in {0, 1}
  PROVE  /\ p.wid - (nd + sg) \in Int
         /\ Fill(" ", p.wid - (nd + sg)) \in Seq(Output)
         /\ Fill("0", p.wid - (nd + sg)) \in Seq(Output)
         /\ Fill("-", sg) \in Seq(Output)
         /\ Reversed(buf, nd) \in Seq(Output)
<1>1. p.wid - (nd + sg) \in Int
  BY LenProperties DEF Formats
<1>2. QED
  BY <1>1, SpecialOutput, FillType, MinusIs, ReversedType

\* What the stages print, and what is left behind each.
ZeroedRuns(p, a, nd, sg, buf) ==
  /\ Run(p, a, 1, nd, sg, buf) = Fill("-", sg)
  /\ After(p, a, 1, nd, sg, buf)
       = Fill("0", p.wid - (nd + sg)) \o Reversed(buf, nd)
  /\ Run(p, a, 2, nd, sg, buf) = Fill("0", p.wid - (nd + sg))
  /\ After(p, a, 2, nd, sg, buf) = Reversed(buf, nd)

LEMMA ZeroRuns ==
  ASSUME NEW p, p.type \in Numbers, p.zero, NEW a, NEW nd, NEW sg, NEW buf
  PROVE  ZeroedRuns(p, a, nd, sg, buf)
<1>1. p.type # "s" /\ p.type # "c" /\ p.type # "ordinary"
  BY DEF Numbers
<1>2. /\ Run(p, a, 1, nd, sg, buf) = Fill("-", sg)
      /\ Run(p, a, 2, nd, sg, buf) = Fill("0", p.wid - (nd + sg))
  BY <1>1 DEF Run
<1>3. /\ After(p, a, 1, nd, sg, buf)
           = Fill("0", p.wid - (nd + sg)) \o Reversed(buf, nd)
      /\ After(p, a, 2, nd, sg, buf) = Reversed(buf, nd)
  BY <1>1 DEF After
<1>4. QED
  BY <1>2, <1>3 DEF ZeroedRuns

SpacedRuns(p, a, nd, sg, buf) ==
  /\ Run(p, a, 1, nd, sg, buf) = Fill(" ", p.wid - (nd + sg))
  /\ After(p, a, 1, nd, sg, buf) = Fill("-", sg) \o Reversed(buf, nd)
  /\ Run(p, a, 2, nd, sg, buf) = Fill("-", sg)
  /\ After(p, a, 2, nd, sg, buf) = Reversed(buf, nd)

LEMMA SpaceRuns ==
  ASSUME NEW p, p.type \in Numbers, ~p.zero, NEW a, NEW nd, NEW sg, NEW buf
  PROVE  SpacedRuns(p, a, nd, sg, buf)
<1>1. p.type # "s" /\ p.type # "c" /\ p.type # "ordinary"
  BY DEF Numbers
<1>2. /\ Run(p, a, 1, nd, sg, buf) = Fill(" ", p.wid - (nd + sg))
      /\ Run(p, a, 2, nd, sg, buf) = Fill("-", sg)
  BY <1>1 DEF Run
<1>3. /\ After(p, a, 1, nd, sg, buf) = Fill("-", sg) \o Reversed(buf, nd)
      /\ After(p, a, 2, nd, sg, buf) = Reversed(buf, nd)
  BY <1>1 DEF After
<1>4. QED
  BY <1>2, <1>3 DEF SpacedRuns

LEMMA DigitRuns ==
  ASSUME NEW p, p.type \in Numbers, NEW a, NEW nd, NEW sg, NEW buf
  PROVE  /\ Run(p, a, 3, nd, sg, buf) = Reversed(buf, nd)
         /\ After(p, a, 3, nd, sg, buf) = <<>>
<1>1. p.type # "s" /\ p.type # "c" /\ p.type # "ordinary"
  BY DEF Numbers
<1>2. Run(p, a, 3, nd, sg, buf) = Reversed(buf, nd)
  BY <1>1 DEF Run
<1>3. After(p, a, 3, nd, sg, buf) = <<>>
  BY <1>1 DEF After
<1>4. QED
  BY <1>2, <1>3

\* The state at the later stages of a number.
LEMMA NumberNow ==
  ASSUME Printing, PrintedInv, pc = "run", format_index < Len(f),
         Piece.type \in Numbers
  PROVE  /\ Piece \in Formats /\ Arg \in ArgsFor(Piece)
         /\ dump_digit_buf \in Seq(Output)
         /\ num_digit \in 0..Len(dump_digit_buf) /\ num_digit \in Nat
         /\ sign \in {0, 1}
         /\ state # (IF Piece.zero THEN 2 ELSE 1) => char_index = 0
<1>1. Piece \in Formats /\ Arg \in ArgsFor(Piece)
  BY ArgOfPiece DEF IsConversion, Numbers
<1>2. /\ dump_digit_buf \in Seq(Output) /\ num_digit \in Nat
      /\ num_digit <= Len(dump_digit_buf) /\ sign \in {0, 1}
  BY DEF Printing, IInv, TypeOK, NumberInv
<1>3. num_digit \in 0..Len(dump_digit_buf)
  BY <1>2, LenProperties
<1>4. ASSUME state # (IF Piece.zero THEN 2 ELSE 1) PROVE char_index = 0
  <2>1. ~Counts(Piece, state)
    BY <1>4 DEF Counts, Numbers
  <2>2. QED
    BY <2>1, OutputNow, PrintingType DEF PrintedInv
<1>5. QED
  BY <1>1, <1>2, <1>3, <1>4

LEMMA SpacesPrint ==
  ASSUME Printing, PrintedInv, Spaces, UNCHANGED build
  PROVE  PrintedInv'
<1> DEFINE s == Fill(" ", Padding)
           t == Fill("-", sign)
           u == Reversed(dump_digit_buf, num_digit)
           r == t \o u
<1>1. /\ pc = "run" /\ format_index < Len(f) /\ Piece.type \in Numbers
      /\ state = 1 /\ ~Piece.zero
      /\ OutputRun(s, char_index)
      /\ state' = IF is_fini' THEN 1 + 1 ELSE 1
      /\ UNCHANGED <<format_index, arg_index>> /\ UNCHANGED number
      /\ UNCHANGED <<args, dstlen, sent>>
  BY DEF Spaces, Pad, At, inputs
<1>2. s \in Seq(Output) /\ t \in Seq(Output) /\ u \in Seq(Output)
  BY <1>1, NumberNow, NumberParts DEF Padding
<1>3. r \in Seq(Output)
  BY <1>2, ConcatType
<1>4. /\ RunNow = s /\ AfterNow = r
      /\ Run(Piece, Arg, 2, num_digit, sign, dump_digit_buf) = t
      /\ After(Piece, Arg, 2, num_digit, sign, dump_digit_buf) = u
  <2>1. SpacedRuns(Piece, Arg, num_digit, sign, dump_digit_buf)
    BY <1>1, SpaceRuns
  <2>2. /\ Run(Piece, Arg, 1, num_digit, sign, dump_digit_buf) = s
        /\ After(Piece, Arg, 1, num_digit, sign, dump_digit_buf) = r
        /\ Run(Piece, Arg, 2, num_digit, sign, dump_digit_buf) = t
        /\ After(Piece, Arg, 2, num_digit, sign, dump_digit_buf) = u
    BY <2>1 DEF SpacedRuns, Padding
  <2>3. QED
    BY <1>1, <2>2 DEF RunNow, AfterNow
<1>5. Kept /\ Counts(Piece, state) /\ state' = IF is_fini' THEN 2 ELSE state
  <2>1. Kept
    BY <1>1 DEF Kept
  <2>2. Counts(Piece, state)
    BY <1>1 DEF Counts
  <2>3. state' = IF is_fini' THEN 2 ELSE state
    <3>1. 1 + 1 = 2
      OBVIOUS
    <3>2. QED
      BY <1>1, <3>1
  <2>4. QED
    BY <2>1, <2>2, <2>3
<1> HIDE DEF s, t, u
<1>6. QED
  BY <1>1, <1>2, <1>3, <1>4, <1>5, NextRunPrints

LEMMA ZerosPrint ==
  ASSUME Printing, PrintedInv, Zeros, UNCHANGED build
  PROVE  PrintedInv'
<1> DEFINE s == Fill("0", Padding)
           t == Reversed(dump_digit_buf, num_digit)
<1>1. /\ pc = "run" /\ format_index < Len(f) /\ Piece.type \in Numbers
      /\ state = 2 /\ Piece.zero
      /\ OutputRun(s, char_index)
      /\ state' = IF is_fini' THEN 2 + 1 ELSE 2
      /\ UNCHANGED <<format_index, arg_index>> /\ UNCHANGED number
      /\ UNCHANGED <<args, dstlen, sent>>
  BY DEF Zeros, Pad, At, inputs
<1>2. s \in Seq(Output) /\ t \in Seq(Output)
  BY <1>1, NumberNow, NumberParts DEF Padding
<1>3. t \o <<>> = t
  BY <1>2, ConcatNil
<1>4. /\ RunNow = s /\ AfterNow = t
      /\ Run(Piece, Arg, 3, num_digit, sign, dump_digit_buf) = t
      /\ After(Piece, Arg, 3, num_digit, sign, dump_digit_buf) = <<>>
  <2>1. ZeroedRuns(Piece, Arg, num_digit, sign, dump_digit_buf)
    BY <1>1, ZeroRuns
  <2>2. QED
    BY <1>1, <2>1, DigitRuns
       DEF RunNow, AfterNow, Padding, ZeroedRuns
<1>5. Kept /\ Counts(Piece, state) /\ state' = IF is_fini' THEN 3 ELSE state
  <2>1. Kept
    BY <1>1 DEF Kept
  <2>2. Counts(Piece, state)
    BY <1>1 DEF Counts
  <2>3. state' = IF is_fini' THEN 3 ELSE state
    <3>1. 2 + 1 = 3
      OBVIOUS
    <3>2. QED
      BY <1>1, <3>1
  <2>4. QED
    BY <2>1, <2>2, <2>3
<1> HIDE DEF s, t
<1>6. QED
  BY <1>1, <1>2, <1>3, <1>4, <1>5, NextRunPrints

\* The sign, with r behind it.
LEMMA SignPrints ==
  ASSUME Printing, PrintedInv, Kept, UNCHANGED number, pc = "run",
         format_index < Len(f), Piece.type \in Numbers,
         UNCHANGED <<format_index, arg_index>>,
         NEW stage \in 1..2, Sign(stage), state = stage,
         stage # (IF Piece.zero THEN 2 ELSE 1), char_index' \in {0, char_index},
         NEW r \in Seq(Output), RunNow = Fill("-", sign), AfterNow = r,
         NEW t \in Seq(Output), NEW u,
         Run(Piece, Arg, stage + 1, num_digit, sign, dump_digit_buf) = t,
         After(Piece, Arg, stage + 1, num_digit, sign, dump_digit_buf) = u,
         t \o u = r
  PROVE  PrintedInv'
<1> DEFINE minus == Fill("-", sign)
           all == UpTo(format_index + 1)
<1>1. sign \in {0, 1} /\ char_index = 0
  BY NumberNow
<1>2. minus \in Seq(Output) /\ Len(minus) = sign
  BY <1>1, MinusIs
<1>3. OutputInv /\ char_index' = 0
  BY <1>1 DEF PrintedInv
<1>4. LeftOf(RunNow, AfterNow, char_index) = minus \o r
  BY <1>1, <1>2, LeftAll
<1>5. Owed(UnsignedFits, Printed, minus \o r, all) /\ minus \o r \in Seq(Output)
  BY <1>3, <1>4, OutputNow
<1>6. Same /\ sent' = sent
  BY KeptSame
<1>7. /\ RunNow' = Run(Piece, Arg, state', num_digit, sign, dump_digit_buf)
      /\ AfterNow' = After(Piece, Arg, state', num_digit, sign, dump_digit_buf)
  BY <1>6 DEF RunNow, AfterNow, Piece, Arg, Same, number
<1>8. CASE sign = 1 /\ Room = 0
  <2>1. is_fini' = FALSE /\ pc' = "idle" /\ dst' = dst /\ state' = state
    BY <1>8 DEF Sign
  <2>2. RunNow' = minus /\ AfterNow' = r /\ Printed' = Printed
    BY <1>6, <1>7, <2>1 DEF RunNow, AfterNow, Printed
  <2>3. LeftOf(RunNow', AfterNow', char_index') = minus \o r
    BY <1>2, <1>3, <2>2, LeftAll
  <2>4. char_index' <= Len(RunNow') /\ ~(char_index' > 0)
    BY <1>1, <1>2, <1>3, <2>2
  <2> HIDE DEF minus
  <2>5. OutputInv'
    BY <1>5, <1>6, <2>2, <2>3, <2>4, WithinPiece
  <2>6. Len(dst') = dstlen
    BY <1>8, <2>1, PrintingType DEF Room
  <2>7. QED
    BY <2>1, <2>5, <2>6, StagePrints
<1>9. CASE ~(sign = 1 /\ Room = 0)
  <2>1. /\ dst' = IF sign = 1 THEN Append(dst, "-") ELSE dst
        /\ state' = stage + 1 /\ pc' = pc
    BY <1>9 DEF Sign
  <2>2. sent \in Seq(Output) /\ dst \in Seq(Output)
    BY PrintingType DEF Printing, IInv, TypeOK
  <2>3. dst' = dst \o minus
    <3>1. CASE sign = 1
      <4>1. dst' = Append(dst, "-") /\ minus = <<"-">>
        BY <2>1, <3>1, MinusIs
      <4>2. Append(dst, "-") = dst \o <<"-">>
        BY <2>2
      <4>3. QED
        BY <4>1, <4>2
    <3>2. CASE sign = 0
      BY <2>1, <2>2, <3>2, MinusIs, ConcatNil
    <3>3. QED
      BY <1>1, <3>1, <3>2
  <2>4. RunNow' = t /\ AfterNow' = u
    BY <1>7, <2>1
  <2>5. LeftOf(RunNow', AfterNow', char_index') = r
    BY <1>3, <2>4, LeftAll
  <2>6. char_index' <= Len(RunNow') /\ ~(char_index' > 0)
    BY <1>3, <2>4, LenProperties
  <2> HIDE DEF minus
  <2>7. Printed \in Seq(Output)
    BY <2>2, ConcatType DEF Printed
  <2>8. Associates(sent, dst, minus) /\ Associates(Printed, minus, r)
    BY <1>2, <2>2, <2>7, ConcatAssociates
  <2>9. Printed' = Printed \o minus
    BY <1>6, <2>3, <2>8 DEF Printed, Associates
  <2>10. Owed(UnsignedFits, Printed', r, all)
    BY <1>5, <2>8, <2>9 DEF Owed, Associates
  <2>11. OutputInv'
    BY <1>6, <2>5, <2>6, <2>10, WithinPiece
  <2>12. QED
    BY <2>1, <2>11, StagePrints
<1>10. QED
  BY <1>8, <1>9

LEMMA SignBeforeZerosPrints ==
  ASSUME Printing, PrintedInv, SignBeforeZeros, UNCHANGED build
  PROVE  PrintedInv'
<1> DEFINE t == Fill("0", Padding)
           u == Reversed(dump_digit_buf, num_digit)
           r == t \o u
<1>1. /\ pc = "run" /\ format_index < Len(f) /\ Piece.type \in Numbers
      /\ state = 1 /\ Piece.zero /\ Sign(1)
      /\ UNCHANGED <<format_index, arg_index>> /\ UNCHANGED number
      /\ UNCHANGED <<char_index, args, dstlen, sent>>
  BY DEF SignBeforeZeros, At, inputs
<1>2. t \in Seq(Output) /\ u \in Seq(Output)
  BY <1>1, NumberNow, NumberParts DEF Padding
<1>3. r \in Seq(Output)
  BY <1>2, ConcatType
<1>4. /\ RunNow = Fill("-", sign) /\ AfterNow = r
      /\ Run(Piece, Arg, 2, num_digit, sign, dump_digit_buf) = t
      /\ After(Piece, Arg, 2, num_digit, sign, dump_digit_buf) = u
  <2>1. ZeroedRuns(Piece, Arg, num_digit, sign, dump_digit_buf)
    BY <1>1, ZeroRuns
  <2>2. QED
    BY <1>1, <2>1
       DEF RunNow, AfterNow, Padding, ZeroedRuns
<1>5. Kept /\ 1 # (IF Piece.zero THEN 2 ELSE 1) /\ 1 \in 1..2 /\ 1 + 1 = 2
  BY <1>1 DEF Kept
<1> HIDE DEF t, u
<1>6. char_index' \in {0, char_index}
  BY <1>1
<1>7. QED
  BY <1>1, <1>2, <1>3, <1>4, <1>5, <1>6, SignPrints

LEMMA SignBehindSpacesPrints ==
  ASSUME Printing, PrintedInv, SignBehindSpaces, UNCHANGED build
  PROVE  PrintedInv'
<1> DEFINE t == Reversed(dump_digit_buf, num_digit)
<1>1. /\ pc = "run" /\ format_index < Len(f) /\ Piece.type \in Numbers
      /\ state = 2 /\ ~Piece.zero /\ Sign(2)
      /\ char_index' \in {0, char_index}
      /\ UNCHANGED <<format_index, arg_index>> /\ UNCHANGED number
      /\ UNCHANGED <<args, dstlen, sent>>
  BY DEF SignBehindSpaces, At, inputs
<1>2. t \in Seq(Output)
  BY <1>1, NumberNow, NumberParts
<1>3. t \o <<>> = t
  BY <1>2, ConcatNil
<1>4. /\ RunNow = Fill("-", sign) /\ AfterNow = t
      /\ Run(Piece, Arg, 3, num_digit, sign, dump_digit_buf) = t
      /\ After(Piece, Arg, 3, num_digit, sign, dump_digit_buf) = <<>>
  <2>1. SpacedRuns(Piece, Arg, num_digit, sign, dump_digit_buf)
    BY <1>1, SpaceRuns
  <2>2. /\ Run(Piece, Arg, 2, num_digit, sign, dump_digit_buf) = Fill("-", sign)
        /\ After(Piece, Arg, 2, num_digit, sign, dump_digit_buf) = t
    BY <2>1 DEF SpacedRuns
  <2>3. /\ Run(Piece, Arg, 3, num_digit, sign, dump_digit_buf) = t
        /\ After(Piece, Arg, 3, num_digit, sign, dump_digit_buf) = <<>>
    BY <1>1, DigitRuns
  <2>4. QED
    BY <1>1, <2>2, <2>3 DEF RunNow, AfterNow
<1>5. Kept /\ 2 # (IF Piece.zero THEN 2 ELSE 1) /\ 2 \in 1..2 /\ 2 + 1 = 3
  BY <1>1 DEF Kept
<1> HIDE DEF t
<1>6. QED
  BY <1>1, <1>2, <1>3, <1>4, <1>5, SignPrints

LEMMA NumberDigitsPrint ==
  ASSUME Printing, PrintedInv, NumberDigits, UNCHANGED build
  PROVE  PrintedInv'
<1> DEFINE s == Reversed(dump_digit_buf, num_digit)
           fits == UnsignedFits
           all == UpTo(format_index + 1)
<1>1. /\ pc = "run" /\ format_index < Len(f) /\ Piece.type \in Numbers
      /\ state = 3
      /\ Write(s)
      /\ is_fini' = (num_digit <= Room)
      /\ num_digit' = IF is_fini' THEN num_digit ELSE num_digit - Room
      /\ pc' = IF is_fini' THEN "run" ELSE "idle"
      /\ IF is_fini' THEN NextPiece ELSE UNCHANGED place
      /\ UNCHANGED <<char_index, sign, dump_digit_buf, rest, args, dstlen, sent>>
  BY DEF NumberDigits, At, inputs, Reversed
<1>2. /\ dump_digit_buf \in Seq(Output) /\ num_digit \in 0..Len(dump_digit_buf)
      /\ char_index = 0 /\ num_digit \in Nat
  BY <1>1, NumberNow
<1>3. s \in Seq(Output) /\ Len(s) = num_digit
  BY <1>2, ReversedType
<1>4. RunNow = s /\ AfterNow = <<>>
  BY <1>1, DigitRuns DEF RunNow, AfterNow
<1>5. label' = label /\ f' = f /\ args' = args /\ label = "print" /\ Same
  BY <1>1 DEF build, Same, Printing
<1> DEFINE rst == SubSeq(s, Room + 1, Len(s))
<1> HIDE DEF s, fits, all
<1>6. LeftOf(RunNow, AfterNow, char_index) = s \o <<>> /\ <<>> \in Seq(Output)
  BY <1>2, <1>3, <1>4, LeftAll, EmptySeq
<1>7. Owed(fits, Printed, s \o <<>>, all)
  BY <1>1, <1>6, OutputNow DEF PrintedInv, fits, all
<1>8. /\ Printed' \in Seq(Output)
      /\ Len(s) <= Room => Moved(Printed, s \o <<>>, Printed', <<>>)
      /\ ~(Len(s) <= Room) =>
           /\ Len(dst') = dstlen
           /\ Moved(Printed, s \o <<>>, Printed', rst \o <<>>)
  BY <1>1, <1>3, <1>6, WritePrints
<1>9. ConvertInv' /\ Len(dump_digit_buf)' <= DigitBuf /\ label' = "print"
  BY <1>1, <1>5 DEF ConvertInv, PrintedInv
<1>10. CASE is_fini'
  <2>1. NextPiece /\ Len(s) <= Room
    BY <1>1, <1>3, <1>10
  <2>2. /\ format_index' \in 0..Len(f) /\ arg_index' = Rank(format_index')
        /\ state' = 0 /\ format_index' = format_index + 1
    BY <1>1, <2>1, NextPieceOK DEF NextPiece
  <2>3. Owed(UnsignedFits, Printed', <<>>, UpTo(format_index'))
    BY <1>7, <1>8, <2>1, <2>2 DEF fits, all, Owed, Moved
  <2>4. Supplied
    BY PrintingSupplied
  <2>5. OutputInv'
    BY <1>1, <1>2, <1>5, <1>8, <2>2, <2>3, <2>4, AtBeginning
  <2>6. FlagInv'
    BY <1>1, <1>10 DEF FlagInv
  <2>7. QED
    BY <1>9, <2>5, <2>6 DEF PrintedInv
<1>11. CASE ~is_fini'
  <2>1. UNCHANGED <<format_index, arg_index, state>> /\ ~(Len(s) <= Room)
    BY <1>1, <1>3, <1>11 DEF place
  <2>2. Room \in 0..num_digit /\ num_digit' = num_digit - Room
    BY <1>1, <1>2, <1>3, <1>11, <2>1, PrintingType
  <2>3. rst = Reversed(dump_digit_buf, num_digit')
    BY <1>2, <1>3, <2>2, ReversedRest DEF s
  <2>4. num_digit' \in 0..Len(dump_digit_buf)
    BY <1>2, <2>2
  <2>5. rst \in Seq(Output)
    BY <1>2, <2>3, <2>4, ReversedType
  <2>6. RunNow' = rst /\ AfterNow' = <<>>
    <3>1. /\ RunNow' = Run(Piece, Arg, 3, num_digit', sign', dump_digit_buf')
          /\ AfterNow' = After(Piece, Arg, 3, num_digit', sign', dump_digit_buf')
      BY <1>1, <1>5, <2>1 DEF RunNow, AfterNow, Piece, Arg
    <3> HIDE DEF rst
    <3>2. QED
      BY <1>1, <2>3, <3>1, DigitRuns
  <2> HIDE DEF rst
  <2>7. LeftOf(RunNow', AfterNow', char_index') = rst \o <<>>
    BY <1>1, <1>2, <2>5, <2>6, LeftAll
  <2>8. rst \o <<>> \in Seq(Output) /\ Owed(fits, Printed', rst \o <<>>, all)
    <3>1. rst \o <<>> \in Seq(Output)
      BY <2>5, ConcatNil
    <3>2. QED
      BY <1>7, <1>8, <2>1, <3>1 DEF Owed, Moved
  <2>9. char_index' <= Len(RunNow') /\ ~(char_index' > 0)
    BY <1>1, <1>2, <2>5, <2>6, LenProperties
  <2>10. OutputInv'
    BY <1>1, <1>5, <2>1, <2>7, <2>8, <2>9, WithinPiece DEF fits, all
  <2>11. FlagInv'
    BY <1>1, <1>8, <1>11, <2>1 DEF FlagInv
  <2>12. QED
    BY <1>9, <2>10, <2>11 DEF PrintedInv
<1>12. QED
  BY <1>10, <1>11

-----------------------------------------------------------------------------
(* The digits of a number.                                                 *)

\* Ints, and longs in base 16, have no more digits than dump_digit_buf.
LEMMA DigitsFit ==
  ASSUME NEW p \in Formats, NEW a \in ArgsFor(p), p.type \in Numbers,
         ~(p.type \in {"d", "u"} /\ p.long > 0)
  PROVE  Len(NumeralOf(Magnitude(Value(p, a.u)), Base(p))) <= DigitBuf
<1> DEFINE n == Magnitude(Value(p, a.u))
<1>1. 10 \in Bases /\ 16 \in Bases /\ Base(p) \in Bases /\ 10 <= Base(p)
  BY DEF Base, Bases
<1>2. /\ IntMax \in Nat /\ LongMax \in Nat /\ DigitBuf \in Nat
      /\ Ints \subseteq -(IntMax + 1)..IntMax /\ Longs \subseteq -LongMax..LongMax
  BY SprintfAssumption
<1>3. a.u \in IF p.long = 0 THEN Ints ELSE Longs
  BY NumberOf
<1>4. CASE p.long = 0
  <2>1. a.u \in Int /\ -(IntMax + 1) <= a.u /\ a.u <= IntMax
    <3>1. a.u \in Ints
      BY <1>3, <1>4
    <3>2. a.u \in -(IntMax + 1)..IntMax
      BY Zenon, <1>2, <3>1
    <3>3. IntMax \in Nat
      BY <1>2
    <3>4. QED
      BY <3>2, <3>3
  <2>2. Value(p, a.u) = a.u \/ Value(p, a.u) = Unsigned(a.u, IntMax)
    BY <1>4 DEF Value
  <2>3. n \in 0..(2 * IntMax + 1) /\ 2 * IntMax + 1 \in Nat
    BY <1>2, <2>1, <2>2 DEF Unsigned, Magnitude
  <2> HIDE DEF n
  <2>4. Len(NumeralOf(n, Base(p))) <= Len(NumeralOf(2 * IntMax + 1, 10))
    BY <1>1, <2>3, ShorterNumeral
  <2>5. /\ Len(NumeralOf(n, Base(p))) \in Nat
        /\ Len(NumeralOf(2 * IntMax + 1, 10)) \in Nat
    BY <1>1, <2>3, NumeralLength
  <2>6. QED
    BY <1>2, <2>4, <2>5, DigitsAssumption DEF n
<1>5. CASE p.type = "x" /\ p.long # 0
  <2>1. a.u \in Int /\ -LongMax <= a.u /\ a.u <= LongMax
    <3>1. a.u \in Longs
      BY <1>3, <1>5
    <3>2. a.u \in -LongMax..LongMax
      BY Zenon, <1>2, <3>1
    <3>3. LongMax \in Nat
      BY <1>2
    <3>4. QED
      BY <3>2, <3>3
  <2>2. Value(p, a.u) = Unsigned(a.u, LongMax) /\ Base(p) = 16
    BY <1>5 DEF Value, Base
  <2>3. n \in 0..(2 * LongMax + 1) /\ 2 * LongMax + 1 \in Nat
    BY <1>2, <2>1, <2>2 DEF Unsigned, Magnitude
  <2> HIDE DEF n
  <2>4. Len(NumeralOf(n, 16)) <= Len(NumeralOf(2 * LongMax + 1, 16))
    BY <1>1, <2>3, ShorterNumeral
  <2>5. /\ Len(NumeralOf(n, 16)) \in Nat
        /\ Len(NumeralOf(2 * LongMax + 1, 16)) \in Nat
    BY <1>1, <2>3, NumeralLength
  <2>6. QED
    BY <1>2, <2>2, <2>4, <2>5, DigitsAssumption DEF n
<1>6. p.long \in 0..2
  BY DEF Formats
<1>7. QED
  BY <1>4, <1>5, <1>6 DEF Numbers

\* A number that fits is shown as its stages print it.
LEMMA NumberRendered ==
  ASSUME NEW p \in Formats, NEW a \in ArgsFor(p), p.type \in Numbers,
         p.type = "u" /\ p.long > 0 => a.u >= 0,
         NEW buf \in Seq(Output), NEW sg,
         sg = IF Value(p, a.u) < 0 THEN 1 ELSE 0,
         NumeralOf(Magnitude(Value(p, a.u)), Base(p)) = Reversed(buf, Len(buf))
  PROVE  Rendered(p, a) = Run(p, a, 1, Len(buf), sg, buf)
                            \o After(p, a, 1, Len(buf), sg, buf)
<1> DEFINE n == IF p.type = "d" THEN a.u
                ELSE Unsigned(a.u, IF p.long = 0 THEN IntMax ELSE LongMax)
           minus == IF n < 0 THEN <<"-">> ELSE <<>>
           digits == NumeralOf(Magnitude(n), Base(p))
           missing == p.wid - Len(minus) - Len(digits)
           nd == Len(buf)
<1>1. n = Value(p, a.u)
  <2>1. a.u \in Int
    BY NumberOf
  <2>2. CASE p.type = "u" /\ p.long > 0
    BY <2>1, <2>2 DEF Value, Unsigned
  <2>3. CASE ~(p.type = "u" /\ p.long > 0)
    BY <2>3 DEF Value
  <2>4. QED
    BY <2>2, <2>3
<1>2. Rendered(p, a) = IF p.zero THEN minus \o Fill("0", missing) \o digits
                       ELSE Fill(" ", missing) \o minus \o digits
  BY DEF Rendered
<1>3. sg \in {0, 1} /\ n \in Int /\ p.wid \in Int /\ p.zero \in BOOLEAN
  BY <1>1, NumberOf
<1>4. minus = Fill("-", sg) /\ Len(minus) = sg
  BY <1>1, <1>3, MinusIs
<1>5. digits = Reversed(buf, nd)
  BY <1>1
<1>6. nd \in 0..Len(buf) /\ nd \in Nat
  BY LenProperties
<1> HIDE DEF n, minus, digits
<1>7. Len(digits) = nd /\ digits \in Seq(Output)
  BY <1>5, <1>6, ReversedType
<1>8. missing = p.wid - (nd + sg)
  BY SMTT(30), <1>3, <1>4, <1>6, <1>7
<1> HIDE DEF missing
<1>9. /\ Fill(" ", missing) \in Seq(Output) /\ Fill("0", missing) \in Seq(Output)
      /\ minus \in Seq(Output)
  BY <1>3, <1>4, <1>6, <1>8, NumberParts
<1> HIDE DEF nd
<1>10. CASE p.zero
  <2>1. Rendered(p, a) = (minus \o Fill("0", missing)) \o digits
    BY <1>2, <1>10
  <2>2. /\ Run(p, a, 1, nd, sg, buf) = minus
        /\ After(p, a, 1, nd, sg, buf) = Fill("0", missing) \o digits
    <3>1. ZeroedRuns(p, a, nd, sg, buf)
      BY <1>10, ZeroRuns
    <3>2. QED
      BY <1>4, <1>5, <1>8, <3>1 DEF ZeroedRuns
  <2>3. Associates(minus, Fill("0", missing), digits)
    BY <1>7, <1>9, ConcatAssociates
  <2>4. QED
    BY <2>1, <2>2, <2>3 DEF Associates, nd
<1>11. CASE ~p.zero
  <2>1. Rendered(p, a) = (Fill(" ", missing) \o minus) \o digits
    BY <1>2, <1>11
  <2>2. /\ Run(p, a, 1, nd, sg, buf) = Fill(" ", missing)
        /\ After(p, a, 1, nd, sg, buf) = minus \o digits
    <3>1. SpacedRuns(p, a, nd, sg, buf)
      BY <1>11, SpaceRuns
    <3>2. QED
      BY <1>4, <1>5, <1>8, <3>1 DEF SpacedRuns
  <2>3. Associates(Fill(" ", missing), minus, digits)
    BY <1>7, <1>9, ConcatAssociates
  <2>4. QED
    BY <2>1, <2>2, <2>3 DEF Associates, nd
<1>12. QED
  BY <1>10, <1>11

\* While the digits are converted nothing is printed.
LEMMA Unstarted ==
  ASSUME NEW p, p.type \in Numbers, NEW a, NEW nd, NEW sg, NEW buf
  PROVE  Run(p, a, 0, nd, sg, buf) = Rendered(p, a) /\ After(p, a, 0, nd, sg, buf) = <<>>
<1>1. p.type # "s" /\ p.type # "c" /\ p.type # "ordinary"
  BY DEF Numbers
<1>2. Run(p, a, 0, nd, sg, buf) = Rendered(p, a)
  BY <1>1 DEF Run
<1>3. After(p, a, 0, nd, sg, buf) = <<>>
  BY <1>1 DEF After
<1>4. QED
  BY <1>2, <1>3

LEMMA ConvertingPrints ==
  ASSUME Same, PrintedInv, format_index < Len(f), Piece.type \in Numbers,
         state = 0,
         UNCHANGED <<format_index, arg_index, state, char_index, dst, sent>>
  PROVE  OutputInv'
<1>1. Printing /\ OutputInv
  BY DEF Same, PrintedInv
<1>2. Piece' = Piece /\ Arg' = Arg /\ Printed' = Printed
  BY DEF Same, Piece, Arg, Printed
<1>3. RunNow = Rendered(Piece, Arg) /\ AfterNow = <<>>
  BY Unstarted DEF RunNow, AfterNow
<1>4. RunNow' = Rendered(Piece, Arg) /\ AfterNow' = <<>>
  <2>1. /\ RunNow' = Run(Piece, Arg, 0, num_digit', sign', dump_digit_buf')
        /\ AfterNow' = After(Piece, Arg, 0, num_digit', sign', dump_digit_buf')
    BY <1>2 DEF RunNow, AfterNow
  <2>2. QED
    BY <2>1, Unstarted
<1>5. RunNow' = RunNow /\ AfterNow' = AfterNow
  BY <1>3, <1>4
<1>6. /\ char_index' <= Len(RunNow')
      /\ char_index' > 0 => Counts(Piece, state')
      /\ LeftOf(RunNow', AfterNow', char_index') \in Seq(Output)
      /\ Owed(UnsignedFits, Printed', LeftOf(RunNow', AfterNow', char_index'),
              UpTo(format_index + 1))
  BY <1>1, <1>2, <1>5, OutputNow
<1>7. QED
  BY <1>6, WithinPiece

LEMMA StartNumberPrints ==
  ASSUME Printing, PrintedInv, StartNumber, UNCHANGED build
  PROVE  PrintedInv'
<1> DEFINE v == Value(Piece, Arg.u)
           b == Base(Piece)
<1>1. /\ pc = "run" /\ format_index < Len(f) /\ Piece.type \in Numbers
      /\ state = 0 /\ pc' = "convert"
      /\ sign' = IF v < 0 THEN 1 ELSE 0
      /\ rest' = Magnitude(v)
      /\ dump_digit_buf' = IF v = 0 THEN <<"0">> ELSE <<>>
      /\ UNCHANGED <<format_index, arg_index, state, char_index, num_digit,
                     dst, is_fini, args, dstlen, sent>>
  BY DEF StartNumber, At, place, inputs
<1>2. Same /\ Piece' = Piece /\ Arg' = Arg
  BY <1>1 DEF build, Same, Piece, Arg
<1>3. OutputInv'
  BY <1>1, <1>2, ConvertingPrints
<1>4. v \in Int /\ b \in Bases
  BY <1>1, NumberNow, NumberOf
<1> HIDE DEF v, b
<1>5. dump_digit_buf' \in {<<>>, <<"0">>}
  BY <1>1
<1>6. /\ Reversed(<<>>, Len(<<>>)) = <<>>
      /\ Reversed(<<"0">>, Len(<<"0">>)) = <<"0">>
  <2>1. [k \in 1..0 |-> <<>>[0 + 1 - k]] = <<>>
    OBVIOUS
  <2>2. [k \in 1..1 |-> <<"0">>[1 + 1 - k]] = <<"0">>
    OBVIOUS
  <2>3. Len(<<>>) = 0 /\ Len(<<"0">>) = 1
    OBVIOUS
  <2>4. QED
    BY <2>1, <2>2, <2>3 DEF Reversed
<1>7. NumeralOf(Magnitude(v), b)
        = (IF rest' = 0 THEN <<>> ELSE NumeralOf(rest', b))
            \o Reversed(dump_digit_buf', Len(dump_digit_buf'))
  <2>1. CASE v = 0
    <3>1. rest' = 0 /\ dump_digit_buf' = <<"0">> /\ Magnitude(v) = 0
      BY <1>1, <2>1 DEF Magnitude
    <3>2. 0 < b /\ Digits[0 + 1] = "0"
      BY <1>4 DEF Bases, Digits
    <3>3. NumeralOf(0, b) = <<Digits[0 + 1]>>
      BY <1>4, <3>2, NumeralIs
    <3>4. NumeralOf(0, b) = <<"0">>
      BY <3>2, <3>3
    <3>5. "0" \in Output
      BY SpecialOutput
    <3>6. <<"0">> \in Seq(Output)
      BY <3>5
    <3>7. <<>> \o <<"0">> = <<"0">>
      BY <3>6, ConcatNil
    <3>8. QED
      BY <1>6, <3>1, <3>4, <3>7
  <2>2. CASE v # 0
    <3>1. rest' # 0 /\ dump_digit_buf' = <<>> /\ rest' = Magnitude(v) /\ rest' \in Nat
      BY <1>1, <1>4, <2>2 DEF Magnitude
    <3>2. NumeralOf(rest', b) \in Seq(Output)
      BY <1>4, <3>1, NumeralType
    <3>3. NumeralOf(rest', b) \o <<>> = NumeralOf(rest', b)
      BY <3>2, ConcatNil
    <3>4. QED
      BY <1>6, <3>1, <3>3
  <2>3. QED
    BY <2>1, <2>2
<1>8. ConvertInv'
  BY <1>1, <1>2, <1>7 DEF ConvertInv, v, b
<1>9. FlagInv' /\ label' = "print"
  BY <1>1, <1>2 DEF FlagInv, Same, Printing
<1>10. Len(dump_digit_buf)' <= DigitBuf
  <2>1. Len(NumeralOf(2 * IntMax + 1, 10)) \in Nat \ {0}
    BY SprintfAssumption, NumeralLength DEF Bases
  <2>2. DigitBuf \in Nat \ {0}
    BY <2>1, SprintfAssumption, DigitsAssumption
  <2>3. Len(<<>>) = 0 /\ Len(<<"0">>) = 1
    OBVIOUS
  <2>4. Len(dump_digit_buf') \in {0, 1}
    BY <1>5, <2>3
  <2>5. QED
    BY <2>2, <2>4
<1>11. QED
  BY <1>3, <1>8, <1>9, <1>10 DEF PrintedInv

LEMMA ConvertDigitPrints ==
  ASSUME Printing, PrintedInv, ConvertDigit, UNCHANGED build
  PROVE  PrintedInv'
<1> DEFINE v == Value(Piece, Arg.u)
           b == Base(Piece)
           digit == Digits[(rest % b) + 1]
           buf == dump_digit_buf
           new == dump_digit_buf'
           s == IF rest' = 0 THEN <<>> ELSE NumeralOf(rest', b)
           t == Reversed(buf, Len(buf))
<1>1. /\ pc = "convert" /\ rest > 0
      /\ dump_digit_buf' = Append(dump_digit_buf, Digits[(rest % Base(Piece)) + 1])
      /\ rest' = rest \div Base(Piece)
      /\ UNCHANGED <<pc, format_index, arg_index, state, char_index, num_digit,
                     sign, dst, is_fini, args, dstlen, sent>>
  BY DEF ConvertDigit, place, inputs
<1>2. /\ format_index < Len(f) /\ Piece.type \in Numbers /\ state = 0
      /\ rest \in Nat /\ buf \in Seq(Output)
  BY <1>1 DEF Printing, IInv, TypeOK, NumberInv
<1>3. Same /\ Piece' = Piece /\ Arg' = Arg
  BY <1>1 DEF build, Same, Piece, Arg
<1>4. OutputInv'
  BY <1>1, <1>2, <1>3, ConvertingPrints
<1>5. Piece \in Formats /\ Arg \in ArgsFor(Piece)
  BY <1>2, ArgOfPiece DEF IsConversion, Numbers
<1>6. b \in Bases
  BY <1>2, <1>5, NumberOf
<1>7. /\ sign = IF v < 0 THEN 1 ELSE 0
      /\ NumeralOf(Magnitude(v), b) = NumeralOf(rest, b) \o t
  <2>1. rest # 0
    BY <1>1, <1>2
  <2>2. QED
    BY <1>1, <2>1 DEF PrintedInv, ConvertInv
<1>8. digit \in Output /\ rest' \in Nat /\ new = Append(buf, digit)
  <2>1. (rest % b) + 1 \in 1..16 /\ rest \div b \in Nat
    BY <1>2, <1>6, Quotient
  <2>2. QED
    BY <1>1, <2>1, SpecialOutput
<1>9. NumeralOf(rest, b) = s \o <<digit>>
  <2>1. b \in Nat /\ (rest < b \/ rest >= b)
    BY <1>2, <1>6 DEF Bases
  <2>2. CASE rest < b
    <3>1. rest' = 0 /\ digit = Digits[rest + 1]
      BY <1>1, <1>2, <1>6, <2>2, Quotient
    <3>2. NumeralOf(rest, b) = <<Digits[rest + 1]>>
      BY <1>2, <1>6, <2>2, NumeralIs
    <3>3. s = <<>>
      BY <3>1
    <3> HIDE DEF s, digit
    <3>4. <<digit>> \in Seq(Output)
      BY <1>8
    <3>5. <<>> \o <<digit>> = <<digit>>
      BY <3>4, ConcatNil
    <3>6. QED
      BY <3>1, <3>2, <3>3, <3>5
  <2>3. CASE rest >= b
    <3>1. rest' # 0 /\ rest' = rest \div b
      BY <1>1, <1>2, <1>6, <2>3, Quotient
    <3>2. NumeralOf(rest, b) = Append(NumeralOf(rest \div b, b), digit)
      BY <1>2, <1>6, <2>3, NumeralIs
    <3>3. NumeralOf(rest', b) \in Seq(Output) /\ s = NumeralOf(rest', b)
      BY <1>6, <1>8, <3>1, NumeralType
    <3> HIDE DEF s, digit
    <3>4. Append(s, digit) = s \o <<digit>>
      BY <1>8, <3>3
    <3>5. QED
      BY <3>1, <3>2, <3>3, <3>4
  <2>4. QED
    BY <2>1, <2>2, <2>3
<1>10. s \in Seq(Output)
  BY <1>6, <1>8, NumeralType, EmptySeq
<1>11. t \in Seq(Output)
  <2>1. Len(buf) \in 0..Len(buf)
    BY <1>2, LenProperties
  <2>2. QED
    BY <1>2, <2>1, ReversedType
<1> HIDE DEF s, digit, b, v, buf, new
<1>12. Reversed(new, Len(new)) = <<digit>> \o t
  BY <1>2, <1>8, ReversedAppend
<1> HIDE DEF t
<1>13. NumeralOf(Magnitude(v), b) = s \o Reversed(new, Len(new))
  <2>1. <<digit>> \in Seq(Output)
    BY <1>8
  <2>2. Associates(s, <<digit>>, t)
    BY <1>10, <1>11, <2>1, ConcatAssociates
  <2>3. QED
    BY <1>7, <1>9, <1>12, <2>2 DEF Associates
<1>14. ConvertInv'
  BY <1>1, <1>3, <1>7, <1>13 DEF ConvertInv, v, b, s, new
<1>15. FlagInv' /\ label' = "print"
  BY <1>1, <1>3 DEF FlagInv, Same, Printing
<1>16. Len(dump_digit_buf)' <= DigitBuf
  <2>1. Len(buf) < DigitBuf
    BY DEF ConvertDigit, buf
  <2>2. Len(new) = Len(buf) + 1 /\ Len(buf) \in Nat
    BY <1>2, <1>8, AppendProperties, LenProperties
  <2>3. QED
    BY <2>1, <2>2, SprintfAssumption DEF new
<1>17. QED
  BY <1>4, <1>14, <1>15, <1>16 DEF PrintedInv

LEMMA OverrunPrints ==
  ASSUME Printing, PrintedInv, Overrun, UNCHANGED build
  PROVE  PrintedInv'
<1>1. /\ pc = "convert" /\ pc' = "overrun"
      /\ rest > 0 /\ Len(dump_digit_buf) = DigitBuf
      /\ UNCHANGED <<format_index, arg_index, state, char_index, num_digit,
                     sign, dump_digit_buf, rest, dst, is_fini, args, dstlen,
                     sent>>
  BY DEF Overrun, place, number, inputs
<1>2. Same /\ Piece' = Piece /\ Arg' = Arg
  BY <1>1 DEF build, Same, Piece, Arg
<1>3. format_index < Len(f) /\ Piece.type \in Numbers /\ state = 0
  BY <1>1 DEF Printing, IInv, NumberInv
<1>4. OutputInv'
  BY <1>1, <1>2, <1>3, ConvertingPrints
<1>5. ConvertInv'
  BY <1>1, <1>2 DEF PrintedInv, ConvertInv
<1>6. FlagInv' /\ label' = "print"
  BY <1>1, <1>2 DEF FlagInv, Same, Printing
<1>7. Len(dump_digit_buf)' <= DigitBuf
  BY <1>1 DEF PrintedInv
<1>8. QED
  BY <1>4, <1>5, <1>6, <1>7 DEF PrintedInv

LEMMA ConvertedPrints ==
  ASSUME Printing, PrintedInv, Converted, UNCHANGED build
  PROVE  PrintedInv'
<1> DEFINE buf == dump_digit_buf
           nd == Len(dump_digit_buf)
           t == Reversed(buf, nd)
           run == Run(Piece, Arg, 1, nd, sign, buf)
           after == After(Piece, Arg, 1, nd, sign, buf)
<1>1. /\ pc = "convert" /\ rest = 0 /\ pc' = "run" /\ state' = 1
      /\ num_digit' = Len(dump_digit_buf)
      /\ UNCHANGED <<format_index, arg_index, char_index, sign, dump_digit_buf,
                     rest, dst, is_fini, args, dstlen, sent>>
  BY DEF Converted, inputs
<1>2. /\ format_index < Len(f) /\ Piece.type \in Numbers /\ state = 0
      /\ buf \in Seq(Output) /\ sign \in {0, 1}
  BY <1>1 DEF Printing, IInv, TypeOK, NumberInv
<1>3. Same /\ Piece' = Piece /\ Arg' = Arg /\ Printed' = Printed
  BY <1>1 DEF build, Same, Piece, Arg, Printed
<1>4. Piece \in Formats /\ Arg \in ArgsFor(Piece)
  BY <1>2, ArgOfPiece DEF IsConversion, Numbers
<1>5. nd \in 0..Len(buf) /\ nd \in Nat
  BY <1>2, LenProperties
<1>6. t \in Seq(Output) /\ Len(t) = nd
  BY <1>2, <1>5, ReversedType
<1>7. OutputInv
  BY DEF PrintedInv
<1>8. char_index = 0
  <2>1. ~Counts(Piece, state)
    <3>1. 0 # (IF Piece.zero THEN 2 ELSE 1)
      OBVIOUS
    <3>2. QED
      BY <1>2, <3>1 DEF Counts, Numbers
  <2>2. QED
    BY <1>2, <1>7, <2>1, OutputNow, PrintingType
<1>9. RunNow = Rendered(Piece, Arg) /\ AfterNow = <<>>
  BY <1>2, Unstarted DEF RunNow, AfterNow
<1>10. Rendered(Piece, Arg) \in Seq(Output)
  BY <1>4, RenderedType
<1>11. LeftOf(RunNow, AfterNow, char_index) = Rendered(Piece, Arg)
  BY <1>8, <1>9, <1>10, LeftAll, ConcatNil
<1>12. Owed(UnsignedFits, Printed, Rendered(Piece, Arg), UpTo(format_index + 1))
  BY <1>2, <1>7, <1>11, OutputNow
<1>13. /\ sign = IF Value(Piece, Arg.u) < 0 THEN 1 ELSE 0
       /\ NumeralOf(Magnitude(Value(Piece, Arg.u)), Base(Piece)) = t
  BY <1>1, <1>6, ConcatNil DEF PrintedInv, ConvertInv
<1>14. ASSUME UnsignedFits PROVE Rendered(Piece, Arg) = run \o after
  <2>1. format_index + 1 \in 1..Len(f) /\ Piece = f[format_index + 1]
    BY <1>2, PrintingType DEF Piece
  <2>2. Arg = ArgOf(format_index + 1)
    BY <1>2, PrintingSupplied DEF IsConversion, Numbers
  <2>3. Piece.type = "u" /\ Piece.long > 0 => Arg.u >= 0
    BY <1>14, <2>1, <2>2 DEF UnsignedFits
  <2>4. QED
    BY <1>2, <1>4, <1>13, <2>3, NumberRendered
<1>15. /\ Fill(" ", Piece.wid - (nd + sign)) \in Seq(Output)
       /\ Fill("0", Piece.wid - (nd + sign)) \in Seq(Output)
       /\ Fill("-", sign) \in Seq(Output)
  BY <1>2, <1>4, <1>5, NumberParts
<1>16. run \in Seq(Output) /\ after \in Seq(Output)
  <2>1. CASE Piece.zero
    <3>1. ZeroedRuns(Piece, Arg, nd, sign, buf)
      BY <1>2, <2>1, ZeroRuns
    <3>2. QED
      BY <1>6, <1>15, <3>1, ConcatType DEF ZeroedRuns
  <2>2. CASE ~Piece.zero
    <3>1. SpacedRuns(Piece, Arg, nd, sign, buf)
      BY <1>2, <2>2, SpaceRuns
    <3>2. QED
      BY <1>6, <1>15, <3>1, ConcatType DEF SpacedRuns
  <2>3. QED
    BY <2>1, <2>2
<1>17. RunNow' = run /\ AfterNow' = after
  BY <1>1, <1>3 DEF RunNow, AfterNow
<1> HIDE DEF run, after
<1>18. LeftOf(RunNow', AfterNow', char_index') = run \o after
  BY <1>1, <1>8, <1>16, <1>17, LeftAll
<1>19. /\ run \o after \in Seq(Output)
       /\ Owed(UnsignedFits, Printed', run \o after, UpTo(format_index + 1))
  BY <1>3, <1>12, <1>14, <1>16, ConcatType DEF Owed
<1>20. char_index' <= Len(RunNow') /\ ~(char_index' > 0)
  BY <1>1, <1>8, <1>16, <1>17, LenProperties
<1>21. OutputInv'
  BY <1>1, <1>2, <1>3, <1>18, <1>19, <1>20, WithinPiece
<1>22. ConvertInv' /\ FlagInv' /\ label' = "print"
  BY <1>1, <1>3 DEF ConvertInv, FlagInv, Same, Printing
<1>23. Len(dump_digit_buf)' <= DigitBuf
  BY <1>1 DEF PrintedInv
<1>24. QED
  BY <1>21, <1>22, <1>23 DEF PrintedInv

-----------------------------------------------------------------------------
(* The output is complete and in order.                                    *)

\* Nothing is printed, and the place is the same.
LEMMA SameOutput ==
  ASSUME PrintedInv, label' = label, f' = f, args' = args, Printed' = Printed,
         UNCHANGED <<format_index, arg_index, state, char_index, num_digit,
                     sign, dump_digit_buf>>
  PROVE  OutputInv'
<1>1. /\ UnsignedFits' <=> UnsignedFits
      /\ UpTo(format_index + 1)' = UpTo(format_index + 1)
      /\ Whole' = Whole /\ Piece' = Piece /\ Arg' = Arg
  BY Fixed DEF UpTo, ArgOf, Rank, Piece, Arg
<1>2. /\ Run(Piece, Arg, state, num_digit, sign, dump_digit_buf)'
           = Run(Piece, Arg, state, num_digit, sign, dump_digit_buf)
      /\ Left(Piece, Arg, state, char_index, num_digit, sign, dump_digit_buf)'
           = Left(Piece, Arg, state, char_index, num_digit, sign, dump_digit_buf)
      /\ Counts(Piece, state)' <=> Counts(Piece, state)
  BY <1>1
<1>3. OutputInv
  BY DEF PrintedInv
<1>4. QED
  BY <1>1, <1>2, <1>3 DEF OutputInv

LEMMA FinishPrints ==
  ASSUME Printing, PrintedInv, Finish, UNCHANGED build
  PROVE  PrintedInv'
<1>1. /\ format_index = Len(f) /\ pc' = "idle" /\ is_fini' = TRUE
      /\ UNCHANGED <<format_index, arg_index, state, char_index, dst, args,
                     dstlen, sent, num_digit, sign, dump_digit_buf, label, f>>
  BY DEF Finish, place, number, inputs, build
<1>2. Printed' = Printed
  BY <1>1 DEF Printed
<1>3. OutputInv'
  BY <1>1, <1>2, SameOutput
<1>4. ConvertInv'
  BY <1>1 DEF ConvertInv
<1>5. FlagInv'
  <2>1. ~(format_index' < Len(f'))
    BY <1>1, PrintingType
  <2>2. QED
    BY <1>1, <2>1 DEF FlagInv
<1>6. QED
  BY <1>1, <1>3, <1>4, <1>5 DEF PrintedInv, Printing

LEMMA ClientPrints ==
  ASSUME IInv, PrintedInv, NEW n \in Lengths, Client(n)
  PROVE  PrintedInv'
<1>1. /\ label = "print" /\ pc = "idle" /\ pc' = "run"
      /\ sent' = sent \o dst /\ dst' = <<>>
      /\ UNCHANGED <<label, f, format_index, arg_index, state, char_index,
                     num_digit, sign, dump_digit_buf, args>>
  BY DEF Client, Call, build, place, number
<1>2. sent \in Seq(Output) /\ dst \in Seq(Output)
  BY DEF IInv, TypeOK
<1>3. sent \o dst \in Seq(Output)
  BY <1>2, ConcatType
<1>4. Printed' = Printed
  BY <1>1, <1>3, ConcatNil DEF Printed
<1>5. OutputInv'
  BY <1>1, <1>4, SameOutput
<1>6. ConvertInv' /\ FlagInv'
  BY <1>1 DEF ConvertInv, FlagInv
<1>7. QED
  BY <1>1, <1>5, <1>6 DEF PrintedInv

LEMMA StartPrints ==
  ASSUME IInv, PrintedInv, Start
  PROVE  PrintedInv'
<1>1. /\ label = "args" /\ label' = "print" /\ i = Len(f)
      /\ format_index' = 0 /\ arg_index' = 0 /\ state' = 0 /\ char_index' = 0
      /\ UNCHANGED <<f, pc, num_digit, sign, dump_digit_buf, dst, is_fini,
                     args, dstlen, sent>>
  BY DEF Start, Goto, number, inputs
<1>2. sent = <<>> /\ dst = <<>> /\ ~is_fini /\ pc = "idle"
  BY <1>1 DEF PrintedInv, IInv, StageInv
<1>3. <<>> \in Seq(Output)
  BY EmptySeq
<1>4. Printed' = <<>>
  BY <1>1, <1>2, <1>3, ConcatNil DEF Printed
<1>5. f \in Seq(Formats) /\ Len(f) \in Nat
  BY LenProperties DEF IInv, TypeOK, BuildTypeOK
<1>6. Supplied
  BY <1>1, <1>5 DEF Supplied, IInv, ArgsInv
<1>7. format_index' \in 0..Len(f) /\ arg_index' = Rank(format_index')
  BY <1>1, <1>5, RankZero
<1>8. Owed(UnsignedFits, Printed', <<>>, UpTo(format_index'))
  BY <1>1, <1>3, <1>4, UpToNone, ConcatNil DEF Owed
<1>9. OutputInv'
  BY <1>1, <1>3, <1>4, <1>6, <1>7, <1>8, AtBeginning
<1>10. ConvertInv' /\ FlagInv'
  BY <1>1, <1>2 DEF ConvertInv, FlagInv, PrintedInv
<1>11. QED
  BY <1>1, <1>9, <1>10 DEF PrintedInv

\* The parser and the collection of arguments print nothing.
LEMMA BeforePrinting ==
  ASSUME IInv, PrintedInv, label # "print", label' # "print", IInv',
         UNCHANGED <<dump_digit_buf, dst, dstlen, is_fini, sent>>
  PROVE  PrintedInv'
<1>1. pc = "idle" /\ pc' = "idle"
  BY DEF IInv, StageInv
<1>2. OutputInv' /\ ConvertInv' /\ FlagInv'
  BY <1>1 DEF OutputInv, ConvertInv, FlagInv, PrintedInv
<1>3. QED
  BY <1>2 DEF PrintedInv

LEMMA BuildPrints ==
  ASSUME IInv, PrintedInv, IInv',
         \/ BuildNext /\ UNCHANGED print
         \/ Built \/ BuildArg
  PROVE  PrintedInv'
<1>1. UNCHANGED <<dump_digit_buf, dst, dstlen, is_fini, sent>>
  BY DEF print, place, number, inputs, Built, BuildArg
<1>2. label # "print" /\ label' # "print"
  <2>1. CASE BuildNext
    <3>1. Building
      BY <2>1 DEF BuildNext, FormatStart, OrdStr, FmtNumber, FmtDigits,
                  FmtType, Goto, Building
    <3>2. BuildInv
      BY DEF IInv, TypeOK, StageInv, BuildInv
    <3>3. Building'
      BY <2>1, <3>2, FormatStartOK, OrdStrOK, FmtNumberOK, FmtDigitsOK,
         FmtTypeOK DEF BuildNext
    <3>4. QED
      BY <3>1, <3>3 DEF Building
  <2>2. CASE Built \/ BuildArg
    BY <2>2 DEF Built, BuildArg, Goto
  <2>3. QED
    BY <2>1, <2>2
<1>3. QED
  BY <1>1, <1>2, BeforePrinting

LEMMA StutterPrints ==
  ASSUME PrintedInv, UNCHANGED vars
  PROVE  PrintedInv'
<1>1. UNCHANGED <<text, label, i, f, zero, wid, pc, args, format_index,
                  arg_index, state, char_index, num_digit, sign, rest,
                  dump_digit_buf, dst, dstlen, is_fini, sent>>
  BY DEF vars, build, print, place, number, inputs
<1>2. Printed' = Printed /\ Piece' = Piece /\ Arg' = Arg
  BY <1>1 DEF Printed, Piece, Arg
<1>3. OutputInv'
  BY <1>1, <1>2, SameOutput
<1>4. ConvertInv' /\ FlagInv'
  BY <1>1, <1>2 DEF ConvertInv, FlagInv, PrintedInv
<1>5. QED
  BY <1>1, <1>3, <1>4 DEF PrintedInv

LEMMA PrintPrints ==
  ASSUME IInv, PrintedInv, PrintNext, UNCHANGED build
  PROVE  PrintedInv'
<1>1. Printing
  <2>1. pc # "idle"
    BY DEF PrintNext, StrPadding, Str, Ordinaries, Char, StartNumber,
           ConvertDigit, Overrun, Converted, SignBeforeZeros, Spaces, Zeros,
           SignBehindSpaces, NumberDigits, Finish, At
  <2>2. QED
    BY <2>1 DEF Printing, IInv, StageInv
<1>2. QED
  BY <1>1, StrPaddingPrints, StrPrints, OrdinariesPrint, CharPrints,
     StartNumberPrints, ConvertDigitPrints, OverrunPrints, ConvertedPrints,
     SignBeforeZerosPrints, SpacesPrint, ZerosPrint, SignBehindSpacesPrints,
     NumberDigitsPrint, FinishPrints DEF PrintNext

LEMMA PrintedInitially == Init => PrintedInv
<1> SUFFICES ASSUME Init PROVE PrintedInv
  OBVIOUS
<1>1. /\ label = "start" /\ pc = "idle" /\ dump_digit_buf = <<>>
      /\ dst = <<>> /\ dstlen = 0 /\ is_fini = FALSE /\ sent = <<>>
  BY DEF Init, BuildInit, PrintInit
<1>2. Len(<<>>) = 0
  BY EmptySeq
<1>3. Len(dump_digit_buf) <= DigitBuf
  BY <1>1, <1>2, SprintfAssumption
<1>4. OutputInv /\ ConvertInv /\ FlagInv
  BY <1>1, <1>2 DEF OutputInv, ConvertInv, FlagInv
<1>5. QED
  BY <1>1, <1>3, <1>4 DEF PrintedInv

LEMMA PrintedAlways == Spec => [](IInv /\ PrintedInv)
<1>1. Init => IInv /\ PrintedInv
  BY InitOK, PrintedInitially
<1>2. IInv /\ [Next]_vars => IInv'
  BY BuildStep, BuiltOK, BuildArgOK, StartOK, PrintStep, ClientOK, StutterOK
     DEF Next, Proceed
<1>3. IInv /\ PrintedInv /\ [Next]_vars => PrintedInv'
  <2> SUFFICES ASSUME IInv, PrintedInv, [Next]_vars PROVE PrintedInv'
    OBVIOUS
  <2>1. CASE (BuildNext /\ UNCHANGED print) \/ Built \/ BuildArg
    BY <1>2, <2>1, BuildPrints
  <2>2. CASE Start
    BY <2>2, StartPrints
  <2>3. CASE PrintNext /\ UNCHANGED build
    BY <2>3, PrintPrints
  <2>4. ASSUME NEW n \in Lengths, Client(n) PROVE PrintedInv'
    BY <2>4, ClientPrints
  <2>5. CASE UNCHANGED vars
    BY <2>5, StutterPrints
  <2>6. QED
    BY <2>1, <2>2, <2>3, <2>4, <2>5 DEF Next, Proceed
<1>4. QED
  BY <1>1, <1>2, <1>3, PTL DEF Spec

\* A sequence is a prefix of itself with something behind it.
LEMMA PrefixOfConcat ==
  ASSUME NEW s \in Seq(Output), NEW t \in Seq(Output)
  PROVE  IsPrefix(s, s \o t)
BY DEF IsPrefix

\* The digits that go beyond dump_digit_buf are those of a decimal long.
LEMMA OverrunOnlyThen ==
  ASSUME Printing, PrintedInv, pc = "overrun"
  PROVE  /\ Piece.type \in {"d", "u"} /\ Piece.long > 0
         /\ Len(NumeralOf(Magnitude(Arg.u), 10)) > DigitBuf
<1> DEFINE buf == dump_digit_buf
           b == Base(Piece)
           v == Value(Piece, Arg.u)
           s == NumeralOf(rest, b)
           t == Reversed(buf, Len(buf))
<1>1. /\ format_index < Len(f) /\ Piece.type \in Numbers
      /\ rest \in Nat /\ buf \in Seq(Output)
  BY DEF Printing, IInv, TypeOK, NumberInv
<1>2. Piece \in Formats /\ Arg \in ArgsFor(Piece)
  BY <1>1, ArgOfPiece DEF IsConversion, Numbers
<1>3. b \in Bases /\ v \in Int
  BY <1>1, <1>2, NumberOf
<1>4. rest > 0 /\ Len(buf) = DigitBuf
  BY DEF PrintedInv, ConvertInv
<1>5. NumeralOf(Magnitude(v), b) = s \o t
  <2>1. rest # 0
    BY <1>1, <1>4
  <2>2. QED
    BY <2>1 DEF PrintedInv, ConvertInv
<1>6. s \in Seq(Output) /\ Len(s) \in Nat \ {0}
  BY <1>1, <1>3, NumeralType, NumeralLength
<1>7. Len(buf) \in 0..Len(buf) /\ Len(buf) \in Nat
  BY <1>1, LenProperties
<1>8. t \in Seq(Output) /\ Len(t) = Len(buf)
  BY <1>1, <1>7, ReversedType
<1> HIDE DEF s, t, buf, b, v
<1>9. Len(s \o t) = Len(s) + Len(t)
  BY <1>6, <1>8, ConcatProperties
<1>10. Len(NumeralOf(Magnitude(v), b)) > DigitBuf
  BY <1>4, <1>5, <1>6, <1>7, <1>8, <1>9
<1>11. Piece.type \in {"d", "u"} /\ Piece.long > 0
  <2> SUFFICES ASSUME ~(Piece.type \in {"d", "u"} /\ Piece.long > 0) PROVE FALSE
    OBVIOUS
  <2>1. Len(NumeralOf(Magnitude(v), b)) <= DigitBuf
    BY <1>1, <1>2, DigitsFit DEF v, b
  <2>2. Len(NumeralOf(Magnitude(v), b)) = Len(s) + Len(t)
    BY <1>5, <1>9
  <2>3. QED
    BY <1>4, <1>6, <1>7, <1>8, <2>1, <2>2
<1>12. v = Arg.u /\ b = 10
  BY <1>11 DEF v, b, Value, Base
<1>13. QED
  BY <1>10, <1>11, <1>12

\* However the output is cut into buffers, every character comes once and in
\* its place, and no number but a decimal long of more digits than
\* dump_digit_buf has places is stored beyond it (npr/printf.c:87-220,
\* 252-332).
THEOREM OutputComes == Spec => []OutputInOrder
<1>1. IInv /\ PrintedInv => OutputInOrder
  <2> SUFFICES ASSUME IInv, PrintedInv PROVE OutputInOrder
    OBVIOUS
  <2>6. ASSUME pc = "overrun"
        PROVE  /\ Piece.type \in {"d", "u"} /\ Piece.long > 0
               /\ Len(NumeralOf(Magnitude(Arg.u), 10)) > DigitBuf
    <3>1. Printing
      BY <2>6 DEF Printing, IInv, StageInv
    <3>2. QED
      BY <2>6, <3>1, OverrunOnlyThen
  <2> SUFFICES ASSUME label = "print", UnsignedFits
               PROVE  IsPrefix(Printed, Whole)
    BY <2>6 DEF OutputInOrder
  <2>1. Printing
    BY DEF Printing
  <2>2. Printed \in Seq(Output)
    BY ConcatType DEF Printed, IInv, TypeOK
  <2>3. Supplied
    BY <2>1, PrintingSupplied
  <2>4. \E t \in Seq(Output) : Whole = Printed \o t
    <3>1. CASE format_index < Len(f)
      <4> DEFINE l == LeftOf(RunNow, AfterNow, char_index)
      <4>1. l \in Seq(Output) /\ Printed \o l = UpTo(format_index + 1)
        BY <2>1, <3>1, OutputNow DEF PrintedInv, Owed
      <4>2. format_index + 1 \in 0..Len(f)
        BY <2>1, <3>1, PrintingType
      <4> HIDE DEF l
      <4>3. PICK t \in Seq(Output) : Whole = UpTo(format_index + 1) \o t
        BY <2>3, <4>2, UpToEnd
      <4>4. Associates(Printed, l, t)
        BY <2>2, <4>1, ConcatAssociates
      <4>5. Whole = Printed \o (l \o t) /\ l \o t \in Seq(Output)
        BY <4>1, <4>3, <4>4, ConcatType DEF Associates
      <4>6. QED
        BY <4>5
    <3>2. CASE ~(format_index < Len(f))
      <4>1. Whole = Printed
        BY <3>2 DEF PrintedInv, OutputInv
      <4>2. Whole = Printed \o <<>> /\ <<>> \in Seq(Output)
        BY <2>2, <4>1, ConcatNil, EmptySeq
      <4>3. QED
        BY <4>2
    <3>3. QED
      BY <3>1, <3>2
  <2>5. QED
    BY <2>2, <2>4, PrefixOfConcat
<1>2. QED
  BY <1>1, PrintedAlways, PTL

\* If is_fini is not set, the buffer is full; if it is set, everything has
\* been printed, unless the function stopped at a single character
\* (npr/printf.c:234-344).
THEOREM FlagTells == Spec => []FlagIsRight
<1>1. IInv /\ PrintedInv => FlagIsRight
  <2> SUFFICES ASSUME IInv, PrintedInv, label = "print", pc = "idle"
               PROVE  /\ ~is_fini => Len(dst) = dstlen
                      /\ is_fini /\ UnsignedFits =>
                           \/ Printed = Whole
                           \/ /\ format_index < Len(f)
                              /\ Piece.type = "c"
                              /\ Len(dst) = dstlen
    BY DEF FlagIsRight
  <2>1. CASE format_index < Len(f)
    BY <2>1 DEF PrintedInv, FlagInv
  <2>2. CASE ~(format_index < Len(f))
    BY <2>2 DEF PrintedInv, FlagInv, OutputInv
  <2>3. QED
    BY <2>1, <2>2
<1>2. QED
  BY <1>1, PrintedAlways, PTL

-----------------------------------------------------------------------------
(* Decimal.                                                                *)

\* The function Decimal is defined with.
IsDecimal(g, s) ==
  g = [m \in 0..Len(s) |->
         IF m = 0 THEN 0 ELSE 10 * g[m - 1] + DigitValue[s[m]]]

\* The same, value by value, up to the first n.
DecimalTo(g, s, n) ==
  g[0] = 0 /\ \A m \in 1..n : g[m] = 10 * g[m - 1] + DigitValue[s[m]]

LEMMA DecimalValues ==
  ASSUME NEW g, NEW s, Len(s) \in Nat, IsDecimal(g, s)
  PROVE  DecimalTo(g, s, Len(s))
<1> DEFINE h == [m \in 0..Len(s) |->
                   IF m = 0 THEN 0 ELSE 10 * g[m - 1] + DigitValue[s[m]]]
<1>1. h[0] = 0
  OBVIOUS
<1>2. ASSUME NEW m \in 1..Len(s) PROVE h[m] = 10 * g[m - 1] + DigitValue[s[m]]
  OBVIOUS
<1>3. g = h
  BY DEF IsDecimal
<1> HIDE DEF h
<1>4. QED
  BY <1>1, <1>2, <1>3 DEF DecimalTo

LEMMA DecimalSame ==
  ASSUME NEW n \in Nat, NEW g, NEW h, NEW s, NEW t,
         DecimalTo(g, s, n), DecimalTo(h, t, n), \A m \in 1..n : s[m] = t[m]
  PROVE  \A m \in 0..n : g[m] = h[m]
<1> DEFINE T == {m \in Nat : m <= n => g[m] = h[m]}
<1>1. 0 \in T
  BY DEF DecimalTo
<1>2. ASSUME NEW k \in Nat, k \in T PROVE k + 1 \in T
  <2> SUFFICES ASSUME k + 1 <= n PROVE g[k + 1] = h[k + 1]
    OBVIOUS
  <2>1. g[k] = h[k] /\ k + 1 \in 1..n /\ (k + 1) - 1 = k
    BY <1>2
  <2>2. /\ g[k + 1] = 10 * g[(k + 1) - 1] + DigitValue[s[k + 1]]
        /\ h[k + 1] = 10 * h[(k + 1) - 1] + DigitValue[t[k + 1]]
    BY <2>1 DEF DecimalTo
  <2>3. s[k + 1] = t[k + 1]
    BY <2>1
  <2>4. QED
    BY <2>1, <2>2, <2>3, Zenon
<1>3. Nat \subseteq T
  BY <1>1, <1>2, SetInduction
<1>4. QED
  BY <1>3

LEMMA DecimalExists ==
  ASSUME NEW s, Len(s) \in Nat
  PROVE  \E g : IsDecimal(g, s)
<1> DEFINE Body(g, n) == [m \in 0..n |->
                            IF m = 0 THEN 0 ELSE 10 * g[m - 1] + DigitValue[s[m]]]
           T == {n \in Nat : \E g : g = Body(g, n)}
<1>1. 0 \in T
  <2> DEFINE g == [m \in 0..0 |-> 0]
  <2>1. g = Body(g, 0)
    OBVIOUS
  <2> HIDE DEF g, Body
  <2>2. QED
    BY <2>1
<1>2. ASSUME NEW n \in Nat, n \in T PROVE n + 1 \in T
  <2>1. PICK g : g = Body(g, n)
    BY <1>2
  <2> DEFINE e == Body(g, n + 1)
  <2>2. ASSUME NEW m \in 0..n PROVE e[m] = g[m]
    <3>1. e[m] = Body(g, n)[m]
      OBVIOUS
    <3> HIDE DEF Body, e
    <3>2. QED
      BY <2>1, <3>1
  <2>3. ASSUME NEW m \in 0..(n + 1), m # 0 PROVE g[m - 1] = e[m - 1]
    <3>1. m - 1 \in 0..n
      BY <2>3
    <3> HIDE DEF e
    <3>2. QED
      BY <2>2, <3>1
  <2>4. ASSUME NEW x, \A m \in 0..(n + 1) : m # 0 => g[m - 1] = x[m - 1]
        PROVE  Body(g, n + 1) = Body(x, n + 1)
    BY <2>4
  <2>5. e = Body(e, n + 1)
    <3> HIDE DEF Body
    <3>1. QED
      BY <2>3, <2>4
  <2> HIDE DEF e, Body
  <2>6. QED
    BY <2>5
<1>3. Nat \subseteq T
  <2> HIDE DEF T
  <2>1. QED
    BY <1>1, <1>2, SetInduction
<1>4. QED
  BY <1>3 DEF IsDecimal

LEMMA DecimalIs ==
  ASSUME NEW s, Len(s) \in Nat
  PROVE  \E g : DecimalTo(g, s, Len(s)) /\ Decimal(s) = g[Len(s)]
<1> DEFINE c == CHOOSE g : IsDecimal(g, s)
<1>1. IsDecimal(c, s)
  BY DecimalExists
<1>2. Decimal(s) = c[Len(s)]
  BY DEF Decimal, IsDecimal
<1> HIDE DEF c
<1>3. QED
  BY <1>1, <1>2, DecimalValues

\* Digit by digit from the beginning: what Decimal says of a sequence.
LEMMA DecimalEmpty == Decimal(<<>>) = 0
<1>1. Len(<<>>) = 0
  OBVIOUS
<1>2. QED
  BY <1>1, DecimalIs DEF DecimalTo

LEMMA DecimalNext ==
  ASSUME NEW s, NEW t, Len(s) \in Nat, Len(t) = Len(s) + 1,
         \A m \in 1..Len(s) : t[m] = s[m]
  PROVE  Decimal(t) = 10 * Decimal(s) + DigitValue[t[Len(t)]]
<1>1. PICK g : DecimalTo(g, s, Len(s)) /\ Decimal(s) = g[Len(s)]
  BY DecimalIs
<1>2. PICK h : DecimalTo(h, t, Len(t)) /\ Decimal(t) = h[Len(t)]
  <2>1. Len(t) \in Nat
    OBVIOUS
  <2>2. QED
    BY <2>1, DecimalIs
<1>3. DecimalTo(h, t, Len(s))
  BY <1>2 DEF DecimalTo
<1>4. Len(s) \in 0..Len(s) /\ Len(t) - 1 = Len(s) /\ Len(t) \in 1..Len(t)
  OBVIOUS
<1>5. g[Len(s)] = h[Len(s)]
  BY <1>1, <1>3, <1>4, DecimalSame
<1>6. h[Len(t)] = 10 * h[Len(t) - 1] + DigitValue[t[Len(t)]]
  BY <1>2, <1>4 DEF DecimalTo
<1>7. QED
  BY <1>1, <1>2, <1>4, <1>5, <1>6, Zenon

-----------------------------------------------------------------------------
(* MeaningsFrom.                                                           *)

\* What the text means from k on, if g tells what it means behind k.
MeaningAt(s, g, k) ==
  IF k > Len(s) THEN {<<>>}
  ELSE UNION {{<<x[1]>> \o t : t \in g[x[2] + 1]} : x \in PiecesAt(s, k)}

IsMeaning(g, s) == g = [k \in 1..(Len(s) + 1) |-> MeaningAt(s, g, k)]

\* Position e ends the ordinary characters at k.
LEMMA OrdinaryEnd ==
  ASSUME NEW s, Len(s) \in Nat, NEW k \in 1..Len(s), s[k] # "%"
  PROVE  \E e \in k..Len(s) : OrdinaryEnds(s, k, e)
<1> DEFINE T == {m \in k..Len(s) : m = Len(s) \/ s[m + 1] = "%"}
<1>1. T \subseteq Nat /\ Len(s) \in T
  OBVIOUS
<1>2. PICK e \in T : \A m \in T : e <= m
  BY <1>1, Least
<1>3. ASSUME NEW l \in k..e PROVE s[l] # "%"
  <2> SUFFICES ASSUME s[l] = "%" PROVE FALSE
    OBVIOUS
  <2>1. l # k /\ l - 1 \in k..Len(s) /\ (l - 1) + 1 = l
    OBVIOUS
  <2>2. l - 1 \in T
    BY <2>1
  <2>3. e <= l - 1
    BY <1>2, <2>2
  <2>4. QED
    BY <2>3
<1>4. QED
  BY <1>2, <1>3 DEF OrdinaryEnds

LEMMA OrdinaryEndsOnce ==
  ASSUME NEW s, Len(s) \in Nat, NEW k \in 1..Len(s),
         NEW d, OrdinaryEnds(s, k, d), NEW e, OrdinaryEnds(s, k, e)
  PROVE  d = e
<1>1. d \in k..Len(s) /\ e \in k..Len(s)
  BY DEF OrdinaryEnds
<1>2. ~(d < e)
  <2> SUFFICES ASSUME d < e PROVE FALSE
    OBVIOUS
  <2>1. s[d + 1] = "%" /\ d + 1 \in k..e
    BY <1>1 DEF OrdinaryEnds
  <2>2. QED
    BY <2>1 DEF OrdinaryEnds
<1>3. ~(e < d)
  <2> SUFFICES ASSUME e < d PROVE FALSE
    OBVIOUS
  <2>1. s[e + 1] = "%" /\ e + 1 \in k..d
    BY <1>1 DEF OrdinaryEnds
  <2>2. QED
    BY <2>1 DEF OrdinaryEnds
<1>4. QED
  BY <1>1, <1>2, <1>3

\* The ordinary characters from k to e are the one piece at k.
LEMMA OrdinaryPiece ==
  ASSUME NEW s, Len(s) \in Nat, NEW k \in 1..Len(s),
         NEW e, OrdinaryEnds(s, k, e)
  PROVE  PiecesAt(s, k) = {<<Ordinary(SubSeq(s, k, e)), e>>}
<1> DEFINE c == CHOOSE m \in k..Len(s) : OrdinaryEnds(s, k, m)
<1>1. e \in k..Len(s) /\ k \in k..e /\ s[k] # "%"
  BY DEF OrdinaryEnds
<1>2. c \in k..Len(s) /\ OrdinaryEnds(s, k, c)
  BY <1>1
<1>3. PiecesAt(s, k) = {<<Ordinary(SubSeq(s, k, c)), c>>}
  BY <1>1 DEF PiecesAt
<1> HIDE DEF c
<1>4. c = e
  BY <1>2, OrdinaryEndsOnce
<1>5. QED
  BY <1>3, <1>4

\* Every piece ends inside the text.
LEMMA PiecesInside ==
  ASSUME NEW s, Len(s) \in Nat, NEW k \in 1..Len(s), NEW x \in PiecesAt(s, k)
  PROVE  x[2] \in k..Len(s)
<1>1. CASE s[k] = "%"
  BY <1>1 DEF PiecesAt
<1>2. CASE s[k] # "%"
  <2>1. PICK e \in k..Len(s) : OrdinaryEnds(s, k, e)
    BY <1>2, OrdinaryEnd
  <2>2. PiecesAt(s, k) = {<<Ordinary(SubSeq(s, k, e)), e>>}
    BY <2>1, OrdinaryPiece
  <2>3. QED
    BY <2>1, <2>2
<1>3. QED
  BY <1>1, <1>2

\* What a text means from k on depends on what it means behind k.
LEMMA MeaningBehind ==
  ASSUME NEW s, Len(s) \in Nat, NEW k \in 1..(Len(s) + 1), NEW g, NEW h,
         \A m \in (k + 1)..(Len(s) + 1) : g[m] = h[m]
  PROVE  MeaningAt(s, g, k) = MeaningAt(s, h, k)
<1> DEFINE P == PiecesAt(s, k)
           More(e, x) == {<<x[1]>> \o t : t \in e[x[2] + 1]}
<1>1. CASE k > Len(s)
  BY <1>1 DEF MeaningAt
<1>2. CASE k <= Len(s)
  <2>1. ASSUME NEW x \in P PROVE More(g, x) = More(h, x)
    <3>1. x[2] \in k..Len(s)
      BY <1>2, PiecesInside
    <3>2. x[2] + 1 \in (k + 1)..(Len(s) + 1)
      BY <3>1
    <3>3. g[x[2] + 1] = h[x[2] + 1]
      BY <3>2
    <3>4. QED
      BY <3>3
  <2>2. ~(k > Len(s))
    BY <1>2
  <2>3. /\ MeaningAt(s, g, k) = UNION {More(g, x) : x \in P}
        /\ MeaningAt(s, h, k) = UNION {More(h, x) : x \in P}
    BY <2>2 DEF MeaningAt
  <2> HIDE DEF More, P
  <2>4. {More(g, x) : x \in P} = {More(h, x) : x \in P}
    BY <2>1
  <2>5. QED
    BY <2>3, <2>4
<1>3. QED
  BY <1>1, <1>2

LEMMA MeaningExists ==
  ASSUME NEW s, Len(s) \in Nat
  PROVE  \E g : IsMeaning(g, s)
<1> DEFINE n == Len(s)
           Right(g, a) == \A k \in a..(n + 1) : g[k] = MeaningAt(s, g, k)
           T == {j \in Nat : j <= n => \E g : Right(g, n + 1 - j)}
<1>1. 0 \in T
  <2> DEFINE g == [k \in {n + 1} |-> {<<>>}]
  <2>1. g[n + 1] = {<<>>} /\ n + 1 > n /\ n + 1 - 0 = n + 1
    OBVIOUS
  <2> HIDE DEF g
  <2>2. g[n + 1] = MeaningAt(s, g, n + 1)
    BY <2>1 DEF MeaningAt
  <2>3. Right(g, n + 1)
    BY <2>2
  <2>4. QED
    BY <2>1, <2>3
<1>2. ASSUME NEW j \in Nat, j \in T PROVE j + 1 \in T
  <2> SUFFICES ASSUME j + 1 <= n PROVE \E h : Right(h, n + 1 - (j + 1))
    OBVIOUS
  <2> DEFINE a == n - j
  <2>1. a \in 1..n /\ n + 1 - j = a + 1 /\ n + 1 - (j + 1) = a
    OBVIOUS
  <2>2. PICK g : Right(g, a + 1)
    BY <1>2, <2>1
  <2> DEFINE h == [k \in a..(n + 1) |-> IF k = a THEN MeaningAt(s, g, a) ELSE g[k]]
  <2>3. ASSUME NEW k \in (a + 1)..(n + 1) PROVE h[k] = g[k]
    BY <2>1
  <2>4. h[a] = MeaningAt(s, g, a)
    BY <2>1
  <2> HIDE DEF h, a
  <2>5. ASSUME NEW k \in a..(n + 1) PROVE h[k] = MeaningAt(s, h, k)
    <3>1. k \in 1..(n + 1)
      BY <2>1
    <3>2. \A m \in (k + 1)..(n + 1) : g[m] = h[m]
      BY <2>1, <2>3
    <3>3. MeaningAt(s, g, k) = MeaningAt(s, h, k)
      BY <3>1, <3>2, MeaningBehind
    <3>4. h[k] = MeaningAt(s, g, k)
      <4>1. CASE k = a
        BY <2>4, <4>1
      <4>2. CASE k # a
        <5>1. k \in (a + 1)..(n + 1)
          BY <2>1, <4>2
        <5>2. QED
          BY <2>2, <2>3, <5>1
      <4>3. QED
        BY <4>1, <4>2
    <3>5. QED
      BY <3>3, <3>4
  <2>6. QED
    BY <2>1, <2>5
<1>3. Nat \subseteq T
  <2> HIDE DEF T
  <2>1. QED
    BY <1>1, <1>2, SetInduction
<1>4. PICK g : Right(g, 1)
  <2>1. n \in T /\ n <= n /\ n + 1 - n = 1
    BY <1>3
  <2>2. QED
    BY <2>1
<1> DEFINE e == [k \in 1..(n + 1) |-> g[k]]
           h == [k \in 1..(n + 1) |-> MeaningAt(s, e, k)]
<1>5. ASSUME NEW k \in 1..(n + 1) PROVE e[k] = h[k]
  <2>1. e[k] = g[k] /\ h[k] = MeaningAt(s, e, k)
    OBVIOUS
  <2>2. \A m \in (k + 1)..(n + 1) : g[m] = e[m]
    OBVIOUS
  <2> HIDE DEF e, h
  <2>3. MeaningAt(s, g, k) = MeaningAt(s, e, k)
    BY <2>2, MeaningBehind
  <2>4. QED
    BY <1>4, <2>1, <2>3
<1>6. e = [k \in 1..(n + 1) |-> e[k]] /\ h = [k \in 1..(n + 1) |-> h[k]]
  OBVIOUS
<1>7. e = h
  <2> HIDE DEF e, h
  <2>1. QED
    BY <1>5, <1>6
<1>8. IsMeaning(e, s)
  <2> HIDE DEF e
  <2>1. QED
    BY <1>7 DEF IsMeaning, MeaningAt
<1>9. QED
  BY <1>8

\* MeaningsFrom says what it is defined to say.
LEMMA MeaningsAre ==
  ASSUME NEW s, Len(s) \in Nat, NEW k \in 1..(Len(s) + 1)
  PROVE  MeaningsFrom(s)[k] = MeaningAt(s, MeaningsFrom(s), k)
<1> DEFINE m == MeaningsFrom(s)
           h == [l \in 1..(Len(s) + 1) |-> MeaningAt(s, m, l)]
<1>1. m = CHOOSE g : IsMeaning(g, s)
  BY Zenon DEF MeaningsFrom, IsMeaning, MeaningAt
<1>2. IsMeaning(m, s)
  BY <1>1, MeaningExists
<1>3. m = h
  BY <1>2 DEF IsMeaning, MeaningAt
<1>4. h[k] = MeaningAt(s, m, k)
  OBVIOUS
<1> HIDE DEF m, h
<1>5. QED
  BY <1>3, <1>4 DEF m

LEMMA MeaningsEnd ==
  ASSUME NEW s, Len(s) \in Nat
  PROVE  MeaningsFrom(s)[Len(s) + 1] = {<<>>}
<1>1. Len(s) + 1 \in 1..(Len(s) + 1) /\ Len(s) + 1 > Len(s)
  OBVIOUS
<1>2. QED
  BY <1>1, MeaningsAre DEF MeaningAt

LEMMA MeaningsNone ==
  ASSUME NEW s, Len(s) \in Nat, NEW k \in 1..Len(s), PiecesAt(s, k) = {}
  PROVE  MeaningsFrom(s)[k] = {}
<1> DEFINE m == MeaningsFrom(s)
           More(x) == {<<x[1]>> \o t : t \in m[x[2] + 1]}
<1>1. k \in 1..(Len(s) + 1) /\ ~(k > Len(s))
  OBVIOUS
<1>2. m[k] = UNION {More(x) : x \in PiecesAt(s, k)}
  BY <1>1, MeaningsAre DEF MeaningAt
<1> HIDE DEF More, m
<1>3. m[k] = {}
  BY <1>2
<1>4. QED
  BY <1>3 DEF m

\* Meanings are sequences, and what is not the end of the text means at least
\* one piece.
LEMMA MeaningsAreSequences ==
  ASSUME NEW s, Len(s) \in Nat
  PROVE  \E S : \A k \in 1..(Len(s) + 1) : \A t \in MeaningsFrom(s)[k] :
           t \in Seq(S) /\ (k <= Len(s) => Len(t) >= 1)
<1> DEFINE n == Len(s)
           m == MeaningsFrom(s)
           S == UNION {{x[1] : x \in PiecesAt(s, k)} : k \in 1..n}
           OK(k) == \A t \in m[k] : t \in Seq(S) /\ (k <= n => Len(t) >= 1)
           T == {j \in Nat : j <= n => \A k \in (n + 1 - j)..(n + 1) : OK(k)}
<1> HIDE DEF m
<1>1. 0 \in T
  <2>1. m[n + 1] = {<<>>} /\ ~(n + 1 <= n)
    BY MeaningsEnd DEF m
  <2>2. OK(n + 1)
    BY <2>1
  <2> HIDE DEF OK
  <2>3. QED
    BY <2>2
<1>2. ASSUME NEW j \in Nat, j \in T PROVE j + 1 \in T
  <2> SUFFICES ASSUME j + 1 <= n, NEW k \in (n + 1 - (j + 1))..(n + 1) PROVE OK(k)
    OBVIOUS
  <2>1. CASE k # n - j
    <3>1. k \in (n + 1 - j)..(n + 1)
      BY <2>1
    <3> HIDE DEF OK
    <3>2. QED
      BY <1>2, <3>1
  <2>2. CASE k = n - j
    <3>1. k \in 1..n
      BY <2>2
    <3> SUFFICES ASSUME NEW t \in m[k] PROVE t \in Seq(S) /\ Len(t) >= 1
      OBVIOUS
    <3> DEFINE More(x) == {<<x[1]>> \o u : u \in m[x[2] + 1]}
    <3>2. PICK x \in PiecesAt(s, k) : t \in More(x)
      <4>1. m[k] = MeaningAt(s, m, k) /\ ~(k > n)
        BY <3>1, MeaningsAre DEF m
      <4>2. m[k] = UNION {More(x) : x \in PiecesAt(s, k)}
        BY <4>1 DEF MeaningAt
      <4> HIDE DEF More
      <4>3. QED
        BY <4>2
    <3>3. PICK u \in m[x[2] + 1] : t = <<x[1]>> \o u
      BY <3>2
    <3>4. x[2] \in k..n
      BY <3>1, PiecesInside
    <3>5. x[2] + 1 \in (n + 1 - j)..(n + 1)
      BY <2>2, <3>4
    <3>6. OK(x[2] + 1)
      <4> HIDE DEF OK
      <4>1. QED
        BY <1>2, <3>5
    <3>7. u \in Seq(S)
      BY <3>3, <3>6
    <3>8. x[1] \in S
      BY SMTT(30), <3>1, <3>2
    <3> HIDE DEF S
    <3>9. QED
      BY <3>3, <3>7, <3>8
  <2>3. QED
    BY <2>1, <2>2
<1>3. Nat \subseteq T
  <2> HIDE DEF T
  <2>1. QED
    BY <1>1, <1>2, SetInduction
<1>4. n \in T
  <2> HIDE DEF T
  <2>1. QED
    BY <1>3
<1>5. \A k \in 1..(n + 1) : OK(k)
  <2>1. n <= n /\ n + 1 - n = 1
    OBVIOUS
  <2> HIDE DEF OK
  <2>2. QED
    BY <1>4, <2>1
<1>6. QED
  BY <1>5 DEF m

-----------------------------------------------------------------------------
(* Conversions.                                                            *)

LEMMA TypesAreNoNumbers ==
  \A c \in {"d", "u", "x", "s", "c", "l", "h", "%"} : ~InNumber(c)
BY DEF InNumber, IsDigit, DigitValue

\* Times counts what stands at k.
LEMMA TimesIs ==
  ASSUME NEW c, NEW k \in Nat, Len(text) \in Nat
  PROVE  /\ \A m \in k..(k + Times(c, k) - 1) : m <= Len(text) /\ text[m] = c
         /\ Times(c, k) < 2 =>
              k + Times(c, k) > Len(text) \/ text[k + Times(c, k)] # c
<1>1. CASE k > Len(text) \/ text[k] # c
  <2>1. Times(c, k) = 0
    BY <1>1 DEF Times
  <2>2. QED
    BY <1>1, <2>1
<1>2. CASE k <= Len(text) /\ text[k] = c /\ (k = Len(text) \/ text[k + 1] # c)
  <2>1. Times(c, k) = 1
    BY <1>2 DEF Times
  <2>2. QED
    BY <1>2, <2>1
<1>3. CASE k <= Len(text) /\ text[k] = c /\ k # Len(text) /\ text[k + 1] = c
  <2>1. Times(c, k) = 2
    BY <1>3 DEF Times
  <2>2. QED
    BY <1>3, <2>1
<1>4. QED
  BY <1>1, <1>2, <1>3

\* At position k of text s of n characters, c stands exactly t times, or at
\* least twice if t is 2.
StandsAt(s, n, k, c, t) ==
  /\ \A m \in k..(k + t - 1) : m <= n /\ s[m] = c
  /\ t < 2 => k + t > n \/ s[k + t] # c

LEMMA TimesStands ==
  ASSUME NEW c, NEW k \in Nat, Len(text) \in Nat
  PROVE  StandsAt(text, Len(text), k, c, Times(c, k))
BY TimesIs DEF StandsAt

\* There is one way to read the end of a conversion whose numbers end at j.
TypeStands(s, n, k, j, long, hs) ==
  /\ k <= j /\ j < n
  /\ \A m \in (k + 1)..j : InNumber(s[m])
  /\ ~InNumber(s[j + 1])
  /\ StandsAt(s, n, j + 1, "l", long)
  /\ StandsAt(s, n, j + 1 + long, "h", hs)

LEMMA EndsOnce ==
  ASSUME NEW s, NEW n \in Nat, NEW k \in Nat, NEW j \in Nat,
         NEW long \in 0..2, NEW hs \in 0..2, TypeStands(s, n, k, j, long, hs),
         NEW a \in Nat, NEW b \in Nat, NEW e \in Nat, e <= n, Ends(s, k, a, b, e)
  PROVE  /\ a = j /\ b = j + long /\ e = j + 1 + long + hs
         /\ s[e] \in TypesFor(long)
<1>0. /\ k <= j /\ j < n /\ ~InNumber(s[j + 1])
      /\ \A m \in (k + 1)..j : InNumber(s[m])
      /\ StandsAt(s, n, j + 1, "l", long) /\ StandsAt(s, n, j + 1 + long, "h", hs)
  BY DEF TypeStands
<1>1. k <= a /\ a <= b /\ b < e /\ b - a <= 2 /\ e - b <= 3
  BY DEF Ends
<1>2. /\ \A m \in (k + 1)..a : InNumber(s[m])
      /\ \A m \in (a + 1)..b : s[m] = "l"
      /\ \A m \in (b + 1)..(e - 1) : s[m] = "h"
  BY DEF Ends
<1>3. /\ s[e] \in {"d", "u", "x", "s", "c"}
      /\ b # a => s[e] \in {"d", "u", "x"}
  BY DEF Ends
<1>4. /\ \A m \in (j + 1)..(j + long) : s[m] = "l"
      /\ long < 2 => j + 1 + long > n \/ s[j + 1 + long] # "l"
  <2>1. j + 1 + long - 1 = j + long
    OBVIOUS
  <2>2. QED
    BY <1>0, <2>1 DEF StandsAt
<1>5. /\ \A m \in (j + 1 + long)..(j + long + hs) : s[m] = "h"
      /\ hs < 2 => j + 1 + long + hs > n \/ s[j + 1 + long + hs] # "h"
  <2>1. j + 1 + long + hs - 1 = j + long + hs
    OBVIOUS
  <2>2. QED
    BY <1>0, <2>1 DEF StandsAt
<1>6. a = j
  <2>1. ~(a > j)
    <3> SUFFICES ASSUME a > j PROVE FALSE
      OBVIOUS
    <3>1. j + 1 \in (k + 1)..a
      BY <1>0
    <3>2. QED
      BY <1>0, <1>2, <3>1
  <2>2. ~(a < j)
    <3> SUFFICES ASSUME a < j PROVE FALSE
      OBVIOUS
    <3>1. a + 1 \in (k + 1)..j
      BY <1>1
    <3>2. InNumber(s[a + 1])
      BY <1>0, <3>1
    <3>3. s[a + 1] # "l" /\ s[a + 1] # "h"
      BY <3>2, TypesAreNoNumbers
    <3>4. a + 1 \notin (a + 1)..b
      BY <1>2, <3>3
    <3>5. b = a
      BY <1>1, <3>4
    <3>6. a + 1 \notin (b + 1)..(e - 1)
      BY <1>2, <3>3
    <3>7. e = a + 1
      BY <1>1, <3>5, <3>6
    <3>8. QED
      BY <1>3, <3>2, <3>7, TypesAreNoNumbers
  <2>3. QED
    BY <2>1, <2>2
<1>7. b = j + long
  <2>1. ~(b > j + long)
    <3> SUFFICES ASSUME b > j + long PROVE FALSE
      OBVIOUS
    <3>1. j + 1 + long \in (a + 1)..b /\ long < 2 /\ ~(j + 1 + long > n)
      BY <1>1, <1>6
    <3>2. QED
      BY <1>2, <1>4, <3>1
  <2>2. ~(b < j + long)
    <3> SUFFICES ASSUME b < j + long PROVE FALSE
      OBVIOUS
    <3>1. b + 1 \in (j + 1)..(j + long)
      BY <1>1, <1>6
    <3>2. s[b + 1] = "l"
      BY <1>4, <3>1
    <3>3. b + 1 \notin (b + 1)..(e - 1)
      BY <1>2, <3>2
    <3>4. e = b + 1
      BY <1>1, <3>3
    <3>5. QED
      BY <1>3, <3>2, <3>4
  <2>3. QED
    BY <2>1, <2>2
<1>8. e = j + 1 + long + hs
  <2>1. ~(e > j + 1 + long + hs)
    <3> SUFFICES ASSUME e > j + 1 + long + hs PROVE FALSE
      OBVIOUS
    <3>1. /\ j + 1 + long + hs \in (b + 1)..(e - 1) /\ hs < 2
          /\ ~(j + 1 + long + hs > n)
      BY <1>1, <1>7
    <3>2. QED
      BY <1>2, <1>5, <3>1
  <2>2. ~(e < j + 1 + long + hs)
    <3> SUFFICES ASSUME e < j + 1 + long + hs PROVE FALSE
      OBVIOUS
    <3>1. e \in (j + 1 + long)..(j + long + hs)
      BY <1>1, <1>7
    <3>2. s[e] = "h"
      BY <1>5, <3>1
    <3>3. QED
      BY <1>3, <3>2
  <2>3. QED
    BY <2>1, <2>2
<1>9. s[e] \in TypesFor(long)
  <2>1. b # a <=> long # 0
    BY <1>6, <1>7
  <2>2. QED
    BY <1>3, <2>1 DEF TypesFor, Types
<1>10. QED
  BY <1>6, <1>7, <1>8, <1>9

LEMMA EndsThere ==
  ASSUME NEW s, NEW n \in Nat, NEW k \in Nat, NEW j \in Nat,
         NEW long \in 0..2, NEW hs \in 0..2, TypeStands(s, n, k, j, long, hs),
         s[j + 1 + long + hs] \in TypesFor(long)
  PROVE  Ends(s, k, j, j + long, j + 1 + long + hs)
<1>1. \A m \in (j + 1)..(j + long) : s[m] = "l"
  <2>1. j + 1 + long - 1 = j + long
    OBVIOUS
  <2>2. QED
    BY <2>1 DEF TypeStands, StandsAt
<1>2. \A m \in ((j + long) + 1)..(j + 1 + long + hs - 1) : s[m] = "h"
  <2>1. (j + long) + 1 = j + 1 + long
    OBVIOUS
  <2>2. QED
    BY <2>1 DEF TypeStands, StandsAt
<1>3. /\ k <= j /\ j <= j + long /\ j + long < j + 1 + long + hs
      /\ j + long - j <= 2 /\ j + 1 + long + hs - (j + long) <= 3
      /\ (j + long = j <=> long = 0)
  BY DEF TypeStands
<1>4. s[j + 1 + long + hs]
        \in IF j + long = j THEN {"d", "u", "x", "s", "c"} ELSE {"d", "u", "x"}
  BY <1>3 DEF TypesFor, Types
<1>5. QED
  BY <1>1, <1>2, <1>3, <1>4 DEF Ends, TypeStands

\* The numbers of a conversion are not followed by its type.
LEMMA EndsNowhere ==
  ASSUME NEW s, Len(s) \in Nat, NEW k \in 1..Len(s),
         \A m \in (k + 1)..Len(s) : InNumber(s[m]),
         NEW a \in k..Len(s), NEW b \in k..Len(s), NEW e \in k..Len(s)
  PROVE  ~Ends(s, k, a, b, e)
<1> SUFFICES ASSUME Ends(s, k, a, b, e) PROVE FALSE
  OBVIOUS
<1>1. b < e /\ s[e] \in {"d", "u", "x", "s", "c"}
  BY DEF Ends
<1>2. e \in (k + 1)..Len(s)
  BY <1>1
<1>3. InNumber(s[e])
  BY <1>2
<1>4. QED
  BY <1>1, <1>3, TypesAreNoNumbers

\* The last number is determined.
LEMMA LastNumberOnce ==
  ASSUME NEW s, NEW k \in Nat, NEW a \in Nat,
         NEW m, LastNumber(s, k, a, m), NEW l, LastNumber(s, k, a, l)
  PROVE  m = l
<1>1. m \in k..a /\ l \in k..a
  BY DEF LastNumber
<1>2. ~(m < l)
  <2> SUFFICES ASSUME m < l PROVE FALSE
    OBVIOUS
  <2>1. l \in (m + 1)..a
    BY <1>1
  <2>2. QED
    BY <2>1 DEF LastNumber
<1>3. ~(l < m)
  <2> SUFFICES ASSUME l < m PROVE FALSE
    OBVIOUS
  <2>1. m \in (l + 1)..a
    BY <1>1
  <2>2. QED
    BY <2>1 DEF LastNumber
<1>4. QED
  BY <1>1, <1>2, <1>3

LEMMA FieldIs ==
  ASSUME NEW s \in Seq(Characters), NEW b \in Nat, NEW j \in Nat, b <= j, j <= Len(s)
  PROVE  LET field == SubSeq(s, b + 1, j)
         IN  /\ b = j => field = <<>>
             /\ b < j => field # <<>> /\ field[1] = s[b + 1]
<1> DEFINE field == SubSeq(s, b + 1, j)
<1>1. Len(s) \in Nat
  OBVIOUS
<1>2. ASSUME b = j PROVE field = <<>>
  BY <1>1, <1>2
<1>3. ASSUME b < j PROVE field # <<>> /\ field[1] = s[b + 1]
  <2>1. Len(field) = j - b /\ j - b \in Nat \ {0}
    BY <1>1, <1>3
  <2>2. field[1] = s[b + 1]
    BY <1>1, <1>3
  <2> HIDE DEF field
  <2>3. QED
    BY <2>1, <2>2
<1>4. QED
  BY <1>2, <1>3

\* A conversion at k whose numbers end at j has the width w and the zero flag z.
Reads(s, k, j, w, z) ==
  \A long \in 0..2 : \A at :
    ConversionOf(s, k, j, j + long, at)
      = [type |-> s[at], long |-> long, wid |-> w, zero |-> z, ordinary |-> <<>>]

LEMMA ConversionIs ==
  ASSUME NEW s \in Seq(Characters), NEW k \in Nat, NEW j \in Nat, j <= Len(s),
         NEW b, NEW w, NEW z \in BOOLEAN, NumberBehind(s, k, j, b, w, z)
  PROVE  Reads(s, k, j, w, z)
<1> SUFFICES ASSUME NEW long \in 0..2, NEW at
             PROVE  ConversionOf(s, k, j, j + long, at)
                      = [type |-> s[at], long |-> long, wid |-> w, zero |-> z,
                         ordinary |-> <<>>]
  BY DEF Reads
<1> DEFINE c == CHOOSE m \in k..j : LastNumber(s, k, j, m)
           field == SubSeq(s, b + 1, j)
<1>0. /\ LastNumber(s, k, j, b) /\ w = Decimal(field)
      /\ (z => b < j) /\ (z <=> s[b + 1] = "0")
  BY DEF NumberBehind
<1>1. b \in k..j
  BY <1>0 DEF LastNumber
<1>2. c \in k..j /\ LastNumber(s, k, j, c)
  BY <1>0, <1>1
<1>3. Field(s, k, j) = SubSeq(s, c + 1, j)
  BY DEF Field
<1> HIDE DEF c
<1>4. Field(s, k, j) = field
  <2>1. c = b
    BY <1>0, <1>2, LastNumberOnce
  <2>2. QED
    BY <1>3, <2>1
<1>5. j + long - j = long
  OBVIOUS
<1>6. (field # <<>> /\ field[1] = "0") = z
  <2>1. b \in Nat /\ b <= j
    BY <1>1
  <2>2. /\ b = j => field = <<>>
        /\ b < j => field # <<>> /\ field[1] = s[b + 1]
    BY <2>1, FieldIs
  <2> HIDE DEF field
  <2>3. (field # <<>> /\ field[1] = "0") <=> z
    BY <1>0, <2>1, <2>2
  <2>4. QED
    BY <2>3
<1> DEFINE y == field # <<>> /\ field[1] = "0"
<1>8. ConversionOf(s, k, j, j + long, at)
        = [type |-> s[at], long |-> j + long - j, wid |-> Decimal(field),
           zero |-> y, ordinary |-> <<>>]
  <2> HIDE DEF field
  <2>1. QED
    BY <1>4 DEF ConversionOf
<1>9. y = z
  BY <1>6
<1> HIDE DEF field, y
<1>10. QED
  BY <1>0, <1>5, <1>8, <1>9

-----------------------------------------------------------------------------
(* Pieces and meanings.                                                    *)

\* A meaning that begins with g is g, a piece, and what follows that.
LEMMA MeantOne ==
  ASSUME NEW s, Len(s) \in Nat, NEW k \in 1..Len(s), NEW e \in k..Len(s),
         NEW R, NEW g \in Seq(R), NEW p \in R, PiecesAt(s, k) = {<<p, e>>},
         Meant(s, g, k)
  PROVE  Meant(s, Append(g, p), e + 1)
<1> DEFINE m == MeaningsFrom(s)
           More(x) == {<<x[1]>> \o t : t \in m[x[2] + 1]}
<1>1. m[k] = {<<p>> \o t : t \in m[e + 1]}
  <2>1. m[k] = UNION {More(x) : x \in PiecesAt(s, k)}
    <3>1. k \in 1..(Len(s) + 1) /\ ~(k > Len(s))
      OBVIOUS
    <3>2. QED
      BY <3>1, MeaningsAre DEF MeaningAt
  <2>2. More(<<p, e>>) = {<<p>> \o t : t \in m[e + 1]}
    OBVIOUS
  <2> HIDE DEF More, m
  <2>3. m[k] = More(<<p, e>>)
    BY <2>1
  <2>4. QED
    BY <2>2, <2>3
<1>2. PICK S : \A l \in 1..(Len(s) + 1) : \A t \in m[l] : t \in Seq(S)
  BY MeaningsAreSequences
<1>3. e + 1 \in 1..(Len(s) + 1)
  OBVIOUS
<1> HIDE DEF m
<1>4. ASSUME NEW t \in m[e + 1] PROVE g \o (<<p>> \o t) = Append(g, p) \o t
  <2>1. t \in Seq(S)
    BY <1>2, <1>3
  <2>2. g \in Seq(R \cup S) /\ <<p>> \in Seq(R \cup S) /\ t \in Seq(R \cup S)
    BY <2>1
  <2>3. (g \o <<p>>) \o t = g \o (<<p>> \o t)
    BY SMTT(30), <2>2, ConcatThree
  <2>4. Append(g, p) = g \o <<p>>
    OBVIOUS
  <2>5. QED
    BY <2>3, <2>4
<1>5. {g \o u : u \in m[k]} = {Append(g, p) \o t : t \in m[e + 1]}
  <2>1. {g \o u : u \in {<<p>> \o t : t \in m[e + 1]}}
          = {g \o (<<p>> \o t) : t \in m[e + 1]}
    OBVIOUS
  <2>2. {g \o (<<p>> \o t) : t \in m[e + 1]} = {Append(g, p) \o t : t \in m[e + 1]}
    BY <1>4
  <2>3. QED
    BY <1>1, <2>1, <2>2
<1>6. m[1] = {g \o u : u \in m[k]}
  BY DEF Meant, m
<1>7. QED
  BY <1>5, <1>6 DEF Meant, m

LEMMA MeantNone ==
  ASSUME NEW s, Len(s) \in Nat, NEW k \in 1..Len(s), NEW g, PiecesAt(s, k) = {},
         Meant(s, g, k)
  PROVE  MeaningsFrom(s)[1] = {}
BY MeaningsNone DEF Meant

LEMMA MeantEnd ==
  ASSUME NEW s, Len(s) \in Nat, NEW R, NEW g \in Seq(R), Meant(s, g, Len(s) + 1)
  PROVE  MeaningsFrom(s)[1] = {g}
<1>1. MeaningsFrom(s)[Len(s) + 1] = {<<>>} /\ g \o <<>> = g
  BY MeaningsEnd
<1>2. QED
  BY <1>1 DEF Meant

LEMMA MeantLonger ==
  ASSUME NEW s, Len(s) \in Nat, NEW k \in 1..Len(s), NEW R, NEW g \in Seq(R),
         Meant(s, g, k)
  PROVE  \A u \in MeaningsFrom(s)[1] : Len(u) > Len(g)
<1> SUFFICES ASSUME NEW u \in MeaningsFrom(s)[1] PROVE Len(u) > Len(g)
  OBVIOUS
<1>1. PICK t \in MeaningsFrom(s)[k] : u = g \o t
  BY DEF Meant
<1>2. PICK S : \A l \in 1..(Len(s) + 1) : \A v \in MeaningsFrom(s)[l] :
                 v \in Seq(S) /\ (l <= Len(s) => Len(v) >= 1)
  BY MeaningsAreSequences
<1>3. t \in Seq(S) /\ Len(t) >= 1
  BY <1>1, <1>2
<1>4. Len(g \o t) = Len(g) + Len(t)
  BY <1>3
<1>5. QED
  BY <1>1, <1>3, <1>4

\* At the type: there is one piece, the one that npr_printf_build_format
\* appends, or none.
LEMMA PieceHere ==
  ASSUME NEW s \in Seq(Characters), NEW n \in Nat, n = Len(s),
         NEW k \in Nat, NEW j \in Nat, s[k] = "%", k \in 1..n,
         NEW long \in 0..2, NEW hs \in 0..2, TypeStands(s, n, k, j, long, hs),
         NEW b, NEW w, NEW z \in BOOLEAN, NumberBehind(s, k, j, b, w, z),
         NEW at \in Nat, at = j + 1 + long + hs
  PROVE  /\ at <= n /\ s[at] \in TypesFor(long) =>
              /\ at \in k..n
              /\ PiecesAt(s, k) = {<<[type |-> s[at], long |-> long, wid |-> w,
                                      zero |-> z, ordinary |-> <<>>], at>>}
         /\ ~(at <= n /\ s[at] \in TypesFor(long)) => PiecesAt(s, k) = {}
<1> DEFINE E == {y \in (k..n) \X (k..n) \X (k..n) : Ends(s, k, y[1], y[2], y[3])}
           piece == [type |-> s[at], long |-> long, wid |-> w, zero |-> z,
                     ordinary |-> <<>>]
<1>1. k <= j /\ j < n
  BY DEF TypeStands
<1>2. PiecesAt(s, k)
        = {<<ConversionOf(s, k, x[1], x[2], x[3]), x[3]>> : x \in E}
  BY DEF PiecesAt
<1>3. ASSUME NEW x \in E
      PROVE  x = <<j, j + long, at>> /\ at <= n /\ s[at] \in TypesFor(long)
  <2> DEFINE a == x[1]
             c == x[2]
             e == x[3]
  <2>1. /\ a \in Nat /\ c \in Nat /\ e \in Nat /\ e <= n
        /\ x = <<a, c, e>> /\ Ends(s, k, a, c, e)
    OBVIOUS
  <2> HIDE DEF a, c, e
  <2>2. a = j /\ c = j + long /\ e = j + 1 + long + hs /\ s[e] \in TypesFor(long)
    BY <2>1, EndsOnce
  <2>3. QED
    BY <2>1, <2>2
<1>4. CASE at <= n /\ s[at] \in TypesFor(long)
  <2>1. j \in k..n /\ j + long \in k..n /\ at \in k..n
    BY <1>1, <1>4
  <2>2. Ends(s, k, j, j + long, at)
    BY <1>4, EndsThere
  <2>3. E = {<<j, j + long, at>>}
    <3>1. <<j, j + long, at>> \in E
      BY <2>1, <2>2
    <3> HIDE DEF E
    <3>2. QED
      BY <1>3, <3>1
  <2>4. ConversionOf(s, k, j, j + long, at) = piece
    <3>1. j <= Len(s)
      BY <1>1
    <3>2. Reads(s, k, j, w, z)
      BY <3>1, ConversionIs
    <3>3. QED
      BY <3>2 DEF Reads
  <2> HIDE DEF E, piece
  <2>5. PiecesAt(s, k) = {<<piece, at>>}
    BY <1>2, <2>3, <2>4
  <2>6. QED
    BY <1>4, <2>1, <2>5 DEF piece
<1>5. CASE ~(at <= n /\ s[at] \in TypesFor(long))
  <2>1. E = {}
    <3> HIDE DEF E
    <3>1. QED
      BY <1>3, <1>5
  <2> HIDE DEF E
  <2>2. PiecesAt(s, k) = {}
    BY <1>2, <2>1
  <2>3. QED
    BY <1>5, <2>2
<1>6. QED
  BY <1>4, <1>5

\* The text ends in the numbers of a conversion.
LEMMA NoPiece ==
  ASSUME NEW s, Len(s) \in Nat, NEW k \in 1..Len(s), s[k] = "%",
         \A m \in (k + 1)..Len(s) : InNumber(s[m])
  PROVE  PiecesAt(s, k) = {}
<1> DEFINE n == Len(s)
           E == {y \in (k..n) \X (k..n) \X (k..n) : Ends(s, k, y[1], y[2], y[3])}
<1>1. PiecesAt(s, k) = {<<ConversionOf(s, k, x[1], x[2], x[3]), x[3]>> : x \in E}
  BY DEF PiecesAt
<1>2. E = {}
  <2> SUFFICES ASSUME NEW x \in E PROVE FALSE
    OBVIOUS
  <2>1. x[1] \in k..n /\ x[2] \in k..n /\ x[3] \in k..n /\ Ends(s, k, x[1], x[2], x[3])
    OBVIOUS
  <2>2. QED
    BY <2>1, EndsNowhere
<1> HIDE DEF E
<1>3. QED
  BY <1>1, <1>2

-----------------------------------------------------------------------------
(* Every step of npr_printf_build_format keeps ParseInv.                   *)

LEMMA ParsingTypes ==
  ASSUME BuildInv, Building
  PROVE  /\ text \in Seq(Characters) /\ Len(text) \in Nat
         /\ i \in 0..Len(text)
         /\ f \in Seq(Formats) /\ Len(f) \in Nat
         /\ zero \in BOOLEAN
BY DEF BuildInv, BuildTypeOK, Building

LEMMA FormatStartParses ==
  ASSUME BuildInv, ParseInv, FormatStart
  PROVE  ParseInv'
<1>1. /\ label = "start" /\ text' = text /\ zero' = zero /\ wid' = wid
      /\ Meant(text, f, i + 1)
  BY DEF FormatStart, ParseInv
<1>2. /\ text \in Seq(Characters) /\ Len(text) \in Nat
      /\ i \in 0..Len(text)
      /\ f \in Seq(Formats) /\ Len(f) \in Nat
  BY <1>1, ParsingTypes DEF Building
<1>3. CASE AtEnd
  <2>1. label' = "built" /\ f' = f
    BY <1>3 DEF FormatStart
  <2>2. i = Len(text)
    BY <1>2, <1>3 DEF AtEnd
  <2>3. MeaningsFrom(text)[1] = {f}
    BY <1>1, <1>2, <2>2, MeantEnd
  <2>4. QED
    BY <1>1, <2>1, <2>3 DEF ParseInv, PiecesAreRight, Meanings
<1>4. CASE ~AtEnd /\ Next1 = "%"
  <2>1. label' = "number" /\ i' = i + 1 /\ f' = f
    BY <1>4 DEF FormatStart
  <2>2. i + 1 \in 1..Len(text) /\ text[i + 1] = "%"
    BY <1>2, <1>4 DEF AtEnd, Next1
  <2>3. PICK k \in 1..Len(text) : k = i + 1
    BY <2>2
  <2>4. ConversionFrom(k)'
    BY <1>1, <1>2, <2>1, <2>2, <2>3 DEF ConversionFrom
  <2>5. ~IsDigit(text'[i'])
    BY <1>1, <2>1, <2>2, TypesAreNoNumbers DEF InNumber
  <2>6. QED
    BY <1>1, <2>1, <2>4, <2>5 DEF ParseInv, PiecesAreRight
<1>5. CASE ~AtEnd /\ Next1 # "%" /\ Len(f) >= MaxFormat
  <2>1. label' = "too_many" /\ f' = f
    BY <1>5 DEF FormatStart
  <2>2. i + 1 \in 1..Len(text)
    BY <1>2, <1>5 DEF AtEnd
  <2>3. \A u \in MeaningsFrom(text)[1] : Len(u) > Len(f)
    BY <1>1, <1>2, <2>2, MeantLonger
  <2>4. \A u \in MeaningsFrom(text)[1] : Len(u) > MaxFormat
    BY <1>2, <1>5, <2>3, FormatAssumption
  <2>5. QED
    BY <1>1, <2>1, <2>4 DEF ParseInv, PiecesAreRight, Meanings
<1>6. CASE ~AtEnd /\ Next1 # "%" /\ ~(Len(f) >= MaxFormat)
  <2>1. label' = "ord_str" /\ f' = Append(f, Ordinary(<<>>)) /\ i' = i
    BY <1>6 DEF FormatStart
  <2>2. i + 1 \in 1..Len(text) /\ text[i + 1] # "%"
    BY <1>2, <1>6 DEF AtEnd, Next1
  <2>3. Front(f') = f /\ f'[Len(f')] = Ordinary(<<>>)
    <3> DEFINE p == Ordinary(<<>>)
    <3>1. f' = Append(f, p)
      BY <2>1
    <3> HIDE DEF p
    <3>2. Front(f') = f /\ f'[Len(f')] = p
      BY <1>2, <3>1 DEF Front
    <3>3. QED
      BY <3>2 DEF p
  <2>4. SubSeq(text, i + 1, i) = <<>>
    BY <1>2
  <2>5. PICK k \in 1..Len(text) : k = i + 1
    BY <2>2
  <2>6. k <= i' + 1 /\ text'[k] # "%"
    BY <1>1, <1>2, <2>1, <2>2, <2>5
  <2>7. \A l \in k..i' : text'[l] # "%"
    BY <1>2, <2>1, <2>5
  <2>8. f'[Len(f')] = Ordinary(SubSeq(text', k, i'))
    BY <1>1, <2>1, <2>3, <2>4, <2>5
  <2>9. Meant(text', Front(f'), k)
    BY <1>1, <2>3, <2>5
  <2>10. OrdinaryFrom(k)'
    BY <2>6, <2>7, <2>8, <2>9 DEF OrdinaryFrom
  <2>11. QED
    BY <1>1, <2>1, <2>10 DEF ParseInv, PiecesAreRight
<1>7. QED
  BY <1>3, <1>4, <1>5, <1>6

\* The ordinary characters from k to i are a piece when the text or a percent
\* sign ends them.
LEMMA OrdinaryDone ==
  ASSUME text \in Seq(Characters), Len(text) \in Nat, i \in 0..Len(text),
         f \in Seq(Formats), f # <<>>, NEW k \in 1..Len(text), OrdinaryFrom(k),
         i = Len(text) \/ text[i + 1] = "%"
  PROVE  Meant(text, f, i + 1)
<1> DEFINE p == Ordinary(SubSeq(text, k, i))
           g == Front(f)
<1>1. k <= i
  BY DEF OrdinaryFrom
<1>2. OrdinaryEnds(text, k, i)
  BY <1>1 DEF OrdinaryFrom, OrdinaryEnds
<1>3. PiecesAt(text, k) = {<<p, i>>}
  BY <1>2, OrdinaryPiece
<1>4. Len(f) \in Nat \ {0}
  BY EmptySeq
<1>5. g \in Seq(Formats) /\ f = Append(g, f[Len(f)]) /\ f[Len(f)] \in Formats
  BY <1>4 DEF Front
<1>6. f[Len(f)] = p /\ Meant(text, g, k)
  BY DEF OrdinaryFrom
<1>7. i \in k..Len(text)
  BY <1>1
<1> HIDE DEF p, g
<1>8. Meant(text, Append(g, p), i + 1)
  BY <1>3, <1>5, <1>6, <1>7, MeantOne
<1>9. QED
  BY <1>5, <1>6, <1>8

LEMMA OrdinaryLonger ==
  ASSUME NEW s \in Seq(Characters), NEW c \in Characters,
         NEW o \in Formats, o = Ordinary(s)
  PROVE  [o EXCEPT !.ordinary = Append(@, c)] = Ordinary(Append(s, c))
<1> DEFINE r == Append(s, c)
           q == [o EXCEPT !.ordinary = r]
<1>1. r \in Seq(Characters)
  OBVIOUS
<1>2. o.ordinary = s
  BY DEF Ordinary
<1>3. [o EXCEPT !.ordinary = Append(@, c)] = q
  BY <1>2
<1> HIDE DEF r
<1>4. /\ q.type = "ordinary" /\ q.long = 0 /\ q.wid = 0 /\ q.zero = FALSE
      /\ q.ordinary = r
  BY DEF Ordinary, Formats
<1>5. q \in Formats
  BY <1>1 DEF Formats
<1> HIDE DEF q
<1>6. q = Ordinary(r)
  BY <1>1, <1>4, <1>5 DEF Ordinary, Formats
<1>7. QED
  BY <1>3, <1>6 DEF r

LEMMA OrdStrParses ==
  ASSUME BuildInv, ParseInv, OrdStr
  PROVE  ParseInv'
<1>1. label = "ord_str" /\ text' = text /\ zero' = zero /\ wid' = wid
  BY DEF OrdStr
<1>2. /\ text \in Seq(Characters) /\ Len(text) \in Nat
      /\ i \in 0..Len(text)
      /\ f \in Seq(Formats) /\ Len(f) \in Nat
  BY <1>1, ParsingTypes DEF Building
<1>3. f # <<>> /\ Len(f) # 0
  BY <1>1, <1>2, EmptySeq DEF BuildInv
<1>4. PICK k \in 1..Len(text) : OrdinaryFrom(k)
  BY <1>1 DEF ParseInv
<1>5. CASE AtEnd
  <2>1. label' = "built" /\ f' = f
    BY <1>5 DEF OrdStr
  <2>2. i = Len(text)
    BY <1>2, <1>5 DEF AtEnd
  <2>3. Meant(text, f, Len(text) + 1)
    BY <1>2, <1>3, <1>4, <2>2, OrdinaryDone
  <2>4. MeaningsFrom(text)[1] = {f}
    BY <1>2, <2>3, MeantEnd
  <2>5. QED
    BY <1>1, <2>1, <2>4 DEF ParseInv, PiecesAreRight, Meanings
<1>6. CASE ~AtEnd /\ Next1 = "%"
  <2>1. label' = "number" /\ i' = i + 1 /\ f' = f
    BY <1>6 DEF OrdStr
  <2>2. i + 1 \in 1..Len(text) /\ text[i + 1] = "%"
    BY <1>2, <1>6 DEF AtEnd, Next1
  <2>3. Meant(text, f, i + 1)
    BY <1>2, <1>3, <1>4, <2>2, OrdinaryDone
  <2>4. PICK l \in 1..Len(text) : l = i + 1
    BY <2>2
  <2>5. ConversionFrom(l)'
    BY <1>1, <1>2, <2>1, <2>2, <2>3, <2>4 DEF ConversionFrom
  <2>6. ~IsDigit(text'[i'])
    BY <1>1, <2>1, <2>2, TypesAreNoNumbers DEF InNumber
  <2>7. QED
    BY <1>1, <2>1, <2>5, <2>6 DEF ParseInv, PiecesAreRight
<1>7. CASE ~AtEnd /\ Next1 # "%"
  <2> DEFINE last == f[Len(f)]
             longer == [last EXCEPT !.ordinary = Append(@, Next1)]
  <2>1. /\ label' = "ord_str" /\ i' = i + 1
        /\ f' = [f EXCEPT ![Len(f)] = longer]
    BY <1>1, <1>7 DEF OrdStr
  <2>2. i + 1 \in 1..Len(text) /\ text[i + 1] # "%" /\ Next1 = text[i + 1]
    BY <1>2, <1>7 DEF AtEnd, Next1
  <2>3. /\ k <= i + 1 /\ text[k] # "%" /\ (\A l \in k..i : text[l] # "%")
        /\ last = Ordinary(SubSeq(text, k, i)) /\ Meant(text, Front(f), k)
    BY <1>4 DEF OrdinaryFrom
  <2>4. longer = Ordinary(SubSeq(text, k, i + 1))
    <3>1. SubSeq(text, k, i + 1) = Append(SubSeq(text, k, i), text[i + 1])
      BY <1>2, <2>2, <2>3
    <3>2. /\ SubSeq(text, k, i) \in Seq(Characters) /\ Next1 \in Characters
          /\ last \in Formats
      BY <1>2, <1>3, <2>2
    <3> HIDE DEF last
    <3>3. longer = Ordinary(Append(SubSeq(text, k, i), Next1))
      BY <2>3, <3>2, OrdinaryLonger
    <3>4. QED
      BY <2>2, <3>1, <3>3
  <2> HIDE DEF longer, last
  <2>5. Len(f') = Len(f) /\ f'[Len(f')] = longer /\ Front(f') = Front(f)
    <3>1. Len(f) \in 1..Len(f)
      BY <1>2, <1>3
    <3>2. DOMAIN f' = DOMAIN f /\ f'[Len(f)] = longer /\ Len(f') = Len(f)
      BY <1>2, <2>1, <3>1
    <3>3. \A m \in 1..(Len(f) - 1) : f'[m] = f[m]
      BY <1>2, <2>1
    <3>4. /\ Front(f) = [m \in 1..(Len(f) - 1) |-> f[m]]
          /\ Front(f') = [m \in 1..(Len(f') - 1) |-> f'[m]]
      BY <1>2, <1>3, <3>2 DEF Front
    <3>5. QED
      BY <3>2, <3>3, <3>4
  <2>6. \A l \in k..(i + 1) : text[l] # "%"
    BY <1>2, <2>2, <2>3
  <2>7. k <= i + 1 + 1
    BY <1>2, <2>3
  <2>8. OrdinaryFrom(k)'
    BY <1>1, <2>1, <2>3, <2>4, <2>5, <2>6, <2>7 DEF OrdinaryFrom
  <2>9. QED
    BY <1>1, <2>1, <2>8 DEF ParseInv, PiecesAreRight
<1>8. QED
  BY <1>5, <1>6, <1>7


\* A number begins behind a percent sign, a period or a minus sign at a.
LEMMA NumberBegins ==
  ASSUME NEW s \in Seq(Characters), NEW k \in Nat, NEW a \in Nat,
         k <= a, a < Len(s), ~IsDigit(s[a])
  PROVE  /\ s[a + 1] # "0" => NumberBehind(s, k, a, a, 0, FALSE)
         /\ s[a + 1] = "0" => NumberBehind(s, k, a + 1, a, 0, TRUE)
<1> DEFINE none == SubSeq(s, a + 1, a)
           one == SubSeq(s, a + 1, a + 1)
<1>1. /\ none = <<>> /\ Len(none) = 0
      /\ Len(one) = 1 /\ one[1] = s[a + 1]
  OBVIOUS
<1>2. Decimal(none) = 0
  BY <1>1, DecimalEmpty
<1> HIDE DEF none, one
<1>3. ASSUME s[a + 1] = "0" PROVE Decimal(one) = 0
  <2>1. Decimal(one) = 10 * Decimal(none) + DigitValue[one[Len(one)]]
    <3>1. /\ Len(none) \in Nat /\ Len(one) = Len(none) + 1
          /\ \A m \in 1..Len(none) : one[m] = none[m]
      BY <1>1
    <3>2. QED
      BY <3>1, DecimalNext
  <2>2. DigitValue["0"] = 0
    BY DEF DigitValue
  <2>3. QED
    BY <1>1, <1>2, <1>3, <2>1, <2>2
<1>4. LastNumber(s, k, a, a)
  BY DEF LastNumber
<1>5. s[a + 1] # "0" => NumberBehind(s, k, a, a, 0, FALSE)
  BY <1>2, <1>4 DEF NumberBehind, none
<1>6. ASSUME s[a + 1] = "0" PROVE NumberBehind(s, k, a + 1, a, 0, TRUE)
  <2>1. \A l \in (a + 1)..(a + 1) : IsDigit(s[l])
    BY <1>6 DEF IsDigit, DigitValue
  <2>2. LastNumber(s, k, a + 1, a)
    BY <2>1 DEF LastNumber
  <2>3. QED
    BY <1>3, <1>6, <2>2 DEF NumberBehind, one
<1>7. QED
  BY <1>5, <1>6

\* Another digit.
LEMMA NumberLonger ==
  ASSUME NEW s \in Seq(Characters), NEW k \in Nat, NEW a \in Nat,
         a < Len(s), IsDigit(s[a + 1]),
         NEW b \in Nat, NEW w \in Nat, NEW z \in BOOLEAN, NumberBehind(s, k, a, b, w, z)
  PROVE  NumberBehind(s, k, a + 1, b, w * 10 + DigitValue[s[a + 1]], z)
<1> DEFINE now == SubSeq(s, b + 1, a)
           longer == SubSeq(s, b + 1, a + 1)
<1>1. /\ b < Len(s) /\ LastNumber(s, k, a, b) /\ w = Decimal(now)
      /\ z => b < a
      /\ z <=> s[b + 1] = "0"
  BY DEF NumberBehind
<1>2. b \in k..a /\ ~IsDigit(s[b]) /\ \A l \in (b + 1)..a : IsDigit(s[l])
  BY <1>1 DEF LastNumber
<1>3. Len(now) \in Nat /\ Len(longer) = Len(now) + 1 /\ longer[Len(longer)] = s[a + 1]
  BY <1>2
<1>4. \A m \in 1..Len(now) : longer[m] = now[m]
  BY <1>2
<1> HIDE DEF now, longer
<1>5. Decimal(longer) = 10 * w + DigitValue[s[a + 1]]
  <2>1. Decimal(longer) = 10 * Decimal(now) + DigitValue[longer[Len(longer)]]
    BY <1>3, <1>4, DecimalNext
  <2>2. QED
    BY <1>1, <1>3, <2>1
<1>6. 10 * w = w * 10
  OBVIOUS
<1>7. w * 10 + DigitValue[s[a + 1]] = Decimal(longer)
  BY <1>5, <1>6
<1>8. LastNumber(s, k, a + 1, b)
  BY <1>2 DEF LastNumber
<1>9. z => b < a + 1
  BY <1>1, <1>2
<1>10. QED
  BY <1>1, <1>7, <1>8, <1>9 DEF NumberBehind, longer

\* A text that ends within the numbers of a conversion is no format.
LEMMA NoEnd ==
  ASSUME text \in Seq(Characters), i = Len(text), NEW k \in 1..Len(text),
         ConversionFrom(k)
  PROVE  MeaningsFrom(text)[1] = {}
<1>1. /\ text[k] = "%" /\ Meant(text, f, k)
      /\ \A l \in (k + 1)..Len(text) : InNumber(text[l])
  BY DEF ConversionFrom
<1>2. PiecesAt(text, k) = {}
  BY <1>1, NoPiece
<1>3. QED
  BY <1>1, <1>2, MeantNone

\* Nothing changes but the place.
LEMMA ConversionStays ==
  ASSUME NEW k \in Nat, ConversionFrom(k), text' = text, f' = f, i \in Nat,
         i' = i \/ (i' = i + 1 /\ InNumber(text[i + 1]))
  PROVE  ConversionFrom(k)'
<1>1. /\ k <= i /\ text[k] = "%" /\ Meant(text, f, k)
      /\ \A l \in (k + 1)..i : InNumber(text[l])
  BY DEF ConversionFrom
<1>2. k <= i'
  BY <1>1
<1>3. \A l \in (k + 1)..i' : InNumber(text'[l])
  <2>1. \A l \in (k + 1)..i' : l \in (k + 1)..i \/ (l = i + 1 /\ i' = i + 1)
    OBVIOUS
  <2>2. QED
    BY <1>1, <2>1
<1>4. QED
  BY <1>1, <1>2, <1>3 DEF ConversionFrom

LEMMA FmtNumberParses ==
  ASSUME BuildInv, ParseInv, FmtNumber
  PROVE  ParseInv'
<1>1. /\ label = "number" /\ text' = text /\ f' = f /\ wid' = 0
      /\ label' = IF AtEnd THEN "invalid" ELSE "digits"
      /\ zero' = (~AtEnd /\ Next1 = "0")
      /\ i' = IF zero' THEN i + 1 ELSE i
  BY DEF FmtNumber, Goto
<1>2. text \in Seq(Characters) /\ Len(text) \in Nat /\ i \in 0..Len(text)
  BY <1>1, ParsingTypes DEF Building
<1>3. PICK k \in 1..Len(text) : ConversionFrom(k) /\ ~IsDigit(text[i])
  BY <1>1 DEF ParseInv
<1>4. CASE AtEnd
  <2>1. i = Len(text)
    BY <1>2, <1>4 DEF AtEnd
  <2>2. MeaningsFrom(text)[1] = {}
    BY <1>2, <1>3, <2>1, NoEnd
  <2>3. QED
    BY <1>1, <1>4, <2>2 DEF ParseInv, PiecesAreRight, Meanings
<1>5. CASE ~AtEnd
  <2>1. i < Len(text) /\ k <= i /\ Next1 = text[i + 1]
    BY <1>2, <1>3, <1>5 DEF AtEnd, Next1, ConversionFrom
  <2>2. InNumber("0")
    BY DEF InNumber, IsDigit, DigitValue
  <2>3. ConversionFrom(k)'
    <3>1. i \in Nat /\ k \in Nat /\ (i' = i \/ (i' = i + 1 /\ InNumber(text[i + 1])))
      <4>1. CASE Next1 = "0"
        <5>1. zero' = TRUE /\ i' = i + 1
          BY <1>1, <1>5, <4>1
        <5>2. QED
          BY <1>2, <2>1, <2>2, <4>1, <5>1
      <4>2. CASE Next1 # "0"
        <5>1. zero' = FALSE /\ i' = i
          BY <1>1, <1>5, <4>2
        <5>2. QED
          BY <1>2, <5>1
      <4>3. QED
        BY <4>1, <4>2
    <3>2. QED
      BY <1>1, <1>3, <3>1, ConversionStays
  <2>4. PICK b \in Nat : b = i
    BY <1>2
  <2>5. NumberBehind(text, k, i', b, 0, zero')
    <3>1. /\ text[b + 1] # "0" => NumberBehind(text, k, b, b, 0, FALSE)
          /\ text[b + 1] = "0" => NumberBehind(text, k, b + 1, b, 0, TRUE)
      <4>1. k \in Nat /\ k <= b /\ b < Len(text) /\ ~IsDigit(text[b])
        BY <1>2, <1>3, <2>1, <2>4
      <4>2. QED
        BY <1>2, <4>1, NumberBegins
    <3>2. CASE text[b + 1] = "0"
      <4>1. zero' = TRUE /\ i' = b + 1
        BY <1>1, <1>5, <2>1, <2>4, <3>2
      <4>2. QED
        BY <3>1, <3>2, <4>1
    <3>3. CASE text[b + 1] # "0"
      <4>1. zero' = FALSE /\ i' = b
        BY <1>1, <1>5, <2>1, <2>4, <3>3
      <4>2. QED
        BY <3>1, <3>3, <4>1
    <3>4. QED
      BY <3>2, <3>3
  <2>6. NumberBehind(text, k, i, b, wid, zero)'
    BY <1>1, <2>5
  <2>7. b \in k..i'
    BY <1>1, <1>2, <2>1, <2>4
  <2>8. label' = "digits"
    BY <1>1, <1>5
  <2>9. QED
    BY <1>1, <2>3, <2>6, <2>7, <2>8 DEF ParseInv, PiecesAreRight
<1>6. QED
  BY <1>4, <1>5


LEMMA FmtDigitsParses ==
  ASSUME BuildInv, ParseInv, FmtDigits
  PROVE  ParseInv'
<1>1. label = "digits" /\ text' = text /\ f' = f /\ zero' = zero
  BY DEF FmtDigits
<1>2. /\ text \in Seq(Characters) /\ Len(text) \in Nat /\ i \in 0..Len(text)
      /\ zero \in BOOLEAN
  BY <1>1, ParsingTypes DEF Building
<1>3. wid \in Nat
  BY DEF BuildInv, BuildTypeOK
<1>4. PICK k \in 1..Len(text) : \E b \in k..i :
        ConversionFrom(k) /\ NumberBehind(text, k, i, b, wid, zero)
  BY <1>1 DEF ParseInv
<1>5. PICK b \in k..i : ConversionFrom(k) /\ NumberBehind(text, k, i, b, wid, zero)
  BY <1>4
<1>6. b \in Nat
  BY <1>5
<1>7. CASE AtEnd
  <2>1. label' = "invalid"
    BY <1>7 DEF FmtDigits
  <2>2. i = Len(text)
    BY <1>2, <1>7 DEF AtEnd
  <2>3. MeaningsFrom(text)[1] = {}
    BY <1>2, <1>5, <2>2, NoEnd
  <2>4. QED
    BY <1>1, <2>1, <2>3 DEF ParseInv, PiecesAreRight, Meanings
<1>8. CASE ~AtEnd /\ IsDigit(Next1)
  <2>1. label' = "digits" /\ i' = i + 1 /\ wid' = wid * 10 + DigitValue[Next1]
    <3>1. Next1 \notin {".", "-"}
      BY <1>8 DEF IsDigit, DigitValue
    <3>2. QED
      BY <1>1, <1>8, <3>1 DEF FmtDigits
  <2>2. i < Len(text) /\ Next1 = text[i + 1] /\ i + 1 <= Len(text)
    BY <1>2, <1>8 DEF AtEnd, Next1
  <2>3. InNumber(text[i + 1])
    BY <1>8, <2>2 DEF InNumber
  <2>4. ConversionFrom(k)'
    BY <1>1, <1>2, <1>5, <2>1, <2>3, ConversionStays
  <2>5. NumberBehind(text, k, i + 1, b, wid * 10 + DigitValue[text[i + 1]], zero)
    <3>1. k \in Nat /\ b \in Nat /\ i \in Nat /\ IsDigit(text[i + 1])
      BY <1>2, <1>6, <1>8, <2>2
    <3>2. QED
      BY <1>2, <1>3, <1>5, <1>6, <2>2, <3>1, NumberLonger
  <2>6. NumberBehind(text, k, i, b, wid, zero)'
    BY <1>1, <2>1, <2>2, <2>5
  <2>7. b \in k..i'
    BY <1>2, <1>5, <2>1
  <2>8. QED
    BY <1>1, <2>1, <2>4, <2>6, <2>7 DEF ParseInv, PiecesAreRight
<1>9. CASE ~AtEnd /\ ~IsDigit(Next1) /\ Next1 \in {".", "-"}
  <2>1. label' = "number" /\ i' = i + 1
    BY <1>9 DEF FmtDigits
  <2>2. i < Len(text) /\ Next1 = text[i + 1]
    BY <1>2, <1>9 DEF AtEnd, Next1
  <2>3. InNumber(text[i + 1])
    BY <1>9, <2>2 DEF InNumber
  <2>4. ConversionFrom(k)'
    BY <1>1, <1>2, <1>5, <2>1, <2>3, ConversionStays
  <2>5. ~IsDigit(text'[i'])
    BY <1>1, <1>9, <2>1, <2>2
  <2>6. QED
    BY <1>1, <2>1, <2>4, <2>5 DEF ParseInv, PiecesAreRight
<1>10. CASE ~AtEnd /\ ~IsDigit(Next1) /\ Next1 \notin {".", "-"}
  <2>1. label' = "type" /\ i' = i /\ wid' = wid
    BY <1>10 DEF FmtDigits
  <2>2. i < Len(text) /\ Next1 = text[i + 1]
    BY <1>2, <1>10 DEF AtEnd, Next1
  <2>3. ~InNumber(text[i + 1])
    BY <1>10, <2>2 DEF InNumber
  <2>4. ConversionFrom(k)'
    BY <1>1, <1>2, <1>5, <2>1, ConversionStays
  <2>5. NumberBehind(text, k, i, b, wid, zero)' /\ b \in k..i'
    BY <1>1, <1>5, <2>1
  <2>6. i' < Len(text') /\ ~InNumber(text'[i' + 1])
    BY <1>1, <2>1, <2>2, <2>3
  <2>7. QED
    BY <1>1, <2>1, <2>4, <2>5, <2>6 DEF ParseInv, PiecesAreRight
<1>11. QED
  BY <1>7, <1>8, <1>9, <1>10

\* At the beginning nothing has been read.
LEMMA MeantAll ==
  ASSUME NEW s, Len(s) \in Nat
  PROVE  Meant(s, <<>>, 1)
<1> DEFINE m == MeaningsFrom(s)
<1>1. 1 \in 1..(Len(s) + 1)
  OBVIOUS
<1>2. PICK S : \A k \in 1..(Len(s) + 1) : \A t \in m[k] :
                 t \in Seq(S) /\ (k <= Len(s) => Len(t) >= 1)
  BY MeaningsAreSequences
<1> HIDE DEF m
<1>3. \A t \in m[1] : <<>> \o t = t
  BY <1>1, <1>2
<1>4. m[1] = {<<>> \o t : t \in m[1]}
  BY <1>3
<1>5. QED
  BY <1>4 DEF Meant, m

\* The same, with what is known at the type and what follows for the piece as
\* predicates.
AtType(s, n, k, j, long, hs, b, w, z, at) ==
  /\ s \in Seq(Characters) /\ n \in Nat /\ n = Len(s)
  /\ k \in Nat /\ j \in Nat /\ s[k] = "%" /\ k \in 1..n
  /\ long \in 0..2 /\ hs \in 0..2
  /\ TypeStands(s, n, k, j, long, hs)
  /\ z \in BOOLEAN /\ NumberBehind(s, k, j, b, w, z)
  /\ at \in Nat /\ at = j + 1 + long + hs

PieceFound(s, n, k, long, w, z, at) ==
  /\ at <= n /\ s[at] \in TypesFor(long) =>
       /\ at \in k..n
       /\ PiecesAt(s, k) = {<<[type |-> s[at], long |-> long, wid |-> w,
                               zero |-> z, ordinary |-> <<>>], at>>}
  /\ ~(at <= n /\ s[at] \in TypesFor(long)) => PiecesAt(s, k) = {}

LEMMA PieceAtType ==
  ASSUME NEW s, NEW n, NEW k, NEW j, NEW long, NEW hs, NEW b, NEW w, NEW z, NEW at,
         AtType(s, n, k, j, long, hs, b, w, z, at)
  PROVE  PieceFound(s, n, k, long, w, z, at)
BY SMTT(30), PieceHere DEF AtType, PieceFound

LEMMA FmtTypeParses ==
  ASSUME BuildInv, ParseInv, FmtType
  PROVE  ParseInv'
<1> DEFINE n == Len(text)
           long == Times("l", i + 1)
           hs == Times("h", i + 1 + long)
           at == i + 1 + long + hs
           piece == [type |-> text[at], long |-> long, wid |-> wid, zero |-> zero,
                     ordinary |-> <<>>]
<1>1. label = "type" /\ text' = text
  BY DEF FmtType
<1>2. /\ text \in Seq(Characters) /\ n \in Nat /\ i \in 0..n
      /\ f \in Seq(Formats) /\ Len(f) \in Nat /\ zero \in BOOLEAN
  BY <1>1, ParsingTypes DEF Building
<1>3. long \in 0..2 /\ hs \in 0..2 /\ at \in Nat
  BY <1>2, TimesType
<1>4. /\ label' = "start" =>
           /\ at <= n /\ text[at] \in TypesFor(long)
           /\ i' = at /\ f' = Append(f, piece)
      /\ label' = "invalid" => ~(at <= n /\ text[at] \in TypesFor(long))
      /\ label' = "too_many" => Len(f) >= MaxFormat
      /\ label' \in {"start", "invalid", "too_many"}
  <2>1. label' \in {"start", "invalid", "too_many"}
    BY <1>2, <1>3 DEF FmtType
  <2>2. ASSUME label' = "start"
        PROVE  /\ at <= n /\ text[at] \in TypesFor(long)
               /\ i' = at /\ f' = Append(f, piece)
    BY <1>2, <1>3, <2>2, FormatAssumption DEF FmtType
  <2>3. ASSUME label' = "invalid"
        PROVE  ~(at <= n /\ text[at] \in TypesFor(long))
    BY <1>2, <1>3, <2>3 DEF FmtType
  <2>4. ASSUME label' = "too_many"
        PROVE  Len(f) >= MaxFormat
    BY <1>2, <1>3, <2>4 DEF FmtType
  <2>5. QED
    BY <2>1, <2>2, <2>3, <2>4
<1>5. PICK k \in 1..n : \E b \in k..i :
        ConversionFrom(k) /\ NumberBehind(text, k, i, b, wid, zero)
  BY <1>1 DEF ParseInv
<1>6. PICK b \in k..i : ConversionFrom(k) /\ NumberBehind(text, k, i, b, wid, zero)
  BY <1>5
<1>7. /\ k <= i /\ text[k] = "%" /\ Meant(text, f, k)
      /\ \A m \in (k + 1)..i : InNumber(text[m])
  BY <1>6 DEF ConversionFrom
<1>8. i < n /\ ~InNumber(text[i + 1])
  BY <1>1 DEF ParseInv
<1>9. /\ StandsAt(text, n, i + 1, "l", long)
      /\ StandsAt(text, n, i + 1 + long, "h", hs)
  BY <1>2, <1>3, TimesStands
<1> HIDE DEF long, hs
<1>10. TypeStands(text, n, k, i, long, hs)
  BY <1>7, <1>8, <1>9 DEF TypeStands
<1>11. /\ at <= n /\ text[at] \in TypesFor(long) =>
            at \in k..n /\ PiecesAt(text, k) = {<<piece, at>>}
       /\ ~(at <= n /\ text[at] \in TypesFor(long)) => PiecesAt(text, k) = {}
  <2>1. i \in Nat /\ k \in Nat
    BY <1>2
  <2> DEFINE a == at
  <2>2. a \in Nat /\ a = i + 1 + long + hs
    BY <1>3
  <2> HIDE DEF a
  <2>3. /\ a <= n /\ text[a] \in TypesFor(long) =>
             /\ a \in k..n
             /\ PiecesAt(text, k) = {<<[type |-> text[a], long |-> long, wid |-> wid,
                                        zero |-> zero, ordinary |-> <<>>], a>>}
        /\ ~(a <= n /\ text[a] \in TypesFor(long)) => PiecesAt(text, k) = {}
    <3>1. AtType(text, n, k, i, long, hs, b, wid, zero, a)
      BY <1>2, <1>3, <1>6, <1>7, <1>10, <2>1, <2>2 DEF AtType
    <3>2. PieceFound(text, n, k, long, wid, zero, a)
      BY <3>1, PieceAtType
    <3>3. QED
      BY <3>2 DEF PieceFound
  <2>4. QED
    BY <2>3 DEF a
<1> HIDE DEF at
<1>12. CASE label' = "start"
  <2>1. piece \in Formats
    <3>1. text[at] \in Types
      BY <1>4, <1>12 DEF TypesFor, Types
    <3>2. <<>> \in Seq(Characters) /\ wid \in Nat
      BY EmptySeq DEF BuildInv, BuildTypeOK
    <3>3. QED
      BY <1>2, <1>3, <3>1, <3>2 DEF Formats
  <2>2. at \in k..n /\ PiecesAt(text, k) = {<<piece, at>>}
    BY <1>4, <1>11, <1>12
  <2>3. i' = at /\ f' = Append(f, piece)
    BY <1>4, <1>12
  <2> HIDE DEF piece
  <2>4. Meant(text, Append(f, piece), at + 1)
    BY <1>2, <1>7, <2>1, <2>2, MeantOne
  <2>5. Meant(text, f, i + 1)'
    BY <1>1, <2>3, <2>4
  <2>6. QED
    BY <1>12, <2>5 DEF ParseInv, PiecesAreRight
<1>13. CASE label' = "invalid"
  <2>1. PiecesAt(text, k) = {}
    BY <1>4, <1>11, <1>13
  <2>2. MeaningsFrom(text)[1] = {}
    BY <1>2, <1>7, <2>1, MeantNone
  <2>3. QED
    BY <1>1, <1>13, <2>2 DEF ParseInv, PiecesAreRight, Meanings
<1>14. CASE label' = "too_many"
  <2>1. \A u \in MeaningsFrom(text)[1] : Len(u) > Len(f)
    BY <1>2, <1>7, MeantLonger
  <2>2. \A u \in MeaningsFrom(text)[1] : Len(u) > MaxFormat
    BY <1>2, <1>4, <1>14, <2>1, FormatAssumption
  <2>3. QED
    BY <1>1, <1>14, <2>2 DEF ParseInv, PiecesAreRight, Meanings
<1>15. QED
  BY <1>4, <1>12, <1>13, <1>14

LEMMA BuildParses ==
  ASSUME IInv, ParseInv, BuildNext
  PROVE  ParseInv'
<1>1. BuildInv
  BY DEF IInv, TypeOK, StageInv, BuildInv
<1>2. QED
  BY <1>1, FormatStartParses, OrdStrParses, FmtNumberParses, FmtDigitsParses,
     FmtTypeParses DEF BuildNext

\* What follows the parser leaves the text alone and asks nothing of ParseInv.
LEMMA ParsedStays ==
  ASSUME ParseInv, label' \in {"args", "print", "fatal"}
  PROVE  ParseInv'
BY DEF ParseInv, PiecesAreRight

LEMMA ParseSteps ==
  ASSUME IInv, ParseInv, [Next]_vars
  PROVE  ParseInv'
<1>1. CASE BuildNext
  BY <1>1, BuildParses
<1>2. CASE Built
  <2>1. label' \in {"args", "fatal"}
    BY <1>2 DEF Built, Goto
  <2>2. QED
    BY <2>1, ParsedStays
<1>3. CASE BuildArg \/ Start
  <2>1. label' \in {"args", "print"}
    BY <1>3 DEF BuildArg, Start, Goto
  <2>2. QED
    BY <2>1, ParsedStays
<1>4. CASE UNCHANGED build
  <2>1. UNCHANGED <<text, label, i, f, zero, wid>>
    BY <1>4 DEF build
  <2>2. QED
    BY <2>1 DEF ParseInv, OrdinaryFrom, ConversionFrom, PiecesAreRight, Meanings
<1>5. QED
  BY <1>1, <1>2, <1>3, <1>4 DEF Next, Proceed, Client, vars

LEMMA ParseBegins ==
  ASSUME Init
  PROVE  ParseInv
<1>1. label = "start" /\ f = <<>> /\ i = 0 /\ text \in Texts
  BY DEF Init, BuildInit
<1>2. text \in Seq(Characters) /\ Len(text) \in Nat
  BY <1>1, FormatAssumption
<1>3. Meant(text, <<>>, 1)
  BY <1>2, MeantAll
<1>4. QED
  BY <1>1, <1>3 DEF ParseInv, PiecesAreRight

\* The parser accepts exactly the texts that are formats and fit, and cuts
\* them into the pieces they mean.
THEOREM PiecesFollow == Spec => []PiecesAreRight
<1>1. Init => ParseInv
  BY ParseBegins
<1>2. IInv /\ ParseInv /\ [Next]_vars => ParseInv'
  BY ParseSteps
<1>3. ParseInv => PiecesAreRight
  BY DEF ParseInv
<1>4. QED
  BY <1>1, <1>2, <1>3, PrintedAlways, PTL DEF Spec

=============================================================================
