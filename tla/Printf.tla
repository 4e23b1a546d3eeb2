------------------------------- MODULE Printf -------------------------------
(***************************************************************************)
(* From a format and its arguments to the output: kernel/serial-stdio.c    *)
(* (vprintf) and libc/stdio.c (vsnprintf) build the pieces, collect the    *)
(* arguments and print.  Both call npr_sprintf once; a caller of npr may   *)
(* call it again and again until is_fini is set, as Client does.           *)
(***************************************************************************)
EXTENDS Sprintf, SequencesExt

vars == <<build, print>>

Init == BuildInit /\ PrintInit

\* A table of pieces that is full is refused as if it had overflowed.
Built ==
  /\ Goto("built", IF Len(f) >= MaxFormat THEN "fatal" ELSE "args")
  /\ i' = 0
  /\ UNCHANGED <<text, f, zero, wid, print>>

\* An iteration of the loop of npr_printf_build_varg.
BuildArg ==
  /\ label = "args"
  /\ i < Len(f)
  /\ i' = i + 1
  /\ IF IsConversion(f[i + 1])
     THEN \E a \in ArgsFor(f[i + 1]) : args' = Append(args, a)
     ELSE UNCHANGED args
  /\ UNCHANGED <<text, label, f, zero, wid, pc, place, char_index, number,
                 dst, dstlen, is_fini, sent>>

\* npr_sprintf_start.
Start ==
  /\ Goto("args", "print")
  /\ i = Len(f)
  /\ format_index' = 0 /\ arg_index' = 0 /\ state' = 0 /\ char_index' = 0
  /\ UNCHANGED <<text, i, f, zero, wid, pc, number, dst, is_fini, inputs>>

Client(n) ==
  /\ label = "print"
  /\ Call(n)
  /\ UNCHANGED build

Proceed ==
  \/ BuildNext /\ UNCHANGED print
  \/ Built \/ BuildArg \/ Start
  \/ PrintNext /\ UNCHANGED build

Next == Proceed \/ \E n \in Lengths : Client(n)

\* The caller's loop goes on, and some of its buffers are not empty.
Fairness ==
  /\ WF_vars(Proceed)
  /\ SF_vars(\E n \in Lengths \ {0} : Client(n))

Spec == Init /\ [][Next]_vars /\ Fairness

-----------------------------------------------------------------------------
(* What a format text means, and what is to be printed.                    *)

Decimal(s) ==
  LET value[m \in 0..Len(s)] ==
        IF m = 0 THEN 0 ELSE 10 * value[m - 1] + DigitValue[s[m]]
  IN value[Len(s)]

\* Position e ends the conversion that begins at k: the numbers end at a,
\* some l at b, some h right before the type.
InNumber(c) == IsDigit(c) \/ c \in {".", "-"}

Ends(s, k, a, b, e) ==
  /\ k <= a /\ a <= b /\ b < e
  /\ \A m \in (k + 1)..a : InNumber(s[m])
  /\ b - a <= 2 /\ \A m \in (a + 1)..b : s[m] = "l"
  /\ e - b <= 3 /\ \A m \in (b + 1)..(e - 1) : s[m] = "h"
  /\ s[e] \in IF b = a THEN {"d", "u", "x", "s", "c"} ELSE {"d", "u", "x"}

\* The digits from m + 1 to a are the last of the numbers that begin at k.
LastNumber(s, k, a, m) ==
  m \in k..a /\ ~IsDigit(s[m]) /\ \A l \in (m + 1)..a : IsDigit(s[l])

\* The last of several numbers counts.
Field(s, k, a) ==
  LET before == CHOOSE m \in k..a : LastNumber(s, k, a, m)
  IN SubSeq(s, before + 1, a)

ConversionOf(s, k, a, b, e) ==
  LET field == Field(s, k, a)
  IN [type |-> s[e], long |-> b - a, wid |-> Decimal(field),
      zero |-> field # <<>> /\ field[1] = "0", ordinary |-> <<>>]

\* Position e ends the ordinary characters that begin at k.
OrdinaryEnds(s, k, e) ==
  /\ e \in k..Len(s)
  /\ e = Len(s) \/ s[e + 1] = "%"
  /\ \A l \in k..e : s[l] # "%"

\* The piece at position k of a text, with the position where it ends.
PiecesAt(s, k) ==
  LET n == Len(s)
  IN IF s[k] = "%"
     THEN {<<ConversionOf(s, k, x[1], x[2], x[3]), x[3]>> :
             x \in {y \in (k..n) \X (k..n) \X (k..n) :
                      Ends(s, k, y[1], y[2], y[3])}}
     ELSE LET e == CHOOSE m \in k..n : OrdinaryEnds(s, k, m)
          IN {<<Ordinary(SubSeq(s, k, e)), e>>}

\* The pieces of the text from each position on; none if it is not a format.
MeaningsFrom(s) ==
  LET from[k \in 1..(Len(s) + 1)] ==
        IF k > Len(s) THEN {<<>>}
        ELSE UNION {{<<x[1]>> \o t : t \in from[x[2] + 1]} : x \in PiecesAt(s, k)}
  IN from

Meanings == MeaningsFrom(text)[1]

NumeralOf(n, base) ==
  LET numeral[m \in Nat] ==
        IF m < base THEN <<Digits[m + 1]>>
        ELSE Append(numeral[m \div base], Digits[(m % base) + 1])
  IN numeral[n]

\* The largest unsigned int in base 10 and the largest unsigned long in base 16
\* have no more digits than dump_digit_buf: 10 and 16 of them, with 32 and 64
\* bits and sixteen places.  Of the longs in base 10 this is not so.
ASSUME DigitsAssumption ==
  /\ Len(NumeralOf(2 * IntMax + 1, 10)) <= DigitBuf
  /\ Len(NumeralOf(2 * LongMax + 1, 16)) <= DigitBuf

Rendered(p, a) ==
  IF p.type \in Numbers
  THEN LET n == IF p.type = "d" THEN a.u
                ELSE Unsigned(a.u, IF p.long = 0 THEN IntMax ELSE LongMax)
           minus == IF n < 0 THEN <<"-">> ELSE <<>>
           digits == NumeralOf(Magnitude(n), Base(p))
           missing == p.wid - Len(minus) - Len(digits)
       IN IF p.zero THEN minus \o Fill("0", missing) \o digits
                    ELSE Fill(" ", missing) \o minus \o digits
  ELSE CASE p.type = "s" -> Fill(" ", p.wid - Len(a.p)) \o a.p
         [] p.type = "c" -> a.p
         [] p.type = "ordinary" -> p.ordinary

\* The argument of piece k is the one of its rank among the conversions.
Rank(k) == Cardinality({m \in 1..k : IsConversion(f[m])})
ArgOf(k) == IF IsConversion(f[k]) THEN args[Rank(k)] ELSE [p |-> <<>>, u |-> 0]
UpTo(k) == FlattenSeq([m \in 1..k |-> Rendered(f[m], ArgOf(m))])
Whole == UpTo(Len(f))

\* What the caller has in its buffers.
Printed == sent \o dst

\* An unsigned long of 2^63 and more prints as a negative number.
UnsignedFits ==
  \A k \in 1..Len(f) : f[k].type = "u" /\ f[k].long > 0 => ArgOf(k).u >= 0

-----------------------------------------------------------------------------
(* Properties.                                                             *)

TypeOK ==
  /\ BuildTypeOK
  /\ pc \in {"idle", "run", "convert", "overrun"}
  /\ args \in Seq(Arguments)
  /\ format_index \in 0..Len(f)
  /\ arg_index \in 0..Len(args)
  /\ state \in 0..3
  /\ char_index \in Nat
  /\ num_digit \in Nat
  /\ state > 0 => num_digit <= Len(dump_digit_buf)
  /\ sign \in {0, 1}
  /\ rest \in Nat
  /\ dump_digit_buf \in Seq(Output)
  /\ dstlen \in Nat
  /\ dst \in Seq(Output) /\ Len(dst) <= dstlen
  /\ is_fini \in BOOLEAN
  /\ sent \in Seq(Output)

\* npr_printf_build_format accepts exactly the texts that are formats and fit
\* into the table, and cuts them into the pieces they mean.
PiecesAreRight ==
  /\ label = "built" => Meanings = {f}
  /\ label = "invalid" => Meanings = {}
  /\ label = "too_many" => \A s \in Meanings : Len(s) > MaxFormat

\* However the output is cut into buffers, every character comes once and in
\* its place; nothing but a decimal long of more digits than dump_digit_buf has
\* places is stored beyond it (printf.c:128-134).
OutputInOrder ==
  /\ pc = "overrun" =>
       /\ Piece.type \in {"d", "u"} /\ Piece.long > 0
       /\ Len(NumeralOf(Magnitude(Arg.u), 10)) > DigitBuf
  /\ label = "print" /\ UnsignedFits => IsPrefix(Printed, Whole)

\* is_fini tells whether the output is complete: if it is not set, the buffer
\* is full; if it is set, everything has been printed, unless the function
\* stopped at a single character, where it leaves is_fini alone.
FlagIsRight ==
  label = "print" /\ pc = "idle" =>
    /\ ~is_fini => Len(dst) = dstlen
    /\ is_fini /\ UnsignedFits =>
         \/ Printed = Whole
         \/ /\ format_index < Len(f)
            /\ Piece.type = "c"
            /\ Len(dst) = dstlen

\* The parser ends on every text, and a caller that gives room again and again
\* is told at last that everything is printed, unless a number overruns
\* dump_digit_buf.
PrintEnds ==
  <>(\/ label \in {"invalid", "too_many", "fatal"}
     \/ pc = "idle" /\ is_fini
     \/ pc = "overrun")

-----------------------------------------------------------------------------
(* The inductive invariant behind TypeOK.                                  *)

\* An ordinary piece is under way; nothing is printed before the arguments
\* are complete.
StageInv ==
  /\ label = "ord_str" => f # <<>>
  /\ label \notin {"args", "print"} => args = <<>>
  /\ label # "print" => pc = "idle" /\ format_index = 0 /\ arg_index = 0

\* There is one argument for each conversion, of its type, and the place in
\* the arguments follows the place in the pieces.
ArgsInv ==
  /\ label = "args" => Len(args) = Rank(i)
  /\ label = "print" =>
       /\ i = Len(f)
       /\ Len(args) = Rank(Len(f))
       /\ arg_index = Rank(format_index)
  /\ label \in {"args", "print"} =>
       \A k \in 1..i : IsConversion(f[k]) => args[Rank(k)] \in ArgsFor(f[k])

\* Digits are converted for a number, and printed from those converted.
NumberInv ==
  /\ pc \in {"convert", "overrun"} =>
       format_index < Len(f) /\ Piece.type \in Numbers /\ state = 0
  /\ pc \notin {"convert", "overrun"} => num_digit <= Len(dump_digit_buf)

IInv == TypeOK /\ StageInv /\ ArgsInv /\ NumberInv

-----------------------------------------------------------------------------
(* The inductive invariant behind OutputInOrder and FlagIsRight.           *)

Reversed(buf, n) == [k \in 1..n |-> buf[n + 1 - k]]

\* The characters of a stage of piece p with argument a, and those of the
\* stages behind it: st is the state, sg, nd and buf tell the sign and the
\* digits of a number.
Run(p, a, st, nd, sg, buf) ==
  CASE p.type = "s" /\ st = 0 -> Fill(" ", p.wid - a.u)
    [] p.type = "s" /\ st = 1 -> a.p
    [] p.type = "c" -> a.p
    [] p.type = "ordinary" -> p.ordinary
    [] p.type \in Numbers /\ st = 0 -> Rendered(p, a)
    [] p.type \in Numbers /\ st = 1 ->
         IF p.zero THEN Fill("-", sg) ELSE Fill(" ", p.wid - (nd + sg))
    [] p.type \in Numbers /\ st = 2 ->
         IF p.zero THEN Fill("0", p.wid - (nd + sg)) ELSE Fill("-", sg)
    [] p.type \in Numbers /\ st = 3 -> Reversed(buf, nd)

After(p, a, st, nd, sg, buf) ==
  CASE p.type = "s" /\ st = 0 -> a.p
    [] p.type \in Numbers /\ st = 1 ->
         (IF p.zero THEN Fill("0", p.wid - (nd + sg)) ELSE Fill("-", sg))
           \o Reversed(buf, nd)
    [] p.type \in Numbers /\ st = 2 -> Reversed(buf, nd)
    [] OTHER -> <<>>

Left(p, a, st, ci, nd, sg, buf) ==
  LET run == Run(p, a, st, nd, sg, buf)
  IN SubSeq(run, ci + 1, Len(run)) \o After(p, a, st, nd, sg, buf)

\* The stages in which char_index counts what is printed.
Counts(p, st) ==
  \/ p.type \in {"s", "ordinary"}
  \/ p.type \in Numbers /\ st = IF p.zero THEN 2 ELSE 1

\* What is printed and what is left of the piece at hand are the pieces up to
\* this one.
OutputInv ==
  label = "print" =>
    IF format_index < Len(f)
    THEN /\ char_index <= Len(Run(Piece, Arg, state, num_digit, sign, dump_digit_buf))
         /\ char_index > 0 => Counts(Piece, state)
         /\ Left(Piece, Arg, state, char_index, num_digit, sign, dump_digit_buf)
              \in Seq(Output)
         /\ UnsignedFits =>
              Printed \o Left(Piece, Arg, state, char_index, num_digit, sign,
                              dump_digit_buf)
                = UpTo(format_index + 1)
    ELSE UnsignedFits => Printed = Whole

\* The digits of what is left of a number, and those converted from the end,
\* are its numeral.
ConvertInv ==
  pc \in {"convert", "overrun"} =>
    LET v == Value(Piece, Arg.u)
    IN /\ sign = IF v < 0 THEN 1 ELSE 0
       /\ NumeralOf(Magnitude(v), Base(Piece))
            = (IF rest = 0 THEN <<>> ELSE NumeralOf(rest, Base(Piece)))
                \o Reversed(dump_digit_buf, Len(dump_digit_buf))
       /\ pc = "overrun" => rest > 0 /\ Len(dump_digit_buf) = DigitBuf

\* The function returns when the buffer is full, or at the end.
FlagInv ==
  pc = "idle" =>
    /\ ~is_fini => Len(dst) = dstlen
    /\ is_fini /\ label = "print" /\ format_index < Len(f) =>
         Piece.type = "c" /\ Len(dst) = dstlen

PrintedInv ==
  /\ OutputInv /\ ConvertInv /\ FlagInv
  /\ Len(dump_digit_buf) <= DigitBuf
  /\ label # "print" => sent = <<>> /\ dst = <<>> /\ ~is_fini

-----------------------------------------------------------------------------
(* The inductive invariant behind PiecesAreRight.                          *)

\* What text s means is the pieces g, and then what it means from k on.
Meant(s, g, k) == MeaningsFrom(s)[1] = {g \o t : t \in MeaningsFrom(s)[k]}

\* The last piece is under way, and begins at k.
OrdinaryFrom(k) ==
  /\ k <= i + 1
  /\ text[k] # "%"
  /\ \A l \in k..i : text[l] # "%"
  /\ f[Len(f)] = Ordinary(SubSeq(text, k, i))
  /\ Meant(text, Front(f), k)

\* A conversion that begins at k has been read up to i.
ConversionFrom(k) ==
  /\ k <= i
  /\ text[k] = "%"
  /\ \A l \in (k + 1)..i : InNumber(text[l])
  /\ Meant(text, f, k)

\* The last number of a conversion from k to a is w, begins behind b, and with
\* a zero if z is set.
NumberBehind(s, k, a, b, w, z) ==
  /\ b < Len(s)
  /\ LastNumber(s, k, a, b)
  /\ w = Decimal(SubSeq(s, b + 1, a))
  /\ z => b < a
  /\ z <=> s[b + 1] = "0"

ParseInv ==
  /\ label = "start" => Meant(text, f, i + 1)
  /\ label = "ord_str" => \E k \in 1..Len(text) : OrdinaryFrom(k)
  /\ label = "number" => \E k \in 1..Len(text) :
                           ConversionFrom(k) /\ ~IsDigit(text[i])
  /\ label \in {"digits", "type"} =>
       \E k \in 1..Len(text) : \E b \in k..i :
         ConversionFrom(k) /\ NumberBehind(text, k, i, b, wid, zero)
  /\ label = "type" => i < Len(text) /\ ~InNumber(text[i + 1])
  /\ PiecesAreRight

=============================================================================
