------------------------------ MODULE Sprintf -------------------------------
(***************************************************************************)
(* npr/printf.c: npr_sprintf prints the pieces f and their arguments into  *)
(* a buffer of any length.  When the buffer is full it keeps its place in  *)
(* npr_printf_state and returns with is_fini = 0; the next call goes on    *)
(* there, into the next buffer.  An action is one stage of one piece: a    *)
(* run of padding, a sign, a digit converted, the digits, a string.        *)
(*                                                                         *)
(* di is Len(dst); fi and ai are kept in format_index and arg_index all    *)
(* along, where every return of the function leaves them.                  *)
(***************************************************************************)
EXTENDS FormatBuild, FiniteSets

CONSTANTS
  IntMax, LongMax,  \* of an int, and of a long or long long
  DigitBuf,         \* dump_digit_buf (16)
  Ints, Longs, Strings, Chars,
                    \* the arguments the callers give
  Lengths           \* the lengths of their buffers

ASSUME SprintfAssumption ==
  /\ IntMax \in Nat /\ LongMax \in Nat /\ DigitBuf \in Nat
  /\ Ints \subseteq -(IntMax + 1)..IntMax
  /\ Longs \subseteq -LongMax..LongMax
  /\ Strings \subseteq Seq(Characters)
  /\ Chars \subseteq Seq(Characters) /\ \A c \in Chars : Len(c) = 1
  /\ Lengths \subseteq Nat

VARIABLES
  pc,               \* in a call: "run", "convert" in the loop over digits, or
                    \* "overrun" when it stores behind dump_digit_buf
  args,
  format_index, arg_index, state, char_index, num_digit, sign,
  dump_digit_buf,   \* the fields of npr_printf_state
  rest,             \* sv or uv
  dst, dstlen,      \* the buffer of the call
  is_fini,
  sent              \* what the caller has taken from earlier calls

place == <<format_index, arg_index, state>>
number == <<num_digit, sign, dump_digit_buf, rest>>
inputs == <<args, dstlen, sent>>
print == <<pc, place, char_index, number, dst, is_fini, inputs>>

\* n2c_table_lower.
Digits == <<"0", "1", "2", "3", "4", "5", "6", "7",
            "8", "9", "a", "b", "c", "d", "e", "f">>
Output == Characters \cup {" ", "-"} \cup {Digits[n] : n \in 1..16}

\* npr_printf_arg: the characters of a string, or of %c, and a number.
Arguments == [p : Strings \cup Chars \cup {<<>>}, u : Int]

\* The arguments that npr_printf_build_varg takes for a piece.
IsConversion(p) == p.type # "ordinary"
ArgsFor(p) ==
  CASE p.type = "s" -> {[p |-> s, u |-> Len(s)] : s \in Strings}
    [] p.type = "c" -> {[p |-> c, u |-> 1] : c \in Chars}
    [] p.type \in {"d", "u", "x"} ->
         {[p |-> <<>>, u |-> n] : n \in IF p.long = 0 THEN Ints ELSE Longs}
    [] OTHER -> {}

PrintInit ==
  /\ pc = "idle"
  /\ args = <<>>
  /\ format_index = 0 /\ arg_index = 0 /\ state = 0 /\ char_index = 0
  /\ num_digit = 0 /\ sign = 0 /\ dump_digit_buf = <<>> /\ rest = 0
  /\ dst = <<>> /\ dstlen = 0
  /\ is_fini = FALSE
  /\ sent = <<>>

\* The caller takes what it got and calls again.
Call(n) ==
  /\ pc = "idle"
  /\ ~is_fini
  /\ pc' = "run"
  /\ sent' = sent \o dst
  /\ dst' = <<>>
  /\ dstlen' = n
  /\ is_fini' = FALSE
  /\ UNCHANGED <<place, char_index, number, args>>

-----------------------------------------------------------------------------

Piece == f[format_index + 1]
Arg == args[arg_index + 1]
Room == dstlen - Len(dst)

\* The function is at a stage of a piece of one of the types T.
At(T, stage) ==
  /\ pc = "run"
  /\ format_index < Len(f)
  /\ Piece.type \in T
  /\ state = stage

\* Mutant: the end of the buffer is not looked at.
WriteAll(s) == dst' = dst \o s

\* Write as much of s as there is room for.
Write(s) == dst' = dst \o SubSeq(s, 1, IF Len(s) <= Room THEN Len(s) ELSE Room)

\* Mutant: the place in a run that does not fit is counted from its last part.
OutputRunRelative(s, from) ==
  LET left == SubSeq(s, from + 1, Len(s))
  IN /\ Write(left)
     /\ is_fini' = (Len(left) <= Room)
     /\ char_index' = IF is_fini' THEN 0 ELSE Room
     /\ pc' = IF is_fini' THEN "run" ELSE "idle"

\* fill_with and dump_str: write s from char_index on, or stop at the end of
\* the buffer and remember where.
OutputRun(s, from) ==
  LET left == SubSeq(s, from + 1, Len(s))
  IN /\ Write(left)
     /\ is_fini' = (Len(left) <= Room)
     /\ char_index' = IF is_fini' THEN 0 ELSE from + Room
     /\ pc' = IF is_fini' THEN "run" ELSE "idle"

Fill(c, n) == [k \in 1..n |-> c]

NextPiece ==
  /\ format_index' = format_index + 1
  /\ arg_index' = IF IsConversion(Piece) THEN arg_index + 1 ELSE arg_index
  /\ state' = 0

\* %s: spaces up to the width, then the string.
StrPadding ==
  /\ At({"s"}, 0)
  /\ OutputRun(Fill(" ", Piece.wid - Arg.u), char_index)
  /\ state' = IF is_fini' THEN 1 ELSE 0
  /\ UNCHANGED <<format_index, arg_index, number, inputs>>

Str ==
  /\ At({"s"}, 1)
  /\ OutputRun(Arg.p, char_index)
  /\ IF is_fini' THEN NextPiece ELSE UNCHANGED place
  /\ UNCHANGED <<number, inputs>>

Ordinaries ==
  /\ At({"ordinary"}, 0)
  /\ OutputRun(Piece.ordinary, char_index)
  /\ IF is_fini' THEN NextPiece ELSE UNCHANGED place
  /\ UNCHANGED <<number, inputs>>

\* %c: with no room left the function returns is_fini as the previous piece
\* left it.
Char ==
  /\ At({"c"}, 0)
  /\ IF Room > 0
     THEN /\ dst' = dst \o Arg.p
          /\ NextPiece
          /\ UNCHANGED pc
     ELSE pc' = "idle" /\ UNCHANGED <<dst, place>>
  /\ UNCHANGED <<char_index, number, is_fini, inputs>>

-----------------------------------------------------------------------------
(* output_integer.                                                         *)

Numbers == {"d", "u", "x"}
Base(p) == IF p.type = "x" THEN 16 ELSE 10

\* The argument as output_integer gets it; an unsigned long arrives as a
\* signed long long, and only base 16 makes it unsigned again.
Unsigned(n, max) == IF n >= 0 THEN n ELSE n + 2 * (max + 1)
Value(p, n) ==
  IF p.type = "d" \/ (p.type = "u" /\ p.long > 0) THEN n
  ELSE Unsigned(n, IF p.long = 0 THEN IntMax ELSE LongMax)

Magnitude(v) == IF v < 0 THEN -v ELSE v

StartNumber ==
  /\ At(Numbers, 0)
  /\ LET v == Value(Piece, Arg.u)
     IN /\ sign' = IF v < 0 THEN 1 ELSE 0
        /\ rest' = Magnitude(v)
        /\ dump_digit_buf' = IF v = 0 THEN <<"0">> ELSE <<>>
  /\ pc' = "convert"
  /\ UNCHANGED <<place, char_index, num_digit, dst, is_fini, inputs>>

\* An iteration of the loop over the digits, the lowest first.
ConvertDigit ==
  /\ pc = "convert"
  /\ rest > 0
  /\ Len(dump_digit_buf) < DigitBuf
  /\ dump_digit_buf' =
       Append(dump_digit_buf, Digits[(rest % Base(Piece)) + 1])
  /\ rest' = rest \div Base(Piece)
  /\ UNCHANGED <<pc, place, char_index, num_digit, sign, dst, is_fini, inputs>>

\* The loop does not test the length of dump_digit_buf, the last field of
\* npr_printf_state: the next digit goes behind it.  What it destroys there is
\* undefined, and the model does not follow the program any further.
Overrun ==
  /\ pc = "convert"
  /\ rest > 0
  /\ Len(dump_digit_buf) = DigitBuf
  /\ pc' = "overrun"
  /\ UNCHANGED <<place, char_index, number, dst, is_fini, inputs>>

Converted ==
  /\ pc = "convert"
  /\ rest = 0
  /\ num_digit' = Len(dump_digit_buf)
  /\ state' = 1
  /\ pc' = "run"
  /\ UNCHANGED <<format_index, arg_index, char_index, sign, dump_digit_buf,
                 rest, dst, is_fini, inputs>>

Padding == Piece.wid - (num_digit + sign)

\* Mutant: is_fini is left alone when there is no room for the sign.
SignKeepsFlag(stage) ==
  /\ IF sign = 1 /\ Room = 0
     THEN pc' = "idle" /\ UNCHANGED <<dst, state, is_fini>>
     ELSE /\ dst' = IF sign = 1 THEN Append(dst, "-") ELSE dst
          /\ state' = stage + 1
          /\ UNCHANGED <<pc, is_fini>>

\* The sign, in a stage of its own.
Sign(stage) ==
  /\ IF sign = 1 /\ Room = 0
     THEN is_fini' = FALSE /\ pc' = "idle" /\ UNCHANGED <<dst, state>>
     ELSE /\ dst' = IF sign = 1 THEN Append(dst, "-") ELSE dst
          /\ state' = stage + 1
          /\ UNCHANGED <<pc, is_fini>>

Pad(c, stage) ==
  /\ OutputRun(Fill(c, Padding), char_index)
  /\ state' = IF is_fini' THEN stage + 1 ELSE stage

\* Spaces go before the sign, zeros behind it.
SignBeforeZeros ==
  /\ At(Numbers, 1)
  /\ Piece.zero
  /\ Sign(1)
  /\ UNCHANGED <<format_index, arg_index, char_index, number, inputs>>

Spaces ==
  /\ At(Numbers, 1)
  /\ ~Piece.zero
  /\ Pad(" ", 1)
  /\ UNCHANGED <<format_index, arg_index, number, inputs>>

Zeros ==
  /\ At(Numbers, 2)
  /\ Piece.zero
  /\ Pad("0", 2)
  /\ UNCHANGED <<format_index, arg_index, number, inputs>>

SignBehindSpaces ==
  /\ At(Numbers, 2)
  /\ ~Piece.zero
  /\ Sign(2)
  /\ char_index' = IF state' = 3 THEN 0 ELSE char_index
  /\ UNCHANGED <<format_index, arg_index, number, inputs>>

\* The highest digit first; num_digit counts those still to come.
NumberDigits ==
  LET left == [k \in 1..num_digit |-> dump_digit_buf[num_digit + 1 - k]]
  IN /\ At(Numbers, 3)
     /\ Write(left)
     /\ is_fini' = (num_digit <= Room)
     /\ num_digit' = IF is_fini' THEN num_digit ELSE num_digit - Room
     /\ pc' = IF is_fini' THEN "run" ELSE "idle"
     /\ IF is_fini' THEN NextPiece ELSE UNCHANGED place
     /\ UNCHANGED <<char_index, sign, dump_digit_buf, rest, inputs>>

\* All pieces are printed.
Finish ==
  /\ pc = "run"
  /\ format_index = Len(f)
  /\ is_fini' = TRUE
  /\ pc' = "idle"
  /\ UNCHANGED <<place, char_index, number, dst, inputs>>

PrintNext ==
  \/ StrPadding \/ Str \/ Ordinaries \/ Char
  \/ StartNumber \/ ConvertDigit \/ Overrun \/ Converted
  \/ SignBeforeZeros \/ Spaces \/ Zeros \/ SignBehindSpaces \/ NumberDigits
  \/ Finish

=============================================================================
