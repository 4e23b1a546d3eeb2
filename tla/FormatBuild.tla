---------------------------- MODULE FormatBuild -----------------------------
(***************************************************************************)
(* npr/printf-format.c: npr_printf_build_format cuts a format text into    *)
(* pieces.  One action stands for one visit of a label (format_start,      *)
(* ord_str, parse_fmt_number) or of the loop over the digits of a width.   *)
(*                                                                         *)
(* %X prints as %x does but for the case of its letters, %p as %lx: they   *)
(* are the same pieces here.  h and hh have no effect.                     *)
(***************************************************************************)
EXTENDS Integers, Sequences

CONSTANTS
  Characters,       \* the characters texts are made of
  Texts,            \* the format texts
  MaxFormat         \* pieces the caller has room for (32, 16 in vsnprintf)

ASSUME FormatAssumption ==
  /\ Texts \subseteq Seq(Characters)
  /\ MaxFormat \in Nat

VARIABLES
  text,             \* format
  label,            \* where the function is, how it ended, or its caller
  i,                \* characters read; pieces, while arguments are collected
  f,                \* the pieces f[0] .. f[j-1], the last one under way
  zero, wid         \* zero_fill and wid of the conversion under way

build == <<text, label, i, f, zero, wid>>

DigitValue == [c \in {"0", "1", "2", "3", "4", "5", "6", "7", "8", "9"} |->
  CASE c = "0" -> 0 [] c = "1" -> 1 [] c = "2" -> 2 [] c = "3" -> 3
    [] c = "4" -> 4 [] c = "5" -> 5 [] c = "6" -> 6 [] c = "7" -> 7
    [] c = "8" -> 8 [] c = "9" -> 9]
IsDigit(c) == c \in DOMAIN DigitValue

\* A piece: type, width and zero_fill of a conversion, with the number of its
\* l; or the characters of an ordinary piece (ordinary and zero_fill).
Types == {"d", "u", "x", "s", "c", "ordinary"}
Formats == [type : Types, long : 0..2, wid : Nat, zero : BOOLEAN,
            ordinary : Seq(Characters)]
Ordinary(s) ==
  [type |-> "ordinary", long |-> 0, wid |-> 0, zero |-> FALSE, ordinary |-> s]

BuildTypeOK ==
  /\ text \in Seq(Characters)
  /\ label \in {"start", "ord_str", "number", "digits", "type",
                "built", "invalid", "too_many", "args", "print", "fatal"}
  /\ i \in 0..(IF label \in {"args", "print"} THEN Len(f) ELSE Len(text))
  /\ f \in Seq(Formats) /\ Len(f) <= MaxFormat
  /\ zero \in BOOLEAN
  /\ wid \in Nat

BuildInit ==
  /\ text \in Texts
  /\ label = "start"
  /\ i = 0
  /\ f = <<>>
  /\ zero = FALSE
  /\ wid = 0

-----------------------------------------------------------------------------

AtEnd == i >= Len(text)
Next1 == text[i + 1]
Goto(from, to) == label = from /\ label' = to

\* A conversion, or the first of some ordinary characters, or the end.
FormatStart ==
  /\ label = "start"
  /\ CASE AtEnd -> label' = "built" /\ UNCHANGED <<i, f>>
       [] ~AtEnd /\ Next1 = "%" ->
            label' = "number" /\ i' = i + 1 /\ UNCHANGED f
       [] ~AtEnd /\ Next1 # "%" /\ Len(f) >= MaxFormat ->
            label' = "too_many" /\ UNCHANGED <<i, f>>
       [] OTHER ->
            label' = "ord_str" /\ f' = Append(f, Ordinary(<<>>)) /\ UNCHANGED i
  /\ UNCHANGED <<text, zero, wid>>


OrdStr ==
  /\ label = "ord_str"
  /\ IF AtEnd
     THEN label' = "built" /\ UNCHANGED <<i, f>>
     ELSE /\ i' = i + 1
          /\ IF Next1 = "%"
             THEN label' = "number" /\ UNCHANGED f
             ELSE /\ f' = [f EXCEPT ![Len(f)].ordinary = Append(@, Next1)]
                  /\ UNCHANGED label
  /\ UNCHANGED <<text, zero, wid>>

FmtNumber ==
  /\ Goto("number", IF AtEnd THEN "invalid" ELSE "digits")
  /\ zero' = (~AtEnd /\ Next1 = "0")
  /\ i' = IF zero' THEN i + 1 ELSE i
  /\ wid' = 0
  /\ UNCHANGED <<text, f>>

\* Mutant: the sign is not skipped.
FmtDigitsStuck ==
  /\ label = "digits"
  /\ CASE AtEnd -> label' = "invalid" /\ UNCHANGED <<i, wid>>
       [] ~AtEnd /\ IsDigit(Next1) ->
            /\ i' = i + 1
            /\ wid' = wid * 10 + DigitValue[Next1]
            /\ UNCHANGED label
       [] ~AtEnd /\ Next1 \in {".", "-"} ->
            label' = "number" /\ UNCHANGED <<i, wid>>
       [] OTHER -> label' = "type" /\ UNCHANGED <<i, wid>>
  /\ UNCHANGED <<text, f, zero>>

\* Precision and minus sign are taken for the beginning of another width.
FmtDigits ==
  /\ label = "digits"
  /\ CASE AtEnd -> label' = "invalid" /\ UNCHANGED <<i, wid>>
       [] ~AtEnd /\ IsDigit(Next1) ->
            /\ i' = i + 1
            /\ wid' = wid * 10 + DigitValue[Next1]
            /\ UNCHANGED label
       [] ~AtEnd /\ Next1 \in {".", "-"} ->
            label' = "number" /\ i' = i + 1 /\ UNCHANGED wid
       [] OTHER -> label' = "type" /\ UNCHANGED <<i, wid>>
  /\ UNCHANGED <<text, f, zero>>

\* How many times c stands at position k, at most twice.
Times(c, k) ==
  IF k > Len(text) \/ text[k] # c THEN 0
  ELSE IF k = Len(text) \/ text[k + 1] # c THEN 1 ELSE 2

TypesFor(long) == IF long = 0 THEN Types \ {"ordinary"} ELSE {"d", "u", "x"}

\* l and ll, h and hh, and the type.
FmtType ==
  LET long == Times("l", i + 1)
      at == i + 1 + long + Times("h", i + 1 + long)
  IN /\ label = "type"
     /\ CASE at > Len(text) -> label' = "invalid" /\ UNCHANGED <<i, f>>
          [] at <= Len(text) /\ Len(f) >= MaxFormat ->
               label' = "too_many" /\ UNCHANGED <<i, f>>
          [] at <= Len(text) /\ Len(f) < MaxFormat
               /\ text[at] \notin TypesFor(long) ->
               label' = "invalid" /\ UNCHANGED <<i, f>>
          [] OTHER ->
               /\ label' = "start"
               /\ i' = at
               /\ f' = Append(f, [type |-> text[at], long |-> long,
                                  wid |-> wid, zero |-> zero,
                                  ordinary |-> <<>>])
     /\ UNCHANGED <<text, zero, wid>>

BuildNext == FormatStart \/ OrdStr \/ FmtNumber \/ FmtDigits \/ FmtType

=============================================================================
