----------------------------- MODULE Formatting -----------------------------
(***************************************************************************)
(* vsprintf.c, as a function.  A string is a sequence of characters        *)
(* without its final 0.                                                    *)
(***************************************************************************)
EXTENDS Integers, Sequences, SequencesExt

CONSTANT
    Word            \* 2^32: the number of values of an int

ASSUME WordAssumption == Word \in Nat /\ Word > 1 /\ Word % 2 = 0

DigitChars == <<"0", "1", "2", "3", "4", "5", "6", "7", "8", "9">>

Upper == DigitChars \o <<"A", "B", "C", "D", "E", "F">>
Lower == DigitChars \o <<"a", "b", "c", "d", "e", "f">>

is_digit(c) == c \in {DigitChars[n] : n \in 1 .. 10}

DigitValue(c) == (CHOOSE n \in 1 .. 10 : DigitChars[n] = c) - 1

Times(n, c) == [i \in 1 .. (IF n > 0 THEN n ELSE 0) |-> c]

-----------------------------------------------------------------------------
(* number                                                                  *)

(* The digits of an unsigned number: tmp[] backwards.                      *)
RECURSIVE Digits(_, _, _)
Digits(num, base, digits) ==
    IF num < base THEN <<digits[num + 1]>>
    ELSE Append(Digits(num \div base, base, digits), digits[(num % base) + 1])

Prefix(base, type) ==
    CASE "SPECIAL" \in type /\ base = 16 -> <<"0", IF "SMALL" \in type THEN "x" ELSE "X">>
      [] "SPECIAL" \in type /\ base = 8 -> <<"0">>
      [] OTHER -> <<>>

(* Mutant: the sign does not count for the width.                          *)
PadUnsigned(size, sign, prefix, precision, tmp) ==
    size - Len(prefix) - (IF precision > Len(tmp) THEN precision ELSE Len(tmp))

(* What is left of the field's width.                                      *)
Pad(size, sign, prefix, precision, tmp) ==
    size - Len(sign) - Len(prefix) - (IF precision > Len(tmp) THEN precision ELSE Len(tmp))

(* num is the value as an int.  Its negative is taken in an int, and the   *)
(* division by base is unsigned.                                           *)
number(num, base, size, precision, type) ==
    LET negative == "SIGN" \in type /\ num < 0
        sign == IF negative THEN <<"-">>
                ELSE IF "PLUS" \in type THEN <<"+">>
                ELSE IF "SPACE" \in type THEN <<" ">> ELSE <<>>
        tmp == Digits((IF negative THEN -num ELSE num) % Word, base,
                      IF "SMALL" \in type THEN Lower ELSE Upper)
        zeros == Times(precision - Len(tmp), "0")
        pad == Pad(size, sign, Prefix(base, type), precision, tmp)
        left == "LEFT" \in type
        zeropad == "ZEROPAD" \in type /\ ~left
    IN  (IF left \/ zeropad THEN <<>> ELSE Times(pad, " "))
        \o sign \o Prefix(base, type)
        \o (IF zeropad THEN Times(pad, "0") ELSE <<>>)
        \o zeros \o tmp
        \o (IF left THEN Times(pad, " ") ELSE <<>>)

-----------------------------------------------------------------------------
(* vsprintf                                                                *)

FlagOf == [c \in {"-", "+", " ", "#", "0"} |->
             CASE c = "-" -> "LEFT" [] c = "+" -> "PLUS" [] c = " " -> "SPACE"
               [] c = "#" -> "SPECIAL" [] c = "0" -> "ZEROPAD"]

(* The number of characters at the start of fmt that are in a set.         *)
Span(fmt, set) ==
    CHOOSE n \in 0 .. Len(fmt) :
        /\ \A i \in 1 .. n : fmt[i] \in set
        /\ n < Len(fmt) => fmt[n + 1] \notin set

Drop(fmt, n) == SubSeq(fmt, n + 1, Len(fmt))

(* Mutant: only one digit.                                                 *)
SkipOne(fmt) ==
    [value |-> DigitValue(fmt[1]), rest |-> Drop(fmt, 1)]

skip_atoi(fmt) ==
    LET n == Span(fmt, {DigitChars[d] : d \in 1 .. 10})
    IN  [value |-> FoldLeft(LAMBDA v, c : v * 10 + DigitValue(c), 0, SubSeq(fmt, 1, n)),
         rest |-> Drop(fmt, n)]

First(fmt) == IF fmt = <<>> THEN "" ELSE fmt[1]

(* A field width or precision: its value (-1: none), and what is left of   *)
(* the format and of the arguments.  A `*' takes an argument, but is not   *)
(* skipped.                                                                *)
Amount(fmt, args) ==
    IF is_digit(First(fmt))
    THEN [value |-> skip_atoi(fmt).value, fmt |-> skip_atoi(fmt).rest, args |-> args]
    ELSE IF First(fmt) = "*"
    THEN [value |-> Head(args), fmt |-> fmt, args |-> Tail(args)]
    ELSE [value |-> -1, fmt |-> fmt, args |-> args]

(* %c and %s                                                               *)
Padded(s, width, flags) ==
    IF "LEFT" \in flags THEN s \o Times(width - Len(s), " ")
    ELSE Times(width - Len(s), " ") \o s

Base == [c \in {"o", "p", "x", "X", "d", "i", "u", "b"} |->
           CASE c = "o" -> 8 [] c \in {"p", "x", "X"} -> 16 [] c = "b" -> 2 [] OTHER -> 10]

(* The conversion of one argument.                                         *)
Convert(c, arg, width, precision, flags) ==
    CASE c = "c" -> Padded(<<arg>>, width, flags)
      [] c = "s" -> Padded(IF precision < 0 \/ precision > Len(arg) THEN arg
                           ELSE SubSeq(arg, 1, precision), width, flags)
      [] OTHER ->
           LET wide == c = "p" /\ width = -1
           IN  number(arg, Base[c], IF wide THEN 8 ELSE width, precision,
                      flags \cup (IF wide THEN {"ZEROPAD"} ELSE {})
                            \cup (IF c = "x" THEN {"SMALL"} ELSE {})
                            \cup (IF c \in {"d", "i"} THEN {"SIGN"} ELSE {}))

(* str is the output so far, and stored what %n has written.               *)
RECURSIVE Vsprintf(_, _, _, _)
Vsprintf(fmt, args, str, stored) ==
    IF fmt = <<>> THEN [str |-> str, stored |-> stored]
    ELSE IF Head(fmt) # "%" THEN Vsprintf(Tail(fmt), args, Append(str, Head(fmt)), stored)
    ELSE
    LET nflags == Span(Tail(fmt), DOMAIN FlagOf)
        given == {FlagOf[fmt[i]] : i \in 2 .. (nflags + 1)}
        w == Amount(Drop(fmt, nflags + 1), args)
        back == First(w.fmt) = "*" /\ w.value < 0
        width == IF back THEN -w.value ELSE w.value
        flags == IF back THEN given \cup {"LEFT"} ELSE given
        p == IF First(w.fmt) = "." THEN Amount(Tail(w.fmt), w.args) ELSE w
        precision == IF First(w.fmt) # "." THEN -1 ELSE IF p.value < 0 THEN 0 ELSE p.value
        rest == IF First(p.fmt) \in {"h", "l", "L"} THEN Tail(p.fmt) ELSE p.fmt
        c == First(rest)
    IN  CASE c = "n" -> Vsprintf(Tail(rest), Tail(p.args), str, Append(stored, Len(str)))
          [] c \in {"c", "s"} \cup DOMAIN Base ->
               Vsprintf(Tail(rest), Tail(p.args),
                        str \o Convert(c, Head(p.args), width, precision, flags), stored)
          [] OTHER ->
               Vsprintf(IF c = "" THEN <<>> ELSE Tail(rest), p.args,
                        str \o (IF c = "%" THEN <<>> ELSE <<"%">>)
                            \o (IF c = "" THEN <<>> ELSE <<c>>), stored)

vsprintf(fmt, args) == Vsprintf(fmt, args, <<>>, <<>>)
=============================================================================
