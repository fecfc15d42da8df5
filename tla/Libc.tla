-------------------------------- MODULE Libc --------------------------------
(***************************************************************************)
(* The formatting half of the user C library, userspace/lib/libc/stdio.c:  *)
(* vsprintf with the conversions it knows, itoa and atoi of stdlib.c, and *)
(* printf, which formats into a 1024-byte stack buffer and writes          *)
(* strlen(buffer) bytes with SYS_WRITE.                                    *)
(*                                                                         *)
(* A text is a sequence of one-character strings.  `int' arithmetic is    *)
(* 32-bit: a signed overflow, undefined in C, is taken as the two's-       *)
(* complement wrap that i686 code produces.  The operators below compute  *)
(* it without leaving the 32-bit range TLC itself holds: the one negation *)
(* that wraps is -INT_MIN, and atoi accumulates the negated value, whose   *)
(* range reaches INT_MIN; its argument's digits are at most 2^31 in value. *)
(* A read of the digit table                                              *)
(* outside its 16 characters returns the byte stored there, unknown here: *)
(* Garbage.                                                                *)
(***************************************************************************)
EXTENDS Integers, Sequences, SequencesExt

\* The byte an out-of-bounds read of "0123456789abcdef" returns.
Garbage == "?"

PRINTF_BUFFER == 1024

\* A text of n characters none of which is '%': the literal parts of
\* format strings and the texts they print, whose characters no property
\* tells apart.
Lit(n) == [i \in 1..n |-> "."]

INT_MIN == -2147483647 - 1

\* -n in int arithmetic on i686: -INT_MIN wraps to INT_MIN.
Neg32(n) == IF n = INT_MIN THEN INT_MIN ELSE -n

\* C's `/' by a positive divisor, which truncates towards zero.
CDiv(a, b) == IF a >= 0 THEN a \div b ELSE (a + b - 1) \div b

DigitChars == <<"0","1","2","3","4","5","6","7","8","9","a","b","c","d","e","f">>

\* "0123456789abcdef"[i]
Digit(i) == IF i \in 0..15 THEN DigitChars[i + 1] ELSE Garbage

\* itoa's do-while loop: the digits of v, least significant first.
RECURSIVE DigitsOf(_, _)
DigitsOf(v, base) ==
  LET q == CDiv(v, base)
  IN  <<Digit(v - q * base)>> \o (IF q = 0 THEN << >> ELSE DigitsOf(q, base))

\* itoa(value, str, base): a '-' and value = -value for a negative base-10
\* value, the digits, then the reversal of the digits in place.
Itoa(value, base) ==
  IF value < 0 /\ base = 10
  THEN <<"-">> \o Reverse(DigitsOf(Neg32(value), base))
  ELSE Reverse(DigitsOf(value, base))

\* atoi(str): skip blanks and tabs, take one sign, then accumulate the
\* decimal digits, result * 10 + digit, and return result * sign.  The
\* fold keeps -result; with a magnitude of 2^31, "2147483648" and
\* "-2147483648" both give INT_MIN, as the wrapping code does.
Atoi(str) ==
  LET b    == SelectInSeq(str, LAMBDA c : c \notin {" ", "\t"})
      t    == IF b = 0 THEN << >> ELSE SubSeq(str, b, Len(str))
      sign == IF t # << >> /\ t[1] = "-" THEN -1 ELSE 1
      u    == IF t # << >> /\ t[1] \in {"-", "+"} THEN Tail(t) ELSE t
      e    == SelectInSeq(u, LAMBDA c : c \notin Range(SubSeq(DigitChars, 1, 10)))
      ds   == IF e = 0 THEN u ELSE SubSeq(u, 1, e - 1)
      val(c) == CHOOSE i \in 0..9 : DigitChars[i + 1] = c
      neg  == FoldLeft(LAMBDA r, c : r * 10 - val(c), 0, ds)
  IN  IF sign = -1 THEN neg ELSE Neg32(neg)

\* One conversion of vsprintf for conversion character c and the variadic
\* argument a: %d and %x through itoa (%x passes its unsigned value to
\* itoa's int parameter, so a value of 2^31 or more is a negative int in
\* base 16), %s by strcpy, %c, %%, and for any other character
\* the '%' and that character themselves.
Convert(c, a) ==
  CASE c = "d" -> Itoa(a, 10)
    [] c = "x" -> Itoa(a, 16)
    [] c = "s" -> a
    [] c = "c" -> <<a>>
    [] c = "%" -> <<"%">>
    [] OTHER   -> <<"%", c>>

\* The conversions that take a variadic argument.
TakesArg == {"d", "x", "s", "c"}

\* vsprintf(str, format, args): the text written to str, before its '\0'.
\* Characters other than '%' are copied; a '%' and the character after it
\* are one conversion.  (A format ending in '%' would read past its
\* terminator; no format of the tree does.)
RECURSIVE Vsprintf(_, _)
Vsprintf(fmt, args) ==
  LET j == SelectInSeq(fmt, LAMBDA c : c = "%")
  IN  IF j = 0 \/ j = Len(fmt) THEN fmt
      ELSE LET c == fmt[j + 1]
               n == IF c \in TakesArg THEN 1 ELSE 0
           IN  SubSeq(fmt, 1, j - 1)
                 \o Convert(c, IF n = 1 THEN Head(args) ELSE 0)
                 \o Vsprintf(SubSeq(fmt, j + 2, Len(fmt)), SubSeq(args, n + 1, Len(args)))

\* printf(format, ...): whether vsprintf's text and its '\0' fit
\* `char buffer[1024]'.
PrintfFitsBuffer(call) == Len(Vsprintf(call.fmt, call.args)) + 1 <= PRINTF_BUFFER

=============================================================================
