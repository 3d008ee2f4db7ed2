-------------------------------- MODULE Digits ---------------------------------
(***************************************************************************)
(* What the module parser and the column decoder share: spans of bytes,    *)
(* and numbers put together from bits, from bytes and from groups of seven *)
(* bits.  The low digit always comes first.                                *)
(***************************************************************************)
EXTENDS Integers, Sequences, SequencesExt

\* What a span holds after its first n bytes.
Rest(bytes, n) == SubSeq(bytes, n + 1, Len(bytes))

Least(m, n) == IF m < n THEN m ELSE n

\* number \div base ^ k.
Shift(number, base, k) ==
  LET shift[i \in 0 .. k] == IF i = 0 THEN number ELSE shift[i - 1] \div base IN shift[k]

Digit(number, base, k) == Shift(number, base, k) % base

\* The number that has these digits.
Number(digits, base) ==
  LET n == Len(digits)
      high[i \in 0 .. n] == IF i = 0 THEN 0 ELSE base * high[i - 1] + digits[n - i + 1]
  IN  high[n]

\* How many bytes an integer of groups of seven bits takes: up to the first byte
\* that says it is the last, or all.
VarSize(bytes) ==
  LET last == SelectInSeq(bytes, LAMBDA byte : byte < 128)
  IN  IF last = 0 THEN Len(bytes) ELSE last

\* Its groups.
Groups(bytes) == [i \in 1 .. VarSize(bytes) |-> bytes[i] % 128]
===============================================================================
