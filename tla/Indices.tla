------------------------------ MODULE Indices -------------------------------
(***************************************************************************)
(* Integers of the script language at a small width, and the arithmetic on *)
(* positions and lengths that indexing and the library share               *)
(* (src/eval/target.rs, src/packages).  An integer has IntBytes bytes of   *)
(* ByteBits bits each; positions count from zero, as in the code.  Unit is *)
(* the value (), Error an error returned, Overflow a result that the width *)
(* cannot hold, where the code would panic.                                *)
(***************************************************************************)
EXTENDS Integers, Sequences

CONSTANTS ByteBits, IntBytes, Unit, Error, Overflow

ASSUME WidthAssumption ==
  /\ ByteBits \in Nat \ {0} /\ IntBytes \in Nat \ {0}
  /\ {Unit, Error, Overflow} \cap Int = {}

ByteBase == 2 ^ ByteBits
IntBits  == ByteBits * IntBytes

IntMin == -(2 ^ (IntBits - 1))
IntMax == 2 ^ (IntBits - 1) - 1
Ints   == IntMin..IntMax

Fits(n)  == IF n \in Ints THEN n ELSE Overflow

SmallerOf(x, y) == IF x <= y THEN x ELSE y
LargerOf(x, y)  == IF x >= y THEN x ELSE y
Abs(n) == IF n < 0 THEN -n ELSE n

\* Start and length of the portion of `len` elements from `start`, which counts
\* from the end when it is negative.
calc_offset_len(length, start, len) ==
  LET s == IF start < 0 THEN length - SmallerOf(Abs(start), length) ELSE start
  IN IF s >= length THEN <<length, 0>>
     ELSE <<s, IF len <= 0 THEN 0 ELSE SmallerOf(len, length - s)>>

NoIndex == -1

\* A position within `length`, or NoIndex where the code calls err_func.
calc_index(length, index, negative_count_from_end) ==
  IF length = 0 THEN NoIndex
  ELSE IF index < 0
  THEN IF negative_count_from_end /\ Abs(index) <= length THEN length - Abs(index) ELSE NoIndex
  ELSE IF index < length THEN index ELSE NoIndex

\* The start and length that library functions make of a range: of
\* `start..end`, and of `start..=end`, where the length must not overflow.
of_range(start, end) ==
  LET s == LargerOf(start, 0) IN <<s, LargerOf(end, s) - s>>

of_inclusive_range(start, end) ==
  LET s == LargerOf(start, 0)
      e == SmallerOf(LargerOf(end, s), IntMax - 1)
  IN <<s, Fits(e - s + 1)>>

\* The n elements of s from position at.
Part(s, at, n) == SubSeq(s, at + 1, at + n)
Upto(s, at)    == SubSeq(s, 1, at)
From(s, at)    == SubSeq(s, at + 1, Len(s))
=============================================================================
