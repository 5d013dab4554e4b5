----------------------------- MODULE NumberLib ------------------------------
(***************************************************************************)
(* Integer arithmetic, bit fields and stepped ranges                       *)
(* (src/packages/arithmetic.rs, bit_field.rs, iter_basic.rs) at a small    *)
(* width.  U32Max stands for u32::MAX, the largest exponent and shift.     *)
(***************************************************************************)
EXTENDS Indices, Bitwise

CONSTANT U32Max

\* Checked operations: a result that does not fit is an error.
Checked(n) == IF n \in Ints THEN n ELSE Error

add(x, y) == Checked(x + y)

subtract(x, y) == Checked(x - y)

multiply(x, y) == Checked(x * y)

\* Division rounds towards zero; the remainder has the sign of x.
Quotient(x, y) == LET q == Abs(x) \div Abs(y) IN IF (x < 0) = (y < 0) THEN q ELSE -q

divide(x, y) == IF y = 0 THEN Error ELSE Checked(Quotient(x, y))

modulo_floored(x, y) == IF y = 0 \/ Quotient(x, y) \notin Ints THEN Error ELSE x % Abs(y)

\* checked_rem fails where the quotient overflows, though the remainder is 0.
modulo(x, y) == IF y = 0 \/ Quotient(x, y) \notin Ints THEN Error ELSE x - y * Quotient(x, y)

\* 0 ** 0 is 1.
power(x, y) ==
  IF y > U32Max \/ y < 0 THEN Error ELSE IF y = 0 THEN 1 ELSE Checked(x ^ y)

\* The two's complement of a value, and the value of bits.
Unsigned(n) == n % (2 ^ IntBits)
Signed(u)   == LET w == u % (2 ^ IntBits) IN IF w > IntMax THEN w - 2 ^ IntBits ELSE w

ShiftedLeft(x, n)  == Signed(Unsigned(x) * 2 ^ n)
ShiftedRight(x, n) == x \div (2 ^ n)

\* wrapping_shr(u32::MAX) shifts by all the bits but one.
SignOnly(x) == ShiftedRight(x, IntBits - 1)

AbsOrMax(y) == IF Abs(y) \in Ints THEN Abs(y) ELSE IntMax

\* A shift by a negative number is the other shift.
shift_left(x, y) ==
  IF y > U32Max THEN 0
  ELSE IF y < 0
  THEN LET z == AbsOrMax(y) IN IF z > U32Max \/ z >= IntBits THEN SignOnly(x) ELSE ShiftedRight(x, z)
  ELSE IF y >= IntBits THEN 0 ELSE ShiftedLeft(x, y)

shift_right(x, y) ==
  IF y > U32Max THEN SignOnly(x)
  ELSE IF y < 0 THEN shift_left(x, AbsOrMax(y))
  ELSE IF y >= IntBits THEN SignOnly(x) ELSE ShiftedRight(x, y)

neg(x) == Checked(-x)

abs(x) == Checked(Abs(x))

-----------------------------------------------------------------------------
\* Bit fields.

BitAnd(x, y) == Signed(Unsigned(x) & Unsigned(y))
BitOr(x, y)  == Signed(Unsigned(x) | Unsigned(y))
BitXor(x, y) == Signed(Unsigned(x) ^^ Unsigned(y))
BitNot(x)    == -x - 1

get_bit(value, bit) ==
  LET b == calc_index(IntBits, bit, TRUE)
  IN IF b = NoIndex THEN Error ELSE BitAnd(value, ShiftedLeft(1, b)) # 0

set_bit(value, bit, new_value) ==
  LET b    == calc_index(IntBits, bit, TRUE)
      mask == ShiftedLeft(1, b)
  IN IF b = NoIndex THEN Error
     ELSE IF new_value THEN BitOr(value, mask) ELSE BitAnd(value, BitNot(mask))

\* The number of bits from `bit` on, cut at the end of the integer.
BitCount(bit, bits) == IF bits + bit > IntBits THEN IntBits - bit ELSE bits

get_bits(value, start, bits) ==
  LET bit  == calc_index(IntBits, start, TRUE)
      n    == BitCount(bit, bits)
      mask == 2 ^ n - 1
  IN IF bits <= 0 THEN 0
     ELSE IF bit = NoIndex THEN Error
     ELSE IF bit = 0 /\ n = IntBits THEN value
     ELSE BitAnd(ShiftedRight(BitAnd(value, ShiftedLeft(mask, bit)), bit), mask)

set_bits(value, start, bits, new_value) ==
  LET bit  == calc_index(IntBits, start, TRUE)
      n    == BitCount(bit, bits)
      mask == 2 ^ n - 1
  IN IF bits <= 0 THEN value
     ELSE IF bit = NoIndex THEN Error
     ELSE IF bit = 0 /\ n = IntBits THEN new_value
     ELSE BitOr(BitAnd(value, BitNot(ShiftedLeft(mask, bit))),
                ShiftedLeft(BitAnd(new_value, mask), bit))

\* The range of bits of an inclusive range must lie within the integer.
bits_inclusive_range(start, end) ==
  LET from == LargerOf(start, 0)
      to   == LargerOf(end, from - 1)
  IN IF to >= IntBits THEN Error ELSE <<from, Fits(to - from + 1)>>

\* BitRange: the bits that `bits` iterates over.
BitRange(value, from, len) ==
  LET f == calc_index(IntBits, from, TRUE)
      n == IF len < 0 THEN 0 ELSE BitCount(f, len)
  IN IF f = NoIndex THEN Error
     ELSE [i \in 1..n |-> BitAnd(ShiftedRight(ShiftedRight(value, f), i - 1), 1) # 0]

-----------------------------------------------------------------------------
\* StepRange: an iterator that counts from `from` to `to` by `step` as long as
\* `dir` is not 0.  A sum that overflows ends it.

StepRange(from, to, step) ==
  LET n == Checked(from + step)
  IN IF n = from THEN Error
     ELSE [from |-> from, to |-> to, step |-> step,
           dir  |-> IF n = Error THEN 0
                    ELSE IF from < to /\ n > from THEN 1
                    ELSE IF from > to /\ n < from THEN -1 ELSE 0]

\* The iterator after a call of next(), and what the call returns.
StepNext_not_advanced(r) ==
  LET n   == Checked(r.from + r.step)
      end == n # Error /\ \/ r.dir > 0 /\ n >= r.to
                          \/ r.dir < 0 /\ n <= r.to
  IN IF r.dir = 0 \/ n = Error THEN [iter |-> r, item |-> Unit]
     ELSE [iter |-> [r EXCEPT !.dir = IF end THEN 0 ELSE @], item |-> r.from]

StepNext(r) ==
  LET n   == Checked(r.from + r.step)
      end == n # Error /\ \/ r.dir > 0 /\ n >= r.to
                          \/ r.dir < 0 /\ n <= r.to
  IN IF r.dir = 0 \/ n = Error THEN [iter |-> r, item |-> Unit]
     ELSE [iter |-> [r EXCEPT !.from = n, !.dir = IF end THEN 0 ELSE @], item |-> r.from]
=============================================================================
