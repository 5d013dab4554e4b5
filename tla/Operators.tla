----------------------------- MODULE Operators ------------------------------
(***************************************************************************)
(* What the operators of the language compute: the built-in functions      *)
(* (src/func/builtin.rs), the functions of the packages that are called    *)
(* where there is no built-in one, the shortcuts of the evaluator          *)
(* (src/eval/stmt.rs) and those of the virtual machine                     *)
(* (src/grain/vm/arith.rs, vm/mod.rs).                                     *)
(*                                                                         *)
(* A value is a record of its type and its content.  A float, or a         *)
(* decimal, is a multiple of the smallest positive one, One of which make  *)
(* 1.0; FLOAT::EPSILON is Epsilon of One.  Of their arithmetic only sums   *)
(* and differences are modelled: the others are the machine's as well.     *)
(***************************************************************************)
EXTENDS Indices, SequencesExt, FiniteSets

CONSTANTS Utf8, Ascii, Spaces, Replacement, U32Max,
          MaxSize,    \* Engine::max_array_size and max_string_size, 0 for none
          One, Epsilon, FloatMax,
          NoFn        \* there is no such function

A == INSTANCE ArrayLib
B == INSTANCE BlobLib
S == INSTANCE StringLib
N == INSTANCE NumberLib

I(n)      == [t |-> "int", v |-> n]
Bool(b)   == [t |-> "bool", v |-> b]
Char(c)   == [t |-> "char", v |-> c]
Str(s)    == [t |-> "str", v |-> s]
Blob(b)   == [t |-> "blob", v |-> b]
Array(a)  == [t |-> "array", v |-> a]
Nil       == [t |-> "unit", v |-> 0]
Decimal(n)   == [t |-> "decimal", v |-> n]
ExRange(a, b) == [t |-> "range", v |-> <<a, b>>]
InRange(a, b) == [t |-> "range=", v |-> <<a, b>>]

\* Floats are finite, infinite with a sign, or not a number.
NaN       == [t |-> "float", v |-> 0, c |-> "nan"]
Inf(sign) == [t |-> "float", v |-> sign, c |-> "inf"]
Float(n)  == IF n > FloatMax THEN Inf(1) ELSE IF n < -FloatMax THEN Inf(-1)
             ELSE [t |-> "float", v |-> n, c |-> "finite"]

Arithmetic  == {"+", "-", "*", "/", "%", "**"}
BitOps      == {"<<", ">>", "&", "|", "^"}
Comparisons == {"==", "!=", ">", ">=", "<", "<="}
RangeOps    == {"..", "..="}
Ops         == Arithmetic \cup BitOps \cup Comparisons \cup RangeOps

SameValue(x, y) == x.t = y.t /\ x.v = y.v /\ (x.t = "float" => x.c = y.c)

Sign(n) == IF n > 0 THEN 1 ELSE IF n < 0 THEN -1 ELSE 0

\* A comparison, given how x is ordered with respect to y.
Compared(op, order) ==
  CASE op = "==" -> order = 0 [] op = "!=" -> order # 0
    [] op = ">" -> order > 0 [] op = ">=" -> order >= 0
    [] op = "<" -> order < 0 [] op = "<=" -> order <= 0

\* The order of sequences of numbers.
Lexical(s, t) ==
  LET n == SmallerOf(Len(s), Len(t))
      d == {i \in 1..n : s[i] # t[i]}
      m == CHOOSE i \in d : \A j \in d : i <= j
  IN IF d = {} THEN Sign(Len(s) - Len(t)) ELSE Sign(s[m] - t[m])

\* Text is ordered by its bytes, which is the order of its characters.
Code(c) == Utf8[c][1]
Codes(s) == [i \in 1..Len(s) |-> Code(s[i])]

throw_on_size(n, r) == IF MaxSize > 0 /\ n > MaxSize THEN Error ELSE r

-----------------------------------------------------------------------------
\* Floats and decimals.

AsFloat(x) == IF x.t = "float" THEN x ELSE Float(x.v * One)
AsDecimal(x) == IF x.t = "decimal" THEN x.v ELSE x.v * One

float_arithmetic(op, x, y) ==
  LET s == IF op = "+" THEN 1 ELSE -1
  IN IF op \notin {"+", "-"} THEN NoFn
     ELSE CASE x.c = "nan" \/ y.c = "nan" -> NaN
            [] x.c = "inf" /\ y.c = "inf" -> IF x.v = s * y.v THEN x ELSE NaN
            [] x.c = "inf" -> x
            [] y.c = "inf" -> Inf(s * y.v)
            [] OTHER -> Float(x.v + s * y.v)

\* Floats are compared up to FLOAT::EPSILON of the larger one, or of 1.0 when
\* their product is zero, be it by underflow.  The maximum of NaN and 0 is 0, and
\* what is divided by an infinite maximum is NaN, with which nothing compares.
FloatCompared(op, x, y) ==
  LET zero == {v \in {x, y} : v.c = "finite" /\ v.v = 0} # {}
      m == IF 2 * Abs(x.v * y.v) <= One THEN One ELSE LargerOf(Abs(x.v), Abs(y.v))
      d == (x.v - y.v) * One
      e == Epsilon * m
  IN CASE x.c = "nan" \/ y.c = "nan" -> zero /\ op \in {"==", ">=", "<="}
       [] x.c = "inf" \/ y.c = "inf" -> FALSE
       [] op = "==" -> Abs(d) <= e
       [] op = "!=" -> Abs(d) > e
       [] op = ">"  -> d > e
       [] op = ">=" -> d > -e
       [] op = "<"  -> -d > e
       [] op = "<=" -> -d > -e

impl_float_exact(op, x, y) ==
  CASE op \in Comparisons -> Bool(Compared(op, Sign(x.v - y.v)))
    [] OTHER -> float_arithmetic(op, x, y)

impl_float(op, x, y) ==
  CASE op \in Comparisons -> Bool(FloatCompared(op, x, y))
    [] OTHER -> float_arithmetic(op, x, y)

\* Decimals are exact, and checked.
decimal_arithmetic(op, x, y) ==
  LET n == IF op = "+" THEN x + y ELSE x - y
  IN IF op \notin {"+", "-"} THEN NoFn
     ELSE IF Abs(n) > FloatMax THEN Error ELSE Decimal(n)

impl_decimal(op, x, y) ==
  CASE op \in Comparisons -> Bool(Compared(op, Sign(x - y)))
    [] OTHER -> decimal_arithmetic(op, x, y)

-----------------------------------------------------------------------------
\* get_builtin_binary_op_fn, by the types of the operands.

Made(r) == IF r = Error THEN Error ELSE I(r)

int_arithmetic(op, x, y) ==
  CASE op = "+"  -> Made(N!add(x, y))      [] op = "-"  -> Made(N!subtract(x, y))
    [] op = "*"  -> Made(N!multiply(x, y)) [] op = "/"  -> Made(N!divide(x, y))
    [] op = "%"  -> Made(N!modulo(x, y))   [] op = "**" -> Made(N!power(x, y))
    [] op = ">>" -> I(N!shift_right(x, y)) [] op = "<<" -> I(N!shift_left(x, y))
    [] op = "&"  -> I(N!BitAnd(x, y))      [] op = "|"  -> I(N!BitOr(x, y))
    [] op = "^"  -> I(N!BitXor(x, y))      [] OTHER -> NoFn

int_ops(op, x, y) ==
  CASE op \in Comparisons -> Bool(Compared(op, Sign(x - y)))
    [] op = ".."  -> ExRange(x, y)
    [] op = "..=" -> InRange(x, y)
    [] OTHER -> int_arithmetic(op, x, y)

BoolRank(b) == IF b THEN 1 ELSE 0

bool_ops(op, x, y) ==
  CASE op \in Comparisons -> Bool(Compared(op, BoolRank(x) - BoolRank(y)))
    [] op = "&" -> Bool(x /\ y)
    [] op = "|" -> Bool(x \/ y)
    [] op = "^" -> Bool(x # y)
    [] OTHER -> NoFn

str_ops(op, x, y) ==
  CASE op = "+" -> throw_on_size(S!bytes(x) + S!bytes(y), Str(S!add(x, y)))
    [] op = "-" -> Str(S!sub(x, y))
    [] op \in Comparisons -> Bool(Compared(op, Lexical(Codes(x), Codes(y))))
    [] OTHER -> NoFn

char_ops(op, x, y) ==
  CASE op = "+" -> throw_on_size(S!bytes(<<x, y>>), Str(<<x, y>>))
    [] op \in Comparisons -> Bool(Compared(op, Sign(Code(x) - Code(y))))
    [] OTHER -> NoFn

blob_ops(op, x, y) ==
  CASE op = "+" -> IF y = <<>> THEN Blob(x) ELSE IF x = <<>> THEN Blob(y)
                   ELSE throw_on_size(Len(x) + Len(y), Blob(x \o y))
    [] op = "==" -> Bool(x = y)
    [] op = "!=" -> Bool(x # y)
    [] OTHER -> NoFn

unit_ops(op) ==
  CASE op = "==" -> Bool(TRUE)
    [] op \in Comparisons -> Bool(FALSE)
    [] OTHER -> NoFn

\* A range that is open at one end.
open_range(op, x, y) ==
  LET a == IF x.t = "unit" THEN 0 ELSE x.v
      b == IF y.t = "unit" THEN IntMax ELSE y.v
  IN IF op = ".." THEN ExRange(a, b) ELSE InRange(a, b)

\* A character and a string are compared by the first two characters of the
\* string, and of a string that is the character: none comes before all.
Missing == -1
FirstTwo(s) == [i \in 1..2 |-> IF i <= Len(s) THEN Code(s[i]) ELSE Missing]

char_str_ops(op, x, y) ==
  CASE op = "+" -> throw_on_size(S!bytes(<<x>> \o y), Str(<<x>> \o y))
    [] op \in Comparisons -> Bool(Compared(op, Lexical(FirstTwo(<<x>>), FirstTwo(y))))
    [] OTHER -> NoFn

str_char_ops(op, x, y) ==
  CASE op = "+" -> throw_on_size(S!bytes(x \o <<y>>), Str(x \o <<y>>))
    [] op = "-" -> Str(SelectSeq(x, LAMBDA c : c # y))
    [] op \in Comparisons -> Bool(Compared(op, Lexical(FirstTwo(x), FirstTwo(<<y>>))))
    [] OTHER -> NoFn

\* A string and a unit, whichever comes first.
str_unit_ops(op, s) ==
  CASE op = "+" -> Str(s)
    [] op = "!=" -> Bool(TRUE)
    [] op \in Comparisons -> Bool(FALSE)
    [] OTHER -> NoFn

blob_char_ops(op, x, y) ==
  IF op = "+" THEN throw_on_size(Len(x) + Len(Utf8[y]), Blob(B!append_char(x, y))) ELSE NoFn

range_ops(op, x, y) ==
  CASE op = "==" -> Bool(x = y) [] op = "!=" -> Bool(x # y) [] OTHER -> NoFn

\* The two kinds of ranges: `==` has no built-in function, since the arm for it
\* names the token of an assignment.
mixed_range_ops(op) == IF op = "!=" THEN Bool(TRUE) ELSE NoFn

is_numeric(t) == t \in {"int", "float", "decimal"}

\* Values of different types are not equal, unless both are numbers.
default_ops(op, x, y) ==
  CASE x.t = y.t \/ (is_numeric(x.t) /\ is_numeric(y.t)) -> NoFn
    [] op = "!=" -> Bool(TRUE)
    [] op \in Comparisons -> Bool(FALSE)
    [] OTHER -> NoFn

get_builtin_binary_op_fn(op, x, y) ==
  LET types == <<x.t, y.t>>
  IN CASE types = <<"int", "int">>   -> int_ops(op, x.v, y.v)
       [] types = <<"bool", "bool">> -> bool_ops(op, x.v, y.v)
       [] types = <<"str", "str">>   -> str_ops(op, x.v, y.v)
       [] types = <<"char", "char">> -> char_ops(op, x.v, y.v)
       [] types = <<"blob", "blob">> -> blob_ops(op, x.v, y.v)
       [] types = <<"unit", "unit">> -> unit_ops(op)
       [] types \in {<<"float", "float">>, <<"float", "int">>, <<"int", "float">>} ->
            impl_float(op, AsFloat(x), AsFloat(y))
       [] types \in {<<"decimal", "decimal">>, <<"decimal", "int">>, <<"int", "decimal">>} ->
            impl_decimal(op, AsDecimal(x), AsDecimal(y))
       [] types \in {<<"int", "unit">>, <<"unit", "int">>} /\ op \in RangeOps -> open_range(op, x, y)
       [] types = <<"char", "str">> -> char_str_ops(op, x.v, y.v)
       [] types = <<"str", "char">> -> str_char_ops(op, x.v, y.v)
       [] types = <<"unit", "str">> -> str_unit_ops(op, y.v)
       [] types = <<"str", "unit">> -> str_unit_ops(op, x.v)
       [] types = <<"blob", "char">> -> blob_char_ops(op, x.v, y.v)
       [] types \in {<<"range", "range">>, <<"range=", "range=">>} -> range_ops(op, x.v, y.v)
       [] types \in {<<"range", "range=">>, <<"range=", "range">>} -> mixed_range_ops(op)
       [] OTHER -> default_ops(op, x, y)

-----------------------------------------------------------------------------
\* The functions of the packages, and their result checked for its size.

\* The text of a value that is not text itself.
Printed(x) == IF x.t = "char" THEN <<x.v>> ELSE <<CHOOSE c \in Ascii : c \notin Spaces>>

\* The replacement for bytes that are no text has three bytes.
TextSize(s) == FoldLeft(LAMBDA n, c : n + IF c = Replacement THEN 3 ELSE Len(Utf8[c]), 0, s)

SizeOf(x) == CASE x.t = "str" -> TextSize(x.v)
               [] x.t \in {"blob", "array"} -> Len(x.v)
               [] OTHER -> 0

check_data_size(x) == throw_on_size(SizeOf(x), x)

PackageFn(op, x, y) ==
  CASE op = "+" /\ x.t = "array" /\ y.t = "array" -> Array(A!concat(x.v, y.v))
    [] op = "+" /\ x.t = "str" /\ y.t = "blob" -> Str(S!add(x.v, B!as_string(y.v)))
    [] op = "+" /\ x.t = "blob" /\ y.t = "str" -> Str(S!add(B!as_string(x.v), y.v))
    [] op = "+" /\ x.t = "str" -> Str(S!add(x.v, Printed(y)))
    [] op = "+" /\ y.t = "str" -> Str(S!add(Printed(x), y.v))
    [] op = "==" /\ x.t = "array" /\ y.t = "array" -> Bool(A!equals(x.v, y.v))
    [] op = "!=" /\ x.t = "array" /\ y.t = "array" -> Bool(~A!equals(x.v, y.v))
    [] OTHER -> NoFn

\* `x op y`: NoFn is the error that there is no such function.
binary(op, x, y) ==
  LET b == get_builtin_binary_op_fn(op, x, y)
      p == PackageFn(op, x, y)
  IN IF b # NoFn THEN b
     ELSE IF p = NoFn THEN NoFn
     ELSE check_data_size(p)

-----------------------------------------------------------------------------
\* get_builtin_op_assignment_fn: the variable after the assignment, and Unit or
\* Error.

Became(x) == [x |-> x, ret |-> Unit]
Failed(x) == [x |-> x, ret |-> Error]
NoAssign  == [x |-> NoFn, ret |-> NoFn]

\* x becomes r, unless r is an error.
Assigned(x, r) == IF r = NoFn THEN NoAssign ELSE IF r = Error THEN Failed(x) ELSE Became(r)

\* The number is left alone when the operation fails.
number_assign(x, r) == Assigned(x, r)

bool_assign(op, x, y) ==
  IF op \in {"&", "|", "^"} THEN Became(bool_ops(op, x.v, y.v)) ELSE NoAssign

\* The size is not checked.
char_char_assign(x, y) == Became(Str(<<x.v, y.v>>))

str_assign(op, x, y) ==
  CASE op = "+" -> IF x.v # <<>> /\ y.v # <<>> /\ throw_on_size(S!bytes(x.v) + S!bytes(y.v), Unit) = Error
                   THEN Failed(x) ELSE Became(Str(x.v \o y.v))
    [] op = "-" -> Became(Str(S!sub(x.v, y.v)))
    [] OTHER -> NoAssign

\* The size of the array is checked before the other one is appended.
array_array_assign(x, y) ==
  IF y.v = <<>> THEN Became(x)
  ELSE IF x.v # <<>> /\ check_data_size(x) = Error THEN Failed(x)
  ELSE Became(Array(A!append(x.v, y.v)))

\* What is added to a blob is its size, but for a character, which counts as one.
blob_assign(x, n, b) == Assigned(x, throw_on_size(Len(x.v) + n, Blob(b)))

str_char_assign(op, x, y) ==
  CASE op = "+" -> Assigned(x, throw_on_size(S!bytes(x.v) + Len(Utf8[y.v]), Str(x.v \o <<y.v>>)))
    [] op = "-" -> Became(Str(SelectSeq(x.v, LAMBDA c : c # y.v)))
    [] OTHER -> NoAssign

\* A character to which an empty string is added stays a character.
char_str_assign(x, y) ==
  IF y.v = <<>> THEN Became(x)
  ELSE Assigned(x, throw_on_size(S!bytes(<<x.v>>) + S!bytes(y.v), Str(<<x.v>> \o y.v)))

\* The element is pushed first, and stays when the array is found to be too large.
array_any_assign(x, y) ==
  LET a == Array(A!push(x.v, y.v))
  IN IF check_data_size(a) = Error THEN Failed(a) ELSE Became(a)

get_builtin_op_assignment_fn(op, x, y) ==
  LET types == <<x.t, y.t>>
  IN CASE types = <<"int", "int">> -> number_assign(x, int_arithmetic(op, x.v, y.v))
       [] types = <<"bool", "bool">> -> bool_assign(op, x, y)
       [] types = <<"char", "char">> /\ op = "+" -> char_char_assign(x, y)
       [] types = <<"str", "str">> -> str_assign(op, x, y)
       [] types = <<"array", "array">> /\ op = "+" -> array_array_assign(x, y)
       [] types = <<"blob", "blob">> /\ op = "+" -> blob_assign(x, Len(y.v), B!append(x.v, y.v))
       [] types \in {<<"float", "float">>, <<"float", "int">>} ->
            number_assign(x, float_arithmetic(op, x, AsFloat(y)))
       [] types \in {<<"decimal", "decimal">>, <<"decimal", "int">>} ->
            number_assign(x, decimal_arithmetic(op, x.v, AsDecimal(y)))
       [] types = <<"str", "char">> -> str_char_assign(op, x, y)
       [] types = <<"char", "str">> /\ op = "+" -> char_str_assign(x, y)
       [] x.t = "array" /\ op = "+" -> array_any_assign(x, y)
       [] types = <<"blob", "int">> /\ op = "+" -> blob_assign(x, 1, B!push(x.v, y.v))
       [] types = <<"blob", "char">> /\ op = "+" -> blob_assign(x, 1, B!append_char(x.v, y.v))
       [] types = <<"blob", "str">> /\ op = "+" ->
            IF y.v = <<>> THEN Became(x)
            ELSE blob_assign(x, S!bytes(y.v), B!append_str(x.v, y.v))
       [] OTHER -> NoAssign

\* `+=` of the packages: text is added to a string, which is then checked.
PackageAssign(op, x, y) ==
  LET s == IF y.t = "blob" THEN B!as_string(y.v) ELSE Printed(y)
      r == Str(S!add(x.v, s))
  IN CASE op = "+" /\ x.t = "str" /\ y.t = "unit" -> Became(x)
       [] op = "+" /\ x.t = "str" -> IF check_data_size(r) = Error THEN Failed(r) ELSE Became(r)
       [] OTHER -> NoAssign

\* What is left when no function assigns: a function `op=`, or `x = x op y`.
Otherwise(op, x, y) ==
  LET p == PackageAssign(op, x, y)
  IN IF p # NoAssign THEN p ELSE Assigned(x, binary(op, x, y))

\* The shortcuts of the evaluator, and then the built-in functions.
eval_op_assignment(op, x, y) ==
  LET fast == op \in Arithmetic \ {"**"}
      b == get_builtin_op_assignment_fn(op, x, y)
  IN CASE x.t = "bool" /\ y.t = "bool" /\ op \in {"&", "|", "^"} -> bool_assign(op, x, y)
       [] x.t = "int" /\ y.t = "int" /\ fast -> number_assign(x, int_arithmetic(op, x.v, y.v))
       [] x.t = "float" /\ y.t \in {"float", "int"} /\ fast /\ float_arithmetic(op, x, AsFloat(y)) # NoFn ->
            number_assign(x, float_arithmetic(op, x, AsFloat(y)))
       [] b # NoAssign -> b
       [] OTHER -> Otherwise(op, x, y)

-----------------------------------------------------------------------------
\* The virtual machine.

int_comparison(op, x, y) == IF op \in Comparisons THEN Bool(Compared(op, Sign(x - y))) ELSE NoFn

int_binary(op, x, y) ==
  LET r == int_arithmetic(op, x, y) IN IF r # NoFn THEN r ELSE int_comparison(op, x, y)

\* An integer or a float, read as a float.
as_float_operand(x) == x.t \in {"int", "float"}

\* Mutant: floats are compared exactly by the typed instruction.
float_binary_comparing(op, x, y) == impl_float_exact(op, x, y)

float_binary(op, x, y) == float_arithmetic(op, x, y)

apply_binary(op, x, y) ==
  CASE x.t = "int" /\ y.t = "int" -> int_binary(op, x.v, y.v)
    [] as_float_operand(x) /\ as_float_operand(y) -> float_binary(op, AsFloat(x), AsFloat(y))
    [] OTHER -> NoFn

\* FastValue: the values that the machine keeps outside of cells.
from_cell(x) == x.t \in {"int", "bool", "float", "unit"}

apply_fast(op, x, y) ==
  CASE x.t = "int" /\ y.t = "int" -> int_binary(op, x.v, y.v)
    [] x.t \in {"int", "float"} /\ y.t \in {"int", "float"} -> float_binary(op, AsFloat(x), AsFloat(y))
    [] OTHER -> NoFn

apply_assign(op, x, y) ==
  CASE x.t = "int" /\ y.t = "int" -> number_assign(x, int_arithmetic(op, x.v, y.v))
    [] x.t = "float" /\ y.t \in {"float", "int"} -> number_assign(x, float_arithmetic(op, x, AsFloat(y)))
    [] OTHER -> NoAssign

apply_assign_fast(op, x, y) ==
  IF from_cell(x) /\ from_cell(y) THEN apply_assign(op, x, y) ELSE NoAssign

\* store: the typed assignment, the built-in function, and what is left.
store(op, x, y) ==
  LET f == apply_assign(op, x, y)
      b == get_builtin_op_assignment_fn(op, x, y)
  IN IF f # NoAssign THEN f ELSE IF b # NoAssign THEN b ELSE Otherwise(op, x, y)

type_code(x) ==
  CASE x.t = "unit" -> 1 [] x.t = "bool" -> 2 [] x.t = "str" -> 3 [] x.t = "char" -> 4
    [] x.t = "int" -> 5 [] x.t = "float" -> 6 [] x.t = "decimal" -> 7 [] x.t = "array" -> 8
    [] x.t = "blob" -> 9 [] OTHER -> 0

\* A function found for operands is that for other operands of their types: what
\* resolve_operator remembers, which is the types and not the values.
HasBuiltin(op, x, y) == get_builtin_binary_op_fn(op, x, y) # NoFn
memoisable(x, y) == type_code(x) # 0 /\ type_code(y) # 0
=============================================================================
