------------------------------ MODULE ArrayLib ------------------------------
(***************************************************************************)
(* The array functions of the standard library                             *)
(* (src/packages/array_basic.rs).  A function that changes its array gives *)
(* the array after the call and the value returned.  A function pointer    *)
(* is a function from its arguments to what the call of it yields: a value *)
(* or Error.                                                               *)
(***************************************************************************)
EXTENDS Indices, SequencesExt, FiniteSets, TLC

Result(a, r) == [seq |-> a, ret |-> r]

get(a, index) ==
  LET i == calc_offset_len(Len(a), index, 0)[1]
  IN IF i >= Len(a) THEN Unit ELSE a[i + 1]

set(a, index, value) ==
  LET i == calc_offset_len(Len(a), index, 0)[1]
  IN IF i >= Len(a) THEN a ELSE [a EXCEPT ![i + 1] = value]

push(a, item) == Append(a, item)

append(a, b) == IF b = <<>> THEN a ELSE IF a = <<>> THEN b ELSE a \o b

concat(a, b) == IF b = <<>> THEN a ELSE IF a = <<>> THEN b ELSE a \o b

insert(a, index, item) ==
  LET i == calc_offset_len(Len(a), index, 0)[1]
  IN IF i >= Len(a) THEN Append(a, item) ELSE Upto(a, i) \o <<item>> \o From(a, i)

\* The array is left alone when it would grow over the limit (0: no limit).
pad(a, len, item, max) ==
  IF len < 0 \/ len <= Len(a) THEN Result(a, Unit)
  ELSE IF max > 0 /\ len > max THEN Result(a, Error)
  ELSE Result(a \o [i \in 1..(len - Len(a)) |-> item], Unit)

pop(a) == IF a = <<>> THEN Result(a, Unit) ELSE Result(Front(a), Last(a))

shift(a) == IF a = <<>> THEN Result(a, Unit) ELSE Result(Tail(a), Head(a))

remove(a, index) ==
  LET i == calc_index(Len(a), index, TRUE)
  IN IF i = NoIndex THEN Result(a, Unit) ELSE Result(Upto(a, i) \o From(a, i + 1), a[i + 1])

truncate(a, len) == IF len <= 0 THEN <<>> ELSE Upto(a, SmallerOf(len, Len(a)))

chop(a, len) == IF len <= 0 THEN <<>> ELSE IF len < Len(a) THEN From(a, Len(a) - len) ELSE a

reverse(a) == Reverse(a)

splice(a, start, len, replace) ==
  LET p == calc_offset_len(Len(a), start, len)
  IN IF p[1] >= Len(a) THEN a \o replace
     ELSE Upto(a, p[1]) \o replace \o From(a, p[1] + p[2])

extract(a, start, len) ==
  LET p == calc_offset_len(Len(a), start, len)
  IN IF len <= 0 THEN <<>> ELSE Part(a, p[1], p[2])

extract_tail(a, start) == extract(a, start, IntMax)

split_at(a, index) ==
  LET p == calc_offset_len(Len(a), index, IntMax)
  IN IF p[1] >= Len(a) THEN Result(a, <<>>)
     ELSE IF p[1] = 0 THEN Result(Upto(a, Len(a) - p[2]), From(a, Len(a) - p[2]))
     ELSE Result(Upto(a, p[1]), From(a, p[1]))

drain_range(a, start, len) ==
  LET p == calc_offset_len(Len(a), start, len)
  IN IF len <= 0 THEN Result(a, <<>>)
     ELSE Result(Upto(a, p[1]) \o From(a, p[1] + p[2]), Part(a, p[1], p[2]))

retain_range(a, start, len) ==
  LET p == calc_offset_len(Len(a), start, len)
  IN IF a = <<>> \/ len <= 0 \/ p[2] = 0 THEN Result(a, <<>>)
     ELSE Result(Part(a, p[1], p[2]), Upto(a, p[1]) \o From(a, p[1] + p[2]))

-----------------------------------------------------------------------------
\* Functions that call back.  An error of the call ends them.

\* The position after the last call: that of the first error, or of the first
\* element on which the loop stops, or the length of the array.
CallsEnd(a, from, Stops(_)) ==
  LET is == {i \in from..(Len(a) - 1) : Stops(a[i + 1])}
  IN IF is = {} THEN Len(a) ELSE CHOOSE i \in is : \A j \in is : i <= j

\* A result that is not a Boolean counts as false.
Holds(f, x) == f[x] = TRUE
Fails(f, x) == f[x] = Error

map(a, f) ==
  IF \E i \in 1..Len(a) : Fails(f, a[i]) THEN Error ELSE [i \in 1..Len(a) |-> f[a[i]]]

filter(a, f) ==
  IF \E i \in 1..Len(a) : Fails(f, a[i]) THEN Error ELSE SelectSeq(a, LAMBDA x : Holds(f, x))

contains(a, value) == \E i \in 1..Len(a) : a[i] = value

index_of_starting_from(a, value, start) ==
  LET s == calc_offset_len(Len(a), start, 0)[1]
      i == CallsEnd(a, s, LAMBDA x : x = value)
  IN IF i >= Len(a) THEN -1 ELSE i

index_of_start_inner(a, f, start) ==
  LET s == calc_offset_len(Len(a), start, 0)[1]
      i == CallsEnd(a, s, LAMBDA x : Holds(f, x) \/ Fails(f, x))
  IN IF i >= Len(a) THEN -1 ELSE IF Fails(f, a[i + 1]) THEN Error ELSE i

find_starting_from(a, f, start) ==
  LET i == index_of_start_inner(a, f, start)
  IN IF i = Error THEN Error ELSE IF i < 0 THEN Unit ELSE get(a, i)

find_map_starting_from(a, f, start) ==
  LET s == calc_offset_len(Len(a), start, 0)[1]
      i == CallsEnd(a, s, LAMBDA x : f[x] # Unit)
  IN IF i >= Len(a) THEN Unit ELSE f[a[i + 1]]

some(a, f) ==
  LET i == CallsEnd(a, 0, LAMBDA x : Holds(f, x) \/ Fails(f, x))
  IN IF i >= Len(a) THEN FALSE ELSE f[a[i + 1]]

all(a, f) ==
  LET i == CallsEnd(a, 0, LAMBDA x : ~Holds(f, x))
  IN IF i >= Len(a) THEN TRUE ELSE IF Fails(f, a[i + 1]) THEN Error ELSE FALSE

\* What drain and retain took out so far is lost with an error.
drain_skipping(a, f) ==
  Result(SelectSeq(a, LAMBDA x : ~Holds(f, x)),
         LET is == {i \in 1..Len(a) : Holds(f, a[i])}
         IN IF is = {} THEN <<>> ELSE <<a[CHOOSE i \in is : TRUE]>>)

drain(a, f) ==
  LET e == CallsEnd(a, 0, LAMBDA x : Fails(f, x))
  IN Result(SelectSeq(Upto(a, e), LAMBDA x : ~Holds(f, x)) \o From(a, e),
            IF e < Len(a) THEN Error ELSE SelectSeq(a, LAMBDA x : Holds(f, x)))

retain(a, f) ==
  LET e == CallsEnd(a, 0, LAMBDA x : Fails(f, x))
  IN Result(SelectSeq(Upto(a, e), LAMBDA x : Holds(f, x)) \o From(a, e),
            IF e < Len(a) THEN Error ELSE SelectSeq(a, LAMBDA x : ~Holds(f, x)))

\* The first of each run of elements that the comparer, called with the element
\* kept and the next one, takes for equal; an error counts as not equal.
dedup_by_comparer(a, same) ==
  FoldLeft(LAMBDA acc, x : IF acc # <<>> /\ same[Last(acc), x] = TRUE THEN acc ELSE Append(acc, x),
           <<>>, a)

\* try_fold: the first error ends it.
reduce_with_initial(a, f, initial) ==
  FoldLeft(LAMBDA r, x : IF r = Error THEN Error ELSE f[r, x], initial, a)

reduce_rev_with_initial(a, f, initial) == reduce_with_initial(Reverse(a), f, initial)

zip(a, b, f) ==
  LET n == SmallerOf(Len(a), Len(b))
  IN IF \E i \in 1..n : f[a[i], b[i]] = Error THEN Error ELSE [i \in 1..n |-> f[a[i], b[i]]]

\* A comparer gives -1, 0 or 1 (a Boolean counts as -1 or 1); when it fails, the
\* types of the two elements are compared.
Compare(cmp, type, x, y) ==
  IF cmp[x, y] # Error THEN cmp[x, y]
  ELSE IF type[x] < type[y] THEN -1 ELSE IF type[x] > type[y] THEN 1 ELSE 0

TotalOn(a, C(_, _)) ==
  LET es == {a[i] : i \in 1..Len(a)}
  IN /\ \A x \in es, y \in es : C(x, y) = -C(y, x)
     /\ \A x \in es, y \in es, z \in es : C(x, y) <= 0 /\ C(y, z) <= 0 => C(x, z) <= 0

\* slice::sort_by keeps the order of equal elements.
SortedBy(a, C(_, _)) ==
  FoldLeft(LAMBDA acc, x :
             LET n == Cardinality({i \in 1..Len(acc) : C(acc[i], x) <= 0})
             IN Upto(acc, n) \o <<x>> \o From(acc, n), <<>>, a)

\* The results the call may have.  With a comparer that is no total order the sort
\* ends with the elements in any order, or panics, which becomes an error.
sort_by(a, cmp, type) ==
  LET C(x, y) == Compare(cmp, type, x, y)
  IN IF Len(a) <= 1 THEN {Result(a, Unit)}
     ELSE IF TotalOn(a, C) THEN {Result(SortedBy(a, C), Unit)}
     ELSE {Result([i \in 1..Len(a) |-> a[p[i]]], r) :
             p \in Permutations(1..Len(a)), r \in {Unit, Error}}

\* Elements of different types, or of a type without order, cannot be sorted.
sort_with_builtin(a, type, rank) ==
  IF Len(a) <= 1 THEN Result(a, Unit)
  ELSE IF \E i \in 1..Len(a) : type[a[i]] # type[a[1]] THEN Result(a, Error)
  ELSE IF rank[a[1]] = Unit THEN Result(a, Error)
  ELSE Result(SortedBy(a, LAMBDA x, y : rank[x] - rank[y]), Unit)

sort_with_builtin_desc(a, type, rank) ==
  IF Len(a) <= 1 THEN Result(a, Unit)
  ELSE IF \E i \in 1..Len(a) : type[a[i]] # type[a[1]] THEN Result(a, Error)
  ELSE IF rank[a[1]] = Unit THEN Result(a, Error)
  ELSE Result(SortedBy(a, LAMBDA x, y : rank[y] - rank[x]), Unit)

\* order, order_by and order_desc sort a copy; an error is passed on.
Ordered(r) == IF r.ret = Error THEN Error ELSE r.seq

equals(a, b) == Len(a) = Len(b) /\ \A i \in 1..Len(a) : a[i] = b[i]
=============================================================================
