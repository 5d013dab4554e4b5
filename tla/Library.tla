------------------------------ MODULE Library -------------------------------
(***************************************************************************)
(* A script calls functions of the standard library, one after another, on *)
(* a variable that holds an array, a blob, a string or an integer, or uses *)
(* operators on a variable that holds any value.  `last` keeps a call      *)
(* until its result is taken; `work` is the string that pad_with_string is *)
(* padding, or a stepped range being iterated over.                        *)
(***************************************************************************)
EXTENDS Indices, SequencesExt, FiniteSets

CONSTANTS Elems,      \* elements of arrays, with their types, ranks and comparers
          ElemType, Rank, Comparers,
          Utf8, Ascii, Spaces, Replacement, U32Max, None,
          Positions,  \* the integers that calls pass as positions and lengths
          MaxLen,     \* no sequence grows longer
          MaxSize,    \* Engine::max_array_size and max_string_size, 0 for none
          One, Epsilon, FloatMax, NoFn,
          Operands    \* for each type of values, those that are operands

A == INSTANCE ArrayLib
B == INSTANCE BlobLib
S == INSTANCE StringLib
N == INSTANCE NumberLib
O == INSTANCE Operators

Chars == DOMAIN Utf8
Bytes == 0..(ByteBase - 1)
Kinds == {"array", "blob", "string", "int", "value"}

VARIABLES kind, val, last, work

vars == <<kind, val, last, work>>

\* What is put into a value of the kind: elements, bytes or characters.
Items == CASE kind = "array" -> Elems [] kind = "blob" -> Bytes [] OTHER -> Chars
Small == {<<>>} \cup {<<x>> : x \in Items} \cup {<<x, x>> : x \in Items}

\* A portion is given by start and length, or by one of the two kinds of ranges.
Spellings == {"len", "range", "inclusive"}
Portion(how, a, b) ==
  CASE how = "len" -> <<a, b>>
    [] how = "range" -> of_range(a, b)
    [] how = "inclusive" -> of_inclusive_range(a, b)

TypeOK ==
  /\ kind \in Kinds
  /\ CASE kind = "int" -> val \in Ints
       [] kind = "value" -> val.t \in DOMAIN Operands
       [] OTHER -> val \in UNION {[1..n -> Items] : n \in 0..MaxLen}
  /\ last = None \/ {"fn", "before", "args", "ret"} = DOMAIN last
  /\ work = None \/ work.of \in {"pad", "steps"}

Init ==
  /\ kind \in Kinds
  /\ CASE kind = "int" -> val = 0
       [] kind = "value" -> \E t \in DOMAIN Operands : val \in Operands[t]
       [] OTHER -> val = <<>>
  /\ last = None
  /\ work = None

-----------------------------------------------------------------------------
\* Actions.  A call that would make the value too long for the model is left out.

Ready(k) == kind = k /\ last = None /\ work = None

Called(k, fn, args, after, ret) ==
  /\ k \notin {"int", "value"} => Len(after) <= MaxLen
  /\ val' = after
  /\ last' = [fn |-> fn, args |-> args, before |-> val, ret |-> ret]
  /\ UNCHANGED <<kind, work>>

Return ==
  /\ last # None
  /\ last' = None
  /\ UNCHANGED <<kind, val, work>>

\* A function of a portion: what it makes of a sequence and the portion.
OnPortion(k, fn, x, F(_, _, _)) ==
  \E how \in Spellings, a \in Positions, b \in Positions :
    LET p == Portion(how, a, b)
        r == IF p[2] = Overflow THEN [seq |-> val, ret |-> Overflow] ELSE F(val, p[1], p[2])
    IN Called(k, fn, [how |-> how, a |-> a, b |-> b, x |-> x], r.seq, r.ret)

At(fn, k, i, x, r) == Called(k, fn, [i |-> i, x |-> x], r.seq, r.ret)

Keeps(r) == [seq |-> val, ret |-> r]
Makes(s) == [seq |-> s, ret |-> Unit]

ArrayGet == \E i \in Positions : At("get", "array", i, None, Keeps(A!get(val, i)))
ArraySet == \E i \in Positions, x \in Elems :
              At("set", "array", i, x, Makes(A!set(val, i, x)))
ArrayInsert == \E i \in Positions, x \in Elems :
              At("insert", "array", i, x, Makes(A!insert(val, i, x)))
ArrayRemove == \E i \in Positions : At("remove", "array", i, None, A!remove(val, i))
ArraySplit == \E i \in Positions : At("split", "array", i, None, A!split_at(val, i))
ArrayPush == \E x \in Elems :
              At("insert", "array", Len(val), x, Makes(A!push(val, x)))
ArrayPop == At("pop", "array", -1, None, A!pop(val))
ArrayShift == At("pop", "array", 0, None, A!shift(val))
ArrayAppend == \E t \in Small : Called("array", "append", t, A!append(val, t), Unit)
ArrayConcat == \E t \in Small : Called("array", "concat", t, val, A!concat(val, t))
ArrayTruncate == \E n \in Positions : Called("array", "truncate", n, A!truncate(val, n), Unit)
ArrayChop == \E n \in Positions : Called("array", "chop", n, A!chop(val, n), Unit)
ArrayReverse == Called("array", "reverse", None, A!reverse(val), Unit)
ArrayPad == \E n \in Positions, x \in Elems :
              LET r == A!pad(val, n, x, MaxSize)
              IN Called("array", "pad", [n |-> n, x |-> <<x>>], r.seq, r.ret)
ArrayExtract == OnPortion("array", "extract", None, LAMBDA s, a, n : Keeps(A!extract(s, a, n)))
ArrayExtractTail == \E a \in Positions :
              Called("array", "extract", [how |-> "len", a |-> a, b |-> IntMax, x |-> None],
                                       val, A!extract_tail(val, a))
ArrayDrainRange == OnPortion("array", "drain", None, A!drain_range)
ArrayRetainRange == OnPortion("array", "retain", None, A!retain_range)
ArraySplice == \E t \in Small :
              OnPortion("array", "splice", t, LAMBDA s, a, n : Makes(A!splice(s, a, n, t)))

\* Functions given to the library, and what the library does with them.
Tests == [Elems -> {TRUE, FALSE, Error}]
Maps  == [Elems -> Elems \cup {Unit, Error}]

ArrayDrain == \E f \in Tests :
  LET r == A!drain(val, f) IN Called("array", "drain_by", f, r.seq, r.ret)
ArrayRetain == \E f \in Tests :
  LET r == A!retain(val, f) IN Called("array", "retain_by", f, r.seq, r.ret)
ArrayFilter == \E f \in Tests : Called("array", "filter", f, val, A!filter(val, f))
ArrayMap == \E f \in Maps : Called("array", "map", f, val, A!map(val, f))
ArraySome == \E f \in Tests : Called("array", "some", f, val, A!some(val, f))
ArrayAll == \E f \in Tests : Called("array", "all", f, val, A!all(val, f))
ArrayContains == \E x \in Elems : Called("array", "contains", x, val, A!contains(val, x))
ArrayIndexOf == \E x \in Elems, i \in Positions :
  Called("array", "index_of", [i |-> i, f |-> [y \in Elems |-> y = x]],
                           val, A!index_of_starting_from(val, x, i))
ArrayIndexOfBy == \E f \in Tests, i \in Positions :
  Called("array", "index_of", [i |-> i, f |-> f], val, A!index_of_start_inner(val, f, i))
ArrayFind == \E f \in Tests, i \in Positions :
  Called("array", "find", [i |-> i, f |-> f], val, A!find_starting_from(val, f, i))
ArrayFindMap == \E f \in Maps, i \in Positions :
  Called("array", "find_map", [i |-> i, f |-> f], val, A!find_map_starting_from(val, f, i))

\* Functions of two arguments: an equality that fails on one pair, and one that
\* tells the order of its arguments.
Sames == {[p \in Elems \X Elems |-> IF p = q THEN Error ELSE p[1] = p[2]] : q \in Elems \X Elems}
Keepers == {[p \in (Elems \cup {Unit}) \X Elems |-> IF p[2] = e THEN Error ELSE p[k]] :
              e \in Elems \cup {None}, k \in 1..2}

ArrayDedup == \E same \in Sames : Called("array", "dedup", same, A!dedup_by_comparer(val, same), Unit)
ArrayReduce == \E f \in Keepers :
  Called("array", "reduce", f, val, A!reduce_with_initial(val, f, Unit))
ArrayReduceRev == \E f \in Keepers :
  Called("array", "reduce_rev", f, val, A!reduce_rev_with_initial(val, f, Unit))
ArrayZip == \E f \in Keepers, t \in Small : Called("array", "zip", <<f, t>>, val, A!zip(val, t, f))
ArraySortBy == \E cmp \in Comparers : \E r \in A!sort_by(val, cmp, ElemType) :
  Called("array", "sort", cmp, r.seq, r.ret)
ArrayOrderBy == \E cmp \in Comparers : \E r \in A!sort_by(val, cmp, ElemType) :
  Called("array", "order", cmp, val, A!Ordered(r))
ArraySort == LET r == A!sort_with_builtin(val, ElemType, Rank) IN
  Called("array", "sort_builtin", 1, r.seq, r.ret)
ArraySortDesc == LET r == A!sort_with_builtin_desc(val, ElemType, Rank) IN
  Called("array", "sort_builtin", -1, r.seq, r.ret)
ArrayEquals == \E t \in Small : Called("array", "equals", t, val, A!equals(val, t))

ArrayNext ==
  /\ Ready("array")
  /\ \/ ArrayGet \/ ArraySet \/ ArrayInsert \/ ArrayRemove \/ ArraySplit \/ ArrayPush \/ ArrayPop
     \/ ArrayShift \/ ArrayAppend \/ ArrayConcat \/ ArrayTruncate \/ ArrayChop \/ ArrayReverse
     \/ ArrayPad \/ ArrayExtract \/ ArrayExtractTail \/ ArrayDrainRange \/ ArrayRetainRange
     \/ ArraySplice \/ ArrayDrain \/ ArrayRetain \/ ArrayFilter \/ ArrayMap \/ ArraySome \/ ArrayAll
     \/ ArrayContains \/ ArrayIndexOf \/ ArrayIndexOfBy \/ ArrayFind \/ ArrayFindMap \/ ArrayDedup
     \/ ArrayReduce \/ ArrayReduceRev \/ ArrayZip \/ ArraySortBy \/ ArrayOrderBy \/ ArraySort
     \/ ArraySortDesc \/ ArrayEquals

BlobGet == \E i \in Positions : At("get", "blob", i, None, Keeps(B!get(val, i)))
BlobSet == \E i \in Positions, x \in Ints :
             At("set", "blob", i, x % ByteBase, Makes(B!set(val, i, x)))
BlobInsert == \E i \in Positions, x \in Ints :
             At("insert", "blob", i, x % ByteBase, Makes(B!insert(val, i, x)))
BlobRemove == \E i \in Positions : At("remove", "blob", i, None, B!remove(val, i))
BlobSplit == \E i \in Positions : At("split", "blob", i, None, B!split_at(val, i))
BlobPush == \E x \in Bytes : At("insert", "blob", Len(val), x, Makes(B!push(val, x)))
BlobPop == At("pop", "blob", -1, None, B!pop(val))
BlobShift == At("pop", "blob", 0, None, B!shift(val))
BlobWithCapacity == \E n \in Positions, x \in Bytes :
             LET r == B!blob_with_capacity_and_value(n, x, MaxSize)
             IN Called("blob", "blob", [n |-> n, x |-> <<x>>],
                                        IF r = Error THEN val ELSE r, IF r = Error THEN r ELSE Unit)
BlobContains == \E x \in Bytes : Called("blob", "contains", x, val, B!contains(val, x))
BlobAppend == \E t \in Small : Called("blob", "append", t, B!append(val, t), Unit)
BlobTruncate == \E n \in Positions : Called("blob", "truncate", n, B!truncate(val, n), Unit)
BlobChop == \E n \in Positions : Called("blob", "chop", n, B!chop(val, n), Unit)
BlobReverse == Called("blob", "reverse", None, B!reverse(val), Unit)
BlobPad == \E n \in Positions, x \in Bytes :
             LET r == B!pad(val, n, x, MaxSize)
             IN Called("blob", "pad", [n |-> n, x |-> <<x>>], r.seq, r.ret)
BlobExtract == OnPortion("blob", "extract", None, LAMBDA s, a, n : Keeps(B!extract(s, a, n)))
BlobExtractTail == \E a \in Positions :
             Called("blob", "extract", [how |-> "len", a |-> a, b |-> IntMax, x |-> None],
                                     val, B!extract_tail(val, a))
BlobDrain == OnPortion("blob", "drain", None, B!drain)
BlobRetain == OnPortion("blob", "retain", None, B!retain)
BlobSplice == \E t \in Small :
             OnPortion("blob", "splice", t, LAMBDA s, a, n : Makes(B!splice(s, a, n, t)))
BlobParseInt == \E le \in BOOLEAN :
             OnPortion("blob", "parse_int", le, LAMBDA s, a, n : Keeps(B!parse_int(s, a, n, le)))
BlobWriteInt == \E le \in BOOLEAN, x \in Positions :
             OnPortion("blob", "write_int", [le |-> le, n |-> x],
                                        LAMBDA s, a, n : Makes(B!write_int(s, a, n, x, le)))

\* Text written into a blob.
Texts == {<<>>} \cup {<<x>> : x \in Chars} \cup {<<x, y>> : x \in Chars, y \in Chars}

BlobAppendStr == \E t \in Texts : Called("blob", "append_str", t, B!append_str(val, t), Unit)
BlobAppendChar == \E c \in Chars : Called("blob", "append_str", <<c>>, B!append_char(val, c), Unit)
BlobAsString == Called("blob", "as_string", None, val, B!as_string(val))
BlobWriteString == \E t \in Texts, ascii \in BOOLEAN :
             OnPortion("blob", "write_string", [t |-> t, ascii |-> ascii],
                                        LAMBDA s, a, n : Makes(B!write_string(s, a, n, t, ascii)))

BlobNext ==
  /\ Ready("blob")
  /\ \/ BlobGet \/ BlobSet \/ BlobInsert \/ BlobRemove \/ BlobSplit \/ BlobPush \/ BlobPop \/ BlobShift
     \/ BlobWithCapacity \/ BlobContains \/ BlobAppend \/ BlobTruncate \/ BlobChop \/ BlobReverse
     \/ BlobPad \/ BlobExtract \/ BlobExtractTail \/ BlobDrain \/ BlobRetain \/ BlobSplice
     \/ BlobParseInt \/ BlobWriteInt \/ BlobAppendStr \/ BlobAppendChar \/ BlobAsString \/ BlobWriteString

StringGet == \E i \in Positions : At("get", "string", i, None, Keeps(S!get(val, i)))
StringSet == \E i \in Positions, c \in Chars :
               At("set", "string", i, c, Makes(S!set(val, i, c)))
StringSplitAt == \E i \in Positions : LET r == S!split_at(val, i) IN
               At("cut", "string", i, None, Keeps(r))
StringAdd == \E t \in Texts : Called("string", "append", t, S!add(val, t), Unit)
StringTruncate == \E n \in Positions : Called("string", "truncate", n, S!truncate(val, n), Unit)
StringTrim == Called("string", "trim", None, S!trim(val), Unit)
StringPop == At("pop", "string", -1, None, S!pop(val))
StringPopString == \E n \in Positions : LET r == S!pop_string(val, n) IN
               Called("string", "pop_string", n, r.seq, r.ret)
StringSubString == OnPortion("string", "extract", None,
                                                LAMBDA s, a, n : Keeps(S!sub_string(s, a, n)))
StringSubStringFrom == \E a \in Positions :
               Called("string", "extract", [how |-> "len", a |-> a, b |-> IntMax, x |-> None],
                                         val, S!sub_string_starting_from(val, a))
StringCrop == OnPortion("string", "crop", None, LAMBDA s, a, n : Makes(S!crop(s, a, n)))
StringCropFrom == \E a \in Positions :
               Called("string", "crop", [how |-> "len", a |-> a, b |-> IntMax, x |-> None],
                                         S!crop_string_starting_from(val, a), Unit)
StringChars == \E how \in Spellings, a \in Positions, b \in Positions :
  LET p == IF how = "inclusive" THEN S!chars_inclusive_range(a, b) ELSE Portion(how, a, b)
  IN Called("string", "chars", [how |-> how, a |-> a, b |-> b, x |-> None], val,
                               IF p[2] = Overflow THEN Overflow ELSE S!CharsStream(val, p[1], p[2]))
StringContains == \E t \in Texts :
  Called("string", "has", t, val,
                            <<S!starts_with(val, t), S!contains(val, t), S!ends_with(val, t)>>)
StringIndexOf == \E t \in Texts :
  Called("string", "index_of", [i |-> 0, t |-> t], val, S!index_of(val, t))
StringIndexOfFrom == \E t \in Texts, i \in Positions :
  Called("string", "index_of", [i |-> i, t |-> t], val, S!index_of_string_starting_from(val, t, i))
StringIndexOfChar == \E c \in Chars, i \in Positions :
  Called("string", "index_of", [i |-> i, t |-> <<c>>], val, S!index_of_char_starting_from(val, c, i))
StringSplit == \E d \in Texts : Called("string", "split_by", [d |-> d, n |-> IntMax], val, S!split(val, d))
StringSplitn == \E d \in Texts, n \in Positions :
  Called("string", "split_by", [d |-> d, n |-> n], val, S!splitn(val, d, n))
StringRsplit == \E d \in Texts : Called("string", "split_by", [d |-> d, n |-> IntMax], val, Reverse(S!rsplit(val, d)))
StringRsplitn == \E d \in Texts, n \in Positions :
  Called("string", "split_by", [d |-> d, n |-> n], val, Reverse(S!rsplitn(val, d, n)))
StringSplitWhitespace == Called("string", "split_whitespace", None, val, S!split_whitespace(val))
StringReplace == \E t \in Texts, w \in Texts :
  Called("string", "replace", [t |-> t, w |-> w], S!replace(val, t, w), Unit)
StringRemove == \E t \in Texts : Called("string", "without", t, S!remove(val, t), Unit)
StringSub == \E t \in Texts : Called("string", "minus", t, val, S!sub(val, t))
StringToBlob == Called("string", "to_blob", None, val, B!as_bytes(val))
StringPad == \E n \in Positions, c \in Chars :
  LET r == S!pad(val, n, c, MaxSize)
  IN Called("string", "pad", [n |-> n, x |-> <<c>>], r.seq, r.ret)

\* pad_with_string: the tests, each round of its loop, and the test at its end.
PadStart == \E n \in Positions, t \in Texts :
  /\ n <= MaxLen
  /\ IF n <= 0 \/ (MaxSize > 0 /\ n > MaxSize) \/ n <= Len(val)
     THEN /\ last' = [fn |-> "pad", args |-> [n |-> n, x |-> t], before |-> val,
                      ret |-> IF n > 0 /\ MaxSize > 0 /\ n > MaxSize THEN Error ELSE Unit]
          /\ UNCHANGED work
     ELSE work' = [of |-> "pad", n |-> n, t |-> t, before |-> val] /\ UNCHANGED last
  /\ UNCHANGED <<kind, val>>

PadRound ==
  /\ work # None /\ work.of = "pad"
  /\ Len(val) < work.n
  /\ val' = S!PadRound(val, work.n, work.t)
  /\ UNCHANGED <<kind, last, work>>

PadEnd ==
  /\ work # None /\ work.of = "pad"
  /\ Len(val) >= work.n
  /\ work' = None
  /\ last' = [fn |-> "pad", args |-> [n |-> work.n, x |-> work.t], before |-> work.before,
              ret |-> S!PadChecked(val, MaxSize)]
  /\ UNCHANGED <<kind, val>>

StringNext ==
  /\ Ready("string")
  /\ \/ StringGet \/ StringSet \/ StringSplitAt \/ StringAdd \/ StringTruncate \/ StringTrim \/ StringPop
     \/ StringPopString \/ StringSubString \/ StringSubStringFrom \/ StringCrop \/ StringCropFrom
     \/ StringChars \/ StringContains \/ StringIndexOf \/ StringIndexOfFrom \/ StringIndexOfChar
     \/ StringSplit \/ StringSplitn \/ StringRsplit \/ StringRsplitn \/ StringSplitWhitespace
     \/ StringReplace \/ StringRemove \/ StringSub \/ StringToBlob \/ StringPad
     \/ PadStart

IntOp == \E y \in Ints, op \in {"+", "-", "*", "/", "%", "**"} :
  LET r == CASE op = "+" -> N!add(val, y)
             [] op = "-" -> N!subtract(val, y)
             [] op = "*" -> N!multiply(val, y)
             [] op = "/" -> N!divide(val, y)
             [] op = "%" -> N!modulo(val, y)
             [] op = "**" -> N!power(val, y)
  IN Called("int", op, y, IF r = Error THEN val ELSE r, r)
IntNeg == LET r == N!neg(val) IN Called("int", "*", -1, IF r = Error THEN val ELSE r, r)
IntAbs == LET r == N!abs(val)
          IN Called("int", "*", IF val < 0 THEN -1 ELSE 1, IF r = Error THEN val ELSE r, r)
IntShiftLeft == \E y \in Ints : Called("int", "shift", y, val, N!shift_left(val, y))
IntShiftRight == \E y \in Ints : Called("int", "shift", -y, val, N!shift_right(val, y))
IntGetBit == \E i \in Ints :
  Called("int", "get_bit", i, val, N!get_bit(val, i))
IntSetBit == \E i \in Ints, b \in BOOLEAN : LET r == N!set_bit(val, i, b) IN
  Called("int", "set_bits", [how |-> "len", a |-> i, b |-> 1, x |-> IF b THEN 1 ELSE 0],
                         IF r = Error THEN val ELSE r, IF r = Error THEN r ELSE Unit)

\* The bits a range selects: an inclusive one may be refused.
BitPortion(how, a, b) == IF how = "inclusive" THEN N!bits_inclusive_range(a, b) ELSE Portion(how, a, b)

IntGetBits == \E how \in Spellings, a \in Ints, b \in Ints :
  LET p == BitPortion(how, a, b)
  IN Called("int", "get_bits", [how |-> how, a |-> a, b |-> b], val,
                            IF p = Error THEN Error ELSE N!get_bits(val, p[1], p[2]))
IntSetBits == \E how \in Spellings, a \in Ints, b \in Ints, x \in Positions :
  LET p == BitPortion(how, a, b)
      r == IF p = Error THEN Error ELSE N!set_bits(val, p[1], p[2], x)
  IN Called("int", "set_bits", [how |-> how, a |-> a, b |-> b, x |-> x],
                            IF r = Error THEN val ELSE r, IF r = Error THEN r ELSE Unit)
IntBitRange == \E how \in Spellings, a \in Ints, b \in Ints :
  LET p == IF how = "inclusive" THEN S!chars_inclusive_range(a, b) ELSE Portion(how, a, b)
  IN Called("int", "bits", [how |-> how, a |-> a, b |-> b], val,
                            IF p[2] = Overflow THEN Overflow ELSE N!BitRange(val, p[1], p[2]))

\* `for n in range(val, to, step)`: items are taken until there is none.
RangeStart == \E to \in Ints, step \in Ints :
  LET r == N!StepRange(val, to, step)
  IN /\ IF r = Error
        THEN last' = [fn |-> "range", args |-> [to |-> to, step |-> step], before |-> val, ret |-> Error]
             /\ UNCHANGED work
        ELSE work' = [of |-> "steps", iter |-> r, from |-> val, items |-> {}] /\ UNCHANGED last
     /\ UNCHANGED <<kind, val>>

RangeNext ==
  /\ work # None /\ work.of = "steps"
  /\ LET r == N!StepNext(work.iter)
     IN IF r.item = Unit
        THEN /\ work' = None
             /\ last' = [fn |-> "range", args |-> [to |-> work.iter.to, step |-> work.iter.step],
                         before |-> val, ret |-> work.items]
        ELSE work' = [work EXCEPT !.iter = r.iter, !.items = @ \cup {r.item}] /\ UNCHANGED last
  /\ UNCHANGED <<kind, val>>

IntNext ==
  /\ Ready("int")
  /\ \/ IntOp \/ IntNeg \/ IntAbs \/ IntShiftLeft \/ IntShiftRight \/ IntGetBit \/ IntSetBit
     \/ IntGetBits \/ IntSetBits \/ IntBitRange \/ RangeStart

\* Operators.  An array takes arrays and single characters.
Fit(op, x, y) == x.t = "array" /\ op = "+" => y.t \in {"array", "char"}

ValueOp == \E op \in O!Ops, t \in DOMAIN Operands : \E y \in Operands[t] :
  /\ Fit(op, val, y)
  /\ Called("value", "op", [op |-> op, y |-> y], val, O!binary(op, val, y))
ValueAssign == \E op \in O!Ops \ (O!Comparisons \cup O!RangeOps), t \in DOMAIN Operands : \E y \in Operands[t] :
  LET r == O!eval_op_assignment(op, val, y)
  IN /\ Fit(op, val, y)
     /\ Called("value", "op=", [op |-> op, y |-> y], IF r.ret = NoFn THEN val ELSE r.x, r.ret)

ValueNext == Ready("value") /\ O!SizeOf(val) <= MaxLen /\ (ValueOp \/ ValueAssign)

Next ==
  \/ ValueNext \/ ArrayNext \/ BlobNext \/ StringNext \/ PadRound \/ PadEnd \/ IntNext \/ RangeNext
  \/ Return

Spec == Init /\ [][Next]_vars /\ WF_vars(PadRound) /\ WF_vars(PadEnd) /\ WF_vars(RangeNext)

-----------------------------------------------------------------------------
\* Properties.  `last` is the call, val the value after it.

Is(fns) == last # None /\ last.fn \in fns
Size == Len(last.before)

\* The elements of s at the positions in w, in their order.
Take(s, w) ==
  FoldLeft(LAMBDA acc, i : IF (i - 1) \in w THEN Append(acc, s[i]) ELSE acc,
           <<>>, [i \in 1..Len(s) |-> i])

\* The positions, of n, that the call of a portion names.
Window(n) ==
  LET c == last.args
      s == IF c.a < 0 THEN LargerOf(n + c.a, 0) ELSE c.a
  IN {i \in 0..(n - 1) : CASE c.how = "len" -> s <= i /\ i < s + c.b
                           [] c.how = "range" -> c.a <= i /\ i < c.b
                           [] c.how = "inclusive" -> c.a <= i /\ i <= c.b}

\* Where the portion begins: where a replacement of nothing goes.
WindowStart(n) ==
  LET c == last.args
  IN SmallerOf(n, IF c.a >= 0 THEN c.a ELSE IF c.how = "len" THEN LargerOf(n + c.a, 0) ELSE 0)

WindowIs(w) ==
  LET rest == (0..(Size - 1)) \ w
  IN CASE last.fn = "extract" -> last.ret = Take(last.before, w) /\ val = last.before
       [] last.fn = "chars"   -> last.ret = Take(last.before, w) /\ val = last.before
       [] last.fn = "crop"    -> val = Take(last.before, w)
       [] last.fn = "drain"   -> last.ret = Take(last.before, w) /\ val = Take(last.before, rest)
       [] last.fn = "retain"  -> last.ret = Take(last.before, rest) /\ val = Take(last.before, w)
       [] last.fn = "splice"  ->
            val = Upto(last.before, WindowStart(Size)) \o last.args.x
                  \o Take(last.before, {i \in rest : i >= WindowStart(Size)})
       [] OTHER -> FALSE

PortionFns == {"extract", "chars", "crop", "drain", "retain", "splice"}

\* An inclusive range that ends before its start takes one element all the same.
OneForNone == last.args.how = "inclusive" /\ last.args.b < LargerOf(last.args.a, 0) /\ last.fn # "chars"

\* A portion of nothing: `retain` keeps all, and `splice` of a blob appends.
NothingKept   == last.fn = "retain" /\ Window(Size) = {}
NothingSplice == last.fn = "splice" /\ kind = "blob" /\ Window(Size) = {}

\* extract, drain, retain, splice, sub_string, crop and chars act on exactly the
\* elements that start and length, or the range, name, for all integers, and keep
\* the order of the others (OneForNone, NothingKept, NothingSplice are the cases
\* where the code does something else than its documentation says).
PortionsAreRight ==
  Is(PortionFns) =>
    IF OneForNone THEN WindowIs({i \in 0..(Size - 1) : i = LargerOf(last.args.a, 0)})
                       \/ last.args.a >= Size
    ELSE NothingKept \/ NothingSplice \/ WindowIs(Window(Size))

\* No library function makes a range into a length that an integer cannot hold.
NoOverflow == last # None => last.ret # Overflow

\* The position an index means; negative ones count from the end.
Meant(i, n) == IF i < 0 THEN n + i ELSE i

Nowhere == IF kind = "blob" THEN 0 ELSE Unit

PositionIs(p) ==
  LET b  == last.before
      in == p \in 0..(Size - 1)
      q  == SmallerOf(LargerOf(p, 0), Size)
  IN CASE last.fn = "get" -> last.ret = IF in THEN b[p + 1] ELSE Nowhere
       [] last.fn = "set" -> val = IF in THEN [b EXCEPT ![p + 1] = last.args.x] ELSE b
       [] last.fn \in {"remove", "pop"} ->
            IF in THEN last.ret = b[p + 1] /\ val = Upto(b, p) \o From(b, p + 1)
            ELSE last.ret = Nowhere /\ val = b
       [] last.fn = "insert" -> val = Upto(b, q) \o <<last.args.x>> \o From(b, q)
       [] last.fn = "split" -> val = Upto(b, q) /\ last.ret = From(b, q)
       [] last.fn = "cut" -> last.ret = <<Upto(b, q), From(b, q)>>
       [] OTHER -> FALSE

PositionFns == {"get", "set", "remove", "pop", "insert", "split", "cut"}

\* An index before the start of an array or a blob reaches its first element;
\* a string split at 0 is cut at its end.
BeforeStart == last.fn \in {"get", "set"} /\ kind # "string" /\ last.args.i < -Size
CutAtZero   == last.fn = "cut" /\ last.args.i = 0

\* get, set, insert, remove, pop, shift and split act on the position that an index
\* means, from either end, and on none when there is no such position.
PositionsAreRight ==
  Is(PositionFns) => BeforeStart \/ CutAtZero \/ PositionIs(Meant(last.args.i, Size))

\* pad, and the creation of a blob, never pass the limit of the engine without an
\* error, pad with the given text only, and change nothing when they return early.
PaddingWithinLimit ==
  Is({"pad", "blob"}) =>
    LET n == last.args.n
        b == IF last.fn = "blob" THEN <<>> ELSE last.before
        bytes == IF kind = "string" THEN S!bytes(val) ELSE Len(val)
    IN /\ last.ret # Error =>
            /\ last.fn = "pad" => Upto(val, Len(b)) = b
            /\ Len(val) = LargerOf(Len(b), n)
            /\ \A i \in (Len(b) + 1)..Len(val) :
                 val[i] = last.args.x[((i - Len(b) - 1) % Len(last.args.x)) + 1]
            /\ MaxSize > 0 /\ val # b => bytes <= MaxSize
       /\ last.ret = Error => MaxSize > 0 /\ (n > MaxSize \/ bytes > MaxSize)

\* Once padding with a text has begun, it comes to an end, unless the text is empty.
PaddingEnds ==
  (work # None /\ work.of = "pad" /\ work.t # <<>>) ~> (work = None)

\* An iteration over a stepped range comes to an end.
StepsEnd == (work # None /\ work.of = "steps") ~> (work = None)

-----------------------------------------------------------------------------
\* Calls of functions: positions of a test that is true, or fails, in order.

Hits(s, f, from) == {i \in from..(Len(s) - 1) : f[s[i + 1]] \in {TRUE, Error}}
First(is) == CHOOSE i \in is : \A j \in is : i <= j

\* drain and retain with a test split an array in two and keep the order of both
\* parts.  A test that fails ends them: nothing after the element it failed on is
\* touched, and what had been taken out is lost with the error.
FiltersPartition ==
  Is({"drain_by", "retain_by", "filter"}) =>
    LET f     == last.args
        b     == last.before
        yes   == {i \in 0..(Size - 1) : f[b[i + 1]] = TRUE}
        bad   == {i \in 0..(Size - 1) : f[b[i + 1]] = Error}
        out   == IF last.fn = "retain_by" THEN (0..(Size - 1)) \ yes ELSE yes
    IN CASE last.fn = "filter" -> val = b /\ last.ret = IF bad = {} THEN Take(b, yes) ELSE Error
         [] bad = {} -> last.ret = Take(b, out) /\ val = Take(b, (0..(Size - 1)) \ out)
         [] OTHER    -> last.ret = Error
                        /\ val = Take(b, {i \in 0..(Size - 1) : i >= First(bad) \/ i \notin out})

\* index_of, find, find_map, some and all stop at the first element that decides
\* them, an error before it wins over it and an error after it does not matter.
SearchesStopFirst ==
  Is({"index_of", "find", "find_map", "some", "all"}) /\ kind = "array" =>
    LET b == last.before
        c == last.args
        from == IF c.i < 0 THEN LargerOf(Size + c.i, 0) ELSE c.i
        hits == Hits(b, c.f, from)
        h    == First(hits)
        maps == {i \in from..(Size - 1) : c.f[b[i + 1]] # Unit}
        all  == {i \in 0..(Size - 1) : last.args[b[i + 1]] \in {FALSE, Error}}
        some == Hits(b, last.args, 0)
        Ret(x) == last.ret = x
    IN CASE last.fn = "index_of" -> IF hits = {} THEN Ret(-1) ELSE Ret(IF c.f[b[h + 1]] = Error THEN Error ELSE h)
         [] last.fn = "find"     -> IF hits = {} THEN Ret(Unit)
                                    ELSE Ret(IF c.f[b[h + 1]] = Error THEN Error ELSE b[h + 1])
         [] last.fn = "find_map" -> Ret(IF maps = {} THEN Unit ELSE c.f[b[First(maps) + 1]])
         [] last.fn = "some"     -> Ret(IF some = {} THEN FALSE ELSE last.args[b[First(some) + 1]])
         [] last.fn = "all"      -> Ret(IF all = {} THEN TRUE ELSE last.args[b[First(all) + 1]])

\* Sorting never loses or repeats an element, whatever the comparer does, and with a
\* comparer that orders the elements no two are out of order and equal ones keep
\* their order; a sort that is refused leaves the array alone.
SortKeepsElements ==
  Is({"sort", "order", "sort_builtin"}) /\ (last.fn = "order" => last.ret # Error) =>
    LET b == last.before
        r == IF last.fn = "order" THEN last.ret ELSE val
        C(x, y) == IF last.fn = "sort_builtin" THEN last.args * (Rank[x] - Rank[y])
                   ELSE A!Compare(last.args, ElemType, x, y)
        Same(s, x) == SelectSeq(s, LAMBDA y : C(x, y) = 0)
    IN /\ \A x \in Elems : Cardinality({i \in 1..Size : b[i] = x}) = Cardinality({i \in 1..Len(r) : r[i] = x})
       /\ Len(r) = Size
       /\ last.fn = "sort_builtin" /\ last.ret = Error => val = b
       /\ (IF last.fn = "sort_builtin" THEN last.ret # Error /\ Size > 1 ELSE A!TotalOn(b, C))
          => /\ \A i \in 1..Size, j \in 1..Size : i < j => C(r[i], r[j]) <= 0
             /\ \A x \in Elems : (\E i \in 1..Size : b[i] = x) => Same(r, x) = Same(b, x)

-----------------------------------------------------------------------------
\* Strings.

\* A string is found at the first position, from the given start on, where taking
\* the substring of its length gives it back, and is not found when there is none.
FoundIsThere ==
  Is({"index_of"}) /\ kind = "string" =>
    LET c    == last.args
        from == IF c.i < 0 THEN LargerOf(Size + c.i, 0) ELSE c.i
        is   == {i \in from..Size : i + Len(c.t) <= Size /\ Part(last.before, i, Len(c.t)) = c.t}
    IN last.ret = IF is = {} \/ last.before = <<>> \/ (c.i > 0 /\ c.i >= Size) THEN -1 ELSE First(is)

\* The pieces of a split, joined by the delimiter, are the string again; there are
\* as many as asked for, and the delimiter is in none, or in the one that is left
\* over when no more are asked for.
SplitJoins ==
  Is({"split_by"}) =>
    LET ps == last.ret
        d  == last.args.d
        joined == FoldLeft(LAMBDA acc, k : acc \o d \o ps[k], ps[1], [k \in 1..(Len(ps) - 1) |-> k + 1])
        whole  == {k \in 1..Len(ps) : S!contains(ps[k], d)}
        most   == LargerOf(last.args.n, 1)
    IN /\ joined = last.before
       /\ Len(ps) <= most
       /\ d # <<>> /\ Len(ps) < most => whole = {}
       /\ d # <<>> => whole \subseteq {1} \/ whole \subseteq {Len(ps)}

\* The bytes of a text, read as text, are the text, whatever the blob held before,
\* as long as that was text too.
TextReadBack ==
  Is({"append_str"}) =>
    LET text == B!as_string(last.before)
    IN (\A i \in 1..Len(text) : text[i] # Replacement) => B!as_string(val) = text \o last.args

\* Writing text into a blob changes bytes of the portion only, and leaves the text
\* there, if all of it fits; ASCII-only writing leaves out the other characters.
TextWrittenWithin ==
  Is({"write_string"}) =>
    LET w == IF OneForNone THEN {LargerOf(last.args.a, 0)} ELSE Window(Size)
        x == last.args.x
        t == B!as_bytes(IF x.ascii THEN SelectSeq(x.t, LAMBDA c : c \in Ascii) ELSE x.t)
    IN /\ Len(val) = Size
       /\ \A i \in 1..Size : val[i] # last.before[i] => (i - 1) \in w
       /\ Len(t) <= Cardinality(w) /\ w \subseteq 0..(Size - 1) /\ w # {} =>
            Part(val, First(w), Len(t)) = t

\* An integer written into enough bytes, in either order, is read back from there;
\* fewer bytes keep the bytes outside the portion.
IntsReadBack ==
  Is({"write_int"}) =>
    LET w == IF OneForNone THEN {LargerOf(last.args.a, 0)} ELSE Window(Size)
        x == last.args.x
    IN /\ Len(val) = Size
       /\ \A i \in 1..Size : val[i] # last.before[i] => (i - 1) \in w
       /\ w \subseteq 0..(Size - 1) /\ Cardinality(w) >= IntBytes =>
            /\ B!parse_int(val, First(w), IntBytes, x.le) = x.n
            /\ B!parse_int(val, First(w), Cardinality(w), x.le) = x.n

-----------------------------------------------------------------------------
\* Integers.

\* An operation gives the mathematical result or, when that does not fit, an error;
\* quotient and remainder belong together; a failed operation changes nothing.
ArithmeticIsExact ==
  Is({"+", "-", "*", "/", "%", "**"}) =>
    LET x == last.before
        y == last.args
        r == last.ret
        Exact(n) == r = IF n \in Ints THEN n ELSE Error
    IN /\ val = IF r = Error THEN x ELSE r
       /\ CASE last.fn = "+" -> Exact(x + y)
            [] last.fn = "-" -> Exact(x - y)
            [] last.fn = "*" -> Exact(x * y)
            [] last.fn = "/" -> IF r = Error THEN y = 0 \/ (x = IntMin /\ y = -1)
                                ELSE r \in Ints /\ Abs(x - y * r) < Abs(y) /\ x * (x - y * r) >= 0
            [] last.fn = "%" -> IF r = Error THEN y = 0 \/ (x = IntMin /\ y = -1)
                                ELSE \E q \in Ints : x = y * q + r /\ Abs(r) < Abs(y) /\ x * r >= 0
            [] last.fn = "**" -> IF y < 0 \/ y > U32Max THEN r = Error ELSE Exact(IF y = 0 THEN 1 ELSE x ^ y)

\* A shift by any number, of either sign, multiplies by a power of two or divides
\* by it, rounding down, as far as the bits reach.
ShiftsAreScaling ==
  Is({"shift"}) =>
    LET x == last.before
        y == last.args
        n == SmallerOf(Abs(y), IntBits)
    IN last.ret = IF y < 0 THEN x \div (2 ^ n)
                  ELSE LET u == (x * 2 ^ n) % (2 ^ IntBits)
                       IN IF u > IntMax THEN u - 2 ^ IntBits ELSE u

Bit(n, i) == (n \div (2 ^ i)) % 2

\* get_bits and bits read exactly the bits of the portion, set_bits writes them and
\* no others, and both refuse a portion that begins outside of the integer.
BitsAreRight ==
  Is({"get_bits", "set_bits", "bits"}) =>
    LET c == last.args
        w == Window(IntBits)
        n == Cardinality(w)
        outside == CASE c.how = "len" -> c.a \notin (-IntBits)..(IntBits - 1)
                     [] c.how = "range" -> c.a >= IntBits
                     [] c.how = "inclusive" -> c.a >= IntBits \/ (c.b >= IntBits /\ last.fn # "bits")
        at == IF w = {} THEN 0 ELSE First(w)
    IN CASE last.ret = Error -> outside /\ val = last.before
         [] last.fn = "get_bits" ->
              IF n = IntBits THEN last.ret = val
              ELSE last.ret = FoldLeft(LAMBDA acc, i : acc + Bit(val, at + i - 1) * 2 ^ (i - 1), 0,
                                       [i \in 1..n |-> i])
         [] last.fn = "bits" -> last.ret = [i \in 1..n |-> Bit(val, at + i - 1) = 1]
         [] last.fn = "set_bits" ->
              \A i \in 0..(IntBits - 1) :
                Bit(val, i) = IF i \in w THEN Bit(c.x, i - at) ELSE Bit(last.before, i)

\* The values of a stepped range that lie before its end.
Steps(from, to, step) ==
  {n \in Ints : /\ \E k \in 0..(2 ^ IntBits) : n = from + k * step
                /\ IF step > 0 THEN from <= n /\ n < to ELSE to < n /\ n <= from}

\* A stepped range gives the values from its start on that lie before its end, but
\* for a value from which one more step would leave the integers.
StepsAreRight ==
  Is({"range"}) =>
    LET c  == last.args
        ns == Steps(last.before, c.to, c.step)
    IN IF c.step = 0 THEN last.ret = Error
       ELSE last.ret = {n \in ns : n + c.step \in Ints}

-----------------------------------------------------------------------------
\* Operators.

Lhs == last.before
Rhs == last.args.y
Failures == {Error, NoFn}

\* An array takes any value, and a blob a byte or text, by `+=` only.
TakesPart == Lhs.t \in {"array", "blob"} /\ Rhs.t # Lhs.t /\ <<Lhs.t, Rhs.t>> # <<"blob", "char">>

\* `+=` checks no size, checks it before it adds, or takes a character for one byte.
Unchecked == <<Lhs.t, Rhs.t>> \in {<<"char", "char">>, <<"array", "array">>, <<"blob", "char">>}

\* A character plus the empty string is a string, but a character stays one.
StaysChar == Lhs.t = "char" /\ Rhs.t = "str" /\ Rhs.v = <<>>

\* `x op= y` leaves in x what `x = x op y` would, whichever of the shortcuts, the
\* built-in functions and the packages does it, and fails when that fails; an
\* assignment that fails leaves x alone, but for the value of another type that is
\* added to a string and found too large.
OpAssignIsOperator ==
  Is({"op="}) /\ ~TakesPart =>
    LET r == O!binary(last.args.op, Lhs, Rhs)
    IN CASE last.ret = Unit -> \/ StaysChar /\ O!SameValue(val, Lhs)
                               \/ r = Error /\ Unchecked
                               \/ r \notin Failures /\ O!SameValue(val, r)
         [] OTHER -> r = last.ret /\ (O!SameValue(val, Lhs) \/ (Lhs.t = "str" /\ Rhs.t \notin {"str", "char"}))

\* No operator makes a string, an array or a blob larger than the limit of the
\* engine out of two that are within it (but for Unchecked assignments), and a value
\* that is too large is never assigned without an error.
OperatorsWithinLimit ==
  Is({"op", "op="}) /\ last.ret \notin Failures /\ O!SizeOf(Lhs) <= MaxSize /\ O!SizeOf(Rhs) <= MaxSize =>
    O!SizeOf(IF last.fn = "op" THEN last.ret ELSE val) <= MaxSize \/ (last.fn = "op=" /\ Unchecked)

Flipped(op) == CASE op = ">" -> "<" [] op = "<" -> ">" [] op = ">=" -> "<=" [] op = "<=" -> ">="
                 [] OTHER -> op

Floats == "float" \in {Lhs.t, Rhs.t} /\ {Lhs.t, Rhs.t} \subseteq {"float", "int"}
Unordered == Floats /\ \E v \in {O!AsFloat(Lhs), O!AsFloat(Rhs)} : v.c # "finite"
Yes(op) == LET r == O!binary(op, Lhs, Rhs) IN r \notin Failures /\ r.v

\* Comparisons of values of all types belong together: the operands may be swapped
\* with the comparison, `!=` is the negation of `==` and `>=` is `>` or `==`.  Not so
\* for infinite numbers, for `() >= ()`, for floats that differ by just the epsilon,
\* for the two kinds of ranges, for which there is no `==`, and for a blob compared
\* with a character, which has no function while the other way round has one.
ComparisonsBelong ==
  Is({"op"}) /\ last.args.op \in O!Comparisons /\ {Lhs.t, Rhs.t} # {"blob", "char"} =>
    LET back == O!binary(Flipped(last.args.op), Rhs, Lhs)
    IN /\ IF last.ret \in Failures THEN back = last.ret ELSE back.v = last.ret.v
       /\ last.ret = NoFn \/ Unordered
          \/ /\ {Lhs.t, Rhs.t} # {"range", "range="} => Yes("!=") = ~Yes("==")
             /\ Yes("==") /\ Yes(">=") /\ Yes("<=") => ~Yes(">") /\ ~Yes("<")
             /\ Lhs.t # "unit" /\ ~Floats /\ O!binary(">", Lhs, Rhs) # NoFn =>
                  /\ Yes(">=") = (Yes(">") \/ Yes("=="))
                  /\ Cardinality({op \in {"<", "==", ">"} : Yes(op)}) <= 1
             /\ Floats /\ Yes("==") => ~Yes(">") /\ ~Yes("<") /\ (Yes(">=") \/ Yes("<="))

\* The typed instructions of the virtual machine, where they apply, give what the
\* evaluator gives: the same value or an error where it has one.
TypedAgrees ==
  /\ Is({"op"}) =>
       LET op == last.args.op
           Agrees(r) == r = NoFn \/ (r = Error /\ last.ret = Error)
                        \/ (r \notin Failures /\ last.ret \notin Failures /\ O!SameValue(r, last.ret))
       IN Agrees(O!apply_binary(op, Lhs, Rhs)) /\ Agrees(O!apply_fast(op, Lhs, Rhs))
  /\ Is({"op="}) =>
       LET op == last.args.op
           Agrees(r) == r.ret = last.ret /\ (r.ret # NoFn => O!SameValue(r.x, val))
       IN /\ Agrees(O!store(op, Lhs, Rhs))
          /\ O!apply_assign_fast(op, Lhs, Rhs) = O!NoAssign \/ Agrees(O!apply_assign_fast(op, Lhs, Rhs))

\* Which built-in function an operator has depends on the types of its operands only:
\* the machine remembers it for an instruction by their types.
MemoisedByType ==
  Is({"op"}) /\ O!memoisable(Lhs, Rhs) =>
    LET x == CHOOSE v \in Operands[Lhs.t] : TRUE
        y == CHOOSE v \in Operands[Rhs.t] : TRUE
    IN O!HasBuiltin(last.args.op, Lhs, Rhs) = O!HasBuiltin(last.args.op, x, y)

\* Arrays, blobs and strings: portions, positions, filters, searches and sorts.
SequencesAreRight ==
  /\ TypeOK /\ NoOverflow /\ PortionsAreRight /\ PositionsAreRight
  /\ FiltersPartition /\ SearchesStopFirst /\ SortKeepsElements

\* Text and integers in strings and blobs.
TextIsRight ==
  /\ FoundIsThere /\ SplitJoins /\ PaddingWithinLimit
  /\ TextReadBack /\ TextWrittenWithin /\ IntsReadBack

\* Integers: arithmetic, shifts, bits and steps.
NumbersAreExact == ArithmeticIsExact /\ ShiftsAreScaling /\ BitsAreRight /\ StepsAreRight

\* Operators on values of all types, in both engines.
OperatorsAgree ==
  OpAssignIsOperator /\ OperatorsWithinLimit /\ ComparisonsBelong /\ TypedAgrees /\ MemoisedByType

\* The loops inside the library come to an end.
CallsEnd == PaddingEnds /\ StepsEnd
=============================================================================
