---------------------------- MODULE MCLibrary -------------------------------
EXTENDS Library

\* Two characters of one byte, one of them white space, and one of two bytes; the
\* fourth byte value is never a first byte.
MCUtf8 == [c \in {"a", " ", "w"} |->
             CASE c = "a" -> <<0>> [] c = " " -> <<1>> [] c = "w" -> <<2, 3>>]
\* Two integers and an object map, which has no order.
MCType == [e \in {"x", "y", "m"} |-> IF e = "m" THEN 2 ELSE 1]
MCRank == [e \in {"x", "y", "m"} |-> CASE e = "x" -> 1 [] e = "y" -> 2 [] e = "m" -> Unit]

\* Comparers: by rank, by rank with failures on a map, all equal, and one that is
\* no order at all.
MCComparers ==
  LET Pairs == {"x", "y", "m"} \X {"x", "y", "m"}
      ByRank(d) == [p \in Pairs |-> IF MCRank[p[1]] = Unit \/ MCRank[p[2]] = Unit THEN Error
                                    ELSE d * (MCRank[p[1]] - MCRank[p[2]])]
  IN {ByRank(1), ByRank(-1), [p \in Pairs |-> 0], [p \in Pairs |-> 1]}

MCPositions == {IntMin, -2, -1, 0, 1, 2, IntMax}

\* Texts at the limit and over it, floats around zero, around 1.0 and at the end.
MCOperands ==
  [t \in {"int", "bool", "char", "str", "blob", "array", "unit", "float", "decimal", "range", "range="} |->
     CASE t = "int" -> {O!I(n) : n \in MCPositions}
       [] t = "bool" -> {O!Bool(b) : b \in BOOLEAN}
       [] t = "char" -> {O!Char(c) : c \in {"a", "w"}}
       [] t = "str" -> {O!Str(s) : s \in {<<>>, <<"a">>, <<"w">>, <<"a", "w">>, <<"w", "a">>}}
       [] t = "blob" -> {O!Blob(b) : b \in {<<>>, <<0>>, <<2, 3>>}}
       [] t = "array" -> {O!Array(a) : a \in {<<>>, <<"a">>, <<"a", "w">>}}
       [] t = "unit" -> {O!Nil}
       [] t = "float" -> {O!Float(n) : n \in {-4, -1, 0, 1, 3, 4, 5, 7}} \cup {O!NaN, O!Inf(1), O!Inf(-1)}
       [] t = "decimal" -> {O!Decimal(n) : n \in {-4, 0, 1, 4, 8}}
       [] t = "range" -> {O!ExRange(0, n) : n \in {0, 1}}
       [] t = "range=" -> {O!InRange(0, n) : n \in {0, 1}}]
=============================================================================
