----------------------------- MODULE MCChaining -----------------------------
EXTENDS Chaining

P == <<"p">>
Q == <<"q">>
K(p) == StrVal(p)
Map1(p, v) == MapVal([k \in {p} |-> v])
Obj1(p, v) == ObjVal([k \in {K(p)} |-> v])

\* Cells with a map and with an object that hold the cell itself, and one with an array.
MCCells == [c \in {"c", "d", "e"} |->
              CASE c = "c" -> Map1(P, CellVal("c"))
                [] c = "d" -> ArrVal(<<StrVal(<<"a">>)>>)
                [] c = "e" -> Obj1(Q, CellVal("e"))]

MCRoots ==
  { IntVal(-5), StrVal(<<"a", "b">>), StrVal(<<>>), BlobVal(<<2, 1>>),
    ArrVal(<<IntVal(3), StrVal(<<"a">>)>>), ArrVal(<<CellVal("d")>>),
    Map1(P, ArrVal(<<IntVal(1)>>)), Map1(P, Obj1(Q, Map1(P, IntVal(1)))), MapVal(<<>>),
    Obj1(P, ArrVal(<<StrVal(<<"a">>)>>)), Obj1(Q, Map1(P, IntVal(1))), Obj1(P, CellVal("d")),
    CellVal("c"), CellVal("d"), CellVal("e"), UnitVal }

MCSteps ==
  { Idx(IntVal(0), FALSE), Idx(IntVal(-1), FALSE), Idx(RangeVal(1, IntMax), FALSE),
    Idx(RangeIVal(0, 1), TRUE), Idx(K(P), FALSE), Idx(K(Q), FALSE),
    Prop(P, FALSE), Prop(P, TRUE), Prop(Q, FALSE),
    Call("native", <<IntVal(1), IntVal(2)>>), Call("plain", <<>>), Call("script", <<IntVal(3)>>) }

MCNew == { IntVal(1), IntVal(7), BoolVal(TRUE), CharVal("z"), StrVal(<<"x", "y">>) }
MCMethodVals == { ArrVal(<<IntVal(2)>>), IntVal(2) }
MCMethodResults == { MapVal(<<>>), CellVal("d"), IntVal(2) }
Api(gs, ss, ig, is, f, max) ==
  [getters |-> gs, setters |-> ss, idxGet |-> ig, idxSet |-> is, failOnMissing |-> f,
   maxLen |-> max]
MCApis == { Api({P, Q}, {P}, TRUE, FALSE, FALSE, NoLimit), Api({Q}, {Q}, TRUE, TRUE, TRUE, 2) }
=============================================================================
