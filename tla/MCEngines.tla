----------------------------- MODULE MCEngines ------------------------------
(* Programs for both engines: a declaration, and two statements that use what it
   declares, in the combinations that the compiler's shortcuts are about.      *)
EXTENDS Engines

Lit(v) == <<"lit", v>>
N(n) == Lit(Num(n))
True == Lit(Bool(TRUE))
Var(n) == <<"var", n>>
Call(f, args) == <<"call", f, args>>
Plus(a, b) == Call("+", <<a, b>>)
Less(a, b) == Call("<", <<a, b>>)
Not(a) == Call("!", <<a>>)
Idx(e) == <<"idx", e, FALSE>>
Prop(n) == <<"prop", n, FALSE>>
Method(n, args) == <<"method", n, args, FALSE>>
Chain(root, steps) == <<"chain", root, steps>>
Block(b) == <<"stmt", b>>
Expr(e) == <<"expr", e>>
Log(e) == <<"fncall", "log", <<e>>>>
Let(n, e) == <<"let", n, e, FALSE, FALSE>>
Set(lhs, op, e) == <<"assign", lhs, op, e>>

\* A closure that captures a variable and is called with one more argument.
Adder(n) == Block(<< <<"share", <<n>>>>, Expr(Call("curry", << <<"closure", "adds">>, Var(n) >>)) >>)

Arrays == <<"array", <<N(1), N(2)>>>>

Fn(name) == Call("Fn", <<Lit(Str(name))>>)

Return(e) == <<"return", <<e>>>>

MCFunctions ==
  [twice  |-> [params |-> <<"n">>, body |-> << Return(Plus(Var("n"), Var("n"))) >>],
   fails  |-> [params |-> <<"n">>, body |-> << <<"if", Less(Var("n"), N(1)), << <<"throw", <<>>>> >>, <<>> >>,
                                               <<"throw", <<Var("n")>>>> >>],
   become |-> [params |-> <<"n">>, body |-> << Set(<<"this">>, "", Var("n")), Expr(<<"this">>) >>],
   bumps  |-> [params |-> <<>>, body |-> << <<"fncall", "inc", << <<"this">> >>>> >>],
   adds   |-> [params |-> <<"y", "n">>, body |-> << Set(Var("y"), "+", Var("n")), Expr(Var("y")) >>],
   asks   |-> [params |-> <<>>, body |-> << Expr(Call("is_shared", << <<"this">> >>)) >>],
   spread |-> [params |-> <<"a", "b", "c">>, body |-> << Expr(Plus(Var("a"), Call("-", <<Var("b"), Var("c")>>))) >>],
   seeks  |-> [params |-> <<"n">>,
               body |-> << <<"for", "i", <<"j">>, Arrays,
                             << <<"try", << <<"if", Less(Var("n"), Var("i")), << Return(Var("j")) >>, <<>> >>,
                                            <<"fncall", "fails", <<Var("i")>>>> >>,
                                         <<"e">>, << Log(Var("e")), <<"continue", <<>>>> >>>> >>>> >>]]

MCScopes == { <<Entry("x", FALSE, Num(1)), Entry("k", TRUE, Num(7))>> }

Containers == { Let("y", Arrays), Let("y", <<"map", << <<"a", N(1)>>, <<"b", Arrays>> >>>>) }

Changeable == Containers \cup { Let("y", N(0)) }

MCDecls == Changeable \cup { <<"let", "y", N(2), TRUE, FALSE>> }

Exprs ==
  { N(2), Var("x"), Plus(Var("y"), N(1)), Less(Var("y"), Var("x")), Not(Less(N(1), Var("y"))),
    Plus(Var("x"), Call("twice", <<Var("x")>>)), Call("fails", <<Var("y")>>), Call("seeks", <<Var("y")>>),
    <<"and", <<Less(Var("y"), N(3)), Less(Var("x"), Var("y"))>>>>,
    <<"or", <<Less(Var("y"), N(1)), Var("x")>>>>,
    <<"coalesce", <<Chain(Var("y"), <<Prop("z")>>), Var("x")>>>>,
    Chain(Var("y"), <<Idx(N(0))>>), Chain(Var("y"), <<Prop("b"), Idx(Var("x"))>>),
    Chain(Var("y"), <<Idx(Plus(Var("x"), N(1)))>>),
    Chain(Arrays, <<Idx(N(-1))>>), <<"chain", Var("y"), << <<"prop", "z", TRUE>>, <<"prop", "w", TRUE>> >>>> }

\* Methods, and pointers to functions that are called as methods or as functions.  (Whether a
\* method may change a constant is not asked here.)
Receivers ==
  { Chain(Var("y"), <<Method("push", <<Var("x")>>)>>),
    Chain(Var("y"), <<Prop("a"), Method("become", <<N(5)>>)>>), Chain(Var("y"), <<Method("bumps", <<>>)>>),
    Chain(Var("x"), <<Method("become", <<Var("y")>>)>>), Call("bumps", <<>>), Chain(Var("y"), <<Method("asks", <<>>)>>), Call("become", <<N(1)>>),
    Chain(Var("x"), <<Method("call", <<Fn("become"), N(4)>>)>>),
    Chain(Fn("twice"), <<Method("call", <<Var("x")>>)>>), Call("call", <<Fn("twice"), N(2)>>),
    Call("call", <<Var("y"), N(2)>>), Chain(Var("y"), <<Prop("a"), Method("call", <<Fn("bumps")>>)>>),
    Chain(Chain(Fn("adds"), <<Method("curry", <<Var("y")>>)>>), <<Method("call", <<N(1)>>)>>) }

Simple ==
  { Log(Var("y")), <<"fncall", "inc", <<Var("y")>>>>, Set(Var("y"), "+", Var("x")), Set(Var("x"), "", Var("y")),
    Set(Var("k"), "", N(1)), <<"noop">>,
    <<"break", <<Var("x")>>>>, <<"continue", <<>>>>, <<"throw", <<Var("y")>>>>, <<"throw", <<>>>>, Return(Var("x")) }

IndexSets ==
  { Set(Chain(Var("y"), <<Idx(N(0))>>), "", N(9)), Set(Chain(Var("y"), <<Idx(Var("x"))>>), "+", Var("x")),
    Set(Chain(Var("y"), <<Idx(N(-1))>>), "", <<"and", <<Less(Var("x"), N(0))>>>>),
    Set(Chain(Var("y"), <<Prop("b"), Idx(N(0))>>), "+", Call("twice", <<Var("x")>>)) }

Jumps == {s \in Simple : s[1] \in {"break", "continue"}}

\* A loop that counts in n.  (A `continue` in `do` never comes to its condition.)
Counting(b) == <<Set(Var("n"), "+", N(1))>> \o b

Handled == {Log(Var("e")), <<"throw", <<>>>>, <<"throw", <<N(3)>>>>}

\* Values and subjects of a switch: by value, by range, by both, with conditions.
Arms ==
  { <<Arm(<<Num(1)>>, <<>>, True, Var("x")), Arm(<<Num(0), Num(2)>>, <<>>, True, Block(<<Log(N(2))>>))>>,
    <<Arm(<<Num(0), Num(1)>>, <<>>, Less(Var("y"), Var("x")), N(4)), Arm(<<Num(1)>>, <<>>, True, N(5))>>,
    <<Arm(<<Num(1)>>, <<>>, Less(Var("x"), N(1)), N(4)), Arm(<<>>, <<0, 1, TRUE>>, Less(Var("y"), N(1)), N(5)),
      Arm(<<>>, <<1, 3, FALSE>>, True, Plus(Var("y"), Var("y")))>> }

Switches == {<<"switch", e, a, d>> : e \in {Var("x"), Var("y")}, a \in Arms, d \in {<<>>, << N(6) >>}}

Flat(b) == {s \in b : s[1] \notin {"break", "continue"}}

\* Statements in the places where the compiler treats what they leave in different ways.
Statement(simple) ==
  Flat(simple)
  \cup {<<"if", c, <<a>>, b>> : c \in {Less(Var("x"), N(2)), Var("y")}, a \in Flat(simple), b \in {<<>>, <<Log(N(3))>>}}
  \cup {<<"while", Less(Var("n"), N(2)), Counting(<<a>>)>> : a \in simple}
  \cup {<<"do", Counting(<<a>>), Less(Var("n"), N(2)), FALSE>> : a \in simple \ {<<"continue", <<>>>>}}
  \cup {<<"for", "i", c, Arrays, <<a, Log(Var("i"))>>>> : a \in {b \in simple : b[1] # "return"}, c \in {<<>>, <<"j">>}}
  \cup {<<"try", <<Let("z", N(1)), a>>, <<"e">>, <<b>>>> : a \in {c \in Flat(simple) : c[1] # "return"}, b \in Handled}

\* Jumps out of two loops and a handler, and loops whose value is wanted.
Nested(a) ==
  { <<"while", Less(Var("n"), N(2)), Counting(<< <<"for", "i", <<>>, Arrays, << <<"try", <<a>>, <<>>, <<Log(N(1))>>>>, Log(Var("i"))>>>>>>)>>,
    <<"for", "i", <<"j">>, Arrays, << <<"while", Less(Var("n"), Var("i")), Counting(<<a>>)>>, Log(Var("j"))>>>>,
    Let("z", Block(<< <<"for", "i", <<>>, Arrays, << <<"if", Less(N(1), Var("i")), <<a>>, <<>>>> >>>> >>)),
    Let("z", Block(<< <<"while", True, Counting(<< <<"if", Less(N(1), Var("n")), << <<"break", <<Var("n")>>>> >>, <<a>>>> >>)>> >>)) }


Program(d, s) == <<d, Let("n", N(0)), s, Expr(Var("y"))>>

\* With a closure that shares y.
Closing(d, s) == <<d, Let("f", Adder("y")), Let("n", N(0)), s, Expr(Var("y"))>>

Shares ==
  { Expr(Chain(Var("f"), <<Method("call", <<N(3)>>)>>)), Expr(Call("call", <<Var("f"), N(3)>>)),
    Expr(Call("is_shared", <<Var("y")>>)), Let("z", Var("y")), <<"let", "n", Var("y"), FALSE, TRUE>>,
    <<"fncall", "inc", <<Var("y")>>>>, Expr(Chain(Var("y"), <<Method("bumps", <<>>)>>)),
    <<"while", Less(Var("y"), N(4)), << Expr(Chain(Var("f"), <<Method("call", <<N(3)>>)>>)) >>>>,
    <<"for", "i", <<>>, Arrays, << Expr(Call("call", <<Var("f"), Var("i")>>)) >>>>,
    <<"try", << Set(Var("y"), "", Lit(Unit)), Expr(Chain(Var("f"), <<Method("call", <<N(3)>>)>>)) >>, <<>>, <<Log(Var("y"))>>>>,
    Log(Plus(Var("y"), Chain(Var("f"), <<Method("call", <<N(1)>>)>>))) }

\* A call with two arguments after a variable of the host's.
RotatedCalls == { << Expr(Call("spread", <<Var("x"), N(5), N(2)>>)) >> }

\* What the optimizer can tell beforehand, with the constants k and m.
Maps == <<"map", << <<"a", N(1)>>, <<"b", Arrays>> >>>>

Known ==
  { Plus(Var("k"), N(1)), Less(Plus(N(1), N(2)), Var("y")), Chain(Maps, <<Prop("a")>>), Chain(Maps, <<Idx(Lit(Str("b")))>>),
    Chain(Var("m"), <<Prop("a")>>), Chain(Var("m"), <<Idx(Lit(Str("c")))>>), Chain(Var("m"), <<Prop("b"), Idx(Plus(N(0), N(1)))>>),
    Chain(N(5), <<Idx(N(2))>>), Chain(Lit(Unit), << <<"prop", "a", TRUE>> >>),
    Chain(<<"array", <<N(1), Var("y")>>>>, <<Idx(N(-1))>>), Chain(Arrays, <<Idx(N(2))>>),
    Chain(Var("y"), <<Idx(Chain(Var("m"), <<Prop("a")>>))>>),
    <<"and", <<True, Less(Var("y"), Var("x")), Less(N(2), N(1)), Less(Var("x"), N(9))>>>>,
    <<"and", <<Less(N(1), N(2)), Less(Var("k"), N(9))>>>>, <<"and", <<Call("twice", <<Var("y")>>), Lit(Bool(FALSE))>>>>,
    <<"or", <<Lit(Bool(FALSE)), Less(Var("k"), N(9)), Call("fails", <<Var("y")>>)>>>>, <<"or", <<Lit(Bool(FALSE)), Not(True)>>>>,
    <<"coalesce", <<Lit(Unit), Chain(Var("m"), <<Prop("z")>>), Var("y"), N(3)>>>>, <<"coalesce", <<Var("y"), N(3), Var("x")>>>>,
    Call("is_shared", <<N(1)>>), Call("twice", <<N(2)>>), Call("call", <<Fn("twice"), N(2)>>),
    Chain(Fn("twice"), <<Method("call", <<Var("k")>>)>>), Block(<<>>), Block(<<Expr(Plus(Var("y"), Var("k")))>>),
    Block(<<Let("z", Var("y")), Expr(Plus(Var("z"), N(1))), Let("w", N(1))>>) }

\* Statements that can go, or become simpler.
Foldable ==
  {<<"if", c, <<a>>, b>> : c \in {True, Not(True), Less(Var("k"), Var("y"))}, a \in {Let("z", N(1)), Set(Var("y"), "", N(4))},
                           b \in {<<>>, <<Return(N(1)), Set(Var("y"), "", N(6))>>}}
  \cup {<<"if", c, << <<"if", Less(Var("x"), N(2)), <<Set(Var("y"), "", N(5))>>, <<>>>> >>, <<>>>> :
          c \in {Less(Var("y"), N(1)), <<"and", <<True, Less(Var("y"), N(1))>>>>}}
  \cup { Set(Var("y"), "", Plus(Var("y"), Var("k"))), Set(Var("x"), "", Plus(Var("y"), N(1))), <<"if", Less(Var("y"), N(1)), <<>>, <<>>>>,
         <<"block", <<Set(Var("x"), "", Var("y")), Expr(Var("x"))>>>>, <<"block", <<Let("y", N(8)), Set(Var("x"), "", Var("y"))>>>>,
         <<"block", <<<<"let", "k", N(1), FALSE, FALSE>>, Set(Var("y"), "", Var("k"))>>>>,
         <<"block", <<<<"block", <<<<"let", "y", N(3), TRUE, FALSE>>, Set(Var("x"), "", Var("y"))>>>>, Set(Var("y"), "", Var("x"))>>>>,
         <<"while", Lit(Bool(FALSE)), <<Set(Var("y"), "", N(5))>>>>, <<"do", <<Set(Var("y"), "+", N(1))>>, True, TRUE>>,
         <<"do", <<Expr(N(1))>>, True, TRUE>>, <<"for", "i", <<>>, Arrays, <<Expr(N(1))>>>>,
         <<"for", "i", <<>>, Arrays, <<Set(Var("y"), "", Var("i")), Let("z", N(1))>>>>,
         <<"try", <<Expr(N(1))>>, <<"e">>, <<Set(Var("y"), "", N(5))>>>>, <<"try", << <<"throw", <<N(1)>>>>, Expr(Var("y")) >>, <<"e">>, <<Set(Var("y"), "", Var("e"))>>>>,
         <<"while", True, << Set(Var("y"), "", N(3)), <<"break", <<>>>>, Set(Var("y"), "", N(5)) >>>>,
         Return(Var("k")), <<"return", <<>>>>, Expr(Block(<<Set(Var("y"), "", N(7))>>)), Expr(Block(<<>>)), Expr(Var("x")) }
  \cup {<<"switch", e, a, d>> :
          e \in {Arrays, Var("x"), Plus(Var("x"), N(0))}, d \in {<<>>, <<N(6)>>},
          a \in { <<Arm(<<Array(<<Num(1), Num(2)>>), Num(1)>>, <<>>, Less(Var("x"), N(2)), N(4))>>,
                  <<Arm(<<Array(<<Num(1), Num(2)>>)>>, <<>>, True, Var("x")), Arm(<<Num(1)>>, <<>>, Not(True), N(3)),
                    Arm(<<Num(1)>>, <<>>, True, N(5)), Arm(<<Num(1), Num(2)>>, <<>>, True, Var("y"))>>,
                  <<Arm(<<Num(3)>>, <<>>, True, N(3)), Arm(<<>>, <<0, 2, FALSE>>, Less(Var("y"), N(1)), N(2)), Arm(<<>>, <<1, 3, TRUE>>, True, N(1))>> }}

Knowing(s, e) == <<<<"let", "m", Maps, TRUE, FALSE>>, Let("y", N(0)), s, Expr(e)>>

MCPure == {Knowing(s, Var("y")) : s \in Foldable \cup {Let("z", e) : e \in Known}} \cup {Knowing(<<"noop">>, e) : e \in Known}

MCPrograms ==
  MCPure
  \cup {Program(d, s) : d \in MCDecls, s \in Statement(Simple) \cup {Expr(e) : e \in Exprs}}
  \cup {Program(d, Expr(e)) : d \in Changeable, e \in Receivers}
  \cup {Program(d, s) : d \in Containers, s \in Statement(IndexSets)}
  \cup {Program(Let("y", v), s) : v \in {N(0), N(1), N(2), Lit(Unit)},
                                  s \in Switches \cup {Let("z", Block(<<t>>)) : t \in Switches}}
  \cup {Program(Let("y", N(1)), s) : s \in UNION {Nested(a) : a \in Jumps \cup {<<"throw", <<>>>>, Log(Var("n"))}}}
  \cup {Closing(d, s) : d \in {Let("y", N(0)), Let("y", Arrays)}, s \in Shares}
  \cup {Closing(Let("y", Arrays), s) : s \in IndexSets}
  \cup {<<Let("f", Adder("x")), s, Expr(Call("call", <<Var("f"), N(1)>>))>> : s \in {Log(Var("x")), Set(Var("x"), "+", N(2))}}
=============================================================================
