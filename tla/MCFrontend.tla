----------------------------- MODULE MCFrontend -----------------------------
(***************************************************************************)
(* Scripts over a few small alphabets, each up to a length: numbers and    *)
(* signs, symbols, strings and interpolations, comments; and streams of    *)
(* tokens: operators between variables, chains of accesses, nestings of    *)
(* one form, and statements in statements with the trees they spell.       *)
(***************************************************************************)
EXTENDS Frontend

MCDigits == {"0", "1", "8"}
MCHexDigits == MCDigits \cup {"a", "b", "e"}
MCLetters == {"a", "b", "e", "f", "i", "n", "t", "u", "x", "c", "h", "s", "w", "l"}

Over(chars, n) ==
  LET words[k \in 0..n] == IF k = 0 THEN {""} ELSE words[k - 1] \cup
                             {w \o c : w \in words[k - 1], c \in chars}
  IN words[n]

MCTexts ==
  UNION {
    Over({"0", "8", "x", "e", ".", "-", " ", "_"}, 4),
    {"a " \o w : w \in Over({"<", "-", "=", "!", "in", ".", "1", " "}, 4)},
    {"a" \o w \o "a" : w \in Over({"*", "=", ">", "|", "&", "?", ":", "#"}, 3)},
    Over({BackTick, "\"", "\\", "n", "$", "{", "}", "\n"}, 4),
    {BackTick \o "${" \o w : w \in Over({BackTick, "${", "}", "{", "a", " "}, 4)},
    {"'" \o w \o "'" : w \in Over({"'", "\\", "a", "x11"}, 3)},
    {"a/*" \o w : w \in Over({"/", "*", "a", "\n"}, 4)},
    {"#" \o w : w \in Over({"#", "\"", "a", "!", " ", "{"}, 4)},
    {"1" \o w : w \in Over({"..", "=", " ", "1", ".a", "-"}, 4)},
    {"switch a{1" \o w \o "a}" : w \in Over({"..", "=", " ", "1", "=>", "-", "|"}, 4)},
    {"if a" \o w : w \in Over({"{", "}", ";", "a", "else", " "}, 5)},
    {"let a=" \o w : w \in Over({"|", "a", "{", "}", ";", "\n"}, 5)},
    {" \"" \o w : w \in Over({"\\", "\n", " ", "a", "\""}, 5)}
  }

id(s) == <<"id", s>>
x == id("x")

Between == {"||", "&&", "&", "==", "in", "??", "..", "+", "-", "*", "**", "<<"}
Operands == {<<id("a")>>, <<<<"unary", "-">>, id("b")>>}
Operators(n) ==
  LET e[k \in 0..n] == IF k = 0 THEN {<<id("a")>>}
                       ELSE {s \o <<sym(o)>> \o v : s \in e[k - 1], o \in Between, v \in Operands}
  IN {[kind |-> "operators", toks |-> t] : t \in UNION {e[k] : k \in 0..n}}

one == <<"int", "1">>
y == <<"var", "y">>
\* A link of a chain: its tokens and what it is.
LinkForms ==
  { [toks |-> <<sym(d), id("p")>>, what |-> <<"prop", "p">>, elvis |-> d = "?."] : d \in {".", "?."} }
  \cup
  { [toks |-> <<sym("."), id("m"), sym("()")>>, what |-> <<"method", "m", <<>>>>, elvis |-> FALSE],
    [toks |-> <<sym("["), id("y"), sym("."), id("p"), sym("]")>>,
     what |-> <<"index", <<"dot", y, <<"prop", "p">>, {}>>>>, elvis |-> FALSE],
    [toks |-> <<sym("["), id("y"), sym("["), one, sym("]"), sym("]")>>,
     what |-> <<"index", <<"index", y, one, {"BREAK"}>>>>, elvis |-> FALSE] }
  \cup
  { [toks |-> <<sym(d), one, sym("]")>>, what |-> <<"index", one>>, elvis |-> d = "?["] : d \in {"[", "?["} }

LinkSeqs(most) == UNION {[1..n -> LinkForms] : n \in 1..most}
Spelled(ls) == FlattenSeq([i \in 1..Len(ls) |-> ls[i].toks])

\* x followed by the links, the first k of them in parentheses, maybe assigned to.
ChainOf(ls, k, assigned) ==
  [kind |-> "chain", links |-> [i \in 1..Len(ls) |-> [what |-> ls[i].what, elvis |-> ls[i].elvis]],
   assigned |-> assigned,
   toks |-> (IF k = 0 THEN <<x>>
             ELSE <<sym("("), x>> \o Spelled(SubSeq(ls, 1, k)) \o <<sym(")")>>)
            \o Spelled(SubSeq(ls, k + 1, Len(ls)))
            \o (IF assigned THEN <<sym("="), one>> ELSE <<>>)]
Chains(most) == {ChainOf(ls, k, b) : ls \in LinkSeqs(most), k \in 0..1, b \in BOOLEAN}
                \cup {ChainOf(ls, 2, b) : ls \in {l \in LinkSeqs(most) : Len(l) >= 2}, b \in BOOLEAN}

\* One form nested in itself, up to n times.
Nest(Wrap(_), n) ==
  LET t[k \in 0..n] == IF k = 0 THEN <<x>> ELSE Wrap(t[k - 1])
  IN {[kind |-> "nested", toks |-> t[k]] : k \in 1..n}
Nested(most) ==
  UNION { Nest(LAMBDA t : <<sym("(")>> \o t \o <<sym(")")>>, most),
          Nest(LAMBDA t : <<<<"unary", "-">>>> \o t, most),
          Nest(LAMBDA t : <<sym("[")>> \o t \o <<sym("]")>>, most),
          Nest(LAMBDA t : <<id("f"), sym("(")>> \o t \o <<sym(")")>>, most),
          Nest(LAMBDA t : <<x, sym("[")>> \o t \o <<sym("]")>>, most),
          Nest(LAMBDA t : t \o <<sym("["), one, sym("]")>>, most),
          Nest(LAMBDA t : t \o <<sym("."), id("p")>>, most),
          Nest(LAMBDA t : <<sym("(")>> \o t \o <<sym("."), id("p"), sym(")")>>, most),
          Nest(LAMBDA t : t \o <<sym("."), id("m"), sym("("), x, sym(")")>>, most),
          Nest(LAMBDA t : t \o <<sym("+"), x>>, most),
          Nest(LAMBDA t : t \o <<sym("**"), x>>, most),
          Nest(LAMBDA t : <<x, sym("+"), sym("(")>> \o t \o <<sym(")")>>, most),
          Nest(LAMBDA t : <<x, sym("=")>> \o t, 2) }

-----------------------------------------------------------------------------
\* Statements, and how they are spelled

MCSyntaxes == [exec |-> <<"exec", "$ident$", "<-", "$expr$", "$block$">>,
               pick |-> <<"pick", "$symbol$", "$int$", "$func$">>]

var(s) == <<"var", s>>
true == <<"bool", "true">>
none == <<"none">>
block(s) == <<"block", s>>
range(from, op, to) == <<"fn", op, <<<<"int", from>>, <<"int", to>>>>, FALSE>>
call(e) == <<"fn", "g", <<e>>, FALSE>>

sy(names) == [k \in DOMAIN names |-> sym(names[k])]
\* FlattenSeq, of a sequence that is evaluated once.
Concat(s) == Given(s \o <<>>, FlattenSeq)
\* Lists with a token between their members.
Joined(seqs, tok) == Concat([k \in DOMAIN seqs |-> IF k = 1 THEN seqs[k] ELSE <<tok>> \o seqs[k]])

\* What ends by itself; a custom syntax that ends in a closure ends where the closure does.
RECURSIVE Ended(_)
Ended(s) == CASE s[1] = "def" -> TRUE
              [] s[1] = "custom" /\ s[2] = "pick" -> Ended(s[3][3][1][3])
              [] OTHER -> is_self_terminated(s)

\* The tokens of a tree, with a semicolon after every statement or only where one is needed.
RECURSIVE Spell(_, _)
Spell(e, all) ==
  LET S(d) == Spell(d, all)
      Value(d) == IF d = none THEN <<>> ELSE S(d)
      Names(ns) == Joined([k \in DOMAIN ns |-> <<id(ns[k])>>], sym(","))
      Stmts(ss) == Concat([k \in DOMAIN ss |-> S(ss[k]) \o
        IF all \/ (k < Len(ss) /\ ~Ended(ss[k])) THEN <<sym(";")>> ELSE <<>>])
      Arm(a) == (IF a[1] = <<>> THEN <<sym("_")>> ELSE Joined([k \in DOMAIN a[1] |-> S(a[1][k])], sym("|")))
                \o (IF a[2] = true THEN <<>> ELSE <<sym("if")>> \o S(a[2])) \o <<sym("=>")>> \o S(a[3])
                \o (IF all \/ ~Ended(a[3]) THEN <<sym(",")>> ELSE <<>>)
  IN CASE e[1] = "script" -> Stmts(e[2])
       [] e[1] = "block" -> <<sym("{")>> \o Stmts(e[2]) \o <<sym("}")>>
       [] e[1] = "var" -> <<id(e[2])>>
       [] e[1] \in {"int", "float", "string"} -> <<e>>
       [] e[1] = "bool" -> <<sym(e[2])>>
       [] e[1] = "this" -> <<<<"reserved", "this">>>>
       [] e[1] = "fn" -> IF IsRange(e) THEN S(e[3][1]) \o <<sym(e[2])>> \o S(e[3][2])
                         ELSE <<id(e[2]), sym("(")>> \o S(e[3][1]) \o <<sym(")")>>
       [] e[1] = "map" -> <<sym("#{")>> \o Joined([k \in DOMAIN e[2] |-> <<id(e[2][k][1]), sym(":")>> \o S(e[2][k][2])],
                                                 sym(",")) \o <<sym("}")>>
       [] e[1] = "stmt" -> S(e[2])
       [] e[1] = "interpolated" -> <<<<"interpolated", e[2][1][2]>>>> \o S(e[2][2]) \o <<<<"string", "">>>>
       [] e[1] = "closure" -> (IF e[2] = <<>> THEN <<sym("||")>> ELSE <<sym("|")>> \o Names(e[2]) \o <<sym("|")>>) \o S(e[3])
       [] e[1] = "custom" -> IF e[2] = "exec"
            THEN <<id("exec"), id("x"), <<"custom", "<-">>>> \o S(e[3][3][1]) \o S(e[3][4][1])
            ELSE <<id("pick"), sym("+")>> \o S(e[3][2][1]) \o S(e[3][3][1])
       [] e[1] = "assign" -> S(e[3]) \o <<sym(e[2])>> \o S(e[4])
       [] e[1] = "let" -> (IF e[3] THEN <<sym("export")>> ELSE <<>>) \o <<sym(e[2]), id(e[4])>>
                          \o (IF e[5] = none THEN <<>> ELSE <<sym("=")>> \o S(e[5]))
       [] e[1] = "export" -> sy(<<"export">>) \o <<id(e[2])>> \o (IF e[3] = "" THEN <<>> ELSE <<sym("as"), id(e[3])>>)
       [] e[1] = "import" -> sy(<<"import">>) \o S(e[2]) \o (IF e[3] = "" THEN <<>> ELSE <<sym("as"), id(e[3])>>)
       [] e[1] \in {"break", "return", "throw"} -> <<sym(e[1])>> \o Value(e[2])
       [] e[1] = "continue" -> <<sym("continue")>>
       [] e[1] = "if" -> <<sym("if")>> \o S(e[2]) \o S(e[3])
                         \o (IF e[4] = <<"noop">> THEN <<>> ELSE <<sym("else")>> \o S(e[4]))
       [] e[1] = "while" -> (IF e[2] = <<"unit">> THEN <<sym("loop")>> ELSE <<sym("while")>> \o S(e[2])) \o S(e[3])
       [] e[1] = "do" -> <<sym("do")>> \o S(e[2]) \o <<sym(e[3])>> \o S(e[4])
       [] e[1] = "for" -> <<sym("for")>> \o (IF e[3] = "" THEN <<id(e[2])>>
                            ELSE <<sym("("), id(e[2]), sym(","), id(e[3]), sym(")")>>) \o <<sym("in")>> \o S(e[4]) \o S(e[5])
       [] e[1] = "try" -> <<sym("try")>> \o S(e[2]) \o <<sym("catch")>>
                          \o (IF e[3] = "" THEN <<>> ELSE <<sym("("), id(e[3]), sym(")")>>) \o S(e[4])
       [] e[1] = "switch" -> <<sym("switch")>> \o S(e[2]) \o <<sym("{")>> \o Concat([k \in DOMAIN e[3] |-> Arm(e[3][k])]) \o <<sym("}")>>
       [] e[1] = "def" -> (IF e[2] THEN <<sym("private")>> ELSE <<>>) \o <<sym("fn")>>
                          \o (IF e[3] = "" THEN <<>> ELSE <<<<"string", e[3]>>, sym(".")>>) \o <<id(e[4])>>
                          \o (IF e[5] = <<>> THEN <<sym("()")>> ELSE <<sym("(")>> \o Names(e[5]) \o <<sym(")")>>) \o S(e[6])

Simple ==
  { <<"continue">>, <<"break", none>>, <<"break", one>>, <<"return", none>>, <<"throw", one>>, <<"this">>,
    <<"let", "let", FALSE, "y", none>>, <<"let", "const", TRUE, "y", one>>, <<"assign", "+=", var("x"), one>>,
    <<"export", "x", "y">>, <<"import", <<"string", "m">>, "">>,
    <<"def", TRUE, "", "f", <<"a", "b">>, block(<<>>)>> }

\* A statement in every place of the others that takes one.
Around(s) ==
  LET b == block(<<s>>)  x1 == var("x")
      As(e) == <<"assign", "=", x1, e>>
  IN { b, <<"if", x1, b, <<"noop">>>>, <<"if", x1, block(<<>>), b>>, <<"if", x1, b, <<"if", x1, b, b>>>>,
       <<"while", <<"unit">>, b>>, <<"while", call(<<"stmt", b>>), block(<<>>)>>,
       <<"do", b, "until", x1>>, <<"do", block(<<>>), "while", call(<<"stmt", b>>)>>,
       <<"for", "a", "b", x1, b>>, <<"for", "a", "", call(<<"stmt", b>>), block(<<>>)>>,
       <<"try", b, "", block(<<>>)>>, <<"try", block(<<>>), "a", b>>,
       <<"switch", x1, <<<<<<>>, true, s>>>>>>, <<"switch", x1, <<<<<<one, range("3", "..", "5")>>, x1, b>>, <<<<>>, true, s>>>>>>,
       As(<<"closure", <<"a", "b">>, s>>), As(<<"closure", <<>>, b>>),
       As(<<"interpolated", <<<<"string", "t">>, <<"stmt", b>>>>>>),
       As(<<"stmt", <<"while", x1, b>>>>),
       <<"custom", "exec", <<<<x1>>, <<>>, <<one>>, <<<<"stmt", b>>>>>>, TRUE>>,
       <<"custom", "pick", <<<<<<"string", "+">>>>, <<one>>, <<<<"closure", <<"a">>, s>>>>>>, TRUE>>,
       <<"def", FALSE, "", "h", <<>>, b>> }

Once(simple) == UNION {Around(s) : s \in simple}
Deep(simple) == {<<s>> : s \in Once(Once(simple))}
Pairs(simple) == {<<s>> : s \in simple} \cup {<<s, t>> : s \in Once(simple), t \in simple}
  \cup {<<<<"while", var("x"), block(<<s, t>>)>>>> : s \in Once(simple), t \in {<<"break", one>>, <<"this">>}}

\* Names that must differ, and the arms of a switch.
NameSeqs(n) == UNION {[1..k -> {"a", "b"}] : k \in 0..n}
Cases == {<<>>, <<one>>, <<range("1", "..", "3")>>, <<range("3", "..=", "1")>>, <<<<"string", "a">>, range("0", "..=", "1")>>,
          <<<<"string", "a">>, <<"float", "1.0">>>>}
Arms == {<<c, g, var("x")>> : c \in Cases, g \in {true, var("y")}} \ {<<<<>>, var("y"), var("x")>>}
Clauses(most) ==
  {<<<<"assign", "=", var("x"), <<"closure", ns, var("a")>>>>>> : ns \in NameSeqs(most)}
  \cup {<<<<"assign", "=", var("x"), <<"map", [k \in DOMAIN ns |-> <<ns[k], one>>]>>>>>> : ns \in NameSeqs(most)}
  \cup {<<<<"for", v, c, var("x"), block(<<>>)>>>> : v \in {"a", "b"}, c \in {"", "a", "b"}}
  \cup {<<<<"switch", var("x"), arms>>>> : arms \in UNION {[1..k -> Arms] : k \in 0..most}}
  \cup {<<<<"def", p, t, "f", ns, block(<<<<"this">>>>)>>, <<"def", FALSE, "", "f", ms, block(<<>>)>>>> :
          p \in BOOLEAN, t \in {"", "i64"}, ns \in NameSeqs(2), ms \in NameSeqs(2)}

\* What Engine::compile_expression is given.
Bodies == {<<>>, <<var("y")>>, <<<<"assign", "=", var("x"), one>>>>, <<<<"return", one>>>>, <<var("y"), one>>,
           <<<<"let", "let", FALSE, "y", one>>>>}
Expressions ==
  UNION { {<<"stmt", <<"if", var("x"), block(b), block(c)>>>> : b \in Bodies, c \in Bodies},
          {<<"stmt", block(b)>> : b \in Bodies},
          {call(<<"stmt", <<"while", var("x"), block(b)>>>>) : b \in Bodies},
          {call(<<"closure", <<"a">>, s>>) : s \in {block(b) : b \in Bodies} \cup {<<"return", one>>}},
          {<<"stmt", <<"switch", var("x"), <<<<<<one>>, true, <<"stmt", block(b)>>>>>>>>>> : b \in Bodies},
          {<<"closure", <<>>, <<"return", <<"stmt", <<"while", var("x"), block(b)>>>>>>>> : b \in Bodies} }

Spelt(kind, trees, all) ==
  {[kind |-> kind, tree |-> <<"script", t>>, toks |-> Spell(<<"script", t>>, all)] : t \in trees}
Statements(simple, most) ==
  Spelt("script", Deep(simple), FALSE)
  \cup UNION {Spelt("script", Pairs(simple) \cup Clauses(most), all) : all \in BOOLEAN}

\* Nesting in a function.
NestedFns(most) == {[kind |-> "nested", toks |-> <<sym("fn"), id("f"), sym("()"), sym("{")>> \o n.toks \o <<sym("}")>>] :
                n \in Nested(most)}

MCStreams(kind) ==
  CASE kind = "operators" -> Operators(3)
    [] kind = "chain" -> Chains(4)
    [] kind = "nested" -> Nested(24) \cup NestedFns(20)
    [] kind = "script" -> Statements(Simple, 3)
    [] kind = "expression" -> Spelt("expression", {<<e>> : e \in Expressions}, FALSE)
=============================================================================
