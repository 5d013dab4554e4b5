------------------------------- MODULE Syntax -------------------------------
(***************************************************************************)
(* The parser: parser.rs, from parse_global_level down.  Each function     *)
(* takes the tokens, the place of the next one and the ParseSettings, and  *)
(* returns the tree with the place after it, or an error.  They call one   *)
(* another through `parse`, which is named after what it is to parse.      *)
(*                                                                         *)
(* Trees are tuples that begin with their kind.  A chain of accesses is    *)
(* nested to the right, as ast/expr.rs has it:                             *)
(*   <<"index", x, rest, flags>>   x[..], its first index being the `lhs`  *)
(*                                 of `rest` unless flags has BREAK        *)
(*   <<"dot", x, rest, flags>>     x.prop or x.method(..), and so on       *)
(* NEGATED marks the null-conditional forms ?. and ?[ .  A function is     *)
(* left in the tree where it is defined, where the parser leaves nothing   *)
(* and puts it in the library.  Namespaces, doc-comments and the limit on  *)
(* the number of functions are left out; variables and their offsets are   *)
(* in VarResolution.                                                       *)
(***************************************************************************)
EXTENDS Tokenizer

CONSTANTS MaxExprDepth,      \* Engine::max_expr_depth, 0 for none
          MaxFnExprDepth,    \* Engine::max_function_expr_depth, 0 for none
          MaxMapSize,        \* Engine::max_map_size, 0 for none
          Syntaxes           \* custom syntax: from its first word to its segments

at(ts, i) == IF i <= Len(ts) THEN ts[i] ELSE EOF

Ok(e, i) == [ok |-> TRUE, e |-> e, at |-> i]
Err(what) == [ok |-> FALSE, e |-> <<"error", what>>, at |-> 0]
\* An error found before any token was taken.
Stays(what, i) == [ok |-> FALSE, e |-> <<"error", what>>, at |-> i]

\* Goes on with the result of a parse, or passes its error on.
Then(r, Cont(_, _)) == Given(r, LAMBDA q : IF q.ok THEN Cont(q.e, q.at) ELSE q)

\* ParseSettings and the filter of ParseState: `max` is max_expr_depth; CASE is the filter
\* that takes | to separate the cases of a switch; NO_STMT_EXPR stands for the options that
\* Engine::parse_expression takes away.
Settings(max, flags) == [level |-> 0, max |-> max, flags |-> flags]
has_flag(se, flag) == flag \in se.flags
with_flag(se, flag) == [se EXCEPT !.flags = @ \cup {flag}]
without_flag(se, flag) == [se EXCEPT !.flags = @ \ {flag}]
expr_filter(se, tok) == has_flag(se, "CASE") => tok # sym("|")

\* ParseSettings::level_up: the next level, 0 when the expression is too deep.
level_up(level, max) == IF max > 0 /\ level >= max THEN 0 ELSE level + 1
Deeper(se, Cont(_)) ==
  Given(level_up(se.level, se.max), LAMBDA up :
        IF up = 0 THEN Err("ExprTooDeep") ELSE Cont([se EXCEPT !.level = up]))

\* The same, before the token at i is taken.
Before(se, i, Cont(_)) ==
  IF level_up(se.level, se.max) = 0 THEN Stays("ExprTooDeep", i) ELSE Deeper(se, Cont)

\* The parser of `what`, for the functions that are defined before it.
RECURSIVE parse(_, _, _, _, _)
Expr(ts, i, se) == parse("expr", ts, i, se, <<>>)
Stmt(ts, i, se) == parse("stmt", ts, i, se, <<>>)
Block(ts, i, se) == parse("block", ts, i, se, <<>>)

Constants == {"int", "float", "string", "char", "bool", "unit"}
NeverBool == {"unit", "int", "float", "char", "string", "interpolated", "array", "map"}
NeverIterable == {"unit", "bool", "int", "float", "char", "map"}
CallableWords == {"call", "eval", "print"}    \* reserved words that can be called
MethodWords == {<<"reserved", "call">>}       \* and in method-call style
lhsOf(e) == e[2]
rhsOf(e) == e[3]
flagsOf(e) == e[4]
IsChain(e) == e[1] \in {"index", "dot"}

-----------------------------------------------------------------------------
\* Chains

\* optimize_combo_chain: the chain `sub` goes to the end of the chain it starts with.
RECURSIVE attach(_, _)
attach(e, sub) ==
  IF "BREAK" \notin flagsOf(e) /\ IsChain(rhsOf(e))
    THEN <<e[1], lhsOf(e), attach(rhsOf(e), sub), flagsOf(e)>>
    ELSE <<e[1], lhsOf(e), <<sub[1], rhsOf(e), rhsOf(sub), flagsOf(sub)>>,
           flagsOf(e) \ {"BREAK"}>>

optimize_combo_chain(e) ==
  IF IsChain(e) /\ IsChain(lhsOf(e)) THEN attach(lhsOf(e), e) ELSE e

\* convert_expr_into_property
property(e) == IF e[1] = "var" THEN <<"prop", e[2]>> ELSE e
method(e) == <<"method", e[2], e[3]>>

RECURSIVE make_dot_expr(_, _, _, _)
make_dot_expr(lhs, rhs, parent, flags) ==
  CASE lhs[1] = "index" /\ "BREAK" \notin parent ->
         Then(make_dot_expr(rhsOf(lhs), rhs, flagsOf(lhs) \cup parent, flags),
              LAMBDA e, i : Ok(<<"index", lhsOf(lhs), e, {}>>, 0))
    [] rhs[1] \in {"var", "prop"} -> Ok(<<"dot", lhs, property(rhs), flags>>, 0)
    [] rhs[1] = "fn" ->
         IF rhs[4] THEN Err("MalformedCapture")
         ELSE IF rhs[2] = "eval" /\ rhs[3] = <<>> THEN Err("ImproperSymbol")
         ELSE Ok(<<"dot", lhs, method(rhs), flags>>, 0)
    [] IsChain(rhs) ->
         LET first == lhsOf(rhs)
             named == IF first[1] = "fn" THEN method(first) ELSE property(first)
         IN Ok(<<"dot", lhs, <<rhs[1], named, rhsOf(rhs), flagsOf(rhs)>>, flags>>, 0)
    [] OTHER -> Err("PropertyExpected")

\* check_argument_types: what can never be an index of the literal before it.
BadIndex(lhs, idx) ==
  \/ lhs[1] \in {"int", "array", "string", "interpolated"}
     /\ idx[1] \in {"string", "interpolated", "float", "char", "unit", "and", "or", "bool"}
  \/ lhs[1] = "map" /\ idx[1] \in {"int", "float", "char", "unit", "and", "or", "bool"}

\* Expr::is_valid_postfix
is_valid_postfix(e, tok) ==
  /\ tok[1] = "sym"
  /\ \/ tok[2] \in {".", "?.", "[", "?["}
     \/ e[1] = "var" /\ tok[2] \in {"(", "()", "!", "::"}

-----------------------------------------------------------------------------
\* Binary operators

\* && and || take only what may be a boolean, and a run of the same operator is one
\* expression of several operands, as a run of ?? is.
Flat(kind, l, r) ==
  <<kind, (IF l[1] = kind THEN l[2] ELSE <<l>>) \o (IF r[1] = kind THEN r[2] ELSE <<r>>)>>

binary(op, l, r, i) ==
  CASE op = "&&" -> IF {l[1], r[1]} \cap NeverBool # {} THEN Err("MismatchedType")
                    ELSE Ok(Flat("and", l, r), i)
    [] op = "||" -> IF {l[1], r[1]} \cap NeverBool # {} THEN Err("MismatchedType")
                    ELSE Ok(Flat("or", l, r), i)
    [] op = "??" -> Ok(Flat("coalesce", l, r), i)
    [] op = "in" -> Ok(<<"fn", "contains", <<r, l>>, FALSE>>, i)
    [] op = "!in" -> Ok(<<"fn", "!", <<<<"fn", "contains", <<r, l>>, FALSE>>>>, FALSE>>, i)
    [] OTHER -> Ok(<<"fn", op, <<l, r>>, FALSE>>, i)

\* What may follow a range that has no end.
EndsRange == {sym(s) : s \in {"]", ")", "}", ",", ";", "=>"}}
UnknownOperator(tok) == tok[1] = "reserved" /\ tok[2] \in ReservedSymbols

\* Mutant: operators that bind to the right are treated as all others.
binds_Left(op, next) == precedence(op) < precedence(next)

\* The operator after the right operand takes that operand.
binds(op, next) ==
  \/ precedence(op) < precedence(next)
  \/ precedence(op) = precedence(next) /\ is_bind_right(op)

-----------------------------------------------------------------------------
\* Expressions

parse_expr(ts, i, se) ==
  Before(se, i, LAMBDA up :
    Then(parse("unary", ts, i, up, <<>>), LAMBDA e, j : parse("binary", ts, j, up, <<1, e>>)))

\* -e folds into a number.  (The sign of a number text is its first character.)
Negated(e) ==
  CASE e[1] \in {"int", "float"} ->
         <<e[1], IF SubSeq(e[2], 1, 1) = "-" THEN SubSeq(e[2], 2, Len(e[2])) ELSE "-" \o e[2]>>
    [] OTHER -> <<"fn", "-", <<e>>, FALSE>>
Positive(e) == IF e[1] \in {"int", "float"} THEN e ELSE <<"fn", "+", <<e>>, FALSE>>

parse_unary(ts, i, se) ==
  LET t == at(ts, i)
      Operand(Make(_)) ==
        Deeper(se, LAMBDA up : Then(parse("unary", ts, i + 1, up, <<>>), LAMBDA e, j : Ok(Make(e), j)))
  IN CASE ~expr_filter(se, t) -> Stays("UnexpectedInput", i)
       [] t[2] = "-" /\ t[1] \in {"sym", "unary"} -> Operand(Negated)
       [] t[2] = "+" /\ t[1] \in {"sym", "unary"} -> Operand(Positive)
       [] t = sym("!") -> Operand(LAMBDA e : <<"fn", "!", <<e>>, FALSE>>)
       [] OTHER -> parse("primary", ts, i, se, FALSE)

\* A list of expressions up to `close`, for arguments and array literals.
parse_items(ts, i, se, close, items) ==
  IF at(ts, i) = sym(close) THEN Ok(items, i + 1)
  ELSE Then(IF close = "]" THEN Deeper(se, LAMBDA up : Expr(ts, i, up))
            ELSE Expr(ts, i, se), LAMBDA e, j :
         CASE at(ts, j) = sym(",") -> parse("items", ts, j + 1, se, <<close, Append(items, e)>>)
           [] at(ts, j) = sym(close) -> Ok(Append(items, e), j + 1)
           [] OTHER -> Err("MissingToken"))

\* The arguments of a call; `bang` when the call captures the scope.
parse_fn_call(ts, j, se, name, bang) ==
  IF at(ts, j) = sym("()") THEN Ok(<<"fn", name, <<>>, bang>>, j + 1)
  ELSE IF at(ts, j) # sym("(") THEN Err("MissingToken")
  ELSE IF at(ts, j + 1) = sym(")") THEN Ok(<<"fn", name, <<>>, bang>>, j + 2)
  ELSE Deeper(se, LAMBDA up : Then(parse("items", ts, j + 1, up, <<")", <<>>>>),
         LAMBDA es, k : Ok(<<"fn", name, es, bang>>, k)))

\* The properties of a map literal from i on.
parse_map_literal(ts, i, se, pairs) ==
  LET t == at(ts, i)
  IN CASE t = sym("}") -> Ok(<<"map", pairs>>, i + 1)
       [] t[1] \in {"id", "string"} ->
            CASE \E k \in DOMAIN pairs : pairs[k][1] = t[2] -> Err("DuplicatedProperty")
              [] at(ts, i + 1) # sym(":") -> Err("MissingToken")
              [] MaxMapSize > 0 /\ Len(pairs) >= MaxMapSize -> Err("LiteralTooLarge")
              [] OTHER -> Then(Deeper(se, LAMBDA up : Expr(ts, i + 2, up)), LAMBDA e, j :
                   CASE at(ts, j) = sym(",") -> parse("map", ts, j + 1, se, Append(pairs, <<t[2], e>>))
                     [] at(ts, j) = sym("}") -> parse("map", ts, j, se, Append(pairs, <<t[2], e>>))
                     [] OTHER -> Err("MissingToken"))
       [] OTHER -> Err("PropertyExpected")

\* An interpolated string from the block at i on: text and blocks in turn, empty text left out.
Segment(s) == IF s = "" THEN <<>> ELSE <<<<"string", s>>>>
parse_interpolated(ts, i, se, segments) ==
  Then(Block(ts, i, se), LAMBDA b, j :
    LET t == at(ts, j)
        now == Append(segments, <<"stmt", b>>) \o Segment(t[2])
    IN CASE t[1] = "string" -> Ok(<<"interpolated", now>>, j + 1)
         [] t[1] = "interpolated" -> parse("segments", ts, j + 1, se, now)
         [] t[1] = "err" -> Err(t[2])
         [] OTHER -> Err("panic"))

\* Statements that can be expressions, and what Engine::parse_expression does not take as such.
LoopWords == {"while", "loop", "do", "for"}
StmtExprs(se) == {"if", "switch"} \cup (IF has_flag(se, "NO_STMT_EXPR") THEN {} ELSE LoopWords \cup {"{"})

\* A variable, the name of a function, or `this`.  `prop` after a dot, where no namespace is allowed.
parse_word(ts, i, se, prop) ==
  LET t == at(ts, i)
      called == at(ts, i + 1) \in {sym("("), sym("!"), sym("()")}
  IN CASE \/ t[1] = "id" /\ ~(prop /\ at(ts, i + 1) = sym("::"))
          \/ t[1] = "reserved" /\ t[2] \in CallableWords /\ called -> Ok(<<"var", t[2]>>, i + 1)
       [] t[1] = "id" /\ prop /\ at(ts, i + 1) = sym("::") -> Err("ImproperSymbol")
       [] t = <<"reserved", "this">> -> IF has_flag(se, "FN_SCOPE") THEN Ok(<<"this">>, i + 1) ELSE Err("ImproperSymbol")
       [] OTHER -> Err("Reserved")

parse_primary(ts, i, se, prop) ==
  LET t == at(ts, i)
      Post(e, j) == IF expr_filter(se, at(ts, j)) THEN parse("postfix", ts, j, se, <<e, {"BREAK"}>>)
                    ELSE Ok(e, j)
      Within(what, j, x) == Before(se, i, LAMBDA up : parse(what, ts, j, up, x))
  IN CASE ~expr_filter(se, t) -> Stays("UnexpectedInput", i)
       [] t = sym("()") -> Post(<<"unit">>, i + 1)
       [] t[1] \in {"int", "float", "string", "char"} -> Post(<<t[1], t[2]>>, i + 1)
       [] t \in {sym("true"), sym("false")} -> Post(<<"bool", t[2]>>, i + 1)
       [] t \in {sym(".."), sym("..=")} -> Post(<<"int", "0">>, i)
       [] t[1] = "sym" /\ t[2] \in StmtExprs(se) ->
            Then(Within(IF t[2] = "{" THEN "block" ELSE t[2], i, <<>>), LAMBDA s, j : Post(<<"stmt", s>>, j))
       [] t = sym("(") ->
            Then(Deeper(se, LAMBDA up : Expr(ts, i + 1, up)), LAMBDA e, j :
                 IF at(ts, j) = sym(")") THEN Post(e, j + 1) ELSE Err("MissingToken"))
       [] t \in {sym("|"), sym("||")} -> Then(parse("closure", ts, i, se, FALSE), Post)
       [] t[1] = "interpolated" -> Then(Within("segments", i + 1, Segment(t[2])), Post)
       [] t = sym("[") ->
            Then(Within("items", i + 1, <<"]", <<>>>>), LAMBDA es, j : Post(<<"array", es>>, j))
       [] t = sym("#{") -> Then(Within("map", i + 1, <<>>), Post)
       [] t[1] \in {"custom", "reserved", "id"} /\ t[2] \in DOMAIN Syntaxes ->
            Then(Deeper(se, LAMBDA up : parse("custom", ts, i + 1, up, <<t[2], <<>>>>)), Post)
       [] t[1] \in {"id", "reserved"} -> Then(parse_word(ts, i, se, prop), Post)
       [] t = EOF -> Stays("UnexpectedEOF", i)
       [] t[1] = "err" -> Err(t[2])
       [] OTHER -> Stays("UnexpectedInput", i)

\* Calls, indices and dots after a primary expression.
parse_postfix(ts, i, se, e, parent) ==
  LET t == at(ts, i)
      Again(e2, j) == parse("postfix", ts, j, se, <<e2, {}>>)
  IN IF ~is_valid_postfix(e, t) THEN Ok(optimize_combo_chain(e), i)
     ELSE CASE t[2] = "!" -> Then(parse_fn_call(ts, i + 1, se, e[2], TRUE), Again)
            [] t[2] \in {"(", "()"} -> Then(parse_fn_call(ts, i, se, e[2], FALSE), Again)
            [] t[2] \in {"[", "?["} ->
                 Deeper(se, LAMBDA up :
                   Then(parse("index", ts, i + 1, up, <<e, IF t[2] = "?[" THEN {"NEGATED"} ELSE {}, TRUE>>), Again))
            [] t[2] \in {".", "?."} ->
                 IF at(ts, i + 1)[1] # "id" /\ at(ts, i + 1) \notin MethodWords
                   THEN Err("PropertyExpected")
                 ELSE Deeper(se, LAMBDA up :
                   Then(parse("primary", ts, i + 1, up, TRUE), LAMBDA rhs, j :
                     Then(make_dot_expr(e, rhs, parent,
                                        IF t[2] = "?." THEN {"NEGATED"} ELSE {}),
                          LAMBDA e2, k : Again(e2, j))))
            [] OTHER -> Err("NamespaceNotModelled")

\* One level of indexing and all that follow it.
parse_index_chain(ts, i, se, lhs, options, check) ==
  Deeper(se, LAMBDA up : Then(Expr(ts, i, up), LAMBDA idx, j :
    CASE check /\ BadIndex(lhs, idx) -> Err("MalformedIndexExpr")
      [] at(ts, j) # sym("]") -> Err("MissingToken")
      [] at(ts, j + 1) \in {sym("["), sym("?[")} ->
           LET next == IF at(ts, j + 1) = sym("?[") THEN {"NEGATED"} ELSE {}
           IN Deeper(se, LAMBDA up2 :
                Then(parse("index", ts, j + 2, up2, <<idx, next, FALSE>>),
                     LAMBDA rest, k : Ok(<<"index", lhs, rest, next>>, k)))
      [] OTHER -> Ok(<<"index", lhs, idx, options \cup {"BREAK"}>>, j + 1)))

\* Precedence climbing: `parent` is the precedence to the left of `root`.
parse_binary_op(ts, i, se, parent, root) ==
  LET op == at(ts, i)
      prec == precedence(op)
      operand == IF op[2] \in {"..", "..="} /\ at(ts, i + 1) \in EndsRange
                   THEN Ok(<<"unit">>, i + 1) ELSE parse("unary", ts, i + 1, se, <<>>)
      Rest(r, j) ==
        IF UnknownOperator(at(ts, j)) THEN Err("UnknownOperator")
        ELSE IF binds(op, at(ts, j))
          THEN Deeper(se, LAMBDA up : parse("binary", ts, j, up, <<prec, r>>))
          ELSE Ok(r, j)
  IN IF ~expr_filter(se, op) THEN Ok(root, i)
     ELSE IF UnknownOperator(op) THEN Err("UnknownOperator")
     ELSE IF prec < parent \/ (prec = parent /\ ~is_bind_right(op)) THEN Ok(root, i)
     ELSE Then(operand, LAMBDA e, j : Then(Rest(e, j), LAMBDA r, k :
            Deeper(se, LAMBDA up :
              Then(binary(op[2], root, r, k),
                   LAMBDA e2, m : parse("binary", ts, m, up, <<parent, e2>>)))))

-----------------------------------------------------------------------------
\* Functions

\* The parameters up to `close`.
parse_params(ts, i, close, names) ==
  LET t == at(ts, i)
  IN CASE t = sym(close) -> Ok(names, i + 1)
       [] t[1] # "id" -> Err("MissingToken")
       [] t[1] = "id" /\ \E k \in DOMAIN names : names[k] = t[2] -> Err("FnDuplicatedParam")
       [] at(ts, i + 1) = sym(close) -> Ok(Append(names, t[2]), i + 2)
       [] at(ts, i + 1) = sym(",") -> parse("params", ts, i + 2, <<>>, <<close, Append(names, t[2])>>)
       [] OTHER -> Err("MissingToken")

\* The type a method is for: int and float are given the names of the types of the build.
ThisType(s) == CASE s = "int" -> "i64" [] s = "float" -> "f64" [] OTHER -> s

parse_fn(ts, i, se, private) ==
  Deeper(se, LAMBDA up :
    LET typed == at(ts, i)[1] \in {"id", "string"} /\ at(ts, i + 1) = sym(".")
        n == IF typed THEN i + 2 ELSE i
        name == at(ts, n)
        params == CASE at(ts, n + 1) = sym("()") -> Ok(<<>>, n + 2)
                    [] at(ts, n + 1) = sym("(") -> parse("params", ts, n + 2, <<>>, <<")", <<>>>>)
                    [] OTHER -> Err("FnMissingParams")
    IN IF name[1] \notin {"id", "custom"} THEN Err("FnMissingName")
       ELSE Then(params, LAMBDA ps, j :
              IF at(ts, j) # sym("{") THEN Err("FnMissingBody")
              ELSE Then(Block(ts, j, up), LAMBDA b, k :
                     Ok(<<"def", private, IF typed THEN ThisType(at(ts, i)[2]) ELSE "", name[2], ps, b>>, k))))

\* A function is parsed with settings of its own, and only where no block is open.
parse_fn_stmt(ts, i, se) ==
  LET private == at(ts, i) = sym("private")
      j == IF private THEN i + 1 ELSE i
  IN CASE at(ts, j) # sym("fn") -> Err("MissingToken")
       [] at(ts, j) = sym("fn") /\ ~has_flag(se, "GLOBAL_LEVEL") -> Err("WrongFnDefinition")
       [] OTHER -> parse_fn(ts, j + 1, Settings(MaxFnExprDepth, {"FN_SCOPE"}), private)

\* A closure starts over, with the options of the engine; it only keeps to expressions in
\* blocks, and to the depth it is at.
ClosureSettings(se) ==
  [se EXCEPT !.flags = {"FN_SCOPE"} \cup (@ \cap {"DISALLOW_STATEMENTS_IN_BLOCKS"})]

\* A closure: its body is one statement.  With `skip` it has no parameters to read.
parse_anon_fn(ts, i, se, skip) ==
  LET params == CASE skip -> Ok(<<>>, i)
                  [] ~skip /\ at(ts, i) = sym("||") -> Ok(<<>>, i + 1)
                  [] OTHER -> parse("params", ts, i + 1, <<>>, <<"|", <<>>>>)
  IN Then(params, LAMBDA ps, j :
       Deeper(ClosureSettings(se), LAMBDA up :
         Then(Stmt(ts, j, up), LAMBDA s, k : Ok(<<"closure", ps, s>>, k))))

-----------------------------------------------------------------------------
\* Custom syntax

\* The segment that is read next, as the function of register_custom_syntax gives it, and what
\* it takes of the script.
Takes(m, t) ==
  CASE m = "$ident$" -> t[1] = "id"
    [] m = "$symbol$" -> \/ t[1] = "sym" /\ t[2] \notin Keywords
                         \/ t[1] = "reserved" /\ t[2] \in ReservedSymbols
    [] m = "$token$" -> t[1] # "err"
    [] m = "$bool$" -> t \in {sym("true"), sym("false")}
    [] m \in {"$int$", "$float$", "$string$"} -> t[1] = CHOOSE k \in Constants : m = "$" \o k \o "$"
    [] m \in {"$expr$", "$block$"} -> TRUE
    [] m = "$func$" -> t \in {sym("|"), sym("||"), sym("{")}
    [] OTHER -> t[1] \in {"id", "reserved", "custom", "sym"} /\ t[2] = m

\* What a segment that is one token is for the function of the syntax; words give nothing.
Input(m, t) ==
  CASE m = "$ident$" -> <<<<"var", t[2]>>>>
    [] m \in {"$symbol$", "$token$"} -> <<<<"string", t[2]>>>>
    [] m = "$bool$" -> <<<<"bool", t[2]>>>>
    [] m \in {"$int$", "$float$", "$string$"} -> <<t>>
    [] OTHER -> <<>>

\* The segments of a syntax from number Len(read) + 2 on; `read` has what each has given.
parse_custom_syntax(ts, i, se, key, read) ==
  LET segments == Syntaxes[key]
      m == segments[Len(read) + 2]
      t == at(ts, i)
      Next1(x, j) == parse("custom", ts, j, se, <<key, Append(read, x)>>)
      Whole1(e, j) == Next1(<<e>>, j)
  IN IF Len(read) + 1 = Len(segments)
       THEN Ok(<<"custom", key, read, segments[Len(segments)] \in {"$block$", "$func$", ";", "}"}>>, i)
       ELSE Deeper(se, LAMBDA up :
         CASE ~Takes(m, t) -> Err("MissingToken")
           [] Takes(m, t) /\ m = "$expr$" -> Then(Expr(ts, i, up), Whole1)
           [] Takes(m, t) /\ m = "$block$" -> Then(Block(ts, i, up), LAMBDA b, j : Next1(<<<<"stmt", b>>>>, j))
           [] Takes(m, t) /\ m = "$func$" -> Then(parse("closure", ts, i, up, t = sym("{")), Whole1)
           [] OTHER -> Next1(Input(m, t), i + 1))

-----------------------------------------------------------------------------
\* Assignments

\* check_lvalue, on the rest of a chain: TRUE when it can be assigned to.
RECURSIVE check_lvalue(_, _)
check_lvalue(e, dot) ==
  CASE IsChain(e) /\ dot ->
         /\ lhsOf(e)[1] = "prop"
         /\ "BREAK" \notin flagsOf(e) => check_lvalue(rhsOf(e), e[1] = "dot")
    [] IsChain(e) /\ ~dot -> "BREAK" \notin flagsOf(e) => check_lvalue(rhsOf(e), e[1] = "dot")
    [] OTHER -> dot => e[1] = "prop"

\* make_assignment_stmt: whether the expression may be on the left of an assignment.
assignable(e) ==
  \/ e[1] = "var"
  \/ /\ IsChain(e)
     /\ lhsOf(e)[1] = "var"
     /\ "BREAK" \notin flagsOf(e) => check_lvalue(rhsOf(e), e[1] = "dot")

\* make_assignment_stmt is made of any expression that is followed by an assignment.
parse_expr_stmt(ts, i, se) ==
  Then(Expr(ts, i, se), LAMBDA e, j :
    LET op == at(ts, j)
    IN IF op[1] = "sym" /\ op[2] \in OpAssignments \cup {"="}
       THEN Then(Expr(ts, j + 1, se), LAMBDA r, k :
                IF assignable(e) THEN Ok(<<"assign", op[2], e, r>>, k)
                ELSE Err("AssignmentToInvalidLHS"))
       ELSE Ok(e, j))

-----------------------------------------------------------------------------
\* Statements

\* Stmt::is_self_terminated: no semicolon is needed after it.
is_self_terminated(s) ==
  \/ s[1] \in {"if", "switch", "while", "for", "block", "try"}
  \/ s[1] = "custom" /\ s[4]
\* Stmt::is_noop; a function definition leaves nothing.
is_noop(s) == s[1] \in {"noop", "def"}

\* A condition: ensure_not_statement_expr, ensure_bool_expr and ensure_not_assignment.
Condition(ts, i, se, Cont(_, _)) ==
  IF at(ts, i) = sym("{") THEN Err("ExprExpected")
  ELSE Then(Expr(ts, i, se), LAMBDA e, j :
         IF e[1] \in NeverBool THEN Err("MismatchedType")
         ELSE IF at(ts, j) = sym("=") THEN Err("ImproperSymbol") ELSE Cont(e, j))

parse_if(ts, i, se) ==
  Deeper(se, LAMBDA up : Condition(ts, i + 1, up, LAMBDA c, j :
    Then(Block(ts, j, up), LAMBDA b, k :
      IF at(ts, k) # sym("else") THEN Ok(<<"if", c, b, <<"noop">>>>, k)
      ELSE Then(IF at(ts, k + 1) = sym("if") THEN parse("if", ts, k + 1, up, <<>>)
                ELSE Block(ts, k + 1, up), LAMBDA e, m : Ok(<<"if", c, b, e>>, m)))))

parse_while_loop(ts, i, se) ==
  Deeper(se, LAMBDA up :
    LET Body(c, j) == Then(Block(ts, j, with_flag(up, "BREAKABLE")), LAMBDA b, k : Ok(<<"while", c, b>>, k))
    IN IF at(ts, i) = sym("loop") THEN Body(<<"unit">>, i + 1) ELSE Condition(ts, i + 1, up, Body))

\* The condition after the body is not in the loop.
parse_do(ts, i, se) ==
  Deeper(se, LAMBDA up : Then(Block(ts, i + 1, with_flag(up, "BREAKABLE")), LAMBDA b, j :
    IF at(ts, j) \notin {sym("while"), sym("until")} THEN Err("MissingToken")
    ELSE Condition(ts, j + 1, up, LAMBDA c, k : Ok(<<"do", b, at(ts, j)[2], c>>, k))))

parse_for(ts, i, se) ==
  LET paired == at(ts, i + 1) = sym("(")
      n == IF paired THEN i + 2 ELSE i + 1
      m == IF paired THEN n + 4 ELSE n + 1         \* where `in` is to be
      counter == IF paired THEN at(ts, n + 2)[2] ELSE ""
  IN Deeper(se, LAMBDA up :
       CASE at(ts, n)[1] # "id" -> Err("VariableExpected")
         [] paired /\ (at(ts, n + 1) # sym(",") \/ at(ts, n + 2)[1] # "id") -> Err("MissingToken")
         [] paired /\ counter = at(ts, n)[2] -> Err("DuplicatedVariable")
         [] paired /\ at(ts, n + 3) # sym(")") -> Err("MissingToken")
         [] at(ts, m) # sym("in") -> Err("MissingToken")
         [] at(ts, m + 1) = sym("{") -> Err("ExprExpected")
         [] OTHER -> Then(Expr(ts, m + 1, up), LAMBDA e, j :
              IF e[1] \in NeverIterable THEN Err("MismatchedType")
              ELSE Then(Block(ts, j, with_flag(up, "BREAKABLE")),
                        LAMBDA b, k : Ok(<<"for", at(ts, n)[2], counter, e, b>>, k))))

parse_let(ts, i, se, exported) ==
  LET name == at(ts, i + 1)
      Let(e, j) == Ok(<<"let", at(ts, i)[2], exported, name[2], e>>, j)
  IN CASE name[1] # "id" -> Err("VariableExpected")
       [] name[1] = "id" /\ at(ts, i + 2) = sym("=") -> Deeper(se, LAMBDA up : Then(Expr(ts, i + 3, up), Let))
       [] OTHER -> Let(<<"none">>, i + 2)

\* `as` and a name, when they are there.
Alias(ts, j, Make(_)) ==
  CASE at(ts, j) # sym("as") -> Ok(Make(""), j)
    [] at(ts, j) = sym("as") /\ at(ts, j + 1)[1] = "id" -> Ok(Make(at(ts, j + 1)[2]), j + 2)
    [] OTHER -> Err("VariableExpected")

parse_import(ts, i, se) ==
  Deeper(se, LAMBDA up : Then(Expr(ts, i + 1, up), LAMBDA e, j :
    Alias(ts, j, LAMBDA name : <<"import", e, name>>)))

parse_export(ts, i, se) ==
  LET t == at(ts, i + 1)
  IN CASE ~has_flag(se, "GLOBAL_LEVEL") -> Err("WrongExport")
       [] has_flag(se, "GLOBAL_LEVEL") /\ t \in {sym("let"), sym("const")} ->
            Deeper(se, LAMBDA up : parse_let(ts, i + 1, up, TRUE))
       [] has_flag(se, "GLOBAL_LEVEL") /\ t[1] = "id" ->
            Alias(ts, i + 2, LAMBDA name : <<"export", t[2], name>>)
       [] OTHER -> Err("VariableExpected")

parse_try_catch(ts, i, se) ==
  Deeper(se, LAMBDA up : Then(Block(ts, i + 1, up), LAMBDA b, j :
    LET named == at(ts, j + 1) = sym("(")
        Caught(name, k) == Then(Block(ts, k, up), LAMBDA c, m : Ok(<<"try", b, name, c>>, m))
    IN CASE at(ts, j) # sym("catch") -> Err("MissingToken")
         [] at(ts, j) = sym("catch") /\ ~named -> Caught("", j + 1)
         [] at(ts, j + 2)[1] # "id" -> Err("VariableExpected")
         [] at(ts, j + 3) # sym(")") -> Err("MissingToken")
         [] OTHER -> Caught(at(ts, j + 2)[2], j + 4)))

\* break, return and throw, with a value unless no token of one is there.
parse_jump(ts, i, se) ==
  Deeper(se, LAMBDA up : Given(Expr(ts, i + 1, up), LAMBDA r :
    CASE r.ok -> Ok(<<at(ts, i)[2], r.e>>, r.at)
      [] ~r.ok /\ r.at = i + 1 -> Ok(<<at(ts, i)[2], <<"none">>>>, i + 1)
      [] OTHER -> r))

-----------------------------------------------------------------------------
\* switch

\* Expr::get_literal_value, and the numbers of a range.
RECURSIVE IsLiteral(_)
IsLiteral(e) ==
  \/ e[1] \in Constants
  \/ e[1] = "array" /\ \A k \in DOMAIN e[2] : IsLiteral(e[2][k])
  \/ e[1] = "map" /\ \A k \in DOMAIN e[2] : IsLiteral(e[2][k][2])
  \/ /\ e[1] = "fn" /\ e[2] \in {"..", "..="}
     /\ e[3][1][1] \in {"int", "unit"} /\ e[3][2][1] \in {"int", "unit"}
     /\ {e[3][1][1], e[3][2][1]} # {"unit"}
Numeral(e) == CHOOSE n \in -99..99 : ToString(n) = e[2]
IsRange(e) == e[1] = "fn" /\ e[2] \in {"..", "..="}
is_empty(r) ==
  LET from == r[3][1]   to == r[3][2]
  IN /\ from[1] = "int" /\ to[1] = "int"
     /\ IF r[2] = ".." THEN Numeral(from) >= Numeral(to) ELSE Numeral(from) > Numeral(to)

\* The cases of an arm, after the ones before it: only literals, and no number after a range.
BadCases(before, cases) ==
  LET all == before \o cases
  IN \E k \in (Len(before) + 1)..Len(all) :
       \/ ~IsLiteral(all[k])
       \/ /\ all[k][1] \in {"int", "float"}
          /\ \E m \in 1..(k - 1) : IsRange(all[m]) /\ ~is_empty(all[m])

\* The literals of an arm, with | between them.
parse_cases(ts, i, se, cases) ==
  Then(Expr(ts, i, with_flag(se, "CASE")), LAMBDA e, j :
    IF at(ts, j) = sym("|") THEN parse("cases", ts, j + 1, se, Append(cases, e))
    ELSE Ok(Append(cases, e), j))

\* What an arm runs and what separates it from the next.  The arm of _ has no cases.
parse_action(ts, j, se, arms, cases, guard) ==
  LET plain == has_flag(se, "DISALLOW_STATEMENTS_IN_BLOCKS")
  IN IF at(ts, j) # sym("=>") THEN Err("MissingToken")
     ELSE Then(IF plain THEN Expr(ts, j + 1, se) ELSE Stmt(ts, j + 1, se), LAMBDA s, k :
       LET all == Append(arms, <<cases, guard, s>>)
       IN CASE BadCases(FlattenSeq([m \in DOMAIN arms |-> arms[m][1]]), cases) -> Err("ExprExpected")
            [] at(ts, k) = sym(",") -> parse("arms", ts, k + 1, se, all)
            [] at(ts, k) = sym("}") -> Ok(all, k + 1)
            [] at(ts, k)[1] \in {"EOF", "err"} \/ plain \/ ~is_self_terminated(s) -> Err("MissingToken")
            [] OTHER -> parse("arms", ts, k, se, all))

parse_arms(ts, i, se, arms) ==
  LET t == at(ts, i)
      default == arms # <<>> /\ arms[Len(arms)][1] = <<>>
  IN CASE t = sym("}") -> Ok(arms, i + 1)
       [] t # sym("}") /\ default -> Err("WrongSwitchDefaultCase")
       [] t = sym("_") /\ ~default ->
            IF at(ts, i + 1) = sym("if") THEN Err("WrongSwitchCaseCondition")
            ELSE parse_action(ts, i + 1, se, arms, <<>>, <<"bool", "true">>)
       [] OTHER -> Then(parse("cases", ts, i, se, <<>>), LAMBDA cases, j :
            IF at(ts, j) = sym("if")
              THEN Condition(ts, j + 1, se, LAMBDA g, k : parse_action(ts, k, se, arms, cases, g))
              ELSE parse_action(ts, j, se, arms, cases, <<"bool", "true">>))

parse_switch(ts, i, se) ==
  Deeper(se, LAMBDA up : Then(Expr(ts, i + 1, up), LAMBDA item, j :
    IF at(ts, j) # sym("{") THEN Err("MissingToken")
    ELSE Then(parse("arms", ts, j + 1, up, <<>>), LAMBDA arms, k : Ok(<<"switch", item, arms>>, k))))

-----------------------------------------------------------------------------
\* Blocks and scripts

Compound == {"if", "switch", "try", "let", "const", "import", "export"} \cup LoopWords

parse_stmt(ts, i, se) ==
  LET t == at(ts, i)
  IN CASE t = EOF -> Ok(<<"noop">>, i)
       [] t = sym(";") -> Ok(<<"noop">>, i + 1)
       [] t = sym("{") -> Deeper(se, LAMBDA up : Block(ts, i, up))
       [] t \in {sym("fn"), sym("private")} -> parse_fn_stmt(ts, i, se)
       [] t \in {sym("break"), sym("continue")} /\ ~has_flag(se, "BREAKABLE") -> Err("LoopBreak")
       [] t = sym("continue") /\ has_flag(se, "BREAKABLE") -> Ok(<<"continue">>, i + 1)
       [] \/ t = sym("break") /\ has_flag(se, "BREAKABLE")
          \/ t \in {sym("return"), sym("throw")} -> parse_jump(ts, i, se)
       [] t[1] = "sym" /\ t[2] \in Compound -> Deeper(se, LAMBDA up : parse(t[2], ts, i, up, <<>>))
       [] OTHER -> Deeper(se, LAMBDA up : parse_expr_stmt(ts, i, up))

\* The statements of a block from i on, to its closing brace.
parse_stmts(ts, i, se, stmts) ==
  CASE at(ts, i) = sym("}") -> Ok(<<"block", stmts>>, i + 1)
    [] at(ts, i) = EOF -> Err("MissingToken")
    [] OTHER -> Then(Stmt(ts, i, se), LAMBDA s, j :
         LET now == Append(stmts, s)
         IN CASE is_noop(s) -> parse("stmts", ts, j, se, stmts)
              [] ~is_noop(s) /\ at(ts, j) = sym("}") -> Ok(<<"block", now>>, j + 1)
              [] ~is_noop(s) /\ at(ts, j) = sym(";") -> parse("stmts", ts, j + 1, se, now)
              [] OTHER -> IF is_self_terminated(s) THEN parse("stmts", ts, j, se, now) ELSE Err("MissingToken"))

parse_block(ts, i, se) ==
  IF at(ts, i) # sym("{") THEN Err("MissingToken")
  ELSE Deeper(se, LAMBDA up :
    IF has_flag(se, "DISALLOW_STATEMENTS_IN_BLOCKS")
      THEN Then(parse_expr_stmt(ts, i + 1, up), LAMBDA s, j :
                IF at(ts, j) = sym("}") THEN Ok(<<"block", <<s>>>>, j + 1) ELSE Err("MissingToken"))
      ELSE parse("stmts", ts, i + 1, without_flag(up, "GLOBAL_LEVEL"), <<>>))

\* The signatures of functions must differ.
Signature(def) == <<def[3], def[4], Len(def[5])>>
Clashes(def, stmts) == def[1] = "def" /\ \E k \in DOMAIN stmts : stmts[k][1] = "def" /\ Signature(stmts[k]) = Signature(def)

\* The statements of a script from i on.
parse_global_level(ts, i, se, stmts) ==
  IF at(ts, i) = EOF THEN Ok(<<"script", stmts>>, i)
  ELSE Then(Stmt(ts, i, se), LAMBDA s, j :
    LET now == Append(stmts, s)
    IN CASE s[1] = "noop" -> parse("script", ts, j, se, stmts)
         [] s[1] = "def" -> IF Clashes(s, stmts) THEN Err("FnDuplicatedDefinition")
                            ELSE parse("script", ts, j, se, now)
         [] at(ts, j) = EOF -> Ok(<<"script", now>>, j)
         [] ~is_noop(s) /\ is_self_terminated(s) -> parse("script", ts, j, se, now)
         [] ~is_self_terminated(s) /\ at(ts, j) = sym(";") -> parse("script", ts, j + 1, se, now)
         [] OTHER -> Err("MissingToken"))

parse(what, ts, i, se, x) ==
  CASE what = "expr" -> parse_expr(ts, i, se)
    [] what = "unary" -> parse_unary(ts, i, se)
    [] what = "primary" -> parse_primary(ts, i, se, x)
    [] what = "postfix" -> parse_postfix(ts, i, se, x[1], x[2])
    [] what = "index" -> parse_index_chain(ts, i, se, x[1], x[2], x[3])
    [] what = "binary" -> parse_binary_op(ts, i, se, x[1], x[2])
    [] what = "items" -> parse_items(ts, i, se, x[1], x[2])
    [] what = "map" -> parse_map_literal(ts, i, se, x)
    [] what = "segments" -> parse_interpolated(ts, i, se, x)
    [] what = "params" -> parse_params(ts, i, x[1], x[2])
    [] what = "closure" -> parse_anon_fn(ts, i, se, x)
    [] what = "custom" -> parse_custom_syntax(ts, i, se, x[1], x[2])
    [] what = "stmt" -> parse_stmt(ts, i, se)
    [] what = "block" -> parse_block(ts, i, se)
    [] what = "stmts" -> parse_stmts(ts, i, se, x)
    [] what = "if" -> parse_if(ts, i, se)
    [] what \in {"while", "loop"} -> parse_while_loop(ts, i, se)
    [] what = "do" -> parse_do(ts, i, se)
    [] what = "for" -> parse_for(ts, i, se)
    [] what \in {"let", "const"} -> parse_let(ts, i, se, FALSE)
    [] what = "import" -> parse_import(ts, i, se)
    [] what = "export" -> parse_export(ts, i, se)
    [] what = "try" -> parse_try_catch(ts, i, se)
    [] what = "switch" -> parse_switch(ts, i, se)
    [] what = "arms" -> parse_arms(ts, i, se, x)
    [] what = "cases" -> parse_cases(ts, i, se, x)
    [] what = "script" -> parse_global_level(ts, i, se, x)

\* Engine::compile, and Engine::compile_expression (parse_global_expr).
Parsed(ts, expression) ==
  IF expression
    THEN Then(Expr(ts, 1, Settings(MaxExprDepth, {"GLOBAL_LEVEL", "DISALLOW_STATEMENTS_IN_BLOCKS", "NO_STMT_EXPR"})),
              LAMBDA e, i : IF at(ts, i) = EOF THEN Ok(<<"script", <<e>>>>, i) ELSE Err("UnexpectedInput"))
    ELSE parse("script", ts, 1, Settings(MaxExprDepth, {"GLOBAL_LEVEL"}), <<>>)
=============================================================================
