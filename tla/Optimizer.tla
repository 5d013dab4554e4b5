----------------------------- MODULE Optimizer ------------------------------
(* The script optimizer (optimizer.rs, with the questions it asks of the syntax
   tree in ast/expr.rs and ast/stmt.rs): a function from a program to one that
   comes to the same.

   Syntax is that of Walker.  A literal array, map or function pointer stands for
   a DynamicConstant.  Positions, qualified names, `eval`, custom syntax and
   interpolated strings are left out, and functions keep their bodies.         *)
EXTENDS Script, FiniteSetsExt

RECURSIVE is_constant(_), get_literal_value(_), is_pure(_), is_internally_pure(_), is_block_dependent(_)
RECURSIVE Opt(_, _, _, _), Unnested(_), Rounds(_, _, _, _, _), LastWithValue(_, _, _), LastWithout(_, _, _)
RECURSIVE ShortCuts(_, _, _, _), CoalesceCuts(_, _, _)

Lit(v) == <<"lit", v>>

IsLit(e, v) == e = Lit(v)

IsTrue(e) == IsLit(e, Bool(TRUE))

IsFalse(e) == IsLit(e, Bool(FALSE))

-----------------------------------------------------------------------------
is_constant(e) ==
  \/ e[1] \in {"lit", "closure"}
  \/ e[1] = "array" /\ \A i \in DOMAIN e[2] : is_constant(e[2][i])
  \/ e[1] = "map" /\ \A i \in DOMAIN e[2] : is_constant(e[2][i][2])

\* None, or the value that an expression has wherever it is evaluated.
get_literal_value(e) ==
  CASE e[1] = "lit" -> <<e[2]>>
    [] e[1] = "closure" -> <<FnPtr(e[2], <<>>, TRUE)>>
    [] e[1] = "array" /\ is_constant(e) -> <<Array([i \in DOMAIN e[2] |-> get_literal_value(e[2][i])[1]])>>
    [] e[1] = "map" /\ is_constant(e) ->
         <<Map([k \in {e[2][i][1] : i \in DOMAIN e[2]} |->
                  get_literal_value(e[2][CHOOSE i \in DOMAIN e[2] : e[2][i][1] = k][2])[1]])>>
    [] e[1] = "call" /\ e[2] = "Fn" /\ Len(e[3]) = 1 /\ e[3][1][1] = "lit" /\ e[3][1][2][1] = "str" ->
         <<FnPtr(e[3][1][2][2], <<>>, FALSE)>>
    [] OTHER -> <<>>

\* A pointer to a function becomes a call of `Fn` again.
from_dynamic(v) ==
  IF v[1] = "fn" /\ v[2].curry = <<>> THEN <<"call", "Fn", <<Lit(Str(v[2].name))>>>> ELSE Lit(v)

AllPure(ts) == \A i \in DOMAIN ts : is_pure(ts[i])

\* An expression or a statement that does nothing but give a value.
is_pure(t) ==
  CASE t[1] \in {"array", "and", "or", "coalesce", "stmt", "block"} -> AllPure(t[2])
    [] t[1] = "map" -> \A i \in DOMAIN t[2] : is_pure(t[2][i][2])
    [] t[1] \in {"lit", "closure", "noop"} -> TRUE
    [] t[1] = "expr" -> is_pure(t[2])
    [] t[1] = "if" -> is_pure(t[2]) /\ AllPure(t[3]) /\ AllPure(t[4])
    [] t[1] = "switch" ->
         /\ is_pure(t[2])
         /\ \A i \in DOMAIN t[3] : is_pure(t[3][i].cond) /\ is_pure(t[3][i].body)
         /\ t[4] # <<>> /\ AllPure(t[4])
    [] t[1] = "while" -> IsFalse(t[2])
    [] t[1] = "do" -> IsLit(t[3], Bool(t[4])) /\ AllPure(t[2])
    [] t[1] = "for" -> is_pure(t[4]) /\ AllPure(t[5])
    [] t[1] = "try" -> t[3] = <<>> /\ AllPure(t[2]) /\ AllPure(t[4])
    [] OTHER -> FALSE

\* ... or, at the end of a block, declares a variable that nobody can use.
is_internally_pure(t) ==
  CASE t[1] = "let" -> is_pure(t[3])
    [] t[1] = "expr" /\ t[2][1] = "stmt" -> \A i \in DOMAIN t[2][2] : is_internally_pure(t[2][2][i])
    [] OTHER -> is_pure(t)

\* Must it stay in its block?
is_block_dependent(t) ==
  \/ t[1] = "let"
  \/ t[1] = "expr" /\ t[2][1] = "stmt" /\ \A i \in DOMAIN t[2][2] : is_block_dependent(t[2][2][i])

returns_value(t) == t[1] \in {"if", "switch", "block", "expr", "fncall"}

is_control_flow_break(t) == t[1] \in {"break", "continue", "throw", "return"}

-----------------------------------------------------------------------------
\* OptimizerState: has anything changed, the variables that are visible with their values if
\* they are constants, and the level.  (`propagate_constants` falls only with `eval`.)
NewState(vars, level) == [dirty |-> FALSE, variables |-> vars, level |-> level]

set_dirty(st) == [st EXCEPT !.dirty = TRUE]

DirtyIf(b, st) == IF b THEN set_dirty(st) ELSE st

push_var(st, name, value) == [st EXCEPT !.variables = Append(@, <<name, value>>)]

\* Mutant: the outermost variable of that name is taken.
find_literal_constant_first(st, name) ==
  LET found == {i \in DOMAIN st.variables : st.variables[i][1] = name}
  IN IF found = {} THEN <<>> ELSE st.variables[Min(found)][2]

find_literal_constant(st, name) ==
  LET found == {i \in DOMAIN st.variables : st.variables[i][1] = name}
  IN IF found = {} THEN <<>> ELSE st.variables[Max(found)][2]

\* What an optimization gives: the new node and the state after it.
Node(n, st) == [n |-> n, st |-> st]

Changed(n, st) == Node(n, set_dirty(st))

optimize_expr(e, chaining, st) == Opt("expr", e, chaining, st)

optimize_stmt(t, preserve, st) == Opt("stmt", t, preserve, st)

\* A block inside of the program; `preserve`: its value may be wanted.
inner_block(b, preserve, st) == Opt("block", b, preserve, st)

Mapped(ts, F(_, _), st) ==
  FoldLeft(LAMBDA acc, t : Given(F(t, acc.st), LAMBDA r : Node(Append(acc.n, r.n), r.st)), Node(<<>>, st), ts)

Exprs(es, st) == Mapped(es, LAMBDA e, s : optimize_expr(e, FALSE, s), st)

move_constant_arg(e, st) ==
  LET value == get_literal_value(e)
  IN IF e[1] \in {"lit", "closure"} \/ value = <<>> THEN Node(e, st) ELSE Changed(Lit(value[1]), st)

Args(es, st) ==
  Mapped(es, LAMBDA e, s : Given(optimize_expr(e, FALSE, s), LAMBDA r : move_constant_arg(r.n, r.st)), st)

-----------------------------------------------------------------------------
\* The entry of a map that is written out.
WrittenEntry(m, name) ==
  LET found == {i \in DOMAIN m : m[i][1] = name}
  IN IF found = {} THEN Lit(Unit) ELSE m[CHOOSE i \in found : TRUE][2]

\* A single access that can be decided now: into an array or a map that is written out and
\* pure, or into a constant.  `known` is the value of a root that is a constant variable.
Decided(root, step, known) ==
  LET written == root[1] \in {"array", "map"} /\ is_pure(root)
      map     == IF root[1] = "lit" THEN <<root[2]>> ELSE known
      index   == IF step[1] = "idx" /\ step[2][1] = "lit" THEN step[2][2] ELSE Unit
      name    == IF step[1] = "prop" THEN step[2] ELSE IF index[1] = "str" THEN index[2] ELSE ""
      at      == IF index[2] >= 0 THEN index[2] + 1 ELSE Len(root[2]) + index[2] + 1
  IN CASE written /\ root[1] = "map" /\ name # "" -> <<WrittenEntry(root[2], name)>>
       [] written /\ root[1] = "array" /\ index[1] = "int" -> IF at \in DOMAIN root[2] THEN <<root[2][at]>> ELSE <<>>
       [] ~written /\ map # <<>> /\ map[1][1] = "map" /\ name # "" /\ (known # <<>> \/ step[1] = "idx") ->
            <<from_dynamic(Element(map[1], name))>>
       [] root[1] = "lit" /\ root[2][1] = "int" /\ index[1] = "int" -> <<Lit(Element(root[2], index[2]))>>
       [] step[1] = "method" /\ step[2] = "is_shared" /\ step[3] = <<>> /\ is_constant(root) -> <<Lit(Bool(FALSE))>>
       [] OTHER -> <<>>

\* The steps of a chain; the last one knows that it is in a chain.
ChainSteps(steps, st) ==
  LET last == Len(steps)
      one(i, s) ==
        CASE steps[i][1] = "idx" ->
               Given(optimize_expr(steps[i][2], i = last, s), LAMBDA r : Node([steps[i] EXCEPT ![2] = r.n], r.st))
          [] steps[i][1] = "prop" -> Node(steps[i], s)
          [] OTHER -> Given(Args(steps[i][3], s), LAMBDA r : Node([steps[i] EXCEPT ![3] = r.n], r.st))
  IN Mapped([i \in DOMAIN steps |-> i], one, st)

\* Expr::Dot and Expr::Index.  The variable at the root of a chain stays a variable.
optimize_chain(root, steps, chaining, st) ==
  LET known   == IF root[1] = "var" THEN find_literal_constant(st, root[2]) ELSE <<>>
      decided == IF chaining \/ Len(steps) # 1 THEN <<>> ELSE Decided(root, steps[1], known)
      walked(r) == Given(ChainSteps(steps, r.st), LAMBDA q : Node(<<"chain", r.n, q.n>>, q.st))
  IN CASE Elvis(steps[1]) /\ IsLit(root, Unit) -> Changed(root, st)
       [] ~(Elvis(steps[1]) /\ IsLit(root, Unit)) /\ decided # <<>> -> Changed(decided[1], st)
       [] ~chaining /\ decided = <<>> /\ root[1] \in {"var", "this"} -> walked(Node(root, st))
       [] OTHER -> Given(optimize_expr(root, FALSE, st), walked)

\* The operands of `&&` (stop on false) or `||` (stop on true): those that decide nothing go, and
\* all after the first that decides.  It decides alone if the ones before it are pure.
ShortCuts(es, n, stop, st) ==
  IF n > Len(es) THEN [es |-> es, decided |-> FALSE, st |-> st]
  ELSE LET decides == AllPure(SubSeq(es, 1, n - 1))
       IN CASE IsLit(es[n], Bool(~stop)) -> ShortCuts(RemoveAt(es, n), n, stop, set_dirty(st))
            [] IsLit(es[n], Bool(stop)) ->
                 [es |-> SubSeq(es, 1, n), decided |-> decides, st |-> DirtyIf(decides \/ n < Len(es), st)]
            [] OTHER -> Given(optimize_expr(es[n], FALSE, st), LAMBDA r :
                              ShortCuts([es EXCEPT ![n] = r.n], n + 1, stop, r.st))

optimize_short_circuit(kind, es, st) ==
  LET stop == kind = "or"
  IN Given(ShortCuts(es, 1, stop, st), LAMBDA r :
       CASE r.decided -> Changed(Lit(Bool(stop)), r.st)
         [] ~r.decided /\ r.es = <<>> -> Changed(Lit(Bool(~stop)), r.st)
         [] ~r.decided /\ Len(r.es) = 1 -> Changed(r.es[1], r.st)
         [] OTHER -> Node(<<kind, r.es>>, r.st))

\* The operands of `??`: nothing is left out, a constant is the last.
CoalesceCuts(es, n, st) ==
  IF n > Len(es) THEN Node(es, st)
  ELSE CASE IsLit(es[n], Unit) -> CoalesceCuts(RemoveAt(es, n), n, set_dirty(st))
         [] ~IsLit(es[n], Unit) /\ is_constant(es[n]) -> Node(SubSeq(es, 1, n), DirtyIf(n < Len(es), st))
         [] OTHER -> Given(optimize_expr(es[n], FALSE, st), LAMBDA r :
                           CoalesceCuts([es EXCEPT ![n] = r.n], n + 1, r.st))

optimize_coalesce(es, st) ==
  Given(CoalesceCuts(es, 1, st), LAMBDA r :
    CASE r.n = <<>> -> Changed(Lit(Bool(FALSE)), r.st)
      [] Len(r.n) = 1 -> Changed(r.n[1], r.st)
      [] OTHER -> Node(<<"coalesce", r.n>>, r.st))

\* What a call with constant arguments comes to, if that can be told now: operators at the
\* simple level, all functions of the host at the full one.
EvaluatedCall(name, values, level) ==
  LET native == Native(name, values)
  IN CASE name = "is_shared" /\ Len(values) = 1 -> <<Bool(FALSE)>>
       [] level = "simple" /\ name \in Binary /\ Len(values) = 2 -> Builtin(name, values[1], values[2])
       [] level = "full" /\ (name \in Operators \/ ~HasFn(name, Len(values))) /\ native # <<>> -> <<native[1].v>>
       [] OTHER -> <<>>

optimize_call(name, args, st) ==
  LET constant == \A i \in DOMAIN args : is_constant(args[i])
      values   == [i \in DOMAIN args |-> get_literal_value(args[i])[1]]
      result   == IF constant THEN EvaluatedCall(name, values, st.level) ELSE <<>>
      pointer  == get_literal_value(<<"call", name, args>>)
      with(r)  == Node(<<"call", name, r.n>>, r.st)
  IN CASE name = "!" /\ Len(args) = 1 /\ args[1][1] = "lit" /\ args[1][2][1] = "bool" ->
            Changed(Lit(Bool(~args[1][2][2])), st)
       [] name = "Fn" /\ Len(args) = 1 /\ constant ->
            IF pointer # <<>> THEN Changed(Lit(pointer[1]), st) ELSE with(Exprs(args, st))
       [] name = "curry" /\ Len(args) > 1 /\ constant /\ values[1][1] = "fn" ->
            Changed(Lit(FnPtr(values[1][2].name, values[1][2].curry \o Tail(values), values[1][2].linked)), st)
       [] name \notin {"Fn", "curry"} /\ result # <<>> -> Changed(from_dynamic(result[1]), st)
       [] name \notin {"Fn", "curry"} /\ result = <<>> /\ constant /\ st.level = "full" -> with(Exprs(args, st))
       [] OTHER -> with(Args(args, st))

\* The body of an expression block that is one expression is that expression.
optimize_block_expr(b, st) ==
  CASE b = <<>> -> Changed(Lit(Unit), st)
    [] Len(b) = 1 /\ b[1][1] = "expr" -> optimize_expr(b[1][2], FALSE, set_dirty(st))
    [] OTHER ->
         Given(inner_block(b, TRUE, st), LAMBDA r :
               IF Len(r.n) = 1 /\ r.n[1][1] = "expr" THEN Changed(r.n[1][2], r.st) ELSE Node(<<"stmt", r.n>>, r.st))

\* A literal that is written out becomes one constant.
optimize_container(e, st) ==
  CASE is_constant(e) -> Changed(Lit(get_literal_value(e)[1]), st)
    [] ~is_constant(e) /\ e[1] = "array" -> Given(Exprs(e[2], st), LAMBDA r : Node(<<"array", r.n>>, r.st))
    [] OTHER ->
         Given(Exprs([i \in DOMAIN e[2] |-> e[2][i][2]], st), LAMBDA r :
               Node(<<"map", [i \in DOMAIN e[2] |-> <<e[2][i][1], r.n[i]>>]>>, r.st))

optimized_expr(e, chaining, st) ==
  LET known == IF e[1] = "var" THEN find_literal_constant(st, e[2]) ELSE <<>>
  IN CASE e[1] = "stmt" -> optimize_block_expr(e[2], st)
       [] e[1] = "chain" -> optimize_chain(e[2], e[3], chaining, st)
       [] e[1] \in {"array", "map"} -> optimize_container(e, st)
       [] e[1] \in {"and", "or"} -> optimize_short_circuit(e[1], e[2], st)
       [] e[1] = "coalesce" -> optimize_coalesce(e[2], st)
       [] e[1] = "call" -> optimize_call(e[2], e[3], st)
       [] e[1] = "var" /\ known # <<>> -> Changed(from_dynamic(known[1]), st)
       [] OTHER -> Node(e, st)

-----------------------------------------------------------------------------
\* `x = x + y` becomes `x += y`.
IsOpAssignment(lhs, op, e) ==
  op = "" /\ lhs[1] = "var" /\ e[1] = "call" /\ e[2] \in {"+", "-"} /\ Len(e[3]) = 2 /\ e[3][1] = lhs

optimize_assignment(lhs, op, e, st) ==
  IF IsOpAssignment(lhs, op, e) THEN Changed(<<"assign", lhs, e[2], e[3][2]>>, st)
  ELSE Given(IF lhs[1] = "var" THEN Node(lhs, st) ELSE optimize_expr(lhs, FALSE, st), LAMBDA l :
       Given(optimize_expr(e, FALSE, l.st), LAMBDA r : Node(<<"assign", l.n, op, r.n>>, r.st)))

\* The block that is left of a statement.
AsStatement(b) == IF b = <<>> THEN <<"noop">> ELSE <<"block", b>>

AsBlock(t) == CASE t[1] = "block" -> t[2] [] t[1] = "noop" -> <<>> [] OTHER -> <<t>>

IsOnlyIf(b) == Len(b) = 1 /\ b[1][1] = "if" /\ b[1][4] = <<>>

\* An `if` that does nothing else than another `if`: one `if` for both conditions.
merge_ifs(cond, inner, preserve, st) ==
  Given(inner_block(inner[3], preserve, set_dirty(st)), LAMBDA body :
  Given(optimize_expr(inner[2], FALSE, body.st), LAMBDA second :
    IF cond[1] = "and" THEN Node(<<"if", <<"and", Append(cond[2], second.n)>>, body.n, <<>>>>, second.st)
    ELSE Given(optimize_expr(cond, FALSE, second.st), LAMBDA first :
               Node(<<"if", <<"and", <<first.n, second.n>>>>, body.n, <<>>>>, first.st))))

optimize_if(cond, body, branch, preserve, st) ==
  CASE body = <<>> /\ branch = <<>> ->
         Given(optimize_expr(cond, FALSE, set_dirty(st)), LAMBDA r :
               Node(IF preserve THEN <<"block", << <<"expr", r.n>>, <<"noop">> >>>> ELSE <<"expr", r.n>>, r.st))
    [] ~(body = <<>> /\ branch = <<>>) /\ cond[1] = "lit" /\ cond[2][1] = "bool" ->
         Given(inner_block(IF cond[2][2] THEN body ELSE branch, preserve, set_dirty(st)), LAMBDA r :
               Node(AsStatement(r.n), r.st))
    [] ~(cond[1] = "lit" /\ cond[2][1] = "bool") /\ branch = <<>> /\ IsOnlyIf(body) ->
         merge_ifs(cond, body[1], preserve, st)
    [] OTHER ->
         Given(optimize_expr(cond, FALSE, st), LAMBDA c :
         Given(inner_block(body, preserve, c.st), LAMBDA yes :
         Given(inner_block(branch, preserve, yes.st), LAMBDA no : Node(<<"if", c.n, yes.n, no.n>>, no.st))))

\* The statement for one arm: its body, or a condition with the default as the other branch.
DefaultCase(default, st) ==
  IF default = <<>> THEN Node(<<>>, st)
  ELSE Given(optimize_stmt(<<"expr", default[1]>>, TRUE, st), LAMBDA r : Node(AsBlock(r.n), r.st))

OneArm(arm, default, st) ==
  IF IsTrue(arm.cond) THEN optimize_stmt(<<"expr", arm.body>>, TRUE, st)
  ELSE Given(optimize_expr(arm.cond, FALSE, st), LAMBDA c :
       Given(DefaultCase(default, c.st), LAMBDA d :
             Node(<<"if", c.n, << <<"expr", arm.body>> >>, d.n>>, d.st)))

\* A switch on a constant array or map: its arm, or the default.
switch_on_constant(e, arms, default, st) ==
  LET value  == e[2]
      exact  == SelectSeq(arms, LAMBDA a : \E i \in DOMAIN a.cases : a.cases[i] = value)
      always == SelectSeq(exact, LAMBDA a : IsTrue(a.cond))
      ranged == SelectSeq(arms, LAMBDA a : a.range # <<>>)
      single == Len(ranged) = 1 \/ \A i \in DOMAIN ranged : IsTrue(ranged[i].cond)
  IN CASE Len(exact) = 1 -> OneArm(exact[1], default, set_dirty(st))
       [] Len(exact) > 1 /\ always # <<>> -> optimize_stmt(<<"expr", always[1].body>>, TRUE, set_dirty(st))
       [] ~single -> Changed(<<"switch", e, SelectSeq(ranged, LAMBDA a : InRange(a.range, value)), default>>, st)
       [] default # <<>> -> optimize_stmt(<<"expr", default[1]>>, TRUE, set_dirty(st))
       [] OTHER -> Changed(<<"block", <<>>>>, st)

\* Arms that are never taken go: those with a false condition, and those for a value that an
\* earlier one always takes.
LiveArms(arms) ==
  LET taken(i, v) == \E j \in 1..i - 1 : IsTrue(arms[j].cond) /\ \E k \in DOMAIN arms[j].cases : arms[j].cases[k] = v
      live == [i \in DOMAIN arms |-> [arms[i] EXCEPT !.cases = SelectSeq(@, LAMBDA v : ~taken(i, v))]]
  IN SelectSeq(live, LAMBDA a : ~IsFalse(a.cond) /\ (a.cases # <<>> \/ a.range # <<>>))

optimize_arm(arm, st) ==
  Given(optimize_expr(arm.cond, FALSE, st), LAMBDA c :
  Given(optimize_expr(arm.body, FALSE, c.st), LAMBDA b : Node([arm EXCEPT !.cond = c.n, !.body = b.n], b.st)))

optimize_switch(e, arms, default, st) ==
  IF e[1] = "lit" /\ e[2][1] \in {"array", "map"} THEN switch_on_constant(e, arms, default, st)
  ELSE Given(optimize_expr(e, FALSE, st), LAMBDA s :
       Given(Mapped(arms, optimize_arm, s.st), LAMBDA a :
       Given(Exprs(default, a.st), LAMBDA d :
         LET live == LiveArms(a.n) IN Node(<<"switch", s.n, live, d.n>>, DirtyIf(live # a.n, d.st)))))

\* A loop whose condition is true has none.
optimize_while(cond, body, st) ==
  IF IsFalse(cond) THEN Changed(<<"noop">>, st)
  ELSE Given(optimize_expr(cond, FALSE, st), LAMBDA c :
       Given(inner_block(body, FALSE, c.st), LAMBDA b :
             Node(<<"while", IF IsTrue(c.n) THEN Lit(Unit) ELSE c.n, b.n>>, b.st)))

optimize_nested_block(b, preserve, st) ==
  Given(inner_block(b, preserve, st), LAMBDA r :
    CASE r.n = <<>> -> Changed(<<"noop">>, r.st)
      [] Len(r.n) = 1 /\ ~is_block_dependent(r.n[1]) -> Changed(r.n[1], r.st)
      [] OTHER -> Node(<<"block", r.n>>, r.st))

\* Nothing is caught from a block that does nothing.
optimize_try(body, name, branch, st) ==
  IF AllPure(body) THEN Given(inner_block(body, FALSE, set_dirty(st)), LAMBDA r : Node(<<"block", r.n>>, r.st))
  ELSE Given(inner_block(body, FALSE, st), LAMBDA b :
       Given(inner_block(branch, FALSE, b.st), LAMBDA c : Node(<<"try", b.n, name, c.n>>, c.st)))

optimize_expr_stmt(e, st) ==
  CASE e[1] = "stmt" /\ e[2] = <<>> -> Changed(<<"noop">>, st)
    [] e[1] = "stmt" /\ e[2] # <<>> ->
         Given(inner_block(e[2], TRUE, set_dirty(st)), LAMBDA r : Node(<<"block", r.n>>, r.st))
    [] e[1] = "call" -> Changed(<<"fncall", e[2], e[3]>>, st)
    [] OTHER -> Given(optimize_expr(e, FALSE, st), LAMBDA r : Node(<<"expr", r.n>>, r.st))

\* A captured constant needs no sharing.
optimize_share(names, st) ==
  LET left == SelectSeq(names, LAMBDA n : find_literal_constant(st, n) = <<>>)
  IN IF names = <<>> THEN Changed(<<"noop">>, st) ELSE Node(<<"share", left>>, DirtyIf(left # names, st))

optimized_stmt(t, preserve, st) ==
  CASE t[1] = "assign" -> optimize_assignment(t[2], t[3], t[4], st)
    [] t[1] = "if" -> optimize_if(t[2], t[3], t[4], preserve, st)
    [] t[1] = "switch" -> optimize_switch(t[2], t[3], t[4], st)
    [] t[1] = "while" -> optimize_while(t[2], t[3], st)
    [] t[1] = "do" ->
         Given(optimize_expr(t[3], FALSE, st), LAMBDA c :
         Given(inner_block(t[2], FALSE, c.st), LAMBDA b : Node(<<"do", b.n, c.n, t[4]>>, b.st)))
    [] t[1] = "for" ->
         Given(optimize_expr(t[4], FALSE, st), LAMBDA c :
         Given(inner_block(t[5], FALSE, c.st), LAMBDA b : Node(<<"for", t[2], t[3], c.n, b.n>>, b.st)))
    [] t[1] = "block" -> optimize_nested_block(t[2], preserve, st)
    [] t[1] = "try" -> optimize_try(t[2], t[3], t[4], st)
    [] t[1] = "expr" -> optimize_expr_stmt(t[2], st)
    [] t[1] = "fncall" ->
         Given(optimize_expr(<<"call", t[2], t[3]>>, FALSE, st), LAMBDA r :
               Node(IF r.n[1] = "call" THEN <<"fncall", r.n[2], r.n[3]>> ELSE <<"expr", r.n>>, r.st))
    [] t[1] \in {"break", "return", "throw"} ->
         Given(Exprs(t[2], st), LAMBDA r : Node(<<t[1], r.n>>, r.st))
    [] t[1] = "share" -> optimize_share(t[2], st)
    [] OTHER -> Node(t, st)

-----------------------------------------------------------------------------
\* Statements of a block that declares nothing can as well be in the block around it.
Unnested(b) ==
  LET found == {i \in DOMAIN b : b[i][1] = "block" /\ \A j \in DOMAIN b[i][2] : ~is_block_dependent(b[i][2][j])}
      i     == Min(found)
  IN IF found = {} THEN b ELSE Unnested(SubSeq(b, 1, i - 1) \o b[i][2] \o SubSeq(b, i + 1, Len(b)))

\* Nothing after a jump is reached.
Reachable(b) ==
  LET jumps == {i \in DOMAIN b : is_control_flow_break(b[i])}
  IN IF jumps = {} THEN b ELSE SubSeq(b, 1, Min(jumps))

\* Each statement, with the variables declared before it.
Each(b, preserve, st) ==
  LET one(i, s) ==
        IF b[i][1] # "let" THEN optimize_stmt(b[i], preserve /\ i = Len(b), s)
        ELSE Given(optimize_expr(b[i][3], FALSE, s), LAMBDA r :
               LET value == IF b[i][4] /\ is_constant(r.n) THEN get_literal_value(r.n) ELSE <<>>
               IN Node([b[i] EXCEPT ![3] = r.n], push_var(r.st, b[i][2], value)))
  IN Mapped([i \in DOMAIN b |-> i], one, st)

PureIn(t, internal) == IF internal THEN is_internally_pure(t) ELSE is_pure(t)

Chosen(b, P(_)) ==
  LET places == SelectSeq([i \in DOMAIN b |-> i], P) IN [j \in DOMAIN places |-> b[places[j]]]

\* Statements that do nothing go, but for the last one if its value may be wanted; so does a
\* variable that is only looked at.  A declaration goes when nothing else comes after it.
Needed(b, preserve, internal) ==
  LET impure == {i \in DOMAIN b : ~PureIn(b[i], internal)}
      last   == IF impure = {} THEN 0 ELSE Max(impure)
      needless(i) ==
        \/ PureIn(b[i], internal) /\ i > last
        \/ b[i][1] = "expr" /\ b[i][2][1] = "var"
        \/ is_pure(b[i])
      needed(i) == (preserve /\ i = Len(b)) \/ ~needless(i)
  IN Chosen(b, needed)

\* What the end of a block can do without when its value may be wanted: a `return` at the end of
\* the program (`reduce`), and what has no value and does nothing.
LastWithValue(b, internal, reduce) ==
  LET n      == Len(b)
      last   == b[n]
      before == n > 1 /\ returns_value(b[n - 1])
      returns == reduce /\ last[1] = "return"
  IN CASE n = 0 -> b
       [] n = 1 /\ returns /\ last[2] = <<>> -> <<>>
       [] n = 1 /\ ~returns /\ ~returns_value(last) /\ PureIn(last, internal) -> <<>>
       [] n > 1 /\ returns /\ last[2] = <<>> /\ ~before -> LastWithValue(Front(b), internal, reduce)
       [] n > 0 /\ returns /\ (last[2] # <<>> \/ before) ->
            LastWithValue(Append(Front(b), IF last[2] = <<>> THEN <<"noop">> ELSE <<"expr", last[2][1]>>),
                          internal, reduce)
       [] n > 1 /\ ~returns /\ last # <<"noop">> /\ before /\ ~returns_value(last) /\ PureIn(last, internal) ->
            Append(Front(b), <<"noop">>)
       [] n > 1 /\ ~returns /\ ~before /\ ~returns_value(last) /\ PureIn(last, internal) ->
            LastWithValue(Front(b), internal, reduce)
       [] OTHER -> b

\* ... and when it is not.
LastWithout(b, internal, reduce) ==
  LET n    == Len(b)
      last == b[n]
  IN CASE n = 0 -> b
       [] n > 0 /\ PureIn(last, internal) -> LastWithout(Front(b), internal, reduce)
       [] n > 0 /\ reduce /\ last[1] = "return" /\ AllPure(last[2]) -> LastWithout(Front(b), internal, reduce)
       [] OTHER -> b

Ended(b, preserve, internal, reduce) ==
  IF preserve THEN LastWithValue(b, internal, reduce) ELSE LastWithout(b, internal, reduce)

\* Until a round changes nothing.  What was declared in the block is forgotten after each.
Rounds(b, preserve, internal, reduce, st) ==
  LET live == Reachable(b)
  IN Given(Each(live, preserve, [st EXCEPT !.dirty = Len(live) < Len(b)]), LAMBDA r :
     Given(Ended(Needed(r.n, preserve, internal), preserve, internal, reduce), LAMBDA ended :
       IF ~r.st.dirty /\ ended = r.n THEN Node(ended, [st EXCEPT !.dirty = FALSE])
       ELSE Given(Rounds(ended, preserve, internal, reduce, st), LAMBDA q : Changed(q.n, q.st))))

optimize_stmt_block(b, preserve, internal, reduce, st) ==
  IF b = <<>> THEN Node(b, st)
  ELSE LET flat == Unnested(b)
       IN Given(Rounds(flat, preserve, internal, reduce, st), LAMBDA r :
                Node(r.n, DirtyIf(st.dirty \/ flat # b, r.st)))

\* `preserve` is whether an expression is part of a chain.
Opt(kind, t, preserve, st) ==
  CASE kind = "expr" -> optimized_expr(t, preserve, st)
    [] kind = "stmt" -> optimized_stmt(t, preserve, st)
    [] OTHER -> optimize_stmt_block(t, preserve, TRUE, FALSE, st)

\* A program, with the constants of the scope that it is compiled for.
optimize_top_level(b, scope, level) ==
  LET vars == [i \in DOMAIN scope |-> <<scope[i].name, IF scope[i].ro THEN <<scope[i].value>> ELSE <<>>>>]
  IN IF level = "none" THEN b ELSE optimize_stmt_block(b, TRUE, FALSE, TRUE, NewState(vars, level)).n
=============================================================================
