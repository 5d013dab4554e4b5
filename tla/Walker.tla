------------------------------- MODULE Walker -------------------------------
(* The reference engine: the tree walker (eval/expr.rs, eval/stmt.rs,
   eval/chaining.rs, func/call.rs, func/script.rs), as a function from a
   statement and a state to an outcome.

   A variable is looked up by name, as it would be found at the offset that the
   parser recorded (see VarResolution).                                       *)
EXTENDS Script

RECURSIVE Walk(_, _, _), EvalAll(_, _, _), Steps(_, _, _, _, _), ShortCircuit(_, _, _), Coalesce(_, _), FirstArm(_, _, _)
RECURSIVE Stmt_While(_, _, _), Stmt_Do(_, _, _, _), Rounds(_, _, _, _, _, _), Stmt_Share(_, _), InOrder(_, _)

\* The engine calls itself for an expression, for a statement and for a block.
Value(e, s) == Walk("expr", e, s)

Evaluate(t, s) == Walk("stmt", t, s)

Block(b, s) == Walk("block", b, s)

\* search_namespace: the entry of a variable, or 0 and a value of its own.  A function of the
\* script hides a variable that the script has not declared.
search_namespace(name, s) ==
  LET i == search(s.scope, name)
      target(n, v) == Ok([entry |-> n, value |-> v], s)
  IN CASE i <= s.host /\ name \in DOMAIN Functions -> target(0, FnPtr(name, <<>>, TRUE))
       [] i > s.host /\ name \in DOMAIN Functions -> target(i, s.scope[i].value)
       [] name \notin DOMAIN Functions /\ i = 0 -> Fails("variable", s)
       [] OTHER -> target(i, s.scope[i].value)

\* ... locked for writing if it is shared (Target::try_from).
Locking(name, s) ==
  Then(search_namespace(name, s), LAMBDA t :
       IF is_shared(t.v.value) /\ t.v.value[2] \in s.locked THEN Fails("race", s) ELSE t)

\* get_arg_value for all arguments, from left to right.  Unless they are wanted as they are, each
\* is looked through before the next one is evaluated.
EvalAll(es, flat, s) ==
  IF es = <<>> THEN Ok(<<>>, s)
  ELSE Then(Value(es[1], s), LAMBDA r :
       LET v == IF flat THEN flatten(r.v, r.s.heap) ELSE r.v
       IN Given(v, LAMBDA x : Then(EvalAll(Tail(es), flat, r.s), LAMBDA q : Ok(<<x>> \o q.v, q.s))))

-----------------------------------------------------------------------------
\* call_script_fn: a scope of its own, and the receiver if it is called as a method.  The
\* outcome has the receiver as the body leaves it.
call_script_fn(f, this, args, s) ==
  LET inside == [s EXCEPT !.scope = [i \in DOMAIN args |-> Entry(f.params[i], FALSE, args[i])],
                          !.host = 0, !.this = this]
  IN Given(Block(f.body, inside), LAMBDA r :
       LET after == [r.s EXCEPT !.scope = s.scope, !.host = s.host, !.this = s.this]
       IN [k |-> IF r.k = "return" THEN "ok" ELSE r.k,
           v |-> IF r.k = "err" THEN [r.v EXCEPT !.calls = @ + 1] ELSE r.v,
           s |-> after,
           first |-> r.s.this])

\* ensure_no_data_race: an argument is a cell that is locked.
Raced(args, s) == \E i \in DOMAIN args : is_shared(args[i]) /\ args[i][2] \in s.locked

Called(r, first) == [k |-> r.k, v |-> r.v, s |-> r.s, first |-> first]
FirstOf(args) == IF args = <<>> THEN <<>> ELSE <<args[1]>>

\* exec_native_fn_call: a function of the host that is not a method gets a copy of its first
\* argument, and the argument is as it was afterwards.
exec_native_fn_call(name, args, s) ==
  LET native == Native(name, args)
  IN IF native = <<>> THEN Called(Fails("function", s), FirstOf(args))
     ELSE Called(Ok(native[1].v, [s EXCEPT !.log = @ \o native[1].log]), <<native[1].first>>)

\* exec_fn_call: a function of the script, which gets a copy of its first argument unless it
\* is a method; else one of the host's.  `first` is none or the first argument afterwards.
exec_fn_call(name, args, method, s) ==
  LET raced == Raced(args, s)
      scripted == name \notin Operators /\ HasFn(name, IF method THEN Len(args) - 1 ELSE Len(args))
  IN CASE raced -> Called(Fails("race", s), <<args[1]>>)
       [] ~raced /\ scripted /\ method -> call_script_fn(Functions[name], <<args[1]>>, Tail(args), s)
       [] ~raced /\ scripted /\ ~method ->
            Given(call_script_fn(Functions[name], <<>>, args, s), LAMBDA r : Called(r, FirstOf(args)))
       [] OTHER -> exec_native_fn_call(name, args, s)

\* The first argument is passed by reference when it is a variable that may change and is not
\* shared: the others are evaluated first.
ByRef(name, args, s) ==
  Then(EvalAll(Tail(args), TRUE, s), LAMBDA r :
  Then(Locking(args[1][2], r.s), LAMBDA t :
       LET i    == t.v.entry
           vals == <<flatten(t.v.value, t.s.heap)>> \o r.v
           byref == i > 0 /\ ~t.s.scope[i].ro /\ ~is_shared(t.v.value)
       IN Given(exec_fn_call(name, vals, FALSE, t.s), LAMBDA q :
            IF byref THEN [k |-> q.k, v |-> q.v, s |-> [q.s EXCEPT !.scope[i].value = q.first[1]]]
                     ELSE [k |-> q.k, v |-> q.v, s |-> q.s])))

\* `this` as the first argument: by reference unless it is shared.
ByThis(name, args, s) ==
  Then(EvalAll(Tail(args), TRUE, s), LAMBDA r :
       Given(exec_fn_call(name, r.s.this \o r.v, FALSE, r.s), LAMBDA q :
             [k |-> q.k, v |-> q.v, s |-> [q.s EXCEPT !.this = q.first]]))

Outcome(q) == [k |-> q.k, v |-> q.v, s |-> q.s]

ByValue(name, args, curry, s) ==
  Then(EvalAll(args, TRUE, s), LAMBDA r : Outcome(exec_fn_call(name, curry \o r.v, FALSE, r.s)))

\* make_function_call, once it is known which function is called.
Arguments(name, args, curry, s) ==
  CASE args # <<>> /\ curry = <<>> /\ args[1][1] = "this" /\ s.this # <<>> -> ByThis(name, args, s)
    [] args # <<>> /\ curry = <<>> /\ args[1][1] = "var" -> ByRef(name, args, s)
    [] OTHER -> ByValue(name, args, curry, s)

\* `call`: a closure is called with the values as they are, shared ones included.
CallFnPtr(args, s) ==
  Then(Value(args[1], s), LAMBDA p :
       LET f == flatten(p.v, p.s.heap)
       IN CASE f[1] # "fn" -> Fails("type", p.s)
            [] f[1] = "fn" /\ f[2].linked /\ HasFn(f[2].name, Len(f[2].curry) + Len(args) - 1) ->
                 Then(EvalAll(Tail(args), FALSE, p.s), LAMBDA r :
                      Outcome(call_script_fn(Functions[f[2].name], <<>>, f[2].curry \o r.v, r.s)))
            [] OTHER -> Arguments(f[2].name, Tail(args), f[2].curry, p.s))

Curry(args, s) ==
  Then(Value(args[1], s), LAMBDA p :
       LET f == flatten(p.v, p.s.heap)
       IN IF f[1] # "fn" THEN Fails("type", p.s)
          ELSE Then(EvalAll(Tail(args), FALSE, p.s), LAMBDA r :
                    Ok(FnPtr(f[2].name, f[2].curry \o r.v, f[2].linked), r.s)))

make_function_call(name, args, s) ==
  CASE name = "call" /\ args # <<>> -> CallFnPtr(args, s)
    [] name = "Fn" /\ Len(args) = 1 ->
         Then(Value(args[1], s), LAMBDA r :
              LET v == flatten(r.v, r.s.heap)
              IN IF v[1] = "str" THEN Ok(FnPtr(v[2], <<>>, FALSE), r.s) ELSE Fails("type", r.s))
    [] name = "curry" /\ Len(args) > 1 -> Curry(args, s)
    [] name = "is_shared" /\ Len(args) = 1 ->
         Then(Value(args[1], s), LAMBDA r : Ok(Bool(is_shared(r.v)), r.s))
    [] OTHER -> Arguments(name, args, <<>>, s)

\* An operator takes values.
eval_fn_call_expr(name, args, s) ==
  IF name \in Operators THEN ByValue(name, args, <<>>, s) ELSE make_function_call(name, args, s)

-----------------------------------------------------------------------------
\* Each step with its share of the values.
WithArgs(steps, vs) ==
  LET before(i) == Len(ArgExprs(SubSeq(steps, 1, i - 1)))
  IN [i \in DOMAIN steps |->
        [step |-> steps[i], args |-> SubSeq(vs, before(i) + 1, before(i) + Len(StepExprs(steps[i])))]]

\* make_method_call on the value `at`; `ref`: it can be changed.
make_method_call(name, at, args, s) ==
  LET plain(r) == [k |-> r.k, v |-> r.v, s |-> r.s, first |-> <<at>>]
  IN CASE name = "call" /\ at[1] = "fn" ->
            LET all == at[2].curry \o args
            IN IF at[2].linked /\ HasFn(at[2].name, Len(all))
               THEN plain(call_script_fn(Functions[at[2].name], <<>>, all, s))
               ELSE plain(exec_fn_call(at[2].name, all, FALSE, s))
       [] name = "call" /\ at[1] # "fn" /\ (args = <<>> \/ args[1][1] # "fn") -> plain(Fails("type", s))
       [] name = "call" /\ at[1] # "fn" /\ args # <<>> /\ args[1][1] = "fn" ->
            LET f == args[1][2]
                all == f.curry \o Tail(args)
            IN IF f.linked /\ HasFn(f.name, Len(all)) /\ ~Raced(all, s)
               THEN call_script_fn(Functions[f.name], <<at>>, all, s)
               ELSE exec_fn_call(f.name, <<at>> \o all, TRUE, s)
       [] name = "curry" ->
            plain(IF at[1] = "fn" THEN Ok(FnPtr(at[2].name, at[2].curry \o args, at[2].linked), s)
                  ELSE Fails("type", s))
       [] at[1] = "map" /\ name \in DOMAIN at[2] /\ Element(at, name)[1] = "fn" ->
            LET f == at[2][name][2]
                all == f.curry \o args
            IN IF f.linked /\ HasFn(f.name, Len(all))
               THEN call_script_fn(Functions[f.name], <<at>>, all, s)
               ELSE exec_fn_call(f.name, <<at>> \o all, TRUE, s)
       [] OTHER -> exec_fn_call(name, <<at>> \o args, TRUE, s)

\* eval_op_assignment on a value that may change.
Assigned(op, old, new) ==
  IF op = "" THEN <<new>> ELSE Builtin(op, old, new)

\* eval_dot_index_chain_raw: the steps from `at` on, with the value to assign, if any.  The
\* outcome has `at` as it is left, also when it fails.
Steps(steps, at, op, new, s) ==
  IF steps = <<>> THEN
    IF new = <<>> THEN [k |-> "ok", v |-> at, s |-> s, at |-> at]
    ELSE LET x == Assigned(op, at, new[1])
         IN IF x = <<>> THEN [k |-> "err", v |-> Err("function", Unit), s |-> s, at |-> at]
            ELSE [k |-> "ok", v |-> Unit, s |-> s, at |-> x[1]]
  ELSE
    LET step == steps[1].step
        args == steps[1].args
        made == step[1] # "method" /\ Len(steps) = 1 /\ new # <<>>
        where == CASE step[1] = "idx" -> ElementAt(at, args[1])
                   [] step[1] = "prop" -> PropertyAt(at, step[2])
                   [] OTHER -> <<"method", 0>>
        fail(e) == [k |-> "err", v |-> Err(e, Unit), s |-> s, at |-> at]
    IN CASE Elvis(step) /\ is_unit(at) -> [k |-> "ok", v |-> Unit, s |-> s, at |-> at]
         [] ~(Elvis(step) /\ is_unit(at)) /\ where[1] = "err" -> fail(where[2])
         [] ~(Elvis(step) /\ is_unit(at)) /\ where[1] = "at" ->
              LET there == at[1] # "map" \/ where[2] \in DOMAIN at[2] \/ made
              IN Given(Steps(Tail(steps), Element(at, where[2]), op, new, s), LAMBDA r :
                   [k |-> r.k, v |-> r.v, s |-> r.s,
                    at |-> IF there THEN WithElement(at, where[2], r.at) ELSE at])
         [] OTHER ->
              Given(make_method_call(step[2], at, args, s), LAMBDA q :
                IF q.k # "ok" THEN [k |-> q.k, v |-> q.v, s |-> q.s, at |-> q.first[1]]
                ELSE Given(Steps(Tail(steps), q.v, op, new, q.s), LAMBDA r :
                       [k |-> r.k, v |-> r.v, s |-> r.s, at |-> q.first[1]]))

\* eval_dot_index_chain: the arguments of all steps, then the root, then the walk.  A shared
\* root is locked meanwhile.
eval_dot_index_chain(root, steps, op, new, s) ==
  Then(EvalAll(ArgExprs(steps), TRUE, s), LAMBDA r :
    LET with == WithArgs(steps, r.v)
    IN CASE root[1] = "this" ->
              IF r.s.this = <<>> THEN Fails("unbound", r.s)
              ELSE Given(Steps(with, r.s.this[1], op, new, r.s), LAMBDA q :
                         [k |-> q.k, v |-> q.v, s |-> [q.s EXCEPT !.this = <<q.at>>]])
         [] root[1] = "var" ->
              Then(Locking(root[2], r.s), LAMBDA t :
                LET cell == IF is_shared(t.v.value) THEN {t.v.value[2]} ELSE {}
                IN Given(Steps(with, flatten(t.v.value, t.s.heap), op, new, [t.s EXCEPT !.locked = @ \cup cell]),
                     LAMBDA q :
                       [k |-> q.k, v |-> q.v,
                        s |-> CASE t.v.entry = 0 -> q.s
                                [] t.v.entry > 0 /\ cell = {} -> [q.s EXCEPT !.scope[t.v.entry].value = q.at]
                                [] OTHER -> [q.s EXCEPT !.heap[t.v.value[2]] = q.at, !.locked = t.s.locked]]))
         [] OTHER ->
              Then(Value(root, r.s), LAMBDA t :
                   Outcome(Steps(with, flatten(t.v, t.s.heap), op, new, t.s))))

-----------------------------------------------------------------------------
\* `&&` (stop on false) and `||` (stop on true).
ShortCircuit(es, stop, s) ==
  IF es = <<>> THEN Ok(Bool(~stop), s)
  ELSE Then(Value(es[1], s), LAMBDA r :
         LET v == flatten(r.v, r.s.heap)
         IN CASE v[1] # "bool" -> Fails("type", r.s)
              [] v = Bool(stop) -> Ok(Bool(stop), r.s)
              [] OTHER -> ShortCircuit(Tail(es), stop, r.s))

\* `??`: the first value that is something.
Coalesce(es, s) ==
  Then(Value(es[1], s), LAMBDA r :
       IF Len(es) = 1 \/ ~is_unit(flatten(r.v, r.s.heap)) THEN r ELSE Coalesce(Tail(es), r.s))

\* A shared value stays shared when a variable is read.
eval_expr(e, s) ==
  CASE e[1] = "lit" -> Ok(e[2], s)
    [] e[1] = "closure" -> Ok(FnPtr(e[2], <<>>, TRUE), s)
    [] e[1] = "this" -> IF s.this = <<>> THEN Fails("unbound", s) ELSE Ok(s.this[1], s)
    [] e[1] = "var" -> Then(Locking(e[2], s), LAMBDA t : Ok(t.v.value, t.s))
    [] e[1] = "array" -> Then(EvalAll(e[2], TRUE, s), LAMBDA r : Ok(Array(r.v), r.s))
    [] e[1] = "map" ->
         Then(EvalAll([i \in DOMAIN e[2] |-> e[2][i][2]], TRUE, s), LAMBDA r :
              Ok(Map([k \in {e[2][i][1] : i \in DOMAIN e[2]} |-> r.v[CHOOSE i \in DOMAIN e[2] : e[2][i][1] = k]]), r.s))
    [] e[1] = "and" -> ShortCircuit(e[2], FALSE, s)
    [] e[1] = "or" -> ShortCircuit(e[2], TRUE, s)
    [] e[1] = "coalesce" -> Coalesce(e[2], s)
    [] e[1] = "call" -> eval_fn_call_expr(e[2], e[3], s)
    [] e[1] = "chain" -> eval_dot_index_chain(e[2], e[3], "", <<>>, s)
    [] OTHER -> Block(e[2], s)

-----------------------------------------------------------------------------
\* A condition (as_bool looks through sharing).
Condition(e, s) ==
  Then(Value(e, s), LAMBDA r :
       LET v == flatten(r.v, r.s.heap)
       IN IF v[1] = "bool" THEN Ok(v[2], r.s) ELSE Fails("type", r.s))

Optional(es, s) == IF es = <<>> THEN Ok(Unit, s) ELSE Value(es[1], s)

Flattened(r) == [r EXCEPT !.v = flatten(@, r.s.heap)]

\* What an assignment to the target of a variable does (eval_op_assignment); a plain one goes
\* through the lock of a shared value.
Assign(t, op, new) ==
  LET i    == t.v.entry
      cell == is_shared(t.v.value)
      x    == Assigned(op, flatten(t.v.value, t.s.heap), new)
  IN CASE i = 0 -> Fails("constant", t.s)
       [] i > 0 /\ t.s.scope[i].ro -> Fails("constant", t.s)
       [] i > 0 /\ ~t.s.scope[i].ro /\ x = <<>> -> Fails("function", t.s)
       [] OTHER -> Ok(Unit, IF cell THEN [t.s EXCEPT !.heap[t.v.value[2]] = x[1]]
                            ELSE [t.s EXCEPT !.scope[i].value = x[1]])

\* The right-hand side first; then the target.
Stmt_Assignment(lhs, op, e, s) ==
  IF lhs[1] = "this" /\ s.this = <<>> THEN Fails("unbound", s)
  ELSE Then(Value(e, s), LAMBDA r :
    LET new == flatten(r.v, r.s.heap)
    IN CASE lhs[1] = "this" ->
              LET x == Assigned(op, r.s.this[1], new)
              IN IF x = <<>> THEN Fails("function", r.s) ELSE Ok(Unit, [r.s EXCEPT !.this = x])
         [] lhs[1] = "var" -> Then(Locking(lhs[2], r.s), LAMBDA t : Assign(t, op, new))
         [] OTHER ->
              Then(eval_dot_index_chain(lhs[2], lhs[3], op, <<new>>, r.s), LAMBDA q : Ok(Unit, q.s)))

\* A variable that is declared again in its block takes the place of the first.
Stmt_Var(name, e, const, again, s) ==
  Then(Value(e, s), LAMBDA r :
    LET v == flatten(r.v, r.s.heap)
        i == search(r.s.scope, name)
    IN Ok(Unit, IF again THEN [r.s EXCEPT !.scope[i] = Entry(name, const, v)]
                ELSE push_entry(r.s, name, const, v)))

\* The arms of a switch have values or a range of integers.  First come the arms for the value
\* itself, then those whose range it is in; a value that is not hashable has none.
ArmsFor(arms, v) ==
  LET exact  == SelectSeq(arms, LAMBDA a : \E i \in DOMAIN a.cases : a.cases[i] = v)
      ranged == SelectSeq(arms, LAMBDA a : InRange(a.range, v))
  IN IF v[1] = "fn" THEN <<>> ELSE exact \o ranged

FirstArm(arms, default, s) ==
  IF arms = <<>> THEN Optional(default, s)
  ELSE Then(Condition(arms[1].cond, s), LAMBDA r :
            IF r.v THEN Value(arms[1].body, r.s) ELSE FirstArm(Tail(arms), default, r.s))

Stmt_Switch(e, arms, default, s) ==
  Then(Value(e, s), LAMBDA r :
    LET v == flatten(r.v, r.s.heap)
    IN FirstArm(ArmsFor(arms, v), default, r.s))

\* What a loop makes of the outcome of its body: go on, or end.
Leaves(r) == r.k \notin {"ok", "continue"}

Left(r) == IF r.k = "break" THEN Ok(r.v, r.s) ELSE r

\* `loop` has no condition, and one that is literally true is not evaluated.
Always(e) == e \in {<<"lit", Bool(TRUE)>>, <<"lit", Unit>>}

Stmt_While(e, body, s) ==
  Then(IF Always(e) THEN Ok(TRUE, s) ELSE Condition(e, s), LAMBDA c :
    IF ~c.v THEN Ok(Unit, c.s)
    ELSE Given(Block(body, c.s), LAMBDA r :
               IF Leaves(r) THEN Left(r) ELSE Stmt_While(e, body, r.s)))

\* `continue` starts the next round without looking at the condition.
Stmt_Do(body, e, until, s) ==
  Given(Block(body, s), LAMBDA r :
    CASE r.k = "continue" -> Stmt_Do(body, e, until, r.s)
      [] r.k = "ok" ->
           Then(Condition(e, r.s), LAMBDA c :
                IF c.v = until THEN Ok(Unit, c.s) ELSE Stmt_Do(body, e, until, c.s))
      [] OTHER -> Left(r))

\* The elements of an array, one after the other, into the loop's variables: through the lock
\* of a shared one.
StoreInto(s, i, v) ==
  IF is_shared(s.scope[i].value) THEN [s EXCEPT !.heap[s.scope[i].value[2]] = v]
  ELSE [s EXCEPT !.scope[i].value = v]

Rounds(items, n, counter, i, body, s) ==
  IF items = <<>> THEN Ok(Unit, s)
  ELSE LET counted == IF counter THEN StoreInto(s, i - 1, Num(n)) ELSE s
       IN Given(Block(body, StoreInto(counted, i, items[1])), LAMBDA r :
                IF Leaves(r) THEN Left(r) ELSE Rounds(Tail(items), n + 1, counter, i, body, r.s))

Stmt_For(name, counter, e, body, s) ==
  Then(Value(e, s), LAMBDA r :
    LET items == flatten(r.v, r.s.heap)
        named == IF counter = <<>> THEN r.s ELSE push_entry(r.s, counter[1], FALSE, Num(0))
        inside == push_entry(named, name, FALSE, Unit)
    IN IF items[1] # "array" THEN Fails("for", r.s)
       ELSE Given(Rounds(items[2], 0, counter # <<>>, Len(inside.scope), body, inside), LAMBDA q :
                  [q EXCEPT !.s = rewind(@, Len(s.scope))]))

\* A jump passes; an error is caught, and `throw ()` in the catch block raises it again.
Stmt_TryCatch(body, name, branch, s) ==
  Given(Block(body, s), LAMBDA r :
    IF r.k # "err" THEN r
    ELSE LET inside == IF name = <<>> THEN r.s ELSE push_entry(r.s, name[1], FALSE, ErrValue(r.v))
         IN Given(Block(branch, inside), LAMBDA q :
              LET out == [q EXCEPT !.s = rewind(@, Len(r.s.scope))]
              IN CASE q.k = "ok" -> Ok(Unit, out.s)
                   [] q.k = "err" /\ Rethrows(q.v) -> [out EXCEPT !.v = r.v]
                   [] OTHER -> out))

Stmt_Share(names, s) ==
  LET i == search(s.scope, names[1])
  IN CASE names = <<>> -> Ok(Unit, s)
       [] names # <<>> /\ i = 0 -> Fails("variable", s)
       [] OTHER -> Stmt_Share(Tail(names), Shared(s, i))

eval_stmt(t, s) ==
  CASE t[1] = "noop" -> Ok(Unit, s)
    [] t[1] = "expr" -> Then(Value(t[2], s), LAMBDA r : Flattened(r))
    [] t[1] = "block" -> Block(t[2], s)
    [] t[1] = "fncall" -> eval_fn_call_expr(t[2], t[3], s)
    [] t[1] = "assign" -> Stmt_Assignment(t[2], t[3], t[4], s)
    [] t[1] = "let" -> Stmt_Var(t[2], t[3], t[4], t[5], s)
    [] t[1] = "if" ->
         Then(Condition(t[2], s), LAMBDA c : Block(IF c.v THEN t[3] ELSE t[4], c.s))
    [] t[1] = "switch" -> Stmt_Switch(t[2], t[3], t[4], s)
    [] t[1] = "while" -> Stmt_While(t[2], t[3], s)
    [] t[1] = "do" -> Stmt_Do(t[2], t[3], t[4], s)
    [] t[1] = "for" -> Stmt_For(t[2], t[3], t[4], t[5], s)
    [] t[1] = "break" -> Then(Optional(t[2], s), LAMBDA r : Jump("break", r.v, r.s))
    [] t[1] = "continue" -> Jump("continue", Unit, s)
    [] t[1] = "try" -> Stmt_TryCatch(t[2], t[3], t[4], s)
    [] t[1] = "throw" ->
         Then(Optional(t[2], s), LAMBDA r : Jump("err", Err("runtime", flatten(r.v, r.s.heap)), r.s))
    [] t[1] = "return" ->
         Then(Optional(t[2], s), LAMBDA r : Jump("return", flatten(r.v, r.s.heap), r.s))
    [] OTHER -> Stmt_Share(t[2], s)

\* The value of a block is that of its last statement; its variables go.  (Those of a program
\* stay: it is evaluated statement by statement.)
InOrder(b, s) ==
  IF Len(b) = 1 THEN Evaluate(b[1], s)
  ELSE Then(Evaluate(b[1], s), LAMBDA r : InOrder(Tail(b), r.s))

eval_stmt_block(b, s) ==
  IF b = <<>> THEN Ok(Unit, s)
  ELSE Given(InOrder(b, s), LAMBDA r : [r EXCEPT !.s = rewind(@, Len(s.scope))])

Walk(kind, t, s) ==
  CASE kind = "expr" -> eval_expr(t, s)
    [] kind = "stmt" -> eval_stmt(t, s)
    [] OTHER -> eval_stmt_block(t, s)

\* What other modules evaluate: a statement, a block or an expression.
Eval(kind, t, s) == Walk(kind, t, s)
=============================================================================
