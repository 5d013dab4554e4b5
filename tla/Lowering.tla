------------------------------ MODULE Lowering ------------------------------
(* The Grain compiler on whole programs (grain/compile/mod.rs): what it emits for
   each expression and statement, and the shortcuts it takes while emitting:
   operands folded into operators, branches into comparisons, values nobody
   wants, jumps to jumps.

   A constant, a chain, a switch table or a piece of syntax left to the tree
   walker is written into its instruction instead of into a pool.  Size checks
   and debugger steps are left out.                                          *)
EXTENDS Script, FiniteSetsExt

\* `rotates`: is the test of a `while` put after its body?
NewLowering(rotate_while) ==
  [code |-> <<>>, slots |-> <<>>, iters |-> 0, handlers |-> 0, loops |-> <<>>, patched |-> 1, ok |-> TRUE,
   rotates |-> rotate_while]

here(l) == Len(l.code) + 1

emit(l, ops) == [l EXCEPT !.code = @ \o ops]

Op(name) == <<[op |-> name]>>

Const(v) ==
  CASE v = Unit -> Op("Unit")
    [] v[1] = "bool" -> <<[op |-> "Bool", v |-> v]>>
    [] OTHER -> <<[op |-> "Const", v |-> v]>>

LoadLocal(slot) == <<[op |-> "LoadLocal", slot |-> slot]>>

\* A jump to be patched has the target 0.
JumpTo(target) == <<[op |-> "Jump", target |-> target]>>

If(op, target) == <<[op |-> op, target |-> target]>>

\* Slots::resolve: the innermost local of that name; 0 when there is none.
resolve(l, name) ==
  LET found == {i \in DOMAIN l.slots : l.slots[i] = name} IN IF found = {} THEN 0 ELSE Max(found)

declare(l, name) == [l EXCEPT !.slots = Append(@, name)]

depth(l) == Len(l.slots)

\* A name that is no local is a variable unless the script has a function of that name.
is_variable_name(name) == name \notin DOMAIN Functions

-----------------------------------------------------------------------------
note_target(l, target) == IF target = 0 THEN l ELSE [l EXCEPT !.patched = Max({@, target})]

\* Where a patch goes: the branch of an operator, or the jump itself.
Retarget(ins, target) ==
  IF "branch" \in DOMAIN ins THEN [ins EXCEPT !.branch[1] = target] ELSE [ins EXCEPT !.target = target]

patch_to(l, sites, target) ==
  IF sites = {} THEN l
  ELSE note_target([l EXCEPT !.code = FoldSet(LAMBDA i, c : [c EXCEPT ![i] = Retarget(@, target)], @, sites)],
                   target)

patch_here(l, sites) == patch_to(l, sites, here(l))

\* Mutant: a Unit that a jump arrives at is dropped as well.
drop_trailing_unit_any(l) == l.code # <<>> /\ Last(l.code).op = "Unit"

drop_trailing_unit(l) ==
  /\ l.code # <<>>
  /\ Last(l.code).op = "Unit"
  /\ l.patched < Len(l.code)

discard_trailing_chain(l) ==
  /\ l.code # <<>>
  /\ Last(l.code).op = "Chain"
  /\ ~Last(l.code).assigns
  /\ l.patched < Len(l.code)

discard_value(l) ==
  CASE drop_trailing_unit(l) -> [l EXCEPT !.code = Front(@)]
    [] ~drop_trailing_unit(l) /\ discard_trailing_chain(l) -> [l EXCEPT !.code[Len(l.code)].discards = TRUE]
    [] OTHER -> emit(l, Op("Pop"))

unwind_to(l, n) ==
  IF depth(l) > n
  THEN [emit(l, <<[op |-> "UnwindTo", depth |-> n]>>) EXCEPT !.slots = SubSeq(@, 1, n)]
  ELSE l

\* An operand that is one local or one constant can be named by the instruction that takes it.
Operand(ins) ==
  CASE ins.op = "LoadLocal" -> <<"local", ins.slot>>
    [] ins.op = "Const" -> <<"const", ins.v>>
    [] OTHER -> <<>>

\* fold_pushed_operand: the operand pushed since `mark`, which is then taken off the code.
Folded(l, mark) ==
  IF Len(l.code) = mark + 1 THEN Operand(Last(l.code)) ELSE <<>>

cut(l, mark) == [l EXCEPT !.code = SubSeq(@, 1, mark)]

\* fold_branch: the condition's own operator takes the branch, unless something jumps past it.
fold_branch(l, e, when) ==
  /\ e[1] = "call" /\ e[2] \in Operators
  /\ l.patched <= Len(l.code)
  /\ \/ Last(l.code).op = "BinOpFrom"
     \/ ~when /\ Last(l.code).op \in {"BinOp", "UnOp"}
  /\ Last(l.code).branch[1] = -1

\* The code with a branch to `target` on the value of e being `when`; its site is the last one.
branch_on(l, e, when, target) ==
  IF fold_branch(l, e, when)
  THEN note_target([l EXCEPT !.code[Len(l.code)].branch = <<target, when>>], target)
  ELSE LET new == emit(l, If(IF when THEN "JumpIfTrue" ELSE "JumpIfFalse", target))
       IN IF when THEN note_target(new, target) ELSE new

-----------------------------------------------------------------------------
\* Mutant: a jump out of a `try` leaves its handler armed.
pop_handlers_none(l, floor) == l

pop_handlers(l, floor) == emit(l, [i \in 1..(l.handlers - floor) |-> [op |-> "PopHandler"]])

\* The value of a break lies on top of the iterators that it drops.
drop_iterators(l, floor, covered) ==
  emit(l, FlattenSeq([i \in 1..(l.iters - floor) |->
            (IF covered THEN <<[op |-> "Rotate", under |-> 1]>> ELSE <<>>) \o Op("IterDrop")]))

Loop(l, target, break_depth, owns) ==
  [target |-> target, break_depth |-> break_depth, continue_depth |-> depth(l), iters |-> l.iters,
   handlers |-> l.handlers, owns |-> owns, breaks |-> {}, continues |-> {}]

begin_loop(l, target) == [l EXCEPT !.loops = Append(@, Loop(l, target, depth(l), FALSE))]

begin_for(l, outside) == [l EXCEPT !.loops = Append(@, Loop(l, 0, outside, TRUE))]

end_loop(l) == [l EXCEPT !.loops = Front(@)]

\* A residual: an expression, or a statement as a block of its own.
EvalAst(l, t) == emit(l, <<[op |-> "EvalAst", tree |-> t]>>)

-----------------------------------------------------------------------------
RECURSIVE Lower(_, _, _, _), expressions(_, _), in_order(_, _, _), short_circuit(_, _, _, _), coalesce(_, _, _), elements(_, _)

\* The compiler calls itself for an expression, for a statement and for a block, of which the
\* value or only the effect is wanted.
expression(l, e) == Lower("expr", l, e, "Value")

statement_wanting(l, t, wants) == Lower("stmt", l, t, wants)

block_wanting(l, b, wants) == Lower("block", l, b, wants)

expressions(l, es) ==
  IF es = <<>> THEN l ELSE Given(expression(l, es[1]), LAMBDA l1 : expressions(l1, Tail(es)))

\* The subject of `call`, `curry` and `is_shared` is loaded as it is, shared or not.
unflattened(l, e) ==
  CASE e[1] = "var" /\ resolve(l, e[2]) > 0 -> emit(l, <<[op |-> "LoadShared", slot |-> resolve(l, e[2])]>>)
    [] e[1] = "var" /\ resolve(l, e[2]) = 0 /\ is_variable_name(e[2]) ->
         emit(l, <<[op |-> "LoadSharedNamed", name |-> e[2]]>>)
    [] e[1] = "this" -> emit(l, Op("LoadThisShared"))
    [] OTHER -> expression(l, e)

\* What a call changes: a local, a variable by name, the receiver, or nothing.
receiver(l, e) ==
  CASE e[1] = "this" -> <<"this">>
    [] e[1] = "var" /\ resolve(l, e[2]) > 0 -> <<"local", resolve(l, e[2])>>
    [] e[1] = "var" /\ resolve(l, e[2]) = 0 /\ is_variable_name(e[2]) -> <<"named", e[2]>>
    [] OTHER -> <<>>

CallPtr(l, argc, method, of) ==
  emit(l, <<[op |-> "CallFnPtr", argc |-> argc, method |-> method, receiver |-> of]>>)

\* fn_ptr_call: the calls that are part of the language.
Syntactic == {"is_shared", "Fn", "curry", "call"}

fn_ptr_call(name, args) ==
  \/ name \in {"is_shared", "Fn"} /\ Len(args) = 1
  \/ name = "curry" /\ Len(args) > 1
  \/ name = "call" /\ Len(args) >= 1

RECURSIVE unflattened_all(_, _)

unflattened_all(l, es) ==
  IF es = <<>> THEN l ELSE Given(unflattened(l, es[1]), LAMBDA l1 : unflattened_all(l1, Tail(es)))

lower_fn_ptr_call(l, name, args) ==
  CASE name = "is_shared" -> emit(unflattened(l, args[1]), Op("IsShared"))
    [] name = "Fn" -> emit(expression(l, args[1]), Op("MakeFnPtr"))
    [] name = "curry" ->
         Given(expression(l, args[1]), LAMBDA l1 :
               emit(unflattened_all(l1, Tail(args)), <<[op |-> "Curry", argc |-> Len(args) - 1]>>))
    [] OTHER -> CallPtr(expressions(l, args), Len(args) - 1, FALSE, <<>>)

\* A call whose first argument is a variable: the others come first, then the variable.
lower_call_ref(l, name, args, of) ==
  LET argc  == Len(args)
      this  == IF of = <<"this">> THEN emit(l, Op("LoadThis")) ELSE l
      rest  == expressions(this, Tail(args))
      first == IF of[1] # "named" THEN rest
               ELSE emit(rest, <<[op |-> "LoadNamed", name |-> of[2]]>> \o
                               (IF argc > 1 THEN <<[op |-> "Rotate", under |-> argc - 1]>> ELSE <<>>))
  IN emit(first, <<[op |-> "CallRef", name |-> name, argc |-> argc, receiver |-> of]>>)

\* An operator names the operands that are one local or constant: both, the right one, or none.
lower_operator(l, name, args) ==
  Given(expression(l, args[1]), LAMBDA lhs :
  Given(IF Len(args) = 1 THEN lhs ELSE expression(lhs, args[2]), LAMBDA all :
    LET left == Folded(lhs, Len(l.code))
        right == Folded(all, Len(lhs.code))
        both == right # <<>> /\ left # <<>> /\ left[1] = "local"
    IN CASE Len(args) = 1 -> emit(lhs, <<[op |-> "UnOp", name |-> name, branch |-> <<-1, FALSE>>]>>)
         [] Len(args) = 2 /\ both ->
              emit(cut(all, Len(l.code)),
                   <<[op |-> "BinOpFrom", name |-> name, lhs |-> left, rhs |-> right, branch |-> <<-1, FALSE>>]>>)
         [] OTHER ->
              emit(IF right = <<>> THEN all ELSE cut(all, Len(lhs.code)),
                   <<[op |-> "BinOp", name |-> name, rhs |-> right, branch |-> <<-1, FALSE>>]>>)))

lower_call(l, name, args) ==
  LET of == IF name \in Operators \/ args = <<>> THEN <<>> ELSE receiver(l, args[1])
  IN CASE name \in Operators -> lower_operator(l, name, args)
       [] of # <<>> -> lower_call_ref(l, name, args, of)
       [] OTHER -> emit(expressions(l, args), <<[op |-> "Call", name |-> name, argc |-> Len(args)]>>)

-----------------------------------------------------------------------------
\* A literal can wait: nothing that is evaluated before it changes it.
is_one_pushed_value(e) == e[1] = "lit"

chain_root(l, root) ==
  CASE root[1] = "this" -> <<"this">>
    [] root[1] = "var" /\ resolve(l, root[2]) > 0 -> <<"local", resolve(l, root[2])>>
    [] root[1] = "var" /\ resolve(l, root[2]) = 0 /\ is_variable_name(root[2]) -> <<"named", root[2]>>
    [] root[1] = "var" -> <<"none">>
    [] OTHER -> <<"temp">>

\* The steps as they are in the chain: each knows how many operands it takes.
chain_step(step) ==
  [kind |-> step[1], name |-> IF step[1] = "idx" THEN "" ELSE step[2], argc |-> Len(StepExprs(step)),
   elvis |-> Elvis(step)]

\* The value to assign, which is evaluated before the operands, waits in a local of its own.
stash_value(l, value) ==
  Given(expression(emit(declare(l, "$VALUE"),
                        Op("Unit") \o <<[op |-> "DeclareLocal", name |-> "$VALUE", const |-> FALSE]>>),
                   value), LAMBDA l1 :
        emit(l1, <<[op |-> "StoreLocal", slot |-> depth(l) + 1, const |-> FALSE]>>))

\* An index of a local can be named by the instruction, and then so can a constant assigned:
\* `mark` and `end` are where the code of the index lies.
indexed(l, ins, mark, end) ==
  LET index == IF Len(l.code) <= end + 1 /\ end = mark + 1 THEN Operand(l.code[end]) ELSE <<>>
      after == [l EXCEPT !.code = SubSeq(@, 1, mark) \o SubSeq(@, end + 1, Len(@))]
      last == Last(after.code)
      named == /\ index # <<>> /\ ins.assigns
               /\ Len(after.code) = end /\ after.patched <= Len(after.code)
               /\ last.op \in {"Const", "Bool", "Unit"}
  IN CASE index = <<>> -> emit(l, <<ins>>)
       [] index # <<>> /\ ~named -> emit(after, <<[ins EXCEPT !.index = index]>>)
       [] OTHER -> emit([after EXCEPT !.code = Front(@)],
                        <<[ins EXCEPT !.index = index,
                                      !.value = <<IF last.op = "Unit" THEN Unit ELSE last.v>>]>>)

\* A chain: the operands of all steps, the root if it has no place of its own, and the value to
\* assign.
chain(l, root, steps, assigns, op, value) ==
  LET of == chain_root(l, root)
      between == of = <<"temp">> \/ ArgExprs(steps) # <<>>
      stashed == assigns /\ between /\ ~is_one_pushed_value(value)
      specialised == of[1] = "local" /\ Len(steps) = 1 /\ steps[1][1] = "idx" /\ ~Elvis(steps[1])
      ins == [op |-> CASE specialised /\ assigns -> "IndexSet" [] specialised /\ ~assigns -> "IndexGet" [] OTHER -> "Chain",
              root |-> of, steps |-> [i \in DOMAIN steps |-> chain_step(steps[i])], assigns |-> assigns,
              aop |-> op, index |-> <<>>, value |-> <<>>, discards |-> FALSE]
  IN IF of = <<"none">> \/ \E i \in DOMAIN steps : steps[i][1] = "method" /\ steps[i][2] \in Syntactic
     THEN [l EXCEPT !.ok = FALSE]
     ELSE Given(IF stashed THEN stash_value(l, value) ELSE l, LAMBDA l1 :
          Given(expressions(l1, ArgExprs(steps)), LAMBDA l2 :
          Given(IF of = <<"temp">> THEN expression(l2, root) ELSE l2, LAMBDA l3 :
          Given(CASE stashed -> emit(l3, LoadLocal(depth(l) + 1))
                  [] assigns /\ ~stashed -> expression(l3, value)
                  [] OTHER -> l3, LAMBDA l4 :
          Given(unwind_to(IF specialised THEN indexed(l4, ins, Len(l.code), Len(l2.code)) ELSE emit(l4, <<ins>>),
                          depth(l)), LAMBDA l5 :
                IF assigns THEN emit(l5, Op("Unit")) ELSE l5)))))

\* A chain that cannot be lowered is left to the tree walker.
OrResidual(l, new, t) == Given(new, LAMBDA n : IF n.ok THEN n ELSE EvalAst(l, t))

-----------------------------------------------------------------------------
short_circuit(l, es, stop, sites) ==
  IF es = <<>>
  THEN LET l1 == emit(l, Const(Bool(~stop)) \o JumpTo(0))
           l2 == patch_here(l1, sites)
       IN patch_here(emit(l2, Const(Bool(stop))), {Len(l.code) + 2})
  ELSE Given(expression(l, es[1]), LAMBDA l1 :
       Given(IF stop THEN emit(l1, If("JumpIfTrue", 0)) ELSE branch_on(l1, es[1], FALSE, 0), LAMBDA l2 :
             short_circuit(l2, Tail(es), stop, sites \cup {Len(l2.code)})))

coalesce(l, es, sites) ==
  Given(expression(l, es[1]), LAMBDA l1 :
    IF Len(es) = 1 THEN patch_here(l1, sites)
    ELSE Given(emit(l1, If("SkipIfNotUnit", 0) \o Op("Pop")), LAMBDA l2 :
               coalesce(l2, Tail(es), sites \cup {Len(l1.code) + 1})))

\* The entries of a map, each after its key.
elements(l, entries) ==
  IF entries = <<>> THEN l
  ELSE Given(expression(emit(l, Const(Str(entries[1][1]))), entries[1][2]), LAMBDA l1 : elements(l1, Tail(entries)))

\* A chain that ends in `call` or `curry` is a call of its own.
is_ptr_method(e) == Len(e[3]) = 1 /\ e[3][1][1] = "method" /\ e[3][1][2] \in {"call", "curry"}

lower_ptr_method(l, root, name, args) ==
  LET of == receiver(l, root)
      rooted == IF of = <<>> THEN expression(l, root) ELSE unflattened(l, root)
  IN Given(rooted, LAMBDA l1 :
       IF name = "call" THEN CallPtr(expressions(l1, args), Len(args), TRUE, of)
       ELSE emit(expressions(l1, args), <<[op |-> "Curry", argc |-> Len(args)]>>))

lower_expression(l, e) ==
  CASE e[1] = "lit" /\ e[2][1] # "fn" -> emit(l, Const(e[2]))
    [] e[1] = "lit" /\ e[2][1] = "fn" -> emit(l, <<[op |-> "MakeClosure", name |-> e[2][2].name]>>)
    [] e[1] = "closure" -> emit(l, <<[op |-> "MakeClosure", name |-> e[2]]>>)
    [] e[1] = "this" -> emit(l, Op("LoadThis"))
    [] e[1] = "var" /\ resolve(l, e[2]) > 0 -> emit(l, LoadLocal(resolve(l, e[2])))
    [] e[1] = "var" /\ resolve(l, e[2]) = 0 /\ is_variable_name(e[2]) ->
         emit(l, <<[op |-> "LoadNamed", name |-> e[2]]>>)
    [] e[1] = "var" -> EvalAst(l, e)
    [] e[1] = "and" -> short_circuit(l, e[2], FALSE, {})
    [] e[1] = "or" -> short_circuit(l, e[2], TRUE, {})
    [] e[1] = "coalesce" -> coalesce(l, e[2], {})
    [] e[1] = "call" /\ fn_ptr_call(e[2], e[3]) -> lower_fn_ptr_call(l, e[2], e[3])
    [] e[1] = "call" /\ ~fn_ptr_call(e[2], e[3]) -> lower_call(l, e[2], e[3])
    [] e[1] = "array" -> emit(expressions(l, e[2]), <<[op |-> "MakeArray", count |-> Len(e[2])]>>)
    [] e[1] = "map" ->
         emit(elements(emit(l, <<[op |-> "Const", v |-> Map(<<>>)]>>), e[2]), <<[op |-> "MakeMap", count |-> Len(e[2])]>>)
    [] e[1] = "chain" /\ is_ptr_method(e) -> lower_ptr_method(l, e[2], e[3][1][2], e[3][1][3])
    [] e[1] = "chain" -> OrResidual(l, chain(l, e[2], e[3], FALSE, "", <<>>), e)
    [] OTHER -> block_wanting(l, e[2], "Value")

-----------------------------------------------------------------------------
\* cases::split: the ranges of a switch cut into pieces that each belong to one list of arms:
\* the ends of the ranges as points, and what lies between two of them.
split(ranges) ==
  LET points == SetToSortSeq(UNION {{ranges[i].range[1], ranges[i].range[2]} : i \in DOMAIN ranges}, <)
      atoms == FlattenSeq([i \in DOMAIN points |->
                 <<<<points[i], points[i], TRUE>>>> \o
                 (IF i = Len(points) THEN <<>> ELSE <<<<points[i], points[i + 1], FALSE>>>>)])
      covers(r, atom) == IF atom[3] THEN InRange(r, Num(atom[1])) ELSE r[1] <= atom[1] /\ r[2] >= atom[2]
      blocks(atom) == [i \in DOMAIN SelectSeq(ranges, LAMBDA r : covers(r.range, atom)) |->
                         SelectSeq(ranges, LAMBDA r : covers(r.range, atom))[i].arm]
      add(out, atom) ==
        CASE out # <<>> /\ Last(out).blocks = blocks(atom) ->
               [out EXCEPT ![Len(out)].range = <<@[1], atom[2], atom[3]>>]
          [] OTHER -> Append(out, [range |-> atom, blocks |-> blocks(atom)])
  IN SelectSeq(FoldLeft(add, <<>>, atoms), LAMBDA p : p.blocks # <<>>)

RECURSIVE arm_chain(_, _, _, _), arm_chains(_, _, _, _), arm_bodies(_, _, _, _, _)

\* The conditions of one list of arms: `at` is where they begin, or the body to go to at once.
\* The jumps to bodies and to what comes after are collected.
arm_chain(l, arms, blocks, acc) ==
  LET cond == arms[blocks[1]].cond
      entered == IF acc.entry = <<>> THEN <<"at", here(l)>> ELSE acc.entry
      jump == [acc EXCEPT !.l = emit(l, JumpTo(0)), !.done = TRUE]
  IN CASE blocks = <<>> /\ acc.entry = <<>> -> [acc EXCEPT !.l = l, !.entry = <<"default", 0>>]
       [] blocks = <<>> /\ acc.entry # <<>> -> [jump EXCEPT !.fall = @ \cup {here(l)}]
       [] blocks # <<>> /\ cond = <<"lit", Bool(TRUE)>> /\ acc.entry = <<>> ->
            [acc EXCEPT !.l = l, !.entry = <<"body", blocks[1]>>]
       [] blocks # <<>> /\ cond = <<"lit", Bool(TRUE)>> /\ acc.entry # <<>> ->
            [jump EXCEPT !.bodies = @ \cup {<<here(l), blocks[1]>>}]
       [] blocks # <<>> /\ cond = <<"lit", Bool(FALSE)>> -> arm_chain(l, arms, Tail(blocks), acc)
       [] OTHER ->
            Given(emit(expression(l, cond), If("JumpIfTrue", 0)), LAMBDA l1 :
                  arm_chain(l1, arms, Tail(blocks),
                            [acc EXCEPT !.entry = entered, !.bodies = @ \cup {<<Len(l1.code), blocks[1]>>}]))

\* One such list after the other; equal lists are emitted once.
arm_chains(l, arms, lists, acc) ==
  CASE lists = <<>> -> [acc EXCEPT !.l = l]
    [] lists # <<>> /\ lists[1] \in DOMAIN acc.entries -> arm_chains(l, arms, Tail(lists), acc)
    [] OTHER ->
         Given(arm_chain(l, arms, lists[1], [acc EXCEPT !.entry = <<>>]), LAMBDA a :
               arm_chains(a.l, arms, Tail(lists), [a EXCEPT !.entries = (lists[1] :> a.entry) @@ @]))

expression_wanting(l, e, wants) ==
  CASE wants = "Effect" /\ e[1] = "stmt" -> block_wanting(l, e[2], "Effect")
    [] wants = "Effect" /\ e[1] # "stmt" -> Given(expression(l, e), LAMBDA l1 : discard_value(l1))
    [] OTHER -> expression(l, e)

\* The bodies that something leads to, in order; each but the default, as the last, jumps out.
arm_bodies(l, bodies, wanted, wants, acc) ==
  IF wanted = <<>> THEN [acc EXCEPT !.l = l]
  ELSE Given(expression_wanting(l, bodies[wanted[1]], wants), LAMBDA l1 :
         LET last == Len(wanted) = 1 /\ acc.default
             l2 == IF last THEN l1 ELSE emit(l1, JumpTo(0))
         IN arm_bodies(l2, bodies, Tail(wanted), wants,
                       [acc EXCEPT !.at = (wanted[1] :> here(l)) @@ @,
                                   !.ends = IF last THEN @ ELSE @ \cup {Len(l2.code)}]))

\* A switch: the table of values, the conditions of their arms, the table of ranges, theirs,
\* and the bodies.  A subject that is looked at twice waits in a local.
switch(l, e, arms, default, wants) ==
  LET values == FoldLeft(LAMBDA out, a : out \o SelectSeq(a.cases, LAMBDA v : \A i \in DOMAIN out : out[i] # v), <<>>, arms)
      armsOf(v) == SelectSeq([i \in DOMAIN arms |-> i], LAMBDA i : \E j \in DOMAIN arms[i].cases : arms[i].cases[j] = v)
      ranges == split([i \in DOMAIN SelectSeq([i \in DOMAIN arms |-> i], LAMBDA i : arms[i].range # <<>>) |->
                        LET k == SelectSeq([j \in DOMAIN arms |-> j], LAMBDA j : arms[j].range # <<>>)[i]
                        IN [arm |-> k, range |-> arms[k].range]])
      stash == ranges # <<>> \/ \E i \in DOMAIN arms : arms[i].cond[1] # "lit"
      slot == depth(l) + 1
      bodies == [i \in DOMAIN arms |-> arms[i].body] \o default
      none == [l |-> l, entry |-> <<>>, entries |-> <<>>, bodies |-> {}, fall |-> {}, done |-> FALSE]
      l1 == IF ~stash THEN expression(l, e)
            ELSE emit(expression(declare(l, "$SWITCH"), e),
                      <<[op |-> "DeclareLocal", name |-> "$SWITCH", const |-> FALSE]>> \o LoadLocal(slot))
      table == Len(l1.code) + 1
  IN Given(arm_chains(emit(l1, <<[op |-> "Switch", cases |-> <<>>, ranges |-> <<>>, default |-> 0]>>), arms,
                      [i \in DOMAIN values |-> armsOf(values[i])], none), LAMBDA a :
     LET l2 == IF stash
               THEN emit(a.l, LoadLocal(slot) \o <<[op |-> "Switch", cases |-> <<>>, ranges |-> <<>>, default |-> 0]>>)
               ELSE a.l
     IN Given(arm_chains(l2, arms, [i \in DOMAIN ranges |-> ranges[i].blocks],
                         [none EXCEPT !.bodies = a.bodies]), LAMBDA b :
        LET entered(ent) == {ent[x][2] : x \in {y \in DOMAIN ent : ent[y][1] = "body"}}
            wanted == {p[2] : p \in b.bodies} \cup entered(a.entries) \cup entered(b.entries)
                        \cup (IF default = <<>> THEN {} ELSE {Len(bodies)})
        IN Given(arm_bodies(b.l, bodies, SetToSortSeq(wanted, <), wants,
                            [l |-> b.l, at |-> <<>>, ends |-> {}, default |-> default # <<>>]), LAMBDA c :
           LET default_at == IF default # <<>> THEN c.at[Len(bodies)] ELSE here(c.l)
               fallback == IF stash THEN here(a.l) ELSE default_at
               goes(entry, fb) == CASE entry[1] = "body" -> c.at[entry[2]]
                                    [] entry[1] = "at" -> entry[2]
                                    [] OTHER -> fb
               l3 == IF default = <<>> /\ wants = "Value" THEN emit(c.l, Op("Unit")) ELSE c.l
               l4 == unwind_to(l3, depth(l))
               l5 == patch_to(patch_to(patch_to(l4, c.ends, here(l3)), a.fall, fallback), b.fall, default_at)
               l6 == FoldLeft(LAMBDA m, p : patch_to(m, {p[1]}, c.at[p[2]]), l5, SetToSeq(b.bodies))
               l7 == [l6 EXCEPT !.code[table].cases = [i \in DOMAIN values |->
                                                         <<values[i], goes(a.entries[armsOf(values[i])], fallback)>>],
                                !.code[table].default = fallback]
           IN IF ~stash THEN l7
              ELSE [l7 EXCEPT !.code[here(a.l) + 1].ranges = [i \in DOMAIN ranges |->
                                  <<ranges[i].range, goes(b.entries[ranges[i].blocks], default_at)>>],
                              !.code[here(a.l) + 1].default = default_at])))

-----------------------------------------------------------------------------
in_order(l, b, wants) ==
  IF Len(b) = 1 THEN statement_wanting(l, b[1], wants)
  ELSE Given(statement_wanting(l, b[1], "Effect"), LAMBDA l1 : in_order(l1, Tail(b), wants))

lower_block(l, b, wants) ==
  CASE b = <<>> /\ wants = "Value" -> emit(l, Op("Unit"))
    [] b = <<>> /\ wants = "Effect" -> l
    [] OTHER -> Given(in_order(l, b, wants), LAMBDA l1 : unwind_to(l1, depth(l)))

if_statement(l, e, body, branch, wants) ==
  Given(expression(l, e), LAMBDA l0 :
  Given(branch_on(l0, e, FALSE, 0), LAMBDA l1 :
  Given(block_wanting(l1, body, wants), LAMBDA l2 :
    IF wants = "Effect" /\ branch = <<>> THEN patch_here(l2, {Len(l1.code)})
    ELSE Given(patch_here(emit(l2, JumpTo(0)), {Len(l1.code)}), LAMBDA l3 :
         Given(block_wanting(l3, branch, wants), LAMBDA l4 : patch_here(l4, {Len(l3.code)}))))))

\* The right-hand side, then the assignment, which names an operand that is one push.
assignment(l, lhs, op, e) ==
  LET slot == resolve(l, lhs[2])
      into(l1, src) == emit(IF src = <<>> THEN l1 ELSE cut(l1, Len(l.code)),
                            <<[op |-> "AssignLocal", slot |-> slot, aop |-> op, src |-> src]>> \o Op("Unit"))
  IN CASE lhs[1] = "this" ->
            emit(expression(emit(l, Op("RequireThis")), e), <<[op |-> "AssignThis", aop |-> op]>> \o Op("Unit"))
       [] lhs[1] = "var" /\ slot > 0 ->
            Given(expression(l, e), LAMBDA l1 : into(l1, Folded(l1, Len(l.code))))
       [] lhs[1] = "var" /\ slot = 0 /\ is_variable_name(lhs[2]) ->
            emit(expression(l, e), <<[op |-> "AssignNamed", name |-> lhs[2], aop |-> op]>> \o Op("Unit"))
       [] lhs[1] = "var" /\ slot = 0 /\ ~is_variable_name(lhs[2]) ->
            EvalAst(l, <<"stmt", <<<<"assign", lhs, op, e>>>>>>)
       [] OTHER -> OrResidual(l, chain(l, lhs[2], lhs[3], TRUE, op, e), <<"stmt", <<<<"assign", lhs, op, e>>>>>>)

share(l, name) ==
  IF resolve(l, name) > 0 THEN emit(l, <<[op |-> "Share", slot |-> resolve(l, name)]>>)
  ELSE emit(l, <<[op |-> "ShareNamed", name |-> name]>>)

try_catch(l, body, name, branch) ==
  LET l1 == [emit(l, <<[op |-> "PushHandler", target |-> 0, name |-> name]>>) EXCEPT !.handlers = @ + 1]
  IN Given(block_wanting(l1, body, "Value"), LAMBDA l2 :
     Given(patch_here(emit(l2, Op("PopHandler") \o JumpTo(0)), {here(l)}), LAMBDA l3 :
     Given(block_wanting(IF name = <<>> THEN l3 ELSE declare(l3, name[1]), branch, "Value"), LAMBDA l4 :
     Given(unwind_to(emit(l4, Op("Pop")), depth(l)), LAMBDA l5 :
           patch_here([emit(l5, Op("PopHandler") \o Op("Unit")) EXCEPT !.handlers = l.handlers], {Len(l3.code)})))))

\* A loop's variables are declared once; its body is entered with the next element in them.
loop_vars(l, names) ==
  FoldLeft(LAMBDA m, n : emit(declare(m, n), Op("Unit") \o <<[op |-> "DeclareLocal", name |-> n, const |-> FALSE]>>),
           l, names)

for_loop(l, name, counter, e, body) ==
  Given(loop_vars([emit(expression(l, e), Op("IterInit")) EXCEPT !.iters = @ + 1], Append(counter, name)), LAMBDA l2 :
    LET slot == depth(l2)
        header == here(l2)
        next == IF counter = <<>> THEN [op |-> "IterNextStore", target |-> header + 4, slot |-> slot]
                ELSE [op |-> "IterNext", target |-> header + 4]
        stores == IF counter = <<>> THEN <<>>
                  ELSE <<[op |-> "StoreShared", slot |-> slot], [op |-> "StoreShared", slot |-> slot - 1]>>
        l3 == note_target(emit(l2, <<next, [op |-> "UnwindTo", depth |-> depth(l)]>> \o Op("Unit") \o JumpTo(0)),
                          header + 4)
    IN Given(begin_for(emit(l3, stores), depth(l)), LAMBDA l4 :
       Given(block_wanting(l4, body, "Effect"), LAMBDA l5 :
         LET loop == Last(l5.loops)
             l6 == end_loop(emit(l5, JumpTo(header)))
             l7 == patch_here(patch_to(l6, loop.continues, header), loop.breaks \cup {header + 3})
         IN [l7 EXCEPT !.iters = l.iters, !.slots = l.slots])))

\* The end of `while` and `do`: nothing is the value of a loop that was not broken off.
after_loop(l, breaks) == patch_here(emit(l, Op("Unit") \o JumpTo(0)), breaks \cup {here(l) + 1})

while_loop(l, e, body) ==
  LET always == e \in {<<"lit", Bool(TRUE)>>, <<"lit", Unit>>}
      rotated == ~always /\ l.rotates
      top == IF rotated THEN here(l) + 1 ELSE here(l)
  IN Given(CASE rotated -> emit(l, JumpTo(0))
             [] ~rotated /\ ~always -> Given(expression(l, e), LAMBDA l0 : branch_on(l0, e, FALSE, 0))
             [] OTHER -> l, LAMBDA l1 :
     Given(block_wanting(begin_loop(l1, IF rotated THEN 0 ELSE top), body, "Effect"), LAMBDA l2 :
       LET loop == Last(l2.loops)
           tested == expression(patch_here(l2, {Len(l1.code)}), e)
       IN Given(CASE rotated -> Given(tested, LAMBDA l3 :
                                  patch_to(end_loop(branch_on(l3, e, TRUE, top)), loop.continues, here(l2)))
                  [] ~rotated /\ ~always -> patch_here(end_loop(emit(l2, JumpTo(top))), {Len(l1.code)})
                  [] OTHER -> end_loop(emit(l2, JumpTo(top))), LAMBDA l4 : after_loop(l4, loop.breaks))))

do_loop(l, body, e, until) ==
  LET top == here(l)
  IN Given(block_wanting(begin_loop(l, top), body, "Effect"), LAMBDA l1 :
     Given(expression(end_loop(l1), e), LAMBDA l2 :
     Given(branch_on(l2, e, FALSE, IF until THEN top ELSE 0), LAMBDA l3 :
     Given(IF until THEN l3 ELSE patch_here(emit(l3, JumpTo(top)), {Len(l3.code)}), LAMBDA l4 :
           after_loop(l4, Last(l1.loops).breaks)))))

\* Leaving a loop: its handlers, the iterators inside of it and, for a break, its own.
break_loop(l, value, breaks) ==
  LET loop == Last(l.loops)
      n == Len(l.loops)
      keeps == IF breaks /\ loop.owns THEN loop.iters - 1 ELSE loop.iters
      out == <<[op |-> "UnwindTo", depth |-> IF breaks THEN loop.break_depth ELSE loop.continue_depth]>>
               \o JumpTo(IF breaks THEN 0 ELSE loop.target)
  IN Given(CASE ~breaks -> l [] breaks /\ value = <<>> -> emit(l, Op("Unit")) [] OTHER -> expression(l, value[1]),
           LAMBDA l1 :
     Given(emit(drop_iterators(pop_handlers(l1, loop.handlers), keeps, breaks), out), LAMBDA l2 :
           emit(CASE breaks -> [l2 EXCEPT !.loops[n].breaks = @ \cup {Len(l2.code)}]
                  [] ~breaks /\ loop.target = 0 -> [l2 EXCEPT !.loops[n].continues = @ \cup {Len(l2.code)}]
                  [] OTHER -> l2, Op("Unit"))))

ends_with(l, value, op) ==
  emit(IF value = <<>> THEN emit(l, Op("Unit")) ELSE expression(l, value[1]), Op(op) \o Op("Unit"))

lower_statement(l, t) ==
  CASE t[1] = "let" ->
         Given(expression(l, t[3]), LAMBDA l1 :
            IF t[5] THEN emit(l1, <<[op |-> "StoreLocal", slot |-> resolve(l1, t[2]), const |-> t[4]]>> \o Op("Unit"))
            ELSE emit(declare(l1, t[2]), <<[op |-> "DeclareLocal", name |-> t[2], const |-> t[4]]>> \o Op("Unit")))
    [] t[1] = "expr" -> expression(l, t[2])
    [] t[1] = "fncall" -> expression(l, <<"call", t[2], t[3]>>)
    [] t[1] = "assign" -> assignment(l, t[2], t[3], t[4])
    [] t[1] = "share" -> emit(FoldLeft(share, l, t[2]), Op("Unit"))
    [] t[1] = "block" -> block_wanting(l, t[2], "Value")
    [] t[1] = "try" -> try_catch(l, t[2], t[3], t[4])
    [] t[1] = "for" -> for_loop(l, t[2], t[3], t[4], t[5])
    [] t[1] = "switch" -> switch(l, t[2], t[3], t[4], "Value")
    [] t[1] = "if" -> if_statement(l, t[2], t[3], t[4], "Value")
    [] t[1] = "while" -> while_loop(l, t[2], t[3])
    [] t[1] = "do" -> do_loop(l, t[2], t[3], t[4])
    [] t[1] \in {"break", "continue"} -> break_loop(l, t[2], t[1] = "break")
    [] t[1] = "throw" -> ends_with(l, t[2], "Throw")
    [] t[1] = "return" -> ends_with(l, t[2], "Return")
    [] t[1] = "noop" -> EvalAst(l, <<"stmt", <<t>>>>)
    [] OTHER -> [l EXCEPT !.ok = FALSE]

lower_wanting(l, t, wants) ==
  CASE wants = "Effect" /\ t[1] = "block" -> block_wanting(l, t[2], "Effect")
    [] wants = "Effect" /\ t[1] = "if" -> if_statement(l, t[2], t[3], t[4], "Effect")
    [] wants = "Effect" /\ t[1] = "switch" -> switch(l, t[2], t[3], t[4], "Effect")
    [] OTHER -> Given(lower_statement(l, t), LAMBDA l1 : IF wants = "Effect" THEN discard_value(l1) ELSE l1)

Lower(kind, l, t, wants) ==
  CASE kind = "expr" -> lower_expression(l, t)
    [] kind = "stmt" -> lower_wanting(l, t, wants)
    [] OTHER -> lower_block(l, t, wants)

-----------------------------------------------------------------------------
RECURSIVE program(_, _, _), lower_functions(_, _)

\* The statements of a program, which marks where each begins, or of a function.
program(l, b, keeps_scope) ==
  LET l1 == IF keeps_scope THEN emit(l, Op("Checkpoint")) ELSE l
  IN CASE b = <<>> -> emit(l, Op("Unit") \o Op("Return"))
       [] Len(b) = 1 -> emit(statement_wanting(l1, b[1], "Value"), Op("Return"))
       [] OTHER -> Given(statement_wanting(l1, b[1], "Effect"), LAMBDA l2 : program(l2, Tail(b), keeps_scope))

\* Some order, the same for every program (SetToSeq would try all of them).
InOrder(names) == FoldSet(LAMBDA n, seq : Append(seq, n), <<>>, names)

\* The functions after the program, each with a scope of its own.
lower_functions(l, names) ==
  IF names = <<>> THEN [code |-> l.code, entry |-> <<>>]
  ELSE LET f == Functions[names[1]]
       IN Given(program([l EXCEPT !.slots = f.params, !.loops = <<>>], f.body, FALSE), LAMBDA l1 :
                LET rest == lower_functions(l1, Tail(names))
                IN [rest EXCEPT !.entry = (names[1] :> here(l)) @@ @])

RECURSIVE Arrive(_, _, _, _, _)

\* Where a jump that arrives at `at` ends, and how often it went backwards on the way.
Arrive(code, from, at, arrivals, n) ==
  LET back == IF at <= from THEN arrivals + 1 ELSE arrivals
  IN IF n > 1 /\ code[at].op = "Jump" /\ code[at].target # at
     THEN Arrive(code, at, code[at].target, back, n - 1)
     ELSE <<at, back>>

\* A jump to a jump goes where that one goes, unless it would then pass backwards more or less
\* often than before: that is where operations are counted.
threaded_target(code, site, target) ==
  LET end == Arrive(code, site, target, 0, Len(code))
  IN IF end[2] = (IF end[1] <= site THEN 1 ELSE 0) THEN end[1] ELSE target

Threads(ins) == ins.op # "PushHandler" /\ ("target" \in DOMAIN ins \/ ("branch" \in DOMAIN ins /\ ins.branch[1] > 0))

TargetOf(ins) == IF "branch" \in DOMAIN ins THEN ins.branch[1] ELSE ins.target

\* A jump ahead to a Return is one.
thread_jump(code, site) ==
  LET to == threaded_target(code, site, TargetOf(code[site]))
  IN IF code[site].op = "Jump" /\ to > site /\ code[to].op = "Return"
     THEN [code EXCEPT ![site] = [op |-> "Return"]]
     ELSE [code EXCEPT ![site] = Retarget(@, to)]

thread_jumps(code) ==
  FoldLeft(LAMBDA c, site : Given(c, LAMBDA now : thread_jump(now, site)), code,
           SelectSeq([i \in DOMAIN code |-> i], LAMBDA i : Threads(code[i])))

\* compile: the program, then the functions.  (A program with a statement that is never lowered,
\* such as an import or an export, is left to the tree walker as a whole and is none of these.)
compile(b, rotate_while) ==
  Given(program(NewLowering(rotate_while), b, TRUE), LAMBDA main :
  Given(lower_functions(main, InOrder(DOMAIN Functions)), LAMBDA p :
        [code |-> thread_jumps(p.code), entry |-> p.entry]))
=============================================================================
