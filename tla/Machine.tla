------------------------------ MODULE Machine -------------------------------
(* The Grain virtual machine on compiled programs (grain/vm/mod.rs): what each
   instruction does to the frame that runs it.

   Locals are the entries of the frame's scope above its base.  A call of a
   compiled function runs in a frame of its own, to its end, as the code's does:
   `execute` calls itself.  Operations are not counted and no limits are set.  *)
EXTENDS Script, FiniteSetsExt

\* The functions of the tree walker that a residual is left to.
W == INSTANCE Walker

\* A frame: where it is, its operands, its handlers, and the state it works on.
\* `floor`: where an error that leaves it unwinds the scope to.
GrainFrame(entry, base, s) ==
  [pc |-> entry, stack |-> <<>>, handlers |-> <<>>, s |-> s, base |-> base, floor |-> base,
   raised |-> <<>>, ended |-> FALSE, v |-> Unit]

Top(f) == Last(f.stack)

Operands(f, n) == SubSeq(f.stack, Len(f.stack) - n + 1, Len(f.stack))

truncate_stack(f, depth) == [f EXCEPT !.stack = SubSeq(@, 1, depth)]

Dropped(f, n) == truncate_stack(f, Len(f.stack) - n)

push(f, v) == [f EXCEPT !.stack = Append(@, v)]

advance(f) == [f EXCEPT !.pc = @ + 1]

transfer(f, target) == [f EXCEPT !.pc = target]

raise(f, err) == [f EXCEPT !.raised = <<err>>]

fails(f, e) == raise(f, Err(e, Unit))

\* Takes n operands off and pushes what a call or an evaluation came to.
Deliver(f, n, r) ==
  IF r.k = "ok" THEN advance(push([Dropped(f, n) EXCEPT !.s = r.s], r.v))
  ELSE raise([f EXCEPT !.s = r.s], r.v)

\* As Deliver, with nothing to push.
Complete(f, n, r) ==
  IF r.k = "ok" THEN advance([Dropped(f, n) EXCEPT !.s = r.s]) ELSE raise([f EXCEPT !.s = r.s], r.v)

Slot(f, slot) == f.base + slot

Local(f, slot) == flatten(f.s.scope[Slot(f, slot)].value, f.s.heap)

\* An operand that the instruction names.
operand_value(f, o) == IF o[1] = "local" THEN Local(f, o[2]) ELSE o[2]

-----------------------------------------------------------------------------
\* `store` into a place: a builtin operator, or the value itself.
store(op, old, rhs) == IF op = "" THEN <<rhs>> ELSE Builtin(op, old, rhs)

\* `place`: what is written goes into the cell of a shared entry.
Written(s, i, v) ==
  LET old == s.scope[i].value
  IN IF is_shared(old) THEN [s EXCEPT !.heap[old[2]] = v] ELSE [s EXCEPT !.scope[i].value = v]

\* assign_local and assign_named, once the entry is known.
assign_entry(i, op, rhs, s) ==
  LET x == store(op, flatten(s.scope[i].value, s.heap), rhs)
  IN CASE s.scope[i].ro -> Fails("constant", s)
       [] ~s.scope[i].ro /\ x = <<>> -> Fails("function", s)
       [] OTHER -> Ok(Unit, Written(s, i, x[1]))

assign_named(name, op, rhs, s) ==
  IF search(s.scope, name) = 0 THEN Fails("variable", s)
  ELSE assign_entry(search(s.scope, name), op, rhs, s)

assign_this(op, rhs, s) ==
  LET this == s.this[1]
      x == store(op, flatten(this, s.heap), rhs)
  IN CASE s.this = <<>> -> Fails("unbound", s)
       [] s.this # <<>> /\ x = <<>> -> Fails("function", s)
       [] s.this # <<>> /\ x # <<>> /\ is_shared(this) -> Ok(Unit, [s EXCEPT !.heap[this[2]] = x[1]])
       [] OTHER -> Ok(Unit, [s EXCEPT !.this = x])

load_named(name, flat, s) ==
  LET i == search(s.scope, name)
  IN IF i = 0 THEN Fails("variable", s)
     ELSE Ok(IF flat THEN flatten(s.scope[i].value, s.heap) ELSE s.scope[i].value, s)

share_named(name, s) ==
  IF search(s.scope, name) = 0 THEN Fails("variable", s) ELSE Ok(Unit, Shared(s, search(s.scope, name)))

-----------------------------------------------------------------------------
RECURSIVE dispatch(_, _), execute(_, _), Instructions(_, _, _), call_compiled_with_this(_, _, _, _, _), walk_chain(_, _, _, _, _, _)

\* call_engine: a function of the host's, with the first argument as it leaves it.
call_engine(name, args, s) ==
  LET found == Native(name, [i \in DOMAIN args |-> flatten(args[i], s.heap)])
      as(r, first) == [k |-> r.k, v |-> r.v, s |-> r.s, first |-> first]
  IN IF found = <<>> THEN as(Fails("function", s), IF args = <<>> THEN <<>> ELSE <<args[1]>>)
     ELSE as(Ok(found[1].v, [s EXCEPT !.log = @ \o found[1].log]), <<found[1].first>>)

\* A compiled function in a scope of its own.  The outcome has the receiver as it is left.
call_compiled_with_this(p, name, this, args, s) ==
  LET params == Functions[name].params
      inside == [s EXCEPT !.scope = [i \in DOMAIN args |-> Entry(params[i], FALSE, args[i])],
                          !.host = 0, !.this = this]
  IN Given(execute(p, GrainFrame(p.entry[name], 0, inside)), LAMBDA f :
       LET s1 == [f.s EXCEPT !.scope = s.scope, !.host = s.host, !.this = s.this]
       IN IF f.raised = <<>> THEN [k |-> "ok", v |-> f.v, s |-> s1, first |-> f.s.this]
          ELSE [k |-> "err", v |-> [f.raised[1] EXCEPT !.calls = @ + 1], s |-> s1, first |-> f.s.this])

\* call_syntactic_or_stacked
call_stacked(p, name, args, s) ==
  IF HasFn(name, Len(args)) THEN call_compiled_with_this(p, name, <<>>, args, s)
  ELSE call_engine(name, args, s)

\* call_by_reference: a native changes the variable itself, unless it is shared or constant.
\* The value of a variable by name is on the stack, that of a local is not.
call_by_reference(p, f, name, argc, of) ==
  LET s == f.s
      local == of[1] = "local"
      i == IF local THEN Slot(f, of[2]) ELSE search(s.scope, of[2])
      n == IF local THEN argc - 1 ELSE argc
      old == s.scope[i].value
      rest == Operands(f, argc - 1)
      byref == ~HasFn(name, argc) /\ i > 0 /\ ~is_shared(old) /\ ~s.scope[i].ro
      value == IF local THEN flatten(old, s.heap) ELSE Operands(f, argc)[1]
  IN IF ~byref THEN Deliver(f, n, call_stacked(p, name, <<value>> \o rest, s))
     ELSE Given(call_engine(name, <<old>> \o rest, s), LAMBDA r :
            Deliver(f, n, [r EXCEPT !.s = [@ EXCEPT !.scope[i].value = r.first[1]]]))

\* call_by_this: the same of the receiver, whose value is on the stack too.
call_by_this(p, f, name, argc) ==
  LET s == f.s
      byref == ~HasFn(name, argc) /\ s.this # <<>> /\ ~is_shared(s.this[1])
  IN IF ~byref THEN Deliver(f, argc, call_stacked(p, name, Operands(f, argc), s))
     ELSE Given(call_engine(name, s.this \o Operands(f, argc - 1), s), LAMBDA r :
            Deliver(f, argc, [r EXCEPT !.s = [@ EXCEPT !.this = r.first]]))

-----------------------------------------------------------------------------
\* return_receiver: the variable a method was called on takes the value it left.
return_receiver(f, of, v, s) ==
  LET i == CASE of # <<>> /\ of[1] = "local" -> Slot(f, of[2])
             [] of # <<>> /\ of[1] = "named" -> search(s.scope, of[2])
             [] OTHER -> 0
  IN CASE is_shared(v) -> s
       [] ~is_shared(v) /\ i > 0 -> IF s.scope[i].ro THEN s ELSE [s EXCEPT !.scope[i].value = v]
       [] ~is_shared(v) /\ of = <<"this">> -> [s EXCEPT !.this = <<v>>]
       [] OTHER -> s

\* call_fn_ptr: `method` calls on something that is no pointer bind it as the receiver.
call_fn_ptr(p, f, argc, method, of) ==
  LET s == f.s
      all == Operands(f, argc + 1)
      flat(i) == flatten(all[i], s.heap)
      bound == method /\ flat(1)[1] # "fn"
      at == IF bound THEN 2 ELSE 1
      isptr == at <= Len(all) /\ flat(at)[1] = "fn"
      ptr == flat(at)[2]
      args == ptr.curry \o SubSeq(all, at + 1, Len(all))
      this == IF bound THEN <<all[1]>> ELSE <<>>
      called == IF HasFn(ptr.name, Len(args)) THEN call_compiled_with_this(p, ptr.name, this, args, s)
                ELSE call_engine(ptr.name, this \o args, s)
  IN IF ~isptr THEN fails(f, "type")
     ELSE Given(called, LAMBDA r :
            Deliver(f, argc + 1,
                    IF ~bound THEN r
                    ELSE [r EXCEPT !.s = return_receiver(f, of, r.first[1], r.s)]))

-----------------------------------------------------------------------------
\* The value a chain starts from, and the chain's own operands on the stack.
chain_root(f, of) ==
  LET i == CASE of[1] = "local" -> Slot(f, of[2]) [] of[1] = "named" -> search(f.s.scope, of[2]) [] OTHER -> 0
  IN CASE of[1] = "this" -> IF f.s.this = <<>> THEN Fails("unbound", f.s) ELSE Ok([entry |-> 0, value |-> f.s.this[1]], f.s)
       [] of[1] \in {"local", "named"} ->
            IF i = 0 THEN Fails("variable", f.s) ELSE Ok([entry |-> i, value |-> f.s.scope[i].value], f.s)
       [] OTHER -> Ok([entry |-> 0, value |-> Unit], f.s)

Consumed(steps) == FoldLeft(LAMBDA n, t : n + t.argc, 0, steps)

Walked(k, v, s, at) == [k |-> k, v |-> v, s |-> s, at |-> at]

\* The rest of a chain, in the element of `at` that is at `place`: it is put back, unless it was
\* made up for a property that the map does not have.
into(p, steps, operands, at, place, kept, assign, s) ==
  Given(walk_chain(p, Tail(steps), operands, Element(at, place), assign, s), LAMBDA r :
        [r EXCEPT !.at = IF kept THEN WithElement(at, place, r.at) ELSE at])

\* An index that leads nowhere is no error when something is assigned to it: the missing index
\* setter is passed over (call_indexer_set).
index_by_reference(p, steps, operands, at, assign, s) ==
  LET where == ElementAt(at, flatten(operands[1], s.heap))
      last == Len(steps) = 1 /\ assign.value # <<>>
      kept == at[1] # "map" \/ where[2] \in DOMAIN at[2] \/ last
  IN CASE where[1] = "at" -> into(p, steps, Tail(operands), at, where[2], kept, assign, s)
       [] where[1] = "err" /\ last /\ where[2] = "indexing" -> Walked("ok", Unit, s, at)
       [] OTHER -> Walked("err", Err(where[2], Unit), s, at)

\* Only maps have properties here: a getter of another value is not there to be called.
walk_property(p, steps, operands, at, assign, s) ==
  LET where == PropertyAt(at, steps[1].name)
      last == Len(steps) = 1 /\ assign.value # <<>>
  IN IF where[1] = "at" THEN into(p, steps, operands, at, where[2], where[2] \in DOMAIN at[2] \/ last, assign, s)
     ELSE Walked("err", Err(where[2], Unit), s, at)

\* A method changes the value it is called on, and the chain goes on in what it returns.
walk_method(p, steps, operands, at, assign, s) ==
  LET step == steps[1]
      args == SubSeq(operands, 1, step.argc)
      rest == SubSeq(operands, step.argc + 1, Len(operands))
  IN Given(IF HasFn(step.name, step.argc) THEN call_compiled_with_this(p, step.name, <<at>>, args, s)
           ELSE call_engine(step.name, <<at>> \o args, s), LAMBDA q :
       IF q.k # "ok" THEN Walked(q.k, q.v, q.s, q.first[1])
       ELSE Given(walk_chain(p, Tail(steps), rest, flatten(q.v, q.s.heap), assign, q.s), LAMBDA r :
                  [r EXCEPT !.at = q.first[1]]))

\* One step of a chain and the rest: `at` is where it has come to, and is as the outcome says
\* afterwards.
walk_chain(p, steps, operands, at, assign, s) ==
  IF steps = <<>> THEN
    LET x == store(assign.op, at, assign.value[1])
    IN CASE assign.value = <<>> -> Walked("ok", at, s, at)
         [] assign.value # <<>> /\ x = <<>> -> Walked("err", Err("function", Unit), s, at)
         [] OTHER -> Walked("ok", Unit, s, x[1])
  ELSE IF steps[1].elvis /\ is_unit(at) THEN Walked("ok", Unit, s, at)
  ELSE CASE steps[1].kind = "idx" -> index_by_reference(p, steps, operands, at, assign, s)
         [] steps[1].kind = "prop" -> walk_property(p, steps, operands, at, assign, s)
         [] OTHER -> walk_method(p, steps, operands, at, assign, s)

\* run_chain_steps: the chain works on a copy of its root, which is put back afterwards, also
\* when a step fails.  Nothing can be assigned through a constant.
run_chain_steps(p, f, c) ==
  LET temp == c.root = <<"temp">>
      n == Consumed(c.steps)
      all == Operands(f, n + (IF temp THEN 1 ELSE 0) + (IF c.assigns THEN 1 ELSE 0))
      value == IF c.assigns THEN <<flatten(Last(all), f.s.heap)>> ELSE <<>>
  IN Given(chain_root(f, c.root), LAMBDA root :
     LET i    == root.v.entry
         from == IF temp THEN all[n + 1] ELSE root.v.value
     IN CASE root.k # "ok" -> root
          [] root.k = "ok" /\ c.assigns /\ i > 0 /\ f.s.scope[i].ro -> Fails("constant", f.s)
          [] OTHER ->
               Given(walk_chain(p, c.steps, SubSeq(all, 1, n), flatten(from, f.s.heap),
                                [op |-> c.aop, value |-> value], f.s), LAMBDA r :
                 [k |-> r.k, v |-> r.v,
                  s |-> CASE temp -> r.s
                          [] ~temp /\ is_shared(from) -> [r.s EXCEPT !.heap[from[2]] = r.at]
                          [] ~temp /\ ~is_shared(from) /\ i > 0 -> [r.s EXCEPT !.scope[i].value = r.at]
                          [] OTHER -> [r.s EXCEPT !.this = <<r.at>>]]))

ChainWidth(c) ==
  Consumed(c.steps) + (IF c.root = <<"temp">> THEN 1 ELSE 0) + (IF c.assigns THEN 1 ELSE 0)

eval_chain(p, f, c) ==
  Given(run_chain_steps(p, f, c), LAMBDA r :
        IF c.assigns \/ c.discards THEN Complete(f, ChainWidth(c), r) ELSE Deliver(f, ChainWidth(c), r))

-----------------------------------------------------------------------------
\* Indexing a local: an element of an array that is there is reached directly, and everything
\* else is left to the chain, with the operands it expects pushed first.
IndexOf(f, c, under) == IF c.index # <<>> THEN operand_value(f, c.index) ELSE f.stack[Len(f.stack) - under]

InArray(f, c, i) ==
  LET v == f.s.scope[Slot(f, c.root[2])].value
  IN i[1] = "int" /\ i[2] >= 0 /\ v[1] = "array" /\ i[2] < Len(v[2])

index_get(p, f, c) ==
  LET i == IndexOf(f, c, 0)
      at == Slot(f, c.root[2])
      named == c.index # <<>>
  IN IF InArray(f, c, i)
     THEN advance(push(IF named THEN f ELSE Dropped(f, 1), f.s.scope[at].value[2][i[2] + 1]))
     ELSE eval_chain(p, IF named THEN push(f, i) ELSE f, c)

\* The chain finds the index under the value.
index_declined(p, f, c, index, rhs) == eval_chain(p, [f EXCEPT !.stack = @ \o index \o <<rhs>>], c)

index_set(p, f, c) ==
  LET named == c.index # <<>>
      valued == c.value # <<>>
      i == IndexOf(f, c, IF valued THEN 0 ELSE 1)
      rhs == IF valued THEN c.value[1] ELSE Top(f)
      at == Slot(f, c.root[2])
      old == f.s.scope[at].value
      x == IF InArray(f, c, i) /\ ~f.s.scope[at].ro THEN store(c.aop, old[2][i[2] + 1], rhs) ELSE <<>>
      n == (IF valued THEN 0 ELSE 1) + (IF named THEN 0 ELSE 1)
  IN IF x # <<>>
     THEN advance([Dropped(f, n) EXCEPT !.s.scope[at].value = WithElement(old, i[2] + 1, x[1])])
     ELSE index_declined(p, IF valued THEN f ELSE Dropped(f, 1), c, IF named THEN <<i>> ELSE <<>>, rhs)

-----------------------------------------------------------------------------
\* What an operator came to: pushed, or taken as the condition of its branch.
deliver(f, n, ins, r) ==
  LET v == flatten(r.v, r.s.heap)
      after == [Dropped(f, n) EXCEPT !.s = r.s]
  IN CASE r.k # "ok" \/ ins.branch[1] = -1 -> Deliver(f, n, r)
       [] r.k = "ok" /\ ins.branch[1] # -1 /\ v[1] # "bool" -> fails(after, "type")
       [] OTHER -> IF v[2] = ins.branch[2] THEN transfer(after, ins.branch[1]) ELSE advance(after)

\* The operands an operator names are put where it finds the others.
named_operands(f, ins) ==
  CASE ins.op = "BinOpFrom" -> push(push(f, operand_value(f, ins.lhs)), operand_value(f, ins.rhs))
    [] ins.op # "BinOpFrom" /\ ins.rhs # <<>> -> push(f, operand_value(f, ins.rhs))
    [] OTHER -> f

\* The typed operators answer as the functions of the engine do (TypedAgrees).
bin_op(p, f, ins) ==
  LET g == named_operands(f, ins)
  IN deliver(g, 2, ins, call_engine(ins.name, Operands(g, 2), f.s))

un_op(f, ins) == deliver(f, 1, ins, call_engine(ins.name, <<Top(f)>>, f.s))

jump_if(f, ins) ==
  LET v == flatten(Top(f), f.s.heap)
      after == Dropped(f, 1)
  IN CASE v[1] # "bool" -> fails(after, "type")
       [] v = Bool(ins.op = "JumpIfTrue") -> transfer(after, ins.target)
       [] OTHER -> advance(after)

\* SwitchTable::dispatch: the case of the value, else the first range it is in.
switch_to(f, ins) ==
  LET v == flatten(Top(f), f.s.heap)
      same == {i \in DOMAIN ins.cases : ins.cases[i][1] = v}
      within == {i \in DOMAIN ins.ranges : InRange(ins.ranges[i][1], v)}
  IN transfer(Dropped(f, 1),
              CASE v[1] # "fn" /\ same # {} -> ins.cases[Min(same)][2]
                [] v[1] # "fn" /\ same = {} /\ within # {} -> ins.ranges[Min(within)][2]
                [] OTHER -> ins.default)

make_map(f, count) ==
  LET all == Operands(f, 2 * count)
      at(k) == CHOOSE i \in 1..count : all[2 * i - 1] = Str(k) /\ \A j \in (i + 1)..count : all[2 * j - 1] # Str(k)
  IN push(Dropped(f, 2 * count + 1),
          Map([k \in {all[2 * i - 1][2] : i \in 1..count} |-> flatten(all[2 * at(k)], f.s.heap)]))

curry(f, argc) ==
  LET all == Operands(f, argc + 1)
      ptr == flatten(all[1], f.s.heap)
  IN IF ptr[1] # "fn" THEN fails(f, "type")
     ELSE advance(push(Dropped(f, argc + 1), FnPtr(ptr[2].name, ptr[2].curry \o Tail(all), ptr[2].linked)))

make_fn_ptr(f) ==
  IF Top(f)[1] # "str" THEN fails(f, "type") ELSE advance(push(Dropped(f, 1), FnPtr(Top(f)[2], <<>>, FALSE)))

\* An iterator lies on the stack; the count of what it has given starts before the first.
iter_init(f) ==
  LET items == flatten(Top(f), f.s.heap)
  IN IF items[1] # "array" THEN fails(Dropped(f, 1), "for")
     ELSE advance(push(Dropped(f, 1), <<"iter", [items |-> items[2], count |-> -1]>>))

iter_next(f, ins) ==
  LET it == Top(f)[2]
      stepped == [f EXCEPT !.stack[Len(f.stack)] = <<"iter", [items |-> Tail(it.items), count |-> it.count + 1]>>]
  IN CASE it.items = <<>> -> advance(Dropped(f, 1))
       [] it.items # <<>> /\ ins.op = "IterNextStore" ->
            transfer([stepped EXCEPT !.s = Written(@, Slot(f, ins.slot), it.items[1])], ins.target)
       [] OTHER -> transfer(push(push(stepped, Num(it.count + 1)), it.items[1]), ins.target)

\* What is left to the tree walker: it works on the scope of the frame.
eval_ast(f, ins) ==
  LET r == IF ins.tree[1] = "stmt" THEN W!Eval("block", ins.tree[2], f.s) ELSE W!Eval("expr", ins.tree, f.s)
  IN Given(r, LAMBDA q : IF q.k = "return" THEN [f EXCEPT !.s = q.s, !.ended = TRUE, !.v = q.v] ELSE Deliver(f, 0, q))

-----------------------------------------------------------------------------
\* How many operands an instruction takes: with fewer the code is malformed.
Needs(ins) ==
  CASE ins.op \in {"Pop", "DeclareLocal", "StoreLocal", "StoreShared", "AssignNamed", "AssignThis", "JumpIfTrue",
                   "JumpIfFalse", "SkipIfNotUnit", "Switch", "IsShared", "MakeFnPtr", "IterInit", "IterNext",
                   "IterNextStore", "IterDrop", "Throw", "Return", "UnOp"} -> 1
    [] ins.op = "AssignLocal" -> IF ins.src = <<>> THEN 1 ELSE 0
    [] ins.op = "BinOp" -> IF ins.rhs = <<>> THEN 2 ELSE 1
    [] ins.op = "Rotate" -> ins.under + 1
    [] ins.op = "MakeArray" -> ins.count
    [] ins.op = "MakeMap" -> 2 * ins.count + 1
    [] ins.op = "Call" -> ins.argc
    [] ins.op = "CallRef" -> IF ins.receiver[1] = "local" THEN ins.argc - 1 ELSE ins.argc
    [] ins.op \in {"CallFnPtr", "Curry"} -> ins.argc + 1
    [] ins.op = "IndexGet" -> IF ins.index = <<>> THEN 1 ELSE 0
    [] ins.op = "IndexSet" -> (IF ins.index = <<>> THEN 1 ELSE 0) + (IF ins.value = <<>> THEN 1 ELSE 0)
    [] ins.op = "Chain" -> ChainWidth(ins)
    [] OTHER -> 0

\* Rotate puts the top where the operand `under` it is, and that one on top.
rotate(f, under) ==
  LET n == Len(f.stack)
  IN advance([f EXCEPT !.stack = [@ EXCEPT ![n] = f.stack[n - under], ![n - under] = f.stack[n]]])

load_this(f, flat) ==
  IF f.s.this = <<>> THEN fails(f, "unbound")
  ELSE advance(push(f, IF flat THEN flatten(f.s.this[1], f.s.heap) ELSE f.s.this[1]))

require_this(f) == IF f.s.this = <<>> THEN fails(f, "unbound") ELSE advance(f)

declare_local(f, ins) ==
  advance([Dropped(f, 1) EXCEPT !.s = push_entry(@, ins.name, ins.const, flatten(Top(f), f.s.heap))])

\* A variable that is declared again: a shared one keeps its cell.
store_local(f, ins) ==
  LET i == Slot(f, ins.slot)
  IN advance([Dropped(f, 1) EXCEPT
                !.s = IF is_shared(@.scope[i].value) THEN Written(@, i, Top(f))
                      ELSE [@ EXCEPT !.scope[i] = [@ EXCEPT !.value = Top(f), !.ro = ins.const]]])

assign_local(f, ins) ==
  LET rhs == IF ins.src = <<>> THEN flatten(Top(f), f.s.heap) ELSE operand_value(f, ins.src)
  IN Complete(f, IF ins.src = <<>> THEN 1 ELSE 0, assign_entry(Slot(f, ins.slot), ins.aop, rhs, f.s))

make_array(f, count) ==
  LET all == Operands(f, count)
  IN push(Dropped(f, count), Array([i \in 1..count |-> flatten(all[i], f.s.heap)]))

iter_drop(f) == IF Top(f)[1] = "iter" THEN advance(Dropped(f, 1)) ELSE fails(f, "malformed")

push_handler(f, ins) ==
  advance([f EXCEPT !.handlers = Append(@, [target |-> ins.target, name |-> ins.name, operands |-> Len(f.stack),
                                            scope |-> Len(f.s.scope), caught |-> <<>>])])

skip_if_not_unit(f, ins) == IF is_unit(flatten(Top(f), f.s.heap)) THEN advance(f) ELSE transfer(f, ins.target)

throw(f) == raise(Dropped(f, 1), Err("runtime", flatten(Top(f), f.s.heap)))

return(f) == [truncate_stack(f, 0) EXCEPT !.ended = TRUE, !.v = Top(f)]

\* The instructions follow the order of the code's arms: `run_frame` runs its own and hands the
\* others to dispatch_cold, dispatch_late and dispatch_tail.
Values == {"Unit", "Const", "Bool", "LoadLocal", "StoreLocal"}

value_op(f, ins) ==
  CASE ins.op = "Unit" -> advance(push(f, Unit))
    [] ins.op \in {"Const", "Bool"} -> advance(push(f, ins.v))
    [] ins.op = "LoadLocal" -> advance(push(f, Local(f, ins.slot)))
    [] OTHER -> store_local(f, ins)

Named == {"LoadNamed", "LoadSharedNamed", "AssignNamed"}

\* A variable of the host's, by name.
named_op(f, ins) ==
  IF ins.op = "AssignNamed"
  THEN Complete(f, 1, assign_named(ins.name, ins.aop, flatten(Top(f), f.s.heap), f.s))
  ELSE Deliver(f, 0, load_named(ins.name, ins.op = "LoadNamed", f.s))

ThisOps == {"LoadThis", "LoadThisShared", "RequireThis", "AssignThis"}

this_op(f, ins) ==
  CASE ins.op = "AssignThis" -> Complete(f, 1, assign_this(ins.aop, flatten(Top(f), f.s.heap), f.s))
    [] ins.op = "RequireThis" -> require_this(f)
    [] OTHER -> load_this(f, ins.op = "LoadThis")

Aggregates == {"Rotate", "MakeArray", "MakeMap", "Switch"}

aggregate_op(f, ins) ==
  CASE ins.op = "Rotate" -> rotate(f, ins.under)
    [] ins.op = "MakeArray" -> advance(make_array(f, ins.count))
    [] ins.op = "MakeMap" -> advance(make_map(f, ins.count))
    [] OTHER -> switch_to(f, ins)

Closures == {"LoadShared", "Share", "ShareNamed", "MakeClosure", "IsShared", "MakeFnPtr", "Curry"}

share(f, ins) ==
  IF ins.op = "ShareNamed" THEN Complete(f, 0, share_named(ins.name, f.s))
  ELSE advance([f EXCEPT !.s = Shared(@, Slot(f, ins.slot))])

closure_op(f, ins) ==
  CASE ins.op = "LoadShared" -> advance(push(f, f.s.scope[Slot(f, ins.slot)].value))
    [] ins.op \in {"Share", "ShareNamed"} -> share(f, ins)
    [] ins.op = "MakeClosure" -> advance(push(f, FnPtr(ins.name, <<>>, TRUE)))
    [] ins.op = "IsShared" -> advance(push(Dropped(f, 1), Bool(is_shared(Top(f)))))
    [] ins.op = "MakeFnPtr" -> make_fn_ptr(f)
    [] OTHER -> curry(f, ins.argc)

Late == {"IndexSet", "IndexGet", "UnwindTo", "Checkpoint", "PushHandler", "PopHandler"}

dispatch_late(p, f, ins) ==
  CASE ins.op = "IndexSet" -> index_set(p, f, ins)
    [] ins.op = "IndexGet" -> index_get(p, f, ins)
    [] ins.op = "UnwindTo" -> advance([f EXCEPT !.s = rewind(@, Slot(f, ins.depth))])
    [] ins.op = "Checkpoint" -> advance([f EXCEPT !.floor = Len(f.s.scope)])
    [] ins.op = "PushHandler" -> push_handler(f, ins)
    [] OTHER -> advance([f EXCEPT !.handlers = Front(@)])

Iterations == {"IterInit", "IterDrop", "IterNext", "IterNextStore"}

iteration_op(f, ins) ==
  CASE ins.op = "IterInit" -> iter_init(f)
    [] ins.op = "IterDrop" -> iter_drop(f)
    [] OTHER -> iter_next(f, ins)

call_ref(p, f, ins) ==
  IF ins.receiver = <<"this">> THEN call_by_this(p, f, ins.name, ins.argc)
  ELSE call_by_reference(p, f, ins.name, ins.argc, ins.receiver)

call_pointer(p, f, ins) == call_fn_ptr(p, f, ins.argc, ins.method, ins.receiver)

store_shared(f, ins) == advance([Dropped(f, 1) EXCEPT !.s = Written(@, Slot(f, ins.slot), Top(f))])

OperatorForms == {"BinOp", "BinOpFrom", "UnOp", "Call"}

\* Operators that have no typed answer, and calls, whose operands are on the stack.
dispatch_tail(p, f, ins) ==
  CASE ins.op = "UnOp" -> un_op(f, ins)
    [] ins.op = "Call" -> Deliver(f, ins.argc, call_stacked(p, ins.name, Operands(f, ins.argc), f.s))
    [] OTHER -> bin_op(p, f, ins)

\* run_frame: one instruction.
dispatch(p, f) ==
  LET ins == p.code[f.pc]
      op == ins.op
  IN CASE Len(f.stack) < Needs(ins) -> fails(f, "malformed")
       [] OTHER ->
          CASE op \in Values -> value_op(f, ins)
            [] op \in Named -> named_op(f, ins)
            [] op = "DeclareLocal" -> declare_local(f, ins)
            [] op = "AssignLocal" -> assign_local(f, ins)
            [] op \in ThisOps -> this_op(f, ins)
            [] op = "Pop" -> advance(Dropped(f, 1))
            [] op = "EvalAst" -> eval_ast(f, ins)
            [] op = "Jump" -> transfer(f, ins.target)
            [] op \in {"JumpIfTrue", "JumpIfFalse"} -> jump_if(f, ins)
            [] op = "SkipIfNotUnit" -> skip_if_not_unit(f, ins)
            [] op \in OperatorForms -> dispatch_tail(p, f, ins)
            [] op = "CallRef" -> call_ref(p, f, ins)
            [] op \in Aggregates -> aggregate_op(f, ins)
            [] op \in Closures -> closure_op(f, ins)
            [] op = "CallFnPtr" -> call_pointer(p, f, ins)
            [] op = "Chain" -> eval_chain(p, f, ins)
            [] op \in Late -> dispatch_late(p, f, ins)
            [] op \in Iterations -> iteration_op(f, ins)
            [] op = "StoreShared" -> store_shared(f, ins)
            [] op = "Throw" -> throw(f)
            [] OTHER -> return(f)

-----------------------------------------------------------------------------
RECURSIVE Unhandled(_, _)

\* catch: a handler whose catch block was running is done with, and `throw ()` in it raises
\* what it had caught again.  The outcome is the handlers that are left and the error.
Unhandled(handlers, err) ==
  CASE handlers = <<>> -> [handlers |-> <<>>, err |-> err]
    [] handlers # <<>> /\ Last(handlers).caught = <<>> -> [handlers |-> handlers, err |-> err]
    [] OTHER -> Unhandled(Front(handlers),
                          IF err.e = "runtime" /\ err.calls = 0 /\ is_unit(err.v) THEN Last(handlers).caught[1] ELSE err)

catch(f) ==
  Given(Unhandled(f.handlers, f.raised[1]), LAMBDA u :
    LET n == Len(u.handlers)
        h == u.handlers[n]
        s == rewind(f.s, h.scope)
        bound == IF h.name = <<>> THEN s ELSE push_entry(s, h.name[1], FALSE, ErrValue(u.err))
    IN IF n = 0
       THEN [f EXCEPT !.handlers = <<>>, !.stack = <<>>, !.raised = <<u.err>>, !.ended = TRUE,
                      !.s = IF Len(f.s.scope) > f.floor THEN rewind(f.s, f.floor) ELSE f.s]
       ELSE [truncate_stack(f, h.operands) EXCEPT
               !.handlers = [u.handlers EXCEPT ![n].caught = <<u.err>>], !.raised = <<>>, !.pc = h.target, !.s = bound])

step(p, f) == IF f.raised # <<>> THEN catch(f) ELSE dispatch(p, f)

\* 2^k instructions, unless it ends before.
Instructions(p, f, k) ==
  CASE f.ended -> f
    [] ~f.ended /\ k = 0 -> step(p, f)
    [] OTHER -> Given(Instructions(p, f, k - 1), LAMBDA g : Instructions(p, g, k - 1))

\* A call to its end, which takes fewer than 2^MaxCall instructions.
MaxCall == 8

execute(p, f) == Instructions(p, f, MaxCall)
=============================================================================
