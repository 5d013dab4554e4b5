------------------------------- MODULE Script -------------------------------
(* Values, variables and functions of a script, as both engines see them
   (types/dynamic.rs, func/call.rs, func/builtin.rs).

   A value is a pair of its type and its content; a cell is a value shared by
   several variables, kept in the heap under its address.  An expression or a
   statement is a tuple headed by its kind; a chain of accesses is its root and
   its steps.  Integers stay small: overflow is another module's business.    *)
EXTENDS Integers, Sequences, SequencesExt, TLC

CONSTANTS
  Functions       \* the script's functions: name -> [params, body]

Unit == <<"unit", 0>>

Num(n) == <<"int", n>>

Bool(b) == <<"bool", b>>

Str(s) == <<"str", s>>

Array(a) == <<"array", a>>

Map(m) == <<"map", m>>

\* A function pointer: `linked` to a script function when it comes from a closure.
FnPtr(name, curry, linked) == <<"fn", [name |-> name, curry |-> curry, linked |-> linked]>>

is_shared(v) == v[1] = "cell"

is_unit(v) == v = Unit

\* What a value is once sharing is looked through.
flatten(v, heap) == IF is_shared(v) THEN heap[v[2]] ELSE v

-----------------------------------------------------------------------------
\* What an evaluation changes: the scope, whose first entries may be the host's, the heap, the
\* calls the host saw, the receiver (`this_ptr`, none or one) and the cells locked for writing.
State(scope, heap) ==
  [scope |-> scope, host |-> Len(scope), heap |-> heap, log |-> <<>>, this |-> <<>>, locked |-> {}]

Entry(name, ro, value) == [name |-> name, ro |-> ro, value |-> value]

\* Scope::search, from the innermost; 0 when there is none.
search(scope, name) ==
  LET found == {i \in DOMAIN scope : scope[i].name = name}
  IN IF found = {} THEN 0 ELSE CHOOSE i \in found : \A j \in found : j <= i

rewind(s, n) == [s EXCEPT !.scope = SubSeq(@, 1, n)]

push_entry(s, name, ro, value) == [s EXCEPT !.scope = Append(@, Entry(name, ro, value))]

\* Dynamic::into_shared.
Shared(s, i) ==
  IF is_shared(s.scope[i].value) THEN s
  ELSE [s EXCEPT !.heap = Append(@, s.scope[i].value),
                 !.scope[i].value = <<"cell", Len(s.heap) + 1>>]

-----------------------------------------------------------------------------
\* The outcome of an evaluation: a value, an error, or a jump that travels as one.
Ok(v, s) == [k |-> "ok", v |-> v, s |-> s]

Jump(k, v, s) == [k |-> k, v |-> v, s |-> s]

\* An error; `calls` counts the functions it has come out of (ErrorInFunctionCall).
Err(e, v) == [e |-> e, v |-> v, calls |-> 0]

Fails(e, s) == Jump("err", Err(e, Unit), s)

\* Evaluates once, and goes on unless the evaluation ended otherwise.
Given(x, F(_)) == CHOOSE y \in {F(z) : z \in {x}} : TRUE

Then(r, F(_)) == Given(r, LAMBDA q : IF q.k = "ok" THEN F(q) ELSE q)

\* What `catch` binds.
ErrValue(err) == IF err.e = "runtime" THEN err.v ELSE Map("message" :> Str(err.e))

\* `throw ()` inside of the catch block itself raises the caught error again.
Rethrows(err) == err.e = "runtime" /\ err.calls = 0 /\ is_unit(err.v)

-----------------------------------------------------------------------------
\* Operators, and the functions of the host: `log` shows its argument, `inc` and `push` change
\* their first one.
Binary == {"+", "-", "<", "=="}

Operators == Binary \cup {"!"}

Builtin(op, a, b) ==
  CASE op = "+" /\ a[1] = "int" /\ b[1] = "int" -> <<Num(a[2] + b[2])>>
    [] op = "-" /\ a[1] = "int" /\ b[1] = "int" -> <<Num(a[2] - b[2])>>
    [] op = "<" /\ a[1] = "int" /\ b[1] = "int" -> <<Bool(a[2] < b[2])>>
    [] op = "==" /\ a[1] \in {"int", "bool", "unit", "str"} /\ b[1] \in {"int", "bool", "unit", "str"} ->
         <<Bool(a = b)>>
    [] op = "+" /\ a[1] = "str" /\ b[1] = "str" -> <<Str(a[2] \o b[2])>>
    [] OTHER -> <<>>

\* A call of the host's: the result, the first argument as it leaves it and what is logged; an
\* empty sequence when no function takes these arguments.
Native(name, args) ==
  CASE name = "log" /\ Len(args) = 1 -> <<[v |-> Unit, first |-> args[1], log |-> <<args[1]>>]>>
    [] name = "inc" /\ Len(args) = 1 /\ args[1][1] = "int" ->
         <<[v |-> Unit, first |-> Num(args[1][2] + 1), log |-> <<>>]>>
    [] name = "add" /\ Len(args) = 2 /\ args[1][1] = "int" /\ args[2][1] = "int" ->
         <<[v |-> Unit, first |-> Num(args[1][2] + args[2][2]), log |-> <<>>]>>
    [] name = "push" /\ Len(args) = 2 /\ args[1][1] = "array" ->
         <<[v |-> Unit, first |-> Array(Append(args[1][2], args[2])), log |-> <<>>]>>
    [] name = "!" /\ Len(args) = 1 /\ args[1][1] = "bool" ->
         <<[v |-> Bool(~args[1][2]), first |-> args[1], log |-> <<>>]>>
    [] name \in Binary /\ Len(args) = 2 /\ Builtin(name, args[1], args[2]) # <<>> ->
         <<[v |-> Builtin(name, args[1], args[2])[1], first |-> args[1], log |-> <<>>]>>
    [] OTHER -> <<>>

\* The script function of that name that takes n arguments.
HasFn(name, n) == name \in DOMAIN Functions /\ Len(Functions[name].params) = n

-----------------------------------------------------------------------------
\* Bits of an integer that are looked at; the integers here have no more.
Bits == 8

\* Elements of arrays and maps, and bits: where an index leads (get_indexed_mut), or the error.  A
\* negative index counts from the end.
ElementAt(v, i) ==
  CASE v[1] = "array" /\ i[1] = "int" ->
         LET n == Len(v[2])
             k == IF i[2] >= 0 THEN i[2] + 1 ELSE n + i[2] + 1
         IN IF k \in 1..n THEN <<"at", k>> ELSE <<"err", "bounds">>
    [] v[1] = "map" /\ i[1] = "str" -> <<"at", i[2]>>
    [] v[1] = "int" /\ i[1] = "int" -> IF i[2] \in 0..Bits - 1 THEN <<"at", i[2]>> ELSE <<"err", "bounds">>
    [] v[1] \in {"array", "map"} -> <<"err", "type">>
    [] OTHER -> <<"err", "indexing">>

\* Where a property leads: only maps have any here.
PropertyAt(v, name) == IF v[1] = "map" THEN <<"at", name>> ELSE <<"err", "dot">>

\* Reading a missing key gives nothing; writing makes it.  (A bit is only read here, by its
\* place from the lowest.)
Element(v, k) ==
  CASE v[1] = "array" -> v[2][k]
    [] v[1] = "int" -> Bool((v[2] \div 2^k) % 2 = 1)
    [] v[1] = "map" -> IF k \in DOMAIN v[2] THEN v[2][k] ELSE Unit

WithElement(v, k, x) ==
  IF v[1] = "int" THEN v ELSE IF v[1] = "array" THEN Array([v[2] EXCEPT ![k] = x]) ELSE Map((k :> x) @@ v[2])

-----------------------------------------------------------------------------
\* An arm of a switch: the values or the range (from, to, inclusive) it is for, its condition
\* and its body.
Arm(cases, range, cond, body) == [cases |-> cases, range |-> range, cond |-> cond, body |-> body]

InRange(r, v) ==
  /\ r # <<>>
  /\ v[1] = "int"
  /\ r[1] <= v[2]
  /\ v[2] < r[2] \/ (r[3] /\ v[2] = r[2])

-----------------------------------------------------------------------------
\* The steps of a chain: an index, a property or a method, each with its arguments and whether
\* it is skipped, with the rest of the chain, when there is nothing to take it on (`?.`, `?[`).
StepExprs(step) ==
  CASE step[1] = "idx" -> <<step[2]>> [] step[1] = "prop" -> <<>> [] OTHER -> step[3]

ArgExprs(steps) == FlattenSeq([i \in DOMAIN steps |-> StepExprs(steps[i])])

Elvis(step) == step[Len(step)]
=============================================================================
