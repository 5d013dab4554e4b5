------------------------------ MODULE Chaining ------------------------------
(***************************************************************************)
(* Chains of properties, indices and method calls, and assignments through *)
(* them (src/eval/chaining.rs, eval_op_assignment of src/eval/stmt.rs,     *)
(* make_method_call of src/func/call.rs).                                  *)
(*                                                                         *)
(* The evaluation of a chain goes down from the variable at its root, one  *)
(* link at a time, keeping a stack of targets; it reads, assigns or calls  *)
(* at the last link and comes up again.  A target that is a reference is   *)
(* changed in place; the value a getter or an indexer returned is written  *)
(* back by its setter; a part of a value (a bit, a byte, a character) is   *)
(* put back by the assignment itself.  Getters, setters, indexers and      *)
(* methods of Rust types are external and may fail.                        *)
(*                                                                         *)
(* A value is a pair of its type and its content: an integer, a boolean, a *)
(* character, a string or an array (a sequence), a blob (a sequence of     *)
(* bytes), an object map (a function of its keys), an object of a Rust     *)
(* type (a function of its properties), a range, or a shared cell.  The    *)
(* places inside them that an expression can assign to are those of        *)
(* src/eval/target.rs and get_indexed_mut of src/eval/chaining.rs.         *)
(***************************************************************************)
EXTENDS Indices, SequencesExt, FiniteSetsExt, FiniteSets

CONSTANTS
  Roots,          \* values the variable at the root may have
  InitCells,      \* contents of the shared cells
  Steps,          \* links that chains are made of
  NewVals,        \* values that are assigned
  MethodVals,     \* values that a method leaves in its target
  MethodResults,  \* values that a method returns
  Apis,           \* engines: properties of the Rust type with a getter and a setter, whether
                  \* it has index getters and setters, fail_on_invalid_map_property, and
                  \* max_string_size
  MaxSteps        \* length of a chain (bound)

-----------------------------------------------------------------------------
\* Values and places.

UnitVal      == <<"unit", Unit>>
BoolVal(b)   == <<"bool", b>>
IntVal(n)    == <<"int", n>>
CharVal(c)   == <<"char", c>>
StrVal(s)    == <<"str", s>>
ArrVal(s)    == <<"arr", s>>
BlobVal(s)   == <<"blob", s>>
MapVal(f)    == <<"map", f>>
ObjVal(f)    == <<"obj", f>>
RangeVal(s, e)  == <<"range", <<s, e>>>>
RangeIVal(s, e) == <<"rangei", <<s, e>>>>
CellVal(c)   == <<"cell", c>>

Type(v) == v[1]

\* An integer as the bits of its two's complement, and back.
Unsigned(n)   == n % (2 ^ IntBits)
Signed(u)     == IF u > IntMax THEN u - 2 ^ IntBits ELSE u
BitOf(n, i)   == (Unsigned(n) \div 2 ^ i) % 2 = 1
SetBit(n, i, b) ==
  Signed(Unsigned(n) + (IF b = BitOf(n, i) THEN 0 ELSE IF b THEN 2 ^ i ELSE -(2 ^ i)))

\* `(n & mask) >> shift` where the mask has the bits lo..hi-1 and the shift keeps
\* the sign.
FieldOf(n, lo, hi) ==
  IF hi <= lo THEN 0
  ELSE LET field == (Unsigned(n) \div 2 ^ lo) % 2 ^ (hi - lo)
       IN IF hi = IntBits /\ BitOf(n, hi - 1) THEN field - 2 ^ (hi - lo) ELSE field

\* The bits lo..hi-1 replaced by the low bits of x.
SetField(n, lo, hi, x) ==
  IF hi <= lo THEN n
  ELSE Signed(Unsigned(n) - (Unsigned(FieldOf(n, lo, hi)) % 2 ^ (hi - lo)) * 2 ^ lo
              + (Unsigned(x) % 2 ^ (hi - lo)) * 2 ^ lo)

\* Text of a value in a string: only strings and characters are told apart.
ToChars(v) == CASE Type(v) = "str" -> v[2] [] Type(v) = "char" -> <<v[2]>> [] OTHER -> <<"#">>

-----------------------------------------------------------------------------
\* A place: how it is reached ("ref", "temp" or "part" of a value), its value,
\* whether that is read-only, and the key or the part in the value that holds it.
Place(kind, v, ro, at) == [kind |-> kind, val |-> v, ro |-> ro, at |-> at, err |-> "none"]
Nowhere   == <<"none", 0, 0>>
Failed(e) == [Place("temp", UnitVal, FALSE, Nowhere) EXCEPT !.err = e]

\* The bits lo..hi-1 that a range selects, NoIndex for an error.
BitRange(r) ==
  LET s == calc_index(IntBits, r[2][1], FALSE)
      e == IF Type(r) = "range"
           THEN IF r[2][2] \in {IntMax, IntBits} THEN IntBits ELSE calc_index(IntBits, r[2][2], FALSE)
           ELSE IF r[2][2] = IntMax THEN IntBits - 1 ELSE calc_index(IntBits, r[2][2], FALSE)
  IN IF s = NoIndex \/ e = NoIndex THEN <<NoIndex, NoIndex>>
     ELSE <<s, IF Type(r) = "range" THEN e ELSE e + 1>>

\* A character: a negative position counts from the end, and the place keeps the
\* absolute value of the position.
CharPlace(s, i) ==
  LET n == calc_index(Len(s), i, TRUE)
  IN IF n = NoIndex THEN Failed("bounds")
     ELSE Place("part", CharVal(s[n + 1]), FALSE, <<"char", Abs(i), 0>>)

\* A slice: positions past the end are kept, a negative end before the start of the
\* string counts as 0.
SlicePlace(s, r) ==
  LET n     == Len(s)
      start == IF r[2][1] >= 0 THEN r[2][1] ELSE calc_index(n, r[2][1], TRUE)
      end   == IF r[2][2] >= 0 THEN r[2][2] ELSE LargerOf(calc_index(n, r[2][2], TRUE), 0)
      take  == IF Type(r) = "range" THEN LargerOf(end - start, 0)
               ELSE IF start = 0 /\ end >= n - 1 THEN n
               ELSE IF end > start THEN end - start + 1 ELSE 0
      val   == IF start >= n THEN <<>> ELSE Part(s, start, SmallerOf(take, n - start))
  IN CASE n = 0           -> Place("part", StrVal(s), FALSE, <<"slice", 0, 0>>)
       [] start = NoIndex -> Failed("bounds")
       [] OTHER           -> Place("part", StrVal(val), FALSE, <<Type(r), start, end>>)

\* Mutant: properties of a constant map can be assigned to.
MapPlace_rw(m, ro, k, add, failOnMissing) ==
  IF k \in DOMAIN m THEN Place("ref", m[k], FALSE, <<"key", k, 0>>)
  ELSE IF add THEN Place("ref", UnitVal, FALSE, <<"key", k, 0>>)
  ELSE IF failOnMissing THEN Failed("noprop")
  ELSE Place("temp", UnitVal, FALSE, Nowhere)

\* A place of an object map: missing properties are added when they are assigned to.
MapPlace(m, ro, k, add, failOnMissing) ==
  IF k \in DOMAIN m THEN Place("ref", m[k], ro, <<"key", k, 0>>)
  ELSE IF add THEN Place("ref", UnitVal, FALSE, <<"key", k, 0>>)
  ELSE IF failOnMissing THEN Failed("noprop")
  ELSE Place("temp", UnitVal, FALSE, Nowhere)

\* get_indexed_mut for the types that the engine indexes itself.
get_indexed_mut(obj, ro, idx, add, failOnMissing) ==
  LET v == obj[2]
      i == IF Type(idx) = "int" THEN calc_index(IF Type(obj) = "int" THEN IntBits ELSE Len(v),
                                                idx[2], TRUE) ELSE NoIndex
  IN CASE Type(obj) = "map" ->
            IF Type(idx) = "str" THEN MapPlace(v, ro, idx[2], add, failOnMissing) ELSE Failed("type")
       [] Type(obj) = "int" /\ Type(idx) \in {"range", "rangei"} ->
            LET b == BitRange(idx)
            IN IF b[1] = NoIndex THEN Failed("bounds")
               ELSE Place("part", IntVal(FieldOf(v, b[1], b[2])), FALSE, <<"field", b[1], b[2]>>)
       [] Type(obj) = "str" /\ Type(idx) \in {"range", "rangei"} -> SlicePlace(v, idx)
       [] Type(obj) \in {"arr", "blob", "int", "str"} /\ Type(idx) # "int" -> Failed("type")
       [] Type(obj) = "str" -> CharPlace(v, idx[2])
       [] Type(obj) \in {"arr", "blob", "int"} /\ i = NoIndex -> Failed("bounds")
       [] Type(obj) = "arr"  -> Place("ref", v[i + 1], ro, <<"item", i, 0>>)
       [] Type(obj) = "blob" -> Place("part", IntVal(v[i + 1]), FALSE, <<"byte", i, 0>>)
       [] Type(obj) = "int"  -> Place("part", BoolVal(BitOf(v, i)), FALSE, <<"bit", i, 0>>)
       [] OTHER -> Failed("noindexer")

-----------------------------------------------------------------------------
\* Target::propagate_changed_value: the source after the changed value was put back,
\* or the source itself when the value is not of the type the part needs.
PartType(at) == CASE at[1] = "bit" -> "bool" [] at[1] \in {"field", "byte"} -> "int"
                  [] at[1] = "char" -> "char" [] OTHER -> "any"

Propagates(at, v) == PartType(at) \in {"any", Type(v)}

\* The string s with the characters of v in place of a slice: of start..end, or of
\* start..=end where the character at the end goes too.
PutSlice(s, at, v) ==
  LET n    == Len(s)
      rest == IF at[1] # "rangei" THEN SmallerOf(at[3], n) ELSE SmallerOf(at[3], n - 1) + 1
  IN Upto(s, SmallerOf(at[2], n)) \o ToChars(v) \o From(s, rest)

propagate_changed_value(src, at, v) ==
  CASE at[1] = "bit"   -> IntVal(SetBit(src[2], at[2], v[2]))
    [] at[1] = "field" -> IntVal(SetField(src[2], at[2], at[3], v[2]))
    [] at[1] = "byte"  -> BlobVal([src[2] EXCEPT ![at[2] + 1] = Unsigned(v[2]) % ByteBase])
    [] at[1] = "char"  -> StrVal([i \in 1..Len(src[2]) |-> IF i = at[2] + 1 THEN v[2] ELSE src[2][i]])
    [] OTHER           -> StrVal(PutSlice(src[2], at, v))

\* A container with v at the place a reference points to.
PutRef(obj, at, v) ==
  IF at[1] = "item" THEN ArrVal([obj[2] EXCEPT ![at[2] + 1] = v])
  ELSE MapVal([k \in DOMAIN obj[2] \cup {at[2]} |-> IF k = at[2] THEN v ELSE obj[2][k]])

-----------------------------------------------------------------------------
\* Chains.

Idx(v, elvis)  == [k |-> "idx", name |-> <<>>, args |-> <<v>>, elvis |-> elvis]
Prop(p, elvis) == [k |-> "prop", name |-> p, args |-> <<>>, elvis |-> elvis]
Call(m, as)    == [k |-> "call", name |-> m, args |-> as, elvis |-> FALSE]

ASSUME ChainingAssumption ==
  /\ \A a \in Apis : {a.idxGet, a.idxSet, a.failOnMissing} \subseteq BOOLEAN
  /\ MaxSteps \in Nat \ {0}

NoLimit == Overflow

VARIABLES
  api,     \* the engine, one of Apis
  root,    \* the variable at the root of the chain
  cells,   \* contents of the shared cells
  const,   \* is the variable a constant?
  steps,   \* the chain
  act,     \* "read", "assign" or "op"
  newval,  \* the value assigned
  args,    \* idx_values: the evaluated indices and arguments, the next one last
  stack,   \* the targets from the root down
  phase,   \* "begin", "args", "locate", "down", "up" or "done"
  out,     \* the result: error, value, and whether the target may have changed
  shorted, \* a null-conditional operator ended the chain (ghost)
  before   \* root and cells before the chain (ghost)

vars == <<api, root, cells, const, steps, act, newval, args, stack, phase, out, shorted, before>>
input == <<api, const, steps, act, newval, before>>

\* Shared values inside arrays and maps come from the host only, and never with limits
\* on sizes: check_data_size takes them for impossible.
HoldsShared(v) == Type(v) \in {"arr", "map"} /\ \E k \in DOMAIN v[2] : Type(v[2][k]) = "cell"

Init ==
  /\ api \in Apis
  /\ root \in Roots
  /\ cells = InitCells
  /\ HoldsShared(IF Type(root) = "cell" THEN cells[root[2]] ELSE root) => api.maxLen = NoLimit
  /\ const \in BOOLEAN
  /\ steps = <<>> /\ act = "read" /\ newval = UnitVal
  /\ args = <<>> /\ stack = <<>>
  /\ phase = "begin"
  /\ out = [err |-> "none", val |-> UnitVal, changed |-> FALSE]
  /\ shorted = FALSE
  /\ before = [root |-> root, cells |-> cells]

\* The parser takes no assignment to a chain with a method call (check_lvalue).
Begin ==
  /\ phase = "begin"
  /\ \E n \in 1..MaxSteps : steps' \in [1..n -> Steps]
  /\ \/ act' = "read" /\ newval' = UnitVal
     \/ /\ act' \in {"assign", "op"} /\ newval' \in NewVals
        /\ \A i \in DOMAIN steps' : steps'[i].k # "call"
  /\ phase' = "args"
  /\ UNCHANGED <<api, root, cells, const, args, stack, out, shorted, before>>

\* Frames of the stack: a target, how it was reached, and the cell that is locked.
NoCell == Unit
Frame(place, how, cell, key) ==
  [kind |-> place.kind, val |-> place.val, ro |-> place.ro, at |-> place.at,
   how |-> how, cell |-> cell, key |-> key]

Top     == stack[Len(stack)]
Step    == steps[Len(stack)]
AtLast  == Len(stack) = Len(steps)
Locked(c) == \E i \in DOMAIN stack : stack[i].cell = c
Arg     == args[Len(args)]

Up(e, v, c) == /\ phase' = "up"
               /\ out' = [err |-> e, val |-> v, changed |-> c]

\* The value inside a cell, which is read-write whatever holds the cell: a constant array
\* or object map makes the cells in it read-only, not their contents.
Inside(place) == [place EXCEPT !.kind = "shared", !.val = cells[place.val[2]], !.ro = FALSE]

\* Mutant: a cell is locked again.
try_from_unchecked(place, how, key, stk) ==
  IF Type(place.val) # "cell"
  THEN stack' = Append(stk, Frame(place, how, NoCell, key)) /\ UNCHANGED <<phase, out>>
  ELSE /\ stack' = Append(stk, Frame(Inside(place), how, place.val[2], key))
       /\ UNCHANGED <<phase, out>>

\* Target::try_from: a reference to a shared value locks its cell.
\* Goes down to a place reached as `how`, or fails when its cell is locked already.
try_from(place, how, key, stk) ==
  IF Type(place.val) # "cell"
  THEN stack' = Append(stk, Frame(place, how, NoCell, key)) /\ UNCHANGED <<phase, out>>
  ELSE IF Locked(place.val[2]) THEN stack' = stk /\ Up("race", UnitVal, FALSE)
  ELSE /\ stack' = Append(stk, Frame(Inside(place), how, place.val[2], key))
       /\ UNCHANGED <<phase, out>>

\* A temporary value is no reference; the next link locks the cell of a shared one or asks
\* for its type, and the code unwraps that lock.
into_temp(v, how, key, stk) ==
  IF Type(v) # "cell"
  THEN /\ stack' = Append(stk, Frame(Place("temp", v, FALSE, Nowhere), how, NoCell, key))
       /\ UNCHANGED <<phase, out>>
  ELSE IF Locked(v[2]) THEN stack' = stk /\ Up("panic", UnitVal, FALSE)
  ELSE /\ stack' = Append(stk, Frame(Place("temp", cells[v[2]], FALSE, Nowhere), how, v[2], key))
       /\ UNCHANGED <<phase, out>>

-----------------------------------------------------------------------------
\* eval_dot_index_chain_arguments: all indices and arguments are evaluated from left
\* to right before the root is looked up, and stacked so that the first link finds its
\* own at the end.
eval_dot_index_chain_arguments ==
  /\ phase = "args"
  /\ \/ /\ args' = FlattenSeq([i \in 1..Len(steps) |-> steps[Len(steps) + 1 - i].args])
        /\ phase' = "locate" /\ UNCHANGED out
     \/ /\ \E i \in DOMAIN steps : steps[i].args # <<>>
        /\ out' = [err |-> "arg", val |-> UnitVal, changed |-> FALSE]
        /\ phase' = "done" /\ UNCHANGED args
  /\ UNCHANGED <<input, root, cells, stack, shorted>>

\* eval_dot_index_chain: the root is a variable or `this`, which is locked when it is
\* shared, or the value of an expression.
eval_dot_index_chain ==
  /\ phase = "locate"
  /\ LET place(kind) == Place(kind, root, const, Nowhere)
     IN \/ /\ stack' = <<Frame(IF Type(root) = "cell"
                               THEN [place("shared") EXCEPT !.val = cells[root[2]]]
                               ELSE place("ref"),
                               "root", IF Type(root) = "cell" THEN root[2] ELSE NoCell, UnitVal)>>
        \/ /\ act = "read" /\ Type(root) # "cell" /\ ~const
           /\ stack' = <<Frame(place("temp"), "expr", NoCell, UnitVal)>>
  /\ phase' = "down"
  /\ UNCHANGED <<input, root, cells, args, out, shorted>>

At(k) == phase = "down" /\ Step.k = k
\* The null-conditional operators `?.` and `?[`.
ShortCircuits == Step.elvis /\ Type(Top.val) = "unit"

NullConditional ==
  /\ phase = "down" /\ ShortCircuits
  /\ Up("none", UnitVal, FALSE)
  /\ shorted' = TRUE
  /\ UNCHANGED <<input, root, cells, args, stack>>

\* Calls to functions of the Rust type, which may fail.  The first argument is the
\* target of the call, which must not be a constant unless the function is pure.
GetsIndex(obj) == api.idxGet /\ Type(obj) = "obj"
SetsIndex(obj) == api.idxSet /\ Type(obj) = "obj"
HasGetter(obj, p) == Type(obj) = "obj" /\ p \in api.getters
HasSetter(obj, p) == Type(obj) = "obj" /\ p \in api.setters
Held(obj, key) == IF key \in DOMAIN obj[2] THEN obj[2][key] ELSE UnitVal
Store(obj, key, v) == ObjVal([k \in DOMAIN obj[2] \cup {key} |-> IF k = key THEN v ELSE obj[2][k]])

\* When sizes are limited the result of a Rust function is measured, and the lock of a
\* shared result unwrapped.
Unmeasurable(v) == api.maxLen # NoLimit /\ Type(v) = "cell" /\ Locked(v[2])

\* xxx[idx].expr and xxx[idx][expr].
IndexInner ==
  /\ At("idx") /\ ~AtLast /\ ~ShortCircuits
  /\ args' = Front(args)
  /\ LET obj == Top.val
         p   == get_indexed_mut(obj, Top.ro, Arg, FALSE, api.failOnMissing)
     IN IF p.err = "noindexer"
        THEN IF GetsIndex(obj)
             THEN \/ into_temp(Held(obj, Arg), "indexer", Arg, stack)
                  \/ Up("native", UnitVal, FALSE) /\ UNCHANGED stack
             ELSE Up("noindexer", UnitVal, FALSE) /\ UNCHANGED stack
        ELSE IF p.err # "none" THEN Up(p.err, UnitVal, FALSE) /\ UNCHANGED stack
        ELSE try_from(p, "elem", Arg, stack)
  /\ UNCHANGED <<input, root, cells, shorted>>

\* {xxx:map}.sub_lhs[expr] and {xxx:map}.sub_lhs.expr.
MapInner ==
  /\ At("prop") /\ ~AtLast /\ ~ShortCircuits /\ Type(Top.val) = "map"
  /\ LET p == get_indexed_mut(Top.val, Top.ro, StrVal(Step.name), FALSE, api.failOnMissing)
     IN IF p.err # "none" THEN Up(p.err, UnitVal, FALSE) /\ UNCHANGED stack
        ELSE try_from(p, "elem", StrVal(Step.name), stack)
  /\ UNCHANGED <<input, root, cells, args, shorted>>

\* The value of a property that the getter or else the indexer returns, or its error.
PropValue(obj, p) ==
  LET v == Held(obj, StrVal(p))
  IN IF HasGetter(obj, p) \/ GetsIndex(obj)
     THEN {<<"native", UnitVal>>, IF Unmeasurable(v) THEN <<"panic", UnitVal>> ELSE <<"none", v>>}
     ELSE {<<"noprop", UnitVal>>}

\* xxx.prop[expr] and xxx.prop.expr: the value the getter returned is the next target.
GetterInner ==
  /\ At("prop") /\ ~AtLast /\ ~ShortCircuits /\ Type(Top.val) # "map"
  /\ \E r \in PropValue(Top.val, Step.name) :
       IF r[1] # "none" THEN Up(r[1], UnitVal, FALSE) /\ UNCHANGED stack
       ELSE try_from(Place("ref", r[2], FALSE, Nowhere), "getter", Step.name, stack)
  /\ UNCHANGED <<input, root, cells, args, shorted>>

-----------------------------------------------------------------------------
\* The last link: reads.
IndexRead ==
  /\ At("idx") /\ AtLast /\ ~ShortCircuits /\ act = "read"
  /\ args' = Front(args)
  /\ LET obj == Top.val
         p   == get_indexed_mut(obj, Top.ro, Arg, FALSE, api.failOnMissing)
     IN IF p.err = "noindexer" /\ GetsIndex(obj)
        THEN \/ Up("native", UnitVal, FALSE)
             \/ IF Unmeasurable(Held(obj, Arg)) THEN Up("panic", UnitVal, FALSE)
                ELSE Up("none", Held(obj, Arg), FALSE)
        ELSE IF p.err = "none" /\ Type(p.val) = "cell" /\ Locked(p.val[2])
        THEN Up("race", UnitVal, FALSE)
        ELSE Up(p.err, p.val, FALSE)
  /\ UNCHANGED <<input, root, cells, stack, shorted>>

MapRead ==
  /\ At("prop") /\ AtLast /\ ~ShortCircuits /\ act = "read" /\ Type(Top.val) = "map"
  /\ LET p == get_indexed_mut(Top.val, Top.ro, StrVal(Step.name), FALSE, api.failOnMissing)
     IN IF p.err = "none" /\ Type(p.val) = "cell" /\ Locked(p.val[2])
        THEN Up("race", UnitVal, FALSE)
        ELSE Up(p.err, p.val, FALSE)
  /\ UNCHANGED <<input, root, cells, args, stack, shorted>>

PropRead ==
  /\ At("prop") /\ AtLast /\ ~ShortCircuits /\ act = "read" /\ Type(Top.val) # "map"
  /\ \E r \in PropValue(Top.val, Step.name) : Up(r[1], r[2], FALSE)
  /\ UNCHANGED <<input, root, cells, args, stack, shorted>>

\* make_method_call: a Rust method with a `&mut` first parameter reports that it may
\* have changed its target, a function that takes it by value gets a copy of a
\* reference and empties anything else, and a script function changes `this` without
\* reporting it.
MethodOutcomes(f, m) ==
  CASE m = "native" ->
         {[err |-> e, val |-> v, updated |-> e = "none"] : e \in {"none", "native"}, v \in MethodVals}
    [] m = "plain" ->
         {[err |-> e, val |-> IF f.kind \in {"ref", "shared"} \/ f.cell # NoCell THEN f.val ELSE UnitVal,
           updated |-> FALSE] : e \in {"none", "native"}}
    [] m = "script" ->
         {[err |-> e, val |-> v, updated |-> FALSE] : e \in {"none", "script"}, v \in MethodVals}

\* A part of a value is put back into the value when the method reports a change.
make_method_call ==
  /\ At("call") /\ ~ShortCircuits
  /\ args' = SubSeq(args, 1, Len(args) - Len(Step.args))
  /\ \E o \in MethodOutcomes(Top, Step.name), v \in MethodResults :
       LET part == Top.kind = "part" /\ o.updated
           err  == IF o.err = "none" /\ Step.name # "script" /\ Unmeasurable(v) THEN "panic"
                   ELSE IF part /\ ~Propagates(Top.at, o.val) THEN "mismatch" ELSE o.err
           n    == Len(stack)
           stk0 == [stack EXCEPT ![n].val = o.val]
           stk  == IF part /\ err = "none"
                   THEN [stk0 EXCEPT ![n - 1].val = propagate_changed_value(@, Top.at, o.val)]
                   ELSE stk0
       IN IF err # "none" THEN stack' = stk /\ Up(err, UnitVal, FALSE)
          ELSE IF AtLast THEN stack' = stk /\ Up("none", v, o.updated)
          ELSE into_temp(v, "method", UnitVal, stk)
  /\ UNCHANGED <<input, root, cells, shorted>>

-----------------------------------------------------------------------------
\* eval_op_assignment: the error and the value of the target afterwards.  The built-in
\* operators are `+=` on integers and on strings.
eval_op_assignment(old, ro) ==
  IF ro THEN <<"const", old>>
  ELSE IF act = "assign" THEN <<"none", newval>>
  ELSE IF Type(old) = "int" /\ Type(newval) = "int"
  THEN IF Fits(old[2] + newval[2]) = Overflow THEN <<"arith", old>>
       ELSE <<"none", IntVal(old[2] + newval[2])>>
  ELSE IF Type(old) = "str" /\ Type(newval) \in {"str", "char"}
  THEN <<"none", StrVal(old[2] \o ToChars(newval))>>
  ELSE <<"nofn", old>>

\* check_data_size: the total length of the strings in a value, against the limit.
RECURSIVE calc_data_sizes(_)
calc_data_sizes(v) ==
  IF Type(v) = "str" THEN Len(v[2])
  ELSE IF Type(v) \in {"arr", "map"}
  THEN MapThenSumSet(LAMBDA k : calc_data_sizes(v[2][k]), DOMAIN v[2])
  ELSE 0

check_data_size(v) == api.maxLen # NoLimit /\ calc_data_sizes(v) > api.maxLen

\* xxx[rhs] op= new_val and {xxx:map}.id op= new_val, where the place can be referenced:
\* the value is assigned in place, a part is then put back, and only then is the size
\* checked.
AssignPlace(p, checked(_, _)) ==
  LET n      == Len(stack)
      obj    == Top.val
      shared == Type(p.val) = "cell"
      r      == IF shared THEN eval_op_assignment(cells[p.val[2]], FALSE)
                ELSE eval_op_assignment(p.val, p.ro)
      err    == IF r[1] = "none" /\ p.kind = "part" /\ ~Propagates(p.at, r[2])
                THEN "mismatch" ELSE r[1]
      obj2   == IF p.kind = "part"
                THEN IF err = "none" THEN propagate_changed_value(obj, p.at, r[2]) ELSE obj
                ELSE PutRef(obj, p.at, IF shared THEN p.val ELSE r[2])
  IN IF shared /\ Locked(p.val[2])
     THEN Up("race", UnitVal, FALSE) /\ UNCHANGED <<stack, cells>>
     ELSE /\ stack' = [stack EXCEPT ![n].val = obj2]
          /\ cells' = IF shared THEN [cells EXCEPT ![p.val[2]] = r[2]] ELSE cells
          /\ Up(IF err = "none" /\ checked(r[2], obj2) THEN "size" ELSE err, UnitVal, err = "none")

\* The indexer of the Rust type: an op-assignment first gets the value, and goes on with
\* the new value alone when the getter fails.  The lock of a shared value is unwrapped.
AssignIndexer(obj, idx) ==
  LET n == Len(stack)
      Fail(e) == Up(e, UnitVal, FALSE) /\ UNCHANGED stack
      Set(v) == IF ~SetsIndex(obj) THEN Fail("noindexer")
                ELSE IF Top.ro THEN Fail("constcall")
                ELSE \/ Fail("native")
                     \/ stack' = [stack EXCEPT ![n].val = Store(obj, idx, v)]
                        /\ Up("none", UnitVal, TRUE)
      held   == Held(obj, idx)
      shared == Type(held) = "cell"
      r == eval_op_assignment(IF shared THEN cells[held[2]] ELSE held, FALSE)
  IN \/ /\ act = "op" /\ GetsIndex(obj)
        /\ IF shared /\ Locked(held[2]) THEN Fail("panic")
           ELSE IF r[1] # "none" THEN Fail(r[1])
           ELSE IF check_data_size(r[2]) THEN Fail("size")
           ELSE Set(IF shared THEN held ELSE r[2])
        /\ cells' = IF shared /\ ~Locked(held[2]) THEN [cells EXCEPT ![held[2]] = r[2]] ELSE cells
     \/ Set(newval) /\ UNCHANGED cells

IndexAssign ==
  /\ At("idx") /\ AtLast /\ ~ShortCircuits /\ act # "read"
  /\ args' = Front(args)
  /\ LET p == get_indexed_mut(Top.val, Top.ro, Arg, TRUE, api.failOnMissing)
     IN IF p.err = "noindexer"
        THEN AssignIndexer(Top.val, Arg)
        ELSE IF p.err # "none" THEN Up(p.err, UnitVal, FALSE) /\ UNCHANGED <<stack, cells>>
        ELSE AssignPlace(p, LAMBDA item, source : check_data_size(item))
  /\ UNCHANGED <<input, root, shorted>>

MapAssign ==
  /\ At("prop") /\ AtLast /\ ~ShortCircuits /\ act # "read" /\ Type(Top.val) = "map"
  /\ AssignPlace(get_indexed_mut(Top.val, Top.ro, StrVal(Step.name), TRUE, api.failOnMissing),
                 LAMBDA item, source : check_data_size(source))
  /\ UNCHANGED <<input, root, args, shorted>>

\* The setter of a property, or else the index setter: none, an error, or the object
\* with the value stored.
SetProperty(f, p, v) ==
  IF ~HasSetter(f.val, p) /\ ~SetsIndex(f.val) THEN {<<"noprop", f.val>>}
  ELSE IF f.ro THEN {<<"constcall", f.val>>}
  ELSE {<<"native", f.val>>, <<"none", Store(f.val, StrVal(p), v)>>}

\* xxx.id op= new_val: the getter, the operator and the setter in turn.  The value that
\* the getter returned is locked while the operator changes it, and then stored.
PropAssign ==
  /\ At("prop") /\ AtLast /\ ~ShortCircuits /\ act # "read" /\ Type(Top.val) # "map"
  /\ LET n == Len(stack)
         Set(v) == \E s \in SetProperty(Top, Step.name, v) :
                     /\ stack' = [stack EXCEPT ![n].val = s[2]]
                     /\ Up(s[1], UnitVal, s[1] = "none")
                     /\ UNCHANGED cells
         Fail(e) == Up(e, UnitVal, FALSE) /\ UNCHANGED <<stack, cells>>
     IN IF act = "assign" THEN Set(newval)
        ELSE \E g \in PropValue(Top.val, Step.name) :
               LET c == IF Type(g[2]) = "cell" THEN g[2][2] ELSE NoCell
                   r == eval_op_assignment(IF c = NoCell THEN g[2] ELSE cells[c], FALSE)
               IN IF g[1] # "none" THEN Fail(g[1])
                  ELSE IF c # NoCell /\ Locked(c) THEN Fail("race")
                  ELSE IF r[1] # "none" THEN Fail(r[1])
                  ELSE IF c = NoCell THEN Set(r[2])
                  ELSE \E s \in SetProperty(Top, Step.name, g[2]) :
                         /\ stack' = [stack EXCEPT ![n].val = s[2]]
                         /\ Up(s[1], UnitVal, s[1] = "none")
                         /\ cells' = [cells EXCEPT ![c] = r[2]]
  /\ UNCHANGED <<input, root, args, shorted>>

-----------------------------------------------------------------------------
Changed == out.err = "none" /\ out.changed
Pop     == Front(stack)
Parent  == stack[Len(stack) - 1]
WriteParent(v) == stack' = [Pop EXCEPT ![Len(stack) - 1].val = v]
\* What the end of a lock leaves in the shared cell.
Release(v) == cells' = IF Top.cell = NoCell THEN cells ELSE [cells EXCEPT ![Top.cell] = v]

\* Out of a place of an array or a map, which was changed in place; other targets that
\* are neither references nor values of getters are dropped.
LeavePlace ==
  /\ phase = "up" /\ Len(stack) > 1 /\ Top.how \in {"elem", "method"}
  /\ IF Top.kind = "ref" THEN WriteParent(PutRef(Parent.val, Top.at, Top.val)) ELSE stack' = Pop
  /\ Release(Top.val)
  /\ UNCHANGED <<input, root, args, phase, out, shorted>>

\* Out of an indexed value that was changed: the index setter, if there is one.
LeaveIndexer ==
  /\ phase = "up" /\ Len(stack) > 1 /\ Top.how = "indexer"
  /\ IF Changed /\ SetsIndex(Parent.val)
     THEN IF Parent.ro THEN Up("constcall", UnitVal, FALSE) /\ stack' = Pop
          ELSE \/ Up("native", UnitVal, FALSE) /\ stack' = Pop
               \/ /\ WriteParent(Store(Parent.val, Top.key,
                                       IF Top.cell = NoCell THEN Top.val ELSE CellVal(Top.cell)))
                  /\ UNCHANGED <<phase, out>>
     ELSE stack' = Pop /\ UNCHANGED <<phase, out>>
  /\ Release(Top.val)
  /\ UNCHANGED <<input, root, args, shorted>>

\* Mutant: the changed value is not fed back.
LeaveGetter_forgets ==
  /\ phase = "up" /\ Len(stack) > 1 /\ Top.how = "getter"
  /\ IF TRUE THEN stack' = Pop /\ Release(Top.val) /\ UNCHANGED <<phase, out>>
     ELSE \E s \in SetProperty(Parent, Top.key, Top.val) :
            /\ WriteParent(s[2])
            /\ IF s[1] \in {"none", "noprop"} THEN UNCHANGED <<phase, out>>
               ELSE Up(s[1], UnitVal, FALSE)
            /\ Release(IF s[1] = "none" THEN UnitVal ELSE Top.val)
  /\ UNCHANGED <<input, root, args, shorted>>

\* Out of the value of a property that was changed: the setter, or the index setter,
\* or nothing when the property is read-only.  The setter takes the value away, out of
\* the shared cell too.
LeaveGetter ==
  /\ phase = "up" /\ Len(stack) > 1 /\ Top.how = "getter"
  /\ IF ~Changed THEN stack' = Pop /\ Release(Top.val) /\ UNCHANGED <<phase, out>>
     ELSE \E s \in SetProperty(Parent, Top.key, Top.val) :
            /\ WriteParent(s[2])
            /\ IF s[1] \in {"none", "noprop"} THEN UNCHANGED <<phase, out>>
               ELSE Up(s[1], UnitVal, FALSE)
            /\ Release(IF s[1] = "none" THEN UnitVal ELSE Top.val)
  /\ UNCHANGED <<input, root, args, shorted>>

\* The variable at the root was changed in place.
LeaveRoot ==
  /\ phase = "up" /\ Len(stack) = 1
  /\ root' = IF Top.kind = "ref" THEN Top.val ELSE root
  /\ Release(Top.val)
  /\ stack' = <<>> /\ phase' = "done"
  /\ UNCHANGED <<input, args, out, shorted>>

Next ==
  \/ Begin \/ eval_dot_index_chain_arguments \/ eval_dot_index_chain \/ NullConditional
  \/ IndexInner \/ MapInner \/ GetterInner \/ IndexRead \/ MapRead \/ PropRead
  \/ make_method_call \/ IndexAssign \/ MapAssign \/ PropAssign
  \/ LeavePlace \/ LeaveIndexer \/ LeaveGetter \/ LeaveRoot

Spec == Init /\ [][Next]_vars

-----------------------------------------------------------------------------
(***************************************************************************)
(* What a chain should do, on values without cells.                        *)
(***************************************************************************)
\* A value with the contents of shared cells in their place, n levels deep.
RECURSIVE Expand(_, _, _)
Expand(v, cs, n) ==
  IF n = 0 THEN UnitVal
  ELSE CASE Type(v) = "cell" -> Expand(cs[v[2]], cs, n)
         [] Type(v) \in {"arr", "map", "obj"} ->
              <<Type(v), [k \in DOMAIN v[2] |-> Expand(v[2][k], cs, n - 1)]>>
         [] OTHER -> v

KeyOf(s) == IF s.k = "idx" THEN s.args[1] ELSE StrVal(s.name)

\* The value at one link, and a value with x at that link.
GetAt(v, s) ==
  IF Type(v) = "obj" THEN Held(v, KeyOf(s))
  ELSE LET p == get_indexed_mut(v, FALSE, KeyOf(s), TRUE, FALSE)
       IN IF p.err = "none" THEN p.val ELSE UnitVal

PutAt(v, s, x) ==
  IF Type(v) = "obj" THEN Store(v, KeyOf(s), x)
  ELSE LET p == get_indexed_mut(v, FALSE, KeyOf(s), TRUE, FALSE)
           i == calc_index(Len(v[2]), KeyOf(s)[2], TRUE)
       IN CASE p.err # "none" -> v
            [] p.kind = "ref" -> PutRef(v, p.at, x)
            [] ~Propagates(p.at, x) -> v
            [] p.at[1] = "char" -> StrVal([v[2] EXCEPT ![i + 1] = x[2]])
            [] OTHER -> propagate_changed_value(v, p.at, x)

RECURSIVE GetPath(_, _), PutPath(_, _, _)
GetPath(v, path) == IF path = <<>> THEN v ELSE GetPath(GetAt(v, Head(path)), Tail(path))
PutPath(v, path, x) ==
  IF path = <<>> THEN x
  ELSE PutAt(v, Head(path), PutPath(GetAt(v, Head(path)), Tail(path), x))

Was     == Expand(before.root, before.cells, MaxSteps + 2)
Is      == Expand(root, cells, MaxSteps + 2)
Old     == GetPath(Was, steps)
Assigned == IF act = "op" THEN eval_op_assignment(Old, FALSE)[2] ELSE newval
Ideal   == PutPath(Was, steps, Assigned)

\* Targets of the links before the last.
Inner(i) == GetPath(Was, SubSeq(steps, 1, i - 1))
Part_(i) == Type(Inner(i)) \in {"int", "str", "blob"}
PartInside == \E i \in 1..(Len(steps) - 1) : Part_(i)
\* A link through an object that cannot store.
ReadOnlyLink ==
  \E i \in DOMAIN steps :
    Type(Inner(i)) = "obj" /\ ~api.idxSet /\ ~(steps[i].k = "prop" /\ steps[i].name \in api.setters)
\* A character counted from the end is written elsewhere.
FromEnd == Part_(Len(steps)) /\ Type(KeyOf(steps[Len(steps)])) = "int"
           /\ Type(Inner(Len(steps))) = "str" /\ KeyOf(steps[Len(steps)])[2] < 0
\* A property of a Rust type that holds a shared value, or a cell that holds itself.
SharedHeld ==
  \/ Type(before.root) = "obj" /\ \E k \in DOMAIN before.root[2] : Type(before.root[2][k]) = "cell"
  \/ Type(before.root) = "cell" /\ LET v == before.cells[before.root[2]]
                                  IN Type(v) \in {"map", "obj"}
                                     /\ \E k \in DOMAIN v[2] : Type(v[2][k]) = "cell"
\* An op-assignment through an indexer whose getter may have failed.
IndexedOp == act = "op" /\ steps[Len(steps)].k = "idx" /\ Type(Inner(Len(steps))) = "obj"

Ended == phase = "done" /\ out.err # "arg"

TypeOK ==
  /\ const \in BOOLEAN /\ shorted \in BOOLEAN
  /\ act \in {"read", "assign", "op"}
  /\ phase \in {"begin", "args", "locate", "down", "up", "done"}
  /\ Len(steps) <= MaxSteps /\ Len(stack) <= Len(steps)
  /\ \A i \in DOMAIN stack :
       /\ stack[i].kind \in {"ref", "shared", "temp", "part"}
       /\ stack[i].how \in {"root", "expr", "elem", "getter", "indexer", "method"}

\* Every link finds its own index and arguments on top of idx_values, whatever links
\* before it took, although all were evaluated before the first link was followed
\* (eval_dot_index_chain_arguments pushes them in reverse order).
ArgsInStep ==
  phase = "down" =>
    args = FlattenSeq([i \in 1..(Len(steps) + 1 - Len(stack)) |-> steps[Len(steps) + 1 - i].args])

\* No two targets of a chain hold the lock of the same shared cell: a cell that is
\* reached again on its own path gives ErrorDataRace (Target::try_from).
NoAliasedTargets ==
  \A i, j \in DOMAIN stack :
    i # j /\ stack[i].cell # NoCell => stack[i].cell # stack[j].cell

\* A chain that only reads, without method calls, changes neither the variable nor a
\* shared cell, whether it succeeds or fails: no property is added to a map and no
\* setter is called.
ReadsChangeNothing ==
  phase = "done" /\ act = "read" /\ (\A i \in DOMAIN steps : steps[i].k # "call") =>
    root = before.root /\ cells = before.cells

\* An assignment that succeeds changes the place its chain names and nothing else, if
\* no link on the way is a part of a value or cannot be stored into.
AssignmentLands ==
  Ended /\ act # "read" /\ out.err = "none" /\ ~shorted
    /\ ~PartInside /\ ~ReadOnlyLink /\ ~FromEnd /\ ~SharedHeld /\ ~IndexedOp => Is = Ideal

\* An assignment through a part of a value (`x[0..4][1] = true`), through a property
\* without a setter, or ended by a null-conditional operator is either made or lost as
\* a whole.
AssignmentLandsOrIsLost ==
  Ended /\ act # "read" /\ out.err = "none" /\ ~FromEnd /\ ~SharedHeld /\ ~IndexedOp =>
    Is \in {Was, Ideal}

\* An assignment that fails leaves the variable as it was, except that a missing
\* property of a map may have been added as (), and that a value found too large has
\* been assigned already.
FailureKeepsRoot ==
  Ended /\ act # "read" /\ out.err # "none" /\ ~SharedHeld /\ ~FromEnd =>
    \/ Is = Was
    \/ out.err = "size" /\ Is = Ideal
    \/ out.err \in {"nofn", "arith"} /\ Old = UnitVal /\ Is = PutPath(Was, steps, UnitVal)

\* A lock that is unwrapped is never held already.
NeverPanics == out.err # "panic"

\* Only a method or an indexer of a Rust type that returned the value of a cell of the
\* chain makes it unwrap a lock that is held, unless sizes are limited: whatever cells a
\* variable, its items and its properties share, a chain of them ends in a value or an error.
NoPanic ==
  \/ NeverPanics \/ api.maxLen # NoLimit
  \/ \E i \in DOMAIN steps : steps[i].k = "call" \/ (steps[i].k = "idx" /\ Type(Inner(i)) = "obj")

\* A constant is not changed by an assignment through it, if the assignment is not to a
\* part of a string, an integer or a blob and adds no property to a map; what the cells in
\* an array or a map hold is not the constant's own.
ConstantKeepsItems ==
  phase = "done" /\ const /\ act # "read" /\ ~Part_(Len(steps)) /\ Old # UnitVal =>
    /\ root = before.root
    /\ Type(root) = "cell" => cells[root[2]] = before.cells[root[2]]

\* The links of a chain get their own arguments, and no two of them the same place.
TargetsHold == TypeOK /\ ArgsInStep /\ NoAliasedTargets /\ NoPanic

\* Reading changes nothing, and an assignment what it names, as a whole or not at all.
AssignmentsLand ==
  ReadsChangeNothing /\ AssignmentLands /\ AssignmentLandsOrIsLost /\ FailureKeepsRoot
=============================================================================
