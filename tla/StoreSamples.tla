---------------------------- MODULE StoreSamples ----------------------------
(***************************************************************************)
(* What a lowering may hand to the end of compile: programs that together  *)
(* have every instruction in every encoding, every kind of constant, chain *)
(* and table, and what cannot be assembled or written.                     *)
(***************************************************************************)
EXTENDS CodeVerifier

Unit == [op |-> "Unit"]
Pop == [op |-> "Pop"]
Return == [op |-> "Return"]

\* An instruction whose jump, if it has one, goes to an instruction.
Aimed(o, to) ==
  CASE o.op \in DOMAIN Jumps \cup {"PushHandler"} -> [o EXCEPT !.target = to]
    [] o.op \in {"BinOp", "UnOp"} /\ o.branch # <<>> -> [o EXCEPT !.branch = <<to>>]
    [] o.op = "BinOpFrom" /\ o.branch # <<>> -> [o EXCEPT !.branch[1].target = to]
    [] OTHER -> o

\* One after the other, each with the operands that it takes and without those it leaves.
Laid(list, pools) ==
  LET laid[i \in 0..Len(list)] ==
        IF i = 0 THEN <<>>
        ELSE LET o == list[i]
                 e == effect(o, pools)
                 before == laid[i - 1] \o [j \in 1..e[1] |-> Unit]
             IN before \o <<Aimed(o, Len(before) + 1)>> \o [j \in 1..(e[1] - e[2] + e[3]) |-> Pop]
  IN laid[Len(list)]

Empty == [consts |-> <<>>, names |-> <<>>, tokens |-> <<>>, assign_ops |-> <<>>, chains |-> <<>>, switches |-> <<>>]

Sizes(p) ==
  [consts |-> Len(p.consts), names |-> Len(p.names), tokens |-> Len(p.tokens), assign_ops |-> Len(p.assign_ops),
   residuals |-> 0, chains |-> p.chains, switches |-> p.switches]

\* A program of the instructions of main and of a function's, if there are any.
Sample(main, body, pools, extra) ==
  LET ops == main \o <<Return>> \o body
      caps == extra \cup UNION {required_caps(ops[i], Sizes(pools)) : i \in DOMAIN ops}
              \cup (IF body = <<>> THEN {} ELSE {"FUNCTION"})
  IN [ops |-> ops, main_ops |-> Len(main) + 1, caps |-> caps,
      positions |-> [i \in DOMAIN ops |-> IF ops[i].op = "Pop" THEN <<0, 0>> ELSE <<1 + i \div 4, i>>],
      functions |-> IF body = <<>> THEN <<>>
                    ELSE <<[name |-> 0, params |-> <<1>>, this_type |-> <<>>, first_op |-> Len(main) + 1,
                            op_count |-> Len(body)]>>,
      consts |-> pools.consts, names |-> pools.names, tokens |-> pools.tokens, assign_ops |-> pools.assign_ops,
      chains |-> pools.chains, switches |-> pools.switches, residuals |-> 0, skipped |-> 0, max_stack |-> 9,
      has_lib |-> body # <<>>, source |-> <<>>]

Plain(list, pools, extra) == Sample(Laid(list, Sizes(pools)), <<>>, pools, extra)

Add == [op_assign |-> "PlusAssign", op_assign_name |-> 0, op |-> "Plus", op_name |-> 1]
Named == [Empty EXCEPT !.names = <<<<102>>, <<195, 169>>>>, !.consts = <<<<"INT", -1>>>>,
                       !.tokens = <<"Plus">>, !.assign_ops = <<Add>>]

Values ==
  Plain(<<[op |-> "Const", index |-> 0], [op |-> "Bool", value |-> TRUE], [op |-> "Bool", value |-> FALSE],
          [op |-> "StoreLocal", slot |-> 0, is_const |-> FALSE], [op |-> "StoreLocal", slot |-> 1, is_const |-> TRUE],
          [op |-> "LoadLocal", slot |-> 1], [op |-> "AssignLocal", slot |-> 0, var_name |-> 1, opr |-> <<>>],
          [op |-> "AssignLocal", slot |-> 0, var_name |-> 1, opr |-> <<0>>], [op |-> "LoadNamed", name |-> 1],
          [op |-> "AssignNamed", name |-> 1, opr |-> <<>>], [op |-> "AssignNamed", name |-> 1, opr |-> <<0>>],
          [op |-> "DeclareLocal", name |-> 0, is_const |-> FALSE], [op |-> "DeclareLocal", name |-> 1, is_const |-> TRUE]>>,
        Named, {})

Copies ==
  Plain([i \in 1..4 |->
           [op |-> "AssignLocalFrom", slot |-> 0, var_name |-> 1, opr |-> IF i < 3 THEN <<>> ELSE <<0>>,
            src |-> <<IF i % 2 = 1 THEN "local" ELSE "const", 0>>]]
        \o <<[op |-> "MakeArray", len |-> 2], [op |-> "MakeMap", len |-> 1],
             [op |-> "CheckSize", index |-> 1, map |-> FALSE], [op |-> "CheckSize", index |-> 2, map |-> TRUE],
             [op |-> "Statement", depth |-> 0], [op |-> "UnwindTo", depth |-> 1], [op |-> "Tick"], [op |-> "Checkpoint"]>>,
        Named, {"FLOAT"})

Calls ==
  Plain(<<[op |-> "Call", name |-> 0, argc |-> 1, opr |-> <<>>, capture |-> FALSE],
          [op |-> "Call", name |-> 0, argc |-> 0, opr |-> <<>>, capture |-> TRUE],
          [op |-> "Call", name |-> 1, argc |-> 2, opr |-> <<0>>, capture |-> FALSE],
          [op |-> "CallRef", name |-> 0, argc |-> 2, receiver |-> <<"local", 3>>, capture |-> FALSE],
          [op |-> "CallRef", name |-> 0, argc |-> 1, receiver |-> <<"local", 3>>, capture |-> TRUE],
          [op |-> "CallRef", name |-> 0, argc |-> 1, receiver |-> <<"named", 1>>, capture |-> FALSE],
          [op |-> "CallRef", name |-> 0, argc |-> 1, receiver |-> <<"named", 1>>, capture |-> TRUE],
          [op |-> "Rotate", under |-> 1]>>,
        Named, {})

BinOps ==
  LET bin(rhs, branch) == [op |-> "BinOp", name |-> 0, opr |-> 0, kind |-> 16, rhs |-> rhs, branch |-> branch]
  IN Plain(<<bin(<<>>, <<>>), bin(<<<<"local", 2>>>>, <<>>), bin(<<<<"const", 0>>>>, <<>>), bin(<<>>, <<0>>),
             bin(<<<<"local", 2>>>>, <<0>>), bin(<<<<"const", 0>>>>, <<0>>),
             [op |-> "UnOp", name |-> 1, kind |-> 0, branch |-> <<>>],
             [op |-> "UnOp", name |-> 1, kind |-> 0, branch |-> <<0>>]>>,
           [Named EXCEPT !.assign_ops = <<>>], {})

FromOps ==
  LET from(rhs, branch) ==
        [op |-> "BinOpFrom", name |-> 0, opr |-> 0, kind |-> 3, lhs |-> 1, rhs |-> rhs, branch |-> branch]
      goes(when) == <<[target |-> 0, taken_when |-> when]>>
  IN Plain(<<from(<<"local", 2>>, <<>>), from(<<"const", 0>>, <<>>), from(<<"local", 2>>, goes(TRUE)),
             from(<<"const", 0>>, goes(TRUE)), from(<<"local", 2>>, goes(FALSE)), from(<<"const", 0>>, goes(FALSE))>>,
           [Named EXCEPT !.assign_ops = <<>>], {})

Pointers ==
  LET call(argc, method, receiver) == [op |-> "CallFnPtr", argc |-> argc, method |-> method, receiver |-> receiver]
  IN Plain(<<[op |-> "MakeFnPtr"], [op |-> "Curry", argc |-> 1], call(1, FALSE, <<>>), call(1, TRUE, <<>>),
             call(0, TRUE, <<<<"local", 0>>>>), call(0, TRUE, <<<<"named", 1>>>>), [op |-> "Share", slot |-> 0],
             [op |-> "ShareNamed", name |-> 1], [op |-> "LoadShared", slot |-> 0],
             [op |-> "LoadSharedNamed", name |-> 1], [op |-> "MakeClosure", name |-> 0], [op |-> "IsShared"],
             [op |-> "StoreShared", slot |-> 1]>>,
           [Named EXCEPT !.consts = <<>>, !.tokens = <<>>, !.assign_ops = <<>>], {})

-----------------------------------------------------------------------------
Index(operand) == [kind |-> "index", flags |-> 0, operand |-> operand, pos |-> <<2, 7>>, bracket |-> <<2, 6>>]
Property == [kind |-> "property", flags |-> 1, name |-> 1, getter |-> 0, setter |-> 1, pos |-> <<300, 3>>]
Method == [kind |-> "method", flags |-> 0, name |-> 0, argc |-> 1, operand |-> 1, pos |-> <<0, 0>>]
Local == [kind |-> "local", slot |-> 0, name |-> 1]

Chains ==
  <<[root |-> Local, steps |-> <<Index(0)>>, tail |-> <<"read">>, operands |-> 1],
    [root |-> Local, steps |-> <<Index(0)>>, tail |-> <<"assign">>, operands |-> 1],
    [root |-> Local, steps |-> <<Index(0)>>, tail |-> <<"assign_op", 0>>, operands |-> 1]>>

Indices ==
  LET get(index) == [op |-> "IndexGet", chain |-> 0, slot |-> 0, index |-> index]
      set(index, value, kind) ==
        [op |-> "IndexSet", chain |-> 1 + Len(kind), slot |-> 0, index |-> index, value |-> value, kind |-> kind]
      froms == <<<<>>, <<<<"local", 1>>>>, <<<<"const", 0>>>>>>
  IN Plain([i \in 1..3 |-> get(froms[i])]
           \o [i \in 1..3 |-> set(froms[i], <<>>, <<>>)] \o [i \in 1..3 |-> set(froms[i], <<>>, <<2>>)]
           \o [i \in 1..2 |-> set(froms[i + 1], <<0>>, <<>>)] \o [i \in 1..2 |-> set(froms[i + 1], <<0>>, <<2>>)],
           [Named EXCEPT !.chains = Chains, !.tokens = <<>>], {})

Paths ==
  LET chains == <<[root |-> [kind |-> "temporary"], steps |-> <<Property, Index(0)>>, tail |-> <<"assign_op", 0>>,
                   operands |-> 1],
                  [root |-> [kind |-> "named", name |-> 1, pos |-> <<1, 1>>], steps |-> <<Index(0), Method>>,
                   tail |-> <<"read">>, operands |-> 2]>>
      chain(i, d) == [op |-> "Chain", chain |-> i, discards |-> d]
  IN Plain(<<chain(0, FALSE), chain(1, FALSE), chain(1, TRUE)>>,
           [Named EXCEPT !.chains = chains, !.tokens = <<>>, !.consts = <<>>], {"IMPORT"})

\* A function that works on `this`; and one that also makes pointers, so that the library stays.
OnThis ==
  LET chains == <<[root |-> [kind |-> "this", pos |-> <<3, 2>>], steps |-> <<Property>>, tail |-> <<"assign">>,
                   operands |-> 0]>>
      pools == [Named EXCEPT !.chains = chains, !.consts = <<>>, !.tokens = <<>>]
  IN Sample(<<Unit>>,
            Laid(<<[op |-> "Chain", chain |-> 0, discards |-> FALSE], [op |-> "RequireThis"], [op |-> "LoadThis"],
                   [op |-> "LoadThisShared"], [op |-> "AssignThis", opr |-> <<>>], [op |-> "AssignThis", opr |-> <<0>>],
                   [op |-> "CallRef", name |-> 0, argc |-> 1, receiver |-> <<"this">>, capture |-> FALSE],
                   [op |-> "CallRef", name |-> 0, argc |-> 0, receiver |-> <<"this">>, capture |-> TRUE]>>,
                 Sizes(pools)) \o <<Return>>,
            pools, {})

OneOnThis(o) ==
  Sample(<<Unit>>, Laid(<<o>>, Sizes(Named)) \o <<Return>>, [Named EXCEPT !.consts = <<>>, !.tokens = <<>>], {})

ThisPointer == OneOnThis([op |-> "CallFnPtr", argc |-> 0, method |-> TRUE, receiver |-> <<<<"this">>>>])
Typed == [OneOnThis([op |-> "RequireThis"]) EXCEPT !.functions[1].this_type = <<1>>, !.source = <<115>>]

-----------------------------------------------------------------------------
\* A loop over an iterator, one that binds a variable, and a handler.
Loops ==
  Sample(<<Unit, [op |-> "IterInit"], [op |-> "IterNext", body |-> 5, indexed |-> TRUE], Unit, [op |-> "Throw"],
           Pop, Pop, [op |-> "Jump", target |-> 2]>>,
         <<Unit, [op |-> "IterInit"], [op |-> "IterNextStore", body |-> 13, slot |-> 1],
           [op |-> "Jump", target |-> 15], [op |-> "IterDrop"], Pop, Return>>,
         [Empty EXCEPT !.names = <<<<102>>, <<120>>>>], {})

Handled ==
  Sample(<<[op |-> "PushHandler", target |-> 2, catch_var |-> <<0>>], [op |-> "Jump", target |-> 2],
           [op |-> "PopHandler"], [op |-> "PushHandler", target |-> 4, catch_var |-> <<>>],
           [op |-> "PopHandler"], Unit, [op |-> "IterInit"], [op |-> "IterNext", body |-> 9, indexed |-> FALSE],
           [op |-> "Jump", target |-> 11], Pop, [op |-> "Jump", target |-> 7],
           [op |-> "InterpolateStart"], Unit, [op |-> "InterpolateAppend"], [op |-> "InterpolateEnd"],
           [op |-> "JumpIfTrue", target |-> 16], Unit, [op |-> "JumpIfFalse", target |-> 18], Unit,
           [op |-> "SkipIfNotUnit", target |-> 20], Pop>>,
         <<>>, [Empty EXCEPT !.names = <<<<101>>>>], {})

\* Hashes that collide in the index.
Arms ==
  LET switch(cases, ranges, default) ==
        [cases |-> [i \in DOMAIN cases |-> [hash |-> cases[i][1], target |-> cases[i][2]]],
         ranges |-> ranges, default |-> default, index |-> <<>>]
      range(from, to, inclusive, at) == [from |-> from, to |-> to, inclusive |-> inclusive, target |-> at]
      first == switch(<<<<3, 2>>, <<259, 4>>, <<515, 6>>>>, <<range(-3, 2, FALSE, 4), range(2, 2, TRUE, 6)>>, 8)
      second == switch(<<>>, <<range(0, 70, TRUE, 11)>>, 10)
  IN Sample(<<Unit, [op |-> "Switch", index |-> 0], Unit, Return, Unit, Return, Unit, Return, Unit,
              [op |-> "Switch", index |-> 1], [op |-> "Tick"]>>, <<>>,
            [Empty EXCEPT !.switches = <<first, second>>], {})

\* Constants of every kind, at the ends of their ranges.
Nested(n) == LET f[i \in 0..n] == IF i = 0 THEN <<"UNIT">> ELSE <<"ARRAY", <<f[i - 1]>>>> IN f[n]
Literals ==
  Plain(<<[op |-> "Const", index |-> 12]>>,
        [Empty EXCEPT !.consts =
           <<<<"BOOL", TRUE>>, <<"BOOL", FALSE>>, <<"INT", 268435455>>, <<"INT", -268435456>>, <<"INT", 64>>,
             <<"FLOAT", <<0, 0, 0, 0, 0, 0, 240, 63>>>>, <<"CHAR", 233>>, <<"STRING", <<226, 130, 172>>>>,
             <<"ARRAY", <<<<"UNIT">>, <<"INT", 1>>>>>>, <<"MAP", (<<98>> :> <<"BOOL", TRUE>>) @@ (<<97>> :> Nested(1))>>,
             <<"BLOB", <<255, 0>>>>, <<"RANGE", -1, 63>>, <<"RANGE_INCLUSIVE", 0, -64>>>>], {"FLOAT", "ARRAY", "MAP", "BLOB"})

Holding(v) == Plain(<<[op |-> "Const", index |-> 0]>>, [Empty EXCEPT !.consts = <<v>>], {"ARRAY"})

\* No index for the value; more names than an operand can tell apart.
Unassembled ==
  Plain(<<[op |-> "IndexSet", chain |-> 1, slot |-> 0, index |-> <<>>, value |-> <<0>>, kind |-> <<>>]>>,
        [Named EXCEPT !.chains = Chains], {})
TooMany == Plain(<<[op |-> "LoadNamed", name |-> 65536]>>, Named, {})
Astray == [Arms EXCEPT !.switches[2].default = 40]
Signed == Plain(<<[op |-> "Call", name |-> 0, argc |-> 1, opr |-> <<0>>, capture |-> FALSE]>>,
                [Named EXCEPT !.tokens = <<"UnaryMinus">>], {})

\* The programs, with constants as deep as the reader follows and deeper.
Programs(depth) ==
  [values |-> Values, copies |-> Copies, calls |-> Calls, bin_ops |-> BinOps, from_ops |-> FromOps,
   pointers |-> Pointers, indices |-> Indices, paths |-> Paths, on_this |-> OnThis, this_pointer |-> ThisPointer,
   typed |-> Typed, loops |-> Loops, handled |-> Handled, arms |-> Arms, literals |-> Literals,
   deep |-> Holding(Nested(depth)), deeper |-> Holding(Nested(depth + 1)), pointer |-> Holding(<<"FN_PTR">>),
   unassembled |-> Unassembled, too_many |-> TooMany, astray |-> Astray, signed |-> Signed]

\* Subjects with the hashes of cases and others, and numbers at the ends of ranges.
SomeSubjects ==
  [hashable : BOOLEAN, hash : {3, 259, 515, 4, 771}, twice : {<<>>, <<-6>>, <<3>>, <<4>>, <<5>>, <<140>>}]
=============================================================================
