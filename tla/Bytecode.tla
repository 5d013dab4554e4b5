------------------------------ MODULE Bytecode ------------------------------
(***************************************************************************)
(* The instructions of Grain as bytes: grain/bytecode/code.rs and op.rs.   *)
(*                                                                         *)
(* An instruction is a record whose field "op" names it, with the fields   *)
(* of the variant of Op; an Option is <<>> or <<x>>, a BinOperand is       *)
(* <<"local", slot>> or <<"const", index>> and a Receiver is one of these, *)
(* <<"named", index>> or <<"this">>.  Code is a sequence of bytes; an      *)
(* address counts from 0, as in the source.                                *)
(***************************************************************************)
EXTENDS Integers, Sequences, SequencesExt

\* F(v), with v evaluated first.
Given(v, F(_)) == CHOOSE y \in {F(z) : z \in {v}} : TRUE

\* F applied sixteen times: loops make so many turns at once, to nest less.
Twice(v, F(_)) == Given(F(v), F)
Often(v, F(_)) ==
  Twice(v, LAMBDA a : Twice(a, LAMBDA b : Twice(b, LAMBDA c : Twice(c, F))))

\* mod tag: the instructions in the order of their first bytes, from 0x01.
Tags == <<
  "CONST", "UNIT", "FALSE", "TRUE", "LOAD_LOCAL", "STORE_LOCAL", "ASSIGN_LOCAL",
  "ASSIGN_LOCAL_OP", "DECLARE_LOCAL", "DECLARE_CONST", "POP", "JUMP", "JUMP_IF_TRUE",
  "JUMP_IF_FALSE", "CALL", "CALL_OP", "UNWIND_TO", "TICK", "RETURN", "EVAL_AST",
  "EVAL_AST_KEEP", "CHAIN", "MAKE_ARRAY", "SWITCH", "LOAD_NAMED", "ASSIGN_NAMED",
  "ASSIGN_NAMED_OP", "THROW", "ITER_INIT", "ITER_NEXT", "ITER_DROP", "STORE_SHARED",
  "ITER_NEXT_INDEXED", "POP_HANDLER", "PUSH_HANDLER", "PUSH_HANDLER_VAR",
  "INTERPOLATE_START", "INTERPOLATE_APPEND", "INTERPOLATE_END", "MAKE_FN_PTR", "CURRY",
  "CALL_FN_PTR", "CALL_FN_PTR_METHOD", "SHARE", "SHARE_NAMED", "LOAD_SHARED",
  "MAKE_CLOSURE", "IS_SHARED", "CHECKPOINT", "CHECK_ARRAY_SIZE", "CHECK_MAP_SIZE",
  "MAKE_MAP", "CALL_LOCAL_REF", "ROTATE", "CALL_NAMED_REF", "LOAD_SHARED_NAMED",
  "LOAD_THIS", "LOAD_THIS_SHARED", "REQUIRE_THIS", "ASSIGN_THIS", "ASSIGN_THIS_OP",
  "CALL_THIS_REF", "CALL_FN_PTR_ON_LOCAL", "CALL_FN_PTR_ON_NAMED", "CALL_FN_PTR_ON_THIS",
  "SKIP_IF_NOT_UNIT", "CALL_CAPTURE", "CALL_LOCAL_REF_CAPTURE", "CALL_NAMED_REF_CAPTURE",
  "CALL_THIS_REF_CAPTURE", "STATEMENT", "STORE_CONST", "BIN_OP", "ASSIGN_LOCAL_FROM",
  "ASSIGN_LOCAL_FROM_OP", "ITER_NEXT_STORE", "BIN_OP_FROM_LOCAL", "BIN_OP_FROM_CONST",
  "UN_OP", "INDEX_SET", "ASSIGN_LOCAL_FROM_CONST", "ASSIGN_LOCAL_FROM_CONST_OP",
  "BIN_OP_RHS_LOCAL", "BIN_OP_RHS_CONST", "INDEX_GET", "INDEX_GET_FROM_LOCAL",
  "INDEX_GET_FROM_CONST", "INDEX_SET_FROM_LOCAL", "INDEX_SET_FROM_CONST", "BIN_OP_JF",
  "BIN_OP_RHS_LOCAL_JF", "BIN_OP_RHS_CONST_JF", "BIN_OP_FROM_LOCAL_JF",
  "BIN_OP_FROM_CONST_JF", "CHAIN_DISCARD", "UN_OP_JF", "INDEX_SET_FROM_LOCAL_VALUE_CONST",
  "INDEX_SET_FROM_CONST_VALUE_CONST", "BIN_OP_FROM_LOCAL_JT", "BIN_OP_FROM_CONST_JT",
  "INDEX_SET_OP", "INDEX_SET_OP_FROM_LOCAL", "INDEX_SET_OP_FROM_CONST",
  "INDEX_SET_OP_FROM_LOCAL_VALUE_CONST", "INDEX_SET_OP_FROM_CONST_VALUE_CONST" >>

ByteOf == [t \in ToSet(Tags) |-> CHOOSE b \in 1..Len(Tags) : Tags[b] = t]

\* BinOpKind::LAST and UnOpKind::LAST: the kinds that from_byte knows.
BinOpKinds == 0..16
UnOpKinds == {0}

\* The name of the instruction that begins with a byte, "" if none does.
TagOf(byte) == IF byte \in 1..Len(Tags) THEN Tags[byte] ELSE ""

\* WIDTHS: the bytes of an instruction, by its tag; 0 for what is not one.
WIDTHS(tag) ==
  CASE tag \in {"UNIT", "FALSE", "TRUE", "POP", "TICK", "CHECKPOINT", "RETURN", "THROW",
                "ITER_INIT", "ITER_DROP", "POP_HANDLER", "INTERPOLATE_START",
                "INTERPOLATE_APPEND", "INTERPOLATE_END", "MAKE_FN_PTR", "IS_SHARED",
                "LOAD_THIS", "LOAD_THIS_SHARED", "REQUIRE_THIS", "ASSIGN_THIS"} -> 1
    [] tag \in {"CURRY", "ROTATE", "CALL_FN_PTR", "CALL_FN_PTR_METHOD",
                "CALL_FN_PTR_ON_THIS"} -> 2
    [] tag \in {"STATEMENT", "MAKE_MAP", "CHECK_ARRAY_SIZE", "CHECK_MAP_SIZE", "STORE_SHARED",
                "SHARE", "SHARE_NAMED", "LOAD_SHARED", "LOAD_SHARED_NAMED", "ASSIGN_THIS_OP",
                "MAKE_CLOSURE", "CONST", "LOAD_LOCAL", "STORE_LOCAL", "STORE_CONST",
                "DECLARE_LOCAL", "DECLARE_CONST", "UNWIND_TO", "EVAL_AST", "EVAL_AST_KEEP",
                "CHAIN", "CHAIN_DISCARD", "MAKE_ARRAY", "SWITCH", "LOAD_NAMED",
                "ASSIGN_NAMED"} -> 3
    [] tag \in {"CALL_THIS_REF", "CALL_THIS_REF_CAPTURE", "CALL_FN_PTR_ON_LOCAL",
                "CALL_FN_PTR_ON_NAMED", "CALL", "CALL_CAPTURE", "UN_OP"} -> 4
    [] tag \in {"ITER_NEXT", "ITER_NEXT_INDEXED", "PUSH_HANDLER", "ASSIGN_NAMED_OP",
                "ASSIGN_LOCAL", "JUMP", "JUMP_IF_TRUE", "JUMP_IF_FALSE", "SKIP_IF_NOT_UNIT",
                "INDEX_SET", "INDEX_GET"} -> 5
    [] tag \in {"CALL_OP", "BIN_OP", "CALL_LOCAL_REF", "CALL_LOCAL_REF_CAPTURE",
                "CALL_NAMED_REF", "CALL_NAMED_REF_CAPTURE", "INDEX_SET_OP"} -> 6
    [] tag \in {"PUSH_HANDLER_VAR", "ASSIGN_LOCAL_OP", "ASSIGN_LOCAL_FROM", "ITER_NEXT_STORE",
                "ASSIGN_LOCAL_FROM_CONST", "INDEX_GET_FROM_LOCAL", "INDEX_GET_FROM_CONST",
                "INDEX_SET_FROM_LOCAL", "INDEX_SET_FROM_CONST"} -> 7
    [] tag \in {"INDEX_SET_OP_FROM_LOCAL", "INDEX_SET_OP_FROM_CONST", "BIN_OP_RHS_LOCAL",
                "BIN_OP_RHS_CONST", "UN_OP_JF"} -> 8
    [] tag \in {"ASSIGN_LOCAL_FROM_OP", "ASSIGN_LOCAL_FROM_CONST_OP",
                "INDEX_SET_FROM_LOCAL_VALUE_CONST", "INDEX_SET_FROM_CONST_VALUE_CONST"} -> 9
    [] tag \in {"INDEX_SET_OP_FROM_LOCAL_VALUE_CONST", "INDEX_SET_OP_FROM_CONST_VALUE_CONST",
                "BIN_OP_FROM_LOCAL", "BIN_OP_FROM_CONST", "BIN_OP_JF"} -> 10
    [] tag \in {"BIN_OP_RHS_LOCAL_JF", "BIN_OP_RHS_CONST_JF"} -> 12
    [] tag \in {"BIN_OP_FROM_LOCAL_JF", "BIN_OP_FROM_CONST_JF", "BIN_OP_FROM_LOCAL_JT",
                "BIN_OP_FROM_CONST_JT"} -> 14
    [] OTHER -> 0

\* FORMS: what the machine asks of a tag instead of telling the tags apart.
FormsOfFrom(tag) ==
  CASE tag = "BIN_OP_FROM_CONST_JF" -> {"BRANCHES"}
    [] tag = "BIN_OP_FROM_LOCAL_JF" -> {"NAMED_IS_LOCAL", "BRANCHES"}
    [] tag = "BIN_OP_FROM_CONST_JT" -> {"BRANCHES", "TAKEN_WHEN"}
    [] tag = "BIN_OP_FROM_LOCAL_JT" -> {"NAMED_IS_LOCAL", "BRANCHES", "TAKEN_WHEN"}
    [] tag = "BIN_OP_FROM_LOCAL" -> {"NAMED_IS_LOCAL"}
    [] OTHER -> {}

FORMS(tag) ==
  CASE tag = "CALL_CAPTURE" -> {"CAPTURES"}
    [] tag = "CALL_OP" -> {"POOLED_OP"}
    [] tag = "UN_OP" -> {"UNARY"}
    [] tag = "UN_OP_JF" -> {"UNARY", "BRANCHES"}
    [] tag = "BIN_OP" -> {"TYPED", "POOLED_OP"}
    [] tag = "BIN_OP_JF" -> {"TYPED", "POOLED_OP", "BRANCHES"}
    [] tag = "BIN_OP_RHS_CONST" -> {"TYPED", "POOLED_OP", "NAMES_RHS"}
    [] tag = "BIN_OP_RHS_LOCAL" -> {"TYPED", "POOLED_OP", "NAMES_RHS", "NAMED_IS_LOCAL"}
    [] tag = "BIN_OP_RHS_CONST_JF" -> {"TYPED", "POOLED_OP", "NAMES_RHS", "BRANCHES"}
    [] tag = "BIN_OP_RHS_LOCAL_JF" -> {"TYPED", "POOLED_OP", "NAMES_RHS", "NAMED_IS_LOCAL", "BRANCHES"}
    [] tag \in {"BIN_OP_FROM_CONST", "BIN_OP_FROM_LOCAL", "BIN_OP_FROM_CONST_JF", "BIN_OP_FROM_LOCAL_JF",
                "BIN_OP_FROM_CONST_JT", "BIN_OP_FROM_LOCAL_JT"} ->
         {"TYPED", "POOLED_OP", "NAMES_FROM"} \cup FormsOfFrom(tag)
    [] OTHER -> {}
-----------------------------------------------------------------------------
\* encoded_width: the bytes that assemble will emit for an instruction.
encoded_width(o) ==
  CASE o.op \in {"Unit", "Bool", "Pop", "Tick", "Checkpoint", "Throw", "IterInit", "IterDrop",
                 "PopHandler", "InterpolateStart", "InterpolateAppend", "InterpolateEnd",
                 "MakeFnPtr", "IsShared", "LoadThis", "LoadThisShared", "RequireThis",
                 "Return"} -> 1
    [] o.op \in {"Curry", "Rotate"} -> 2
    [] o.op = "CallFnPtr" ->
         IF o.receiver # <<>> /\ o.receiver[1][1] \in {"local", "named"} THEN 4 ELSE 2
    [] o.op \in {"Const", "LoadLocal", "StoreLocal", "DeclareLocal", "UnwindTo", "Statement",
                 "EvalAst", "Chain", "Switch", "LoadNamed", "StoreShared", "Share", "ShareNamed",
                 "LoadShared", "LoadSharedNamed", "MakeClosure", "MakeArray", "MakeMap",
                 "CheckSize"} -> 3
    [] o.op = "AssignThis" -> IF o.opr = <<>> THEN 1 ELSE 3
    [] o.op = "AssignNamed" -> IF o.opr = <<>> THEN 3 ELSE 5
    [] o.op = "Call" -> IF o.opr = <<>> THEN 4 ELSE 6
    [] o.op = "UnOp" -> IF o.branch = <<>> THEN 4 ELSE 8
    [] o.op = "CallRef" -> IF o.receiver[1] = "this" THEN 4 ELSE 6
    [] o.op \in {"Jump", "JumpIfTrue", "JumpIfFalse", "SkipIfNotUnit", "IterNext"} -> 5
    [] o.op = "IndexGet" -> IF o.index = <<>> THEN 5 ELSE 7
    [] o.op = "PushHandler" -> IF o.catch_var = <<>> THEN 5 ELSE 7
    [] o.op = "IndexSet" -> 5 + 2 * Len(o.index) + 2 * Len(o.value) + Len(o.kind)
    [] o.op = "BinOp" -> 6 + 2 * Len(o.rhs) + 4 * Len(o.branch)
    [] o.op \in {"AssignLocal", "AssignLocalFrom"} ->
         (IF o.op = "AssignLocal" THEN 5 ELSE 7) + 2 * Len(o.opr)
    [] o.op = "IterNextStore" -> 7
    [] o.op = "BinOpFrom" -> 10 + 4 * Len(o.branch)

\* What follows the tag: a byte, a slot or a count, an index into a pool, a target.
u8(n) == <<"u8", n>>
u16(n) == <<"u16", n>>
pool(n) == <<"pool", n>>
target(n) == <<"target", n>>

\* operand_index
operand_index(b) == IF b[1] = "local" THEN u16(b[2]) ELSE pool(b[2])

\* An Option's operand, if it is there.
Some(opt, F(_)) == [i \in DOMAIN opt |-> F(opt[i])]

\* assemble: the tag of an instruction, and its operands in the order of their bytes.
\* Constants, variables and `this`:
EncodeValue(o) ==
  CASE o.op = "Const" -> <<"CONST", <<pool(o.index)>>>>
    [] o.op = "Unit" -> <<"UNIT", <<>>>>
    [] o.op = "Bool" -> <<IF o.value THEN "TRUE" ELSE "FALSE", <<>>>>
    [] o.op = "LoadLocal" -> <<"LOAD_LOCAL", <<u16(o.slot)>>>>
    [] o.op = "StoreLocal" -> <<IF o.is_const THEN "STORE_CONST" ELSE "STORE_LOCAL", <<u16(o.slot)>>>>
    [] o.op = "AssignLocal" ->
         <<IF o.opr = <<>> THEN "ASSIGN_LOCAL" ELSE "ASSIGN_LOCAL_OP",
           <<u16(o.slot), pool(o.var_name)>> \o Some(o.opr, pool)>>
    [] o.op = "LoadThis" -> <<"LOAD_THIS", <<>>>>
    [] o.op = "LoadThisShared" -> <<"LOAD_THIS_SHARED", <<>>>>
    [] o.op = "RequireThis" -> <<"REQUIRE_THIS", <<>>>>
    [] o.op = "AssignThis" ->
         <<IF o.opr = <<>> THEN "ASSIGN_THIS" ELSE "ASSIGN_THIS_OP", Some(o.opr, pool)>>
    [] o.op = "LoadNamed" -> <<"LOAD_NAMED", <<pool(o.name)>>>>
    [] o.op = "AssignNamed" ->
         <<IF o.opr = <<>> THEN "ASSIGN_NAMED" ELSE "ASSIGN_NAMED_OP",
           <<pool(o.name)>> \o Some(o.opr, pool)>>
    [] o.op = "AssignLocalFrom" ->
         <<CASE o.src[1] = "local" /\ o.opr # <<>> -> "ASSIGN_LOCAL_FROM_OP"
             [] o.src[1] = "local" /\ o.opr = <<>> -> "ASSIGN_LOCAL_FROM"
             [] o.src[1] = "const" /\ o.opr # <<>> -> "ASSIGN_LOCAL_FROM_CONST_OP"
             [] OTHER -> "ASSIGN_LOCAL_FROM_CONST",
           <<u16(o.slot), pool(o.var_name), operand_index(o.src)>> \o Some(o.opr, pool)>>
    [] o.op = "DeclareLocal" ->
         <<IF o.is_const THEN "DECLARE_CONST" ELSE "DECLARE_LOCAL", <<pool(o.name)>>>>
    [] o.op = "Pop" -> <<"POP", <<>>>>

Jumps == [Jump |-> "JUMP", JumpIfTrue |-> "JUMP_IF_TRUE", JumpIfFalse |-> "JUMP_IF_FALSE",
          SkipIfNotUnit |-> "SKIP_IF_NOT_UNIT"]

EncodeJump(o) == <<Jumps[o.op], <<target(o.target)>>>>

\* Calls and operators:
EncodeCall(o) ==
  CASE o.op = "Call" ->
         <<CASE o.opr # <<>> -> "CALL_OP" [] o.capture -> "CALL_CAPTURE" [] OTHER -> "CALL",
           <<pool(o.name), u8(o.argc)>> \o Some(o.opr, pool)>>
    [] o.op = "BinOp" ->
         <<CASE o.rhs = <<>> -> IF o.branch = <<>> THEN "BIN_OP" ELSE "BIN_OP_JF"
             [] o.rhs # <<>> /\ o.rhs[1][1] = "local" ->
                  IF o.branch = <<>> THEN "BIN_OP_RHS_LOCAL" ELSE "BIN_OP_RHS_LOCAL_JF"
             [] OTHER -> IF o.branch = <<>> THEN "BIN_OP_RHS_CONST" ELSE "BIN_OP_RHS_CONST_JF",
           <<pool(o.name), u8(o.kind), pool(o.opr)>>
             \o Some(o.rhs, operand_index) \o Some(o.branch, target)>>
    [] o.op = "UnOp" ->
         <<IF o.branch = <<>> THEN "UN_OP" ELSE "UN_OP_JF",
           <<pool(o.name), u8(o.kind)>> \o Some(o.branch, target)>>
    [] o.op = "CallRef" ->
         <<CASE o.receiver[1] = "local" -> IF o.capture THEN "CALL_LOCAL_REF_CAPTURE" ELSE "CALL_LOCAL_REF"
             [] o.receiver[1] = "named" -> IF o.capture THEN "CALL_NAMED_REF_CAPTURE" ELSE "CALL_NAMED_REF"
             [] OTHER -> IF o.capture THEN "CALL_THIS_REF_CAPTURE" ELSE "CALL_THIS_REF",
           <<pool(o.name), u8(o.argc)>>
             \o (IF o.receiver[1] = "this" THEN <<>> ELSE <<operand_index(o.receiver)>>)>>
    [] o.op = "Rotate" -> <<"ROTATE", <<u8(o.under)>>>>

BinOpFromTag(o) ==
  LET rhs == IF o.rhs[1] = "local" THEN "BIN_OP_FROM_LOCAL" ELSE "BIN_OP_FROM_CONST"
  IN CASE o.branch = <<>> -> rhs
       [] rhs = "BIN_OP_FROM_LOCAL" /\ o.branch # <<>> ->
            IF o.branch[1].taken_when THEN "BIN_OP_FROM_LOCAL_JT" ELSE "BIN_OP_FROM_LOCAL_JF"
       [] OTHER -> IF o.branch[1].taken_when THEN "BIN_OP_FROM_CONST_JT" ELSE "BIN_OP_FROM_CONST_JF"

EncodeBinOpFrom(o) ==
  <<BinOpFromTag(o),
    <<pool(o.name), u8(o.kind), pool(o.opr), u16(o.lhs), operand_index(o.rhs)>>
      \o Some(o.branch, LAMBDA b : target(b.target))>>

\* Chains; a value that is named without its index has no encoding.
IndexSetTag(o) ==
  LET plain == CASE o.index = <<>> -> "INDEX_SET"
                 [] o.index # <<>> /\ o.index[1][1] = "local" ->
                      IF o.value = <<>> THEN "INDEX_SET_FROM_LOCAL" ELSE "INDEX_SET_FROM_LOCAL_VALUE_CONST"
                 [] OTHER -> IF o.value = <<>> THEN "INDEX_SET_FROM_CONST" ELSE "INDEX_SET_FROM_CONST_VALUE_CONST"
      applied == [INDEX_SET |-> "INDEX_SET_OP",
                  INDEX_SET_FROM_LOCAL |-> "INDEX_SET_OP_FROM_LOCAL",
                  INDEX_SET_FROM_CONST |-> "INDEX_SET_OP_FROM_CONST",
                  INDEX_SET_FROM_LOCAL_VALUE_CONST |-> "INDEX_SET_OP_FROM_LOCAL_VALUE_CONST",
                  INDEX_SET_FROM_CONST_VALUE_CONST |-> "INDEX_SET_OP_FROM_CONST_VALUE_CONST"]
  IN IF o.kind = <<>> THEN plain ELSE applied[plain]

ValueWithoutIndex(o) == o.op = "IndexSet" /\ o.index = <<>> /\ o.value # <<>>

EncodeChain(o) ==
  CASE o.op = "Chain" -> <<IF o.discards THEN "CHAIN_DISCARD" ELSE "CHAIN", <<pool(o.chain)>>>>
    [] o.op = "IndexSet" ->
         <<IndexSetTag(o),
           <<pool(o.chain), u16(o.slot)>>
             \o Some(o.index, operand_index) \o Some(o.value, pool) \o Some(o.kind, u8)>>
    [] o.op = "IndexGet" ->
         <<CASE o.index = <<>> -> "INDEX_GET"
             [] o.index # <<>> /\ o.index[1][1] = "local" -> "INDEX_GET_FROM_LOCAL"
             [] OTHER -> "INDEX_GET_FROM_CONST",
           <<pool(o.chain), u16(o.slot)>> \o Some(o.index, operand_index)>>

\* Literals, sharing and function pointers:
EncodeMake(o) ==
  CASE o.op = "MakeArray" -> <<"MAKE_ARRAY", <<u16(o.len)>>>>
    [] o.op = "MakeMap" -> <<"MAKE_MAP", <<u16(o.len)>>>>
    [] o.op = "CheckSize" -> <<IF o.map THEN "CHECK_MAP_SIZE" ELSE "CHECK_ARRAY_SIZE", <<u16(o.index)>>>>
    [] o.op = "Share" -> <<"SHARE", <<u16(o.slot)>>>>
    [] o.op = "ShareNamed" -> <<"SHARE_NAMED", <<pool(o.name)>>>>
    [] o.op = "LoadShared" -> <<"LOAD_SHARED", <<u16(o.slot)>>>>
    [] o.op = "LoadSharedNamed" -> <<"LOAD_SHARED_NAMED", <<pool(o.name)>>>>
    [] o.op = "MakeClosure" -> <<"MAKE_CLOSURE", <<pool(o.name)>>>>
    [] o.op = "MakeFnPtr" -> <<"MAKE_FN_PTR", <<>>>>
    [] o.op = "IsShared" -> <<"IS_SHARED", <<>>>>
    [] o.op = "Curry" -> <<"CURRY", <<u8(o.argc)>>>>
    [] o.op = "CallFnPtr" ->
         CASE o.receiver = <<>> -> <<IF o.method THEN "CALL_FN_PTR_METHOD" ELSE "CALL_FN_PTR", <<u8(o.argc)>>>>
           [] o.receiver = <<<<"this">>>> -> <<"CALL_FN_PTR_ON_THIS", <<u8(o.argc)>>>>
           [] OTHER -> <<IF o.receiver[1][1] = "local" THEN "CALL_FN_PTR_ON_LOCAL" ELSE "CALL_FN_PTR_ON_NAMED",
                         <<u8(o.argc), operand_index(o.receiver[1])>>>>

\* Statements, loops and handlers:
EncodeFlow(o) ==
  CASE o.op = "InterpolateStart" -> <<"INTERPOLATE_START", <<>>>>
    [] o.op = "InterpolateAppend" -> <<"INTERPOLATE_APPEND", <<>>>>
    [] o.op = "InterpolateEnd" -> <<"INTERPOLATE_END", <<>>>>
    [] o.op = "Switch" -> <<"SWITCH", <<pool(o.index)>>>>
    [] o.op = "UnwindTo" -> <<"UNWIND_TO", <<u16(o.depth)>>>>
    [] o.op = "Tick" -> <<"TICK", <<>>>>
    [] o.op = "Checkpoint" -> <<"CHECKPOINT", <<>>>>
    [] o.op = "Statement" -> <<"STATEMENT", <<u16(o.depth)>>>>
    [] o.op = "Throw" -> <<"THROW", <<>>>>
    [] o.op = "IterInit" -> <<"ITER_INIT", <<>>>>
    [] o.op = "IterDrop" -> <<"ITER_DROP", <<>>>>
    [] o.op = "PopHandler" -> <<"POP_HANDLER", <<>>>>
    [] o.op = "PushHandler" ->
         <<IF o.catch_var = <<>> THEN "PUSH_HANDLER" ELSE "PUSH_HANDLER_VAR",
           <<target(o.target)>> \o Some(o.catch_var, pool)>>
    [] o.op = "IterNext" ->
         <<IF o.indexed THEN "ITER_NEXT_INDEXED" ELSE "ITER_NEXT", <<target(o.body)>>>>
    [] o.op = "IterNextStore" -> <<"ITER_NEXT_STORE", <<target(o.body), u16(o.slot)>>>>
    [] o.op = "StoreShared" -> <<"STORE_SHARED", <<u16(o.slot)>>>>
    [] o.op = "Return" -> <<"RETURN", <<>>>>
    [] o.op = "EvalAst" -> <<IF o.rewind_scope THEN "EVAL_AST" ELSE "EVAL_AST_KEEP", <<pool(o.residual)>>>>

ValueOps == {"Const", "Unit", "Bool", "LoadLocal", "StoreLocal", "AssignLocal", "LoadThis",
  "LoadThisShared", "RequireThis", "AssignThis", "LoadNamed", "AssignNamed", "AssignLocalFrom",
  "DeclareLocal", "Pop"}
CallOps == {"Call", "BinOp", "UnOp", "CallRef", "Rotate"}
MakeOps == {"MakeArray", "MakeMap", "CheckSize", "Share", "ShareNamed", "LoadShared",
  "LoadSharedNamed", "MakeClosure", "MakeFnPtr", "IsShared", "Curry", "CallFnPtr"}

Encode(o) ==
  CASE o.op \in ValueOps -> EncodeValue(o)
    [] o.op \in DOMAIN Jumps -> EncodeJump(o)
    [] o.op \in CallOps -> EncodeCall(o)
    [] o.op = "BinOpFrom" -> EncodeBinOpFrom(o)
    [] o.op \in {"Chain", "IndexSet", "IndexGet"} -> EncodeChain(o)
    [] o.op \in MakeOps -> EncodeMake(o)
    [] OTHER -> EncodeFlow(o)

-----------------------------------------------------------------------------
\* to_le_bytes
Le16(n) == <<n % 256, n \div 256>>
Le32(n) == Le16(n % 65536) \o Le16(n \div 65536)

\* The addresses of the instructions and of the end; instruction i, from 0, is at
\* Offsets(ops)[i + 1].
Offsets(ops) ==
  LET at[i \in 0..Len(ops)] == IF i = 0 THEN 0 ELSE at[i - 1] + encoded_width(ops[i])
  IN [i \in 1..(Len(ops) + 1) |-> at[i - 1]]

\* PoolTooLarge, JumpOutOfRange, ValueWithoutIndex: why there are no bytes for an instruction.
Unassemblable(o, offsets) ==
  \/ ValueWithoutIndex(o)
  \/ \E a \in ToSet(Encode(o)[2]) :
       (a[1] = "pool" /\ a[2] > 65535) \/ (a[1] = "target" /\ a[2] + 1 \notin DOMAIN offsets)

OperandBytes(a, offsets) ==
  CASE a[1] = "u8" -> <<a[2]>>
    [] a[1] = "target" -> Le32(offsets[a[2] + 1])
    [] OTHER -> Le16(a[2])

InstructionBytes(o, offsets) ==
  Given(Encode(o), LAMBDA e :
    <<ByteOf[e[1]]>> \o FlattenSeq([i \in DOMAIN e[2] |-> OperandBytes(e[2][i], offsets)]))

\* assemble: the bytes and the offsets, or no bytes and the reason's place.
assemble(ops) == Given(Offsets(ops), LAMBDA offsets :
     IF \E i \in DOMAIN ops : Unassemblable(ops[i], offsets)
     THEN [ok |-> FALSE, code |-> <<>>, offsets |-> offsets]
     ELSE [ok |-> TRUE, offsets |-> offsets,
           code |-> FlattenSeq([i \in DOMAIN ops |-> InstructionBytes(ops[i], offsets)])])
-----------------------------------------------------------------------------
\* u16_at and u32_at.  The numbers are compared with lengths of code only, so all from
\* 2^24 on are one number here.
ByteAt(code, at) == code[at + 1]
u16_at(code, at) == ByteAt(code, at) + 256 * ByteAt(code, at + 1)
u32_at(code, at) ==
  IF ByteAt(code, at + 3) > 0 THEN 16777216 ELSE u16_at(code, at) + 65536 * ByteAt(code, at + 2)

\* width: 0 when there is no instruction, or not all of it.
width_of(tag, code, at) == IF at + WIDTHS(tag) <= Len(code) THEN WIDTHS(tag) ELSE 0
width(code, at) == IF at < Len(code) THEN width_of(TagOf(ByteAt(code, at)), code, at) ELSE 0

\* assign_source
assign_source(tag, operand) ==
  IF tag \in {"ASSIGN_LOCAL_FROM_CONST", "ASSIGN_LOCAL_FROM_CONST_OP"} THEN <<"const", operand>>
  ELSE <<"local", operand>>

\* decode, by groups of tags; W, L and B are the word, the long word and the byte that are
\* some bytes into the instruction.
DecodeValue(t, code, at) ==
  CASE t = "CONST" -> [op |-> "Const", index |-> u16_at(code, at + 1)]
    [] t = "UNIT" -> [op |-> "Unit"]
    [] t = "FALSE" -> [op |-> "Bool", value |-> FALSE]
    [] t = "TRUE" -> [op |-> "Bool", value |-> TRUE]
    [] t = "LOAD_LOCAL" -> [op |-> "LoadLocal", slot |-> u16_at(code, at + 1)]
    [] t \in {"STORE_LOCAL", "STORE_CONST"} ->
         [op |-> "StoreLocal", slot |-> u16_at(code, at + 1), is_const |-> t = "STORE_CONST"]
    [] t = "ASSIGN_LOCAL" -> [op |-> "AssignLocal", slot |-> u16_at(code, at + 1), var_name |-> u16_at(code, at + 3), opr |-> <<>>]
    [] t = "ASSIGN_LOCAL_OP" ->
         [op |-> "AssignLocal", slot |-> u16_at(code, at + 1), var_name |-> u16_at(code, at + 3), opr |-> <<u16_at(code, at + 5)>>]
    [] t \in {"ASSIGN_LOCAL_FROM", "ASSIGN_LOCAL_FROM_CONST"} ->
         [op |-> "AssignLocalFrom", slot |-> u16_at(code, at + 1), var_name |-> u16_at(code, at + 3), opr |-> <<>>,
          src |-> assign_source(t, u16_at(code, at + 5))]
    [] t \in {"ASSIGN_LOCAL_FROM_OP", "ASSIGN_LOCAL_FROM_CONST_OP"} ->
         [op |-> "AssignLocalFrom", slot |-> u16_at(code, at + 1), var_name |-> u16_at(code, at + 3), opr |-> <<u16_at(code, at + 7)>>,
          src |-> assign_source(t, u16_at(code, at + 5))]
    [] t = "LOAD_NAMED" -> [op |-> "LoadNamed", name |-> u16_at(code, at + 1)]
    [] t = "ASSIGN_NAMED" -> [op |-> "AssignNamed", name |-> u16_at(code, at + 1), opr |-> <<>>]
    [] t = "ASSIGN_NAMED_OP" -> [op |-> "AssignNamed", name |-> u16_at(code, at + 1), opr |-> <<u16_at(code, at + 3)>>]
    [] t = "LOAD_THIS" -> [op |-> "LoadThis"]
    [] t = "LOAD_THIS_SHARED" -> [op |-> "LoadThisShared"]
    [] t = "REQUIRE_THIS" -> [op |-> "RequireThis"]
    [] t = "ASSIGN_THIS" -> [op |-> "AssignThis", opr |-> <<>>]
    [] t = "ASSIGN_THIS_OP" -> [op |-> "AssignThis", opr |-> <<u16_at(code, at + 1)>>]
    [] t \in {"DECLARE_LOCAL", "DECLARE_CONST"} ->
         [op |-> "DeclareLocal", name |-> u16_at(code, at + 1), is_const |-> t = "DECLARE_CONST"]
    [] t = "POP" -> [op |-> "Pop"]

DecodeCall(t, code, at) ==
  CASE t \in {"CALL", "CALL_CAPTURE"} ->
         [op |-> "Call", name |-> u16_at(code, at + 1), argc |-> ByteAt(code, at + 3), opr |-> <<>>, capture |-> t = "CALL_CAPTURE"]
    [] t = "CALL_OP" -> [op |-> "Call", name |-> u16_at(code, at + 1), argc |-> ByteAt(code, at + 3), opr |-> <<u16_at(code, at + 4)>>, capture |-> FALSE]
    [] t \in {"UN_OP", "UN_OP_JF"} ->
         [op |-> "UnOp", name |-> u16_at(code, at + 1), kind |-> ByteAt(code, at + 3),
          branch |-> IF t = "UN_OP_JF" THEN <<u32_at(code, at + 4)>> ELSE <<>>]
    [] t \in {"CALL_LOCAL_REF", "CALL_LOCAL_REF_CAPTURE"} ->
         [op |-> "CallRef", name |-> u16_at(code, at + 1), argc |-> ByteAt(code, at + 3), receiver |-> <<"local", u16_at(code, at + 4)>>,
          capture |-> t = "CALL_LOCAL_REF_CAPTURE"]
    [] t \in {"CALL_THIS_REF", "CALL_THIS_REF_CAPTURE"} ->
         [op |-> "CallRef", name |-> u16_at(code, at + 1), argc |-> ByteAt(code, at + 3), receiver |-> <<"this">>,
          capture |-> t = "CALL_THIS_REF_CAPTURE"]
    [] t \in {"CALL_NAMED_REF", "CALL_NAMED_REF_CAPTURE"} ->
         [op |-> "CallRef", name |-> u16_at(code, at + 1), argc |-> ByteAt(code, at + 3), receiver |-> <<"named", u16_at(code, at + 4)>>,
          capture |-> t = "CALL_NAMED_REF_CAPTURE"]
    [] t = "ROTATE" -> [op |-> "Rotate", under |-> ByteAt(code, at + 1)]
    [] OTHER ->
         [op |-> "BinOp", name |-> u16_at(code, at + 1), opr |-> u16_at(code, at + 4), kind |-> ByteAt(code, at + 3),
          rhs |-> CASE t \in {"BIN_OP_RHS_LOCAL", "BIN_OP_RHS_LOCAL_JF"} -> <<<<"local", u16_at(code, at + 6)>>>>
                    [] t \in {"BIN_OP_RHS_CONST", "BIN_OP_RHS_CONST_JF"} -> <<<<"const", u16_at(code, at + 6)>>>>
                    [] OTHER -> <<>>,
          branch |-> CASE t = "BIN_OP_JF" -> <<u32_at(code, at + 6)>>
                       [] t \in {"BIN_OP_RHS_LOCAL_JF", "BIN_OP_RHS_CONST_JF"} -> <<u32_at(code, at + 8)>>
                       [] OTHER -> <<>>]

DecodeBinOpFrom(t, code, at) ==
  [op |-> "BinOpFrom", name |-> u16_at(code, at + 1), kind |-> ByteAt(code, at + 3), opr |-> u16_at(code, at + 4), lhs |-> u16_at(code, at + 6),
   rhs |-> IF t \in {"BIN_OP_FROM_LOCAL", "BIN_OP_FROM_LOCAL_JF", "BIN_OP_FROM_LOCAL_JT"}
           THEN <<"local", u16_at(code, at + 8)>> ELSE <<"const", u16_at(code, at + 8)>>,
   branch |-> CASE t \in {"BIN_OP_FROM_LOCAL_JF", "BIN_OP_FROM_CONST_JF"} ->
                     <<[target |-> u32_at(code, at + 10), taken_when |-> FALSE]>>
                [] t \in {"BIN_OP_FROM_LOCAL_JT", "BIN_OP_FROM_CONST_JT"} ->
                     <<[target |-> u32_at(code, at + 10), taken_when |-> TRUE]>>
                [] OTHER -> <<>>]

ValueConst == {"INDEX_SET_FROM_LOCAL_VALUE_CONST", "INDEX_SET_FROM_CONST_VALUE_CONST",
  "INDEX_SET_OP_FROM_LOCAL_VALUE_CONST", "INDEX_SET_OP_FROM_CONST_VALUE_CONST"}
IndexLocal == {"INDEX_SET_FROM_LOCAL", "INDEX_GET_FROM_LOCAL", "INDEX_SET_FROM_LOCAL_VALUE_CONST",
  "INDEX_SET_OP_FROM_LOCAL", "INDEX_SET_OP_FROM_LOCAL_VALUE_CONST"}
IndexConst == {"INDEX_SET_FROM_CONST", "INDEX_GET_FROM_CONST", "INDEX_SET_FROM_CONST_VALUE_CONST",
  "INDEX_SET_OP_FROM_CONST", "INDEX_SET_OP_FROM_CONST_VALUE_CONST"}
IndexGets == {"INDEX_GET", "INDEX_GET_FROM_LOCAL", "INDEX_GET_FROM_CONST"}

\* A kind of operator that there is not makes the assignment a plain one.
DecodeIndex(t, code, at) ==
  LET index == CASE t \in IndexLocal -> <<<<"local", u16_at(code, at + 5)>>>>
                 [] t \in IndexConst -> <<<<"const", u16_at(code, at + 5)>>>>
                 [] OTHER -> <<>>
      KindAt(k) == IF ByteAt(code, at + k) \in BinOpKinds THEN <<ByteAt(code, at + k)>> ELSE <<>>
      kind == CASE t = "INDEX_SET_OP" -> KindAt(5)
                [] t \in {"INDEX_SET_OP_FROM_LOCAL", "INDEX_SET_OP_FROM_CONST"} -> KindAt(7)
                [] t \in {"INDEX_SET_OP_FROM_LOCAL_VALUE_CONST",
                          "INDEX_SET_OP_FROM_CONST_VALUE_CONST"} -> KindAt(9)
                [] OTHER -> <<>>
  IN CASE t \in {"CHAIN", "CHAIN_DISCARD"} ->
            [op |-> "Chain", chain |-> u16_at(code, at + 1), discards |-> t = "CHAIN_DISCARD"]
       [] t \in IndexGets -> [op |-> "IndexGet", chain |-> u16_at(code, at + 1), slot |-> u16_at(code, at + 3), index |-> index]
       [] OTHER -> [op |-> "IndexSet", chain |-> u16_at(code, at + 1), slot |-> u16_at(code, at + 3), index |-> index,
                    value |-> IF t \in ValueConst THEN <<u16_at(code, at + 7)>> ELSE <<>>, kind |-> kind]

DecodeMake(t, code, at) ==
  CASE t = "SWITCH" -> [op |-> "Switch", index |-> u16_at(code, at + 1)]
    [] t = "MAKE_ARRAY" -> [op |-> "MakeArray", len |-> u16_at(code, at + 1)]
    [] t = "MAKE_MAP" -> [op |-> "MakeMap", len |-> u16_at(code, at + 1)]
    [] t \in {"CHECK_ARRAY_SIZE", "CHECK_MAP_SIZE"} ->
         [op |-> "CheckSize", index |-> u16_at(code, at + 1), map |-> t = "CHECK_MAP_SIZE"]
    [] t = "SHARE" -> [op |-> "Share", slot |-> u16_at(code, at + 1)]
    [] t = "SHARE_NAMED" -> [op |-> "ShareNamed", name |-> u16_at(code, at + 1)]
    [] t = "LOAD_SHARED" -> [op |-> "LoadShared", slot |-> u16_at(code, at + 1)]
    [] t = "LOAD_SHARED_NAMED" -> [op |-> "LoadSharedNamed", name |-> u16_at(code, at + 1)]
    [] t = "MAKE_CLOSURE" -> [op |-> "MakeClosure", name |-> u16_at(code, at + 1)]
    [] t = "MAKE_FN_PTR" -> [op |-> "MakeFnPtr"]
    [] t = "IS_SHARED" -> [op |-> "IsShared"]
    [] t = "CURRY" -> [op |-> "Curry", argc |-> ByteAt(code, at + 1)]
    [] t \in {"CALL_FN_PTR", "CALL_FN_PTR_METHOD"} ->
         [op |-> "CallFnPtr", argc |-> ByteAt(code, at + 1), method |-> t = "CALL_FN_PTR_METHOD", receiver |-> <<>>]
    [] t = "CALL_FN_PTR_ON_LOCAL" ->
         [op |-> "CallFnPtr", argc |-> ByteAt(code, at + 1), method |-> TRUE, receiver |-> <<<<"local", u16_at(code, at + 2)>>>>]
    [] t = "CALL_FN_PTR_ON_NAMED" ->
         [op |-> "CallFnPtr", argc |-> ByteAt(code, at + 1), method |-> TRUE, receiver |-> <<<<"named", u16_at(code, at + 2)>>>>]
    [] t = "CALL_FN_PTR_ON_THIS" ->
         [op |-> "CallFnPtr", argc |-> ByteAt(code, at + 1), method |-> TRUE, receiver |-> <<<<"this">>>>]

DecodeFlow(t, code, at) ==
  CASE t = "JUMP" -> [op |-> "Jump", target |-> u32_at(code, at + 1)]
    [] t = "JUMP_IF_TRUE" -> [op |-> "JumpIfTrue", target |-> u32_at(code, at + 1)]
    [] t = "JUMP_IF_FALSE" -> [op |-> "JumpIfFalse", target |-> u32_at(code, at + 1)]
    [] t = "SKIP_IF_NOT_UNIT" -> [op |-> "SkipIfNotUnit", target |-> u32_at(code, at + 1)]
    [] t = "INTERPOLATE_START" -> [op |-> "InterpolateStart"]
    [] t = "INTERPOLATE_APPEND" -> [op |-> "InterpolateAppend"]
    [] t = "INTERPOLATE_END" -> [op |-> "InterpolateEnd"]
    [] t = "UNWIND_TO" -> [op |-> "UnwindTo", depth |-> u16_at(code, at + 1)]
    [] t = "TICK" -> [op |-> "Tick"]
    [] t = "CHECKPOINT" -> [op |-> "Checkpoint"]
    [] t = "STATEMENT" -> [op |-> "Statement", depth |-> u16_at(code, at + 1)]
    [] t = "THROW" -> [op |-> "Throw"]
    [] t = "ITER_INIT" -> [op |-> "IterInit"]
    [] t = "ITER_DROP" -> [op |-> "IterDrop"]
    [] t \in {"ITER_NEXT", "ITER_NEXT_INDEXED"} ->
         [op |-> "IterNext", body |-> u32_at(code, at + 1), indexed |-> t = "ITER_NEXT_INDEXED"]
    [] t = "ITER_NEXT_STORE" -> [op |-> "IterNextStore", body |-> u32_at(code, at + 1), slot |-> u16_at(code, at + 5)]
    [] t = "STORE_SHARED" -> [op |-> "StoreShared", slot |-> u16_at(code, at + 1)]
    [] t = "POP_HANDLER" -> [op |-> "PopHandler"]
    [] t = "PUSH_HANDLER" -> [op |-> "PushHandler", target |-> u32_at(code, at + 1), catch_var |-> <<>>]
    [] t = "PUSH_HANDLER_VAR" -> [op |-> "PushHandler", target |-> u32_at(code, at + 1), catch_var |-> <<u16_at(code, at + 5)>>]
    [] t = "RETURN" -> [op |-> "Return"]
    [] t \in {"EVAL_AST", "EVAL_AST_KEEP"} ->
         [op |-> "EvalAst", residual |-> u16_at(code, at + 1), rewind_scope |-> t = "EVAL_AST"]

ValueTags == {"CONST", "UNIT", "FALSE", "TRUE", "LOAD_LOCAL", "STORE_LOCAL", "STORE_CONST",
  "ASSIGN_LOCAL", "ASSIGN_LOCAL_OP", "ASSIGN_LOCAL_FROM", "ASSIGN_LOCAL_FROM_CONST",
  "ASSIGN_LOCAL_FROM_OP", "ASSIGN_LOCAL_FROM_CONST_OP", "LOAD_NAMED", "ASSIGN_NAMED",
  "ASSIGN_NAMED_OP", "LOAD_THIS", "LOAD_THIS_SHARED", "REQUIRE_THIS", "ASSIGN_THIS",
  "ASSIGN_THIS_OP", "DECLARE_LOCAL", "DECLARE_CONST", "POP"}
BinOpTags == {"BIN_OP", "BIN_OP_RHS_LOCAL", "BIN_OP_RHS_CONST", "BIN_OP_JF",
  "BIN_OP_RHS_LOCAL_JF", "BIN_OP_RHS_CONST_JF"}
CallTags == BinOpTags \cup {"CALL", "CALL_CAPTURE", "CALL_OP", "UN_OP", "UN_OP_JF", "CALL_LOCAL_REF",
  "CALL_LOCAL_REF_CAPTURE", "CALL_THIS_REF", "CALL_THIS_REF_CAPTURE", "CALL_NAMED_REF",
  "CALL_NAMED_REF_CAPTURE", "ROTATE"}
BinOpFromTags == {"BIN_OP_FROM_LOCAL", "BIN_OP_FROM_CONST", "BIN_OP_FROM_LOCAL_JF",
  "BIN_OP_FROM_CONST_JF", "BIN_OP_FROM_LOCAL_JT", "BIN_OP_FROM_CONST_JT"}
ChainTags == IndexLocal \cup IndexConst \cup {"CHAIN", "CHAIN_DISCARD", "INDEX_SET", "INDEX_GET",
  "INDEX_SET_OP"}
MakeTags == {"SWITCH", "MAKE_ARRAY", "MAKE_MAP", "CHECK_ARRAY_SIZE", "CHECK_MAP_SIZE", "SHARE",
  "SHARE_NAMED", "LOAD_SHARED", "LOAD_SHARED_NAMED", "MAKE_CLOSURE", "MAKE_FN_PTR", "IS_SHARED",
  "CURRY", "CALL_FN_PTR", "CALL_FN_PTR_METHOD", "CALL_FN_PTR_ON_LOCAL", "CALL_FN_PTR_ON_NAMED",
  "CALL_FN_PTR_ON_THIS"}

\* The kinds that an instruction may not do without.
HasKind(t, byte) ==
  CASE t \in BinOpTags \cup BinOpFromTags -> byte \in BinOpKinds
    [] t \in {"UN_OP", "UN_OP_JF"} -> byte \in UnOpKinds
    [] OTHER -> TRUE

Instruction(t, code, at) ==
  CASE t \in ValueTags -> DecodeValue(t, code, at)
    [] t \in CallTags -> DecodeCall(t, code, at)
    [] t \in BinOpFromTags -> DecodeBinOpFrom(t, code, at)
    [] t \in ChainTags -> DecodeIndex(t, code, at)
    [] t \in MakeTags -> DecodeMake(t, code, at)
    [] OTHER -> DecodeFlow(t, code, at)

\* <<the instruction at an address>>, or <<>>.
decode(code, at) ==
  LET n == width(code, at)
      t == TagOf(ByteAt(code, at))
  IN IF n = 0 \/ (n > 3 /\ ~HasKind(t, ByteAt(code, at + 3))) THEN <<>> ELSE <<Instruction(t, code, at)>>

\* disassemble: the addresses and instructions of code, up to what does not decode.
DecodeNext(q, code) ==
  IF q.at >= Len(code) THEN q
  ELSE Given(decode(code, q.at), LAMBDA o :
         IF o = <<>> THEN [q EXCEPT !.at = Len(code)]
         ELSE [at |-> q.at + width(code, q.at), list |-> Append(q.list, <<q.at, o[1]>>)])

RECURSIVE DecodeFrom(_, _)
DecodeFrom(q, code) ==
  IF q.at >= Len(code) THEN q.list
  ELSE Given(Often(q, LAMBDA r : DecodeNext(r, code)), LAMBDA r : DecodeFrom(r, code))

disassemble(code, at) == DecodeFrom([at |-> at, list |-> <<>>], code)
=============================================================================
