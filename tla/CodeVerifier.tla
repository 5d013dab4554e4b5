---------------------------- MODULE CodeVerifier ----------------------------
(***************************************************************************)
(* The verifier on the bytes that an artifact holds:                       *)
(* grain/bytecode/verify.rs, with what chain.rs says of chains.  Module    *)
(* GrainCode has its loop as a state machine, over a few instructions;     *)
(* here it is a function, over all of them.                                *)
(*                                                                         *)
(* A chain is [root, steps, tail, operands]; roots and steps are records   *)
(* whose field "kind" is the variant, a tail is <<"read">>, <<"assign">>   *)
(* or <<"assign_op", index>>, and a position is <<line, column>>.          *)
(***************************************************************************)
EXTENDS Bytecode, FiniteSets

\* Caps: the bits of the capabilities.
Caps == [FLOAT |-> 0, ARRAY |-> 1, BLOB |-> 2, MAP |-> 3, DECIMAL |-> 4, FUNCTION |-> 5,
         FN_PTR |-> 6, CURRYING |-> 7, INDEXING |-> 8, PROPERTY |-> 9, METHOD |-> 10,
         THIS |-> 11, SHARING |-> 12, IMPORT |-> 13, EXPORT |-> 14, CUSTOM_SYNTAX |-> 15]

At(seq, index) == seq[index + 1]
Has(seq, index) == index < Len(seq)
Bit(b) == IF b THEN 1 ELSE 0

\* Chain::assigns, roots_on_stack, consumes.
assigns(chain) == chain.tail[1] # "read"
roots_on_stack(chain) == chain.root.kind = "temporary"
consumes(chain) == chain.operands + Bit(roots_on_stack(chain)) + Bit(assigns(chain))

ChainOps == {"Chain", "IndexSet", "IndexGet"}

-----------------------------------------------------------------------------
\* required_caps
ChainCaps(chain) ==
  (IF chain.root.kind = "this" THEN {"THIS"} ELSE {})
  \cup {CASE chain.steps[i].kind = "index" -> "INDEXING"
          [] chain.steps[i].kind = "property" -> "PROPERTY"
          [] OTHER -> "METHOD" : i \in DOMAIN chain.steps}

required_caps(o, pools) ==
  CASE o.op \in ChainOps -> IF Has(pools.chains, o.chain) THEN ChainCaps(At(pools.chains, o.chain)) ELSE {}
    [] o.op \in {"MakeFnPtr", "MakeClosure", "CallFnPtr"} -> {"FN_PTR"}
    [] o.op = "Curry" -> {"FN_PTR", "CURRYING"}
    [] o.op \in {"Share", "ShareNamed", "IsShared"} -> {"SHARING"}
    [] o.op \in {"RequireThis", "LoadThis", "LoadThisShared", "AssignThis"} -> {"THIS"}
    [] o.op = "CallRef" -> IF o.receiver[1] = "this" THEN {"THIS"} ELSE {}
    [] o.op = "MakeArray" -> {"ARRAY"}
    [] o.op = "MakeMap" -> {"MAP"}
    [] OTHER -> {}

\* opcode_temps: the operands that an instruction has for a moment.
opcode_temps(o) ==
  CASE o.op = "BinOpFrom" -> 2
    [] o.op = "BinOp" -> Len(o.rhs)
    [] o.op = "CallRef" -> Bit(o.receiver[1] = "local")
    [] o.op \in {"Call", "CallFnPtr"} -> 1
    [] o.op = "AssignLocalFrom" -> 1 + Len(o.opr)
    [] o.op = "IndexSet" -> IF o.index # <<>> \/ o.value # <<>> THEN Len(o.index) + 1 ELSE 0
    [] OTHER -> 0

\* chain_method_repush: the most arguments that a method of the chain has.
chain_method_repush(o, pools) ==
  IF o.op \in ChainOps /\ Has(pools.chains, o.chain)
  THEN LET steps == At(pools.chains, o.chain).steps
           argcs == {0} \cup {steps[i].argc : i \in {j \in DOMAIN steps : steps[j].kind = "method"}}
       IN CHOOSE n \in argcs : \A m \in argcs : m <= n
  ELSE 0

stack_peak(o, pools, depth) == depth + opcode_temps(o) + chain_method_repush(o, pools)

\* effect: what an instruction requires, pops and pushes.
ChainEffect(o, pools) ==
  IF ~Has(pools.chains, o.chain) THEN <<0, 0, 1>>
  ELSE LET chain == At(pools.chains, o.chain)
           named == CASE o.op = "IndexSet" -> Len(o.index) + Len(o.value)
                      [] o.op = "IndexGet" -> Len(o.index)
                      [] OTHER -> 0
           takes == IF named > consumes(chain) THEN 0 ELSE consumes(chain) - named
           reads == ~assigns(chain) /\ ~(o.op = "Chain" /\ o.discards)
       IN <<takes, takes, Bit(reads)>>

effect(o, pools) ==
  CASE o.op \in ChainOps -> ChainEffect(o, pools)
    [] o.op \in {"Const", "Unit", "Bool", "LoadLocal", "LoadNamed", "LoadShared",
                 "LoadSharedNamed", "MakeClosure", "LoadThis", "LoadThisShared", "EvalAst",
                 "InterpolateStart"} -> <<0, 0, 1>>
    [] o.op \in {"StoreLocal", "DeclareLocal", "Pop", "AssignLocal", "AssignNamed", "AssignThis",
                 "JumpIfFalse", "JumpIfTrue", "Switch", "InterpolateAppend", "Throw",
                 "StoreShared", "IterDrop"} -> <<1, 1, 0>>
    [] o.op = "BinOpFrom" -> <<0, 0, Bit(o.branch = <<>>)>>
    [] o.op = "SkipIfNotUnit" -> <<1, 0, 0>>
    [] o.op = "Call" -> <<o.argc, o.argc, 1>>
    [] o.op = "BinOp" -> <<2 - Len(o.rhs), 2 - Len(o.rhs), Bit(o.branch = <<>>)>>
    [] o.op = "UnOp" -> <<1, 1, Bit(o.branch = <<>>)>>
    [] o.op = "CallRef" ->
         LET n == IF o.receiver[1] = "local" /\ o.argc > 0 THEN o.argc - 1 ELSE o.argc IN <<n, n, 1>>
    [] o.op = "Rotate" -> <<o.under + 1, o.under + 1, o.under + 1>>
    [] o.op = "MakeArray" -> <<o.len, o.len, 1>>
    [] o.op = "MakeMap" -> <<2 * o.len + 1, 2 * o.len + 1, 1>>
    [] o.op \in {"CheckSize", "MakeFnPtr", "IsShared", "InterpolateEnd"} -> <<1, 1, 1>>
    [] o.op \in {"Curry", "CallFnPtr"} -> <<o.argc + 1, o.argc + 1, 1>>
    [] o.op = "IterInit" -> <<1, 1, 2>>
    [] OTHER -> <<0, 0, 0>>

-----------------------------------------------------------------------------
\* check_indices: where in an instruction there are indices, and into which pool.
NamePlaces(t) ==
  CASE t \in {"DECLARE_LOCAL", "DECLARE_CONST", "CALL", "CALL_CAPTURE", "CALL_LOCAL_REF",
              "CALL_LOCAL_REF_CAPTURE", "CALL_THIS_REF", "CALL_THIS_REF_CAPTURE", "CALL_OP",
              "UN_OP", "UN_OP_JF", "LOAD_NAMED", "LOAD_SHARED_NAMED", "ASSIGN_NAMED",
              "SHARE_NAMED", "MAKE_CLOSURE", "ASSIGN_NAMED_OP"} \cup BinOpTags \cup BinOpFromTags -> {1}
    [] t \in {"CALL_NAMED_REF", "CALL_NAMED_REF_CAPTURE"} -> {1, 4}
    [] t \in {"ASSIGN_LOCAL", "ASSIGN_LOCAL_FROM", "ASSIGN_LOCAL_FROM_CONST", "ASSIGN_LOCAL_FROM_OP",
              "ASSIGN_LOCAL_FROM_CONST_OP", "ASSIGN_LOCAL_OP"} -> {3}
    [] t = "CALL_FN_PTR_ON_NAMED" -> {2}
    [] OTHER -> {}

ConstantPlaces(t) ==
  (CASE t = "CONST" -> {1}
     [] t \in {"BIN_OP_RHS_CONST", "BIN_OP_RHS_CONST_JF"} -> {6}
     [] t \in {"BIN_OP_FROM_CONST", "BIN_OP_FROM_CONST_JF", "BIN_OP_FROM_CONST_JT"} -> {8}
     [] t \in {"ASSIGN_LOCAL_FROM_CONST", "ASSIGN_LOCAL_FROM_CONST_OP"} \cup IndexConst -> {5}
     [] OTHER -> {})
  \cup (IF t \in ValueConst THEN {7} ELSE {})

\* Mutant: a call that carries its operator is not looked at.
OperatorPlaces_calls(t) ==
  IF t \in BinOpTags \cup BinOpFromTags THEN {4} ELSE {}

OperatorPlaces(t) ==
  IF t \in BinOpTags \cup BinOpFromTags \cup {"CALL_OP"} THEN {4} ELSE {}

AssignPlaces(t) ==
  CASE t \in {"ASSIGN_LOCAL_FROM_OP", "ASSIGN_LOCAL_FROM_CONST_OP"} -> {7}
    [] t = "ASSIGN_NAMED_OP" -> {3}
    [] t = "ASSIGN_LOCAL_OP" -> {5}
    [] t = "ASSIGN_THIS_OP" -> {1}
    [] OTHER -> {}

\* check_chain_indices
ChainIndicesOk(chain, pools) ==
  /\ chain.root.kind \in {"local", "named"} => chain.root.name < pools.names
  /\ \A i \in DOMAIN chain.steps :
       LET step == chain.steps[i]
       IN /\ step.kind \in {"property", "method"} => step.name < pools.names
          /\ step.kind = "property" => step.getter < pools.names /\ step.setter < pools.names
  /\ chain.tail[1] = "assign_op" => chain.tail[2] < pools.assign_ops

check_indices(code, at, pools) ==
  LET index(k) == u16_at(code, at + k)
  IN \A t \in {TagOf(ByteAt(code, at))} :
     /\ \A k \in NamePlaces(t) : index(k) < pools.names
     /\ \A k \in ConstantPlaces(t) : index(k) < pools.consts
     /\ \A k \in OperatorPlaces(t) : index(k) < pools.tokens
     /\ \A k \in AssignPlaces(t) : index(k) < pools.assign_ops
     /\ t \in {"EVAL_AST", "EVAL_AST_KEEP"} => index(1) < pools.residuals
     /\ t \in BinOpTags \cup BinOpFromTags \cup {"UN_OP", "UN_OP_JF"} => HasKind(t, ByteAt(code, at + 3))
     /\ t \in ChainTags => /\ Has(pools.chains, index(1))
                           /\ ChainIndicesOk(At(pools.chains, index(1)), pools)
     /\ t = "SWITCH" => Has(pools.switches, index(1))

-----------------------------------------------------------------------------
\* The addresses at which an instruction starts; <<>> for bytes that are not instructions,
\* or whose indices are out of their pools.
StartNext(q, code, pools) ==
  IF ~q.ok \/ q.at >= Len(code) THEN q
  ELSE Given(width(code, q.at), LAMBDA w :
         IF w = 0 \/ ~check_indices(code, q.at, pools) THEN [q EXCEPT !.ok = FALSE]
         ELSE [q EXCEPT !.at = @ + w, !.found = @ \cup {q.at}])

RECURSIVE StartsFrom(_, _, _)
StartsFrom(q, code, pools) ==
  IF ~q.ok THEN <<>>
  ELSE IF q.at >= Len(code) THEN <<q.found>>
  ELSE Given(Often(q, LAMBDA r : StartNext(r, code, pools)), LAMBDA r : StartsFrom(r, code, pools))

Starts(code, pools) == StartsFrom([ok |-> TRUE, at |-> 0, found |-> {}], code, pools)

Depths(operands, iters, handlers) == [operands |-> operands, iters |-> iters, handlers |-> handlers]

After(o, s, eff) ==
  Depths(s.operands - eff[2] + eff[3],
         CASE o.op = "IterInit" -> s.iters + 1 [] o.op = "IterDrop" -> s.iters - 1 [] OTHER -> s.iters,
         CASE o.op = "PushHandler" -> s.handlers + 1 [] o.op = "PopHandler" -> s.handlers - 1
           [] OTHER -> s.handlers)

SwitchTargets(table) ==
  [i \in DOMAIN table.cases |-> table.cases[i].target]
  \o [i \in DOMAIN table.ranges |-> table.ranges[i].target] \o <<table.default>>

\* Where control goes by a jump, and in which state: pairs of address and depths.
JumpsOf(o, s, next, pools) ==
  CASE o.op \in {"Jump", "JumpIfFalse", "JumpIfTrue", "SkipIfNotUnit"} -> <<<<o.target, next>>>>
    [] o.op = "PushHandler" -> <<<<o.target, [next EXCEPT !.operands = s.operands]>>>>
    [] o.op \in {"BinOp", "UnOp"} /\ o.branch # <<>> -> <<<<o.branch[1], next>>>>
    [] o.op = "BinOpFrom" /\ o.branch # <<>> -> <<<<o.branch[1].target, next>>>>
    [] o.op = "IterNextStore" -> <<<<o.body, next>>>>
    [] o.op = "IterNext" -> <<<<o.body, [s EXCEPT !.operands = @ + 1 + Bit(o.indexed)]>>>>
    [] o.op = "Switch" /\ Has(pools.switches, o.index) ->
         Given(SwitchTargets(At(pools.switches, o.index)), LAMBDA ts : [i \in DOMAIN ts |-> <<ts[i], next>>])
    [] OTHER -> <<>>

\* The state in which the instruction behind is run, <<>> if it is not.
FallsTo(o, s, next) ==
  CASE o.op \in {"Return", "Throw", "Jump", "Switch"} -> <<>>
    [] o.op \in {"IterNext", "IterNextStore"} -> <<Depths(s.operands - 2, s.iters - 1, s.handlers)>>
    [] OTHER -> <<next>>

Larger(a, b) == IF a > b THEN a ELSE b

\* One turn of the loop of verify_chunk, for an instruction that has no label yet.
Visit(st, o, chunk, starts, caps, code, pools) ==
  LET at == Last(st.work)[1]
      s == Last(st.work)[2]
  IN Given(effect(o, pools), LAMBDA eff : Given(After(o, s, eff), LAMBDA next :
     Given(JumpsOf(o, s, next, pools), LAMBDA jumps :
       LET falls == FallsTo(o, s, next)
           refused ==
             \/ ~(required_caps(o, pools) \subseteq caps)
             \/ s.operands < eff[1]
             \/ o.op \in {"IterNext", "IterNextStore"} /\ s.operands < 2
             \/ o.op \in {"IterDrop", "IterNext", "IterNextStore"} /\ s.iters = 0
             \/ o.op = "PopHandler" /\ s.handlers = 0
             \/ \E i \in DOMAIN jumps :
                  jumps[i][1] < chunk.entry \/ jumps[i][1] >= chunk.end \/ jumps[i][1] \notin starts
       IN IF refused THEN [st EXCEPT !.ok = FALSE]
          ELSE [st EXCEPT
                 !.label = [a \in DOMAIN @ \cup {at} |-> IF a = at THEN s ELSE @[a]],
                 !.work = Front(@) \o jumps \o [i \in DOMAIN falls |-> <<at + width(code, at), falls[i]>>],
                 !.high = Larger(Larger(@, s.operands), Larger(next.operands, stack_peak(o, pools, s.operands)))])))

\* verify_chunk: the walk over all paths of a chunk, one turn of its loop ...
Walked(st) == ~st.ok \/ st.work = <<>>

Turn(st, chunk, starts, caps, code, pools) ==
  IF Walked(st) THEN st
  ELSE LET at == Last(st.work)[1]
           s == Last(st.work)[2]
       IN CASE at >= chunk.end -> [st EXCEPT !.ok = FALSE]
            [] at < chunk.end /\ at \in DOMAIN st.label ->
                 IF st.label[at] = s THEN [st EXCEPT !.work = Front(@)] ELSE [st EXCEPT !.ok = FALSE]
            [] OTHER ->
                 Given(decode(code, at), LAMBDA o :
                   IF o = <<>> THEN [st EXCEPT !.ok = FALSE]
                   ELSE Visit(st, o[1], chunk, starts, caps, code, pools))

\* ... and as many as it takes.
RECURSIVE Walk(_, _, _, _, _, _)
Walk(st, chunk, starts, caps, code, pools) ==
  IF Walked(st) THEN st
  ELSE Given(Often(st, LAMBDA q : Turn(q, chunk, starts, caps, code, pools)),
             LAMBDA q : Walk(q, chunk, starts, caps, code, pools))

verify_chunk(chunk, starts, caps, code, pools) ==
  IF chunk.end > Len(code) \/ chunk.entry > chunk.end THEN [ok |-> FALSE, high |-> 0]
  ELSE Given(Walk([ok |-> TRUE, label |-> <<>>, high |-> 0, work |-> <<<<chunk.entry, Depths(0, 0, 0)>>>>],
                  chunk, starts, caps, code, pools),
             LAMBDA st : [ok |-> st.ok /\ st.high <= 65535 /\ st.high <= chunk.max_stack, high |-> st.high])

\* verify: the depth that each chunk needs, or that the code is refused.
verify(caps, code, functions, chunks, pools) ==
  Given(Starts(code, pools), LAMBDA starts :
    IF \/ starts = <<>>
       \/ functions # <<>> /\ "FUNCTION" \notin caps
       \/ \E i \in DOMAIN functions : \E j \in DOMAIN functions[i].params :
            functions[i].params[j] >= pools.names
    THEN [ok |-> FALSE, high |-> <<>>]
    ELSE Given([i \in DOMAIN chunks |-> verify_chunk(chunks[i], starts[1], caps, code, pools)], LAMBDA each :
           [ok |-> \A i \in DOMAIN each : each[i].ok, high |-> [i \in DOMAIN each |-> each[i].high]]))
=============================================================================
