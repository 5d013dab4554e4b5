------------------------------- MODULE Store -------------------------------
(***************************************************************************)
(* A program of Grain on its way to another process: it is built, written  *)
(* with its positions or without, perhaps damaged on the way, read back,   *)
(* and given the positions of a sidecar.                                   *)
(***************************************************************************)
EXTENDS Artifact

CONSTANTS
  ToStore,       \* what the lowering hands over, by the name of the program
  Subjects       \* what is switched on

VARIABLES
  stage,         \* "idle", "lowered", "ready", "unwritable", "written", "read", "refused", "attached", "mismatch"
  source,        \* the name of the program
  built,         \* <<the program that was built>>
  kept,          \* are its positions in the artifact?
  bytes,         \* the artifact
  harm,          \* what happened to it: "none", "cut", "grown", "changed"
  loaded,        \* <<the program that was read>>
  owner          \* the program whose sidecar was attached, or "none"

storeVars == <<stage, source, built, kept, bytes, harm, loaded, owner>>

Blank ==
  /\ built = <<>>
  /\ kept = FALSE
  /\ bytes = <<>>
  /\ harm = "none"
  /\ loaded = <<>>
  /\ owner = "none"

StoreInit ==
  /\ stage = "lowered"
  /\ source \in DOMAIN ToStore
  /\ Blank

\* Nothing is to be stored.
StoreIdle ==
  /\ stage = "idle"
  /\ source = CHOOSE s \in DOMAIN ToStore : TRUE
  /\ Blank

\* GrainCompiler::compile, after the lowering.
build ==
  /\ stage = "lowered"
  /\ built' = <<Built(ToStore[source])>>
  /\ stage' = "ready"
  /\ UNCHANGED <<source, kept, bytes, harm, loaded, owner>>

\* Program::write and write_stripped.
write_artifact ==
  /\ stage = "ready"
  /\ \E keep \in BOOLEAN :
       IF Unwritable(built[1])
       THEN stage' = "unwritable" /\ UNCHANGED <<kept, bytes>>
       ELSE stage' = "written" /\ kept' = keep /\ bytes' = write(built[1], keep)
  /\ UNCHANGED <<source, built, harm, loaded, owner>>

\* strip_positions, of the program itself.
strip ==
  /\ stage = "ready"
  /\ loaded' = <<strip_positions(built[1])>>
  /\ stage' = "read"
  /\ UNCHANGED <<source, built, kept, bytes, harm, owner>>

\* An artifact that is not what was written: external.
damage ==
  /\ stage = "written"
  /\ harm = "none"
  /\ \/ /\ \E n \in 0..(Len(bytes) - 1) : bytes' = SubSeq(bytes, 1, n)
        /\ harm' = "cut"
     \/ /\ bytes' = bytes \o <<0>>
        /\ harm' = "grown"
     \/ /\ \E i \in DOMAIN bytes : \E b \in {(bytes[i] + 1) % 256, (bytes[i] + 128) % 256} :
             bytes' = [bytes EXCEPT ![i] = b]
        /\ harm' = "changed"
  /\ UNCHANGED <<stage, source, built, kept, loaded, owner>>

\* Program::read
read_artifact ==
  /\ stage = "written"
  /\ \E r \in {read(bytes)} :
       /\ loaded' = r
       /\ stage' = IF r = <<>> THEN "refused" ELSE "read"
  /\ UNCHANGED <<source, built, kept, bytes, harm, owner>>

\* attach_positions, with the sidecar of this or of another program.
attach ==
  /\ stage = "read"
  /\ harm = "none"
  /\ \E other \in DOMAIN ToStore :
       \E r \in {attach_positions(loaded[1], sidecar(Built(ToStore[other])))} :
         /\ owner' = other
         /\ loaded' = IF r = <<>> THEN loaded ELSE r
         /\ stage' = IF r = <<>> THEN "mismatch" ELSE "attached"
  /\ UNCHANGED <<source, built, kept, bytes, harm>>

StoreEnded ==
  \/ stage \in {"idle", "unwritable", "refused", "attached", "mismatch"}
  \/ stage = "read" /\ harm # "none"

StoreNext == build \/ write_artifact \/ strip \/ damage \/ read_artifact \/ attach

-----------------------------------------------------------------------------
RECURSIVE Nesting(_)
Nesting(v) ==
  LET inner == CASE v[1] = "ARRAY" -> {Nesting(v[2][i]) : i \in DOMAIN v[2]}
                 [] v[1] = "MAP" -> {Nesting(v[2][k]) : k \in DOMAIN v[2]}
                 [] OTHER -> {}
  IN IF inner = {} THEN 0 ELSE 1 + CHOOSE n \in inner : \A m \in inner : m <= n

(* What is read from an artifact that nothing happened to is the program that was written,
   to the last constant, jump and position, or all but its positions if these were stripped;
   and it is refused only if a constant nests deeper than the reader follows. *)
RoundTrips ==
  harm = "none" =>
    /\ stage = "read" => loaded[1] = IF kept THEN built[1] ELSE strip_positions(built[1])
    /\ stage = "refused" =>
         \E i \in DOMAIN built[1].consts : Nesting(built[1].consts[i]) > MaxConstantDepth

\* An instruction with the addresses of its targets.
Resolved(o, offsets) ==
  CASE o.op \in DOMAIN Jumps \cup {"PushHandler"} -> [o EXCEPT !.target = offsets[@ + 1]]
    [] o.op \in {"IterNext", "IterNextStore"} -> [o EXCEPT !.body = offsets[@ + 1]]
    [] o.op \in {"BinOp", "UnOp"} /\ o.branch # <<>> -> [o EXCEPT !.branch = <<offsets[@[1] + 1]>>]
    [] o.op = "BinOpFrom" /\ o.branch # <<>> -> [o EXCEPT !.branch[1].target = offsets[@ + 1]]
    [] OTHER -> o

(* The four descriptions of an instruction agree: what encoded_width reserves is what
   assemble fills, what WIDTHS steps over and what decode reads back, operand for operand,
   with jumps to the instructions that the lowering named. *)
DecodesAsAssembled ==
  stage = "ready" =>
    \A ops \in {ToStore[source].ops} : \A offsets \in {Offsets(ops)} :
      (built[1].residuals = 0) =>
        disassemble(built[1].code, 0) = [i \in DOMAIN ops |-> <<offsets[i], Resolved(ops[i], offsets)>>]

(* What the machine asks of a tag through FORMS is what the decoded instruction says. *)
FormsAreOps ==
  stage = "ready" =>
    \A d \in ToSet(disassemble(built[1].code, 0)) :
      LET o == d[2]
          has == FORMS(TagOf(ByteAt(built[1].code, d[1])))
          binary == o.op \in {"BinOp", "BinOpFrom"}
      IN /\ ("TYPED" \in has) = binary
         /\ ("UNARY" \in has) = (o.op = "UnOp")
         /\ ("POOLED_OP" \in has) = (binary \/ (o.op = "Call" /\ o.opr # <<>>))
         /\ ("BRANCHES" \in has) = (o.op \in {"BinOp", "BinOpFrom", "UnOp"} /\ o.branch # <<>>)
         /\ ("TAKEN_WHEN" \in has) = (o.op = "BinOpFrom" /\ o.branch # <<>> /\ o.branch[1].taken_when)
         /\ ("NAMES_RHS" \in has) = (o.op = "BinOp" /\ o.rhs # <<>>)
         /\ ("NAMES_FROM" \in has) = (o.op = "BinOpFrom")
         /\ ("NAMED_IS_LOCAL" \in has) =
              CASE o.op = "BinOp" -> o.rhs # <<>> /\ o.rhs[1][1] = "local"
                [] o.op = "BinOpFrom" -> o.rhs[1] = "local"
                [] OTHER -> FALSE
         /\ ("CAPTURES" \in has) = (o.op = "Call" /\ o.capture)

(* An artifact that was cut short or continued is never taken for another. *)
OnlyWholeRead == harm \in {"cut", "grown"} => stage # "read"

\* The instructions that can be run from an address on.
Successors(p, o, at) ==
  LET s == Depths(9, 9, 9)
      jumps == JumpsOf(o, s, s, Pools(p))
  IN {jumps[i][1] : i \in DOMAIN jumps} \cup (IF FallsTo(o, s, s) = <<>> THEN {} ELSE {at + width(p.code, at)})

\* Every index of an instruction is one of its pool.
InPools(p, o) ==
  LET names == CASE o.op \in {"DeclareLocal", "Call", "UnOp", "BinOp", "BinOpFrom", "LoadNamed", "AssignNamed",
                              "ShareNamed", "LoadSharedNamed", "MakeClosure"} -> {o.name}
                 [] o.op = "CallRef" -> {o.name} \cup (IF o.receiver[1] = "named" THEN {o.receiver[2]} ELSE {})
                 [] o.op \in {"AssignLocal", "AssignLocalFrom"} -> {o.var_name}
                 [] o.op = "CallFnPtr" ->
                      IF o.receiver # <<>> /\ o.receiver[1][1] = "named" THEN {o.receiver[1][2]} ELSE {}
                 [] OTHER -> {}
      consts == CASE o.op = "Const" -> {o.index}
                  [] o.op = "BinOp" -> IF o.rhs # <<>> /\ o.rhs[1][1] = "const" THEN {o.rhs[1][2]} ELSE {}
                  [] o.op = "BinOpFrom" -> IF o.rhs[1] = "const" THEN {o.rhs[2]} ELSE {}
                  [] o.op = "AssignLocalFrom" -> IF o.src[1] = "const" THEN {o.src[2]} ELSE {}
                  [] o.op \in {"IndexSet", "IndexGet"} ->
                       (IF o.index # <<>> /\ o.index[1][1] = "const" THEN {o.index[1][2]} ELSE {})
                       \cup (IF o.op = "IndexSet" THEN ToSet(o.value) ELSE {})
                  [] OTHER -> {}
      tokens == CASE o.op \in {"BinOp", "BinOpFrom"} -> {o.opr} [] o.op = "Call" -> ToSet(o.opr) [] OTHER -> {}
      assigned == IF o.op \in {"AssignLocal", "AssignLocalFrom", "AssignNamed", "AssignThis"} THEN ToSet(o.opr) ELSE {}
  IN /\ \A n \in names : Has(p.names, n)
     /\ \A n \in consts : Has(p.consts, n)
     /\ \A n \in tokens : Has(p.tokens, n)
     /\ \A n \in assigned : Has(p.assign_ops, n)
     /\ o.op \in ChainOps => Has(p.chains, o.chain)
     /\ o.op = "Switch" => Has(p.switches, o.index)
     /\ o.op # "EvalAst"

(* Whatever happened to an artifact: if it is read, each of its instructions names only what
   is in the pools, and control that enters at an instruction stays with the instructions of
   its chunk, however it jumps, branches or switches. *)
AcceptedIsSound ==
  (stage = "read" /\ harm = "changed") =>
    Given(disassemble(loaded[1].code, 0), LAMBDA d :
      LET p == loaded[1]
          at == {d[i][1] : i \in DOMAIN d}
          ops == [a \in at |-> d[CHOOSE i \in DOMAIN d : d[i][1] = a][2]]
      IN /\ \A a \in at : InPools(p, ops[a])
         /\ \A i \in DOMAIN Chunks(p) : Chunks(p)[i].entry \in at =>
              LET chunk == Chunks(p)[i]
                  reach[n \in 0..Len(d)] ==
                    IF n = 0 THEN {chunk.entry}
                    ELSE Given(reach[n - 1], LAMBDA r :
                           r \cup UNION {Successors(p, ops[a], a) : a \in r \cap at})
              IN \A a \in reach[Len(d)] : a \in at /\ a >= chunk.entry /\ a < chunk.end)

(* A fault that a stripped program reports is found in its own sidecar, at the place that the
   program with its positions would have given: the step of the chain, or else the instruction. *)
FaultsResolve ==
  stage = "ready" =>
    \A f \in Faults(built[1]) :
      LET place == IF f.place # NONE THEN f.place ELSE PositionAt(built[1].positions, f.address)
      IN site(sidecar(built[1]), f) = IF place = NONE THEN <<>> ELSE <<place>>

(* A sidecar that is accepted gives a program all its own positions back, whoever it was made
   for; and a program never refuses its own. *)
AttachesToOwn ==
  /\ stage = "attached" => loaded[1] = built[1]
  /\ stage = "mismatch" => owner # source

\* The instruction that a switch is to go to: the first case, or else the first range, or the default.
Meant(switch, s) ==
  LET cases == SelectSeq(switch.cases, LAMBDA c : s.hashable /\ c.hash = s.hash)
      ranges == SelectSeq(switch.ranges, LAMBDA r : s.hashable /\ s.twice # <<>> /\ contains(r, s.twice[1]))
      hits == cases \o ranges
  IN IF hits = <<>> THEN switch.default ELSE Head(hits).target

(* A switch goes where the lowering wanted it, before and after it was written: the index of
   hashes has the final targets, whichever hashes collide in it. *)
SwitchesAsLowered ==
  stage \in {"ready", "read"} /\ harm = "none" =>
    LET p == IF stage = "read" THEN loaded[1] ELSE built[1]
    IN \A low \in {ToStore[source]} : (p.residuals = 0) =>
         \A i \in DOMAIN low.switches : \A s \in Subjects : \A offsets \in {Offsets(low.ops)} :
           dispatch(p.switches[i], s) = offsets[Meant(low.switches[i], s) + 1]

(* A function that works on `this` is known to, by whoever built or read it, unless all it
   does is to call with `this` a function that sees its variables. *)
ThisIsKnown ==
  stage = "ready" =>
    LET p == built[1]
    IN \A i \in DOMAIN p.functions :
         LET f == p.functions[i]
             body == {d \in ToSet(disassemble(p.code, 0)) : d[1] >= f.chunk.entry /\ d[1] < f.chunk.end}
         IN (\E d \in body : /\ "THIS" \in required_caps(d[2], Pools(p))
                             /\ ~(d[2].op = "CallRef" /\ d[2].capture)) => f.takes_this
=============================================================================
