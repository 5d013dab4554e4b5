----------------------------- MODULE GrainCode -----------------------------
(* The byte code of Grain (grain/bytecode/op.rs, code.rs), what the compiler
   emits and the machine runs, and its verifier (grain/bytecode/verify.rs), an
   abstract interpretation of a chunk that gives each reachable instruction a
   state, on which all paths into it agree.

   An address holds the tag of an instruction or, after an instruction with a
   target, the operand bytes that a jump must not land on.  Operands that no
   property tells apart are left out, and so are instructions whose control and
   use of the operand stack are those of one that is here: "Push" stands for
   constants and reads of variables, "Call" for a call without arguments,
   "BinOp" for an operator on two operands.  There is one chunk; it is run as
   the program and, in a frame of its own, as the function that it calls.     *)
EXTENDS Integers, Sequences, FiniteSets

VARIABLES
  phase,      \* "lower", "read", "verify", "ready", "run", "end", "refused"
  origin,     \* "compiled" or "read": where the code comes from
  code,       \* the instructions
  declared    \* Chunk::max_stack

chunk == <<origin, code, declared>>

\* Instructions with a target.
Branches == {"JumpIfFalse", "JumpIfTrue", "SkipIfNotUnit"}

Advances == {"IterNext", "IterNextStore"}

Targeted == Branches \cup Advances \cup {"Jump", "PushHandler"}

Plain ==
  {"Unit", "Push", "Call", "BinOp", "Pop", "Declare", "UnwindTo", "Checkpoint", "PopHandler",
   "Rotate", "IterInit", "IterDrop", "Throw", "Return"}

\* What an address may hold; `arg` is a target, or the depth of an UnwindTo.
Cells == [op : Targeted \cup Plain \cup {"operand"}, arg : Nat]

width(op) == IF op \in Targeted THEN 2 ELSE 1

Instruction(op, arg) ==
  IF op \in Targeted THEN <<[op |-> op, arg |-> arg], [op |-> "operand", arg |-> 0]>>
  ELSE <<[op |-> op, arg |-> arg]>>

IsStart(at) == at \in 1..Len(code) /\ code[at].op # "operand"

Contains(op) == \E at \in 1..Len(code) : code[at].op = op

Larger(a, b) == IF a > b THEN a ELSE b

-----------------------------------------------------------------------------
\* The verifier.
VARIABLES
  label,      \* depth_at: the state of each address visited
  work,       \* work_list
  high_water, \* the deepest the operand stack can get
  verdict     \* "none", "accepted" or "refused"

verifier == <<label, work, high_water, verdict>>

\* State: operands, iterators, handlers.
States == [operands : Nat, iters : Nat, handlers : Nat]

-----------------------------------------------------------------------------
\* effect: how many operands an instruction needs, takes and leaves.
requires(op) ==
  CASE op \in {"BinOp", "Rotate"} -> 2
    [] op \in {"Pop", "Declare", "IterInit", "IterDrop", "Throw"} \cup Branches -> 1
    [] OTHER -> 0

pops(op) == IF op = "SkipIfNotUnit" THEN 0 ELSE requires(op)

pushes(op) ==
  CASE op \in {"Rotate", "IterInit"} -> 2
    [] op \in {"Unit", "Push", "Call", "BinOp"} -> 1
    [] OTHER -> 0

\* A call pushes its result before its arguments are dropped.
opcode_temps(op) == IF op = "Call" THEN 1 ELSE 0

\* The state behind an instruction.
After(op, s) ==
  [operands |-> s.operands - pops(op) + pushes(op),
   iters    |-> CASE op = "IterInit" -> s.iters + 1 [] op = "IterDrop" -> s.iters - 1
                  [] OTHER -> s.iters,
   handlers |-> CASE op = "PushHandler" -> s.handlers + 1 [] op = "PopHandler" -> s.handlers - 1
                  [] OTHER -> s.handlers]

\* The state in which the iterator of a loop has been dropped, for it is exhausted.
Exhausted(s) == [s EXCEPT !.operands = @ - 2, !.iters = @ - 1]

\* The edge to the target, and the edge to the next instruction.
AtTarget(op, s) ==
  IF op = "IterNext" THEN [s EXCEPT !.operands = @ + 1] ELSE After(op, s)

AtNext(op, s) == IF op \in Advances THEN Exhausted(s) ELSE After(op, s)

Edge(at, s) == [at |-> at, state |-> s]

Edges(at, s) ==
  LET op == code[at].op
  IN (IF op \in Targeted THEN <<Edge(code[at].arg, AtTarget(op, s))>> ELSE <<>>)
     \o (IF op \in {"Jump", "Return", "Throw"} THEN <<>> ELSE <<Edge(at + width(op), AtNext(op, s))>>)

-----------------------------------------------------------------------------
\* Underflow, IteratorUnderflow and HandlerUnderflow.
Underflows(op, s) ==
  \/ s.operands < requires(op)
  \/ op \in Advances /\ s.operands < 2
  \/ op \in Advances \cup {"IterDrop"} /\ s.iters = 0
  \/ op = "PopHandler" /\ s.handlers = 0

\* JumpOutOfRange and JumpIntoAnInstruction.
BadTarget(at) == code[at].op \in Targeted /\ ~IsStart(code[at].arg)

\* FallsOffTheEnd and DepthConflict come before the instruction is looked at.
NotRunnable(e) ==
  /\ e.at \in 1..Len(code)
  /\ e.at \notin DOMAIN label
  /\ Underflows(code[e.at].op, e.state) \/ BadTarget(e.at)

Refused(e) ==
  \/ e.at > Len(code)
  \/ e.at \in DOMAIN label /\ label[e.at] # e.state
  \/ NotRunnable(e)

Top_of_work == work[Len(work)]

Rest_of_work == SubSeq(work, 1, Len(work) - 1)

HighWater_last(op, s) == Larger(After(op, s).operands, s.operands + opcode_temps(op))

HighWater(op, s) ==
  Larger(high_water, Larger(After(op, s).operands, s.operands + opcode_temps(op)))

\* One turn of the loop of verify_chunk, in the three ways it can go.
visit ==
  /\ phase = "verify"
  /\ work # <<>>
  /\ LET e == Top_of_work
     IN /\ ~Refused(e)
        /\ e.at \notin DOMAIN label
        /\ label' = [a \in DOMAIN label \cup {e.at} |-> IF a = e.at THEN e.state ELSE label[a]]
        /\ work' = Rest_of_work \o Edges(e.at, e.state)
        /\ high_water' = HighWater(code[e.at].op, e.state)
  /\ UNCHANGED <<phase, chunk, verdict>>

merge ==
  /\ phase = "verify"
  /\ work # <<>>
  /\ ~Refused(Top_of_work)
  /\ Top_of_work.at \in DOMAIN label
  /\ work' = Rest_of_work
  /\ UNCHANGED <<phase, chunk, label, high_water, verdict>>

\* Every path has been walked.  tighten_stack makes the measured depth that of a
\* compiled chunk; a chunk that was read has to declare enough.
accept ==
  /\ phase = "verify"
  /\ work = <<>>
  /\ high_water <= declared
  /\ phase' = "ready"
  /\ verdict' = "accepted"
  /\ declared' = IF origin = "compiled" THEN high_water ELSE declared
  /\ UNCHANGED <<origin, code, label, work, high_water>>

\* A compiled chunk that does not verify keeps its estimate and is run; one that
\* was read is not.
refuse ==
  /\ phase = "verify"
  /\ IF work # <<>> THEN Refused(Top_of_work) ELSE high_water > declared
  /\ verdict' = "refused"
  /\ phase' = IF origin = "compiled" THEN "ready" ELSE "refused"
  /\ UNCHANGED <<chunk, label, work, high_water>>

InitVerify ==
  /\ label = <<>>
  /\ work = <<Edge(1, [operands |-> 0, iters |-> 0, handlers |-> 0])>>
  /\ high_water = 0
  /\ verdict = "none"

verify_chunk == visit \/ merge \/ accept \/ refuse
=============================================================================
