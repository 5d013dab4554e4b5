------------------------------ MODULE Engines -------------------------------
(* The compiled engine as a whole: a program is optimized (Optimizer), compiled
   (Lowering), then run instruction by instruction (Machine).  At the end of every statement of the
   program, and when it ends, it shows what the tree walker shows (Statements). *)
EXTENDS Machine

CONSTANTS
  Programs,     \* the programs that may be run; none is empty
  Scopes,       \* the scopes that a host may run them with
  Pure,         \* those in which no function of the host is called for its effects
  MaxTicks      \* more instructions than any of the programs needs

L == INSTANCE Lowering

O == INSTANCE Optimizer

VARIABLES
  program,      \* the statements
  optimized,    \* have they been through the optimizer?
  code,         \* none, or what they are compiled to
  frame,        \* the outermost frame
  done,         \* how many statements it has finished
  seen,         \* the state when it had finished them
  ticks         \* how many instructions it has run

vars == <<program, optimized, code, frame, done, seen, ticks>>

Init ==
  /\ program \in Programs
  /\ optimized = FALSE
  /\ code = <<>>
  /\ \E scope \in Scopes :
       /\ frame = GrainFrame(1, Len(scope), State(scope, <<>>))
       /\ seen = State(scope, <<>>)
  /\ done = 0
  /\ ticks = 0

\* optimize_into_ast, for the scope that the program will be run with.
Optimize ==
  /\ ~optimized
  /\ \E level \in {"none", "simple"} \cup (IF program \in Pure THEN {"full"} ELSE {}) :
       program' = O!optimize_top_level(program, seen.scope, level)
  /\ optimized' = TRUE
  /\ UNCHANGED <<code, frame, done, seen, ticks>>

Compile ==
  /\ optimized
  /\ code = <<>>
  /\ \E rotate_while \in BOOLEAN : code' = <<L!compile(program, rotate_while)>>
  /\ UNCHANGED <<program, optimized, frame, done, seen, ticks>>

At(op) == code # <<>> /\ ~frame.ended /\ frame.raised = <<>> /\ code[1].code[frame.pc].op = op

\* One instruction of the outermost frame, with the calls it makes.  One that comes to the
\* beginning of another statement ends the one before.
Instruction ==
  /\ code # <<>> /\ ~frame.ended /\ frame.raised = <<>>
  /\ ticks < MaxTicks
  /\ \E f \in {dispatch(code[1], frame)} :
       LET next == ~f.ended /\ f.raised = <<>> /\ code[1].code[f.pc].op = "Checkpoint"
       IN /\ frame' = f
          /\ done' = IF next THEN done + 1 ELSE done
          /\ seen' = IF next \/ f.ended THEN f.s ELSE seen
  /\ ticks' = ticks + 1
  /\ UNCHANGED <<program, optimized, code>>

\* An error goes to the innermost handler, or out of the frame.
Catch ==
  /\ ~frame.ended
  /\ frame.raised # <<>>
  /\ frame' = catch(frame)
  /\ seen' = IF frame'.ended THEN frame'.s ELSE seen
  /\ UNCHANGED <<program, optimized, code, done, ticks>>

Done == frame.ended /\ UNCHANGED vars

Next == Optimize \/ Compile \/ Instruction \/ Catch \/ Done

Spec == Init /\ [][Next]_vars

-----------------------------------------------------------------------------
Outcome ==
  IF ~frame.ended THEN <<>>
  ELSE IF frame.raised # <<>> THEN <<<<"err", frame.raised[1]>>>>
  ELSE <<<<"ok", flatten(frame.v, frame.s.heap)>>>>

Walks == INSTANCE Statements WITH state <- seen, result <- Outcome

\* The frame stays within its code, and its entries are above the host's.
TypeOK ==
  /\ ~optimized => program \in Programs
  /\ done \in 0..Len(program) - 1
  /\ frame.ended \in BOOLEAN
  /\ code # <<>> => frame.pc \in DOMAIN code[1].code
  /\ Len(frame.s.scope) >= frame.base
  /\ frame.floor >= frame.base

\* Between two statements nothing is left on the stack, no handler is armed and no error is
\* pending: what the shortcuts of the compiler leave out is missed by nobody.
CleanBetweenStatements ==
  At("Checkpoint") => frame.stack = <<>> /\ frame.handlers = <<>> /\ Len(frame.s.scope) >= frame.floor

\* No instruction of compiled code finds too few operands, or something else than the iterator
\* it is meant for.
NeverMalformed == \A i \in DOMAIN frame.raised : frame.raised[i].e # "malformed"

\* A handler remembers a stack and a scope that are still there when it is needed: code in its
\* block never takes away what was there before it.
HandlersHold ==
  ~frame.ended =>
    \A i \in DOMAIN frame.handlers :
      /\ frame.handlers[i].operands <= Len(frame.stack)
      /\ frame.handlers[i].scope <= Len(frame.s.scope)
      /\ i > 1 => frame.handlers[i - 1].operands <= frame.handlers[i].operands

\* A program that the tree walker finishes is finished by the compiled engine: no shortcut of
\* the compiler makes a loop of what was none.
EndsInTime == ~frame.ended => ticks < MaxTicks

\* What compiled code owes the virtual machine: operands, handlers and scope are balanced along
\* every path that the shortcuts, jumps and handlers of the program make, and it ends.
CodeIsBalanced == TypeOK /\ CleanBetweenStatements /\ NeverMalformed /\ HandlersHold /\ EndsInTime

\* The optimizer keeps what a program does: the rewritten one leaves the same variables, shared
\* values and calls of the host's functions, and comes to the same value or error, except that
\* it may not notice a value of the wrong type.
OptimizedAlike == [][~optimized /\ optimized' => Walks!Alike(program', program, seen)]_vars

\* The compiled engine implements the tree walker: after each statement of the program the
\* variables, the shared values and the calls that the host saw are the same, and in the end so
\* is the value or the error.
ImplementsWalker == Walks!Spec
=============================================================================
