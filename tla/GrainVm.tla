------------------------------ MODULE GrainVm ------------------------------
(* The machine (grain/vm/mod.rs): one frame per invocation with its own operand
   stack and, for a function, its own scope; the handlers of all frames in one
   list; the scope depth to which an error unwinds.

   An operand is a value ("v") or the iterator of a `for` ("i"); a scope is its
   length.  Each action is an arm of the dispatch loop, and says for itself what
   it takes from and leaves on the stack: the verifier's table is not used here.
   The build is the one without the JIT.                                       *)
EXTENDS GrainCode

CONSTANTS
  HostVars,       \* variables in the scope that the host passes in
  MaxVariables,   \* max_variables
  MaxLevels,      \* max_call_levels
  MaxOps          \* max_operations

VARIABLES
  frames,         \* GrainFrame and the locals of `execute`, innermost last
  handlers,       \* the armed try regions
  unwind_floor,
  raised,         \* the error that is under way: "none", "catchable" or "system"
  ops,            \* num_operations
  host,           \* the length of the host's scope when the program has ended
  fault,          \* ghost: "none", "underflow" or "other": what a chunk was reported malformed for
  cut             \* ghost: a frame was left because its catch block could not be paid for

machine == <<frames, handlers, unwind_floor, raised, ops, host, fault, cut>>

\* `mark` is a ghost: the floor that this frame itself has set.
Frame(base) ==
  [pc |-> 1, stack |-> <<>>, base |-> base, scope |-> base, mark |-> base,
   handler_base |-> Len(handlers), outer_floor |-> unwind_floor]

Running == frames[Len(frames)]

This == code[Running.pc]

Put(f) == frames' = [frames EXCEPT ![Len(frames)] = f]

Popped(f, n) == [f EXCEPT !.stack = SubSeq(@, 1, Len(@) - n)]

Pushed(f, x) == [f EXCEPT !.stack = Append(@, x)]

Next_pc(f) == [f EXCEPT !.pc = @ + width(code[@].op)]

TopIs(x) == Running.stack # <<>> /\ Running.stack[Len(Running.stack)] = x

-----------------------------------------------------------------------------
\* How many operands an arm takes before it does anything else.
takes(op) ==
  CASE op \in {"BinOp", "Rotate"} -> 2
    [] op \in {"Pop", "Declare", "IterInit", "IterDrop", "Throw"} \cup Branches \cup Advances -> 1
    [] OTHER -> 0

Underflow == Len(Running.stack) < takes(This.op)

\* The other checks that the machine makes as it runs.
Malformed ==
  \/ This.op \in Advances \cup {"IterDrop"} /\ ~TopIs("i")
  \/ This.op = "UnwindTo" /\ Running.base + This.arg > Running.scope

At_op(op) ==
  /\ phase = "run"
  /\ raised = "none"
  /\ This.op \in op
  /\ ~Underflow
  /\ ~Malformed

\* An arm that only moves on, with `f` for its frame.
Done(f) == Put(Next_pc(f)) /\ UNCHANGED <<phase, handlers, unwind_floor, raised, ops, host, fault, cut>>

\* An arm that fails: the frame stays at the instruction.
Raise(f, error) ==
  /\ Put(f)
  /\ raised' = error
  /\ UNCHANGED <<phase, handlers, unwind_floor, ops, host, fault, cut>>

Unpaid == ops + 1 > MaxOps

\* A backward transfer is charged an operation.
Backward_never(f, target) == FALSE

Backward(f, target) == target <= f.pc

transfer(f, target) ==
  /\ IF Backward(f, target)
     THEN /\ ops' = ops + 1
          /\ raised' = IF Unpaid THEN "system" ELSE raised
          /\ Put(IF Unpaid THEN f ELSE [f EXCEPT !.pc = target])
     ELSE Put([f EXCEPT !.pc = target]) /\ UNCHANGED <<ops, raised>>
  /\ UNCHANGED <<phase, handlers, unwind_floor, host, fault, cut>>

-----------------------------------------------------------------------------
malformed ==
  /\ phase = "run"
  /\ raised = "none"
  /\ Underflow \/ Malformed
  /\ fault' = IF Underflow THEN "underflow" ELSE "other"
  /\ raised' = "catchable"
  /\ UNCHANGED <<phase, frames, handlers, unwind_floor, ops, host, cut>>

PUSH == At_op({"Unit", "Push"}) /\ Done(Pushed(Running, "v"))

POP == At_op({"Pop"}) /\ Done(Popped(Running, 1))

DECLARE_LOCAL == At_op({"Declare"}) /\ Done([Popped(Running, 1) EXCEPT !.scope = @ + 1])

UNWIND_TO == At_op({"UnwindTo"}) /\ Done([Running EXCEPT !.scope = Running.base + This.arg])

\* Only a program has checkpoints: the function's copy of the chunk passes over them.
CHECKPOINT ==
  /\ At_op({"Checkpoint"})
  /\ IF Len(frames) > 1 THEN Done(Running)
     ELSE /\ unwind_floor' = Running.scope
          /\ Put(Next_pc([Running EXCEPT !.mark = Running.scope]))
          /\ UNCHANGED <<phase, handlers, raised, ops, host, fault, cut>>

\* `owner` is a ghost: the frame that armed the handler.
PUSH_HANDLER ==
  /\ At_op({"PushHandler"})
  /\ handlers' = Append(handlers, [target |-> This.arg, operands |-> Len(Running.stack),
                                   scope_len |-> Running.scope, caught |-> FALSE, owner |-> Len(frames)])
  /\ Put(Next_pc(Running))
  /\ UNCHANGED <<phase, unwind_floor, raised, ops, host, fault, cut>>

POP_HANDLER ==
  /\ At_op({"PopHandler"})
  /\ handlers' = SubSeq(handlers, 1, Len(handlers) - 1)
  /\ Put(Next_pc(Running))
  /\ UNCHANGED <<phase, unwind_floor, raised, ops, host, fault, cut>>

ROTATE ==
  /\ At_op({"Rotate"})
  /\ LET n == Len(Running.stack)
     IN Done([Running EXCEPT !.stack = SubSeq(@, 1, n - 2) \o <<@[n], @[n - 1]>>])

\* The iterable becomes the iterator, or is taken off as the arm fails.
ITER_INIT ==
  /\ At_op({"IterInit"})
  /\ \/ TopIs("v") /\ Done(Pushed(Popped(Running, 1), "i"))
     \/ Raise(Popped(Running, 1), "catchable")

ITER_DROP == At_op({"IterDrop"}) /\ Done(Popped(Running, 1))

ITER_NEXT ==
  /\ At_op(Advances)
  /\ \/ transfer(IF This.op = "IterNext" THEN Pushed(Running, "v") ELSE Running, This.arg)
     \/ Done(Popped(Running, 1))
     \/ Raise(Running, "catchable")

JUMP == At_op({"Jump"}) /\ transfer(Running, This.arg)

\* The guard is taken off before it is seen not to be a bool.
JUMP_IF ==
  /\ At_op({"JumpIfFalse", "JumpIfTrue"})
  /\ \/ transfer(Popped(Running, 1), This.arg)
     \/ Done(Popped(Running, 1))
     \/ Raise(Popped(Running, 1), "catchable")

SKIP_IF_NOT_UNIT ==
  /\ At_op({"SkipIfNotUnit"})
  /\ transfer(Running, This.arg) \/ Done(Running)

BIN_OP ==
  /\ At_op({"BinOp"})
  /\ Done(Pushed(Popped(Running, 2), "v")) \/ Raise(Running, "catchable")

THROW == At_op({"Throw"}) /\ Raise(Popped(Running, 1), "catchable")

\* A call of a native function: paid for, then it returns or fails.
CALL_native ==
  /\ At_op({"Call"})
  /\ ops' = ops + 1
  /\ \/ Unpaid /\ raised' = "system" /\ UNCHANGED frames
     \/ ~Unpaid /\ Put(Next_pc(Pushed(Running, "v"))) /\ UNCHANGED raised
     \/ ~Unpaid /\ raised' = "catchable" /\ UNCHANGED frames
  /\ UNCHANGED <<phase, handlers, unwind_floor, host, fault, cut>>

\* A call of a compiled function: paid for, then refused beyond the last level.
call_compiled ==
  /\ At_op({"Call"})
  /\ ops' = ops + 1
  /\ IF Unpaid \/ Len(frames) > MaxLevels
     THEN raised' = "system" /\ UNCHANGED <<frames, unwind_floor>>
     ELSE /\ frames' = Append(frames, Frame(0))
          /\ unwind_floor' = 0
          /\ UNCHANGED raised
  /\ UNCHANGED <<phase, handlers, host, fault, cut>>

-----------------------------------------------------------------------------
\* A frame goes; its caller has the value, or the error, at the call.
Lesser(a, b) == IF a < b THEN a ELSE b

Without(value, scope) ==
  /\ frames' = [i \in 1..(Len(frames) - 1) |->
                  IF value /\ i = Len(frames) - 1 THEN Next_pc(Pushed(frames[i], "v")) ELSE frames[i]]
  /\ phase' = IF Len(frames) = 1 THEN "end" ELSE phase
  /\ host' = IF Len(frames) = 1 THEN scope ELSE host

Restored_floor == Running.outer_floor

RETURN ==
  /\ At_op({"Return"})
  /\ Without(TRUE, Running.scope)
  /\ handlers' = SubSeq(handlers, 1, Running.handler_base)
  /\ unwind_floor' = Restored_floor
  /\ UNCHANGED <<raised, ops, fault, cut>>

\* `catch` looks at the handlers of its frame from the innermost outwards, past those
\* whose catch block it is leaving.
Armed_any == {i \in 1..Len(handlers) : ~handlers[i].caught}

Armed == {i \in (Running.handler_base + 1)..Len(handlers) : ~handlers[i].caught}

Innermost == CHOOSE i \in Armed : \A j \in Armed : j <= i

is_catchable(error) == error = "catchable"

Caught == raised # "none" /\ Armed # {} /\ is_catchable(raised)

\* Back to where the `try` began; a stack or scope that is already shorter stays.
Cut_back ==
  LET h == handlers[Innermost]
  IN [Running EXCEPT !.stack = SubSeq(@, 1, Lesser(Len(@), h.operands)),
                     !.scope = Lesser(@, h.scope_len)]

\* There is no room for the catch variable.
NoRoom == Cut_back.scope >= MaxVariables

Resumed == [Cut_back EXCEPT !.scope = @ + 1, !.pc = handlers[Innermost].target]

catch ==
  /\ phase = "run"
  /\ Caught
  /\ ~NoRoom
  /\ ~Unpaid
  /\ Put(Resumed)
  /\ handlers' = [SubSeq(handlers, 1, Innermost) EXCEPT ![Innermost].caught = TRUE]
  /\ raised' = "none"
  /\ ops' = ops + 1
  /\ UNCHANGED <<phase, unwind_floor, host, fault, cut>>

\* The operation that resuming costs is one too many: `execute` is left at once, and
\* neither the handlers nor the floor are put back.
catch_unpaid ==
  /\ phase = "run"
  /\ Caught
  /\ ~NoRoom
  /\ Unpaid
  /\ handlers' = [SubSeq(handlers, 1, Innermost) EXCEPT ![Innermost].caught = TRUE]
  /\ raised' = "system"
  /\ ops' = ops + 1
  /\ cut' = TRUE
  /\ Without(FALSE, Resumed.scope)
  /\ UNCHANGED <<unwind_floor, fault>>

\* Nothing here wants the error.  It unwinds the scope as it leaves; a program's scope
\* is the host's.
leave_with_error ==
  /\ phase = "run"
  /\ raised # "none"
  /\ Caught => NoRoom
  /\ raised' = IF Caught THEN "system" ELSE raised
  /\ handlers' = SubSeq(handlers, 1, Running.handler_base)
  /\ unwind_floor' = Restored_floor
  /\ Without(FALSE, Lesser(IF Caught THEN Cut_back.scope ELSE Running.scope, unwind_floor))
  /\ UNCHANGED <<ops, fault, cut>>

run_main ==
  /\ phase = "ready"
  /\ phase' = "run"
  /\ frames' = <<Frame(HostVars)>>
  /\ unwind_floor' = HostVars
  /\ UNCHANGED <<handlers, raised, ops, host, fault, cut>>

InitVm ==
  /\ frames = <<>>
  /\ handlers = <<>>
  /\ unwind_floor = 0
  /\ raised = "none"
  /\ ops = 0
  /\ host = HostVars
  /\ fault = "none"
  /\ cut = FALSE

run_frame ==
  \/ malformed \/ PUSH \/ POP \/ DECLARE_LOCAL \/ UNWIND_TO \/ CHECKPOINT \/ PUSH_HANDLER
  \/ POP_HANDLER \/ ROTATE \/ ITER_INIT \/ ITER_DROP \/ ITER_NEXT \/ JUMP \/ JUMP_IF
  \/ SKIP_IF_NOT_UNIT \/ BIN_OP \/ THROW \/ CALL_native \/ call_compiled \/ RETURN

execute == run_main \/ run_frame \/ catch \/ catch_unpaid \/ leave_with_error
=============================================================================
