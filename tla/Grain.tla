------------------------------- MODULE Grain -------------------------------
(* Grain as a whole: a script is lowered, or an artifact is read; the chunk is
   verified; it is run.                                                        *)
EXTENDS GrainCompile, GrainVm

CONSTANTS
  Origins,        \* subset of {"compiled", "read"}
  ReadOps,        \* the instructions of artifacts
  ReadLen,        \* their length
  ReadStacks      \* what they declare as max_stack

ASSUME GrainAssumption ==
  /\ Origins \subseteq {"compiled", "read"}
  /\ ReadOps \subseteq (Targeted \cup Plain)
  /\ {MaxStmts, HostVars, MaxVariables, MaxLevels, MaxOps, ReadLen} \subseteq Nat
  /\ ReadStacks \subseteq Nat
  /\ HostVars <= MaxVariables

vars == <<phase, chunk, low, verifier, machine>>

Init ==
  /\ origin \in Origins
  /\ phase = IF origin = "compiled" THEN "lower" ELSE "read"
  /\ code = <<>>
  /\ declared = 0
  /\ low = NewLowering
  /\ InitVerify
  /\ InitVm

\* An artifact may hold anything.
read_instruction ==
  /\ phase = "read"
  /\ \E op \in ReadOps : \E arg \in IF op \in Targeted THEN 1..(ReadLen + 1) ELSE {0} :
       /\ Len(code) + width(op) <= ReadLen
       /\ code' = code \o Instruction(op, arg)
  /\ UNCHANGED <<phase, origin, declared>>

read ==
  /\ phase = "read"
  /\ code # <<>>
  /\ declared' \in ReadStacks
  /\ phase' = "verify"
  /\ UNCHANGED <<origin, code>>

Finished == phase \in {"end", "refused"} /\ UNCHANGED vars

Step ==
  \/ Lowering /\ UNCHANGED <<verifier, machine>>
  \/ (read_instruction \/ read) /\ UNCHANGED <<low, verifier, machine>>
  \/ verify_chunk /\ UNCHANGED <<low, machine>>
  \/ execute /\ UNCHANGED <<chunk, low, verifier>>

Next == Step \/ Finished

Spec == Init /\ [][Next]_vars /\ WF_vars(Step)

-----------------------------------------------------------------------------
Frames ==
  [pc : Nat \ {0}, stack : Seq({"v", "i"}), base : Nat, scope : Nat, mark : Nat, handler_base : Nat,
   outer_floor : Nat]

Handlers == [target : Nat \ {0}, operands : Nat, scope_len : Nat, caught : BOOLEAN, owner : Nat]

(* What the state looks like; the operations of a run never exceed the limit by more
   than the one that is refused (track_operation). *)
TypeOK ==
  /\ phase \in {"lower", "read", "verify", "ready", "run", "end", "refused"}
  /\ origin \in {"compiled", "read"}
  /\ code \in Seq(Cells)
  /\ declared \in Nat
  /\ \A at \in DOMAIN label : label[at] \in States
  /\ high_water \in Nat
  /\ verdict \in {"none", "accepted", "refused"}
  /\ frames \in Seq(Frames)
  /\ handlers \in Seq(Handlers)
  /\ unwind_floor \in Nat
  /\ raised \in {"none", "catchable", "system"}
  /\ ops \in 0..(MaxOps + 1)
  /\ host \in Nat
  /\ fault \in {"none", "underflow", "other"}
  /\ cut \in BOOLEAN

\* The handlers that the i-th frame has armed.
Armed_by(i) ==
  (IF i = Len(frames) THEN Len(handlers) ELSE frames[i + 1].handler_base) - frames[i].handler_base

Verified == phase = "run" /\ verdict = "accepted"

(* What the verifier says of an instruction is true whenever the machine is there: as many
   handlers are armed, and the operand stack is no deeper.  The verifier counts a slot more for
   each iterator. *)
LabelsHold ==
  (Verified /\ raised = "none" /\ ~cut) =>
    \A i \in 1..Len(frames) :
      /\ frames[i].pc \in DOMAIN label
      /\ LET s == label[frames[i].pc]
         IN Armed_by(i) = s.handlers /\ Len(frames[i].stack) + s.iters <= s.operands

(* In code that the compiler made the operand stack is exactly as deep. *)
CompiledIsExact ==
  (Verified /\ origin = "compiled" /\ raised = "none") =>
    \A i \in 1..Len(frames) :
      LET s == label[frames[i].pc] IN Len(frames[i].stack) + s.iters = s.operands

(* Operands fit into the slots that execute allocates for a frame once: a push beyond them
   is an index out of bounds. *)
StackFits == phase = "run" => \A i \in 1..Len(frames) : Len(frames[i].stack) <= declared

(* Control is always at an instruction of the chunk, never behind its end or at an operand. *)
OnInstruction == phase = "run" => \A i \in 1..Len(frames) : IsStart(frames[i].pc)

(* The machine never reports a compiled chunk as malformed, even one that does not verify:
   break and continue leave iterators, handlers, scope and operands as their targets expect. *)
CompiledNeverFaults == origin = "compiled" => fault = "none"

(* A chunk that passes cannot underflow the operand stack (verify.rs), as long as it has
   neither a handler, whose catch block counts on operands that the try block may have taken,
   nor an iterator, for which the verifier counts a slot that is not there. *)
AcceptedNeverUnderflows ==
  (~Contains("PushHandler") /\ ~Contains("IterInit")) => fault # "underflow"

(* The verifier accepts what the compiler emits, except a break out of a `for`. *)
CompiledVerifiesWithoutBreak ==
  (origin = "compiled" /\ verdict = "refused") => Contains("IterDrop")

(* An error is resumed in the frame that armed the handler, never in the middle of another
   frame's code (catch). *)
CatchIsOwn ==
  [][(phase = "run" /\ raised # "none" /\ raised' = "none") =>
       handlers'[Len(handlers')].owner = Len(frames)]_vars

(* An error unwinds the scope to what the frame itself has set, whatever the functions that
   it called have set in between. *)
FloorIsOwn == phase = "run" => unwind_floor = Running.mark

(* The same for runs in which every catch block could be paid for. *)
FloorIsOwnUnlessCut == cut \/ FloorIsOwn

(* Every script, and every artifact however its jumps and handlers are arranged, ends: all
   cycles go through something that is charged. *)
Terminates == <>(phase \in {"end", "refused"})

(* What the verifier has established holds at every step of whatever it accepted. *)
VerifierIsRight ==
  verdict = "accepted" =>
    TypeOK /\ LabelsHold /\ StackFits /\ OnInstruction /\ AcceptedNeverUnderflows

(* What the compiler emits is well formed to the verifier and to the machine, even if it is run
   without having been accepted, and its frames unwind to where they began. *)
CompilerIsRight ==
  /\ TypeOK /\ StackFits /\ OnInstruction
  /\ CompiledIsExact /\ CompiledNeverFaults /\ CompiledVerifiesWithoutBreak
  /\ FloorIsOwnUnlessCut
=============================================================================
