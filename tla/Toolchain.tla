----------------------------- MODULE Toolchain -----------------------------
(***************************************************************************)
(* What a host does with Grain: it compiles or reads a chunk and runs it   *)
(* (Grain), or it builds a program and hands it to another process as an   *)
(* artifact with or without a sidecar (Store).                             *)
(***************************************************************************)
EXTENDS Grain

CONSTANTS
  ToStore,            \* programs to be stored: what the lowering hands over, by name
  Subjects,           \* what is switched on
  MaxConstantDepth    \* MAX_CONSTANT_DEPTH

ASSUME ToolchainAssumption == MaxConstantDepth \in Nat

VARIABLES stage, source, built, kept, bytes, harm, loaded, owner

S == INSTANCE Store

storeVars == <<stage, source, built, kept, bytes, harm, loaded, owner>>

\* A program to be stored is not run here.
StoreOnly ==
  /\ origin = "compiled"
  /\ phase = "end"
  /\ code = <<>>
  /\ declared = 0
  /\ low = NewLowering
  /\ InitVerify
  /\ InitVm
  /\ S!StoreInit

ToolInit == (Init /\ S!StoreIdle) \/ StoreOnly

ToolNext ==
  \/ Step /\ UNCHANGED storeVars
  \/ S!StoreNext /\ UNCHANGED vars
  \/ Finished /\ S!StoreEnded /\ UNCHANGED storeVars

ToolSpec == ToolInit /\ [][ToolNext]_<<vars, storeVars>> /\ WF_vars(Step)

-----------------------------------------------------------------------------
\* The programs that are stored, and what they switch on, for TLC.
E == INSTANCE StoreSamples

SomePrograms == E!Programs(MaxConstantDepth)

SomeSubjects == E!SomeSubjects

-----------------------------------------------------------------------------
(* What is read from an artifact that nothing happened to is the program that was written,
   to the last constant, jump and position, or all but its positions if these were stripped;
   and it is refused only if a constant nests deeper than the reader follows. *)
RoundTrips == S!RoundTrips

(* The descriptions of an instruction agree: what encoded_width reserves is what assemble
   fills, what WIDTHS steps over and what decode reads back, operand for operand, with jumps
   to the instructions that the lowering named. *)
DecodesAsAssembled == S!DecodesAsAssembled

(* What the machine asks of a tag through FORMS is what the decoded instruction says. *)
FormsAreOps == S!FormsAreOps

(* An artifact that was cut short or continued is never taken for another. *)
OnlyWholeRead == S!OnlyWholeRead

(* Whatever happened to an artifact: if it is read, each of its instructions names only what
   is in the pools, and control that enters at an instruction stays with the instructions of
   its chunk, however it jumps, branches or switches. *)
AcceptedIsSound == S!AcceptedIsSound

(* A fault that a stripped program reports is found in its own sidecar, at the place that the
   program with its positions would have given: the step of the chain, or else the instruction. *)
FaultsResolve == S!FaultsResolve

(* A sidecar that is accepted gives a program all its own positions back, whoever it was made
   for; and a program never refuses its own. *)
AttachesToOwn == S!AttachesToOwn

(* A switch goes where the lowering wanted it, before and after it was written: the index of
   hashes has the final targets, whichever hashes collide in it. *)
SwitchesAsLowered == S!SwitchesAsLowered

(* A function that works on `this` is known to, by whoever built or read it, unless all it
   does is to call with `this` a function that sees its variables. *)
ThisIsKnown == S!ThisIsKnown

(* Writing and reading a program, in whole or in part, gives that program or nothing. *)
ReadsWhatWasWritten ==
  RoundTrips /\ DecodesAsAssembled /\ FormsAreOps /\ OnlyWholeRead /\ SwitchesAsLowered

(* What was read can be run, and its faults be told where they happened. *)
ReadIsSound == AcceptedIsSound /\ FaultsResolve /\ AttachesToOwn /\ ThisIsKnown
=============================================================================
