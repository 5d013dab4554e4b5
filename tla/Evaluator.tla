------------------------------ MODULE Evaluator ------------------------------
(***************************************************************************)
(* The tree-walking evaluator: statements, script function calls, eval and *)
(* import (src/eval/stmt.rs, src/func/script.rs, src/func/call.rs,         *)
(* src/module/mod.rs, src/module/resolvers/file.rs, src/api/eval.rs).      *)
(*                                                                         *)
(* The program is not fixed: where the code looks at the next statement or *)
(* at the value of an expression, the model takes any.  What is kept is    *)
(* the control: the Rust call stack as a sequence of frames, each with the *)
(* state the code saved on entering it; how an outcome (a value, a return, *)
(* an error) travels through the frames; what each frame restores; and     *)
(* where the limits are tested.  Variables are counted, not named: which   *)
(* variable an access finds is the subject of VarResolution.               *)
(***************************************************************************)
EXTENDS Naturals, Sequences, FiniteSets

CONSTANTS
  MaxVars,    \* Engine::max_variables
  MaxLevels,  \* Engine::max_call_levels
  MaxMods,    \* Engine::max_modules
  MaxOps,     \* Engine::max_operations; 0 is no limit
  MaxParams,  \* most parameters of a script function (bound)
  MaxDepth,   \* most frames on the stack (bound)
  WordSize,   \* 2^w for a usize of w bits
  Features    \* which of the optional parts the scripts and the host use

ASSUME EvaluatorAssumption ==
  /\ MaxVars \in Nat /\ MaxLevels \in Nat /\ MaxMods \in Nat /\ MaxOps \in Nat
  /\ MaxParams \in Nat /\ MaxDepth \in Nat
  /\ WordSize \in Nat /\ WordSize > MaxVars
  /\ Features \subseteq {"eval", "import", "progress", "debugger"}

VARIABLES
  frames,  \* the Rust call stack, innermost frame last
  st,      \* Scope length and GlobalRuntimeState
  out,     \* "Run", or the outcome that is on its way to the frame on top
  ops,     \* num_operations, saturating at MaxOps
  mods     \* num_modules_loaded

vars == <<frames, st, out, ops, mods>>

State == [scope : Nat,           \* variables in the scope in use
          hidden : Nat,          \* of them, and of the imports, those the parser of the
                                 \* running code could not count (ghost)
          scope_level : Nat,
          always_search_scope : BOOLEAN,
          imports : Nat,
          lib : Nat,
          constants : {"none", "own", "env"},
          declared : BOOLEAN,    \* the running script or module has executed a
                                 \* global `const` (ghost)
          level : Nat,
          source : {"main", "module"},
          call_stack : Nat]      \* frames of the debugger's call stack

\* "System" is an exceeded limit or a termination, "Wrapped" one of these inside an
\* ErrorInFunctionCall or ErrorInModule.
Errors   == {"Runtime", "System", "Wrapped"}
Pseudo   == {"Return", "Exit", "Break", "Continue"}
Outcomes == {"Run", "Ok"} \cup Errors \cup Pseudo

\* Frames that run statements, and frames that wait for the value of an expression.
Codes == {"block", "inplace"}
Waits == {"let", "iter", "cond", "path"}
Kinds == Codes \cup Waits \cup {"body", "forbody", "try", "catch", "call", "eval", "module"}

Frame == [kind : Kinds,
          info : {"", "let", "const", "reuse", "reconst", "while", "do", "loop", "counter",
                  "env", "eval", "whole"} \cup Errors,
          brk  : BOOLEAN,  \* ParseSettingFlags::BREAKABLE where the frame's code was parsed
          orig : State]    \* the state on entering, of which the code saves what it restores

is_pseudo_error(e) == e \in Pseudo

is_catchable_all(e) == e \in Errors
is_catchable(e) == e \in {"Runtime", "Wrapped"}

is_system_exception(e) == e = "System"

-----------------------------------------------------------------------------
Top   == frames[Len(frames)]
Under == frames[Len(frames) - 1]

Popped == SubSeq(frames, 1, Len(frames) - 1)

Room(n) == Len(frames) + n <= MaxDepth

NewFrame(k, i, b) == [kind |-> k, info |-> i, brk |-> b, orig |-> st]

\* The value of a statement or of a sub-expression goes to code that goes on with it.
Resume(o) == IF o = "Ok" /\ Len(frames) > 1 /\ Under.kind \in Codes \cup Waits THEN "Run" ELSE o

InCode == out = "Run" /\ frames # <<>> /\ Top.kind \in Codes
InExpr == out = "Run" /\ frames # <<>> /\ Top.kind \in Codes \cup Waits

At(k) == frames # <<>> /\ Top.kind = k

Raise(e) == out' = e /\ UNCHANGED <<frames, st>>

\* eval_stmt_block with restore_orig_state, entered on top of the frames fs in state s.
Block(s, b) == [kind |-> "block", info |-> "", brk |-> b, orig |-> s]

RunBlock(fs, s, b) ==
  /\ frames' = Append(fs, Block(s, b))
  /\ st' = [s EXCEPT !.scope_level = @ + 1]
  /\ out' = "Run"

\* eval_stmt_block without restore_orig_state: the text of an eval, or a whole script or
\* module (then map_exit_to_return_value holds).
InPlace(s, i) == [kind |-> "inplace", info |-> i, brk |-> FALSE, orig |-> s]

Leave(o, s) ==
  /\ frames' = Popped
  /\ st' = s
  /\ out' = o

-----------------------------------------------------------------------------
\* track_operation
Exhausted == MaxOps > 0 /\ ops >= MaxOps

Tick == ~Exhausted /\ ops' = IF MaxOps = 0 THEN ops ELSE ops + 1

track_operation ==
  /\ InExpr
  /\ Exhausted \/ "progress" \in Features
  /\ Raise("System")
  /\ UNCHANGED <<ops, mods>>

\* A statement or expression that neither nests nor fails.
Simple ==
  /\ InExpr
  /\ Tick
  /\ UNCHANGED <<frames, st, out, mods>>

\* throw, or any catchable error: a native function, a type, a missing variable,
\* a debugger callback that ends the statement.
Throw ==
  /\ InExpr
  /\ Tick
  /\ Raise("Runtime")
  /\ UNCHANGED mods

Stmt_Return ==
  /\ InCode
  /\ Tick
  /\ Raise("Return")
  /\ UNCHANGED mods

\* Calling the native function `exit`.
exit ==
  /\ InExpr
  /\ Tick
  /\ Raise("Exit")
  /\ UNCHANGED mods

Stmt_BreakLoop ==
  /\ InCode
  /\ Top.brk
  /\ Tick
  /\ \E e \in {"Break", "Continue"} : Raise(e)
  /\ UNCHANGED mods

-----------------------------------------------------------------------------
\* Stmt::Block, Stmt::If, Stmt::Switch and Expr::Stmt.
Stmt_Block ==
  /\ InExpr
  /\ Room(1)
  /\ Tick
  /\ RunBlock(frames, st, Top.brk)
  /\ UNCHANGED mods

\* The last of the statements has run (eval_stmt_block leaves at once when there is none).
EndOfStatements_free ==
  /\ InCode
  /\ Raise("Ok")
  /\ UNCHANGED <<ops, mods>>

EndOfStatements ==
  /\ InCode
  /\ Tick
  /\ Raise("Ok")
  /\ UNCHANGED mods

\* The deferred part of eval_stmt_block.
RestoredBlock_twice(s, o) ==
  [s EXCEPT !.scope = o.scope, !.hidden = o.hidden,
            !.scope_level = @ - 2, !.imports = o.imports,
            !.always_search_scope = o.always_search_scope]

RestoredBlock(s, o) ==
  [s EXCEPT !.scope = o.scope, !.hidden = o.hidden,
            !.scope_level = @ - 1, !.imports = o.imports,
            !.always_search_scope = o.always_search_scope]

LeaveBlock ==
  /\ out # "Run"
  /\ At("block")
  /\ Leave(Resume(out), RestoredBlock(st, Top.orig))
  /\ UNCHANGED <<ops, mods>>

\* eval_global_statements.
LeaveInPlace ==
  /\ out # "Run"
  /\ At("inplace")
  /\ Leave(IF out = "Return" \/ (out = "Exit" /\ Top.info = "whole") THEN "Ok" ELSE out, st)
  /\ UNCHANGED <<ops, mods>>

\* An error or a jump out of an expression ends the statement that waits for its value.
Propagate ==
  /\ out \notin {"Run", "Ok"}
  /\ \E k \in Waits : At(k)
  /\ Leave(out, st)
  /\ UNCHANGED <<ops, mods>>

-----------------------------------------------------------------------------
\* Stmt::Var: the limit is tested, then the initial value is evaluated.  To a definition
\* that reuses a slot the parser gave that of an earlier one.  A constant that is
\* executed while every library is empty leaves no more behind than a `let`, and counts
\* as one.
Reuses    == {"reuse", "reconst"}
Constants == {"const", "reconst"}
TooManyVariables(n) == n >= MaxVars

Stmt_Var ==
  /\ InCode
  /\ Tick
  /\ \E i \in {"let", "const", "reuse", "reconst"} :
       \/ /\ i \notin Reuses /\ TooManyVariables(st.scope)
          /\ Raise("System")
       \/ /\ i \in Reuses \/ ~TooManyVariables(st.scope)
          /\ Room(1)
          /\ frames' = Append(frames, NewFrame("let", i, Top.brk))
          /\ UNCHANGED <<st, out>>
  /\ UNCHANGED mods

\* The rest of Stmt::Var.  A script's global constant goes into `constants`
\* whatever slot it has.
DefineVar ==
  /\ out = "Run"
  /\ At("let")
  /\ LET global == Top.info \in Constants /\ Under.kind = "inplace"
         whole  == global /\ Under.info = "whole"
     IN Leave("Run",
          [st EXCEPT
             !.scope = IF Top.info \in Reuses THEN @ ELSE @ + 1,
             !.constants = IF global /\ st.scope_level = 0 /\ @ = "none" THEN "own" ELSE @,
             !.declared = @ \/ whole])
  /\ UNCHANGED <<ops, mods>>

-----------------------------------------------------------------------------
\* Stmt::While, with and without a condition, and Stmt::Do.
Stmt_Loop ==
  /\ InCode
  /\ Tick
  /\ \/ /\ Room(1)
        /\ frames' = Append(frames, NewFrame("cond", "while", Top.brk))
        /\ UNCHANGED <<st, out>>
     \/ /\ Room(2)
        /\ \E i \in {"do", "loop"} :
             RunBlock(Append(frames, NewFrame("body", i, Top.brk)), st, TRUE)
  /\ UNCHANGED mods

Condition ==
  /\ out = "Run"
  /\ At("cond")
  /\ Tick
  /\ \/ Leave("Run", st)
     \/ Room(1) /\ RunBlock([frames EXCEPT ![Len(frames)].kind = "body"], st, TRUE)
  /\ UNCHANGED mods

LoopBody ==
  /\ out # "Run"
  /\ At("body")
  /\ \/ /\ out \in {"Ok", "Continue"}
        /\ Top.info = "while" \/ (Top.info = "do" /\ out = "Ok")
        /\ frames' = [frames EXCEPT ![Len(frames)].kind = "cond"]
        /\ out' = "Run"
        /\ UNCHANGED st
     \/ /\ out \in {"Ok", "Continue"}
        /\ Top.info = "loop" \/ (Top.info = "do" /\ out = "Continue")
        /\ Room(1)
        /\ RunBlock(frames, st, TRUE)
     \/ /\ out \notin {"Ok", "Continue"}
        /\ Leave(IF out = "Break" THEN Resume("Ok") ELSE out, st)
  /\ UNCHANGED <<ops, mods>>

\* Stmt::For, with c = 1 counter or none.
Stmt_For ==
  /\ InCode
  /\ Tick
  /\ \E c \in {0, 1} :
       IF st.scope >= (MaxVars + WordSize - c) % WordSize
       THEN Raise("System")
       ELSE /\ Room(1)
            /\ frames' = Append(frames, NewFrame("iter", IF c = 1 THEN "counter" ELSE "", Top.brk))
            /\ UNCHANGED <<st, out>>
  /\ UNCHANGED mods

\* The iterable is there: the loop variables come into scope.
Iterable ==
  /\ out = "Run"
  /\ At("iter")
  /\ frames' = [frames EXCEPT ![Len(frames)] = NewFrame("forbody", "", Top.brk)]
  /\ st' = [st EXCEPT !.scope = @ + IF Top.info = "counter" THEN 2 ELSE 1]
  /\ out' = "Ok"
  /\ UNCHANGED <<ops, mods>>

Rewound(s, o) == [s EXCEPT !.scope = o.scope]

ForBody ==
  /\ out # "Run"
  /\ At("forbody")
  /\ \/ /\ out \in {"Ok", "Continue"}  \* one more item
        /\ Room(1)
        /\ RunBlock(frames, st, TRUE)
     \/ /\ out \in {"Ok", "Continue"}  \* the iterator ends, or fails
        /\ \E r \in {Resume("Ok"), "Runtime"} : Leave(r, Rewound(st, Top.orig))
     \/ /\ out \notin {"Ok", "Continue"}
        /\ Leave(IF out = "Break" THEN Resume("Ok") ELSE out, Rewound(st, Top.orig))
  /\ UNCHANGED <<ops, mods>>

-----------------------------------------------------------------------------
Stmt_TryCatch ==
  /\ InCode
  /\ Room(2)
  /\ Tick
  /\ RunBlock(Append(frames, NewFrame("try", "", Top.brk)), st, Top.brk)
  /\ UNCHANGED mods

TryBody ==
  /\ out # "Run"
  /\ At("try")
  /\ \/ /\ is_pseudo_error(out) \/ ~is_catchable(out)
        /\ Leave(Resume(out), st)
     \/ /\ ~is_pseudo_error(out) /\ is_catchable(out)
        /\ \E v \in {0, 1} :  \* is there a catch variable?
             IF v = 1 /\ TooManyVariables(st.scope)
             THEN Leave("System", st)
             ELSE RunBlock([frames EXCEPT ![Len(frames)] = NewFrame("catch", out, Top.brk)],
                           [st EXCEPT !.scope = @ + v], Top.brk)
  /\ UNCHANGED <<ops, mods>>

\* `throw` without a value in the catch block throws the caught error again.
CatchBody ==
  /\ out # "Run"
  /\ At("catch")
  /\ \E o \in {Resume(out)} \cup (IF out = "Runtime" THEN {Top.info} ELSE {}) :
       Leave(o, Rewound(st, Top.orig))
  /\ UNCHANGED <<ops, mods>>

-----------------------------------------------------------------------------
\* exec_fn_call or make_qualified_function_call, and call_script_fn, up to the body of
\* the function.  A function of a module comes with the module's environment.
Merged(s, env) ==
  IF env THEN [s EXCEPT !.imports = @ + 1, !.lib = @ + 1, !.constants = "env"] ELSE s

Debugged(s) == IF "debugger" \in Features THEN [s EXCEPT !.call_stack = @ + 1] ELSE s

StackOverflow(level) == level > MaxLevels

\* Is the body of a function parsed with the flags of the code around it?
FnBreakable_inherited(b) == b
FnBreakable(b) == FALSE

call_script_fn ==
  /\ InExpr
  /\ Tick
  /\ \E p \in 0..MaxParams, env \in {FALSE} \cup {"import" \in Features} :
       \/ /\ StackOverflow(st.level + 1) \/ p > MaxVars
          /\ Raise("System")
       \/ /\ ~StackOverflow(st.level + 1) /\ p <= MaxVars
          /\ Room(2)
          /\ RunBlock(Append(frames, NewFrame("call", IF env THEN "env" ELSE "", Top.brk)),
                      [Merged(Debugged(st), env) EXCEPT
                         !.scope = p, !.hidden = 0, !.level = @ + 1,
                         !.source = IF env THEN "module" ELSE @],
                      FnBreakable(Top.brk))
       \* The debugger callback fails on entry: `?` leaves at once.
       \/ /\ ~StackOverflow(st.level + 1) /\ p <= MaxVars
          /\ "debugger" \in Features
          /\ st' = [Merged(Debugged(st), env) EXCEPT !.hidden = IF env THEN @ + 1 ELSE @]
          /\ out' = "Runtime"
          /\ UNCHANGED frames
  /\ UNCHANGED mods

RestoredCall_lib_kept(s, f) ==
  LET o == f.orig
  IN [s EXCEPT !.scope = o.scope, !.hidden = o.hidden, !.imports = o.imports,
               !.constants = IF f.info = "env" THEN o.constants ELSE @,
               !.level = o.level, !.source = o.source, !.call_stack = o.call_stack]

RestoredCall_constants_taken(s, f) ==
  LET o == f.orig
  IN [s EXCEPT !.scope = o.scope, !.hidden = o.hidden, !.imports = o.imports, !.lib = o.lib,
               !.constants = IF f.info = "env" THEN "none" ELSE @,
               !.level = o.level, !.source = o.source, !.call_stack = o.call_stack]

RestoredCall(s, f) ==
  LET o == f.orig
  IN [s EXCEPT !.scope = o.scope, !.hidden = o.hidden, !.imports = o.imports, !.lib = o.lib,
               !.constants = IF f.info = "env" THEN o.constants ELSE @,
               !.level = o.level, !.source = o.source, !.call_stack = o.call_stack]

\* How call_script_fn passes on the outcome of the body.
FromCall_exit(o) == IF o \in {"Return", "Exit"} THEN "Ok" ELSE o

FromCall(o) ==
  CASE o = "Return" -> "Ok"
    [] o \in {"Break", "Continue"} -> "Runtime"
    [] OTHER -> o

ReturnFromCall ==
  /\ out # "Run"
  /\ At("call")
  /\ \E r \in {FromCall(out)} \cup (IF "debugger" \in Features THEN {"Runtime"} ELSE {}) :
       Leave(Resume(r), RestoredCall(st, Top))
  /\ UNCHANGED <<ops, mods>>

-----------------------------------------------------------------------------
\* eval(script): the text is parsed on its own and runs in the scope of the caller.
eval ==
  /\ "eval" \in Features
  /\ InExpr
  /\ Tick
  /\ \/ Raise("Runtime")  \* the text does not parse
     \/ LET s == [st EXCEPT !.level = @ + 1, !.hidden = 0]
        IN /\ Room(2)
           /\ frames' = Append(Append(frames, NewFrame("eval", "", Top.brk)),
                               InPlace(s, "eval"))
           /\ st' = s
           /\ UNCHANGED out
  /\ UNCHANGED mods

FromEval(o) == IF is_system_exception(o) THEN "Wrapped" ELSE o

\* What eval leaves behind: variables and imports the caller's parser never saw.
Left(s, o) == (s.scope - o.scope) + (s.imports - o.imports)

RestoredEval_no_flag(s, o) ==
  [s EXCEPT !.level = o.level, !.hidden = o.hidden + Left(s, o)]

RestoredEval(s, o) ==
  [s EXCEPT !.level = o.level, !.hidden = o.hidden + Left(s, o),
            !.always_search_scope = @ \/ s.scope # o.scope \/ s.imports # o.imports]

ReturnFromEval ==
  /\ out # "Run"
  /\ At("eval")
  /\ Leave(Resume(FromEval(out)), RestoredEval(st, Top.orig))
  /\ UNCHANGED <<ops, mods>>

-----------------------------------------------------------------------------
\* Stmt::Import: the limit is tested, then the path is evaluated and resolved.
TooManyModules == mods >= MaxMods

Stmt_Import ==
  /\ "import" \in Features
  /\ InCode
  /\ Tick
  /\ IF TooManyModules
     THEN Raise("System")
     ELSE /\ Room(1)
          /\ frames' = Append(frames, NewFrame("path", "", Top.brk))
          /\ UNCHANGED <<st, out>>
  /\ UNCHANGED mods

\* The resolver has the module at hand.
LoadedModule ==
  /\ out = "Run"
  /\ At("path")
  /\ Leave("Run", [st EXCEPT !.imports = @ + 1])
  /\ mods' = mods + 1
  /\ UNCHANGED ops

\* The file resolver compiles the module (its text may not parse) and evaluates it, in the
\* scope and the global state of the importing script.
EvalModule ==
  /\ out = "Run"
  /\ At("path")
  /\ \/ Leave("Runtime", st)
     \/ LET s == [st EXCEPT !.constants = "none", !.lib = @ + 1, !.source = "module",
                            !.hidden = 0, !.declared = FALSE]
        IN /\ Room(1)
           /\ frames' = Append([frames EXCEPT ![Len(frames)] = NewFrame("module", "", Top.brk)],
                               InPlace(s, "whole"))
           /\ st' = s
           /\ UNCHANGED out
  /\ UNCHANGED <<ops, mods>>

\* eval_ast_as_new_raw: an error skips the part that empties the scope.
RestoredModule(s, o, ok) ==
  [s EXCEPT !.scope = IF ok THEN o.scope ELSE @,
            !.hidden = IF ok THEN o.hidden ELSE o.hidden + (s.scope - o.scope),
            !.imports = IF ok THEN o.imports + 1 ELSE o.imports,
            !.constants = o.constants, !.declared = o.declared,
            !.lib = o.lib, !.source = o.source]

FromModule(o) == IF is_system_exception(o) THEN "Wrapped" ELSE o

ReturnFromModule ==
  /\ out # "Run"
  /\ At("module")
  /\ Leave(Resume(FromModule(out)), RestoredModule(st, Top.orig, out = "Ok"))
  /\ mods' = IF out = "Ok" THEN mods + 1 ELSE mods
  /\ UNCHANGED ops

-----------------------------------------------------------------------------
\* Engine::eval_ast_with_scope_raw of the host's script.
Start == [scope |-> 0, hidden |-> 0, scope_level |-> 0, always_search_scope |-> FALSE,
          imports |-> 0, lib |-> 1, constants |-> "none", declared |-> FALSE,
          level |-> 0, source |-> "main", call_stack |-> 0]

Init ==
  /\ st = Start
  /\ frames = <<InPlace(Start, "whole")>>
  /\ out = "Run"
  /\ ops = 0
  /\ mods = 0

Done == frames = <<>> /\ UNCHANGED vars

Step ==
  \/ track_operation \/ Simple \/ Throw \/ Stmt_Return \/ exit \/ Stmt_BreakLoop
  \/ Stmt_Block \/ EndOfStatements \/ LeaveBlock \/ LeaveInPlace \/ Propagate
  \/ Stmt_Var \/ DefineVar
  \/ Stmt_Loop \/ Condition \/ LoopBody \/ Stmt_For \/ Iterable \/ ForBody
  \/ Stmt_TryCatch \/ TryBody \/ CatchBody
  \/ call_script_fn \/ ReturnFromCall
  \/ eval \/ ReturnFromEval
  \/ Stmt_Import \/ LoadedModule \/ EvalModule \/ ReturnFromModule

Next == Step \/ Done

\* The evaluator runs on the caller's thread and does not stop between two statements.
Spec == Init /\ [][Next]_vars /\ WF_vars(Step)

-----------------------------------------------------------------------------
TypeOK ==
  /\ frames \in Seq(Frame)
  /\ st \in State
  /\ out \in Outcomes
  /\ ops \in Nat
  /\ mods \in Nat

Count(ks) == Cardinality({i \in 1..Len(frames) : frames[i].kind \in ks})

\* Whatever way a frame is left (value, return, break, exit, error of any kind), the state
\* is as the code outside knew it: a block, a function call, a catch clause and a for loop
\* leave no trace; other statements and expressions may only leave variables, imports, the
\* search flag and global constants (eval_stmt_block, call_script_fn, eval_ast_as_new_raw).
Traceless == {"block", "call", "catch", "forbody"}

SameBut(s, o) ==
  s = [o EXCEPT !.scope = s.scope, !.hidden = s.hidden, !.imports = s.imports,
                !.always_search_scope = s.always_search_scope,
                !.constants = s.constants, !.declared = s.declared]

ExitsAreClean ==
  [][Len(frames') < Len(frames) /\ frames' # <<>> =>
       IF Top.kind \in Traceless THEN st' = Top.orig ELSE SameBut(st', Top.orig)]_vars

\* While code runs, no variable or import is in the scope that its parser could not count,
\* or names are searched for: eval may leave variables and imports behind, also when it
\* fails or is called in a block, a loop or a module, and always_search_scope says so.
AlignedOrSearched == out = "Run" /\ st.hidden > 0 => st.always_search_scope

\* Limits: "Maximum number of variables allowed at any instant."
VariablesWithinLimit == st.scope <= MaxVars

\* The nesting level is the number of script calls and evals under way, also after any of
\* them failed, and never do more than max_call_levels calls of script functions nest.
CallLevels ==
  /\ st.level = Count({"call", "eval"})
  /\ Count({"call"}) <= MaxLevels

\* scope_level is zero exactly at the level of whole scripts and modules, outside blocks.
ScopeLevels == st.scope_level = Count({"block"})

\* A catch clause never runs for a limit that was exceeded or a script that was terminated.
SystemErrorsNotCaught ==
  \A i \in 1..Len(frames) : frames[i].kind = "catch" => frames[i].info = "Runtime"

\* eval_global_statements: "no outer loop scope to break out of" cannot be reached, nor does
\* a `break` leave the function it is in.
LoopBreakStaysInside ==
  out \in {"Break", "Continue"} =>
    frames # <<>> /\ Top.kind \notin {"call", "eval", "module", "inplace"}

\* The native function exit: "Exit the script evaluation immediately".  Neither a loop, a
\* catch clause nor a call goes on after it; only a debugger may fail on the way out.
ExitEndsScript ==
  [][out = "Exit" => \/ out' = "Exit" \/ frames' = <<>>
                     \/ "debugger" \in Features /\ At("call") /\ out' = "Runtime"]_vars

\* "Put global constants into global module": when a module is done, the constants its
\* functions need are there, whatever calls, evals and imports its body made after defining
\* them, provided that it was not imported from inside a block or a function.
ModuleConstantsCaptured ==
  At("module") /\ out = "Ok" /\ Top.orig.scope_level = 0 /\ st.declared =>
    st.constants # "none"

\* With a limit on operations every script ends, whatever loops and calls it makes.
Terminates == <>(frames = <<>>)

\* What GlobalRuntimeState counts and keeps is right at every statement, after any way out of
\* the calls, blocks and modules before it.
RuntimeStateHolds == CallLevels /\ ScopeLevels /\ ModuleConstantsCaptured

\* No limit is passed, and no script goes on after one was.
LimitsHold == VariablesWithinLimit /\ SystemErrorsNotCaught
=============================================================================
