---------------------------- MODULE VarResolution ----------------------------
(***************************************************************************)
(* Variables and imported modules by offset: the parser (src/parser.rs)    *)
(* works out, with a stack that mirrors the scope, how far from the end of *)
(* the scope each name will be; the evaluator (src/eval/stmt.rs,           *)
(* src/eval/expr.rs) uses the offset instead of the name.                  *)
(*                                                                         *)
(* First a program is parsed, statement by statement, any program of at    *)
(* most MaxCode statements; then it runs.  A block may be skipped, run     *)
(* once or run again.  Values are left out: a variable holds the number of *)
(* the statement that defined it.                                          *)
(***************************************************************************)
EXTENDS Integers, Sequences

CONSTANTS
  Names,    \* names of variables and modules
  MaxCode,  \* statements of a program (bound)
  Ops       \* the statements programs are made of

NoName == "none"

ASSUME VarAssumption ==
  /\ NoName \notin Names
  /\ MaxCode \in Nat
  /\ Ops \subseteq {"let", "export let", "export", "var", "share", "eval", "import", "mod",
                    "block", "for", "arm"}

VARIABLES
  phase,  \* "parse", "run", "end", "error" or "panic"
  code,   \* the statements parsed, each with its offset
  p,      \* ParseState
  r,      \* Scope and GlobalRuntimeState
  ip      \* the statement to run next

vars == <<phase, code, p, r, ip>>

\* The last entry of s with the name n, 0 if there is none.
Find(s, n) ==
  CHOOSE i \in 0..Len(s) :
    /\ i > 0 => s[i].name = n
    /\ \A j \in (i+1)..Len(s) : s[j].name # n

FindFirst(s, n) ==
  CHOOSE i \in 0..Len(s) :
    /\ i > 0 => s[i].name = n
    /\ \A j \in 1..(IF i = 0 THEN Len(s) ELSE i - 1) : s[j].name # n

NamesOf(s) == [i \in 1..Len(s) |-> s[i].name]

Cut(s, n) == SubSeq(s, 1, n)

\* An offset is counted from the end of the stack, the last entry being 1.
Offset(s, i) == IF i = 0 THEN 0 ELSE Len(s) - i + 1

Slot(s, offset) == (Len(s) + 1) - offset

-----------------------------------------------------------------------------
\* The parser.
find_var(n) == Offset(p.stack, Find(p.stack, n))

\* `.iter().rev().rposition(..)` looks from the front.
find_module(n) == Offset(p.imports, FindFirst(p.imports, n))

\* A statement: what it does, to which name, with which offset, and where a block ends.
\* `seen` is what the parser knew before it (ghost).
Statement(op, n, offset) ==
  [op |-> op, name |-> n, offset |-> offset, to |-> 0, seen |-> p]

\* In an arm of a switch without braces there is one statement.
ArmIsFull == p.blocks # <<>> /\ LET b == p.blocks[Len(p.blocks)]
                                IN b.kind = "arm" /\ Len(code) > b.at

Parsing(op) == phase = "parse" /\ op \in Ops /\ Len(code) < MaxCode /\ ~ArmIsFull

GlobalLevel == \A i \in 1..Len(p.blocks) : p.blocks[i].kind = "arm"

Emit(c) == code' = Append(code, c) /\ UNCHANGED <<phase, r, ip>>

\* parse_let: a variable of the same block that has no alias is defined anew in place.
Reusable_any_block(i) == i > 0 /\ ~p.stack[i].alias
Reusable(i) == i > 0 /\ ~p.stack[i].alias /\ i > p.frame_pointer

parse_let(n, export) ==
  LET i   == Find(p.stack, n)
      stk == IF Reusable(i) THEN p.stack ELSE Append(p.stack, [name |-> n, alias |-> FALSE])
  IN /\ Parsing(IF export THEN "export let" ELSE "let")
     /\ export => GlobalLevel
     /\ p' = [p EXCEPT !.stack =
                IF export THEN [stk EXCEPT ![Len(stk)].alias = TRUE] ELSE stk]
     /\ Emit(Statement(IF export THEN "export let" ELSE "let", n,
                       IF Reusable(i) THEN Offset(p.stack, i) ELSE 0))

parse_export(n) ==
  LET i == Find(p.stack, n)
  IN /\ Parsing("export")
     /\ GlobalLevel
     /\ p' = IF i > 0 THEN [p EXCEPT !.stack[i].alias = TRUE] ELSE p
     /\ Emit(Statement("export", n, 0))

\* A variable in an expression, or one that a closure captures (access_var).
access_var(op, n) ==
  /\ op \in {"var", "share"}
  /\ Parsing(op)
  /\ Emit(Statement(op, n, find_var(n)))
  /\ UNCHANGED p

parse_import(n) ==
  /\ Parsing("import")
  /\ p' = [p EXCEPT !.imports = Append(@, [name |-> n])]
  /\ Emit(Statement("import", n, 0))

\* n::x.
parse_namespace(n) ==
  /\ Parsing("mod")
  /\ Emit(Statement("mod", n, find_module(n)))
  /\ UNCHANGED p

\* A call of eval: its text, which defines a variable or imports a module, is not seen.
parse_eval(op, n) ==
  /\ op \in {"eval let", "eval import"}
  /\ Parsing("eval")
  /\ Emit(Statement(op, n, 0))
  /\ UNCHANGED p

\* parse_block, also as the body of a `for` or `catch` that brings a variable n.
Opened(kind) ==
  [kind |-> kind, at |-> Len(code) + 1, stack |-> Len(p.stack), imports |-> Len(p.imports),
   frame_pointer |-> p.frame_pointer]

parse_block(n) ==
  LET stk == IF n = NoName THEN p.stack ELSE Append(p.stack, [name |-> n, alias |-> FALSE])
  IN /\ Parsing(IF n = NoName THEN "block" ELSE "for")
     /\ p' = [p EXCEPT !.stack = stk, !.frame_pointer = Len(stk),
                       !.blocks = Append(@, Opened("block"))]
     /\ Emit(Statement("open", n, 0))

\* An arm of a switch is a statement by itself: parse_switch calls parse_stmt.
\* (Programs are bounded: there must be room for that statement.)
parse_arm ==
  /\ Parsing("arm")
  /\ Len(code) + 1 < MaxCode
  /\ p' = [p EXCEPT !.blocks = Append(@, Opened("arm"))]
  /\ Emit(Statement("arm", NoName, 0))

\* The end of a block: the parser forgets its variables and imports.  It does not after
\* the statement of an arm.
Closed(q, b) ==
  IF b.kind = "arm" THEN q
  ELSE [q EXCEPT !.stack = Cut(@, b.stack), !.imports = Cut(@, b.imports),
                 !.frame_pointer = b.frame_pointer]

parse_close ==
  /\ phase = "parse"
  /\ p.blocks # <<>>
  /\ LET b == p.blocks[Len(p.blocks)]
     IN /\ b.kind = "arm" => ArmIsFull
        /\ p' = [Closed(p, b) EXCEPT !.blocks = Cut(@, Len(@) - 1)]
        /\ code' = Append([code EXCEPT ![b.at].to = Len(code) + 1], Statement("close", NoName, 0))
  /\ UNCHANGED <<phase, r, ip>>

parse_end ==
  /\ phase = "parse"
  /\ p.blocks = <<>>
  /\ phase' = "run"
  /\ UNCHANGED <<code, p, r, ip>>

-----------------------------------------------------------------------------
\* The evaluator.
Running(op) == phase = "run" /\ ip <= Len(code) /\ code[ip].op = op

Now == code[ip]

Advance(s) == r' = s /\ ip' = ip + 1 /\ UNCHANGED <<phase, code, p>>

Stop(how) == phase' = how /\ UNCHANGED <<code, p, r, ip>>

Variable(n) == [name |-> n, def |-> ip, alias |-> {}]

\* Stmt::Var.  `scope.len() - index`, whatever always_search_scope says; the alias of an
\* exported variable goes to the last entry.
Stored(s) ==
  IF Now.offset = 0 THEN Append(s, Variable(Now.name))
  ELSE [s EXCEPT ![Slot(s, Now.offset)].def = ip]

Stmt_Var ==
  /\ Running("let")
  /\ IF Slot(r.scope, Now.offset) < 1 THEN Stop("panic")
     ELSE Advance([r EXCEPT !.scope = Stored(@)])

\* With rewind_scope set, an exported variable is `unreachable!`.
Stmt_Var_exported ==
  /\ Running("export let")
  /\ IF r.blocks # <<>> \/ Slot(r.scope, Now.offset) < 1 THEN Stop("panic")
     ELSE LET s == Stored(r.scope)
          IN Advance([r EXCEPT !.scope = [s EXCEPT ![Len(s)].alias = @ \cup {Now.name}]])

Stmt_Export ==
  /\ Running("export")
  /\ LET i == Find(r.scope, Now.name)
     IN IF i = 0 THEN Stop("error")
        ELSE Advance([r EXCEPT !.scope[i].alias = @ \cup {Now.name}])

\* search_scope_only, and Stmt::Share.
Resolved_no_flag(s, c) == IF c.offset = 0 THEN Find(s, c.name) ELSE Slot(s, c.offset)

Resolved(s, c) ==
  IF r.always_search_scope \/ c.offset = 0 THEN Find(s, c.name) ELSE Slot(s, c.offset)

\* A name that is not found is an error; an offset beyond the scope makes the subtraction
\* underflow, or the index that it yields lie outside.
NotThere(search) == IF search \/ Now.offset = 0 THEN "error" ELSE "panic"

search_scope_only ==
  /\ Running("var")
  /\ LET i == Resolved(r.scope, Now)
     IN IF i >= 1 THEN Advance(r) ELSE Stop(NotThere(r.always_search_scope))

Shared(s, c) == IF c.offset = 0 THEN Find(s, c.name) ELSE Slot(s, c.offset)

Stmt_Share ==
  /\ Running("share")
  /\ LET i == Shared(r.scope, Now)
     IN IF i >= 1 THEN Advance(r) ELSE Stop(NotThere(FALSE))

Stmt_Import ==
  /\ Running("import")
  /\ Advance([r EXCEPT !.imports = Append(@, [name |-> Now.name, def |-> ip])])

search_imports ==
  /\ Running("mod")
  /\ LET i == Resolved(r.imports, Now)
     IN IF i >= 1 THEN Advance(r) ELSE Stop(NotThere(r.always_search_scope))

\* eval_script_expr_in_place, and the test of the scope after it.
eval ==
  \/ /\ Running("eval let")
     /\ Advance([r EXCEPT !.scope = Append(@, Variable(Now.name)), !.always_search_scope = TRUE])
  \/ /\ Running("eval import")
     /\ Advance([r EXCEPT !.imports = Append(@, [name |-> Now.name, def |-> ip]),
                          !.always_search_scope = TRUE])

\* eval_stmt_block: what it saves, and what it restores.
Entered(scope) ==
  [at |-> ip, outer |-> Len(r.scope), scope |-> Len(scope), imports |-> Len(r.imports),
   always_search_scope |-> r.always_search_scope]

Restored(b) ==
  [r EXCEPT !.scope = Cut(@, b.scope), !.imports = Cut(@, b.imports),
            !.always_search_scope = b.always_search_scope]

eval_stmt_block ==
  /\ Running("open") \/ Running("arm")
  /\ \/ LET s == IF Now.name = NoName THEN r.scope ELSE Append(r.scope, Variable(Now.name))
        IN Advance([r EXCEPT !.scope = s, !.blocks = Append(@, Entered(s))])
     \/ ip' = Now.to + 1 /\ UNCHANGED <<phase, code, p, r>>

\* The block is done: once more, or on.
leave_block ==
  /\ Running("close")
  /\ LET b == r.blocks[Len(r.blocks)]
         s == Restored(b)
     IN \/ /\ ip' = b.at + 1
           /\ r' = s
           /\ UNCHANGED <<phase, code, p>>
        \/ Advance([s EXCEPT !.scope = Cut(@, b.outer), !.blocks = Cut(@, Len(@) - 1)])

end ==
  /\ phase = "run" /\ ip > Len(code)
  /\ Stop("end")

-----------------------------------------------------------------------------
Init ==
  /\ phase = "parse"
  /\ code = <<>>
  /\ p = [stack |-> <<>>, imports |-> <<>>, frame_pointer |-> 0, blocks |-> <<>>]
  /\ r = [scope |-> <<>>, imports |-> <<>>, blocks |-> <<>>, always_search_scope |-> FALSE]
  /\ ip = 1

Parse ==
  \/ \E n \in Names, e \in BOOLEAN : parse_let(n, e)
  \/ \E n \in Names : parse_export(n) \/ parse_import(n) \/ parse_namespace(n)
  \/ \E n \in Names, op \in {"var", "share"} : access_var(op, n)
  \/ \E n \in Names, op \in {"eval let", "eval import"} : parse_eval(op, n)
  \/ \E n \in Names \cup {NoName} : parse_block(n)
  \/ parse_arm \/ parse_close \/ parse_end

Run ==
  \/ Stmt_Var \/ Stmt_Var_exported \/ Stmt_Export \/ search_scope_only \/ Stmt_Share
  \/ Stmt_Import \/ search_imports \/ eval \/ eval_stmt_block \/ leave_block \/ end

Finished == phase \in {"end", "error", "panic"} /\ UNCHANGED vars

Next == Parse \/ Run \/ Finished

Spec == Init /\ [][Next]_vars

-----------------------------------------------------------------------------
Entry    == [name : Names, alias : BOOLEAN]
Import   == [name : Names]
Var      == [name : Names, def : 1..(2 * MaxCode), alias : SUBSET Names]
Imported == [name : Names, def : 1..(2 * MaxCode)]

TypeOK ==
  /\ phase \in {"parse", "run", "end", "error", "panic"}
  /\ \A i \in 1..Len(p.stack) : p.stack[i] \in Entry
  /\ \A i \in 1..Len(p.imports) : p.imports[i] \in Import
  /\ p.frame_pointer \in 0..Len(p.stack)
  /\ \A i \in 1..Len(r.scope) : r.scope[i] \in Var
  /\ \A i \in 1..Len(r.imports) : r.imports[i] \in Imported
  /\ r.always_search_scope \in BOOLEAN
  /\ \A i \in 1..Len(r.blocks) : r.blocks[i].outer \in 0..Len(r.scope)
  /\ ip \in 1..(Len(code) + 1)

\* Does a program define something in an arm of a switch, for the parser to keep?
DefinesInArm ==
  \E i \in 2..Len(code) :
    code[i].op \in {"let", "export let", "import"} /\ code[i-1].op = "arm"

\* ParseState: "a local stack with variable names to simulate an actual runtime scope".
\* Unless names are searched for, the scope is what the parser took it for.
MirrorsScope ==
  phase = "run" /\ ip <= Len(code) /\ ~r.always_search_scope =>
    NamesOf(r.scope) = NamesOf(Now.seen.stack) /\ NamesOf(r.imports) = NamesOf(Now.seen.imports)

\* It is for every program that defines nothing in an arm: with blocks skipped and run
\* again, variables defined anew in place, evals and their effects undone.
AlignedWithParser == ~DefinesInArm => MirrorsScope

\* An access by offset finds what a search by name would find, in a block run for the
\* second time, behind shadowed names and after an eval (search_scope_only).
AccessIsRight ==
  Running("var") /\ ~DefinesInArm => Resolved(r.scope, Now) = Find(r.scope, Now.name)

\* A closure captures the variable that it names, unless an eval defined variables in the
\* scope at hand (Stmt::Share does not look at always_search_scope).
ShareIsRight ==
  Running("share") /\ ~DefinesInArm /\ ~r.always_search_scope =>
    Shared(r.scope, Now) = Find(r.scope, Now.name)

\* n::x looks into a module that was imported as n (search_imports).
NamespaceIsNamed ==
  Running("mod") /\ ~DefinesInArm =>
    LET i == Resolved(r.imports, Now)
    IN i # 0 => i \in 1..Len(r.imports) /\ r.imports[i].name = Now.name

Defining ==
  phase = "run" /\ ip' = ip + 1 /\ Now.op \in {"let", "export let"} /\ ~DefinesInArm

\* After `let n` the name n stands for the variable just defined, also when the definition
\* took over the place of an earlier one (Stmt::Var); not so after an eval, which it ignores.
DefinedIsFound ==
  [][Defining /\ ~r.always_search_scope =>
       LET s == r'.scope IN s[Find(s, Now.name)].def = ip]_vars

\* A definition in a block leaves the variables outside the block alone, after an eval too.
LetStaysInBlock ==
  [][Defining /\ r.blocks # <<>> =>
       LET n == r.blocks[Len(r.blocks)].scope IN Cut(r'.scope, n) = Cut(r.scope, n)]_vars

\* No offset leads outside the scope, and the `unreachable!("exported variable not on
\* global level")` is not reached, unless an arm of a switch defines something.
NoPanic == ~DefinesInArm => phase # "panic"

\* Every name that the parser resolved to an offset is found where it says, or is searched for.
NamesResolve ==
  TypeOK /\ AlignedWithParser /\ AccessIsRight /\ ShareIsRight /\ NamespaceIsNamed /\ NoPanic

\* A definition is found by its name from then on, and touches nothing outside its block.
DefinitionsHold == DefinedIsFound /\ LetStaysInBlock
=============================================================================
