----------------------------- MODULE Statements -----------------------------
(* What running a program means (Engine::eval_ast_with_scope and
   eval_global_statements): its statements, one after the other, each evaluated
   by the tree walker.  Any other engine has to show the same at the end of each. *)
EXTENDS Script

W == INSTANCE Walker

CONSTANTS
  Programs,     \* the programs that may be run
  Scopes        \* the scopes that a host may run them with

VARIABLES
  program,      \* the statements
  done,         \* how many of them have been evaluated
  state,        \* what they have left behind
  result        \* none, or what the program came to

vars == <<program, done, state, result>>

\* What a caller gets: a value, looked through if it is shared, or an error.
Result(r) == IF r.k = "err" THEN <<"err", r.v>> ELSE <<"ok", flatten(r.v, r.s.heap)>>

Init ==
  /\ program \in Programs
  /\ \E scope \in Scopes : state = State(scope, <<>>)
  /\ done = 0
  /\ result = <<>>

\* One statement, the last of which gives the value; `return` and errors end the program.
Statement ==
  /\ result = <<>>
  /\ done' = done + 1 \/ result' # <<>>
  /\ \E r \in {W!Eval("stmt", program[done + 1], state)} :
       LET ends == r.k # "ok" \/ done + 1 = Len(program)
       IN /\ state' = r.s
          /\ done' = IF ends THEN done ELSE done + 1
          /\ result' = IF ends THEN <<Result(r)>> ELSE <<>>
  /\ UNCHANGED program

\* What a whole program comes to.
Comes(b, s) == Given(W!InOrder(b, s), LAMBDA r : <<Result(r), r.s>>)

\* A value of the wrong type where a truth value is needed.
Mistaken(c) == c[1][1] = "err" /\ c[1][2].e = "type"

\* A program comes to the same as another, or does not fail where the other would have found a
\* value of the wrong type.
Alike(a, b, s) == \E c \in {Comes(b, s)} : Mistaken(c) \/ Comes(a, s) = c

\* Before it begins, a program may be replaced by one that is alike.
Replace ==
  /\ done = 0 /\ result = <<>>
  /\ program' # <<>>
  /\ Alike(program', program, state)
  /\ UNCHANGED <<done, state, result>>

Next == Statement \/ Replace

Spec == Init /\ [][Next]_vars
=============================================================================
