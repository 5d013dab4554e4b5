---------------------------- MODULE GrainCompile ----------------------------
(* The lowering of statements to byte code (grain/compile/mod.rs).

   The program is not given: wherever the compiler looks at the next statement,
   any of `Kinds` may come, and a block may end.  Expressions are one "Push",
   except that one operand of an operator may be a block; every catch has a
   variable.  Fusing of operands and branches into operators, and the threading
   of jumps to jumps, are left out: they replace instructions by one with the
   same edges.                                                                *)
EXTENDS GrainCode

CONSTANTS
  Kinds,          \* the statements that programs use
  MaxStmts,       \* statements in a program
  LeaveOperand    \* may a block that is an operand be left by break or continue?

VARIABLE low      \* Lowering

\* A loop (Loop) and an open block; `must`: it is known not to be empty.
Loop(target, break_depth, l, owns) ==
  [continue_target |-> target, break_depth |-> break_depth, continue_depth |-> l.slots,
   iters |-> l.iters, handlers |-> l.handlers, owns_iterator |-> owns, breaks |-> {},
   continues |-> {}]

Block(kind, wants, depth, must) ==
  [kind |-> kind, wants |-> wants, depth |-> depth, must |-> must, some |-> FALSE, last |-> FALSE]

\* A statement whose blocks are being lowered, and two addresses that it needs later.
Open(kind, wants, site, top) == [kind |-> kind, wants |-> wants, site |-> site, top |-> top]

NewLowering ==
  [code |-> <<>>, max_stack |-> 0, slots |-> 0, iters |-> 0, handlers |-> 0, patched |-> 1,
   loops |-> <<>>, open |-> <<Block("program", "Value", 0, FALSE)>>, count |-> 0]

LastOf(s) == s[Len(s)]

AllButLast(s) == SubSeq(s, 1, Len(s) - 1)

Times(n, s) == [i \in 1..(n * Len(s)) |-> s[((i - 1) % Len(s)) + 1]]

-----------------------------------------------------------------------------
here(l) == Len(l.code) + 1

\* An instruction is one slot of the estimate, and a target it names is noted.
emit(l, cells) ==
  LET starts  == {i \in DOMAIN cells : cells[i].op # "operand"}
      targets == {cells[i].arg : i \in {j \in starts : cells[j].op \in Targeted}}
  IN [l EXCEPT !.code = @ \o cells,
               !.max_stack = @ + Cardinality(starts),
               !.patched = CHOOSE m \in targets \cup {@} : \A t \in targets \cup {@} : t <= m]

I(op) == Instruction(op, 0)

\* A jump to be patched has the target 0.
patch_to(l, sites, target) ==
  [l EXCEPT !.code = [i \in DOMAIN @ |-> IF i \in sites THEN [@[i] EXCEPT !.arg = target] ELSE @[i]],
            !.patched = IF sites = {} THEN @ ELSE Larger(@, target)]

patch_here(l, sites) == patch_to(l, sites, here(l))

\* A trailing Unit may go unless something jumps to it or past it.
drop_trailing_unit(l) ==
  /\ l.code # <<>>
  /\ LastOf(l.code).op = "Unit"
  /\ l.patched < Len(l.code)

discard_value(l) ==
  IF drop_trailing_unit(l) THEN [l EXCEPT !.code = AllButLast(@)] ELSE emit(l, I("Pop"))

unwind_to(l, depth) ==
  IF l.slots > depth THEN [emit(l, Instruction("UnwindTo", depth)) EXCEPT !.slots = depth] ELSE l

pop_handlers(l, floor) == emit(l, Times(l.handlers - floor, I("PopHandler")))

drop_iterators_uncovered(l, floor, covered) == emit(l, Times(l.iters - floor, I("IterDrop")))

\* The value of a break lies on top of the iterators that it drops.
drop_iterators(l, floor, covered) ==
  emit(l, Times(l.iters - floor, (IF covered THEN I("Rotate") ELSE <<>>) \o I("IterDrop")))

begin_loop(l, target) == [l EXCEPT !.loops = Append(@, Loop(target, l.slots, l, FALSE))]

begin_for(l, outside) == [l EXCEPT !.loops = Append(@, Loop(0, outside, l, TRUE))]

end_loop(l) == [l EXCEPT !.loops = AllButLast(@)]

-----------------------------------------------------------------------------
Opened(l, ctx, wants, must) ==
  [l EXCEPT !.open = @ \o <<ctx, Block("block", wants, l.slots, must)>>]

Top == LastOf(low.open)

\* The next statement of the innermost block; a program marks where it begins.
At(kind) ==
  /\ phase = "lower"
  /\ kind \in Kinds
  /\ Top.kind \in {"block", "program"}
  /\ ~Top.last

\* The statements that the enclosing blocks still have to get, and whether the next one may
\* be, or has to be, the last of its block.
Owed ==
  Cardinality({i \in 1..(Len(low.open) - 1) :
                 /\ low.open[i].kind \in {"block", "program"}
                 /\ ~low.open[i].last})

Lasts == {last \in BOOLEAN : low.count + Owed + (IF last THEN 1 ELSE 2) <= MaxStmts}

Begun(last) ==
  LET l == IF Top.kind = "program" THEN emit(low, I("Checkpoint")) ELSE low
  IN [l EXCEPT !.open[Len(l.open)].some = TRUE, !.open[Len(l.open)].last = last, !.count = @ + 1]

Wanted(last) == IF last THEN Top.wants ELSE "Effect"

\* statement_wanting: a value that nobody wants is taken off again.
Lowered(l, wants) == IF wants = "Effect" THEN discard_value(l) ELSE l

Lower(l) == low' = l /\ UNCHANGED <<phase, chunk>>

Stmt_Var ==
  /\ At("let")
  /\ \E last \in Lasts :
       LET l == emit(Begun(last), I("Push") \o I("Declare") \o I("Unit"))
       IN Lower(Lowered([l EXCEPT !.slots = @ + 1], Wanted(last)))

Stmt_Expr ==
  /\ At("call")
  /\ \E last \in Lasts : Lower(Lowered(emit(Begun(last), I("Call")), Wanted(last)))

\* `throw` and `return`; the Unit is what an enclosing statement expects.
Stmt_Return(kind, op) ==
  /\ At(kind)
  /\ \E last \in Lasts :
       Lower(Lowered(emit(Begun(last), I("Push") \o I(op) \o I("Unit")), Wanted(last)))

\* Is the innermost loop outside of an operand that is being lowered?
InOperand ==
  LET inside(k) == {i \in DOMAIN low.open : low.open[i].kind \in k}
      loop == inside({"loop", "while", "do", "for"})
  IN \E i \in inside({"operand"}) : \A j \in loop : j < i

Leaving(l, value, floor, depth) ==
  emit(drop_iterators(pop_handlers(emit(l, value), LastOf(l.loops).handlers), floor, value # <<>>),
       Instruction("UnwindTo", depth))

Stmt_Break ==
  /\ At("break")
  /\ low.loops # <<>>
  /\ LeaveOperand \/ ~InOperand
  /\ \E last \in Lasts :
       LET active == LastOf(low.loops)
           l == Leaving(Begun(last), I("Unit"), active.iters - (IF active.owns_iterator THEN 1 ELSE 0),
                        active.break_depth)
           m == [l EXCEPT !.loops[Len(l.loops)].breaks = @ \cup {here(l)}]
       IN Lower(Lowered(emit(m, I("Jump") \o I("Unit")), Wanted(last)))

Stmt_Continue ==
  /\ At("continue")
  /\ low.loops # <<>>
  /\ LeaveOperand \/ ~InOperand
  /\ \E last \in Lasts :
       LET active == LastOf(low.loops)
           l == Leaving(Begun(last), <<>>, active.iters, active.continue_depth)
           m == IF active.continue_target # 0 THEN l
                ELSE [l EXCEPT !.loops[Len(l.loops)].continues = @ \cup {here(l)}]
       IN Lower(Lowered(emit(m, Instruction("Jump", active.continue_target) \o I("Unit")), Wanted(last)))

-----------------------------------------------------------------------------
\* The beginnings of the statements with blocks.
Stmt_Block ==
  /\ At("block")
  /\ \E last \in Lasts :
       Lower(Opened(Begun(last), Open("plain", Wanted(last), 0, 0), Wanted(last), FALSE))

if_statement ==
  /\ At("if")
  /\ \E last \in Lasts :
       LET l == emit(Begun(last), I("Push"))
       IN Lower(Opened(emit(l, I("JumpIfFalse")), Open("if", Wanted(last), here(l), 0), Wanted(last), FALSE))

\* `loop` and `do` test nothing, or test below the body.
Stmt_Loop(kind) ==
  /\ At(kind)
  /\ \E last \in Lasts :
       LET l == Begun(last)
       IN Lower(Opened(begin_loop(l, here(l)), Open(kind, Wanted(last), 0, here(l)), "Effect", FALSE))

\* A `while` is entered at its test, below its body.
Stmt_While ==
  /\ At("while")
  /\ \E last \in Lasts :
       LET l == Begun(last)
           m == emit(l, I("Jump"))
       IN Lower(Opened(begin_loop(m, 0), Open("while", Wanted(last), here(l), here(m)), "Effect", FALSE))

Stmt_For ==
  /\ At("for")
  /\ \E last \in Lasts :
       LET l == emit(Begun(last), I("Push") \o I("IterInit") \o I("Unit") \o I("Declare"))
           m == emit([l EXCEPT !.iters = @ + 1, !.slots = @ + 1],
                     I("IterNextStore") \o Instruction("UnwindTo", l.slots) \o I("Unit") \o I("Jump"))
           n == patch_here(m, {here(l)})
       IN Lower(Opened(begin_for(n, l.slots), Open("for", Wanted(last), Len(m.code) - 1, here(l)), "Effect", FALSE))

Stmt_TryCatch ==
  /\ At("try")
  /\ \E last \in Lasts :
       LET l == Begun(last)
           m == [emit(l, I("PushHandler")) EXCEPT !.handlers = @ + 1]
       IN Lower(Opened(m, Open("try", Wanted(last), here(l), 0), "Value", FALSE))

\* An operator whose right operand is a block.
Stmt_Operand ==
  /\ At("operand")
  /\ \E last \in Lasts :
       Lower(Opened(emit(Begun(last), I("Push")), Open("operand", Wanted(last), 0, 0), "Value", FALSE))

-----------------------------------------------------------------------------
\* block_wanting comes to its end, and the statement that owns the block goes on.
Closing(kind) ==
  /\ phase = "lower"
  /\ Top.kind = "block"
  /\ Top.last \/ (~Top.some /\ ~Top.must)
  /\ low.open[Len(low.open) - 1].kind = kind

Closed ==
  LET l == [low EXCEPT !.open = SubSeq(@, 1, Len(@) - 2)]
  IN IF Top.some THEN unwind_to(l, Top.depth)
     ELSE IF Top.wants = "Value" THEN emit(l, I("Unit")) ELSE l

Owner == low.open[Len(low.open) - 1]

end_block == Closing("plain") /\ Lower(Closed)

\* Without an else, and with one.
end_if ==
  /\ Closing("if")
  /\ IF Owner.wants = "Effect" THEN Lower(patch_here(Closed, {Owner.site}))
     ELSE LET l == patch_here(emit(Closed, I("Jump")), {Owner.site})
          IN Lower(patch_here(emit(l, I("Unit")), {here(Closed)}))

begin_else ==
  /\ Closing("if")
  /\ low.count + Owed < MaxStmts
  /\ LET l == patch_here(emit(Closed, I("Jump")), {Owner.site})
     IN Lower(Opened(l, Open("else", Owner.wants, here(Closed), 0), Owner.wants, TRUE))

end_else == Closing("else") /\ Lower(patch_here(Closed, {Owner.site}))

\* A loop that runs to its end is unit; a break brings its own value.
LoopValue(l, breaks) ==
  LET m == emit(l, I("Unit"))
  IN patch_here(emit(m, I("Jump")), breaks \cup {here(m)})

end_while_true ==
  /\ Closing("loop")
  /\ LET l == end_loop(emit(Closed, Instruction("Jump", Owner.top)))
     IN Lower(Lowered(LoopValue(l, LastOf(low.loops).breaks), Owner.wants))

end_while ==
  /\ Closing("while")
  /\ LET test == here(Closed)
         l == emit(patch_to(Closed, {Owner.site}, test), I("Push") \o Instruction("JumpIfTrue", Owner.top))
         m == patch_to(end_loop(l), LastOf(low.loops).continues, test)
     IN Lower(Lowered(LoopValue(m, LastOf(low.loops).breaks), Owner.wants))

\* `do .. until`, and `do .. while`.
end_do ==
  /\ Closing("do")
  /\ LET l == emit(end_loop(Closed), I("Push"))
         until == emit(l, Instruction("JumpIfFalse", Owner.top))
         while == patch_here(emit(l, I("JumpIfFalse") \o Instruction("Jump", Owner.top)), {here(l)})
     IN \E m \in {until, while} : Lower(Lowered(LoopValue(m, LastOf(low.loops).breaks), Owner.wants))

end_for ==
  /\ Closing("for")
  /\ LET active == LastOf(low.loops)
         l == end_loop(emit(Closed, Instruction("Jump", Owner.top)))
         m == patch_here(patch_to(l, active.continues, Owner.top), active.breaks \cup {Owner.site})
     IN Lower(Lowered([m EXCEPT !.iters = @ - 1, !.slots = active.break_depth], Owner.wants))

\* The handler is still armed in the catch block, which begins with its variable.
begin_catch ==
  /\ Closing("try")
  /\ LET l == emit(Closed, I("PopHandler"))
         m == patch_here(emit(l, I("Jump")), {Owner.site})
         n == Opened([m EXCEPT !.slots = @ + 1], Open("catch", Owner.wants, here(l), m.slots), "Value", FALSE)
     IN Lower(n)

end_catch ==
  /\ Closing("catch")
  /\ LET l == unwind_to(emit(Closed, I("Pop")), Owner.top)
         m == [emit(l, I("PopHandler") \o I("Unit")) EXCEPT !.handlers = @ - 1]
     IN Lower(Lowered(patch_here(m, {Owner.site}), Owner.wants))

end_operand == Closing("operand") /\ Lower(Lowered(emit(Closed, I("BinOp")), Owner.wants))

\* The end of the program; what is left of the lowering is its code.
program ==
  /\ phase = "lower"
  /\ Top.kind = "program"
  /\ Top.last \/ ~Top.some
  /\ LET l == emit(low, (IF Top.some THEN <<>> ELSE I("Unit")) \o I("Return"))
     IN code' = l.code /\ declared' = l.max_stack
  /\ phase' = "verify"
  /\ low' = NewLowering
  /\ UNCHANGED origin

lower_statement ==
  \/ Stmt_Var \/ Stmt_Expr \/ Stmt_Return("throw", "Throw") \/ Stmt_Return("return", "Return")
  \/ Stmt_Break \/ Stmt_Continue \/ Stmt_Block \/ if_statement \/ Stmt_Loop("loop") \/ Stmt_Loop("do")
  \/ Stmt_While \/ Stmt_For \/ Stmt_TryCatch \/ Stmt_Operand

resume_statement ==
  \/ end_block \/ end_if \/ begin_else \/ end_else \/ end_while_true \/ end_while \/ end_do \/ end_for
  \/ begin_catch \/ end_catch \/ end_operand

Lowering == lower_statement \/ resume_statement \/ program
=============================================================================
