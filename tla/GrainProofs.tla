---------------------------- MODULE GrainProofs ----------------------------
(* Proofs about Grain: whatever code the verifier accepts, be it the compiler's or an artifact's,
   runs as the verifier has computed, and an error is resumed in the frame that armed the handler. *)
EXTENDS Grain, FiniteSetTheorems, WellFoundedInduction, TLAPS

-----------------------------------------------------------------------------
(* The code. *)

\* An instruction has its operand, and behind it there is another instruction, or the end.
WellFormed(c) ==
  /\ Len(c) > 0 => c[1].op # "operand"
  /\ \A i \in 1..Len(c) :
       c[i].op # "operand" =>
         /\ i + width(c[i].op) <= Len(c) + 1
         /\ i + width(c[i].op) <= Len(c) => c[i + width(c[i].op)].op # "operand"
         /\ width(c[i].op) = 2 => c[i + 1].op = "operand"

CodeOK(c) == c \in Seq(Cells) /\ WellFormed(c)

(* What lowering needs to emit cells: its numbers, and that the blocks which are open are those
   of statements. *)
LowFields == {"code", "max_stack", "slots", "iters", "handlers", "patched", "loops", "open", "count"}

Loops ==
  [continue_target : Nat, break_depth : Nat, continue_depth : Nat, iters : Int, handlers : Int,
   owns_iterator : BOOLEAN, breaks : SUBSET Nat, continues : SUBSET Nat]

Wants == {"Value", "Effect"}

Blocks ==
  [kind : {"block", "program"}, wants : Wants, depth : Nat, must : BOOLEAN, some : BOOLEAN,
   last : BOOLEAN]

StmtKinds ==
  {"plain", "if", "else", "loop", "do", "while", "for", "try", "catch", "operand"}

Opens ==
  [kind : StmtKinds, wants : Wants, site : Int, top : Nat]

Repeated == {"loop", "while", "do", "for"}

LoopsOpen(o) == {i \in DOMAIN o : o[i].kind \in Repeated}

LowBase(l) ==
  /\ DOMAIN l = LowFields
  /\ CodeOK(l.code)
  /\ l.slots \in Nat /\ l.iters \in Int /\ l.handlers \in Int
  /\ l.loops \in Seq(Loops)
  /\ l.open \in Seq(Blocks \cup Opens)
  /\ Len(l.open) > 0 /\ l.open[1].kind = "program"

\* There is a loop for each statement that repeats.
LowOK(l) == LowBase(l) /\ Cardinality(LoopsOpen(l.open)) = Len(l.loops)

-----------------------------------------------------------------------------
(* What the verifier has found so far.  An edge has been taken, or is still to be walked. *)
Zero == [operands |-> 0, iters |-> 0, handlers |-> 0]

Pending(e) == \E i \in 1..Len(work) : work[i] = e

Taken(e) == (e.at \in DOMAIN label /\ label[e.at] = e.state) \/ Pending(e)

Ends == {"Jump", "Return", "Throw"}

NextOf(a) == Edge(a + width(code[a].op), AtNext(code[a].op, label[a]))

TargetOf(a) == Edge(code[a].arg, AtTarget(code[a].op, label[a]))

EdgeOK(e) == e.at \in Nat \ {0} /\ e.state \in States /\ (e.at <= Len(code) => IsStart(e.at))

LabelOK(a) ==
  /\ IsStart(a)
  /\ label[a] \in States
  /\ ~Underflows(code[a].op, label[a])
  /\ ~BadTarget(a)
  /\ label[a].operands <= high_water
  /\ code[a].op \notin Ends => Taken(NextOf(a))
  /\ code[a].op \in Targeted => Taken(TargetOf(a))

\* Code that can arm no handler and make no iterator.
Bare == ~Contains("PushHandler") /\ ~Contains("IterInit")

WalkOK ==
  /\ work \in Seq([at : Nat, state : States])
  /\ \A i \in 1..Len(work) : EdgeOK(work[i])
  /\ high_water \in Nat
  /\ Taken(Edge(1, Zero))
  /\ \A a \in DOMAIN label : LabelOK(a)
  /\ Bare => /\ \A a \in DOMAIN label : label[a].iters = 0 /\ label[a].handlers = 0
             /\ \A i \in 1..Len(work) : work[i].state.iters = 0 /\ work[i].state.handlers = 0

NotWalked == label = <<>> /\ work = <<Edge(1, Zero)>> /\ high_water = 0 /\ verdict = "none"

NotRun ==
  /\ frames = <<>> /\ handlers = <<>> /\ unwind_floor = 0 /\ raised = "none" /\ ops = 0
  /\ host = HostVars /\ fault = "none" /\ cut = FALSE

\* The phases in order.
PhaseOK ==
  /\ phase \in {"lower", "read", "verify", "ready", "run", "end", "refused"}
  /\ origin \in {"compiled", "read"}
  /\ CodeOK(code)
  /\ phase = "lower" => LowOK(low)
  /\ phase \in {"lower", "read"} => NotWalked
  /\ phase = "lower" => origin = "compiled"
  /\ phase = "read" => origin = "read"
  /\ origin = "read" => declared \in Nat
  /\ phase = "verify" => verdict = "none"
  /\ verdict \in {"none", "accepted", "refused"}
  /\ phase \in {"ready", "run", "end"} => verdict \in {"accepted", "refused"}
  /\ (verdict = "refused" /\ origin = "read") => phase = "refused"
  /\ phase \notin {"run", "end"} => NotRun
  /\ WalkOK
  /\ verdict = "accepted" => work = <<>> /\ declared \in Nat /\ high_water <= declared

-----------------------------------------------------------------------------
(* The machine, when it runs what was accepted. *)

\* How many handlers there were when the frame above the i-th one was entered.
Up(i) == IF i = Len(frames) THEN Len(handlers) ELSE frames[i + 1].handler_base

LabelOf(i) == label[frames[i].pc]

\* Is the i-th frame where it will go on from?  The innermost one may be failing.
Settled(i) == i < Len(frames) \/ raised = "none"

Labelled(i) ==
  /\ frames[i].pc \in DOMAIN label
  /\ Len(frames[i].stack) <= LabelOf(i).operands
  /\ Settled(i) => Len(frames[i].stack) + LabelOf(i).iters <= LabelOf(i).operands
  /\ i < Len(frames) => code[frames[i].pc].op = "Call"

\* The bases of the frames are in order, and what they stand on is there.
BasesOK ==
  \A i \in 1..Len(frames) :
    /\ frames[i].handler_base <= Len(handlers)
    /\ \A j \in 1..Len(frames) : i <= j => frames[i].handler_base <= frames[j].handler_base

\* The n-th handler of the i-th frame is that frame's own, and its catch block can be entered
\* with what is left of the stack.
HandlerFits(h, n, i) ==
  /\ h.owner = i
  /\ h.target \in DOMAIN label
  /\ label[h.target].handlers = n
  /\ h.operands + label[h.target].iters <= label[h.target].operands

HandlerOK(j, i) == HandlerFits(handlers[j], j - frames[i].handler_base, i)

Armoured(i) ==
  /\ Up(i) - frames[i].handler_base = LabelOf(i).handlers
  /\ \A j \in (frames[i].handler_base + 1)..Up(i) : HandlerOK(j, i)

\* Without handlers and iterators the verifier counts exactly.
Exact(i) == Len(frames[i].stack) = LabelOf(i).operands

RunTypes ==
  /\ frames \in Seq(Frames)
  /\ handlers \in Seq(Handlers)
  /\ unwind_floor \in Nat
  /\ raised \in {"none", "catchable", "system"}
  /\ ops \in 0..(MaxOps + 1)
  /\ host \in Nat
  /\ fault \in {"none", "underflow", "other"}
  /\ cut \in BOOLEAN

RunOK ==
  /\ phase = "run" => Len(frames) > 0
  /\ RunTypes
  /\ raised # "system" => ops <= MaxOps
  /\ cut => raised = "system"
  /\ BasesOK
  /\ \A i \in 1..Len(frames) : Labelled(i)
  /\ ~cut => \A i \in 1..Len(frames) : Armoured(i)
  /\ Bare => fault # "underflow"
  /\ Bare => \A i \in 1..Len(frames) : Settled(i) => Exact(i)

GInv == PhaseOK /\ (verdict = "accepted" => RunOK)

-----------------------------------------------------------------------------
(* Lemmas about code. *)

Ops == Targeted \cup Plain

LEMMA OpFacts ==
  /\ \A op \in Targeted : op \notin Plain /\ op # "operand" /\ width(op) = 2
  /\ \A op \in Plain : op \notin Targeted /\ op # "operand" /\ width(op) = 1
  BY DEF Targeted, Branches, Advances, Plain, width

LEMMA CellType ==
  ASSUME NEW c \in Seq(Cells), NEW i \in 1..Len(c)
  PROVE  /\ c[i] \in Cells
         /\ c[i].op \in Ops \cup {"operand"}
         /\ c[i].arg \in Nat
         /\ width(c[i].op) \in 1..2
<1>1. c[i] \in Cells OBVIOUS
<1> QED BY <1>1 DEF Cells, Ops, width

LEMMA EmptyCode == CodeOK(<<>>)
  BY DEF CodeOK, WellFormed

LEMMA InstructionOK ==
  ASSUME NEW op \in Ops, NEW arg \in Nat
  PROVE  /\ CodeOK(Instruction(op, arg))
         /\ Len(Instruction(op, arg)) = width(op)
<1>1. CASE op \in Targeted
  <2> DEFINE s == <<[op |-> op, arg |-> arg], [op |-> "operand", arg |-> 0]>>
  <2>1. Instruction(op, arg) = s BY <1>1 DEF Instruction
  <2>2. s \in Seq(Cells) /\ Len(s) = 2 /\ s[1].op = op /\ s[2].op = "operand" BY <1>1 DEF Cells
  <2>3. width(op) = 2 /\ op # "operand" BY <1>1, OpFacts
  <2> HIDE DEF s
  <2> QED BY <2>1, <2>2, <2>3 DEF CodeOK, WellFormed
<1>2. CASE op \notin Targeted
  <2> DEFINE s == <<[op |-> op, arg |-> arg]>>
  <2>1. Instruction(op, arg) = s BY <1>2 DEF Instruction
  <2>2. s \in Seq(Cells) /\ Len(s) = 1 /\ s[1].op = op BY <1>2 DEF Cells, Ops
  <2>3. width(op) = 1 /\ op # "operand" BY <1>2, OpFacts DEF Ops
  <2> HIDE DEF s
  <2> QED BY <2>1, <2>2, <2>3 DEF CodeOK, WellFormed
<1> QED BY <1>1, <1>2

LEMMA ConcatOK ==
  ASSUME NEW a, NEW b, CodeOK(a), CodeOK(b)
  PROVE  CodeOK(a \o b)
<1> DEFINE c == a \o b
<1>0. a \in Seq(Cells) /\ b \in Seq(Cells) /\ WellFormed(a) /\ WellFormed(b) BY DEF CodeOK
<1>1. /\ c \in Seq(Cells)
      /\ Len(c) = Len(a) + Len(b)
      /\ Len(a) \in Nat /\ Len(b) \in Nat
      /\ \A i \in 1..Len(a) : c[i] = a[i]
      /\ \A i \in (Len(a) + 1)..Len(c) : c[i] = b[i - Len(a)]
  BY <1>0
<1> HIDE DEF c
<1>2. Len(c) > 0 => c[1].op # "operand"
  <2>1. CASE Len(a) > 0 BY <2>1, <1>0, <1>1 DEF WellFormed
  <2>2. CASE Len(a) = 0 BY <2>2, <1>0, <1>1 DEF WellFormed
  <2> QED BY <2>1, <2>2, <1>1
<1>3. ASSUME NEW i \in 1..Len(c), c[i].op # "operand"
      PROVE  /\ i + width(c[i].op) <= Len(c) + 1
             /\ i + width(c[i].op) <= Len(c) => c[i + width(c[i].op)].op # "operand"
             /\ width(c[i].op) = 2 => c[i + 1].op = "operand"
  <2> DEFINE w == width(c[i].op)
  <2>0. w \in 1..2 BY <1>1, CellType
  <2>1. CASE i <= Len(a)
    <3>1. i \in 1..Len(a) /\ a[i].op # "operand" /\ w = width(a[i].op) BY <2>1, <1>1, <1>3
    <3>2. /\ i + w <= Len(a) + 1 /\ (i + w <= Len(a) => a[i + w].op # "operand")
          /\ w = 2 => a[i + 1].op = "operand"
      BY <3>1, <1>0 DEF WellFormed
    <3> HIDE DEF w
    <3>0. w = 2 => c[i + 1].op = "operand"
      <4>1. w = 2 => i + 1 \in 1..Len(a) BY <3>2, <1>1, <2>1
      <4> QED BY <4>1, <3>2, <1>1
    <3>3. CASE i + w <= Len(a)
      <4>1. c[i + w] = a[i + w] BY <3>3, <2>0, <1>1
      <4> QED BY <4>1, <3>0, <3>2, <3>3, <2>0, <1>1 DEF w
    <3>4. CASE i + w = Len(a) + 1
      <4>1. i + w <= Len(c) => c[i + w] = b[1] /\ Len(b) > 0 BY <3>4, <1>1
      <4>2. Len(b) > 0 => b[1].op # "operand" BY <1>0 DEF WellFormed
      <4> QED BY <3>0, <3>4, <4>1, <4>2, <1>1 DEF w
    <3> QED BY <3>2, <3>3, <3>4, <2>0, <1>1
  <2>2. CASE i > Len(a)
    <3> DEFINE k == i - Len(a)
    <3>1. k \in 1..Len(b) /\ c[i] = b[k] /\ b[k].op # "operand" /\ w = width(b[k].op) BY <2>2, <1>1, <1>3
    <3>2. /\ k + w <= Len(b) + 1 /\ (k + w <= Len(b) => b[k + w].op # "operand")
          /\ w = 2 => b[k + 1].op = "operand"
      BY <3>1, <1>0 DEF WellFormed
    <3> HIDE DEF w
    <3>3. i + w <= Len(c) => c[i + w] = b[k + w] /\ k + w <= Len(b) BY <2>0, <2>2, <1>1
    <3>4. w = 2 => c[i + 1] = b[k + 1]
      <4>1. w = 2 => i + 1 \in (Len(a) + 1)..Len(c) BY <2>2, <1>1, <3>2
      <4>2. (i + 1) - Len(a) = k + 1 BY <1>1
      <4> QED BY <4>1, <4>2, <1>1
    <3>5. i + w <= Len(c) + 1 BY <3>2, <2>0, <2>2, <1>1
    <3>6. i + w <= Len(c) => c[i + w].op # "operand" BY <3>2, <3>3
    <3>7. w = 2 => c[i + 1].op = "operand" BY <3>2, <3>4
    <3> QED BY <3>5, <3>6, <3>7 DEF w
  <2> QED BY <2>1, <2>2, <1>1
<1>4. WellFormed(c) BY <1>2, <1>3 DEF WellFormed
<1> QED BY <1>1, <1>4 DEF CodeOK, c

\* Instructions without a target can be put together and cut as one likes.
LEMMA PlainOK ==
  ASSUME NEW c \in Seq(Cells), \A i \in 1..Len(c) : c[i].op \in Plain
  PROVE  CodeOK(c)
  BY OpFacts DEF CodeOK, WellFormed

LEMMA TimesOK ==
  ASSUME NEW n \in Int, NEW s \in Seq(Cells), \A i \in 1..Len(s) : s[i].op \in Plain
  PROVE  CodeOK(Times(n, s))
<1> DEFINE t == Times(n, s)
           m == n * Len(s)
<1>0. Len(s) \in Nat /\ m \in Int OBVIOUS
<1>1. ASSUME NEW i \in 1..m
      PROVE  ((i - 1) % Len(s)) + 1 \in 1..Len(s)
  <2>1. Len(s) > 0
    <3> SUFFICES ASSUME Len(s) = 0 PROVE FALSE BY <1>0
    <3>1. m = 0 BY <1>0
    <3> QED BY <3>1
  <2> QED BY <2>1, <1>0
<1>2. \A i \in 1..m : t[i] = s[((i - 1) % Len(s)) + 1] BY DEF Times
<1>3. DOMAIN t = 1..m /\ \A i \in 1..m : t[i] \in Cells /\ t[i].op \in Plain BY <1>1, <1>2 DEF Times
<1>4. t \in Seq(Cells) /\ DOMAIN t = 1..Len(t)
  <2>1. CASE m >= 0
    <3>1. t \in [1..m -> Cells] /\ m \in Nat BY <2>1, <1>0, <1>3 DEF Times
    <3> HIDE DEF t
    <3> QED BY <3>1
  <2>2. CASE m < 0
    <3>1. 1..m = 1..0 BY <2>2, <1>0
    <3>2. t \in [1..0 -> Cells] BY <3>1, <1>3 DEF Times
    <3> HIDE DEF t
    <3> QED BY <3>2
  <2> QED BY <2>1, <2>2, <1>0
<1>5. \A i \in 1..Len(t) : t[i].op \in Plain BY <1>3, <1>4
<1> QED BY <1>4, <1>5, PlainOK

\* The first n elements of a sequence.
LEMMA FirstN ==
  ASSUME NEW S, NEW c \in Seq(S), NEW n \in Nat, n <= Len(c)
  PROVE  /\ SubSeq(c, 1, n) \in Seq(S)
         /\ Len(SubSeq(c, 1, n)) = n
         /\ \A i \in 1..n : SubSeq(c, 1, n)[i] = c[i]
<1>1. \A i \in 1..n : c[i] \in S OBVIOUS
<1>2. Len(SubSeq(c, 1, n)) = n /\ \A i \in 1..n : SubSeq(c, 1, n)[i] = c[i] OBVIOUS
<1>3. SubSeq(c, 1, n) \in Seq(S) OBVIOUS
<1> QED BY <1>2, <1>3

LEMMA CutOK ==
  ASSUME NEW c, CodeOK(c), c # <<>>, LastOf(c).op \in Plain
  PROVE  CodeOK(AllButLast(c))
<1> DEFINE d == AllButLast(c)
<1>1. /\ c \in Seq(Cells) /\ Len(c) \in Nat /\ Len(c) > 0
      /\ d \in Seq(Cells) /\ Len(d) = Len(c) - 1
      /\ \A i \in 1..Len(d) : d[i] = c[i]
  <2>1. c \in Seq(Cells) /\ Len(c) \in Nat /\ Len(c) > 0 BY DEF CodeOK
  <2>2. d = SubSeq(c, 1, Len(c) - 1) BY DEF AllButLast
  <2> DEFINE n == Len(c) - 1
  <2>3. n \in Nat /\ n <= Len(c) BY <2>1
  <2> HIDE DEF n
  <2>4. /\ SubSeq(c, 1, n) \in Seq(Cells) /\ Len(SubSeq(c, 1, n)) = n
        /\ \A i \in 1..n : SubSeq(c, 1, n)[i] = c[i]
    BY <2>1, <2>3, FirstN
  <2>5. d = SubSeq(c, 1, n) BY <2>2 DEF n
  <2> HIDE DEF d
  <2> QED BY <2>1, <2>4, <2>5 DEF n
<1> HIDE DEF d
<1>2. Len(d) > 0 => d[1].op # "operand" BY <1>1 DEF CodeOK, WellFormed
<1>3. ASSUME NEW i \in 1..Len(d), d[i].op # "operand"
      PROVE  /\ i + width(d[i].op) <= Len(d) + 1
             /\ i + width(d[i].op) <= Len(d) => d[i + width(d[i].op)].op # "operand"
             /\ width(d[i].op) = 2 => d[i + 1].op = "operand"
  <2> DEFINE w == width(c[i].op)
  <2>1. w \in 1..2 /\ i \in 1..Len(c) /\ d[i] = c[i] /\ c[i].op # "operand"
    <3>1. i \in 1..Len(c) /\ d[i] = c[i] BY <1>1
    <3> QED BY <3>1, <1>1, <1>3, CellType
  <2>2. /\ i + w <= Len(c) + 1 /\ (i + w <= Len(c) => c[i + w].op # "operand")
        /\ w = 2 => c[i + 1].op = "operand"
    BY <2>1 DEF CodeOK, WellFormed
  <2>3. i + w <= Len(c)
    <3>1. LastOf(c).op # "operand" BY OpFacts
    <3> QED BY <3>1, <2>1, <2>2, <1>1 DEF LastOf
  <2> HIDE DEF w
  <2>4. i + w <= Len(d) => d[i + w] = c[i + w] BY <2>1, <1>1
  <2>5. w = 2 => d[i + 1] = c[i + 1] BY <2>1, <2>3, <1>1
  <2> QED BY <2>1, <2>2, <2>3, <2>4, <2>5, <1>1 DEF w
<1> QED BY <1>1, <1>2, <1>3 DEF CodeOK, WellFormed, d

-----------------------------------------------------------------------------
(* Lemmas about the helpers of lowering. *)

\* m is l with other code and other numbers.
Eff(l, m) == LowBase(m) /\ m.loops = l.loops /\ m.open = l.open

LEMMA EffOK ==
  ASSUME NEW l, NEW m, LowOK(l), Eff(l, m)
  PROVE  LowOK(m)
  BY DEF LowOK, Eff

LEMMA EffTrans ==
  ASSUME NEW l, NEW m, NEW n, Eff(l, m), Eff(m, n)
  PROVE  Eff(l, n)
  BY DEF Eff

LEMMA HereNat ==
  ASSUME NEW l, LowBase(l)
  PROVE  here(l) \in Nat \ {0} /\ Len(l.code) \in Nat
  BY DEF here, LowBase, CodeOK

LEMMA IOK ==
  ASSUME NEW op \in Ops
  PROVE  CodeOK(I(op)) /\ Len(I(op)) = width(op)
  BY InstructionOK DEF I

LEMMA EmitEff ==
  ASSUME NEW l, LowBase(l), NEW cells, CodeOK(cells)
  PROVE  Eff(l, emit(l, cells)) /\ emit(l, cells).code = l.code \o cells
<1>1. CodeOK(l.code \o cells) BY ConcatOK DEF LowBase
<1>2. PICK s, p : emit(l, cells) = [l EXCEPT !.code = l.code \o cells, !.max_stack = s, !.patched = p]
  BY DEF emit
<1> DEFINE m == emit(l, cells)
<1>3. /\ DOMAIN m = LowFields
      /\ m.code = l.code \o cells
      /\ m.slots = l.slots /\ m.iters = l.iters /\ m.handlers = l.handlers
      /\ m.loops = l.loops /\ m.open = l.open
  BY <1>2 DEF LowBase, LowFields
<1> HIDE DEF m
<1>4. LowBase(m) BY <1>1, <1>3 DEF LowBase
<1> QED BY <1>3, <1>4 DEF Eff, m

LEMMA PatchEff ==
  ASSUME NEW l, LowBase(l), NEW sites, NEW target \in Nat
  PROVE  Eff(l, patch_to(l, sites, target)) /\ Len(patch_to(l, sites, target).code) = Len(l.code)
<1> DEFINE c == [i \in DOMAIN l.code |-> IF i \in sites THEN [l.code[i] EXCEPT !.arg = target] ELSE l.code[i]]
           m == patch_to(l, sites, target)
<1>1. l.code \in Seq(Cells) /\ Len(l.code) \in Nat /\ DOMAIN l.code = 1..Len(l.code)
  BY DEF LowBase, CodeOK
<1>2. \A i \in 1..Len(l.code) : c[i] \in Cells /\ c[i].op = l.code[i].op BY <1>1, CellType DEF Cells
<1>3. c \in [1..Len(l.code) -> Cells] BY <1>1, <1>2
<1>4. DOMAIN c = 1..Len(l.code) BY <1>1
<1> HIDE DEF c
<1>5. c \in Seq(Cells) /\ Len(c) = Len(l.code) BY <1>1, <1>3
<1>6. WellFormed(c)
  <2>1. \A i \in 1..Len(l.code) : width(l.code[i].op) \in 1..2 BY <1>1, CellType
  <2>2. WellFormed(l.code) BY DEF LowBase, CodeOK
  <2>3. ASSUME NEW i \in 1..Len(c), c[i].op # "operand"
        PROVE  /\ i + width(c[i].op) <= Len(c) + 1
               /\ i + width(c[i].op) <= Len(c) => c[i + width(c[i].op)].op # "operand"
               /\ width(c[i].op) = 2 => c[i + 1].op = "operand"
    <3> DEFINE w == width(c[i].op)
    <3>1. w \in 1..2 /\ w = width(l.code[i].op) /\ l.code[i].op # "operand" BY <1>2, <1>5, <2>1, <2>3
    <3>2. /\ i + w <= Len(c) + 1 /\ (i + w <= Len(c) => l.code[i + w].op # "operand")
          /\ w = 2 => l.code[i + 1].op = "operand"
      BY <3>1, <2>2, <1>5 DEF WellFormed
    <3> HIDE DEF w
    <3>3. i + w <= Len(c) => c[i + w].op = l.code[i + w].op BY <3>1, <1>2, <1>5, <1>1
    <3>4. w = 2 => c[i + 1].op = l.code[i + 1].op BY <3>1, <3>2, <1>2, <1>5, <1>1
    <3> QED BY <3>2, <3>3, <3>4 DEF w
  <2>4. Len(c) > 0 => c[1].op # "operand" BY <1>1, <1>2, <1>5, <2>2 DEF WellFormed
  <2> QED BY <2>3, <2>4 DEF WellFormed
<1>7. /\ DOMAIN m = LowFields
      /\ m.code = c
      /\ m.slots = l.slots /\ m.iters = l.iters /\ m.handlers = l.handlers
      /\ m.loops = l.loops /\ m.open = l.open
  BY DEF LowBase, LowFields, patch_to, c
<1> HIDE DEF m
<1>8. LowBase(m) BY <1>5, <1>6, <1>7 DEF LowBase, CodeOK
<1> QED BY <1>5, <1>7, <1>8 DEF Eff, m

LEMMA PatchHereEff ==
  ASSUME NEW l, LowBase(l), NEW sites
  PROVE  Eff(l, patch_here(l, sites))
  BY PatchEff, HereNat DEF patch_here

LEMMA NumbersEff ==
  ASSUME NEW l, LowBase(l), NEW s \in Nat, NEW n \in Int
  PROVE  /\ Eff(l, [l EXCEPT !.slots = s])
         /\ Eff(l, [l EXCEPT !.handlers = n])
         /\ Eff(l, [l EXCEPT !.iters = n, !.slots = s])
<1> DEFINE m1 == [l EXCEPT !.slots = s]
           m2 == [l EXCEPT !.handlers = n]
           m3 == [l EXCEPT !.iters = n, !.slots = s]
<1>0. DOMAIN l = LowFields BY DEF LowBase
<1>1. /\ DOMAIN m1 = LowFields
      /\ m1.code = l.code /\ m1.slots = s /\ m1.iters = l.iters /\ m1.handlers = l.handlers
      /\ m1.loops = l.loops /\ m1.open = l.open
  BY <1>0 DEF LowFields
<1>2. /\ DOMAIN m2 = LowFields
      /\ m2.code = l.code /\ m2.slots = l.slots /\ m2.iters = l.iters /\ m2.handlers = n
      /\ m2.loops = l.loops /\ m2.open = l.open
  BY <1>0 DEF LowFields
<1>3. /\ DOMAIN m3 = LowFields
      /\ m3.code = l.code /\ m3.slots = s /\ m3.iters = n /\ m3.handlers = l.handlers
      /\ m3.loops = l.loops /\ m3.open = l.open
  BY <1>0 DEF LowFields
<1> HIDE DEF m1, m2, m3
<1>4. Eff(l, m1) /\ Eff(l, m2) /\ Eff(l, m3) BY <1>1, <1>2, <1>3 DEF Eff, LowBase
<1> QED BY <1>4 DEF m1, m2, m3

LEMMA SlotsEff ==
  ASSUME NEW l, LowBase(l), NEW s \in Nat
  PROVE  Eff(l, [l EXCEPT !.slots = s])
<1>1. 0 \in Int OBVIOUS
<1> QED BY <1>1, NumbersEff

LEMMA DiscardEff ==
  ASSUME NEW l, LowBase(l)
  PROVE  Eff(l, discard_value(l))
<1>1. CASE drop_trailing_unit(l)
  <2> DEFINE m == discard_value(l)
             c == AllButLast(l.code)
  <2>1. CodeOK(c) BY <1>1, CutOK DEF drop_trailing_unit, LowBase, Plain
  <2>2. m = [l EXCEPT !.code = c] BY <1>1 DEF discard_value
  <2> HIDE DEF c
  <2>3. /\ DOMAIN m = LowFields
        /\ m.code = c /\ m.slots = l.slots /\ m.iters = l.iters /\ m.handlers = l.handlers
        /\ m.loops = l.loops /\ m.open = l.open
    BY <2>2 DEF LowFields, LowBase
  <2> HIDE DEF m
  <2>4. Eff(l, m) BY <2>1, <2>3 DEF Eff, LowBase
  <2> QED BY <2>4 DEF m
<1>2. CASE ~drop_trailing_unit(l)
  <2>1. CodeOK(I("Pop")) BY IOK DEF Ops, Plain
  <2> QED BY <1>2, <2>1, EmitEff DEF discard_value
<1> QED BY <1>1, <1>2

LEMMA EffSelf ==
  ASSUME NEW l, LowBase(l)
  PROVE  Eff(l, l)
  BY DEF Eff

LEMMA LoweredEff ==
  ASSUME NEW l, LowBase(l), NEW wants
  PROVE  Eff(l, Lowered(l, wants))
  BY DiscardEff, EffSelf DEF Lowered

LEMMA UnwindEff ==
  ASSUME NEW l, LowBase(l), NEW depth \in Nat
  PROVE  Eff(l, unwind_to(l, depth))
<1>1. CASE l.slots > depth
  <2> DEFINE m == emit(l, Instruction("UnwindTo", depth))
  <2>1. CodeOK(Instruction("UnwindTo", depth)) BY InstructionOK DEF Ops, Plain
  <2>2. Eff(l, m) BY <2>1, EmitEff
  <2>3. unwind_to(l, depth) = [m EXCEPT !.slots = depth] BY <1>1 DEF unwind_to
  <2> HIDE DEF m
  <2>4. Eff(m, [m EXCEPT !.slots = depth]) BY <2>2, SlotsEff DEF Eff
  <2> QED BY <2>2, <2>3, <2>4, EffTrans
<1>2. CASE ~(l.slots > depth) BY <1>2, EffSelf DEF unwind_to
<1> QED BY <1>1, <1>2

LEMMA PopHandlersEff ==
  ASSUME NEW l, LowBase(l), NEW floor \in Int
  PROVE  Eff(l, pop_handlers(l, floor))
<1> DEFINE s == I("PopHandler")
<1>1. s \in Seq(Cells) /\ \A i \in 1..Len(s) : s[i].op \in Plain
  BY DEF I, Instruction, Cells, Plain, Targeted, Branches, Advances
<1>2. l.handlers - floor \in Int BY DEF LowBase
<1> HIDE DEF s
<1>3. CodeOK(Times(l.handlers - floor, s)) BY <1>1, <1>2, TimesOK
<1> QED BY <1>3, EmitEff DEF pop_handlers, s

LEMMA PlainConcat ==
  ASSUME NEW a \in Seq(Cells), NEW b \in Seq(Cells),
         \A i \in 1..Len(a) : a[i].op \in Plain, \A i \in 1..Len(b) : b[i].op \in Plain
  PROVE  a \o b \in Seq(Cells) /\ \A i \in 1..Len(a \o b) : (a \o b)[i].op \in Plain
<1> DEFINE c == a \o b
<1>1. /\ c \in Seq(Cells) /\ Len(c) = Len(a) + Len(b)
      /\ Len(a) \in Nat /\ Len(b) \in Nat
      /\ \A i \in 1..Len(a) : c[i] = a[i]
      /\ \A i \in (Len(a) + 1)..Len(c) : c[i] = b[i - Len(a)]
  OBVIOUS
<1> HIDE DEF c
<1>2. ASSUME NEW i \in 1..Len(c)
      PROVE  c[i].op \in Plain
  <2>1. CASE i <= Len(a) BY <2>1, <1>1
  <2>2. CASE i > Len(a)
    <3>1. i - Len(a) \in 1..Len(b) /\ c[i] = b[i - Len(a)] BY <2>2, <1>1
    <3> QED BY <3>1
  <2> QED BY <2>1, <2>2, <1>1
<1> QED BY <1>1, <1>2 DEF c

LEMMA DropIteratorsEff ==
  ASSUME NEW l, LowBase(l), NEW floor \in Int, NEW covered \in BOOLEAN
  PROVE  Eff(l, drop_iterators(l, floor, covered))
<1> DEFINE s == (IF covered THEN I("Rotate") ELSE <<>>) \o I("IterDrop")
<1>1. s \in Seq(Cells) /\ \A i \in 1..Len(s) : s[i].op \in Plain
  <2>1. /\ I("Rotate") = <<[op |-> "Rotate", arg |-> 0]>>
        /\ I("IterDrop") = <<[op |-> "IterDrop", arg |-> 0]>>
    BY DEF I, Instruction, Targeted, Branches, Advances
  <2>2. [op |-> "Rotate", arg |-> 0] \in Cells /\ [op |-> "IterDrop", arg |-> 0] \in Cells
    BY DEF Cells, Plain
  <2>3. CASE covered
    <3> DEFINE a == <<[op |-> "Rotate", arg |-> 0]>>
               b == <<[op |-> "IterDrop", arg |-> 0]>>
    <3>1. s = a \o b BY <2>1, <2>3
    <3>2. /\ a \in Seq(Cells) /\ Len(a) = 1 /\ a[1].op \in Plain
          /\ b \in Seq(Cells) /\ Len(b) = 1 /\ b[1].op \in Plain
      BY <2>2 DEF Plain
    <3> HIDE DEF s, a, b
    <3>3. \A i \in 1..Len(a) : a[i].op \in Plain BY <3>2
    <3>4. \A i \in 1..Len(b) : b[i].op \in Plain BY <3>2
    <3> QED BY <3>1, <3>2, <3>3, <3>4, PlainConcat
  <2>4. CASE ~covered
    <3>1. s = <<[op |-> "IterDrop", arg |-> 0]>> BY <2>1, <2>4
    <3> HIDE DEF s
    <3> QED BY <3>1, <2>2 DEF Plain
  <2> QED BY <2>3, <2>4
<1>2. l.iters - floor \in Int BY DEF LowBase
<1> HIDE DEF s
<1>3. CodeOK(Times(l.iters - floor, s)) BY <1>1, <1>2, TimesOK
<1> QED BY <1>3, EmitEff DEF drop_iterators, s

-----------------------------------------------------------------------------
(* Blocks and loops are opened and closed. *)

LEMMA LoopsOpenFinite ==
  ASSUME NEW o \in Seq(Blocks \cup Opens)
  PROVE  /\ IsFiniteSet(LoopsOpen(o)) /\ Cardinality(LoopsOpen(o)) \in Nat
         /\ LoopsOpen(o) \subseteq 1..Len(o)
<1>1. LoopsOpen(o) \subseteq 1..Len(o) /\ Len(o) \in Nat BY DEF LoopsOpen
<1>2. IsFiniteSet(1..Len(o)) BY <1>1, FS_Interval
<1>3. IsFiniteSet(LoopsOpen(o)) BY <1>1, <1>2, FS_Subset
<1> QED BY <1>1, <1>3, FS_CardinalityType

LEMMA OpenedBase ==
  ASSUME NEW l, LowBase(l), NEW ctx \in Opens, NEW wants \in Wants, NEW must \in BOOLEAN
  PROVE  LET m == Opened(l, ctx, wants, must)
         IN /\ LowBase(m) /\ m.loops = l.loops
            /\ Cardinality(LoopsOpen(m.open)) =
                 Cardinality(LoopsOpen(l.open)) + (IF ctx.kind \in Repeated THEN 1 ELSE 0)
<1> DEFINE m == Opened(l, ctx, wants, must)
           b == Block("block", wants, l.slots, must)
           o == l.open
           p == o \o <<ctx, b>>
<1>1. b \in Blocks /\ b.kind = "block" BY DEF Block, Blocks, LowBase
<1>2. /\ DOMAIN m = LowFields
      /\ m.code = l.code /\ m.slots = l.slots /\ m.iters = l.iters /\ m.handlers = l.handlers
      /\ m.loops = l.loops /\ m.open = p
  BY DEF Opened, LowFields, LowBase
<1>3. o \in Seq(Blocks \cup Opens) /\ Len(o) > 0 /\ o[1].kind = "program" /\ Len(o) \in Nat
  BY DEF LowBase
<1> HIDE DEF m, b, o
<1>4. <<ctx, b>> \in Seq(Blocks \cup Opens) /\ Len(<<ctx, b>>) = 2 BY <1>1
<1>5. /\ p \in Seq(Blocks \cup Opens) /\ Len(p) = Len(o) + 2
      /\ \A i \in 1..Len(o) : p[i] = o[i]
      /\ p[Len(o) + 1] = ctx /\ p[Len(o) + 2] = b
  <2> DEFINE t == <<ctx, b>>
  <2>0. t[1] = ctx /\ t[2] = b OBVIOUS
  <2> HIDE DEF t
  <2>1. /\ o \o t \in Seq(Blocks \cup Opens) /\ Len(o \o t) = Len(o) + 2
        /\ \A i \in 1..Len(o) : (o \o t)[i] = o[i]
        /\ \A i \in (Len(o) + 1)..(Len(o) + 2) : (o \o t)[i] = t[i - Len(o)]
    BY <1>3, <1>4 DEF t
  <2>2. (Len(o) + 1) - Len(o) = 1 /\ (Len(o) + 2) - Len(o) = 2 BY <1>3
  <2>3. (o \o t)[Len(o) + 1] = t[1] /\ (o \o t)[Len(o) + 2] = t[2] BY <2>1, <2>2, <1>3
  <2> QED BY <2>0, <2>1, <2>3 DEF t
<1> HIDE DEF p
<1>6. LowBase(m) BY <1>2, <1>3, <1>5 DEF LowBase
<1>7. LoopsOpen(p) = LoopsOpen(o) \cup (IF ctx.kind \in Repeated THEN {Len(o) + 1} ELSE {})
  <2>1. DOMAIN p = 1..(Len(o) + 2) /\ DOMAIN o = 1..Len(o) BY <1>3, <1>5
  <2>2. b.kind \notin Repeated BY <1>1 DEF Repeated
  <2>3. ASSUME NEW i PROVE i \in LoopsOpen(p) <=>
               (i \in LoopsOpen(o) \/ (i = Len(o) + 1 /\ ctx.kind \in Repeated))
    BY <2>1, <2>2, <1>3, <1>5 DEF LoopsOpen
  <2> QED BY <2>3
<1>8. Cardinality(LoopsOpen(p)) = Cardinality(LoopsOpen(o)) + (IF ctx.kind \in Repeated THEN 1 ELSE 0)
  <2>1. IsFiniteSet(LoopsOpen(o)) /\ Len(o) + 1 \notin LoopsOpen(o) /\ Cardinality(LoopsOpen(o)) \in Nat
    BY <1>3, LoopsOpenFinite
  <2>2. CASE ctx.kind \in Repeated
    <3>1. LoopsOpen(p) = LoopsOpen(o) \cup {Len(o) + 1} BY <1>7, <2>2
    <3> QED BY <3>1, <2>1, <2>2, FS_AddElement
  <2>3. CASE ctx.kind \notin Repeated BY <1>7, <2>1, <2>3
  <2> QED BY <2>2, <2>3
<1> QED BY <1>2, <1>6, <1>8 DEF m, o

LEMMA OpenPlain ==
  ASSUME NEW l, LowOK(l), NEW m, Eff(l, m), NEW ctx \in Opens, ctx.kind \notin Repeated,
         NEW wants \in Wants, NEW must \in BOOLEAN
  PROVE  LowOK(Opened(m, ctx, wants, must))
<1>1. LowBase(m) /\ Cardinality(LoopsOpen(m.open)) = Len(m.loops) BY DEF Eff, LowOK
<1>2. Cardinality(LoopsOpen(m.open)) \in Nat BY <1>1, LoopsOpenFinite DEF LowBase
<1> QED BY <1>1, <1>2, OpenedBase DEF LowOK

LEMMA PushLoop ==
  ASSUME NEW l, LowBase(l), NEW p \in Loops
  PROVE  LET n == [l EXCEPT !.loops = Append(@, p)]
         IN LowBase(n) /\ n.open = l.open /\ Len(n.loops) = Len(l.loops) + 1
<1> DEFINE n == [l EXCEPT !.loops = Append(@, p)]
           q == Append(l.loops, p)
<1>1. q \in Seq(Loops) /\ Len(q) = Len(l.loops) + 1 BY DEF LowBase
<1>2. /\ DOMAIN n = LowFields
      /\ n.code = l.code /\ n.slots = l.slots /\ n.iters = l.iters /\ n.handlers = l.handlers
      /\ n.loops = q /\ n.open = l.open
  BY DEF LowFields, LowBase
<1> HIDE DEF n, q
<1>3. LowBase(n) BY <1>1, <1>2 DEF LowBase
<1> QED BY <1>1, <1>2, <1>3 DEF n

LEMMA OpenLoop ==
  ASSUME NEW l, LowOK(l), NEW m, Eff(l, m), NEW p \in Loops, NEW ctx \in Opens, ctx.kind \in Repeated
  PROVE  LowOK(Opened([m EXCEPT !.loops = Append(@, p)], ctx, "Effect", FALSE))
<1> DEFINE n == [m EXCEPT !.loops = Append(@, p)]
           o == Opened(n, ctx, "Effect", FALSE)
<1>1. LowBase(m) /\ Cardinality(LoopsOpen(m.open)) = Len(m.loops) BY DEF Eff, LowOK
<1>2. LowBase(n) /\ n.open = m.open /\ Len(n.loops) = Len(m.loops) + 1 BY <1>1, PushLoop
<1>3. "Effect" \in Wants /\ FALSE \in BOOLEAN BY DEF Wants
<1> HIDE DEF n
<1>4. /\ LowBase(o) /\ o.loops = n.loops
      /\ Cardinality(LoopsOpen(o.open)) = Cardinality(LoopsOpen(n.open)) + 1
  BY <1>2, <1>3, OpenedBase
<1> HIDE DEF o
<1>5. LowOK(o) BY <1>1, <1>2, <1>4 DEF LowOK
<1> QED BY <1>5 DEF o, n

LEMMA LoopType ==
  ASSUME NEW l, LowBase(l), NEW target \in Nat, NEW depth \in Nat, NEW owns \in BOOLEAN
  PROVE  Loop(target, depth, l, owns) \in Loops
  BY DEF Loop, Loops, LowBase

LEMMA OpenType ==
  ASSUME NEW wants \in Wants, NEW site \in Int, NEW top \in Nat,
         NEW kind \in StmtKinds
  PROVE  Open(kind, wants, site, top) \in Opens /\ Open(kind, wants, site, top).kind = kind
  BY DEF Open, Opens

\* The innermost loop notes a jump to be patched.
LEMMA NoteJump ==
  ASSUME NEW l, LowOK(l), l.loops # <<>>
  PROVE  /\ LowOK([l EXCEPT !.loops[Len(l.loops)].breaks = @ \cup {here(l)}])
         /\ LowOK([l EXCEPT !.loops[Len(l.loops)].continues = @ \cup {here(l)}])
<1> DEFINE k == Len(l.loops)
           p == [l.loops[k] EXCEPT !.breaks = @ \cup {here(l)}]
           q == [l.loops[k] EXCEPT !.continues = @ \cup {here(l)}]
<1>1. l.loops \in Seq(Loops) /\ k \in 1..Len(l.loops) /\ here(l) \in Nat BY HereNat DEF LowOK, LowBase
<1>2. l.loops[k] \in Loops BY <1>1
<1>3. p \in Loops /\ q \in Loops BY <1>1, <1>2 DEF Loops
<1>4. ASSUME NEW r \in Loops, NEW m, m = [l EXCEPT !.loops = [l.loops EXCEPT ![k] = r]]
      PROVE  LowOK(m)
  <2> DEFINE s == [l.loops EXCEPT ![k] = r]
  <2>1. s \in Seq(Loops) /\ Len(s) = Len(l.loops) BY <1>1
  <2> HIDE DEF s
  <2>2. /\ DOMAIN m = LowFields
        /\ m.code = l.code /\ m.slots = l.slots /\ m.iters = l.iters /\ m.handlers = l.handlers
        /\ m.loops = s /\ m.open = l.open
    BY <1>4 DEF LowFields, LowOK, LowBase, s
  <2> QED BY <2>1, <2>2 DEF LowOK, LowBase
<1>5. /\ [l EXCEPT !.loops[Len(l.loops)].breaks = @ \cup {here(l)}] = [l EXCEPT !.loops = [l.loops EXCEPT ![k] = p]]
      /\ [l EXCEPT !.loops[Len(l.loops)].continues = @ \cup {here(l)}] = [l EXCEPT !.loops = [l.loops EXCEPT ![k] = q]]
  OBVIOUS
<1> HIDE DEF p, q
<1> QED BY <1>3, <1>4, <1>5

LEMMA TopType ==
  ASSUME LowOK(low)
  PROVE  /\ Len(low.open) \in 1..Len(low.open)
         /\ Top = low.open[Len(low.open)]
         /\ Top \in Blocks \cup Opens
         /\ Top.wants \in Wants
         /\ Top.kind \in {"block", "program"} => Top \in Blocks
<1>1. low.open \in Seq(Blocks \cup Opens) /\ Len(low.open) \in Nat /\ Len(low.open) > 0
  BY DEF LowOK, LowBase
<1>2. Len(low.open) \in 1..Len(low.open) /\ Top = low.open[Len(low.open)] BY <1>1 DEF Top, LastOf
<1>3. Top \in Blocks \cup Opens BY <1>1, <1>2
<1> QED BY <1>2, <1>3 DEF Blocks, Opens, StmtKinds

LEMMA WantedType ==
  ASSUME LowOK(low), NEW last \in BOOLEAN
  PROVE  Wanted(last) \in Wants
  BY TopType DEF Wanted, Wants

LEMMA BegunOK ==
  ASSUME LowOK(low), Top.kind \in {"block", "program"}, NEW last \in BOOLEAN
  PROVE  LowOK(Begun(last)) /\ Begun(last).loops = low.loops
<1> DEFINE l == IF Top.kind = "program" THEN emit(low, I("Checkpoint")) ELSE low
           k == Len(low.open)
           t == [low.open[k] EXCEPT !.some = TRUE, !.last = last]
           o == [low.open EXCEPT ![k] = t]
           m == Begun(last)
<1>1. Eff(low, l)
  <2>1. LowBase(low) /\ CodeOK(I("Checkpoint")) BY IOK DEF LowOK, Ops, Plain
  <2> QED BY <2>1, EmitEff, EffSelf
<1>2. LowOK(l) /\ l.open = low.open /\ l.loops = low.loops BY <1>1, EffOK DEF Eff
<1> HIDE DEF l
<1>3. m = [l EXCEPT !.open = o, !.count = l.count + 1]
  <2>1. m = [l EXCEPT !.open[Len(l.open)].some = TRUE, !.open[Len(l.open)].last = last, !.count = @ + 1]
    BY DEF Begun, l
  <2> DEFINE u == [low.open EXCEPT ![k] = [low.open[k] EXCEPT !.some = TRUE]]
             v == [u EXCEPT ![k] = [u[k] EXCEPT !.last = last]]
  <2>2. m = [l EXCEPT !.open = v, !.count = l.count + 1] BY <2>1, <1>2
  <2>3. low.open \in Seq(Blocks \cup Opens) /\ k \in DOMAIN low.open BY DEF LowOK, LowBase
  <2>4. u[k] = [low.open[k] EXCEPT !.some = TRUE] BY <2>3
  <2>5. [u[k] EXCEPT !.last = last] = t BY <2>4
  <2>6. v = o BY <2>3, <2>5
  <2> QED BY <2>2, <2>6
<1>4. low.open \in Seq(Blocks \cup Opens) /\ k \in 1..k /\ k \in Nat /\ low.open[1].kind = "program"
  BY DEF LowOK, LowBase
<1>5. t \in Blocks /\ t.kind = low.open[k].kind
  <2>1. low.open[k] \in Blocks BY TopType
  <2> QED BY <2>1 DEF Blocks
<1> HIDE DEF t
<1>6. /\ o \in Seq(Blocks \cup Opens) /\ Len(o) = k
      /\ \A i \in 1..k : o[i].kind = low.open[i].kind
  BY <1>4, <1>5
<1>7. LoopsOpen(o) = LoopsOpen(low.open) BY <1>4, <1>6 DEF LoopsOpen
<1> HIDE DEF o
<1>8. /\ DOMAIN m = LowFields
      /\ m.code = l.code /\ m.slots = l.slots /\ m.iters = l.iters /\ m.handlers = l.handlers
      /\ m.loops = l.loops /\ m.open = o
  BY <1>2, <1>3 DEF LowFields, LowOK, LowBase
<1> HIDE DEF m
<1>9. LowOK(m) BY <1>2, <1>4, <1>6, <1>7, <1>8 DEF LowOK, LowBase
<1> QED BY <1>2, <1>8, <1>9 DEF m

\* What is left when a block and its statement are gone.
LEMMA ClosedOK ==
  ASSUME LowOK(low), NEW kind \in StmtKinds, Closing(kind)
  PROVE  /\ Owner \in Opens /\ Owner.kind = kind
         /\ LowBase(Closed) /\ Closed.loops = low.loops
         /\ Cardinality(LoopsOpen(Closed.open)) + (IF kind \in Repeated THEN 1 ELSE 0) = Len(low.loops)
<1> DEFINE k == Len(low.open)
           o == low.open
           p == SubSeq(o, 1, k - 2)
           l == [low EXCEPT !.open = SubSeq(@, 1, Len(@) - 2)]
<1>1. o \in Seq(Blocks \cup Opens) /\ k \in Nat /\ k > 0 /\ o[1].kind = "program" BY DEF LowOK, LowBase
<1>2. o[k].kind = "block" /\ o[k] \in Blocks BY TopType DEF Closing
<1>3. k > 1 /\ k - 1 \in 1..k /\ Owner = o[k - 1] BY <1>1, <1>2 DEF Owner
<1>4. Owner.kind = kind BY DEF Closing, Owner
<1>5. k > 2 BY <1>1, <1>3, <1>4 DEF StmtKinds
<1>6. Owner \in Opens
  <2>1. CASE Owner \in Opens BY <2>1
  <2>2. CASE Owner \in Blocks
    <3>1. kind \in {"block", "program"} BY <2>2, <1>4 DEF Blocks
    <3> QED BY <3>1 DEF StmtKinds
  <2> QED BY <2>1, <2>2, <1>1, <1>3
<1>7. /\ p \in Seq(Blocks \cup Opens) /\ Len(p) = k - 2
      /\ \A i \in 1..(k - 2) : p[i] = o[i]
  <2>1. k - 2 \in Nat /\ k - 2 <= Len(o) BY <1>1, <1>5
  <2> QED BY <2>1, <1>1, FirstN
<1>8. /\ DOMAIN l = LowFields
      /\ l.code = low.code /\ l.slots = low.slots /\ l.iters = low.iters /\ l.handlers = low.handlers
      /\ l.loops = low.loops /\ l.open = p
  BY DEF LowFields, LowOK, LowBase
<1> HIDE DEF l, p
<1>9. LowBase(l) BY <1>1, <1>5, <1>7, <1>8 DEF LowOK, LowBase
<1>10. Eff(l, Closed)
  <2>1. Closed = IF Top.some THEN unwind_to(l, Top.depth)
                 ELSE IF Top.wants = "Value" THEN emit(l, I("Unit")) ELSE l
    BY DEF Closed, l
  <2>2. Eff(l, unwind_to(l, Top.depth))
    <3>1. Top.depth \in Nat BY <1>2, TopType DEF Blocks
    <3> QED BY <3>1, <1>9, UnwindEff
  <2>3. Eff(l, emit(l, I("Unit"))) BY <1>9, EmitEff, IOK DEF Ops, Plain
  <2> QED BY <2>1, <2>2, <2>3, <1>9, EffSelf
<1>11. LoopsOpen(o) = LoopsOpen(p) \cup (IF kind \in Repeated THEN {k - 1} ELSE {})
  <2>1. DOMAIN p = 1..(k - 2) /\ DOMAIN o = 1..k BY <1>1, <1>7
  <2>2. o[k].kind \notin Repeated /\ o[k - 1].kind = kind BY <1>2, <1>3, <1>4 DEF Repeated
  <2>3. ASSUME NEW i
        PROVE  i \in LoopsOpen(o) <=> (i \in LoopsOpen(p) \/ (i = k - 1 /\ kind \in Repeated))
    <3>1. i \in 1..k <=> i \in 1..(k - 2) \/ i = k - 1 \/ i = k BY <1>1, <1>5
    <3>2. i \in 1..(k - 2) => o[i].kind = p[i].kind /\ i # k - 1 /\ i # k BY <1>1, <1>5, <1>7
    <3> QED BY <3>1, <3>2, <2>1, <2>2 DEF LoopsOpen
  <2> QED BY <2>3
<1>12. Cardinality(LoopsOpen(p)) + (IF kind \in Repeated THEN 1 ELSE 0) = Len(low.loops)
  <2>1. IsFiniteSet(LoopsOpen(p)) /\ k - 1 \notin LoopsOpen(p) /\ Cardinality(LoopsOpen(p)) \in Nat
    BY <1>1, <1>5, <1>7, LoopsOpenFinite
  <2>2. Cardinality(LoopsOpen(o)) = Len(low.loops) BY DEF LowOK
  <2>3. CASE kind \in Repeated
    <3>1. LoopsOpen(o) = LoopsOpen(p) \cup {k - 1} BY <1>11, <2>3
    <3> QED BY <3>1, <2>1, <2>2, <2>3, FS_AddElement
  <2>4. CASE kind \notin Repeated BY <1>11, <2>1, <2>2, <2>4
  <2> QED BY <2>3, <2>4
<1> QED BY <1>4, <1>6, <1>8, <1>10, <1>12 DEF Eff

LEMMA ClosedPlain ==
  ASSUME LowOK(low), NEW kind \in StmtKinds, Closing(kind), kind \notin Repeated
  PROVE  LowOK(Closed)
<1>1. LowBase(Closed) /\ Closed.loops = low.loops /\ Cardinality(LoopsOpen(Closed.open)) + 0 = Len(low.loops)
  BY ClosedOK
<1>2. Cardinality(LoopsOpen(Closed.open)) \in Nat BY <1>1, LoopsOpenFinite DEF LowBase
<1> QED BY <1>1, <1>2 DEF LowOK

\* The loop goes with its statement.
LEMMA EndLoop ==
  ASSUME LowOK(low), NEW kind \in StmtKinds, Closing(kind), kind \in Repeated, NEW m, Eff(Closed, m)
  PROVE  LowOK(end_loop(m)) /\ LastOf(low.loops) \in Loops
<1> DEFINE n == end_loop(m)
           k == Len(low.loops)
           q == AllButLast(low.loops)
<1>1. /\ LowBase(Closed) /\ Closed.loops = low.loops
      /\ Cardinality(LoopsOpen(Closed.open)) + 1 = Len(low.loops)
  BY ClosedOK DEF Repeated
<1>2. LowBase(m) /\ m.loops = low.loops /\ m.open = Closed.open BY <1>1 DEF Eff
<1>3. Cardinality(LoopsOpen(m.open)) \in Nat BY <1>2, LoopsOpenFinite DEF LowBase
<1>4. low.loops \in Seq(Loops) /\ k \in Nat /\ k > 0 /\ k - 1 \in Nat /\ k - 1 <= k
  BY <1>1, <1>2, <1>3 DEF LowBase
<1>5. q \in Seq(Loops) /\ Len(q) = k - 1 BY <1>4, FirstN DEF AllButLast
<1>6. /\ DOMAIN n = LowFields
      /\ n.code = m.code /\ n.slots = m.slots /\ n.iters = m.iters /\ n.handlers = m.handlers
      /\ n.loops = q /\ n.open = m.open
  BY <1>2 DEF end_loop, LowFields, LowBase
<1> HIDE DEF n, q
<1>7. LowOK(n) BY <1>1, <1>2, <1>3, <1>5, <1>6 DEF LowOK, LowBase
<1>8. LastOf(low.loops) \in Loops BY <1>4 DEF LastOf
<1> QED BY <1>7, <1>8 DEF n

-----------------------------------------------------------------------------
(* Every step of lowering leaves the lowering in order. *)

LEMMA Opcodes ==
  /\ {"Unit", "Push", "Call", "BinOp", "Pop", "Declare", "UnwindTo", "Checkpoint", "PopHandler", "Rotate",
      "IterInit", "IterDrop", "Throw", "Return"} \subseteq Ops
  /\ {"JumpIfFalse", "JumpIfTrue", "SkipIfNotUnit", "IterNext", "IterNextStore", "Jump", "PushHandler"} \subseteq Ops
  BY DEF Ops, Plain, Targeted, Branches, Advances

\* What an action begins with.
LEMMA BeginsOK ==
  ASSUME LowOK(low), NEW kind, At(kind), NEW last \in Lasts
  PROVE  /\ LowOK(Begun(last)) /\ LowBase(Begun(last)) /\ Begun(last).loops = low.loops
         /\ Wanted(last) \in Wants
<1>1. last \in BOOLEAN /\ Top.kind \in {"block", "program"} BY DEF Lasts, At
<1> QED BY <1>1, BegunOK, WantedType DEF LowOK

LEMMA Emit1 ==
  ASSUME NEW l, NEW m, Eff(l, m), NEW op \in Ops
  PROVE  Eff(l, emit(m, I(op)))
  BY IOK, EmitEff, EffTrans DEF Eff

LEMMA EmitI ==
  ASSUME NEW l, NEW m, Eff(l, m), NEW op \in Ops, NEW arg \in Nat
  PROVE  Eff(l, emit(m, Instruction(op, arg)))
  BY InstructionOK, EmitEff, EffTrans DEF Eff

LEMMA EmitCode ==
  ASSUME NEW l, NEW m, Eff(l, m), NEW c, CodeOK(c)
  PROVE  Eff(l, emit(m, c))
  BY EmitEff, EffTrans DEF Eff

LEMMA PatchAll ==
  ASSUME NEW l, NEW m, Eff(l, m), NEW sites
  PROVE  /\ Eff(l, patch_here(m, sites))
         /\ \A target \in Nat : Eff(l, patch_to(m, sites, target))
  BY PatchHereEff, PatchEff, EffTrans DEF Eff

LEMMA LowerAll ==
  ASSUME NEW l, NEW m, Eff(l, m), NEW wants
  PROVE  Eff(l, Lowered(m, wants))
  BY LoweredEff, EffTrans DEF Eff

LEMMA StmtVarOK ==
  ASSUME LowOK(low), Stmt_Var
  PROVE  LowOK(low')
<1>1. PICK last \in Lasts :
        LET l == emit(Begun(last), I("Push") \o I("Declare") \o I("Unit"))
        IN low' = Lowered([l EXCEPT !.slots = @ + 1], Wanted(last))
  BY DEF Stmt_Var, Lower
<1> DEFINE b == Begun(last)
           c == I("Push") \o I("Declare") \o I("Unit")
           l == emit(b, c)
           m == [l EXCEPT !.slots = l.slots + 1]
<1>2. LowOK(b) /\ LowBase(b) BY BeginsOK DEF Stmt_Var
<1>3. CodeOK(c) BY IOK, Opcodes, ConcatOK
<1>4. low' = Lowered(m, Wanted(last)) BY <1>1
<1> HIDE DEF b, c
<1>5. Eff(b, l) BY <1>2, <1>3, EmitEff
<1> HIDE DEF l
<1>6. Eff(l, m)
  <2>1. LowBase(l) /\ l.slots + 1 \in Nat BY <1>5 DEF Eff, LowBase
  <2> QED BY <2>1, SlotsEff
<1> HIDE DEF m
<1>7. Eff(b, Lowered(m, Wanted(last))) BY <1>5, <1>6, EffTrans, LowerAll
<1> QED BY <1>2, <1>4, <1>7, EffOK

LEMMA StmtExprOK ==
  ASSUME LowOK(low), Stmt_Expr
  PROVE  LowOK(low')
<1>1. PICK last \in Lasts : low' = Lowered(emit(Begun(last), I("Call")), Wanted(last))
  BY DEF Stmt_Expr, Lower
<1> DEFINE b == Begun(last)
<1>2. LowOK(b) /\ LowBase(b) BY BeginsOK DEF Stmt_Expr
<1> HIDE DEF b
<1>3. Eff(b, Lowered(emit(b, I("Call")), Wanted(last))) BY <1>2, EffSelf, Emit1, Opcodes, LowerAll
<1> QED BY <1>1, <1>2, <1>3, EffOK DEF b

LEMMA StmtReturnOK ==
  ASSUME LowOK(low), NEW kind, NEW op \in Ops, Stmt_Return(kind, op)
  PROVE  LowOK(low')
<1>1. PICK last \in Lasts : low' = Lowered(emit(Begun(last), I("Push") \o I(op) \o I("Unit")), Wanted(last))
  BY DEF Stmt_Return, Lower
<1> DEFINE b == Begun(last)
           c == I("Push") \o I(op) \o I("Unit")
<1>2. LowOK(b) /\ LowBase(b) BY BeginsOK DEF Stmt_Return
<1>3. CodeOK(c) BY IOK, Opcodes, ConcatOK
<1>4. low' = Lowered(emit(b, c), Wanted(last)) BY <1>1
<1> HIDE DEF b, c
<1>5. Eff(b, Lowered(emit(b, c), Wanted(last))) BY <1>2, <1>3, EffSelf, EmitCode, LowerAll
<1> QED BY <1>2, <1>4, <1>5, EffOK

LEMMA LeavingEff ==
  ASSUME NEW l, LowBase(l), l.loops # <<>>, NEW value, CodeOK(value), NEW floor \in Int, NEW depth \in Nat
  PROVE  Eff(l, Leaving(l, value, floor, depth))
<1> DEFINE m1 == emit(l, value)
           m2 == pop_handlers(m1, LastOf(l.loops).handlers)
           m3 == drop_iterators(m2, floor, value # <<>>)
           m4 == emit(m3, Instruction("UnwindTo", depth))
<1>0. Leaving(l, value, floor, depth) = m4 BY DEF Leaving
<1>1. Eff(l, m1) BY EmitEff
<1>2. LastOf(l.loops).handlers \in Int
  <2>1. l.loops \in Seq(Loops) /\ Len(l.loops) \in 1..Len(l.loops) BY DEF LowBase
  <2>2. LastOf(l.loops) \in Loops BY <2>1 DEF LastOf
  <2> QED BY <2>2 DEF Loops
<1> HIDE DEF m1
<1>3. Eff(m1, m2) BY <1>1, <1>2, PopHandlersEff DEF Eff
<1> HIDE DEF m2
<1>4. Eff(m2, m3) BY <1>3, DropIteratorsEff DEF Eff
<1> HIDE DEF m3
<1>5. Eff(l, m3) BY <1>1, <1>3, <1>4, EffTrans
<1>6. Eff(l, m4) BY <1>5, EmitI, Opcodes
<1> QED BY <1>0, <1>6

LEMMA ActiveType ==
  ASSUME LowOK(low), low.loops # <<>>
  PROVE  LET p == LastOf(low.loops)
         IN /\ p \in Loops
            /\ p.continue_target \in Nat /\ p.break_depth \in Nat /\ p.continue_depth \in Nat
            /\ p.iters \in Int
            /\ p.iters - (IF p.owns_iterator THEN 1 ELSE 0) \in Int
<1>1. low.loops \in Seq(Loops) /\ Len(low.loops) \in 1..Len(low.loops) BY DEF LowOK, LowBase
<1>2. LastOf(low.loops) \in Loops BY <1>1 DEF LastOf
<1> QED BY <1>2 DEF Loops

LEMMA StmtBreakOK ==
  ASSUME LowOK(low), Stmt_Break
  PROVE  LowOK(low')
<1> DEFINE active == LastOf(low.loops)
           floor == active.iters - (IF active.owns_iterator THEN 1 ELSE 0)
<1>1. PICK last \in Lasts :
        LET l == Leaving(Begun(last), I("Unit"), floor, active.break_depth)
            m == [l EXCEPT !.loops[Len(l.loops)].breaks = @ \cup {here(l)}]
        IN low' = Lowered(emit(m, I("Jump") \o I("Unit")), Wanted(last))
  BY DEF Stmt_Break, Lower
<1> DEFINE b == Begun(last)
           l == Leaving(b, I("Unit"), floor, active.break_depth)
           m == [l EXCEPT !.loops[Len(l.loops)].breaks = @ \cup {here(l)}]
           c == I("Jump") \o I("Unit")
<1>2. LowOK(b) /\ LowBase(b) /\ b.loops = low.loops BY BeginsOK DEF Stmt_Break
<1>3. low.loops # <<>> /\ floor \in Int /\ active.break_depth \in Nat BY ActiveType DEF Stmt_Break
<1>4. CodeOK(c) /\ CodeOK(I("Unit")) BY IOK, Opcodes, ConcatOK
<1>5. low' = Lowered(emit(m, c), Wanted(last)) BY <1>1
<1> HIDE DEF b, floor, active, c
<1>6. Eff(b, l) BY <1>2, <1>3, <1>4, LeavingEff
<1>7. LowOK(l) /\ l.loops # <<>> BY <1>2, <1>3, <1>6, EffOK DEF Eff
<1> HIDE DEF l
<1>8. LowOK(m) /\ LowBase(m) BY <1>7, NoteJump DEF LowOK
<1> HIDE DEF m
<1>9. Eff(m, Lowered(emit(m, c), Wanted(last))) BY <1>4, <1>8, EffSelf, EmitCode, LowerAll
<1> QED BY <1>5, <1>8, <1>9, EffOK

LEMMA StmtContinueOK ==
  ASSUME LowOK(low), Stmt_Continue
  PROVE  LowOK(low')
<1> DEFINE active == LastOf(low.loops)
<1>1. PICK last \in Lasts :
        LET l == Leaving(Begun(last), <<>>, active.iters, active.continue_depth)
            m == IF active.continue_target # 0 THEN l
                 ELSE [l EXCEPT !.loops[Len(l.loops)].continues = @ \cup {here(l)}]
        IN low' = Lowered(emit(m, Instruction("Jump", active.continue_target) \o I("Unit")), Wanted(last))
  BY DEF Stmt_Continue, Lower
<1> DEFINE b == Begun(last)
           l == Leaving(b, <<>>, active.iters, active.continue_depth)
           m == IF active.continue_target # 0 THEN l
                ELSE [l EXCEPT !.loops[Len(l.loops)].continues = @ \cup {here(l)}]
           c == Instruction("Jump", active.continue_target) \o I("Unit")
<1>2. LowOK(b) /\ LowBase(b) /\ b.loops = low.loops BY BeginsOK DEF Stmt_Continue
<1>3. low.loops # <<>> /\ active.iters \in Int /\ active.continue_depth \in Nat /\ active.continue_target \in Nat
  BY ActiveType DEF Stmt_Continue
<1>4. CodeOK(c) BY <1>3, IOK, InstructionOK, Opcodes, ConcatOK
<1>5. low' = Lowered(emit(m, c), Wanted(last)) BY <1>1
<1> HIDE DEF b, active, c
<1>6. Eff(b, l) BY <1>2, <1>3, EmptyCode, LeavingEff
<1>7. LowOK(l) /\ l.loops # <<>> BY <1>2, <1>3, <1>6, EffOK DEF Eff
<1> HIDE DEF l
<1>8. LowOK(m) /\ LowBase(m) BY <1>7, NoteJump DEF LowOK
<1> HIDE DEF m
<1>9. Eff(m, Lowered(emit(m, c), Wanted(last))) BY <1>4, <1>8, EffSelf, EmitCode, LowerAll
<1> QED BY <1>5, <1>8, <1>9, EffOK

LEMMA StmtBlockOK ==
  ASSUME LowOK(low), Stmt_Block
  PROVE  LowOK(low')
<1>1. PICK last \in Lasts :
        low' = Opened(Begun(last), Open("plain", Wanted(last), 0, 0), Wanted(last), FALSE)
  BY DEF Stmt_Block, Lower
<1>2. LowOK(Begun(last)) /\ LowBase(Begun(last)) /\ Wanted(last) \in Wants BY BeginsOK DEF Stmt_Block
<1> DEFINE ctx == Open("plain", Wanted(last), 0, 0)
<1>3. ctx \in Opens /\ ctx.kind \notin Repeated BY <1>2, OpenType DEF StmtKinds, Repeated
<1> HIDE DEF ctx
<1> QED BY <1>1, <1>2, <1>3, EffSelf, OpenPlain DEF ctx

LEMMA IfOK ==
  ASSUME LowOK(low), if_statement
  PROVE  LowOK(low')
<1>1. PICK last \in Lasts :
        LET l == emit(Begun(last), I("Push"))
        IN low' = Opened(emit(l, I("JumpIfFalse")), Open("if", Wanted(last), here(l), 0), Wanted(last), FALSE)
  BY DEF if_statement, Lower
<1> DEFINE b == Begun(last)
           l == emit(b, I("Push"))
           m == emit(l, I("JumpIfFalse"))
           ctx == Open("if", Wanted(last), here(l), 0)
<1>2. LowOK(b) /\ LowBase(b) /\ Wanted(last) \in Wants BY BeginsOK DEF if_statement
<1>3. low' = Opened(m, ctx, Wanted(last), FALSE) BY <1>1
<1> HIDE DEF b
<1>4. Eff(b, l) BY <1>2, EffSelf, Emit1, Opcodes
<1> HIDE DEF l
<1>5. Eff(b, m) BY <1>4, Emit1, Opcodes
<1>6. here(l) \in Int BY <1>4, HereNat DEF Eff
<1>7. ctx \in Opens /\ ctx.kind \notin Repeated BY <1>2, <1>6, OpenType DEF StmtKinds, Repeated
<1> HIDE DEF m, ctx
<1> QED BY <1>2, <1>3, <1>5, <1>7, OpenPlain

LEMMA StmtLoopOK ==
  ASSUME LowOK(low), NEW kind \in {"loop", "do"}, Stmt_Loop(kind)
  PROVE  LowOK(low')
<1>1. PICK last \in Lasts :
        LET l == Begun(last)
        IN low' = Opened(begin_loop(l, here(l)), Open(kind, Wanted(last), 0, here(l)), "Effect", FALSE)
  BY DEF Stmt_Loop, Lower
<1> DEFINE b == Begun(last)
           p == Loop(here(b), b.slots, b, FALSE)
           ctx == Open(kind, Wanted(last), 0, here(b))
<1>2. LowOK(b) /\ LowBase(b) /\ Wanted(last) \in Wants BY BeginsOK DEF Stmt_Loop
<1>3. low' = Opened([b EXCEPT !.loops = Append(@, p)], ctx, "Effect", FALSE) BY <1>1 DEF begin_loop
<1> HIDE DEF b
<1>4. here(b) \in Nat /\ b.slots \in Nat BY <1>2, HereNat DEF LowBase
<1>5. p \in Loops BY <1>2, <1>4, LoopType
<1>6. ctx \in Opens /\ ctx.kind \in Repeated BY <1>2, <1>4, OpenType DEF StmtKinds, Repeated
<1> HIDE DEF ctx, p
<1> QED BY <1>2, <1>3, <1>5, <1>6, EffSelf, OpenLoop

LEMMA StmtWhileOK ==
  ASSUME LowOK(low), Stmt_While
  PROVE  LowOK(low')
<1>1. PICK last \in Lasts :
        LET l == Begun(last)
            m == emit(l, I("Jump"))
        IN low' = Opened(begin_loop(m, 0), Open("while", Wanted(last), here(l), here(m)), "Effect", FALSE)
  BY DEF Stmt_While, Lower
<1> DEFINE b == Begun(last)
           m == emit(b, I("Jump"))
           p == Loop(0, m.slots, m, FALSE)
           ctx == Open("while", Wanted(last), here(b), here(m))
<1>2. LowOK(b) /\ LowBase(b) /\ Wanted(last) \in Wants BY BeginsOK DEF Stmt_While
<1>3. low' = Opened([m EXCEPT !.loops = Append(@, p)], ctx, "Effect", FALSE) BY <1>1 DEF begin_loop
<1> HIDE DEF b
<1>4. Eff(b, m) /\ LowBase(m) BY <1>2, EffSelf, Emit1, Opcodes DEF Eff
<1> HIDE DEF m
<1>5. here(b) \in Int /\ here(m) \in Nat /\ m.slots \in Nat
  <2>1. here(b) \in Nat /\ here(m) \in Nat BY <1>2, <1>4, HereNat
  <2>2. m.slots \in Nat BY <1>4 DEF LowBase
  <2> QED BY <2>1, <2>2
<1>6. p \in Loops BY <1>4, <1>5, LoopType
<1>7. ctx \in Opens /\ ctx.kind \in Repeated BY <1>2, <1>5, OpenType DEF StmtKinds, Repeated
<1> HIDE DEF ctx, p
<1> QED BY <1>2, <1>3, <1>4, <1>6, <1>7, OpenLoop

LEMMA StmtForOK ==
  ASSUME LowOK(low), Stmt_For
  PROVE  LowOK(low')
<1>1. PICK last \in Lasts :
       LET l == emit(Begun(last), I("Push") \o I("IterInit") \o I("Unit") \o I("Declare"))
           m == emit([l EXCEPT !.iters = @ + 1, !.slots = @ + 1],
                     I("IterNextStore") \o Instruction("UnwindTo", l.slots) \o I("Unit") \o I("Jump"))
           n == patch_here(m, {here(l)})
       IN low' = Opened(begin_for(n, l.slots), Open("for", Wanted(last), Len(m.code) - 1, here(l)), "Effect", FALSE)
  BY DEF Stmt_For, Lower
<1> DEFINE b == Begun(last)
           c == I("Push") \o I("IterInit") \o I("Unit") \o I("Declare")
           l == emit(b, c)
           x == [l EXCEPT !.iters = l.iters + 1, !.slots = l.slots + 1]
           d == I("IterNextStore") \o Instruction("UnwindTo", l.slots) \o I("Unit") \o I("Jump")
           m == emit(x, d)
           n == patch_here(m, {here(l)})
           p == Loop(0, l.slots, n, TRUE)
           ctx == Open("for", Wanted(last), Len(m.code) - 1, here(l))
<1>2. LowOK(b) /\ LowBase(b) /\ Wanted(last) \in Wants BY BeginsOK DEF Stmt_For
<1>3. low' = Opened([n EXCEPT !.loops = Append(@, p)], ctx, "Effect", FALSE) BY <1>1 DEF begin_for
<1>4. CodeOK(c) BY IOK, Opcodes, ConcatOK
<1> HIDE DEF b, c
<1>5. Eff(b, l) /\ LowBase(l) BY <1>2, <1>4, EmitEff DEF Eff
<1> HIDE DEF l
<1>6. l.slots \in Nat /\ l.slots + 1 \in Nat /\ l.iters + 1 \in Int /\ here(l) \in Nat
  BY <1>5, HereNat DEF LowBase
<1>7. Eff(l, x) BY <1>5, <1>6, NumbersEff
<1>8. CodeOK(d) BY <1>6, IOK, InstructionOK, Opcodes, ConcatOK
<1> HIDE DEF x, d
<1>9. Eff(b, m) /\ LowBase(m) BY <1>5, <1>7, <1>8, EffTrans, EmitCode DEF Eff
<1> HIDE DEF m
<1>10. Eff(b, n) /\ LowBase(n) BY <1>9, PatchAll DEF Eff
<1> HIDE DEF n
<1>11. p \in Loops BY <1>6, <1>10, LoopType
<1>12. Len(m.code) - 1 \in Int BY <1>9, HereNat
<1>13. ctx \in Opens /\ ctx.kind \in Repeated BY <1>2, <1>6, <1>12, OpenType DEF StmtKinds, Repeated
<1> HIDE DEF ctx, p
<1> QED BY <1>2, <1>3, <1>10, <1>11, <1>13, OpenLoop

LEMMA StmtTryOK ==
  ASSUME LowOK(low), Stmt_TryCatch
  PROVE  LowOK(low')
<1>1. PICK last \in Lasts :
       LET l == Begun(last)
           m == [emit(l, I("PushHandler")) EXCEPT !.handlers = @ + 1]
       IN low' = Opened(m, Open("try", Wanted(last), here(l), 0), "Value", FALSE)
  BY DEF Stmt_TryCatch, Lower
<1> DEFINE b == Begun(last)
           l == emit(b, I("PushHandler"))
           m == [l EXCEPT !.handlers = l.handlers + 1]
           ctx == Open("try", Wanted(last), here(b), 0)
<1>2. LowOK(b) /\ LowBase(b) /\ Wanted(last) \in Wants BY BeginsOK DEF Stmt_TryCatch
<1>3. low' = Opened(m, ctx, "Value", FALSE) BY <1>1
<1> HIDE DEF b
<1>4. Eff(b, l) /\ LowBase(l) BY <1>2, EffSelf, Emit1, Opcodes DEF Eff
<1> HIDE DEF l
<1>5. Eff(l, m)
  <2>1. l.handlers + 1 \in Int /\ 0 \in Nat BY <1>4 DEF LowBase
  <2> QED BY <2>1, <1>4, NumbersEff
<1> HIDE DEF m
<1>6. Eff(b, m) BY <1>4, <1>5, EffTrans
<1>7. ctx \in Opens /\ ctx.kind \notin Repeated /\ "Value" \in Wants
  BY <1>2, HereNat, OpenType DEF StmtKinds, Repeated, Wants
<1> HIDE DEF ctx
<1> QED BY <1>2, <1>3, <1>6, <1>7, OpenPlain

LEMMA StmtOperandOK ==
  ASSUME LowOK(low), Stmt_Operand
  PROVE  LowOK(low')
<1>1. PICK last \in Lasts :
       low' = Opened(emit(Begun(last), I("Push")), Open("operand", Wanted(last), 0, 0), "Value", FALSE)
  BY DEF Stmt_Operand, Lower
<1> DEFINE b == Begun(last)
           ctx == Open("operand", Wanted(last), 0, 0)
<1>2. LowOK(b) /\ LowBase(b) /\ Wanted(last) \in Wants BY BeginsOK DEF Stmt_Operand
<1> HIDE DEF b
<1>3. Eff(b, emit(b, I("Push"))) BY <1>2, EffSelf, Emit1, Opcodes
<1>4. ctx \in Opens /\ ctx.kind \notin Repeated /\ "Value" \in Wants
  BY <1>2, OpenType DEF StmtKinds, Repeated, Wants
<1> HIDE DEF ctx
<1> QED BY <1>1, <1>2, <1>3, <1>4, OpenPlain DEF b, ctx

-----------------------------------------------------------------------------
LEMMA OwnerType ==
  ASSUME LowOK(low), NEW kind \in StmtKinds, Closing(kind)
  PROVE  Owner.top \in Nat /\ Owner.wants \in Wants /\ LowBase(Closed)
  BY ClosedOK DEF Opens

LEMMA EndIfOK ==
  ASSUME LowOK(low), end_if
  PROVE  LowOK(low')
<1> DEFINE b == Closed
           m == patch_here(emit(b, I("Jump")), {Owner.site})
           n == patch_here(emit(m, I("Unit")), {here(b)})
<1>1. LowOK(b) /\ LowBase(b) BY ClosedPlain DEF end_if, StmtKinds, Repeated, LowOK
<1>2. low' = patch_here(b, {Owner.site}) \/ low' = n BY DEF end_if, Lower
<1> HIDE DEF b
<1>3. Eff(b, patch_here(b, {Owner.site})) BY <1>1, EffSelf, PatchAll
<1>4. Eff(b, m) BY <1>1, EffSelf, Emit1, Opcodes, PatchAll
<1> HIDE DEF m
<1>5. Eff(b, n) BY <1>4, Emit1, Opcodes, PatchAll
<1> HIDE DEF n
<1> QED BY <1>1, <1>2, <1>3, <1>5, EffOK

LEMMA BeginElseOK ==
  ASSUME LowOK(low), begin_else
  PROVE  LowOK(low')
<1> DEFINE b == Closed
           m == patch_here(emit(b, I("Jump")), {Owner.site})
           ctx == Open("else", Owner.wants, here(b), 0)
<1>1. LowOK(b) /\ LowBase(b) /\ Owner.wants \in Wants
  BY ClosedPlain, OwnerType DEF begin_else, StmtKinds, Repeated, LowOK
<1>2. low' = Opened(m, ctx, Owner.wants, TRUE) BY DEF begin_else, Lower
<1> HIDE DEF b
<1>3. Eff(b, m) BY <1>1, EffSelf, Emit1, Opcodes, PatchAll
<1>4. ctx \in Opens /\ ctx.kind \notin Repeated BY <1>1, HereNat, OpenType DEF StmtKinds, Repeated
<1> HIDE DEF m, ctx
<1> QED BY <1>1, <1>2, <1>3, <1>4, OpenPlain

LEMMA EndPlainOK ==
  ASSUME LowOK(low), end_block \/ end_else \/ end_operand
  PROVE  LowOK(low')
<1>1. CASE end_block BY <1>1, ClosedPlain DEF end_block, Lower, StmtKinds, Repeated
<1>2. CASE end_else
  <2>1. LowOK(Closed) /\ low' = patch_here(Closed, {Owner.site})
    BY <1>2, ClosedPlain DEF end_else, Lower, StmtKinds, Repeated
  <2> QED BY <2>1, PatchHereEff, EffOK DEF LowOK
<1>3. CASE end_operand
  <2> DEFINE b == Closed
  <2>1. LowOK(b) /\ LowBase(b) /\ low' = Lowered(emit(b, I("BinOp")), Owner.wants)
    BY <1>3, ClosedPlain DEF end_operand, Lower, StmtKinds, Repeated, LowOK
  <2> HIDE DEF b
  <2>2. Eff(b, Lowered(emit(b, I("BinOp")), Owner.wants)) BY <2>1, EffSelf, Emit1, Opcodes, LowerAll
  <2> QED BY <2>1, <2>2, EffOK
<1> QED BY <1>1, <1>2, <1>3

LEMMA LoopValueEff ==
  ASSUME NEW l, NEW b, Eff(b, l), NEW breaks
  PROVE  Eff(b, LoopValue(l, breaks))
<1> DEFINE m == emit(l, I("Unit"))
<1>1. Eff(b, m) BY Emit1, Opcodes
<1>2. LoopValue(l, breaks) = patch_here(emit(m, I("Jump")), breaks \cup {here(m)}) BY DEF LoopValue
<1> HIDE DEF m
<1> QED BY <1>1, <1>2, Emit1, Opcodes, PatchAll

LEMMA EndLoopsOK ==
  ASSUME LowOK(low), end_while_true \/ end_while \/ end_do
  PROVE  LowOK(low')
<1> DEFINE b == Closed
           breaks == LastOf(low.loops).breaks
           continues == LastOf(low.loops).continues
<1>1. CASE end_while_true
  <2> DEFINE m == emit(b, Instruction("Jump", Owner.top))
             l == end_loop(m)
  <2>1. low' = Lowered(LoopValue(l, breaks), Owner.wants) BY <1>1 DEF end_while_true, Lower
  <2>2. LowBase(b) /\ Owner.top \in Nat BY <1>1, OwnerType DEF end_while_true, StmtKinds
  <2>3. Eff(b, m) BY <2>2, EffSelf, EmitI, Opcodes
  <2> HIDE DEF m
  <2>4. LowOK(l) BY <1>1, <2>3, EndLoop DEF end_while_true, StmtKinds, Repeated
  <2> HIDE DEF b, l, breaks
  <2>5. Eff(l, Lowered(LoopValue(l, breaks), Owner.wants))
    BY <2>4, EffSelf, LoopValueEff, LowerAll DEF LowOK
  <2> QED BY <2>1, <2>4, <2>5, EffOK
<1>2. CASE end_do
  <2> DEFINE e == end_loop(b)
             l == emit(e, I("Push"))
             until == emit(l, Instruction("JumpIfFalse", Owner.top))
             while == patch_here(emit(l, I("JumpIfFalse") \o Instruction("Jump", Owner.top)), {here(l)})
  <2>1. PICK m \in {until, while} : low' = Lowered(LoopValue(m, breaks), Owner.wants)
    BY <1>2 DEF end_do, Lower
  <2>2. LowBase(b) /\ Owner.top \in Nat BY <1>2, OwnerType DEF end_do, StmtKinds
  <2>3. LowOK(e) BY <1>2, <2>2, EffSelf, EndLoop DEF end_do, StmtKinds, Repeated
  <2> HIDE DEF b, e, breaks
  <2>4. Eff(e, l) BY <2>3, EffSelf, Emit1, Opcodes DEF LowOK
  <2> HIDE DEF l
  <2>5. Eff(e, until) BY <2>2, <2>4, EmitI, Opcodes
  <2>6. CodeOK(I("JumpIfFalse") \o Instruction("Jump", Owner.top))
    BY <2>2, IOK, InstructionOK, Opcodes, ConcatOK
  <2>7. Eff(e, while) BY <2>4, <2>6, EmitCode, PatchAll
  <2> HIDE DEF until, while
  <2>8. Eff(e, Lowered(LoopValue(m, breaks), Owner.wants)) BY <2>5, <2>7, LoopValueEff, LowerAll
  <2> QED BY <2>1, <2>3, <2>8, EffOK
<1>3. CASE end_while
  <2> DEFINE test == here(b)
             c == I("Push") \o Instruction("JumpIfTrue", Owner.top)
             l == emit(patch_to(b, {Owner.site}, test), c)
             e == end_loop(l)
             m == patch_to(e, continues, test)
  <2>1. low' = Lowered(LoopValue(m, breaks), Owner.wants) BY <1>3 DEF end_while, Lower
  <2>2. LowBase(b) /\ Owner.top \in Nat BY <1>3, OwnerType DEF end_while, StmtKinds
  <2>3. test \in Nat BY <2>2, HereNat
  <2>4. CodeOK(c) BY <2>2, IOK, InstructionOK, Opcodes, ConcatOK
  <2> HIDE DEF test, c
  <2>5. Eff(b, l) BY <2>2, <2>3, <2>4, EffSelf, PatchAll, EmitCode
  <2> HIDE DEF l
  <2>6. LowOK(e) BY <1>3, <2>5, EndLoop DEF end_while, StmtKinds, Repeated
  <2> HIDE DEF b, e, breaks, continues
  <2>7. Eff(e, m) BY <2>3, <2>6, EffSelf, PatchAll DEF LowOK
  <2> HIDE DEF m
  <2>8. Eff(e, Lowered(LoopValue(m, breaks), Owner.wants)) BY <2>7, LoopValueEff, LowerAll
  <2> QED BY <2>1, <2>6, <2>8, EffOK
<1> QED BY <1>1, <1>2, <1>3

LEMMA EndForOK ==
  ASSUME LowOK(low), end_for
  PROVE  LowOK(low')
<1> DEFINE b == Closed
           active == LastOf(low.loops)
           m == emit(b, Instruction("Jump", Owner.top))
           l == end_loop(m)
           n == patch_here(patch_to(l, active.continues, Owner.top), active.breaks \cup {Owner.site})
           x == [n EXCEPT !.iters = n.iters - 1, !.slots = active.break_depth]
<1>1. low' = Lowered(x, Owner.wants) BY DEF end_for, Lower
<1>2. LowBase(b) /\ Owner.top \in Nat BY OwnerType DEF end_for, StmtKinds
<1>3. Eff(b, m) BY <1>2, EffSelf, EmitI, Opcodes
<1> HIDE DEF m
<1>4. LowOK(l) /\ active.break_depth \in Nat BY <1>3, EndLoop DEF end_for, StmtKinds, Repeated, Loops
<1> HIDE DEF b, active, l
<1>5. Eff(l, n) BY <1>2, <1>4, EffSelf, PatchAll DEF LowOK
<1> HIDE DEF n
<1>6. Eff(n, x)
  <2>1. LowBase(n) /\ n.iters - 1 \in Int BY <1>5 DEF Eff, LowBase
  <2> QED BY <2>1, <1>4, NumbersEff
<1> HIDE DEF x
<1>7. Eff(l, Lowered(x, Owner.wants)) BY <1>5, <1>6, EffTrans, LowerAll
<1> QED BY <1>1, <1>4, <1>7, EffOK

LEMMA BeginCatchOK ==
  ASSUME LowOK(low), begin_catch
  PROVE  LowOK(low')
<1> DEFINE b == Closed
           l == emit(b, I("PopHandler"))
           m == patch_here(emit(l, I("Jump")), {Owner.site})
           x == [m EXCEPT !.slots = m.slots + 1]
           ctx == Open("catch", Owner.wants, here(l), m.slots)
<1>1. low' = Opened(x, ctx, "Value", FALSE) BY DEF begin_catch, Lower
<1>2. LowOK(b) /\ LowBase(b) /\ Owner.wants \in Wants
  BY ClosedPlain, OwnerType DEF begin_catch, StmtKinds, Repeated, LowOK
<1> HIDE DEF b
<1>3. Eff(b, l) BY <1>2, EffSelf, Emit1, Opcodes
<1> HIDE DEF l
<1>4. Eff(b, m) BY <1>3, Emit1, Opcodes, PatchAll
<1> HIDE DEF m
<1>5. m.slots \in Nat /\ m.slots + 1 \in Nat /\ LowBase(m) /\ here(l) \in Int
  BY <1>3, <1>4, HereNat, SMTT(30) DEF Eff, LowBase
<1>6. Eff(b, x) BY <1>4, <1>5, SlotsEff, EffTrans
<1> HIDE DEF x
<1>7. ctx \in Opens /\ ctx.kind \notin Repeated /\ "Value" \in Wants
  <2>1. ctx \in Opens /\ ctx.kind = "catch" BY <1>2, <1>5, OpenType DEF StmtKinds
  <2> QED BY <2>1 DEF Repeated, Wants
<1> HIDE DEF ctx
<1> QED BY <1>1, <1>2, <1>6, <1>7, OpenPlain

LEMMA EndCatchOK ==
  ASSUME LowOK(low), end_catch
  PROVE  LowOK(low')
<1> DEFINE b == Closed
           l == emit(b, I("Pop"))
           u == unwind_to(l, Owner.top)
           c == I("PopHandler") \o I("Unit")
           m == emit(u, c)
           x == [m EXCEPT !.handlers = m.handlers - 1]
           n == patch_here(x, {Owner.site})
<1>1. low' = Lowered(n, Owner.wants) BY DEF end_catch, Lower
<1>2. LowOK(b) /\ LowBase(b) /\ Owner.top \in Nat
  BY ClosedPlain, OwnerType DEF end_catch, StmtKinds, Repeated, LowOK
<1>3. CodeOK(c) BY IOK, Opcodes, ConcatOK
<1> HIDE DEF b, c
<1>4. Eff(b, l) /\ LowBase(l) BY <1>2, EffSelf, Emit1, Opcodes DEF Eff
<1> HIDE DEF l
<1>5. Eff(b, u) BY <1>2, <1>4, UnwindEff, EffTrans
<1> HIDE DEF u
<1>6. Eff(b, m) /\ LowBase(m) BY <1>3, <1>5, EmitCode DEF Eff
<1> HIDE DEF m
<1>7. Eff(b, x)
  <2>1. m.handlers - 1 \in Int /\ 0 \in Nat BY <1>6 DEF LowBase
  <2>2. Eff(m, x) BY <2>1, <1>6, NumbersEff
  <2> QED BY <2>2, <1>6, EffTrans
<1> HIDE DEF x
<1>8. Eff(b, n) BY <1>7, PatchAll
<1> HIDE DEF n
<1> QED BY <1>1, <1>2, <1>8, LowerAll, EffOK

LEMMA LoweringOK ==
  ASSUME LowOK(low), lower_statement \/ resume_statement
  PROVE  LowOK(low')
<1>1. CASE lower_statement
  BY <1>1, StmtVarOK, StmtExprOK, StmtReturnOK, StmtBreakOK, StmtContinueOK, StmtBlockOK, IfOK,
     StmtLoopOK, StmtWhileOK, StmtForOK, StmtTryOK, StmtOperandOK, Opcodes DEF lower_statement
<1>2. CASE resume_statement
  BY <1>2, EndPlainOK, EndIfOK, BeginElseOK, EndLoopsOK, EndForOK, BeginCatchOK, EndCatchOK
     DEF resume_statement
<1> QED BY <1>1, <1>2

LEMMA ProgramOK ==
  ASSUME LowOK(low), program
  PROVE  CodeOK(code')
<1> DEFINE c == (IF Top.some THEN <<>> ELSE I("Unit")) \o I("Return")
<1>1. CodeOK(c) BY EmptyCode, IOK, Opcodes, ConcatOK
<1>2. code' = emit(low, c).code BY DEF program
<1> HIDE DEF c
<1> QED BY <1>1, <1>2, EmitEff DEF Eff, LowBase, LowOK

-----------------------------------------------------------------------------
(* The verifier. *)

LEMMA StateTypes ==
  ASSUME NEW s \in States, NEW op \in Ops, ~Underflows(op, s)
  PROVE  /\ After(op, s) \in States /\ AtNext(op, s) \in States /\ AtTarget(op, s) \in States
         /\ \A h \in Nat : /\ Larger(h, Larger(After(op, s).operands, s.operands + opcode_temps(op))) \in Nat
                           /\ h <= Larger(h, Larger(After(op, s).operands, s.operands + opcode_temps(op)))
                           /\ s.operands <= Larger(h, Larger(After(op, s).operands, s.operands + opcode_temps(op)))
<1>1. s.operands \in Nat /\ s.iters \in Nat /\ s.handlers \in Nat BY DEF States
<1>2. /\ requires(op) \in 0..2 /\ pops(op) \in 0..requires(op) /\ pushes(op) \in 0..2
      /\ opcode_temps(op) \in 0..1
  BY DEF requires, pops, pushes, opcode_temps
<1>3. s.operands >= requires(op) BY <1>1, <1>2 DEF Underflows
<1>4. After(op, s) \in States
  <2>1. s.operands - pops(op) + pushes(op) \in Nat BY <1>1, <1>2, <1>3
  <2>2. op = "IterDrop" => s.iters - 1 \in Nat BY <1>1 DEF Underflows
  <2>3. op = "PopHandler" => s.handlers - 1 \in Nat BY <1>1 DEF Underflows
  <2> DEFINE k == CASE op = "IterInit" -> s.iters + 1 [] op = "IterDrop" -> s.iters - 1
                    [] OTHER -> s.iters
             n == CASE op = "PushHandler" -> s.handlers + 1 [] op = "PopHandler" -> s.handlers - 1
                    [] OTHER -> s.handlers
  <2>4. k \in Nat BY <2>2, <1>1
  <2>5. n \in Nat BY <2>3, <1>1
  <2>6. After(op, s) = [operands |-> s.operands - pops(op) + pushes(op), iters |-> k, handlers |-> n]
    BY DEF After
  <2> HIDE DEF k, n
  <2> QED BY <2>1, <2>4, <2>5, <2>6 DEF States
<1>5. op \in Advances => Exhausted(s) \in States
  <2>1. op \in Advances => s.operands - 2 \in Nat /\ s.iters - 1 \in Nat BY <1>1 DEF Underflows
  <2> QED BY <2>1 DEF Exhausted, States
<1>6. [s EXCEPT !.operands = @ + 1] \in States BY <1>1 DEF States
<1>7. After(op, s).operands \in Nat /\ s.operands + opcode_temps(op) \in Nat
      /\ s.operands <= s.operands + opcode_temps(op)
  BY <1>1, <1>2, <1>4 DEF States
<1> DEFINE a == After(op, s).operands
           b == s.operands + opcode_temps(op)
<1>8. \A h \in Nat : /\ Larger(h, Larger(a, b)) \in Nat
                     /\ h <= Larger(h, Larger(a, b))
                     /\ s.operands <= Larger(h, Larger(a, b))
  <2> HIDE DEF a, b
  <2>1. a \in Nat /\ b \in Nat /\ s.operands \in Nat /\ s.operands <= b BY <1>1, <1>7 DEF a, b
  <2> QED BY <2>1 DEF Larger
<1> QED BY <1>4, <1>5, <1>6, <1>8 DEF AtNext, AtTarget

LEMMA StartFacts ==
  ASSUME CodeOK(code), NEW a, IsStart(a)
  PROVE  /\ a \in 1..Len(code) /\ a \in Nat \ {0} /\ Len(code) \in Nat
         /\ code[a].op \in Ops
         /\ width(code[a].op) \in 1..2
         /\ a + width(code[a].op) \in Nat \ {0}
         /\ a + width(code[a].op) <= Len(code) => IsStart(a + width(code[a].op))
<1>1. code \in Seq(Cells) /\ a \in 1..Len(code) /\ code[a].op # "operand" /\ Len(code) \in Nat
  BY DEF CodeOK, IsStart
<1>2. width(code[a].op) \in 1..2 /\ code[a].op \in Ops BY <1>1, CellType
<1> DEFINE w == width(code[a].op)
<1>3. w \in 1..2 /\ (a + w <= Len(code) => code[a + w].op # "operand")
  BY <1>1, <1>2 DEF CodeOK, WellFormed
<1> HIDE DEF w
<1>4. a + w \in Nat \ {0} /\ (a + w <= Len(code) => a + w \in 1..Len(code)) BY <1>1, <1>3
<1> QED BY <1>1, <1>2, <1>3, <1>4 DEF IsStart, w

\* Without handlers and iterators there are none behind an instruction, either.
LEMMA BareStates ==
  ASSUME Bare, CodeOK(code), NEW a, IsStart(a), NEW s \in States, ~Underflows(code[a].op, s),
         s.iters = 0, s.handlers = 0
  PROVE  /\ AtNext(code[a].op, s).iters = 0 /\ AtNext(code[a].op, s).handlers = 0
         /\ AtTarget(code[a].op, s).iters = 0 /\ AtTarget(code[a].op, s).handlers = 0
         /\ code[a].op \notin Advances \cup {"IterDrop", "IterInit", "PushHandler", "PopHandler"}
<1>1. a \in 1..Len(code) BY DEF IsStart
<1>2. code[a].op \notin {"PushHandler", "IterInit"} BY <1>1 DEF Bare, Contains
<1>3. code[a].op \notin Advances \cup {"IterDrop", "PopHandler"} BY DEF Underflows
<1>4. code[a].op # "IterNext" BY <1>3 DEF Advances
<1> QED BY <1>2, <1>3, <1>4 DEF AtNext, AtTarget, After, Advances

\* The first edge, in whatever code there is then.
LEMMA WalkBegins ==
  ASSUME CodeOK(code)', NotWalked'
  PROVE  WalkOK'
<1>1. label' = <<>> /\ work' = <<Edge(1, Zero)>> /\ high_water' = 0 BY DEF NotWalked
<1>2. Zero \in States BY DEF Zero, States
<1>3. /\ work' \in Seq([at : Nat, state : States]) /\ Len(work') = 1 /\ work'[1] = Edge(1, Zero)
      /\ work'[1].at = 1 /\ work'[1].state = Zero
  BY <1>1, <1>2 DEF Edge
<1>4. DOMAIN label' = {} BY <1>1
<1>5. 1 <= Len(code') => IsStart(1)' BY DEF CodeOK, WellFormed, IsStart
<1>6. EdgeOK(work[1])' BY <1>2, <1>3, <1>5 DEF EdgeOK
<1>7. Pending(Edge(1, Zero))' BY <1>3 DEF Pending
<1>8. Taken(Edge(1, Zero))' BY <1>7 DEF Taken
<1>9. \A i \in 1..Len(work') : i = 1 BY <1>3
<1>10. \A i \in 1..Len(work') : EdgeOK(work[i])' BY <1>6, <1>9
<1>11. \A i \in 1..Len(work') : work'[i].state.iters = 0 /\ work'[i].state.handlers = 0
  BY <1>3, <1>9 DEF Zero
<1> QED BY <1>1, <1>3, <1>4, <1>8, <1>10, <1>11 DEF WalkOK

LEMMA ElementOf ==
  ASSUME NEW S, NEW s \in Seq(S), NEW i \in 1..Len(s)
  PROVE  s[i] \in S
  OBVIOUS

LEMMA ConcatFacts ==
  ASSUME NEW S, NEW a \in Seq(S), NEW b \in Seq(S)
  PROVE  /\ a \o b \in Seq(S) /\ Len(a) \in Nat /\ Len(b) \in Nat
         /\ Len(a \o b) = Len(a) + Len(b)
         /\ \A i \in 1..Len(a) : (a \o b)[i] = a[i]
         /\ \A i \in (Len(a) + 1)..(Len(a) + Len(b)) : (a \o b)[i] = b[i - Len(a)]
  OBVIOUS

LEMMA TopOfWork ==
  ASSUME WalkOK, work # <<>>
  PROVE  /\ Len(work) \in Nat \ {0} /\ Top_of_work = work[Len(work)]
         /\ EdgeOK(Top_of_work) /\ Top_of_work = Edge(Top_of_work.at, Top_of_work.state)
         /\ Top_of_work.state \in States /\ Top_of_work.at \in Nat \ {0}
         /\ Rest_of_work \in Seq([at : Nat, state : States])
         /\ Len(Rest_of_work) = Len(work) - 1
         /\ \A i \in 1..(Len(work) - 1) : Rest_of_work[i] = work[i]
         /\ Bare => Top_of_work.state.iters = 0 /\ Top_of_work.state.handlers = 0
<1>1. work \in Seq([at : Nat, state : States]) /\ Len(work) \in Nat \ {0}
      /\ Len(work) \in 1..Len(work) /\ Len(work) - 1 \in Nat /\ Len(work) - 1 <= Len(work)
  BY DEF WalkOK
<1>2. Top_of_work = work[Len(work)] /\ EdgeOK(Top_of_work) /\ Top_of_work \in [at : Nat, state : States]
  <2>1. Top_of_work = work[Len(work)] BY DEF Top_of_work
  <2>2. EdgeOK(work[Len(work)]) BY <1>1 DEF WalkOK
  <2>3. work[Len(work)] \in [at : Nat, state : States] BY <1>1, ElementOf
  <2> QED BY <2>1, <2>2, <2>3
<1>3. Top_of_work = Edge(Top_of_work.at, Top_of_work.state) BY <1>2 DEF Edge
<1>4. Top_of_work.state \in States /\ Top_of_work.at \in Nat \ {0} BY <1>2 DEF EdgeOK
<1>5. /\ Rest_of_work \in Seq([at : Nat, state : States])
      /\ Len(Rest_of_work) = Len(work) - 1
      /\ \A i \in 1..(Len(work) - 1) : Rest_of_work[i] = work[i]
  BY <1>1, FirstN DEF Rest_of_work
<1>6. Bare => Top_of_work.state.iters = 0 /\ Top_of_work.state.handlers = 0 BY <1>1, <1>2 DEF WalkOK
<1> QED BY <1>1, <1>2, <1>3, <1>4, <1>5, <1>6

LEMMA EdgesOf ==
  ASSUME NEW a, NEW s
  PROVE  LET es == Edges(a, s)
             n  == Edge(a + width(code[a].op), AtNext(code[a].op, s))
             t  == Edge(code[a].arg, AtTarget(code[a].op, s))
         IN /\ \A S : (code[a].op \notin Ends => n \in S) /\ (code[a].op \in Targeted => t \in S)
                        => es \in Seq(S)
            /\ Len(es) \in Nat
            /\ \A i \in 1..Len(es) : \/ code[a].op \notin Ends /\ es[i] = n
                                     \/ code[a].op \in Targeted /\ es[i] = t
            /\ code[a].op \notin Ends => \E i \in 1..Len(es) : es[i] = n
            /\ code[a].op \in Targeted => \E i \in 1..Len(es) : es[i] = t
<1> DEFINE es == Edges(a, s)
           n  == Edge(a + width(code[a].op), AtNext(code[a].op, s))
           t  == Edge(code[a].arg, AtTarget(code[a].op, s))
<1>1. es = (IF code[a].op \in Targeted THEN <<t>> ELSE <<>>) \o (IF code[a].op \in Ends THEN <<>> ELSE <<n>>)
  BY DEF Edges, Ends
<1> HIDE DEF es, n, t
<1>2. CASE code[a].op \in Targeted /\ code[a].op \notin Ends
  <2> DEFINE x == <<t>>
             y == <<n>>
  <2>0. /\ x \in Seq({t, n}) /\ Len(x) = 1 /\ x[1] = t
        /\ y \in Seq({t, n}) /\ Len(y) = 1 /\ y[1] = n
    OBVIOUS
  <2>1. es = x \o y BY <1>1, <1>2
  <2> HIDE DEF x, y
  <2>2. /\ Len(x \o y) = 2
        /\ \A i \in 1..Len(x) : (x \o y)[i] = x[i]
        /\ \A i \in (Len(x) + 1)..(Len(x) + Len(y)) : (x \o y)[i] = y[i - Len(x)]
    <3> DEFINE S == {t, n}
    <3>1. x \in Seq(S) /\ y \in Seq(S) /\ Len(x) = 1 /\ Len(y) = 1 BY <2>0
    <3> HIDE DEF S
    <3>2. /\ Len(x \o y) = Len(x) + Len(y)
          /\ \A i \in 1..Len(x) : (x \o y)[i] = x[i]
          /\ \A i \in (Len(x) + 1)..(Len(x) + Len(y)) : (x \o y)[i] = y[i - Len(x)]
      BY <3>1, ConcatFacts
    <3>3. Len(x \o y) = 2 BY <3>1, <3>2
    <3> QED BY <3>2, <3>3, Zenon
  <2>3. 1 \in 1..Len(x) /\ 2 \in (Len(x) + 1)..(Len(x) + Len(y)) /\ 2 - Len(x) = 1 BY <2>0
  <2>4. Len(es) = 2 /\ es[1] = t /\ es[2] = n BY <2>0, <2>1, <2>2, <2>3
  <2>5. ASSUME NEW S, t \in S, n \in S
        PROVE  x \o y \in Seq(S)
    <3>1. x \in Seq(S) /\ y \in Seq(S) BY <2>5 DEF x, y
    <3> QED BY <3>1
  <2> QED BY <2>1, <2>4, <2>5, <1>2 DEF es, n, t
<1>3. CASE code[a].op \in Targeted /\ code[a].op \in Ends
  <2>1. es = <<t>> BY <1>1, <1>3
  <2> QED BY <2>1, <1>3 DEF es, n, t
<1>4. CASE code[a].op \notin Targeted /\ code[a].op \notin Ends
  <2>1. es = <<n>> BY <1>1, <1>4
  <2> QED BY <2>1, <1>4 DEF es, n, t
<1>5. CASE code[a].op \notin Targeted /\ code[a].op \in Ends
  <2>1. es = <<>> BY <1>1, <1>5
  <2> QED BY <2>1, <1>5 DEF es, n, t
<1> QED BY <1>2, <1>3, <1>4, <1>5

\* Taken, after a step.
TakenThen(x) ==
  \/ x.at \in DOMAIN label' /\ label'[x.at] = x.state
  \/ \E i \in 1..Len(work') : work'[i] = x

\* One turn of the walk: what was taken or pending stays so, and what is labelled stays right.
LEMMA VisitOK ==
  ASSUME CodeOK(code), WalkOK, visit
  PROVE  WalkOK'
<1> DEFINE e == Top_of_work
           es == Edges(e.at, e.state)
           op == code[e.at].op
<1>1. /\ work # <<>> /\ ~Refused(e) /\ e.at \notin DOMAIN label
      /\ label' = [a \in DOMAIN label \cup {e.at} |-> IF a = e.at THEN e.state ELSE label[a]]
      /\ work' = Rest_of_work \o es
      /\ high_water' = HighWater(op, e.state)
      /\ code' = code
  BY DEF visit, chunk
<1>2. /\ Len(work) \in Nat \ {0} /\ e = work[Len(work)]
      /\ e.state \in States /\ e.at \in Nat \ {0} /\ EdgeOK(e) /\ e = Edge(e.at, e.state)
      /\ Rest_of_work \in Seq([at : Nat, state : States])
      /\ Len(Rest_of_work) = Len(work) - 1
      /\ \A i \in 1..(Len(work) - 1) : Rest_of_work[i] = work[i]
      /\ Bare => e.state.iters = 0 /\ e.state.handlers = 0
  BY <1>1, TopOfWork
<1>3. Len(code) \in Nat /\ e.at <= Len(code) BY <1>1, <1>2 DEF Refused, CodeOK
<1>4. IsStart(e.at) /\ ~Underflows(op, e.state) /\ ~BadTarget(e.at)
  <2>1. IsStart(e.at) BY <1>2, <1>3 DEF EdgeOK
  <2>2. e.at \in 1..Len(code) BY <2>1 DEF IsStart
  <2> QED BY <1>1, <2>1, <2>2 DEF Refused, NotRunnable
<1>5. /\ op \in Ops /\ e.at + width(op) \in Nat \ {0}
      /\ e.at + width(op) <= Len(code) => IsStart(e.at + width(op))
  BY <1>4, StartFacts
<1>6. AtNext(op, e.state) \in States /\ AtTarget(op, e.state) \in States BY <1>2, <1>4, <1>5, StateTypes
<1>7. high_water' \in Nat /\ high_water <= high_water' /\ e.state.operands <= high_water'
  <2>1. high_water \in Nat BY DEF WalkOK
  <2> QED BY <2>1, <1>1, <1>2, <1>4, <1>5, StateTypes DEF HighWater
<1> DEFINE n == Edge(e.at + width(op), AtNext(op, e.state))
           t == Edge(code[e.at].arg, AtTarget(op, e.state))
           S == [at : Nat, state : States]
<1>8. op \in Targeted => IsStart(code[e.at].arg) /\ code[e.at].arg \in Nat \ {0}
  <2>1. op \in Targeted => IsStart(code[e.at].arg) BY <1>4 DEF BadTarget
  <2> QED BY <2>1, <1>3 DEF IsStart
<1>9. /\ n \in S /\ n.at = e.at + width(op) /\ n.state = AtNext(op, e.state)
      /\ t.at = code[e.at].arg /\ t.state = AtTarget(op, e.state)
      /\ op \in Targeted => t \in S
  BY <1>5, <1>6, <1>8 DEF Edge
<1>10. /\ es \in Seq(S) /\ Len(es) \in Nat
       /\ \A i \in 1..Len(es) : (op \notin Ends /\ es[i] = n) \/ (op \in Targeted /\ es[i] = t)
       /\ op \notin Ends => \E i \in 1..Len(es) : es[i] = n
       /\ op \in Targeted => \E i \in 1..Len(es) : es[i] = t
  BY <1>9, EdgesOf
<1> HIDE DEF e, es, op, n, t, S
<1>11. /\ work' \in Seq(S) /\ Len(work') = Len(work) - 1 + Len(es)
       /\ \A i \in 1..(Len(work) - 1) : work'[i] = work[i]
       /\ \A i \in Len(work)..(Len(work) - 1 + Len(es)) : work'[i] = es[i - (Len(work) - 1)]
  <2> DEFINE r == Rest_of_work
  <2>1. r \in Seq(S) /\ es \in Seq(S) /\ Len(r) = Len(work) - 1 /\ Len(work) - 1 \in Nat
    BY <1>2, <1>10 DEF S
  <2>2. \A i \in 1..(Len(work) - 1) : r[i] = work[i] BY <1>2
  <2>0. work' = r \o es BY <1>1
  <2> HIDE DEF r
  <2>3. /\ r \o es \in Seq(S)
        /\ Len(r \o es) = Len(r) + Len(es)
        /\ \A i \in 1..Len(r) : (r \o es)[i] = r[i]
        /\ \A i \in (Len(r) + 1)..(Len(r) + Len(es)) : (r \o es)[i] = es[i - Len(r)]
    BY <2>1, ConcatFacts
  <2> QED BY <2>0, <2>1, <2>2, <2>3, <1>2, <1>10, SMTT(30)
<1>12. ASSUME NEW i \in 1..Len(work')
       PROVE  \/ i \in 1..(Len(work) - 1) /\ work'[i] = work[i]
              \/ op \notin Ends /\ work'[i] = n
              \/ op \in Targeted /\ work'[i] = t
  <2>1. CASE i <= Len(work) - 1
    <3>1. i \in 1..(Len(work) - 1) BY <2>1, <1>2
    <3> QED BY <3>1, <1>11
  <2>2. CASE i > Len(work) - 1
    <3> DEFINE j == i - (Len(work) - 1)
    <3>1. i \in Len(work)..(Len(work) - 1 + Len(es)) /\ j \in 1..Len(es) BY <2>2, <1>2, <1>10, <1>11
    <3>2. work'[i] = es[j] BY <3>1, <1>11
    <3> HIDE DEF j
    <3> QED BY <3>1, <3>2, <1>10
  <2> QED BY <2>1, <2>2, <1>2, <1>10, <1>11
<1>13. ASSUME NEW x, \E i \in 1..Len(es) : es[i] = x
       PROVE  TakenThen(x)
  <2>1. PICK i \in 1..Len(es) : es[i] = x BY <1>13
  <2> DEFINE j == i + (Len(work) - 1)
  <2>2. j \in Len(work)..(Len(work) - 1 + Len(es)) /\ j - (Len(work) - 1) = i /\ j \in 1..Len(work')
    BY <1>2, <1>10, <1>11
  <2>3. work'[j] = x BY <2>1, <2>2, <1>11
  <2> QED BY <2>2, <2>3 DEF TakenThen
<1>14. ASSUME NEW x, Taken(x)
       PROVE  TakenThen(x)
  <2>1. CASE x.at \in DOMAIN label /\ label[x.at] = x.state BY <2>1, <1>1 DEF TakenThen, e
  <2>2. CASE Pending(x)
    <3>1. PICK i \in 1..Len(work) : work[i] = x BY <2>2 DEF Pending
    <3>2. CASE i = Len(work)
      <4>1. x = e BY <3>1, <3>2, <1>2
      <4> QED BY <4>1, <1>1 DEF TakenThen, e
    <3>3. CASE i # Len(work)
      <4>1. i \in 1..(Len(work) - 1) /\ i \in 1..Len(work') BY <3>3, <1>2, <1>10, <1>11
      <4> QED BY <4>1, <3>1, <1>11 DEF TakenThen
    <3> QED BY <3>2, <3>3
  <2> QED BY <1>14, <2>1, <2>2 DEF Taken
<1>15. DOMAIN label' = DOMAIN label \cup {e.at} /\ label'[e.at] = e.state
       /\ \A a \in DOMAIN label : a # e.at /\ label'[a] = label[a]
  BY <1>1 DEF e
<1>16. ASSUME NEW a \in DOMAIN label'
       PROVE  LabelOK(a)'
  <2>1. CASE a = e.at
    <3>1. code'[a].op = op /\ label'[a] = e.state /\ code' = code BY <2>1, <1>1, <1>15 DEF op
    <3>2. NextOf(a)' = n /\ TargetOf(a)' = t BY <2>1, <3>1 DEF NextOf, TargetOf, n, t, Edge
    <3>3. op \notin Ends => TakenThen(n) BY <1>10, <1>13
    <3>4. op \in Targeted => TakenThen(t) BY <1>10, <1>13
    <3>5. IsStart(a)' /\ ~BadTarget(a)' BY <2>1, <1>1, <1>4 DEF IsStart, BadTarget, op
    <3>6. code'[a].op \notin Ends => Taken(NextOf(a))' BY <3>1, <3>2, <3>3 DEF Taken, Pending, TakenThen
    <3>7. code'[a].op \in Targeted => Taken(TargetOf(a))'
      BY <3>1, <3>2, <3>4 DEF Taken, Pending, TakenThen
    <3> QED BY <3>1, <3>5, <3>6, <3>7, <1>2, <1>4, <1>7 DEF LabelOK
  <2>2. CASE a # e.at
    <3>1. a \in DOMAIN label /\ label'[a] = label[a] /\ LabelOK(a) /\ code' = code
      BY <2>2, <1>1, <1>15 DEF WalkOK
    <3>2. NextOf(a)' = NextOf(a) /\ TargetOf(a)' = TargetOf(a) BY <3>1 DEF NextOf, TargetOf
    <3>3. code[a].op \notin Ends => Taken(NextOf(a))'
      <4>1. code[a].op \notin Ends => TakenThen(NextOf(a)) BY <3>1, <1>14 DEF LabelOK
      <4> QED BY <4>1, <3>2 DEF Taken, Pending, TakenThen
    <3>4. code[a].op \in Targeted => Taken(TargetOf(a))'
      <4>1. code[a].op \in Targeted => TakenThen(TargetOf(a)) BY <3>1, <1>14 DEF LabelOK
      <4> QED BY <4>1, <3>2 DEF Taken, Pending, TakenThen
    <3>5. label[a].operands \in Nat /\ high_water \in Nat BY <3>1 DEF LabelOK, States, WalkOK
    <3>6. label[a].operands <= high_water' BY <3>1, <3>5, <1>7 DEF LabelOK
    <3>7. IsStart(a)' /\ ~BadTarget(a)' BY <3>1 DEF LabelOK, IsStart, BadTarget
    <3> QED BY <3>1, <3>3, <3>4, <3>6, <3>7 DEF LabelOK
  <2> QED BY <2>1, <2>2
<1>17. ASSUME NEW i \in 1..Len(work')
       PROVE  EdgeOK(work[i])'
  <2>1. op \notin Ends => EdgeOK(n) BY <1>5, <1>6, <1>9 DEF EdgeOK
  <2>2. op \in Targeted => EdgeOK(t) BY <1>6, <1>8, <1>9 DEF EdgeOK
  <2>3. EdgeOK(work'[i])
    <3>1. i \in 1..(Len(work) - 1) => EdgeOK(work[i]) BY <1>2 DEF WalkOK
    <3> QED BY <2>1, <2>2, <3>1, <1>12
  <2> QED BY <2>3, <1>1 DEF EdgeOK, IsStart
<1>18. ASSUME Bare
       PROVE  /\ \A a \in DOMAIN label' : label'[a].iters = 0 /\ label'[a].handlers = 0
              /\ \A i \in 1..Len(work') : work'[i].state.iters = 0 /\ work'[i].state.handlers = 0
  <2>1. /\ n.state.iters = 0 /\ n.state.handlers = 0
        /\ t.state.iters = 0 /\ t.state.handlers = 0
    BY <1>2, <1>4, <1>9, <1>18, BareStates, SMTT(30) DEF op
  <2>2. \A a \in DOMAIN label : label[a].iters = 0 /\ label[a].handlers = 0 BY <1>18 DEF WalkOK
  <2>3. \A a \in DOMAIN label' : label'[a].iters = 0 /\ label'[a].handlers = 0
    BY <2>2, <1>2, <1>15, <1>18
  <2>4. \A i \in 1..(Len(work) - 1) : work[i].state.iters = 0 /\ work[i].state.handlers = 0
    BY <1>2, <1>18 DEF WalkOK
  <2> QED BY <2>1, <2>3, <2>4, <1>12
<1>19. Bare' <=> Bare BY <1>1 DEF Bare, Contains
<1>20. Taken(Edge(1, Zero))'
  <2>1. TakenThen(Edge(1, Zero)) BY <1>14 DEF WalkOK
  <2> QED BY <2>1 DEF Taken, Pending, TakenThen, Edge, Zero
<1> QED BY <1>7, <1>11, <1>16, <1>17, <1>18, <1>19, <1>20 DEF WalkOK, S

LEMMA MergeOK ==
  ASSUME CodeOK(code), WalkOK, merge
  PROVE  WalkOK'
<1> DEFINE e == Top_of_work
           S == [at : Nat, state : States]
<1>1. /\ work # <<>> /\ ~Refused(e) /\ e.at \in DOMAIN label
      /\ work' = Rest_of_work /\ label' = label /\ high_water' = high_water /\ code' = code
  BY DEF merge, chunk
<1>2. /\ Len(work) \in Nat \ {0} /\ e = work[Len(work)]
      /\ work' \in Seq(S) /\ Len(work') = Len(work) - 1
      /\ \A i \in 1..(Len(work) - 1) : work'[i] = work[i]
  BY <1>1, TopOfWork
<1>3. label[e.at] = e.state BY <1>1 DEF Refused
<1> HIDE DEF e, S
<1>4. ASSUME NEW x, Taken(x)
      PROVE  TakenThen(x)
  <2>1. CASE x.at \in DOMAIN label /\ label[x.at] = x.state BY <2>1, <1>1 DEF TakenThen
  <2>2. CASE Pending(x)
    <3>1. PICK i \in 1..Len(work) : work[i] = x BY <2>2 DEF Pending
    <3>2. CASE i = Len(work) BY <3>1, <3>2, <1>1, <1>2, <1>3 DEF TakenThen
    <3>3. CASE i # Len(work)
      <4>1. i \in 1..(Len(work) - 1) /\ i \in 1..Len(work') BY <3>3, <1>2
      <4> QED BY <4>1, <3>1, <1>2 DEF TakenThen
    <3> QED BY <3>2, <3>3
  <2> QED BY <1>4, <2>1, <2>2 DEF Taken
<1>5. ASSUME NEW a \in DOMAIN label'
      PROVE  LabelOK(a)'
  <2>1. LabelOK(a) BY <1>1 DEF WalkOK
  <2>2. NextOf(a)' = NextOf(a) /\ TargetOf(a)' = TargetOf(a) BY <1>1 DEF NextOf, TargetOf
  <2>3. /\ code[a].op \notin Ends => TakenThen(NextOf(a))
        /\ code[a].op \in Targeted => TakenThen(TargetOf(a))
    BY <2>1, <1>4 DEF LabelOK
  <2>4. /\ code'[a].op \notin Ends => Taken(NextOf(a))'
        /\ code'[a].op \in Targeted => Taken(TargetOf(a))'
    BY <1>1, <2>2, <2>3 DEF Taken, Pending, TakenThen
  <2> QED BY <1>1, <2>1, <2>4 DEF LabelOK, IsStart, BadTarget
<1>6. ASSUME NEW i \in 1..Len(work')
      PROVE  i \in 1..Len(work) /\ work'[i] = work[i]
  BY <1>2
<1>7. \A i \in 1..Len(work') : EdgeOK(work[i])' BY <1>1, <1>6 DEF WalkOK, EdgeOK, IsStart
<1>8. Taken(Edge(1, Zero))'
  <2>1. TakenThen(Edge(1, Zero)) BY <1>4 DEF WalkOK
  <2> QED BY <2>1 DEF Taken, Pending, TakenThen, Edge, Zero
<1>9. high_water' \in Nat BY <1>1 DEF WalkOK
<1>10. Bare' => /\ \A a \in DOMAIN label' : label'[a].iters = 0 /\ label'[a].handlers = 0
                /\ \A i \in 1..Len(work') : work'[i].state.iters = 0 /\ work'[i].state.handlers = 0
  <2>1. Bare' <=> Bare BY <1>1 DEF Bare, Contains
  <2> QED BY <2>1, <1>1, <1>6 DEF WalkOK
<1> QED BY <1>2, <1>5, <1>7, <1>8, <1>9, <1>10 DEF WalkOK, S

LEMMA WalkSame ==
  ASSUME WalkOK, code' = code, label' = label, work' = work, high_water' = high_water
  PROVE  WalkOK'
<1>1. \A a : LabelOK(a)' <=> LabelOK(a)
  BY DEF LabelOK, IsStart, BadTarget, Taken, Pending, NextOf, TargetOf
<1>2. \A i \in 1..Len(work) : EdgeOK(work[i])' <=> EdgeOK(work[i]) BY DEF EdgeOK, IsStart
<1>3. Taken(Edge(1, Zero))' <=> Taken(Edge(1, Zero)) BY DEF Taken, Pending, Edge, Zero
<1>4. Bare' <=> Bare BY DEF Bare, Contains
<1> QED BY <1>1, <1>2, <1>3, <1>4 DEF WalkOK

\* The machine changes nothing but its own state and the phase.
LEMMA ExecutePhases ==
  ASSUME execute
  PROVE  phase \in {"ready", "run"} /\ phase' \in {"run", "end"} /\ (phase = "ready" => phase' = "run")
<1>1. CASE run_main BY <1>1 DEF run_main
<1>2. CASE run_frame
  <2>1. phase = "run" /\ phase' \in {"run", "end"}
    BY <1>2 DEF run_frame, malformed, PUSH, POP, DECLARE_LOCAL, UNWIND_TO, CHECKPOINT, PUSH_HANDLER,
       POP_HANDLER, ROTATE, ITER_INIT, ITER_DROP, ITER_NEXT, JUMP, JUMP_IF, SKIP_IF_NOT_UNIT, BIN_OP, THROW,
       CALL_native, call_compiled, RETURN, At_op, Done, Raise, transfer, Without
  <2> QED BY <2>1
<1>3. CASE catch BY <1>3 DEF catch
<1>4. CASE catch_unpaid BY <1>4 DEF catch_unpaid, Without
<1>5. CASE leave_with_error BY <1>5 DEF leave_with_error, Without
<1> QED BY <1>1, <1>2, <1>3, <1>4, <1>5 DEF execute

LEMMA PhaseStep ==
  ASSUME PhaseOK, [Next]_vars
  PROVE  PhaseOK'
<1>0. CodeOK(code) /\ WalkOK BY DEF PhaseOK
<1>1. CASE Lowering /\ UNCHANGED <<verifier, machine>>
  <2>1. CASE lower_statement \/ resume_statement
    <3>1. phase = "lower" /\ UNCHANGED <<phase, chunk>>
      BY <2>1 DEF lower_statement, resume_statement, Lower, Stmt_Var, Stmt_Expr, Stmt_Return, Stmt_Break,
         Stmt_Continue, Stmt_Block, if_statement, Stmt_Loop, Stmt_While, Stmt_For, Stmt_TryCatch, Stmt_Operand,
         end_block, end_if, begin_else, end_else, end_while_true, end_while, end_do, end_for, begin_catch,
         end_catch, end_operand, At, Closing
    <3>2. LowOK(low') BY <2>1, <3>1, LoweringOK DEF PhaseOK
    <3>3. UNCHANGED <<phase, origin, code, declared, label, work, high_water, verdict>> /\ UNCHANGED machine
      BY <1>1, <3>1 DEF chunk, verifier
    <3>4. WalkOK' BY <1>0, <3>3, WalkSame
    <3> QED BY <3>2, <3>3, <3>4 DEF PhaseOK, NotWalked, NotRun, machine
  <2>2. CASE program
    <3>1. LowOK(low) /\ phase = "lower" BY <2>2 DEF PhaseOK, program
    <3>2. CodeOK(code)' BY <2>2, <3>1, ProgramOK
    <3>3. NotWalked' /\ NotRun' BY <1>1, <3>1 DEF PhaseOK, NotWalked, NotRun, verifier, machine
    <3>4. WalkOK' BY <3>2, <3>3, WalkBegins
    <3>5. origin' = "compiled" /\ phase' = "verify" BY <2>2, <3>1 DEF program, PhaseOK
    <3> QED BY <3>2, <3>3, <3>4, <3>5 DEF PhaseOK, NotWalked
  <2> QED BY <1>1, <2>1, <2>2 DEF Lowering
<1>2. CASE read_instruction /\ UNCHANGED <<low, verifier, machine>>
  <2>1. PICK op \in ReadOps : \E arg \in IF op \in Targeted THEN 1..(ReadLen + 1) ELSE {0} :
          code' = code \o Instruction(op, arg)
    BY <1>2 DEF read_instruction
  <2>2. PICK arg \in IF op \in Targeted THEN 1..(ReadLen + 1) ELSE {0} : code' = code \o Instruction(op, arg)
    BY <2>1
  <2>3. op \in Ops /\ arg \in Nat BY <2>1, <2>2, GrainAssumption DEF Ops
  <2>4. CodeOK(code)' BY <1>0, <2>2, <2>3, InstructionOK, ConcatOK
  <2>5. NotWalked' /\ NotRun' BY <1>2 DEF PhaseOK, NotWalked, NotRun, verifier, machine, read_instruction
  <2>6. WalkOK' BY <2>4, <2>5, WalkBegins
  <2> QED BY <1>2, <2>4, <2>5, <2>6 DEF PhaseOK, NotWalked, read_instruction
<1>3. CASE read /\ UNCHANGED <<low, verifier, machine>>
  <2>1. declared' \in Nat /\ origin' = origin /\ code' = code /\ phase' = "verify" /\ phase = "read"
    BY <1>3, GrainAssumption DEF read
  <2>2. WalkOK' BY <1>0, <1>3, <2>1, WalkSame DEF verifier
  <2>3. NotWalked' /\ NotRun' BY <1>3, <2>1 DEF PhaseOK, NotWalked, NotRun, verifier, machine
  <2> QED BY <2>1, <2>2, <2>3 DEF PhaseOK, NotWalked
<1>4. CASE verify_chunk /\ UNCHANGED <<low, machine>>
  <2>1. CASE visit \/ merge
    <3>1. WalkOK' BY <2>1, <1>0, VisitOK, MergeOK
    <3>2. phase = "verify" /\ UNCHANGED <<phase, origin, code, declared, verdict>>
      BY <2>1 DEF visit, merge, chunk
    <3>3. NotRun' BY <1>4, <3>2 DEF PhaseOK, NotRun, machine
    <3> QED BY <3>1, <3>2, <3>3 DEF PhaseOK
  <2>2. CASE accept
    <3>1. /\ phase = "verify" /\ work = <<>> /\ high_water <= declared /\ phase' = "ready"
          /\ verdict' = "accepted"
          /\ declared' = IF origin = "compiled" THEN high_water ELSE declared
          /\ UNCHANGED <<origin, code, label, work, high_water>>
      BY <2>2 DEF accept
    <3>2. WalkOK' BY <1>0, <3>1, WalkSame
    <3>3. NotRun' BY <1>4, <3>1 DEF PhaseOK, NotRun, machine
    <3>4. high_water \in Nat BY DEF PhaseOK, WalkOK
    <3>5. declared' \in Nat /\ high_water' <= declared' BY <3>1, <3>4 DEF PhaseOK
    <3> QED BY <3>1, <3>2, <3>3, <3>5 DEF PhaseOK
  <2>3. CASE refuse
    <3>1. /\ phase = "verify" /\ verdict' = "refused"
          /\ phase' = IF origin = "compiled" THEN "ready" ELSE "refused"
          /\ UNCHANGED <<origin, code, declared, label, work, high_water>>
      BY <2>3 DEF refuse, chunk
    <3>2. WalkOK' BY <1>0, <3>1, WalkSame
    <3>3. NotRun' BY <1>4, <3>1 DEF PhaseOK, NotRun, machine
    <3> QED BY <3>1, <3>2, <3>3 DEF PhaseOK
  <2> QED BY <1>4, <2>1, <2>2, <2>3 DEF verify_chunk
<1>5. CASE execute /\ UNCHANGED <<chunk, low, verifier>>
  <2>1. UNCHANGED <<origin, code, declared, low, label, work, high_water, verdict>>
    BY <1>5 DEF chunk, verifier
  <2>2. phase \in {"ready", "run"} /\ phase' \in {"run", "end"} BY <1>5, ExecutePhases
  <2>3. WalkOK' BY <1>0, <2>1, WalkSame
  <2> QED BY <2>1, <2>2, <2>3 DEF PhaseOK
<1>6. CASE UNCHANGED vars
  <2>1. UNCHANGED <<phase, origin, code, declared, low, label, work, high_water, verdict>> /\ UNCHANGED machine
    BY <1>6 DEF vars, chunk, verifier
  <2>2. WalkOK' BY <1>0, <2>1, WalkSame
  <2> QED BY <2>1, <2>2 DEF PhaseOK, NotWalked, NotRun, machine
<1> QED BY <1>1, <1>2, <1>3, <1>4, <1>5, <1>6 DEF Next, Step, Finished

LEMMA PhaseInit ==
  ASSUME Init
  PROVE  PhaseOK
<1>1. /\ origin \in {"compiled", "read"}
      /\ phase = IF origin = "compiled" THEN "lower" ELSE "read"
      /\ code = <<>> /\ declared = 0 /\ low = NewLowering
      /\ label = <<>> /\ work = <<Edge(1, Zero)>> /\ high_water = 0 /\ verdict = "none"
  BY GrainAssumption DEF Init, InitVerify, Zero
<1>2. NotRun /\ NotWalked BY <1>1 DEF Init, InitVm, NotRun, NotWalked
<1>3. CodeOK(code) BY <1>1, EmptyCode
<1>4. LowOK(low)
  <2> DEFINE b == Block("program", "Value", 0, FALSE)
             o == <<b>>
  <2>1. /\ low.open = o /\ low.loops = <<>> /\ low.code = <<>>
        /\ low.slots = 0 /\ low.iters = 0 /\ low.handlers = 0 /\ DOMAIN low = LowFields
    BY <1>1 DEF NewLowering, LowFields
  <2>2. b \in Blocks /\ b.kind = "program" BY DEF Block, Blocks, Wants
  <2> HIDE DEF b
  <2>3. o \in Seq(Blocks \cup Opens) /\ Len(o) = 1 /\ o[1].kind = "program" /\ DOMAIN o = 1..1 BY <2>2
  <2>4. LoopsOpen(o) = {} BY <2>3 DEF LoopsOpen, Repeated
  <2> HIDE DEF o
  <2>5. Cardinality(LoopsOpen(o)) = 0 BY <2>4, FS_EmptySet
  <2>6. <<>> \in Seq(Loops) /\ Len(<<>>) = 0 OBVIOUS
  <2> QED BY <2>1, <2>3, <2>5, <2>6, EmptyCode DEF LowOK, LowBase
<1>5. WalkOK
  <2>1. Zero \in States BY DEF Zero, States
  <2>2. /\ work \in Seq([at : Nat, state : States]) /\ Len(work) = 1 /\ work[1] = Edge(1, Zero)
        /\ Edge(1, Zero).at = 1 /\ Edge(1, Zero).state = Zero
    BY <1>1, <2>1 DEF Edge
  <2>3. DOMAIN label = {} /\ Len(code) = 0 BY <1>1
  <2>4. \A i \in 1..Len(work) : work[i] = Edge(1, Zero) BY <2>2
  <2>5. EdgeOK(Edge(1, Zero)) BY <2>1, <2>2, <2>3 DEF EdgeOK
  <2>6. Taken(Edge(1, Zero)) BY <2>2 DEF Taken, Pending
  <2>7. Zero.iters = 0 /\ Zero.handlers = 0 BY DEF Zero
  <2> QED BY <1>1, <2>2, <2>3, <2>4, <2>5, <2>6, <2>7 DEF WalkOK
<1> QED BY <1>1, <1>2, <1>3, <1>4, <1>5 DEF PhaseOK

-----------------------------------------------------------------------------
(* The machine. *)

Accepted == PhaseOK /\ verdict = "accepted"

\* What the verifier says of an instruction that it has visited, when it has accepted.
LEMMA LabelFacts ==
  ASSUME Accepted, NEW a \in DOMAIN label
  PROVE  LET op == code[a].op
             s  == label[a]
         IN /\ IsStart(a) /\ a \in Nat \ {0} /\ op \in Ops /\ code[a].arg \in Nat
            /\ s \in States /\ ~Underflows(op, s)
            /\ s.operands <= declared /\ declared \in Nat
            /\ op \notin Ends =>
                 a + width(op) \in DOMAIN label /\ label[a + width(op)] = AtNext(op, s)
            /\ op \in Targeted =>
                 code[a].arg \in DOMAIN label /\ label[code[a].arg] = AtTarget(op, s)
            /\ Bare => s.iters = 0 /\ s.handlers = 0
<1>1. /\ CodeOK(code) /\ WalkOK /\ work = <<>> /\ declared \in Nat /\ high_water \in Nat /\ high_water <= declared
  BY DEF Accepted, PhaseOK, WalkOK
<1>2. LabelOK(a) BY <1>1 DEF WalkOK
<1>3. \A x : Taken(x) => x.at \in DOMAIN label /\ label[x.at] = x.state BY <1>1 DEF Taken, Pending
<1>4. IsStart(a) /\ a \in Nat \ {0} /\ code[a].op \in Ops /\ code[a].arg \in Nat
  <2>1. IsStart(a) BY <1>2 DEF LabelOK
  <2>2. code \in Seq(Cells) /\ a \in 1..Len(code) BY <1>1, <2>1 DEF CodeOK, IsStart
  <2>3. code[a].arg \in Nat BY <2>2, CellType
  <2> QED BY <1>1, <2>1, <2>3, StartFacts
<1>5. label[a] \in States /\ ~Underflows(code[a].op, label[a]) /\ label[a].operands <= declared
  <2>1. label[a] \in States /\ ~Underflows(code[a].op, label[a]) /\ label[a].operands <= high_water
    BY <1>2 DEF LabelOK
  <2>2. label[a].operands \in Nat BY <2>1 DEF States
  <2> QED BY <1>1, <2>1, <2>2
<1>6. code[a].op \notin Ends =>
        a + width(code[a].op) \in DOMAIN label /\ label[a + width(code[a].op)] = AtNext(code[a].op, label[a])
  BY <1>2, <1>3 DEF LabelOK, NextOf, Edge
<1>7. code[a].op \in Targeted =>
        code[a].arg \in DOMAIN label /\ label[code[a].arg] = AtTarget(code[a].op, label[a])
  BY <1>2, <1>3 DEF LabelOK, TargetOf, Edge
<1>8. Bare => label[a].iters = 0 /\ label[a].handlers = 0 BY <1>1 DEF WalkOK
<1> QED BY <1>1, <1>4, <1>5, <1>6, <1>7, <1>8

LEMMA EntryFacts ==
  ASSUME Accepted
  PROVE  1 \in DOMAIN label /\ label[1] = Zero
  BY DEF Accepted, PhaseOK, WalkOK, Taken, Pending, Edge

\* The frame that runs.
LEMMA RunningFacts ==
  ASSUME Accepted, RunOK, phase = "run"
  PROVE  /\ Len(frames) \in Nat \ {0} /\ Len(frames) \in 1..Len(frames)
         /\ Running \in Frames /\ Running = frames[Len(frames)]
         /\ Running.pc \in DOMAIN label /\ LabelOf(Len(frames)) = label[Running.pc]
         /\ Running.stack \in Seq({"v", "i"}) /\ Len(Running.stack) \in Nat
         /\ Running.handler_base \in Nat /\ Running.scope \in Nat /\ Running.base \in Nat
         /\ Running.outer_floor \in Nat
         /\ handlers \in Seq(Handlers) /\ Len(handlers) \in Nat
         /\ Running.handler_base <= Len(handlers)
         /\ Len(Running.stack) <= label[Running.pc].operands
         /\ raised = "none" => Len(Running.stack) + label[Running.pc].iters <= label[Running.pc].operands
         /\ Bare /\ raised = "none" => Len(Running.stack) = label[Running.pc].operands
         /\ ~cut => Len(handlers) - Running.handler_base = label[Running.pc].handlers
<1>1. frames \in Seq(Frames) /\ handlers \in Seq(Handlers) /\ Len(frames) \in Nat \ {0} /\ Len(handlers) \in Nat
  BY DEF RunOK, RunTypes
<1> DEFINE k == Len(frames)
<1>2. k \in 1..k /\ Running = frames[k] BY <1>1 DEF Running
<1>3. Running \in Frames BY <1>1, <1>2, ElementOf
<1>4. /\ Running.stack \in Seq({"v", "i"}) /\ Running.handler_base \in Nat /\ Running.scope \in Nat
      /\ Running.base \in Nat /\ Running.outer_floor \in Nat
  BY <1>3 DEF Frames
<1>5. Labelled(k) /\ Up(k) = Len(handlers) BY <1>2 DEF RunOK, Up
<1>11. Running.handler_base <= Len(handlers) BY <1>2 DEF RunOK, BasesOK
<1>6. LabelOf(k) = label[Running.pc] BY <1>2 DEF LabelOf
<1>7. raised = "none" => Settled(k) BY DEF Settled
<1>8. Bare /\ raised = "none" => Exact(k) BY <1>2, <1>7 DEF RunOK
<1>9. ~cut => Armoured(k) BY <1>2 DEF RunOK
<1> HIDE DEF k
<1>10. Len(Running.stack) \in Nat BY <1>4
<1> QED BY <1>1, <1>2, <1>3, <1>4, <1>5, <1>6, <1>7, <1>8, <1>9, <1>10, <1>11 DEF Labelled, Exact, Armoured, k

Static == code' = code /\ label' = label

LEMMA BareStatic ==
  ASSUME Static
  PROVE  Bare' <=> Bare
  BY DEF Static, Bare, Contains

\* The counters after a step.
Counted ==
  /\ raised' \in {"none", "catchable", "system"}
  /\ ops' \in 0..(MaxOps + 1)
  /\ raised' # "system" => ops' <= MaxOps
  /\ unwind_floor' \in Nat
  /\ host' \in Nat
  /\ fault' \in {"none", "underflow", "other"}
  /\ Bare => fault' # "underflow"
  /\ cut' \in BOOLEAN
  /\ cut => cut'
  /\ cut' => raised' = "system"

\* Its handlers.
LEMMA OwnHandlers ==
  ASSUME Accepted, RunOK, phase = "run", ~cut
  PROVE  \A j \in (Running.handler_base + 1)..Len(handlers) :
           HandlerFits(handlers[j], j - Running.handler_base, Len(frames))
<1> DEFINE k == Len(frames)
<1>1. k \in 1..k /\ Running = frames[k] BY RunningFacts
<1>2. Armoured(k) /\ Up(k) = Len(handlers) BY <1>1 DEF RunOK, Up
<1> QED BY <1>1, <1>2 DEF Armoured, HandlerOK

\* The running frame is replaced by g; the handlers that it has armed may be others.
LEMMA HandledOK ==
  ASSUME Accepted, RunOK, phase = "run", Static, phase' = "run",
         NEW g \in Frames, Put(g), g.handler_base = Running.handler_base,
         handlers' \in Seq(Handlers), Running.handler_base <= Len(handlers'),
         \A j \in 1..Running.handler_base : handlers'[j] = handlers[j],
         Counted,
         g.pc \in DOMAIN label, Len(g.stack) <= label[g.pc].operands,
         raised' = "none" => Len(g.stack) + label[g.pc].iters <= label[g.pc].operands,
         (Bare /\ raised' = "none") => Len(g.stack) = label[g.pc].operands,
         ~cut => Len(handlers') - Running.handler_base = label[g.pc].handlers,
         ~cut => \A j \in (Running.handler_base + 1)..Len(handlers') :
                   HandlerFits(handlers'[j], j - Running.handler_base, Len(frames))
  PROVE  RunOK'
<1> DEFINE k == Len(frames)
<1>1. /\ k \in Nat \ {0} /\ k \in 1..k /\ Running = frames[k] /\ frames \in Seq(Frames)
      /\ Running.handler_base \in Nat /\ Len(handlers') \in Nat
  <2>1. Len(handlers') \in Nat OBVIOUS
  <2>2. frames \in Seq(Frames) BY DEF RunOK, RunTypes
  <2> QED BY <2>1, <2>2, RunningFacts
<1>2. /\ frames' \in Seq(Frames) /\ Len(frames') = k
      /\ frames'[k] = g
      /\ \A i \in 1..k : i # k => frames'[i] = frames[i]
  BY <1>1 DEF Put
<1> HIDE DEF k
<1>3. \A i \in 1..k : frames'[i].handler_base = frames[i].handler_base /\ frames[i].handler_base \in Nat
  <2>1. \A i \in 1..k : frames[i] \in Frames BY <1>1 DEF k
  <2> QED BY <2>1, <1>1, <1>2 DEF Frames
<1>4. BasesOK'
  <2>1. \A i, j \in 1..k : i <= j => frames[i].handler_base <= frames[j].handler_base
    BY DEF RunOK, BasesOK, k
  <2>2. \A i \in 1..k : i <= k => frames[i].handler_base <= Running.handler_base BY <2>1, <1>1
  <2>3. \A i \in 1..k : frames[i].handler_base <= Len(handlers') BY <2>2, <1>1, <1>3
  <2> QED BY <2>1, <2>3, <1>2, <1>3 DEF BasesOK
<1>5. ASSUME NEW i \in 1..k, i # k
      PROVE  /\ Up(i)' = Up(i) /\ Up(i) = frames[i + 1].handler_base /\ Up(i) \in Nat
             /\ Up(i) <= Running.handler_base
  <2>1. i + 1 \in 1..k /\ i + 1 <= k BY <1>1, <1>5
  <2>2. frames'[i + 1].handler_base = frames[i + 1].handler_base BY <2>1, <1>3
  <2>3. frames[i + 1].handler_base <= frames[k].handler_base BY <2>1, <1>1 DEF RunOK, BasesOK, k
  <2> QED BY <2>1, <2>2, <2>3, <1>1, <1>2, <1>3, <1>5 DEF Up, k
<1>6. ASSUME NEW i \in 1..k
      PROVE  Labelled(i)'
  <2>1. CASE i = k
    <3>1. ~(i < Len(frames')) /\ frames'[i] = g BY <2>1, <1>1, <1>2
    <3> QED BY <3>1 DEF Labelled, LabelOf, Settled, Static
  <2>2. CASE i # k
    <3>1. Labelled(i) /\ Settled(i) /\ i < k BY <2>2, <1>1 DEF RunOK, Settled, k
    <3>2. frames'[i] = frames[i] BY <2>2, <1>2
    <3> QED BY <3>1, <3>2, <1>2 DEF Labelled, LabelOf, Static, k
  <2> QED BY <2>1, <2>2
<1>7. ASSUME ~cut, NEW i \in 1..k
      PROVE  Armoured(i)'
  <2>1. CASE i = k
    <3>1. /\ Up(i)' = Len(handlers') /\ frames'[i].handler_base = Running.handler_base
          /\ LabelOf(i)' = label[g.pc]
      BY <2>1, <1>1, <1>2 DEF Up, LabelOf, Static
    <3>2. \A j \in (Running.handler_base + 1)..Len(handlers') :
            HandlerFits(handlers'[j], j - Running.handler_base, i)
      BY <1>7, <2>1 DEF k
    <3>3. \A j \in (frames'[i].handler_base + 1)..Up(i)' : HandlerOK(j, i)'
      BY <3>1, <3>2 DEF HandlerOK, HandlerFits, Static
    <3> QED BY <1>7, <3>1, <3>3 DEF Armoured
  <2>2. CASE i # k
    <3>1. Armoured(i) BY <1>7 DEF RunOK, k
    <3>2. frames'[i] = frames[i] /\ LabelOf(i)' = LabelOf(i) /\ frames[i].handler_base \in Nat
      BY <2>2, <1>2, <1>3 DEF LabelOf, Static
    <3>3. ASSUME NEW j \in (frames[i].handler_base + 1)..Up(i)
          PROVE  HandlerOK(j, i)'
      <4>1. HandlerOK(j, i) BY <3>1 DEF Armoured
      <4>2. j \in 1..Running.handler_base BY <2>2, <1>1, <1>5, <3>2
      <4> QED BY <4>1, <4>2, <3>2 DEF HandlerOK, HandlerFits, Static
    <3> QED BY <2>2, <3>1, <3>2, <3>3, <1>5 DEF Armoured
  <2> QED BY <2>1, <2>2
<1>8. ASSUME Bare, NEW i \in 1..k, Settled(i)'
      PROVE  Exact(i)'
  <2>1. CASE i = k BY <2>1, <1>1, <1>2, <1>8 DEF Settled, Exact, LabelOf, Static
  <2>2. CASE i # k
    <3>1. Exact(i) BY <2>2, <1>1, <1>8 DEF RunOK, Settled, k
    <3> QED BY <3>1, <2>2, <1>2 DEF Exact, LabelOf, Static
  <2> QED BY <2>1, <2>2
<1>9. RunTypes' BY <1>2 DEF RunTypes, Counted, RunOK
<1>10. Bare' <=> Bare BY BareStatic
<1> QED BY <1>1, <1>2, <1>4, <1>6, <1>7, <1>8, <1>9, <1>10 DEF RunOK, Counted

\* The same where the handlers stay.
LEMMA MovedOK ==
  ASSUME Accepted, RunOK, phase = "run", Static, phase' = "run",
         NEW g \in Frames, Put(g), g.handler_base = Running.handler_base, handlers' = handlers,
         Counted,
         g.pc \in DOMAIN label, Len(g.stack) <= label[g.pc].operands,
         raised' = "none" => Len(g.stack) + label[g.pc].iters <= label[g.pc].operands,
         (Bare /\ raised' = "none") => Len(g.stack) = label[g.pc].operands,
         ~cut => label[g.pc].handlers = label[Running.pc].handlers
  PROVE  RunOK'
<1>1. /\ handlers' \in Seq(Handlers) /\ Running.handler_base <= Len(handlers')
      /\ \A j \in 1..Running.handler_base : handlers'[j] = handlers[j]
  BY RunningFacts
<1>2. ~cut => Len(handlers') - Running.handler_base = label[g.pc].handlers BY RunningFacts
<1>3. ~cut => \A j \in (Running.handler_base + 1)..Len(handlers') :
                HandlerFits(handlers'[j], j - Running.handler_base, Len(frames))
  BY OwnHandlers
<1> QED BY <1>1, <1>2, <1>3, HandledOK

\* Frames with another stack.
LEMMA StackFacts ==
  ASSUME NEW f \in Frames
  PROVE  /\ Len(f.stack) \in Nat
         /\ \A x \in {"v", "i"} :
              /\ Pushed(f, x) \in Frames /\ Len(Pushed(f, x).stack) = Len(f.stack) + 1
              /\ Pushed(f, x).pc = f.pc /\ Pushed(f, x).handler_base = f.handler_base
         /\ \A n \in 0..Len(f.stack) :
              /\ Popped(f, n) \in Frames /\ Len(Popped(f, n).stack) = Len(f.stack) - n
              /\ Popped(f, n).pc = f.pc /\ Popped(f, n).handler_base = f.handler_base
<1>1. f.stack \in Seq({"v", "i"}) /\ Len(f.stack) \in Nat BY DEF Frames
<1>2. ASSUME NEW x \in {"v", "i"}
      PROVE  /\ Pushed(f, x) \in Frames /\ Len(Pushed(f, x).stack) = Len(f.stack) + 1
             /\ Pushed(f, x).pc = f.pc /\ Pushed(f, x).handler_base = f.handler_base
  <2>1. Append(f.stack, x) \in Seq({"v", "i"}) /\ Len(Append(f.stack, x)) = Len(f.stack) + 1 BY <1>1
  <2> QED BY <2>1 DEF Pushed, Frames
<1>3. ASSUME NEW n \in 0..Len(f.stack)
      PROVE  /\ Popped(f, n) \in Frames /\ Len(Popped(f, n).stack) = Len(f.stack) - n
             /\ Popped(f, n).pc = f.pc /\ Popped(f, n).handler_base = f.handler_base
  <2> DEFINE m == Len(f.stack) - n
             t == SubSeq(f.stack, 1, m)
  <2>1. m \in Nat /\ m <= Len(f.stack) BY <1>1
  <2> HIDE DEF m
  <2>2. t \in Seq({"v", "i"}) /\ Len(t) = m BY <1>1, <2>1, FirstN
  <2>3. Popped(f, n) = [f EXCEPT !.stack = t] BY DEF Popped, m
  <2> HIDE DEF t
  <2> QED BY <2>2, <2>3 DEF Frames, m
<1> QED BY <1>1, <1>2, <1>3

\* Where an arm begins.
LEMMA ArmFacts ==
  ASSUME Accepted, RunOK, NEW S, At_op(S)
  PROVE  /\ phase = "run" /\ raised = "none" /\ cut = FALSE
         /\ This.op \in S /\ This.op \in Ops /\ This = code[Running.pc]
         /\ Running \in Frames /\ Running.pc \in DOMAIN label
         /\ label[Running.pc] \in States /\ ~Underflows(This.op, label[Running.pc])
         /\ Len(Running.stack) \in Nat /\ takes(This.op) \in 0..2
         /\ takes(This.op) <= Len(Running.stack)
         /\ Len(Running.stack) + label[Running.pc].iters <= label[Running.pc].operands
         /\ Bare => Len(Running.stack) = label[Running.pc].operands
<1>1. phase = "run" /\ raised = "none" /\ cut = FALSE /\ This.op \in S /\ ~Underflow /\ This = code[Running.pc]
  BY DEF At_op, RunOK, RunTypes, This
<1>2. takes(This.op) \in 0..2 BY DEF takes
<1>3. Len(Running.stack) \in Nat BY <1>1, RunningFacts
<1>4. takes(This.op) <= Len(Running.stack) BY <1>1, <1>2, <1>3 DEF Underflow
<1>5. /\ Running \in Frames /\ Running.pc \in DOMAIN label
      /\ Len(Running.stack) + label[Running.pc].iters <= label[Running.pc].operands
      /\ Bare => Len(Running.stack) = label[Running.pc].operands
  BY <1>1, RunningFacts
<1>6. label[Running.pc] \in States /\ ~Underflows(This.op, label[Running.pc]) /\ This.op \in Ops
  BY <1>1, <1>5, LabelFacts
<1> QED BY <1>1, <1>2, <1>3, <1>4, <1>5, <1>6

\* What the verifier says of the instruction, of the next one and of the target.
Now == label[Running.pc]

Onward == AtNext(This.op, Now)

Away == AtTarget(This.op, Now)

LEMMA SameCounted ==
  ASSUME RunOK, UNCHANGED <<unwind_floor, host, fault, cut, ops, raised>>
  PROVE  Counted
  BY DEF RunOK, RunTypes, Counted

\* The top frame moves to the next instruction.
LEMMA MovedNext ==
  ASSUME Accepted, RunOK, phase = "run", raised = "none", Static, phase' = "run",
         This.op \notin Ends, NEW f \in Frames, f.pc = Running.pc, f.handler_base = Running.handler_base,
         Put(Next_pc(f)), handlers' = handlers, Counted,
         Len(f.stack) + Onward.iters <= Onward.operands,
         Bare => Len(f.stack) = Onward.operands,
         Onward.handlers = Now.handlers
  PROVE  RunOK'
<1> DEFINE g == Next_pc(f)
           p == Running.pc + width(This.op)
<1>1. Running.pc \in DOMAIN label /\ This = code[Running.pc] BY RunningFacts DEF This
<1>2. p \in DOMAIN label /\ label[p] = Onward BY <1>1, LabelFacts DEF Onward, Now
<1>3. p \in Nat \ {0} /\ Onward \in States BY <1>2, LabelFacts
<1>4. g = [f EXCEPT !.pc = p] BY <1>1 DEF Next_pc
<1> HIDE DEF p
<1>5. /\ g \in Frames /\ g.pc = p /\ g.stack = f.stack /\ g.handler_base = f.handler_base
      /\ Len(f.stack) \in Nat
  BY <1>3, <1>4, StackFacts DEF Frames
<1>6. Onward.operands \in Nat /\ Onward.iters \in Nat BY <1>3 DEF States
<1>7. /\ Len(g.stack) <= label[g.pc].operands
      /\ Len(g.stack) + label[g.pc].iters <= label[g.pc].operands
      /\ Bare => Len(g.stack) = label[g.pc].operands
      /\ label[g.pc].handlers = Now.handlers
  BY <1>2, <1>5, <1>6
<1> HIDE DEF g
<1>8. Put(g) BY DEF g
<1> QED BY <1>2, <1>5, <1>7, <1>8, MovedOK DEF Now

\* The top frame fails where it is.
LEMMA FailedOK ==
  ASSUME Accepted, RunOK, phase = "run", raised = "none", Static, phase' = "run",
         NEW f \in Frames, f.pc = Running.pc, f.handler_base = Running.handler_base,
         Put(f), handlers' = handlers, Counted, raised' # "none",
         Len(f.stack) <= label[Running.pc].operands
  PROVE  RunOK'
<1>1. Running.pc \in DOMAIN label BY RunningFacts
<1> QED BY <1>1, MovedOK

\* The top frame jumps, if the jump can be paid for.
LEMMA TransferOK ==
  ASSUME Accepted, RunOK, phase = "run", raised = "none", Static,
         This.op \in Targeted, NEW f \in Frames, f.pc = Running.pc, f.handler_base = Running.handler_base,
         transfer(f, This.arg),
         Len(f.stack) <= Now.operands,
         Len(f.stack) + Away.iters <= Away.operands,
         Bare => Len(f.stack) = Away.operands,
         Away.handlers = Now.handlers
  PROVE  RunOK'
<1> DEFINE p == This.arg
           g == [f EXCEPT !.pc = p]
<1>1. Running.pc \in DOMAIN label /\ This = code[Running.pc] BY RunningFacts DEF This
<1>2. p \in DOMAIN label /\ label[p] = Away BY <1>1, LabelFacts DEF Away, Now
<1>3. p \in Nat \ {0} /\ Away \in States BY <1>2, LabelFacts
<1>4. /\ g \in Frames /\ g.pc = p /\ g.stack = f.stack /\ g.handler_base = f.handler_base
      /\ Len(f.stack) \in Nat
  BY <1>3, StackFacts DEF Frames
<1>5. Away.operands \in Nat /\ Away.iters \in Nat BY <1>3 DEF States
<1>6. /\ Len(g.stack) <= label[g.pc].operands
      /\ Len(g.stack) + label[g.pc].iters <= label[g.pc].operands
      /\ Bare => Len(g.stack) = label[g.pc].operands
      /\ label[g.pc].handlers = Now.handlers
  BY <1>2, <1>4, <1>5
<1>7. /\ phase' = "run" /\ handlers' = handlers
      /\ UNCHANGED <<unwind_floor, host, fault, cut>>
  BY DEF transfer
<1>8. ops \in Nat /\ ops <= MaxOps /\ MaxOps \in Nat BY GrainAssumption DEF RunOK, RunTypes
<1>9. CASE Backward(f, p) /\ Unpaid
  <2>1. ops' = ops + 1 /\ raised' = "system" /\ Put(f) BY <1>9 DEF transfer
  <2>2. Counted BY <2>1, <1>7, <1>8 DEF Counted, RunOK, RunTypes
  <2> QED BY <2>1, <2>2, <1>7, FailedOK DEF Now
<1>10. CASE ~(Backward(f, p) /\ Unpaid)
  <2>1. Put(g) /\ raised' = raised /\ (ops' = ops \/ (ops' = ops + 1 /\ ~Unpaid)) BY <1>10 DEF transfer
  <2>2. ops' <= MaxOps /\ ops' \in Nat BY <2>1, <1>8 DEF Unpaid
  <2>3. Counted BY <2>1, <2>2, <1>7, <1>8 DEF Counted, RunOK, RunTypes
  <2> HIDE DEF g, p
  <2> QED BY <2>1, <2>3, <1>2, <1>4, <1>6, <1>7, MovedOK DEF Now
<1> QED BY <1>9, <1>10

\* The difference between two states of the verifier.
Changed(t, s, operands, iters, handled) ==
  /\ t.operands = s.operands + operands
  /\ t.iters = s.iters + iters
  /\ t.handlers = s.handlers + handled

\* What the verifier makes of each instruction.
LEMMA Effects ==
  ASSUME NEW s \in States, NEW op
  PROVE  /\ op \in {"Unit", "Push", "Call"} => Changed(AtNext(op, s), s, 1, 0, 0)
         /\ op \in {"Pop", "Declare", "JumpIfFalse", "JumpIfTrue", "BinOp"} => Changed(AtNext(op, s), s, -1, 0, 0)
         /\ op \in {"UnwindTo", "Checkpoint", "Rotate", "SkipIfNotUnit"} => Changed(AtNext(op, s), s, 0, 0, 0)
         /\ op = "PushHandler" => Changed(AtNext(op, s), s, 0, 0, 1) /\ Changed(AtTarget(op, s), s, 0, 0, 1)
         /\ op = "PopHandler" => Changed(AtNext(op, s), s, 0, 0, -1)
         /\ op = "IterInit" => Changed(AtNext(op, s), s, 1, 1, 0)
         /\ op = "IterDrop" => Changed(AtNext(op, s), s, -1, -1, 0)
         /\ op \in Advances => Changed(AtNext(op, s), s, -2, -1, 0)
         /\ op = "IterNext" => Changed(AtTarget(op, s), s, 1, 0, 0)
         /\ op \in {"JumpIfFalse", "JumpIfTrue"} => Changed(AtTarget(op, s), s, -1, 0, 0)
         /\ op \in {"SkipIfNotUnit", "Jump", "IterNextStore"} => Changed(AtTarget(op, s), s, 0, 0, 0)
<1> s.operands \in Nat /\ s.iters \in Nat /\ s.handlers \in Nat BY DEF States
<1> USE DEF AtNext, AtTarget, After, pops, pushes, requires, Advances, Branches, Exhausted, States, Changed
<1>1. op \in {"Unit", "Push", "Call"} => Changed(AtNext(op, s), s, 1, 0, 0) OBVIOUS
<1>2. op \in {"Pop", "Declare", "JumpIfFalse", "JumpIfTrue", "BinOp"} => Changed(AtNext(op, s), s, -1, 0, 0)
  OBVIOUS
<1>3. op \in {"UnwindTo", "Checkpoint", "Rotate", "SkipIfNotUnit"} => Changed(AtNext(op, s), s, 0, 0, 0)
  OBVIOUS
<1>4. op = "PushHandler" => Changed(AtNext(op, s), s, 0, 0, 1) /\ Changed(AtTarget(op, s), s, 0, 0, 1)
  OBVIOUS
<1>5. op = "PopHandler" => Changed(AtNext(op, s), s, 0, 0, -1) OBVIOUS
<1>6. op = "IterInit" => Changed(AtNext(op, s), s, 1, 1, 0) OBVIOUS
<1>7. op = "IterDrop" => Changed(AtNext(op, s), s, -1, -1, 0) OBVIOUS
<1>8. op \in Advances => Changed(AtNext(op, s), s, -2, -1, 0) OBVIOUS
<1>9. op = "IterNext" => Changed(AtTarget(op, s), s, 1, 0, 0) OBVIOUS
<1>10. op \in {"JumpIfFalse", "JumpIfTrue"} => Changed(AtTarget(op, s), s, -1, 0, 0) OBVIOUS
<1>11. op \in {"SkipIfNotUnit", "Jump", "IterNextStore"} => Changed(AtTarget(op, s), s, 0, 0, 0) OBVIOUS
<1> QED BY <1>1, <1>2, <1>3, <1>4, <1>5, <1>6, <1>7, <1>8, <1>9, <1>10, <1>11

LEMMA PutSelf ==
  ASSUME RunOK, phase = "run", frames' = frames
  PROVE  Put(Running)
<1>1. frames \in Seq(Frames) /\ Len(frames) > 0 BY DEF RunOK, RunTypes
<1> QED BY <1>1 DEF Put, Running

LEMMA MalformedOK ==
  ASSUME Accepted, RunOK, Static, malformed
  PROVE  RunOK'
<1>1. /\ phase = "run" /\ raised = "none" /\ raised' = "catchable" /\ phase' = "run"
      /\ fault' = IF Underflow THEN "underflow" ELSE "other"
      /\ UNCHANGED <<frames, handlers, unwind_floor, ops, host, cut>>
  BY DEF malformed
<1>2. /\ Running \in Frames /\ Running.pc \in DOMAIN label
      /\ Len(Running.stack) <= label[Running.pc].operands /\ Len(Running.stack) \in Nat
      /\ Bare => Len(Running.stack) = label[Running.pc].operands
  BY <1>1, RunningFacts
<1>3. /\ ~Underflows(This.op, label[Running.pc]) /\ This.op \in Ops /\ label[Running.pc] \in States
      /\ Bare => label[Running.pc].iters = 0
  BY <1>2, LabelFacts DEF This
<1>4. Bare => ~Underflow
  <2>1. label[Running.pc].operands \in Nat BY <1>3 DEF States
  <2>2. Bare => This.op \notin Advances BY <1>3 DEF Underflows
  <2>3. takes(This.op) = requires(This.op) \/ This.op \in Advances
    BY DEF takes, requires, Advances, Branches
  <2>4. requires(This.op) \in Nat /\ label[Running.pc].operands >= requires(This.op)
    BY <2>1, <1>3 DEF Underflows, requires
  <2> QED BY <1>2, <2>1, <2>2, <2>3, <2>4 DEF Underflow
<1>5. Counted BY <1>1, <1>4 DEF Counted, RunOK, RunTypes
<1>6. Put(Running) BY <1>1, PutSelf
<1> QED BY <1>1, <1>2, <1>5, <1>6, FailedOK

\* Arms that only move on.
LEMMA DoneOK ==
  ASSUME Accepted, RunOK, Static, phase = "run", raised = "none", This.op \notin Ends,
         NEW f \in Frames, f.pc = Running.pc, f.handler_base = Running.handler_base, Done(f),
         Len(f.stack) + Onward.iters <= Onward.operands,
         Bare => Len(f.stack) = Onward.operands,
         Onward.handlers = Now.handlers
  PROVE  RunOK'
<1>1. Put(Next_pc(f)) /\ phase' = "run" /\ handlers' = handlers
      /\ UNCHANGED <<unwind_floor, host, fault, cut, ops, raised>>
  BY DEF Done
<1>2. Counted BY <1>1, SameCounted
<1> QED BY <1>1, <1>2, MovedNext

LEMMA RaiseOK ==
  ASSUME Accepted, RunOK, Static, phase = "run", raised = "none",
         NEW f \in Frames, f.pc = Running.pc, f.handler_base = Running.handler_base,
         Raise(f, "catchable"), Len(f.stack) <= label[Running.pc].operands
  PROVE  RunOK'
<1>1. Put(f) /\ phase' = "run" /\ handlers' = handlers /\ raised' = "catchable"
      /\ UNCHANGED <<unwind_floor, host, fault, cut, ops>>
  BY DEF Raise
<1>2. Counted BY <1>1 DEF Counted, RunOK, RunTypes
<1> QED BY <1>1, <1>2, FailedOK

\* Where an arm begins, as the verifier sees it.
LEMMA ArmEffects ==
  ASSUME Accepted, RunOK, NEW S, At_op(S)
  PROVE  /\ Now \in States /\ Now.operands \in Nat /\ Now.iters \in Nat /\ Now.handlers \in Nat
         /\ ~Underflows(This.op, Now)
         /\ Len(Running.stack) \in Nat
         /\ Len(Running.stack) + Now.iters <= Now.operands
         /\ Bare => Len(Running.stack) = Now.operands /\ Now.iters = 0
         /\ Len(Running.stack) <= label[Running.pc].operands
<1>1. /\ Now \in States /\ Len(Running.stack) \in Nat /\ Len(Running.stack) + Now.iters <= Now.operands
      /\ Running.pc \in DOMAIN label /\ ~Underflows(This.op, Now)
      /\ Bare => Len(Running.stack) = Now.operands
  BY ArmFacts DEF Now
<1>2. Now.operands \in Nat /\ Now.iters \in Nat /\ Now.handlers \in Nat BY <1>1 DEF States
<1>3. Bare => Now.iters = 0 BY <1>1, LabelFacts DEF Now
<1>4. Len(Running.stack) <= label[Running.pc].operands BY <1>1, <1>2 DEF Now
<1> QED BY <1>1, <1>2, <1>3, <1>4

\* The running frame without its last n operands, if the arm takes so many.
LEMMA Takes ==
  ASSUME Accepted, RunOK, NEW S, At_op(S), NEW n \in Nat, n <= takes(This.op)
  PROVE  LET f == Popped(Running, n)
         IN /\ f \in Frames /\ f.pc = Running.pc /\ f.handler_base = Running.handler_base
            /\ Len(f.stack) = Len(Running.stack) - n /\ Len(f.stack) \in Nat
<1>1. /\ Running \in Frames /\ Len(Running.stack) \in Nat /\ takes(This.op) \in 0..2
      /\ takes(This.op) <= Len(Running.stack)
  BY ArmFacts
<1>2. n \in 0..Len(Running.stack) BY <1>1
<1> QED BY <1>1, <1>2, StackFacts

\* An arm that does to the stack what the verifier counts.
LEMMA EvenOK ==
  ASSUME Accepted, RunOK, Static, NEW S, At_op(S), S \cap Ends = {},
         NEW f \in Frames, f.pc = Running.pc, f.handler_base = Running.handler_base, Done(f),
         NEW d \in Int, Len(f.stack) = Len(Running.stack) + d, Changed(Onward, Now, d, 0, 0)
  PROVE  RunOK'
<1>1. phase = "run" /\ raised = "none" /\ This.op \in S BY ArmFacts
<1>2. This.op \notin Ends BY <1>1
<1>3. /\ Now.operands \in Nat /\ Now.iters \in Nat /\ Now.handlers \in Nat /\ Len(Running.stack) \in Nat
      /\ Len(Running.stack) + Now.iters <= Now.operands
      /\ Bare => Len(Running.stack) = Now.operands
  BY ArmEffects
<1>4. Onward.operands = Now.operands + d /\ Onward.iters = Now.iters /\ Onward.handlers = Now.handlers
  BY <1>3 DEF Changed
<1>5. Len(f.stack) + Onward.iters <= Onward.operands /\ (Bare => Len(f.stack) = Onward.operands)
  <2>1. Len(f.stack) \in Nat BY StackFacts
  <2> QED BY <1>3, <1>4, <2>1, SMTT(30)
<1> QED BY <1>1, <1>2, <1>4, <1>5, DoneOK

LEMMA PushPopOK ==
  ASSUME Accepted, RunOK, Static, PUSH \/ POP
  PROVE  RunOK'
<1>1. CASE PUSH
  <2> DEFINE S == {"Unit", "Push"}
             f == Pushed(Running, "v")
  <2>1. At_op(S) /\ Done(f) /\ S \cap Ends = {} BY <1>1 DEF PUSH, Ends
  <2>2. This.op \in S /\ Now \in States /\ Running \in Frames BY <2>1, ArmFacts DEF Now
  <2>3. f \in Frames /\ f.pc = Running.pc /\ f.handler_base = Running.handler_base
        /\ Len(f.stack) = Len(Running.stack) + 1
    BY <2>2, StackFacts
  <2>4. Changed(Onward, Now, 1, 0, 0) BY <2>2, Effects DEF Onward
  <2> HIDE DEF f, S
  <2> QED BY <2>1, <2>3, <2>4, EvenOK
<1>2. CASE POP
  <2> DEFINE S == {"Pop"}
             f == Popped(Running, 1)
  <2>1. At_op(S) /\ Done(f) /\ S \cap Ends = {} BY <1>2 DEF POP, Ends
  <2>2. This.op \in S /\ Now \in States /\ Len(Running.stack) \in Nat BY <2>1, ArmFacts DEF Now
  <2>3. takes(This.op) = 1 BY <2>2 DEF takes
  <2>4. f \in Frames /\ f.pc = Running.pc /\ f.handler_base = Running.handler_base
        /\ Len(f.stack) = Len(Running.stack) + (-1)
    BY <2>1, <2>2, <2>3, Takes
  <2>5. Changed(Onward, Now, -1, 0, 0) BY <2>2, Effects DEF Onward
  <2> HIDE DEF f, S
  <2> QED BY <2>1, <2>4, <2>5, EvenOK
<1> QED BY <1>1, <1>2

LEMMA DeclareOK ==
  ASSUME Accepted, RunOK, Static, DECLARE_LOCAL
  PROVE  RunOK'
<1> DEFINE S == {"Declare"}
           g == Popped(Running, 1)
           f == [g EXCEPT !.scope = @ + 1]
<1>1. At_op(S) /\ Done(f) /\ S \cap Ends = {} BY DEF DECLARE_LOCAL, Ends
<1>2. This.op \in S /\ Now \in States /\ Len(Running.stack) \in Nat BY <1>1, ArmFacts DEF Now
<1>3. takes(This.op) = 1 BY <1>2 DEF takes
<1>4. g \in Frames /\ g.pc = Running.pc /\ g.handler_base = Running.handler_base
      /\ Len(g.stack) = Len(Running.stack) + (-1)
  BY <1>1, <1>2, <1>3, Takes
<1> HIDE DEF g
<1>5. f \in Frames /\ f.pc = Running.pc /\ f.handler_base = Running.handler_base
      /\ Len(f.stack) = Len(Running.stack) + (-1)
  BY <1>4 DEF Frames
<1>6. Changed(Onward, Now, -1, 0, 0) BY <1>2, Effects DEF Onward
<1> HIDE DEF f, S
<1> QED BY <1>1, <1>5, <1>6, EvenOK

LEMMA UnwindOK ==
  ASSUME Accepted, RunOK, Static, UNWIND_TO
  PROVE  RunOK'
<1> DEFINE S == {"UnwindTo"}
           f == [Running EXCEPT !.scope = Running.base + This.arg]
<1>1. At_op(S) /\ Done(f) /\ S \cap Ends = {} BY DEF UNWIND_TO, Ends
<1>2. This.op \in S /\ Now \in States /\ Running \in Frames /\ This = code[Running.pc]
      /\ Running.pc \in DOMAIN label /\ Len(Running.stack) \in Nat
  BY <1>1, ArmFacts DEF Now
<1>3. This.arg \in Nat BY <1>2, LabelFacts
<1>4. f \in Frames /\ f.pc = Running.pc /\ f.handler_base = Running.handler_base
      /\ Len(f.stack) = Len(Running.stack) + 0
  BY <1>2, <1>3 DEF Frames
<1>5. Changed(Onward, Now, 0, 0, 0) BY <1>2, Effects DEF Onward
<1> HIDE DEF f, S
<1> QED BY <1>1, <1>4, <1>5, EvenOK

\* The two topmost operands change places.
LEMMA Rotated ==
  ASSUME NEW X, NEW t \in Seq(X), Len(t) >= 2
  PROVE  LET u == SubSeq(t, 1, Len(t) - 2) \o <<t[Len(t)], t[Len(t) - 1]>>
         IN u \in Seq(X) /\ Len(u) = Len(t)
<1> DEFINE n == Len(t)
           a == SubSeq(t, 1, n - 2)
           b == <<t[n], t[n - 1]>>
<1>1. n \in Nat /\ n - 2 \in Nat /\ n - 2 <= Len(t) OBVIOUS
<1>2. a \in Seq(X) /\ Len(a) = n - 2 BY <1>1, FirstN
<1>3. t[n] \in X /\ t[n - 1] \in X BY <1>1
<1>4. b \in Seq(X) /\ Len(b) = 2 BY <1>3
<1> HIDE DEF a, b
<1>5. a \o b \in Seq(X) /\ Len(a \o b) = n
  <2>1. a \o b \in Seq(X) /\ Len(a \o b) = Len(a) + Len(b)
    <3> HIDE DEF n
    <3> QED BY <1>2, <1>4, ConcatFacts
  <2> QED BY <1>1, <1>2, <1>4, <2>1
<1> QED BY <1>5 DEF a, b

LEMMA RotateOK ==
  ASSUME Accepted, RunOK, Static, ROTATE
  PROVE  RunOK'
<1> DEFINE S == {"Rotate"}
           t == Running.stack
           u == SubSeq(t, 1, Len(t) - 2) \o <<t[Len(t)], t[Len(t) - 1]>>
           f == [Running EXCEPT !.stack = u]
<1>1. At_op(S) /\ Done(f) /\ S \cap Ends = {} BY DEF ROTATE, Ends
<1>2. This.op \in S /\ Now \in States /\ Running \in Frames /\ Len(t) \in Nat /\ takes(This.op) <= Len(t)
  BY <1>1, ArmFacts DEF Now
<1>3. takes(This.op) = 2 BY <1>2 DEF takes, Branches, Advances
<1>4. t \in Seq({"v", "i"}) BY <1>2 DEF Frames
<1>5. u \in Seq({"v", "i"}) /\ Len(u) = Len(t) BY <1>2, <1>3, <1>4, Rotated
<1> HIDE DEF u
<1>6. f \in Frames /\ f.pc = Running.pc /\ f.handler_base = Running.handler_base
      /\ Len(f.stack) = Len(Running.stack) + 0
  BY <1>2, <1>5 DEF Frames
<1>7. Changed(Onward, Now, 0, 0, 0) BY <1>2, Effects DEF Onward
<1> HIDE DEF f, S, t
<1> QED BY <1>1, <1>6, <1>7, EvenOK

LEMMA BinThrowOK ==
  ASSUME Accepted, RunOK, Static, BIN_OP \/ THROW
  PROVE  RunOK'
<1>1. CASE BIN_OP
  <2> DEFINE S == {"BinOp"}
             g == Popped(Running, 2)
             f == Pushed(g, "v")
  <2>1. At_op(S) /\ S \cap Ends = {} /\ (Done(f) \/ Raise(Running, "catchable")) BY <1>1 DEF BIN_OP, Ends
  <2>2. This.op \in S /\ Now \in States /\ Running \in Frames /\ phase = "run" /\ raised = "none"
    BY <2>1, ArmFacts DEF Now
  <2>3. Len(Running.stack) \in Nat /\ Len(Running.stack) <= label[Running.pc].operands
    BY <2>1, ArmEffects
  <2>4. takes(This.op) = 2 BY <2>2 DEF takes, Branches, Advances
  <2>5. g \in Frames /\ g.pc = Running.pc /\ g.handler_base = Running.handler_base
        /\ Len(g.stack) = Len(Running.stack) - 2
    BY <2>1, <2>4, Takes
  <2> HIDE DEF g
  <2>6. f \in Frames /\ f.pc = Running.pc /\ f.handler_base = Running.handler_base
        /\ Len(f.stack) = Len(g.stack) + 1
    BY <2>5, StackFacts
  <2>7. Len(f.stack) = Len(Running.stack) + (-1) BY <2>3, <2>5, <2>6
  <2>8. Changed(Onward, Now, -1, 0, 0) BY <2>2, Effects DEF Onward
  <2> HIDE DEF f, S
  <2>9. CASE Done(f) BY <2>1, <2>6, <2>7, <2>8, <2>9, EvenOK
  <2>10. CASE Raise(Running, "catchable") BY <2>2, <2>3, <2>10, RaiseOK
  <2> QED BY <2>1, <2>9, <2>10
<1>2. CASE THROW
  <2> DEFINE S == {"Throw"}
             f == Popped(Running, 1)
  <2>1. At_op(S) /\ Raise(f, "catchable") BY <1>2 DEF THROW
  <2>2. This.op \in S /\ phase = "run" /\ raised = "none" /\ label[Running.pc] \in States
    BY <2>1, ArmFacts
  <2>3. Len(Running.stack) \in Nat /\ Len(Running.stack) <= label[Running.pc].operands
    BY <2>1, ArmEffects
  <2>4. takes(This.op) = 1 /\ label[Running.pc].operands \in Nat BY <2>2 DEF takes, States
  <2>5. f \in Frames /\ f.pc = Running.pc /\ f.handler_base = Running.handler_base
        /\ Len(f.stack) = Len(Running.stack) - 1
    BY <2>1, <2>4, Takes
  <2>6. Len(f.stack) <= label[Running.pc].operands BY <2>3, <2>4, <2>5
  <2> HIDE DEF f, S
  <2> QED BY <2>2, <2>5, <2>6, <2>1, RaiseOK
<1> QED BY <1>1, <1>2

\* Bare code neither arms handlers nor makes iterators.
LEMMA BareArms ==
  ASSUME Accepted, RunOK, NEW S, At_op(S), Bare
  PROVE  This.op \notin {"IterInit", "PushHandler", "IterDrop"} \cup Advances
<1>1. Running.pc \in DOMAIN label /\ This = code[Running.pc] /\ ~Underflows(This.op, Now)
  BY ArmFacts DEF Now
<1>2. IsStart(Running.pc) BY <1>1, LabelFacts
<1>3. This.op \notin {"IterInit", "PushHandler"} BY <1>1, <1>2 DEF Bare, Contains, IsStart
<1>4. Now.iters = 0 BY ArmEffects
<1>5. This.op \notin Advances \cup {"IterDrop"} BY <1>1, <1>4 DEF Underflows
<1> QED BY <1>3, <1>5

\* An arm that leaves no more than the verifier counts.
LEMMA ShiftOK ==
  ASSUME Accepted, RunOK, Static, NEW S, At_op(S), S \cap Ends = {},
         NEW f \in Frames, f.pc = Running.pc, f.handler_base = Running.handler_base, Done(f),
         NEW c \in Int, NEW i \in Int, Changed(Onward, Now, c, i, 0),
         Len(f.stack) - Len(Running.stack) + i <= c, Bare => Len(f.stack) = Len(Running.stack) + c
  PROVE  RunOK'
<1>1. phase = "run" /\ raised = "none" /\ This.op \in S BY ArmFacts
<1>2. This.op \notin Ends BY <1>1
<1>3. /\ Now.operands \in Nat /\ Now.iters \in Nat /\ Now.handlers \in Nat /\ Len(Running.stack) \in Nat
      /\ Len(Running.stack) + Now.iters <= Now.operands
      /\ Bare => Len(Running.stack) = Now.operands
  BY ArmEffects
<1>4. Onward.operands = Now.operands + c /\ Onward.iters = Now.iters + i /\ Onward.handlers = Now.handlers
  BY <1>3 DEF Changed
<1>5. Len(f.stack) + Onward.iters <= Onward.operands /\ (Bare => Len(f.stack) = Onward.operands)
  <2>1. Len(f.stack) \in Nat BY StackFacts
  <2> QED BY <1>3, <1>4, <2>1, SMTT(30)
<1> QED BY <1>1, <1>2, <1>4, <1>5, DoneOK

LEMMA GoOK ==
  ASSUME Accepted, RunOK, Static, NEW S, At_op(S), S \subseteq Targeted,
         NEW f \in Frames, f.pc = Running.pc, f.handler_base = Running.handler_base,
         transfer(f, This.arg),
         NEW c \in Int, Changed(Away, Now, c, 0, 0),
         Len(f.stack) <= Len(Running.stack) + c, Bare => Len(f.stack) = Len(Running.stack) + c,
         Len(f.stack) <= Now.operands
  PROVE  RunOK'
<1>1. phase = "run" /\ raised = "none" /\ This.op \in S BY ArmFacts
<1>2. This.op \in Targeted BY <1>1
<1>3. /\ Now.operands \in Nat /\ Now.iters \in Nat /\ Now.handlers \in Nat /\ Len(Running.stack) \in Nat
      /\ Len(Running.stack) + Now.iters <= Now.operands
      /\ Bare => Len(Running.stack) = Now.operands
  BY ArmEffects
<1>4. Away.operands = Now.operands + c /\ Away.iters = Now.iters /\ Away.handlers = Now.handlers
  BY <1>3 DEF Changed
<1>5. Len(f.stack) + Away.iters <= Away.operands /\ (Bare => Len(f.stack) = Away.operands)
  <2>1. Len(f.stack) \in Nat BY StackFacts
  <2> QED BY <1>3, <1>4, <2>1
<1> QED BY <1>1, <1>2, <1>4, <1>5, TransferOK

LEMMA IterInitOK ==
  ASSUME Accepted, RunOK, Static, ITER_INIT
  PROVE  RunOK'
<1> DEFINE S == {"IterInit"}
           g == Popped(Running, 1)
           f == Pushed(g, "i")
<1>1. At_op(S) /\ S \cap Ends = {} /\ (Done(f) \/ Raise(g, "catchable")) BY DEF ITER_INIT, Ends
<1>2. This.op \in S /\ Now \in States /\ phase = "run" /\ raised = "none" BY <1>1, ArmFacts DEF Now
<1>3. /\ Len(Running.stack) \in Nat /\ Len(Running.stack) <= label[Running.pc].operands
      /\ label[Running.pc].operands \in Nat
  BY <1>1, ArmEffects DEF Now
<1>4. takes(This.op) = 1 BY <1>2 DEF takes
<1>5. g \in Frames /\ g.pc = Running.pc /\ g.handler_base = Running.handler_base
      /\ Len(g.stack) = Len(Running.stack) - 1
  BY <1>1, <1>4, Takes
<1> HIDE DEF g
<1>6. f \in Frames /\ f.pc = Running.pc /\ f.handler_base = Running.handler_base
      /\ Len(f.stack) = Len(g.stack) + 1
  BY <1>5, StackFacts
<1>7. Len(f.stack) - Len(Running.stack) + 1 <= 1 BY <1>3, <1>5, <1>6
<1>8. Changed(Onward, Now, 1, 1, 0) BY <1>2, Effects DEF Onward
<1>9. ~Bare BY <1>1, <1>2, BareArms
<1>10. Len(g.stack) <= label[Running.pc].operands BY <1>3, <1>5
<1> HIDE DEF f, S
<1>11. CASE Done(f)
  <2> HIDE DEF g
  <2>1. Bare => Len(f.stack) = Len(Running.stack) + 1 BY <1>9
  <2>2. 1 \in Int OBVIOUS
  <2> QED BY <1>1, <1>6, <1>7, <1>8, <1>11, <2>1, <2>2, ShiftOK, ZenonT(30)
<1>12. CASE Raise(g, "catchable") BY <1>2, <1>5, <1>10, <1>12, RaiseOK
<1> QED BY <1>1, <1>11, <1>12

LEMMA IterDropOK ==
  ASSUME Accepted, RunOK, Static, ITER_DROP
  PROVE  RunOK'
<1> DEFINE S == {"IterDrop"}
           f == Popped(Running, 1)
<1>1. At_op(S) /\ S \cap Ends = {} /\ Done(f) BY DEF ITER_DROP, Ends
<1>2. This.op \in S /\ Now \in States /\ Len(Running.stack) \in Nat BY <1>1, ArmFacts DEF Now
<1>3. takes(This.op) = 1 BY <1>2 DEF takes
<1>4. f \in Frames /\ f.pc = Running.pc /\ f.handler_base = Running.handler_base
      /\ Len(f.stack) = Len(Running.stack) + (-1)
  BY <1>1, <1>2, <1>3, Takes
<1>5. Changed(Onward, Now, -1, -1, 0) BY <1>2, Effects DEF Onward
<1>6. Len(f.stack) - Len(Running.stack) + (-1) <= -1 BY <1>2, <1>4
<1>7. ~Bare BY <1>1, <1>2, BareArms
<1> HIDE DEF f, S
<1> QED BY <1>1, <1>4, <1>5, <1>6, <1>7, ShiftOK

LEMMA IterNextOK ==
  ASSUME Accepted, RunOK, Static, ITER_NEXT
  PROVE  RunOK'
<1> DEFINE S == Advances
           f == Popped(Running, 1)
           h == Pushed(Running, "v")
<1>1. /\ At_op(S) /\ S \cap Ends = {} /\ S \subseteq Targeted
      /\ \/ transfer(IF This.op = "IterNext" THEN h ELSE Running, This.arg)
         \/ Done(f)
         \/ Raise(Running, "catchable")
  BY DEF ITER_NEXT, Ends, Advances, Targeted
<1>2. This.op \in S /\ Now \in States /\ phase = "run" /\ raised = "none" /\ Running \in Frames
  BY <1>1, ArmFacts DEF Now
<1>3. /\ Len(Running.stack) \in Nat /\ Len(Running.stack) <= label[Running.pc].operands
      /\ Now.operands \in Nat /\ Now.iters \in Nat /\ Len(Running.stack) + Now.iters <= Now.operands
      /\ ~Underflows(This.op, Now)
  BY <1>1, ArmEffects
<1>4. takes(This.op) = 1 BY <1>2 DEF takes, Advances
<1>5. f \in Frames /\ f.pc = Running.pc /\ f.handler_base = Running.handler_base
      /\ Len(f.stack) = Len(Running.stack) + (-1)
  BY <1>1, <1>3, <1>4, Takes
<1>6. h \in Frames /\ h.pc = Running.pc /\ h.handler_base = Running.handler_base
      /\ Len(h.stack) = Len(Running.stack) + 1
  BY <1>2, StackFacts
<1>7. ~Bare BY <1>1, <1>2, BareArms
<1>8. Now.iters > 0 BY <1>2, <1>3 DEF Underflows
<1>9. Changed(Onward, Now, -2, -1, 0) BY <1>2, Effects DEF Onward
<1> HIDE DEF f, h
<1>10. CASE Done(f)
  <2> HIDE DEF S
  <2>1. Len(f.stack) - Len(Running.stack) + (-1) <= -2 BY <1>3, <1>5
  <2> QED BY <2>1, <1>1, <1>5, <1>7, <1>9, <1>10, ShiftOK
<1>11. CASE Raise(Running, "catchable") BY <1>2, <1>3, <1>11, RaiseOK
<1>12. CASE transfer(IF This.op = "IterNext" THEN h ELSE Running, This.arg)
  <2>1. CASE This.op = "IterNext"
    <3>1. transfer(h, This.arg) BY <1>12, <2>1
    <3>2. Changed(Away, Now, 1, 0, 0) BY <1>2, <2>1, Effects DEF Away
    <3>3. Len(h.stack) <= Now.operands /\ Len(h.stack) <= Len(Running.stack) + 1 BY <1>3, <1>6, <1>8
    <3> HIDE DEF S
    <3> QED BY <1>1, <1>6, <1>7, <3>1, <3>2, <3>3, GoOK
  <2>2. CASE This.op # "IterNext"
    <3>1. transfer(Running, This.arg) BY <1>12, <2>2
    <3>2. Changed(Away, Now, 0, 0, 0) BY <1>2, <2>2, Effects DEF Away, Advances
    <3>3. /\ Len(Running.stack) <= Now.operands /\ Len(Running.stack) = Len(Running.stack) + 0
          /\ Len(Running.stack) <= Len(Running.stack) + 0
      BY <1>3
    <3> HIDE DEF S
    <3> QED BY <1>1, <1>2, <1>7, <3>1, <3>2, <3>3, GoOK
  <2> QED BY <2>1, <2>2
<1> QED BY <1>1, <1>10, <1>11, <1>12

\* Arms that transfer control as they are, or move on.
LEMMA GoSelfOK ==
  ASSUME Accepted, RunOK, Static, JUMP \/ SKIP_IF_NOT_UNIT
  PROVE  RunOK'
<1> DEFINE S == {"Jump"}
           T == {"SkipIfNotUnit"}
<1>1. CASE At_op(S) /\ transfer(Running, This.arg)
  <2>1. S \subseteq Targeted BY DEF Targeted
  <2>2. This.op \in S /\ Now \in States /\ Running \in Frames BY <1>1, ArmFacts DEF Now
  <2>3. Changed(Away, Now, 0, 0, 0) BY <2>2, Effects DEF Away
  <2> HIDE DEF S
  <2>4. /\ Len(Running.stack) <= Now.operands /\ Len(Running.stack) = Len(Running.stack) + 0
        /\ Len(Running.stack) <= Len(Running.stack) + 0
    BY <1>1, ArmEffects
  <2> QED BY <1>1, <2>1, <2>2, <2>3, <2>4, GoOK
<1>2. CASE At_op(T) /\ transfer(Running, This.arg)
  <2>1. T \subseteq Targeted BY DEF Targeted, Branches
  <2>2. This.op \in T /\ Now \in States /\ Running \in Frames BY <1>2, ArmFacts DEF Now
  <2>3. Changed(Away, Now, 0, 0, 0) BY <2>2, Effects DEF Away
  <2> HIDE DEF T
  <2>4. /\ Len(Running.stack) <= Now.operands /\ Len(Running.stack) = Len(Running.stack) + 0
        /\ Len(Running.stack) <= Len(Running.stack) + 0
    BY <1>2, ArmEffects
  <2> QED BY <1>2, <2>1, <2>2, <2>3, <2>4, GoOK
<1>3. CASE At_op(T) /\ Done(Running)
  <2>1. T \cap Ends = {} BY DEF Ends
  <2>2. This.op \in T /\ Now \in States /\ Running \in Frames /\ Len(Running.stack) \in Nat
    BY <1>3, ArmFacts DEF Now
  <2>3. Changed(Onward, Now, 0, 0, 0) BY <2>2, Effects DEF Onward
  <2> HIDE DEF T
  <2>4. Len(Running.stack) = Len(Running.stack) + 0 BY <2>2
  <2> QED BY <1>3, <2>1, <2>2, <2>3, <2>4, EvenOK
<1> QED BY <1>1, <1>2, <1>3 DEF JUMP, SKIP_IF_NOT_UNIT

LEMMA JumpIfOK ==
  ASSUME Accepted, RunOK, Static, JUMP_IF
  PROVE  RunOK'
<1> DEFINE S == {"JumpIfFalse", "JumpIfTrue"}
           f == Popped(Running, 1)
<1>1. /\ At_op(S) /\ S \cap Ends = {} /\ S \subseteq Targeted
      /\ transfer(f, This.arg) \/ Done(f) \/ Raise(f, "catchable")
  BY DEF JUMP_IF, Ends, Branches, Targeted
<1>2. This.op \in S /\ Now \in States /\ phase = "run" /\ raised = "none" /\ Running \in Frames
  BY <1>1, ArmFacts DEF Now
<1>3. /\ Len(Running.stack) \in Nat /\ Len(Running.stack) <= label[Running.pc].operands
      /\ Now.operands \in Nat /\ Now.iters \in Nat /\ Len(Running.stack) + Now.iters <= Now.operands
  BY <1>1, ArmEffects
<1>4. takes(This.op) = 1 BY <1>2 DEF takes, Branches
<1>5. f \in Frames /\ f.pc = Running.pc /\ f.handler_base = Running.handler_base
      /\ Len(f.stack) = Len(Running.stack) + (-1)
  BY <1>1, <1>3, <1>4, Takes
<1>6. Changed(Onward, Now, -1, 0, 0) /\ Changed(Away, Now, -1, 0, 0) BY <1>2, Effects DEF Onward, Away
<1>7. /\ Len(f.stack) <= Now.operands /\ Len(f.stack) <= label[Running.pc].operands
      /\ Len(f.stack) <= Len(Running.stack) + (-1)
  BY <1>3, <1>5 DEF Now
<1> HIDE DEF f, S
<1>8. CASE transfer(f, This.arg) BY <1>1, <1>5, <1>6, <1>7, <1>8, GoOK
<1>9. CASE Done(f) BY <1>1, <1>5, <1>6, <1>9, EvenOK
<1>10. CASE Raise(f, "catchable") BY <1>2, <1>5, <1>7, <1>10, RaiseOK
<1> QED BY <1>1, <1>8, <1>9, <1>10

LEMMA CheckpointOK ==
  ASSUME Accepted, RunOK, Static, CHECKPOINT
  PROVE  RunOK'
<1> DEFINE S == {"Checkpoint"}
           f == [Running EXCEPT !.mark = Running.scope]
<1>1. At_op(S) /\ S \cap Ends = {} BY DEF CHECKPOINT, Ends
<1>2. This.op \in S /\ Now \in States /\ phase = "run" /\ raised = "none" /\ Running \in Frames
      /\ Len(Running.stack) \in Nat
  BY <1>1, ArmFacts DEF Now
<1>3. Changed(Onward, Now, 0, 0, 0) BY <1>2, Effects DEF Onward
<1>4. Len(Running.stack) = Len(Running.stack) + 0 BY <1>2
<1>5. CASE Done(Running)
  <2> HIDE DEF S
  <2> QED BY <1>1, <1>2, <1>3, <1>4, <1>5, EvenOK
<1>6. CASE ~Done(Running)
  <2>1. /\ unwind_floor' = Running.scope /\ Put(Next_pc(f))
        /\ UNCHANGED <<phase, handlers, raised, ops, host, fault, cut>>
    BY <1>6 DEF CHECKPOINT
  <2>2. Running.scope \in Nat BY <1>2 DEF Frames
  <2>3. Counted BY <2>1, <2>2 DEF Counted, RunOK, RunTypes
  <2>4. f \in Frames /\ f.pc = Running.pc /\ f.handler_base = Running.handler_base /\ f.stack = Running.stack
    BY <1>2, <2>2 DEF Frames
  <2>5. Len(Running.stack) + Now.iters <= Now.operands /\ (Bare => Len(Running.stack) = Now.operands)
        /\ Now.operands \in Nat /\ Now.iters \in Nat /\ Now.handlers \in Nat
    BY <1>1, ArmEffects
  <2>6. /\ Len(f.stack) + Onward.iters <= Onward.operands /\ (Bare => Len(f.stack) = Onward.operands)
        /\ Onward.handlers = Now.handlers
    BY <1>3, <2>4, <2>5 DEF Changed
  <2>7. This.op \notin Ends BY <1>1, <1>2
  <2> HIDE DEF f
  <2> QED BY <1>2, <2>1, <2>3, <2>4, <2>6, <2>7, MovedNext
<1> QED BY <1>5, <1>6

LEMMA CallNativeOK ==
  ASSUME Accepted, RunOK, Static, CALL_native
  PROVE  RunOK'
<1> DEFINE S == {"Call"}
           f == Pushed(Running, "v")
<1>1. /\ At_op(S) /\ S \cap Ends = {} /\ ops' = ops + 1
      /\ UNCHANGED <<phase, handlers, unwind_floor, host, fault, cut>>
      /\ \/ Unpaid /\ raised' = "system" /\ UNCHANGED frames
         \/ ~Unpaid /\ Put(Next_pc(f)) /\ UNCHANGED raised
         \/ ~Unpaid /\ raised' = "catchable" /\ UNCHANGED frames
  BY DEF CALL_native, Ends
<1>2. This.op \in S /\ Now \in States /\ phase = "run" /\ raised = "none" /\ Running \in Frames
  BY <1>1, ArmFacts DEF Now
<1>3. ops \in Nat /\ ops <= MaxOps /\ MaxOps \in Nat BY <1>2, GrainAssumption DEF RunOK, RunTypes
<1>4. Counted
  <2>1. ops' \in 0..(MaxOps + 1) /\ (~Unpaid => ops' <= MaxOps) BY <1>1, <1>3 DEF Unpaid
  <2> QED BY <1>1, <1>2, <2>1 DEF Counted, RunOK, RunTypes
<1>5. /\ Len(Running.stack) \in Nat /\ Len(Running.stack) <= label[Running.pc].operands
      /\ Now.operands \in Nat /\ Now.iters \in Nat /\ Now.handlers \in Nat
      /\ Len(Running.stack) + Now.iters <= Now.operands /\ (Bare => Len(Running.stack) = Now.operands)
  BY <1>1, ArmEffects
<1>6. CASE raised' # "none" /\ UNCHANGED frames
  <2>1. Put(Running) BY <1>2, <1>6, PutSelf
  <2> QED BY <1>1, <1>2, <1>4, <1>5, <1>6, <2>1, FailedOK
<1>7. CASE Put(Next_pc(f)) /\ UNCHANGED raised
  <2>1. f \in Frames /\ f.pc = Running.pc /\ f.handler_base = Running.handler_base
        /\ Len(f.stack) = Len(Running.stack) + 1
    BY <1>2, StackFacts
  <2>2. Changed(Onward, Now, 1, 0, 0) BY <1>2, Effects DEF Onward
  <2>3. /\ Len(f.stack) + Onward.iters <= Onward.operands /\ (Bare => Len(f.stack) = Onward.operands)
        /\ Onward.handlers = Now.handlers
    BY <1>5, <2>1, <2>2 DEF Changed
  <2>4. This.op \notin Ends BY <1>1, <1>2
  <2> HIDE DEF f
  <2> QED BY <1>1, <1>2, <1>4, <1>7, <2>1, <2>3, <2>4, MovedNext
<1> QED BY <1>1, <1>6, <1>7

\* What the arms that arm and disarm handlers leave of the frame.
LEMMA OnwardFacts ==
  ASSUME Accepted, RunOK, NEW S, At_op(S), S \cap Ends = {}
  PROVE  LET g == Next_pc(Running)
         IN /\ g \in Frames /\ g.handler_base = Running.handler_base /\ g.stack = Running.stack
            /\ g.pc \in DOMAIN label /\ label[g.pc] = Onward
<1> DEFINE p == Running.pc + width(This.op)
           g == Next_pc(Running)
<1>1. Running \in Frames /\ Running.pc \in DOMAIN label /\ This = code[Running.pc] /\ This.op \in S
  BY ArmFacts
<1>2. p \in DOMAIN label /\ label[p] = Onward BY <1>1, LabelFacts DEF Onward, Now
<1>3. p \in Nat \ {0} BY <1>2, LabelFacts
<1>4. g = [Running EXCEPT !.pc = p] BY <1>1 DEF Next_pc
<1> HIDE DEF p, g
<1>5. g \in Frames /\ g.pc = p /\ g.stack = Running.stack /\ g.handler_base = Running.handler_base
  BY <1>1, <1>3, <1>4 DEF Frames
<1> QED BY <1>2, <1>5 DEF g

LEMMA PushHandlerOK ==
  ASSUME Accepted, RunOK, Static, PUSH_HANDLER
  PROVE  RunOK'
<1> DEFINE S == {"PushHandler"}
           g == Next_pc(Running)
           h == [target |-> This.arg, operands |-> Len(Running.stack), scope_len |-> Running.scope,
                 caught |-> FALSE, owner |-> Len(frames)]
           b == Running.handler_base
<1>1. /\ At_op(S) /\ S \cap Ends = {} /\ Put(g) /\ handlers' = Append(handlers, h)
      /\ UNCHANGED <<phase, unwind_floor, raised, ops, host, fault, cut>>
  BY DEF PUSH_HANDLER, Ends
<1>2. This.op \in S /\ Now \in States /\ phase = "run" /\ raised = "none" /\ cut = FALSE
      /\ Running.pc \in DOMAIN label /\ This = code[Running.pc]
  BY <1>1, ArmFacts DEF Now
<1>3. /\ Len(Running.stack) \in Nat /\ Len(Running.stack) + Now.iters <= Now.operands
      /\ Now.operands \in Nat /\ Now.iters \in Nat /\ Now.handlers \in Nat
  BY <1>1, ArmEffects
<1>4. ~Bare BY <1>1, <1>2, BareArms
<1>5. Changed(Onward, Now, 0, 0, 1) /\ Changed(Away, Now, 0, 0, 1) BY <1>2, Effects DEF Onward, Away
<1>6. /\ b \in Nat /\ b <= Len(handlers) /\ handlers \in Seq(Handlers) /\ Len(handlers) \in Nat
      /\ Running.scope \in Nat /\ Len(frames) \in Nat /\ Len(handlers) - b = Now.handlers
  BY <1>2, RunningFacts DEF Now
<1>7. This.arg \in DOMAIN label /\ label[This.arg] = Away BY <1>2, LabelFacts DEF Away, Now, Targeted
<1>8. This.arg \in Nat \ {0} BY <1>7, LabelFacts
<1>9. h \in Handlers /\ h.target = This.arg /\ h.owner = Len(frames) /\ h.operands = Len(Running.stack)
  BY <1>3, <1>6, <1>8 DEF Handlers
<1>10. HandlerFits(h, Len(handlers) + 1 - b, Len(frames))
  <2> HIDE DEF h, b
  <2>1. Away.operands = Now.operands /\ Away.iters = Now.iters /\ Away.handlers = Now.handlers + 1
    BY <1>3, <1>5 DEF Changed
  <2>2. label[h.target].handlers = Len(handlers) + 1 - b BY <1>3, <1>6, <1>7, <1>9, <2>1
  <2>3. h.operands + label[h.target].iters <= label[h.target].operands BY <1>3, <1>7, <1>9, <2>1
  <2> QED BY <1>7, <1>9, <2>2, <2>3 DEF HandlerFits
<1> HIDE DEF h, b
<1>11. /\ handlers' \in Seq(Handlers) /\ Len(handlers') = Len(handlers) + 1
       /\ handlers'[Len(handlers) + 1] = h
       /\ \A j \in 1..Len(handlers) : handlers'[j] = handlers[j]
  BY <1>1, <1>6, <1>9
<1>12. \A j \in (b + 1)..Len(handlers) : HandlerFits(handlers[j], j - b, Len(frames))
  BY <1>2, OwnHandlers DEF b
<1>13. ASSUME NEW j \in (b + 1)..Len(handlers')
       PROVE  HandlerFits(handlers'[j], j - b, Len(frames))
  <2>1. CASE j = Len(handlers) + 1 BY <2>1, <1>6, <1>10, <1>11
  <2>2. CASE j # Len(handlers) + 1
    <3>1. j \in (b + 1)..Len(handlers) /\ j \in 1..Len(handlers) BY <2>2, <1>6, <1>11
    <3> QED BY <3>1, <1>11, <1>12
  <2> QED BY <2>1, <2>2
<1>14. /\ g \in Frames /\ g.handler_base = b /\ g.stack = Running.stack
       /\ g.pc \in DOMAIN label /\ label[g.pc] = Onward
  BY <1>1, OnwardFacts DEF b
<1>15. /\ Len(g.stack) + label[g.pc].iters <= label[g.pc].operands
       /\ Len(g.stack) <= label[g.pc].operands
       /\ Len(handlers') - b = label[g.pc].handlers
  BY <1>3, <1>5, <1>6, <1>11, <1>14 DEF Changed
<1>16. Counted BY <1>1, SameCounted
<1>17. b <= Len(handlers') /\ \A j \in 1..b : handlers'[j] = handlers[j] BY <1>6, <1>11
<1> HIDE DEF g
<1> QED BY <1>1, <1>2, <1>4, <1>11, <1>13, <1>14, <1>15, <1>16, <1>17, HandledOK DEF b

LEMMA PopHandlerOK ==
  ASSUME Accepted, RunOK, Static, POP_HANDLER
  PROVE  RunOK'
<1> DEFINE S == {"PopHandler"}
           g == Next_pc(Running)
           b == Running.handler_base
           n == Len(handlers) - 1
<1>1. /\ At_op(S) /\ S \cap Ends = {} /\ Put(g) /\ handlers' = SubSeq(handlers, 1, n)
      /\ UNCHANGED <<phase, unwind_floor, raised, ops, host, fault, cut>>
  BY DEF POP_HANDLER, Ends
<1>2. This.op \in S /\ Now \in States /\ phase = "run" /\ raised = "none" /\ cut = FALSE
  BY <1>1, ArmFacts DEF Now
<1>3. /\ Len(Running.stack) \in Nat /\ Len(Running.stack) + Now.iters <= Now.operands
      /\ Now.operands \in Nat /\ Now.iters \in Nat /\ Now.handlers \in Nat
      /\ Bare => Len(Running.stack) = Now.operands
      /\ ~Underflows(This.op, Now)
  BY <1>1, ArmEffects
<1>4. Changed(Onward, Now, 0, 0, -1) BY <1>2, Effects DEF Onward
<1>5. /\ b \in Nat /\ handlers \in Seq(Handlers) /\ Len(handlers) \in Nat
      /\ Len(frames) \in Nat /\ Len(handlers) - b = Now.handlers
  BY <1>2, RunningFacts DEF Now
<1>6. Now.handlers > 0 BY <1>2, <1>3 DEF Underflows
<1>7. n \in Nat /\ n <= Len(handlers) /\ b <= n BY <1>3, <1>5, <1>6
<1> HIDE DEF b, n
<1>8. /\ handlers' \in Seq(Handlers) /\ Len(handlers') = n
      /\ \A j \in 1..n : handlers'[j] = handlers[j]
  BY <1>1, <1>5, <1>7, FirstN
<1>9. \A j \in (b + 1)..Len(handlers) : HandlerFits(handlers[j], j - b, Len(frames))
  BY <1>2, OwnHandlers DEF b
<1>10. ASSUME NEW j \in (b + 1)..Len(handlers')
       PROVE  HandlerFits(handlers'[j], j - b, Len(frames))
  <2>1. j \in (b + 1)..Len(handlers) /\ j \in 1..n BY <1>5, <1>7, <1>8
  <2> QED BY <2>1, <1>8, <1>9
<1>11. /\ g \in Frames /\ g.handler_base = b /\ g.stack = Running.stack
       /\ g.pc \in DOMAIN label /\ label[g.pc] = Onward
  BY <1>1, OnwardFacts DEF b
<1>12. /\ Len(g.stack) + label[g.pc].iters <= label[g.pc].operands
       /\ Len(g.stack) <= label[g.pc].operands
       /\ Len(handlers') - b = label[g.pc].handlers
       /\ Bare => Len(g.stack) = label[g.pc].operands
  BY <1>3, <1>4, <1>5, <1>8, <1>11, SMTT(30) DEF Changed, n
<1>13. Counted BY <1>1, SameCounted
<1>14. b <= Len(handlers') /\ \A j \in 1..b : handlers'[j] = handlers[j] BY <1>5, <1>7, <1>8
<1> HIDE DEF g
<1> QED BY <1>1, <1>2, <1>8, <1>10, <1>11, <1>12, <1>13, <1>14, HandledOK DEF b

-----------------------------------------------------------------------------
(* Errors. *)

\* Of some of the numbers up to n one is the largest.
LEMMA LargestOf ==
  ASSUME NEW n \in Nat, NEW X, X \subseteq 1..n, X # {}
  PROVE  \E m \in X : \A j \in X : j <= m
<1> DEFINE R == OpToRel(<, Nat)
           T == {n - j : j \in X}
<1>1. IsWellFoundedOn(R, Nat) BY NatLessThanWellFounded
<1>2. T \subseteq Nat /\ T # {}
  <2>1. \A j \in X : j \in 1..n OBVIOUS
  <2>2. \A j \in X : n - j \in Nat BY <2>1
  <2>3. T \subseteq Nat BY <2>2
  <2> QED BY <2>3
<1>3. \A x, y \in Nat : y < x => <<y, x>> \in R BY DEF OpToRel
<1> HIDE DEF R, T
<1>4. PICK x \in T : \A y \in T : ~(<<y, x>> \in R) BY <1>1, <1>2, WFMin
<1>5. PICK m \in X : x = n - m BY DEF T
<1>6. \A j \in X : n - j \in T /\ ~(n - j < x) BY <1>2, <1>3, <1>4 DEF T
<1> QED BY <1>5, <1>6
\* A catch block that is entered is one that the running frame has armed.
LEMMA CaughtFacts ==
  ASSUME Accepted, RunOK, phase = "run", Caught
  PROVE  /\ ~cut /\ raised = "catchable"
         /\ Innermost \in (Running.handler_base + 1)..Len(handlers)
         /\ Innermost \in Nat \ {0}
         /\ handlers[Innermost] \in Handlers
         /\ HandlerFits(handlers[Innermost], Innermost - Running.handler_base, Len(frames))
         /\ ~Bare
<1>1. raised = "catchable" /\ Armed # {} BY DEF Caught, is_catchable
<1>2. ~cut BY <1>1 DEF RunOK
<1>3. /\ handlers \in Seq(Handlers) /\ Running.handler_base \in Nat /\ Len(handlers) \in Nat
      /\ Len(handlers) - Running.handler_base = label[Running.pc].handlers
      /\ Running.pc \in DOMAIN label
  BY <1>2, RunningFacts
<1>4. Armed \subseteq (Running.handler_base + 1)..Len(handlers) BY DEF Armed
<1>5. \E m \in Armed : \A j \in Armed : j <= m
  <2>1. Armed \subseteq 1..Len(handlers) BY <1>3, <1>4
  <2> QED BY <1>1, <1>3, <2>1, LargestOf
<1>6. Innermost \in Armed BY <1>5 DEF Innermost
<1>7. Innermost \in (Running.handler_base + 1)..Len(handlers) /\ Innermost \in 1..Len(handlers)
  BY <1>3, <1>4, <1>6
<1>8. HandlerFits(handlers[Innermost], Innermost - Running.handler_base, Len(frames))
  BY <1>2, <1>7, OwnHandlers
<1>9. handlers[Innermost] \in Handlers BY <1>3, <1>7
<1>10. ~Bare
  <2>1. Bare => label[Running.pc].handlers = 0 BY <1>3, LabelFacts
  <2> QED BY <2>1, <1>3, <1>7
<1> QED BY <1>1, <1>2, <1>3, <1>7, <1>8, <1>9, <1>10

LEMMA CatchOK ==
  ASSUME Accepted, RunOK, Static, catch
  PROVE  RunOK'
<1> DEFINE m == Innermost
           h == handlers[m]
           b == Running.handler_base
           c == Lesser(Len(Running.stack), h.operands)
           g == Resumed
           u == SubSeq(handlers, 1, m)
<1>1. /\ phase = "run" /\ Caught /\ ~Unpaid /\ Put(g) /\ raised' = "none" /\ ops' = ops + 1
      /\ handlers' = [u EXCEPT ![m].caught = TRUE]
      /\ UNCHANGED <<phase, unwind_floor, host, fault, cut>>
  BY DEF catch
<1>2. /\ ~cut /\ m \in (b + 1)..Len(handlers) /\ m \in Nat \ {0} /\ h \in Handlers
      /\ HandlerFits(h, m - b, Len(frames)) /\ ~Bare
  BY <1>1, CaughtFacts
<1>3. /\ Running \in Frames /\ Running.stack \in Seq({"v", "i"}) /\ Len(Running.stack) \in Nat
      /\ b \in Nat /\ handlers \in Seq(Handlers) /\ Len(handlers) \in Nat /\ Running.scope \in Nat
  BY <1>1, RunningFacts
<1>4. /\ h.target \in Nat \ {0} /\ h.operands \in Nat /\ h.scope_len \in Nat
      /\ h.target \in DOMAIN label
  BY <1>2 DEF Handlers, HandlerFits
<1>5. label[h.target].operands \in Nat /\ label[h.target].iters \in Nat /\ label[h.target].handlers = m - b
      /\ h.operands + label[h.target].iters <= label[h.target].operands
  <2>1. label[h.target] \in States BY <1>4, LabelFacts
  <2> QED BY <2>1, <1>2 DEF States, HandlerFits
<1>6. c \in Nat /\ c <= Len(Running.stack) /\ c <= h.operands BY <1>3, <1>4 DEF Lesser
<1>7. /\ g \in Frames /\ g.pc = h.target /\ g.handler_base = b
      /\ Len(g.stack) = c
  <2> DEFINE t == SubSeq(Running.stack, 1, c)
             s == Lesser(Running.scope, h.scope_len)
  <2>1. t \in Seq({"v", "i"}) /\ Len(t) = c BY <1>3, <1>6, FirstN
  <2>2. s \in Nat BY <1>3, <1>4 DEF Lesser
  <2> DEFINE x == [Running EXCEPT !.stack = t, !.scope = s]
             p == h.target
  <2>3. g = [x EXCEPT !.scope = @ + 1, !.pc = p] BY DEF Resumed, Cut_back
  <2>4. p \in Nat \ {0} BY <1>4
  <2> HIDE DEF t, s, g, h, p
  <2>5. x \in Frames /\ x.stack = t /\ x.handler_base = Running.handler_base
    BY <2>1, <2>2, <1>3 DEF Frames
  <2> DEFINE q == x.scope + 1
  <2>7. g = [x EXCEPT !.scope = q, !.pc = p] BY <2>3
  <2> HIDE DEF x
  <2>8. q \in Nat BY <2>5 DEF Frames
  <2> HIDE DEF q
  <2>6. g \in Frames /\ g.pc = p /\ g.handler_base = Running.handler_base /\ g.stack = t
    BY <2>4, <2>5, <2>7, <2>8 DEF Frames
  <2> QED BY <2>1, <2>6 DEF p
<1> HIDE DEF g, c, b
<1>8. /\ u \in Seq(Handlers) /\ Len(u) = m /\ \A j \in 1..m : u[j] = handlers[j] BY <1>2, <1>3, FirstN
<1> HIDE DEF u
<1>9. /\ handlers' \in Seq(Handlers) /\ Len(handlers') = m
      /\ \A j \in 1..m : j # m => handlers'[j] = handlers[j]
      /\ handlers'[m] = [h EXCEPT !.caught = TRUE]
  <2>1. [h EXCEPT !.caught = TRUE] \in Handlers BY <1>2 DEF Handlers
  <2>2. u[m] = h /\ m \in 1..m BY <1>2, <1>8
  <2> HIDE DEF h, m
  <2> QED BY <2>1, <2>2, <1>1, <1>8
<1>10. HandlerFits(handlers'[m], m - b, Len(frames)) BY <1>2, <1>9 DEF HandlerFits, Handlers
<1>11. \A j \in (b + 1)..Len(handlers) : HandlerFits(handlers[j], j - b, Len(frames))
  BY <1>1, <1>2, OwnHandlers DEF b
<1> HIDE DEF h, m
<1>12. ASSUME NEW j \in (b + 1)..Len(handlers')
       PROVE  HandlerFits(handlers'[j], j - b, Len(frames))
  <2>1. CASE j = m BY <2>1, <1>10
  <2>2. CASE j # m
    <3>1. j \in (b + 1)..Len(handlers) /\ j \in 1..m BY <1>2, <1>3, <1>9
    <3> QED BY <3>1, <2>2, <1>9, <1>11
  <2> QED BY <2>1, <2>2
<1>13. b <= Len(handlers') /\ Len(handlers') - b = label[g.pc].handlers
       /\ \A j \in 1..b : handlers'[j] = handlers[j]
  BY <1>2, <1>3, <1>5, <1>7, <1>9
<1>14. /\ g.pc \in DOMAIN label /\ Len(g.stack) <= label[g.pc].operands
       /\ Len(g.stack) + label[g.pc].iters <= label[g.pc].operands
  BY <1>4, <1>5, <1>6, <1>7
<1>15. Counted
  <2>1. ops \in Nat /\ ops <= MaxOps /\ MaxOps \in Nat
    BY <1>1, <1>2, CaughtFacts, GrainAssumption DEF RunOK, RunTypes
  <2>2. ops' \in 0..(MaxOps + 1) /\ ops' <= MaxOps BY <1>1, <2>1 DEF Unpaid
  <2> QED BY <1>1, <1>2, <2>2 DEF Counted, RunOK, RunTypes
<1> QED BY <1>1, <1>2, <1>7, <1>9, <1>12, <1>13, <1>14, <1>15, HandledOK DEF b

-----------------------------------------------------------------------------
(* Frames come and go. *)

LEMMA CallCompiledOK ==
  ASSUME Accepted, RunOK, Static, call_compiled
  PROVE  RunOK'
<1> DEFINE S == {"Call"}
           k == Len(frames)
           g == Frame(0)
<1>1. /\ At_op(S) /\ ops' = ops + 1
      /\ UNCHANGED <<phase, handlers, host, fault, cut>>
      /\ \/ raised' = "system" /\ UNCHANGED <<frames, unwind_floor>>
         \/ ~Unpaid /\ frames' = Append(frames, g) /\ unwind_floor' = 0 /\ UNCHANGED raised
  BY DEF call_compiled
<1>2. This.op \in S /\ phase = "run" /\ raised = "none" /\ Running \in Frames /\ cut = FALSE
      /\ This = code[Running.pc]
  BY <1>1, ArmFacts
<1>3. ops \in Nat /\ ops <= MaxOps /\ MaxOps \in Nat BY <1>2, GrainAssumption DEF RunOK, RunTypes
<1>4. Counted
  <2>1. ops' \in 0..(MaxOps + 1) /\ (~Unpaid => ops' <= MaxOps) BY <1>1, <1>3 DEF Unpaid
  <2>2. unwind_floor' \in Nat BY <1>1 DEF RunOK, RunTypes
  <2> QED BY <1>1, <1>2, <2>1, <2>2 DEF Counted, RunOK, RunTypes
<1>5. CASE raised' = "system" /\ UNCHANGED frames
  <2>1. Put(Running) BY <1>2, <1>5, PutSelf
  <2>2. Len(Running.stack) <= label[Running.pc].operands BY <1>1, ArmEffects
  <2> QED BY <1>1, <1>2, <1>4, <1>5, <2>1, <2>2, FailedOK
<1>6. CASE frames' = Append(frames, g) /\ UNCHANGED raised
  <2>1. /\ k \in Nat \ {0} /\ frames \in Seq(Frames) /\ Running = frames[k]
        /\ handlers \in Seq(Handlers) /\ Len(handlers) \in Nat
    BY <1>2, RunningFacts DEF RunOK, RunTypes
  <2>2. /\ g \in Frames /\ g.pc = 1 /\ g.stack = <<>> /\ g.handler_base = Len(handlers)
    <3>1. unwind_floor \in Nat BY DEF RunOK, RunTypes
    <3> QED BY <2>1, <3>1 DEF Frame, Frames
  <2> HIDE DEF g, k
  <2>3. /\ frames' \in Seq(Frames) /\ Len(frames') = k + 1 /\ frames'[k + 1] = g
        /\ \A i \in 1..k : frames'[i] = frames[i]
    BY <1>6, <2>1, <2>2 DEF k
  <2>4. 1 \in DOMAIN label /\ label[1] = Zero BY EntryFacts
  <2>5. \A i \in 1..(k + 1) : i \in 1..k \/ i = k + 1 BY <2>1
  <2>6. BasesOK'
    <3>1. \A i \in 1..k : frames[i].handler_base <= Len(handlers) BY DEF RunOK, BasesOK, k
    <3>2. \A i, j \in 1..k : i <= j => frames[i].handler_base <= frames[j].handler_base
      BY DEF RunOK, BasesOK, k
    <3>3. ASSUME NEW i \in 1..(k + 1), NEW j \in 1..(k + 1), i <= j
          PROVE  frames'[i].handler_base <= frames'[j].handler_base
      <4>1. CASE j = k + 1 BY <4>1, <3>1, <2>1, <2>2, <2>3, <2>5
      <4>2. CASE j \in 1..k
        <5>1. i \in 1..k BY <4>2, <3>3, <2>1
        <5> QED BY <5>1, <4>2, <3>2, <3>3, <2>3
      <4> QED BY <4>1, <4>2, <2>5
    <3>4. \A i \in 1..(k + 1) : frames'[i].handler_base <= Len(handlers')
      BY <3>1, <1>1, <2>1, <2>2, <2>3, <2>5
    <3> QED BY <3>3, <3>4, <2>3 DEF BasesOK
  <2>7. ASSUME NEW i \in 1..(k + 1)
        PROVE  Labelled(i)'
    <3>1. CASE i = k + 1
      <4>1. ~(i < Len(frames')) /\ frames'[i] = g BY <3>1, <2>1, <2>3
      <4> QED BY <4>1, <2>2, <2>4 DEF Labelled, LabelOf, Static, Zero
    <3>2. CASE i \in 1..k
      <4>1. Labelled(i) /\ Settled(i) BY <3>2, <1>2 DEF RunOK, Settled, k
      <4>2. frames'[i] = frames[i] /\ i < Len(frames') BY <3>2, <2>1, <2>3
      <4>3. code[frames[i].pc].op = "Call"
        <5>1. CASE i = k BY <5>1, <1>2, <2>1
        <5>2. CASE i # k
          <6>1. i < Len(frames) BY <5>2, <3>2, <2>1 DEF k
          <6> QED BY <6>1, <4>1 DEF Labelled
        <5> QED BY <5>1, <5>2
      <4> QED BY <4>1, <4>2, <4>3 DEF Labelled, LabelOf, Static
    <3> QED BY <3>1, <3>2, <2>5
  <2>8. ASSUME NEW i \in 1..k
        PROVE  Up(i)' = Up(i)
    <3>1. CASE i = k BY <3>1, <2>1, <2>2, <2>3 DEF Up, k
    <3>2. CASE i # k
      <4>1. i + 1 \in 1..k BY <3>2, <2>1
      <4> QED BY <4>1, <3>2, <2>1, <2>3 DEF Up, k
    <3> QED BY <3>1, <3>2
  <2>9. ASSUME NEW i \in 1..(k + 1)
        PROVE  Armoured(i)'
    <3>1. CASE i = k + 1
      <4>1. /\ Up(i)' = Len(handlers) /\ frames'[i].handler_base = Len(handlers)
            /\ LabelOf(i)'.handlers = 0
        BY <3>1, <1>1, <2>1, <2>2, <2>3, <2>4 DEF Up, LabelOf, Static, Zero
      <4> QED BY <4>1, <2>1 DEF Armoured
    <3>2. CASE i \in 1..k
      <4>1. Armoured(i) BY <3>2, <1>2 DEF RunOK, k
      <4>2. frames'[i] = frames[i] /\ LabelOf(i)' = LabelOf(i) /\ Up(i)' = Up(i)
        BY <3>2, <2>3, <2>8 DEF LabelOf, Static
      <4>3. \A j : HandlerOK(j, i)' <=> HandlerOK(j, i) BY <4>2, <1>1 DEF HandlerOK, HandlerFits, Static
      <4> QED BY <4>1, <4>2, <4>3 DEF Armoured
    <3> QED BY <3>1, <3>2, <2>5
  <2>10. ASSUME Bare, NEW i \in 1..(k + 1)
         PROVE  Exact(i)'
    <3>1. CASE i = k + 1 BY <3>1, <2>1, <2>2, <2>3, <2>4 DEF Exact, LabelOf, Static, Zero
    <3>2. CASE i \in 1..k
      <4>1. Exact(i) BY <3>2, <2>10, <1>2 DEF RunOK, Settled, k
      <4> QED BY <4>1, <3>2, <2>3 DEF Exact, LabelOf, Static
    <3> QED BY <3>1, <3>2, <2>5
  <2>11. RunTypes' BY <1>1, <1>4, <2>1, <2>3 DEF RunTypes, Counted, RunOK
  <2>12. Bare' <=> Bare BY BareStatic
  <2> QED BY <1>2, <1>4, <2>1, <2>3, <2>6, <2>7, <2>9, <2>10, <2>11, <2>12 DEF RunOK, Counted
<1> QED BY <1>1, <1>5, <1>6

\* What a frame that called is when the call has returned or failed.
LEMMA CallerFacts ==
  ASSUME Accepted, RunOK, phase = "run", NEW i \in 1..Len(frames), i < Len(frames), NEW value \in BOOLEAN
  PROVE  LET f == frames[i]
             g == IF value THEN Next_pc(Pushed(f, "v")) ELSE f
         IN /\ g \in Frames /\ g.handler_base = f.handler_base /\ g.pc \in DOMAIN label
            /\ Len(g.stack) + label[g.pc].iters <= label[g.pc].operands
            /\ Len(g.stack) <= label[g.pc].operands
            /\ label[g.pc].handlers = label[f.pc].handlers
            /\ Bare => Len(g.stack) = label[g.pc].operands
<1> DEFINE f == frames[i]
           s == label[f.pc]
           x == Pushed(f, "v")
           g == Next_pc(x)
           p == f.pc + width("Call")
           n == AtNext("Call", s)
<1>1. f \in Frames BY DEF RunOK, RunTypes
<1>2. /\ f.pc \in DOMAIN label /\ code[f.pc].op = "Call"
      /\ Len(f.stack) + s.iters <= s.operands /\ Len(f.stack) <= s.operands
      /\ Bare => Len(f.stack) = s.operands
  BY DEF RunOK, Labelled, LabelOf, Settled, Exact
<1>3. s \in States /\ p \in DOMAIN label /\ label[p] = n BY <1>2, LabelFacts DEF Ends
<1>4. p \in Nat \ {0} /\ n \in States BY <1>3, LabelFacts
<1>5. Changed(n, s, 1, 0, 0) BY <1>3, Effects
<1>6. x \in Frames /\ x.pc = f.pc /\ x.handler_base = f.handler_base /\ Len(x.stack) = Len(f.stack) + 1
      /\ Len(f.stack) \in Nat
  BY <1>1, StackFacts
<1>7. g = [x EXCEPT !.pc = p] BY <1>2, <1>6 DEF Next_pc
<1> HIDE DEF x, p, g, n
<1>8. g \in Frames /\ g.pc = p /\ g.handler_base = f.handler_base /\ g.stack = x.stack
  BY <1>4, <1>6, <1>7 DEF Frames
<1>9. s.operands \in Nat /\ s.iters \in Nat /\ s.handlers \in Nat BY <1>3 DEF States
<1>10. n.operands = s.operands + 1 /\ n.iters = s.iters /\ n.handlers = s.handlers
  BY <1>5, <1>9 DEF Changed
<1> HIDE DEF f, s
<1>11. /\ g.pc \in DOMAIN label
       /\ Len(g.stack) + label[g.pc].iters <= label[g.pc].operands
       /\ Len(g.stack) <= label[g.pc].operands
       /\ label[g.pc].handlers = s.handlers
       /\ Bare => Len(g.stack) = label[g.pc].operands
  BY <1>2, <1>3, <1>6, <1>8, <1>9, <1>10, SMTT(30)
<1>12. label[f.pc] = s BY DEF s
<1>13. CASE value BY <1>8, <1>11, <1>12, <1>13 DEF f, g, x
<1>14. CASE ~value BY <1>1, <1>2, <1>12, <1>14 DEF f
<1> QED BY <1>13, <1>14

\* The running frame goes.
LEMMA LeftOK ==
  ASSUME Accepted, RunOK, phase = "run", Static,
         NEW value \in BOOLEAN, NEW scope \in Nat, Without(value, scope),
         handlers' \in Seq(Handlers), Running.handler_base <= Len(handlers'),
         \A j \in 1..Running.handler_base : handlers'[j] = handlers[j],
         Counted, raised' = "none" => value,
         ~cut' => Len(handlers') = Running.handler_base
  PROVE  RunOK'
<1> DEFINE k == Len(frames)
           q == k - 1
<1>1. /\ k \in Nat \ {0} /\ Running = frames[k] /\ k \in 1..k /\ frames \in Seq(Frames)
      /\ Running.handler_base \in Nat /\ Len(handlers') \in Nat
  <2>1. Len(handlers') \in Nat OBVIOUS
  <2>2. frames \in Seq(Frames) BY DEF RunOK, RunTypes
  <2> QED BY <2>1, <2>2, RunningFacts
<1>2. Bare' <=> Bare BY BareStatic
<1>3. CASE k = 1
  <2>1. /\ frames' = [i \in 1..0 |-> IF value /\ i = 0 THEN Next_pc(Pushed(frames[i], "v")) ELSE frames[i]]
        /\ phase' = "end"
    BY <1>3 DEF Without
  <2>2. frames' \in [1..0 -> Frames] BY <2>1
  <2>3. frames' \in Seq(Frames) /\ Len(frames') = 0 BY <2>2
  <2>4. RunTypes' BY <2>3 DEF RunTypes, Counted
  <2>5. BasesOK' BY <2>3 DEF BasesOK
  <2> QED BY <1>2, <2>1, <2>3, <2>4, <2>5 DEF RunOK, Counted
<1>4. CASE k # 1
  <2> DEFINE g == IF value THEN Next_pc(Pushed(frames[q], "v")) ELSE frames[q]
  <2>1. q \in 1..k /\ q < k /\ q \in Nat \ {0}
    <3>1. k \in Nat \ {0} /\ k # 1 BY <1>1, <1>4
    <3> HIDE DEF k
    <3> QED BY <3>1
  <2>2. frames' = [i \in 1..q |-> IF value /\ i = q THEN Next_pc(Pushed(frames[i], "v")) ELSE frames[i]]
        /\ phase' = "run"
    BY <1>4 DEF Without
  <2>3. /\ g \in Frames /\ g.handler_base = frames[q].handler_base /\ g.pc \in DOMAIN label
        /\ Len(g.stack) + label[g.pc].iters <= label[g.pc].operands
        /\ Len(g.stack) <= label[g.pc].operands
        /\ label[g.pc].handlers = label[frames[q].pc].handlers
        /\ Bare => Len(g.stack) = label[g.pc].operands
    BY <2>1, CallerFacts
  <2>4. \A i \in 1..q : frames'[i] = IF i = q THEN g ELSE frames[i] BY <2>2
  <2>5. DOMAIN frames' = 1..q BY <2>2
  <2>15. \A i \in 1..q : i \in 1..k BY <2>1
  <2>16. \A i \in 1..k : frames[i] \in Frames BY <1>1
  <2> HIDE DEF g, k, q
  <2>6. /\ frames' \in Seq(Frames) /\ Len(frames') = q
        /\ frames'[q] = g
        /\ \A i \in 1..q : i # q => frames'[i] = frames[i]
    <3>1. frames' \in [1..q -> Frames]
      <4>1. \A i \in 1..q : frames'[i] \in Frames BY <2>3, <2>4, <2>15, <2>16
      <4>2. frames' = [i \in 1..q |-> frames'[i]] BY <2>2
      <4> QED BY <4>1, <4>2
    <3> QED BY <3>1, <2>1, <2>4
  <2>7. \A i \in 1..q : frames'[i].handler_base = frames[i].handler_base /\ frames[i].handler_base \in Nat
    BY <2>3, <2>6, <2>15, <2>16 DEF Frames
  <2>8. BasesOK'
    <3>1. \A i, j \in 1..k : i <= j => frames[i].handler_base <= frames[j].handler_base
      BY DEF RunOK, BasesOK, k
    <3>2. \A i \in 1..q : i <= k => frames[i].handler_base <= Running.handler_base BY <3>1, <1>1, <2>15
    <3>3. \A i \in 1..q : frames[i].handler_base <= Len(handlers') BY <3>2, <1>1, <2>1, <2>7
    <3> QED BY <3>1, <3>3, <2>6, <2>7, <2>15 DEF BasesOK
  <2>9. ASSUME NEW i \in 1..q
        PROVE  /\ Up(i) = frames[i + 1].handler_base /\ Up(i) \in Nat /\ Up(i) <= Running.handler_base
               /\ ~cut' => Up(i)' = Up(i)
    <3>1. i + 1 \in 1..k /\ i + 1 <= k /\ i # k BY <1>1, <2>1 DEF q
    <3>2. frames[i + 1].handler_base <= frames[k].handler_base BY <3>1, <1>1 DEF RunOK, BasesOK, k
    <3>3. Up(i) = frames[i + 1].handler_base /\ Up(i) \in Nat BY <3>1, <2>16 DEF Up, k, Frames
    <3>4. CASE i = q
      <4>1. i + 1 = k BY <3>4, <1>1 DEF q
      <4> QED BY <4>1, <3>2, <3>3, <3>4, <2>6, <1>1 DEF Up
    <3>5. CASE i # q
      <4>1. i + 1 \in 1..q BY <3>5, <2>1
      <4> QED BY <4>1, <3>2, <3>3, <3>5, <2>6, <2>7, <1>1 DEF Up
    <3> QED BY <3>4, <3>5
  <2>10. ASSUME NEW i \in 1..q
         PROVE  /\ Labelled(i) /\ Settled(i) /\ Labelled(i)'
                /\ LabelOf(i)'.handlers = LabelOf(i).handlers
    <3>1. Labelled(i) /\ Settled(i) BY <2>1, <2>15 DEF RunOK, Settled, k
    <3>2. CASE i = q BY <3>1, <3>2, <2>3, <2>6 DEF Labelled, LabelOf, Static
    <3>3. CASE i # q
      <4>1. frames'[i] = frames[i] /\ i < Len(frames') /\ i < Len(frames) BY <3>3, <2>1, <2>6 DEF k
      <4> QED BY <4>1, <3>1 DEF Labelled, LabelOf, Settled, Static
    <3> QED BY <3>2, <3>3, <3>1
  <2>11. ASSUME ~cut', NEW i \in 1..q
         PROVE  Armoured(i)'
    <3>1. Armoured(i) /\ ~cut BY <2>11, <2>15 DEF RunOK, k, Counted
    <3>2. /\ frames'[i].handler_base = frames[i].handler_base /\ frames[i].handler_base \in Nat
          /\ Up(i)' = Up(i) /\ Up(i) \in Nat /\ Up(i) <= Running.handler_base
          /\ LabelOf(i)'.handlers = LabelOf(i).handlers
      BY <2>7, <2>9, <2>10, <2>11
    <3>3. ASSUME NEW j \in (frames[i].handler_base + 1)..Up(i)
          PROVE  HandlerOK(j, i)'
      <4>1. HandlerOK(j, i) BY <3>1 DEF Armoured
      <4>2. j \in 1..Running.handler_base BY <1>1, <3>2
      <4> QED BY <4>1, <4>2, <3>2 DEF HandlerOK, HandlerFits, Static
    <3> QED BY <3>1, <3>2, <3>3 DEF Armoured
  <2>12. ASSUME Bare, NEW i \in 1..q
         PROVE  Exact(i)'
    <3>1. Exact(i) BY <2>10, <2>12, <2>15 DEF RunOK, k
    <3>2. CASE i = q BY <3>2, <2>3, <2>6, <2>12 DEF Exact, LabelOf, Static
    <3>3. CASE i # q BY <3>1, <3>3, <2>6 DEF Exact, LabelOf, Static
    <3> QED BY <3>2, <3>3
  <2>13. RunTypes' BY <2>6 DEF RunTypes, Counted
  <2>14. /\ raised' # "system" => ops' <= MaxOps
         /\ cut' => raised' = "system"
         /\ Bare => fault' # "underflow"
    BY DEF Counted
  <2>17. Len(frames') > 0 BY <2>1, <2>6
  <2> QED BY <1>2, <2>6, <2>8, <2>10, <2>11, <2>12, <2>13, <2>14, <2>17 DEF RunOK
<1> QED BY <1>3, <1>4

\* The handlers of the frames below.
LEMMA BelowFacts ==
  ASSUME Accepted, RunOK, phase = "run", handlers' = SubSeq(handlers, 1, Running.handler_base)
  PROVE  /\ handlers' \in Seq(Handlers) /\ Len(handlers') = Running.handler_base
         /\ Running.handler_base <= Len(handlers')
         /\ \A j \in 1..Running.handler_base : handlers'[j] = handlers[j]
<1> DEFINE b == Running.handler_base
<1>1. b \in Nat /\ b <= Len(handlers) /\ handlers \in Seq(Handlers) BY RunningFacts
<1> HIDE DEF b
<1> SUFFICES /\ handlers' \in Seq(Handlers) /\ Len(handlers') = b /\ b <= Len(handlers')
             /\ \A j \in 1..b : handlers'[j] = handlers[j]
  BY DEF b
<1>2. handlers' = SubSeq(handlers, 1, b) BY DEF b
<1> DEFINE u == SubSeq(handlers, 1, b)
<1>3. u \in Seq(Handlers) /\ Len(u) = b /\ \A j \in 1..b : u[j] = handlers[j] BY <1>1, FirstN
<1>4. b <= b BY <1>1
<1> HIDE DEF u
<1> QED BY <1>2, <1>3, <1>4 DEF u

LEMMA ReturnOK ==
  ASSUME Accepted, RunOK, Static, RETURN
  PROVE  RunOK'
<1>1. /\ phase = "run" /\ raised = "none" /\ Without(TRUE, Running.scope)
      /\ handlers' = SubSeq(handlers, 1, Running.handler_base)
      /\ unwind_floor' = Running.outer_floor
      /\ UNCHANGED <<raised, ops, fault, cut>>
  BY DEF RETURN, At_op, Restored_floor
<1>2. Running.scope \in Nat /\ Running.outer_floor \in Nat BY <1>1, RunningFacts
<1>3. host' \in Nat BY <1>1, <1>2 DEF Without, RunOK, RunTypes
<1>4. Counted BY <1>1, <1>2, <1>3 DEF Counted, RunOK, RunTypes
<1> QED BY <1>1, <1>2, <1>4, BelowFacts, LeftOK

LEMMA LeaveOK ==
  ASSUME Accepted, RunOK, Static, leave_with_error
  PROVE  RunOK'
<1> DEFINE e == IF Caught THEN Cut_back.scope ELSE Running.scope
           n == Lesser(e, unwind_floor)
<1>1. /\ phase = "run" /\ raised # "none" /\ Without(FALSE, n)
      /\ handlers' = SubSeq(handlers, 1, Running.handler_base)
      /\ unwind_floor' = Running.outer_floor
      /\ raised' = IF Caught THEN "system" ELSE raised
      /\ UNCHANGED <<ops, fault, cut>>
  BY DEF leave_with_error, Restored_floor
<1>2. Running.scope \in Nat /\ Running.outer_floor \in Nat /\ unwind_floor \in Nat /\ Running \in Frames
  BY <1>1, RunningFacts DEF RunOK, RunTypes
<1>3. e \in Nat
  <2>1. Caught => handlers[Innermost].scope_len \in Nat BY <1>1, CaughtFacts DEF Handlers
  <2>2. Cut_back.scope = Lesser(Running.scope, handlers[Innermost].scope_len)
    BY <1>2 DEF Cut_back, Frames
  <2> QED BY <2>1, <2>2, <1>2 DEF Lesser
<1> HIDE DEF e
<1>4. n \in Nat BY <1>2, <1>3 DEF Lesser
<1> HIDE DEF n
<1>5. host' \in Nat BY <1>1, <1>4 DEF Without, RunOK, RunTypes
<1>6. raised' # "none" /\ (cut => raised' = "system") /\ (ops' <= MaxOps \/ raised' = "system")
      /\ raised' \in {"none", "catchable", "system"}
  <2>1. ~Caught => raised' = raised BY <1>1
  <2>2. Caught => raised' = "system" BY <1>1
  <2> QED BY <2>1, <2>2, <1>1 DEF RunOK, RunTypes
<1>7. Counted BY <1>1, <1>2, <1>5, <1>6 DEF Counted, RunOK, RunTypes
<1> QED BY <1>1, <1>4, <1>6, <1>7, BelowFacts, LeftOK

LEMMA CatchUnpaidOK ==
  ASSUME Accepted, RunOK, Static, catch_unpaid
  PROVE  RunOK'
<1> DEFINE m == Innermost
           n == Resumed.scope
           b == Running.handler_base
           u == SubSeq(handlers, 1, m)
<1>1. /\ phase = "run" /\ Caught /\ Without(FALSE, n)
      /\ handlers' = [u EXCEPT ![m].caught = TRUE]
      /\ raised' = "system" /\ ops' = ops + 1 /\ cut' = TRUE
      /\ UNCHANGED <<unwind_floor, fault>>
  BY DEF catch_unpaid
<1>2. /\ m \in (b + 1)..Len(handlers) /\ m \in Nat \ {0} /\ handlers[m] \in Handlers
      /\ raised = "catchable"
  BY <1>1, CaughtFacts
<1>3. /\ b \in Nat /\ handlers \in Seq(Handlers) /\ Len(handlers) \in Nat /\ Running.scope \in Nat
      /\ Running \in Frames
  BY <1>1, RunningFacts
<1>4. n \in Nat
  <2> DEFINE s == Lesser(Running.scope, handlers[m].scope_len)
             t == SubSeq(Running.stack, 1, Lesser(Len(Running.stack), handlers[m].operands))
             x == [Running EXCEPT !.stack = t, !.scope = s]
  <2>1. s \in Nat BY <1>2, <1>3 DEF Lesser, Handlers
  <2>2. n = x.scope + 1
    <3>1. Resumed = [x EXCEPT !.scope = @ + 1, !.pc = handlers[m].target] BY DEF Resumed, Cut_back
    <3>2. DOMAIN x = DOMAIN Running OBVIOUS
    <3>3. "scope" \in DOMAIN x BY <3>2, <1>3 DEF Frames
    <3> HIDE DEF x
    <3> QED BY <3>1, <3>3
  <2> HIDE DEF s, t
  <2>3. x.scope = s BY <1>3 DEF Frames
  <2> QED BY <2>1, <2>2, <2>3
<1> HIDE DEF n
<1>5. host' \in Nat BY <1>1, <1>4 DEF Without, RunOK, RunTypes
<1>6. /\ u \in Seq(Handlers) /\ Len(u) = m /\ \A j \in 1..m : u[j] = handlers[j] BY <1>2, <1>3, FirstN
<1> HIDE DEF u
<1>7. /\ handlers' \in Seq(Handlers) /\ Len(handlers') = m
      /\ \A j \in 1..m : j # m => handlers'[j] = handlers[j]
  <2>1. u[m] = handlers[m] /\ m \in 1..m BY <1>2, <1>6
  <2>2. [handlers[m] EXCEPT !.caught = TRUE] \in Handlers BY <1>2 DEF Handlers
  <2> HIDE DEF m
  <2> QED BY <2>1, <2>2, <1>1, <1>6
<1>8. b <= Len(handlers') /\ \A j \in 1..b : handlers'[j] = handlers[j]
  <2> HIDE DEF m, b
  <2> QED BY <1>2, <1>3, <1>7
<1>9. ops' \in 0..(MaxOps + 1)
  <2>1. ops \in Nat /\ ops <= MaxOps /\ MaxOps \in Nat BY <1>2, GrainAssumption DEF RunOK, RunTypes
  <2> QED BY <2>1, <1>1
<1>10. Counted BY <1>1, <1>5, <1>9 DEF Counted, RunOK, RunTypes
<1> HIDE DEF m, b
<1> QED BY <1>1, <1>4, <1>7, <1>8, <1>10, LeftOK DEF b

-----------------------------------------------------------------------------
(* The whole. *)

LEMMA RunMainOK ==
  ASSUME Accepted, RunOK, Static, run_main
  PROVE  RunOK'
<1> DEFINE g == Frame(HostVars)
<1>1. /\ phase = "ready" /\ phase' = "run" /\ frames' = <<g>> /\ unwind_floor' = HostVars
      /\ UNCHANGED <<handlers, raised, ops, host, fault, cut>>
  BY DEF run_main
<1>2. /\ frames = <<>> /\ handlers = <<>> /\ raised = "none" /\ unwind_floor = 0 /\ HostVars \in Nat
      /\ cut = FALSE
  BY <1>1, GrainAssumption DEF Accepted, PhaseOK, NotRun
<1>3. g \in Frames /\ g.pc = 1 /\ g.stack = <<>> /\ g.handler_base = 0 BY <1>2 DEF Frame, Frames
<1> HIDE DEF g
<1>4. frames' \in Seq(Frames) /\ Len(frames') = 1 /\ frames'[1] = g BY <1>1, <1>3
<1>5. 1 \in DOMAIN label /\ label[1] = Zero BY EntryFacts
<1>6. Len(handlers') = 0 BY <1>1, <1>2
<1>7. BasesOK' BY <1>3, <1>4, <1>6 DEF BasesOK
<1>8. ASSUME NEW i \in 1..1
      PROVE  Labelled(i)' /\ Armoured(i)' /\ Exact(i)'
  <2>1. /\ i = 1 /\ frames'[i] = g /\ ~(i < Len(frames')) /\ LabelOf(i)' = Zero /\ Up(i)' = 0
    BY <1>3, <1>4, <1>5, <1>6 DEF LabelOf, Up, Static
  <2>2. Labelled(i)' BY <2>1, <1>3, <1>5 DEF Labelled, Static, Zero
  <2>3. Armoured(i)' BY <2>1, <1>3 DEF Armoured, Zero
  <2>4. Exact(i)' BY <2>1, <1>3 DEF Exact, Zero
  <2> QED BY <2>2, <2>3, <2>4
<1>9. RunTypes' BY <1>1, <1>2, <1>4 DEF RunTypes, RunOK
<1>10. Bare' <=> Bare BY BareStatic
<1> QED BY <1>1, <1>4, <1>7, <1>8, <1>9, <1>10 DEF RunOK

LEMMA FrameStepOK ==
  ASSUME Accepted, RunOK, Static, run_frame
  PROVE  RunOK'
<1>1. CASE malformed BY <1>1, MalformedOK
<1>2. CASE PUSH \/ POP BY <1>2, PushPopOK
<1>3. CASE DECLARE_LOCAL BY <1>3, DeclareOK
<1>4. CASE UNWIND_TO BY <1>4, UnwindOK
<1>5. CASE CHECKPOINT BY <1>5, CheckpointOK
<1>6. CASE PUSH_HANDLER BY <1>6, PushHandlerOK
<1>7. CASE POP_HANDLER BY <1>7, PopHandlerOK
<1>8. CASE ROTATE BY <1>8, RotateOK
<1>9. CASE ITER_INIT BY <1>9, IterInitOK
<1>10. CASE ITER_DROP BY <1>10, IterDropOK
<1>11. CASE ITER_NEXT BY <1>11, IterNextOK
<1>12. CASE JUMP \/ SKIP_IF_NOT_UNIT BY <1>12, GoSelfOK
<1>13. CASE JUMP_IF BY <1>13, JumpIfOK
<1>14. CASE BIN_OP \/ THROW BY <1>14, BinThrowOK
<1>15. CASE CALL_native BY <1>15, CallNativeOK
<1>16. CASE call_compiled BY <1>16, CallCompiledOK
<1>17. CASE RETURN BY <1>17, ReturnOK
<1> QED BY <1>1, <1>2, <1>3, <1>4, <1>5, <1>6, <1>7, <1>8, <1>9, <1>10, <1>11, <1>12, <1>13, <1>14, <1>15,
           <1>16, <1>17 DEF run_frame

LEMMA ExecuteOK ==
  ASSUME Accepted, RunOK, Static, execute
  PROVE  RunOK'
  BY RunMainOK, FrameStepOK, CatchOK, CatchUnpaidOK, LeaveOK DEF execute

\* A machine that has not run yet.
LEMMA NotRunOK ==
  ASSUME NotRun', phase' # "run"
  PROVE  RunOK'
<1>1. /\ frames' = <<>> /\ handlers' = <<>> /\ unwind_floor' = 0 /\ raised' = "none" /\ ops' = 0
      /\ host' \in Nat /\ fault' = "none" /\ cut' = FALSE /\ MaxOps \in Nat
  BY GrainAssumption DEF NotRun
<1>2. Len(frames') = 0 /\ frames' \in Seq(Frames) /\ handlers' \in Seq(Handlers) BY <1>1
<1>3. RunTypes'
  <2>1. ops' \in 0..(MaxOps + 1) /\ unwind_floor' \in Nat BY <1>1
  <2>2. raised' \in {"none", "catchable", "system"} /\ fault' \in {"none", "underflow", "other"} BY <1>1
  <2>3. cut' \in BOOLEAN BY <1>1
  <2> QED BY <1>1, <1>2, <2>1, <2>2, <2>3 DEF RunTypes
<1>4. BasesOK' BY <1>2 DEF BasesOK
<1> QED BY <1>1, <1>2, <1>3, <1>4 DEF RunOK

LEMMA GInit ==
  ASSUME Init
  PROVE  GInv
<1>1. PhaseOK BY PhaseInit
<1>2. verdict = "none" BY DEF Init, InitVerify
<1> QED BY <1>1, <1>2 DEF GInv

LEMMA GStep ==
  ASSUME GInv, [Next]_vars
  PROVE  GInv'
<1>1. PhaseOK /\ PhaseOK' BY PhaseStep DEF GInv
<1>2. ASSUME verdict' = "accepted"
      PROVE  RunOK'
  <2>1. CASE (Lowering \/ read_instruction \/ read) /\ UNCHANGED verifier
    <3>1. phase \in {"lower", "read"}
      BY <2>1 DEF Lowering, lower_statement, resume_statement, program, read_instruction, read, Lower, Stmt_Var,
         Stmt_Expr, Stmt_Return, Stmt_Break,
         Stmt_Continue, Stmt_Block, if_statement, Stmt_Loop, Stmt_While, Stmt_For, Stmt_TryCatch, Stmt_Operand,
         end_block, end_if, begin_else, end_else, end_while_true, end_while, end_do, end_for, begin_catch,
         end_catch, end_operand, At, Closing
    <3> QED BY <3>1, <2>1, <1>1, <1>2 DEF PhaseOK, NotWalked, verifier
  <2>2. CASE verify_chunk
    <3>1. accept BY <2>2, <1>1, <1>2 DEF verify_chunk, visit, merge, accept, refuse, PhaseOK
    <3>2. NotRun' /\ phase' # "run" BY <3>1, <1>1 DEF accept, PhaseOK
    <3> QED BY <3>2, NotRunOK
  <2>3. CASE execute /\ UNCHANGED <<chunk, verifier>>
    <3>1. Static /\ verdict' = verdict BY <2>3 DEF Static, chunk, verifier
    <3>2. Accepted /\ RunOK BY <3>1, <1>1, <1>2 DEF Accepted, GInv
    <3> QED BY <3>1, <3>2, <2>3, ExecuteOK
  <2>4. CASE UNCHANGED vars
    <3>1. RunOK /\ UNCHANGED <<phase, code, label>> /\ UNCHANGED machine
      BY <2>4, <1>2 DEF GInv, vars, chunk, verifier
    <3> QED BY <3>1 DEF RunOK, RunTypes, BasesOK, Labelled, Armoured, Exact, Settled, HandlerOK, HandlerFits, LabelOf,
                        Up, Bare, Contains, machine
  <2> QED BY <2>1, <2>2, <2>3, <2>4 DEF Next, Step, Finished
<1> QED BY <1>1, <1>2 DEF GInv

\* What is accepted is what VerifierIsRight says.
LEMMA GRight ==
  ASSUME GInv
  PROVE  VerifierIsRight
<1> SUFFICES ASSUME verdict = "accepted"
             PROVE  TypeOK /\ LabelsHold /\ StackFits /\ OnInstruction /\ AcceptedNeverUnderflows
  BY DEF VerifierIsRight
<1>1. PhaseOK /\ RunOK /\ Accepted BY DEF GInv, Accepted
<1>2. \A a \in DOMAIN label : label[a] \in States /\ label[a].operands <= declared /\ IsStart(a)
  BY <1>1, LabelFacts
<1>3. TypeOK
  <2>1. code \in Seq(Cells) /\ declared \in Nat /\ high_water \in Nat BY <1>1 DEF PhaseOK, CodeOK, WalkOK
  <2> QED BY <2>1, <1>1, <1>2 DEF TypeOK, PhaseOK, RunOK, RunTypes
<1>4. LabelsHold
  <2> SUFFICES ASSUME Verified, raised = "none", ~cut, NEW i \in 1..Len(frames)
               PROVE  /\ frames[i].pc \in DOMAIN label
                      /\ LET s == label[frames[i].pc]
                         IN Armed_by(i) = s.handlers /\ Len(frames[i].stack) + s.iters <= s.operands
    BY DEF LabelsHold
  <2>1. Labelled(i) /\ Armoured(i) /\ Settled(i) BY <1>1 DEF RunOK, Settled
  <2> QED BY <2>1 DEF Labelled, Armoured, LabelOf, Up, Armed_by
<1>5. ASSUME NEW i \in 1..Len(frames)
      PROVE  Len(frames[i].stack) <= declared /\ IsStart(frames[i].pc)
  <2>1. /\ frames[i].pc \in DOMAIN label /\ Len(frames[i].stack) <= label[frames[i].pc].operands
    BY <1>1 DEF RunOK, Labelled, LabelOf
  <2>2. Len(frames[i].stack) \in Nat
    <3>1. frames[i] \in Frames BY <1>1 DEF RunOK, RunTypes
    <3> QED BY <3>1, StackFacts
  <2>3. label[frames[i].pc].operands \in Nat /\ declared \in Nat BY <2>1, <1>1, <1>2 DEF States, PhaseOK
  <2> QED BY <2>1, <2>2, <2>3, <1>2
<1>6. StackFits /\ OnInstruction BY <1>5 DEF StackFits, OnInstruction
<1>7. AcceptedNeverUnderflows BY <1>1 DEF AcceptedNeverUnderflows, RunOK, Bare
<1> QED BY <1>3, <1>4, <1>6, <1>7

(* Whatever the verifier accepts, be it the compiler's or an artifact's, runs as the verifier has
   computed: control stays on instructions, operands fit into the slots that were allocated, and
   the handlers and operands are those that the instruction counts on (verify_chunk, execute). *)
THEOREM VerifierSound == Spec => []VerifierIsRight
<1>1. Init => GInv BY GInit
<1>2. GInv /\ [Next]_vars => GInv' BY GStep
<1>3. GInv => VerifierIsRight BY GRight
<1> QED BY <1>1, <1>2, <1>3, PTL DEF Spec

\* The only step out of an error resumes it.
LEMMA ResumesOwn ==
  ASSUME GInv, [Next]_vars, phase = "run", verdict = "accepted", raised # "none", raised' = "none"
  PROVE  handlers'[Len(handlers')].owner = Len(frames)
<1>1. catch
  <2>1. execute
    <3>1. raised' # raised OBVIOUS
    <3> QED BY <3>1 DEF Next, Step, Finished, vars, machine
  <2>2. ~run_main BY DEF run_main
  <2>3. ~run_frame
    BY DEF run_frame, malformed, PUSH, POP, DECLARE_LOCAL, UNWIND_TO, CHECKPOINT, PUSH_HANDLER,
       POP_HANDLER, ROTATE, ITER_INIT, ITER_DROP, ITER_NEXT, JUMP, JUMP_IF, SKIP_IF_NOT_UNIT, BIN_OP, THROW,
       CALL_native, call_compiled, RETURN, At_op
  <2>4. ~catch_unpaid BY DEF catch_unpaid
  <2>5. ~leave_with_error BY DEF leave_with_error
  <2> QED BY <2>1, <2>2, <2>3, <2>4, <2>5 DEF execute
<1> DEFINE m == Innermost
           u == SubSeq(handlers, 1, m)
<1>2. Accepted /\ RunOK /\ Caught /\ handlers' = [u EXCEPT ![m].caught = TRUE]
  BY <1>1 DEF GInv, Accepted, catch
<1>3. /\ m \in (Running.handler_base + 1)..Len(handlers) /\ m \in Nat \ {0} /\ handlers[m] \in Handlers
      /\ HandlerFits(handlers[m], m - Running.handler_base, Len(frames))
  BY <1>2, CaughtFacts
<1>4. handlers \in Seq(Handlers) /\ Running.handler_base \in Nat BY <1>2, RunningFacts
<1>5. m <= Len(handlers) BY <1>3, <1>4
<1>6. u \in Seq(Handlers) /\ Len(u) = m /\ u[m] = handlers[m] BY <1>3, <1>4, <1>5, FirstN
<1> HIDE DEF u, m
<1>7. Len(handlers') = m /\ handlers'[m] = [handlers[m] EXCEPT !.caught = TRUE] BY <1>2, <1>3, <1>6
<1>8. handlers[m].owner = Len(frames) BY <1>3 DEF HandlerFits
<1> QED BY <1>3, <1>7, <1>8 DEF Handlers

\* CatchIsOwn as far as the verifier can vouch for it.
AcceptedCatchIsOwn ==
  [][(verdict = "accepted" /\ phase = "run" /\ raised # "none" /\ raised' = "none") =>
       handlers'[Len(handlers')].owner = Len(frames)]_vars

(* An error in code that was accepted, the compiler's or an artifact's, is resumed in the frame that
   armed the handler, never in the middle of another frame's code (catch). *)
THEOREM AcceptedCatchesItsOwn == Spec => AcceptedCatchIsOwn
<1>1. Init => GInv BY GInit
<1>2. GInv /\ [Next]_vars => GInv' BY GStep
<1>3. GInv /\ [Next]_vars =>
        [(verdict = "accepted" /\ phase = "run" /\ raised # "none" /\ raised' = "none") =>
           handlers'[Len(handlers')].owner = Len(frames)]_vars
  BY ResumesOwn
<1> QED BY <1>1, <1>2, <1>3, PTL DEF Spec, AcceptedCatchIsOwn

LEMMA OriginStays ==
  ASSUME [Next]_vars
  PROVE  origin' = origin
  BY DEF Next, Step, Finished, vars, chunk, Lowering, lower_statement, resume_statement, program, read_instruction,
     read, Lower, Stmt_Var, Stmt_Expr, Stmt_Return, Stmt_Break, Stmt_Continue, Stmt_Block, if_statement, Stmt_Loop,
     Stmt_While, Stmt_For, Stmt_TryCatch, Stmt_Operand, end_block, end_if, begin_else, end_else, end_while_true,
     end_while, end_do, end_for, begin_catch, end_catch, end_operand, verify_chunk, visit, merge, accept, refuse

\* Only what was accepted is run, if it was read.
Artifacts == origin = "read"

(* An error in an artifact is resumed in the frame that armed the handler, never in the middle of
   another frame's code, however the jumps and handlers of the artifact are arranged (catch). *)
THEOREM ArtifactsCatchTheirOwn ==
  ASSUME Origins \subseteq {"read"}
  PROVE  Spec => CatchIsOwn
<1>1. Init => GInv /\ Artifacts
  <2>1. Init => GInv BY GInit
  <2>2. Init => Artifacts BY DEF Init, Artifacts
  <2> QED BY <2>1, <2>2
<1>2. GInv /\ Artifacts /\ [Next]_vars => GInv' /\ Artifacts'
  <2>1. GInv /\ [Next]_vars => GInv' BY GStep
  <2>2. [Next]_vars => origin' = origin BY OriginStays
  <2> QED BY <2>1, <2>2 DEF Artifacts
<1>3. GInv /\ Artifacts /\ [Next]_vars =>
        [(phase = "run" /\ raised # "none" /\ raised' = "none") =>
           handlers'[Len(handlers')].owner = Len(frames)]_vars
  <2>1. GInv /\ Artifacts /\ phase = "run" => verdict = "accepted" BY DEF GInv, PhaseOK, Artifacts
  <2> QED BY <2>1, ResumesOwn
<1> QED BY <1>1, <1>2, <1>3, PTL DEF Spec, CatchIsOwn
=============================================================================
