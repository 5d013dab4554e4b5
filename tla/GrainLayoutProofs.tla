----------------------------- MODULE GrainLayoutProofs -----------------------------
(***************************************************************************)
(* What the compiler means its code to do.  A Layout says of an address    *)
(* what the operand stack and the scope hold there and which try regions   *)
(* are around it; a graph G gives one to every instruction that has been   *)
(* lowered, and Good(G) says that they follow from one another along every *)
(* edge but those of jumps that are still to be patched.                   *)
(*                                                                         *)
(* Ctxs(G, K, open, loops, P) relates a graph to the blocks that are open: *)
(* the plan K holds the layout that each block began with and the owner of *)
(* each jump in P or in a loop that is not patched yet.  This module shows *)
(* what emitting, patching, beginning a statement, break and continue do   *)
(* to it; GrainCompileProofs goes on with what ends a statement, and with  *)
(* the verifier and the machine.                                           *)
(***************************************************************************)
EXTENDS GrainProofs

(* What the compiler has in mind for an address: what is on the operand stack and in the scope
   of the frame, and the try regions that it is in.  A slot of the stack is 0 for a value, and
   the address of the IterInit for an iterator; `caught` is true in a catch block. *)
Regions == [site : Nat \ {0}, caught : BOOLEAN]

Layouts == [stack : Seq(Nat), iters : Nat, scope : Nat, handlers : Seq(Regions)]

Bottom == [stack |-> <<>>, iters |-> 0, scope |-> 0, handlers |-> <<>>]

Plus(s, x) == [s EXCEPT !.stack = Append(@, x)]

Scoped(s, n) == [s EXCEPT !.scope = n]

Looped(s, q) == [s EXCEPT !.stack = Append(@, q), !.iters = @ + 1]

Region(s, n, a, c) == [s EXCEPT !.scope = n, !.handlers = Append(@, [site |-> a, caught |-> c])]

Arming(s, a) == Region(s, s.scope, a, FALSE)

Catching(s, a) == Region(s, s.scope + 1, a, TRUE)

Disarmed(s, n) == [s EXCEPT !.handlers = SubSeq(@, 1, n)]

Size(s) == Len(s.stack) + s.iters

LEMMA LayoutType ==
  ASSUME NEW s \in Layouts
  PROVE  /\ s.stack \in Seq(Nat) /\ Len(s.stack) \in Nat /\ s.iters \in Nat /\ s.scope \in Nat
         /\ s.handlers \in Seq(Regions) /\ Len(s.handlers) \in Nat
         /\ Size(s) \in Nat
         /\ \A k \in 1..Len(s.stack) : s.stack[k] \in Nat
         /\ \A j \in 1..Len(s.handlers) : s.handlers[j] \in Regions /\ s.handlers[j].site \in Nat \ {0}
<1>1. s.stack \in Seq(Nat) /\ s.iters \in Nat /\ s.scope \in Nat /\ s.handlers \in Seq(Regions)
  BY DEF Layouts
<1>2. Len(s.stack) \in Nat /\ Len(s.handlers) \in Nat BY <1>1
<1>3. \A k \in 1..Len(s.stack) : s.stack[k] \in Nat BY <1>1
<1>4. \A j \in 1..Len(s.handlers) : s.handlers[j] \in Regions BY <1>1
<1>5. \A r \in Regions : r.site \in Nat \ {0} BY DEF Regions
<1> QED BY <1>1, <1>2, <1>3, <1>4, <1>5 DEF Size

LEMMA SameLayout ==
  ASSUME NEW s \in Layouts, NEW t \in Layouts,
         s.stack = t.stack, s.iters = t.iters, s.scope = t.scope, s.handlers = t.handlers
  PROVE  s = t
  BY DEF Layouts

\* Sequences that begin alike.
LEMMA SameSeq ==
  ASSUME NEW S, NEW c \in Seq(S), NEW d \in Seq(S), Len(c) = Len(d), \A i \in 1..Len(c) : c[i] = d[i]
  PROVE  c = d
  OBVIOUS

LEMMA SameCut ==
  ASSUME NEW S, NEW c \in Seq(S), NEW d \in Seq(S), NEW n \in Nat, n <= Len(c), n <= Len(d),
         \A i \in 1..n : c[i] = d[i]
  PROVE  SubSeq(c, 1, n) = SubSeq(d, 1, n)
<1> DEFINE x == SubSeq(c, 1, n)
           y == SubSeq(d, 1, n)
<1>1. /\ x \in Seq(S) /\ Len(x) = n /\ \A i \in 1..n : x[i] = c[i]
      /\ y \in Seq(S) /\ Len(y) = n /\ \A i \in 1..n : y[i] = d[i]
  BY FirstN
<1> HIDE DEF x, y
<1>2. x = y BY <1>1, SameSeq
<1> QED BY <1>2 DEF x, y

LEMMA WholeCut ==
  ASSUME NEW S, NEW c \in Seq(S)
  PROVE  SubSeq(c, 1, Len(c)) = c
BY FirstN, SameSeq

LEMMA BottomType == Bottom \in Layouts /\ Size(Bottom) = 0
  BY DEF Bottom, Layouts, Size

LEMMA PlusType ==
  ASSUME NEW s \in Layouts, NEW x \in Nat
  PROVE  /\ Plus(s, x) \in Layouts
         /\ Plus(s, x).stack = Append(s.stack, x)
         /\ Plus(s, x).iters = s.iters /\ Plus(s, x).scope = s.scope /\ Plus(s, x).handlers = s.handlers
         /\ Len(Plus(s, x).stack) = Len(s.stack) + 1
         /\ Plus(s, x).stack[Len(s.stack) + 1] = x
         /\ \A k \in 1..Len(s.stack) : Plus(s, x).stack[k] = s.stack[k]
         /\ Size(Plus(s, x)) = Size(s) + 1
<1> DEFINE t == Append(s.stack, x)
<1>1. s.stack \in Seq(Nat) /\ s.iters \in Nat BY DEF Layouts
<1>2. /\ t \in Seq(Nat) /\ Len(t) = Len(s.stack) + 1 /\ t[Len(s.stack) + 1] = x
      /\ \A k \in 1..Len(s.stack) : t[k] = s.stack[k]
  BY <1>1
<1>3. Plus(s, x) = [s EXCEPT !.stack = t] BY DEF Plus
<1> HIDE DEF t
<1>4. /\ Plus(s, x) \in Layouts /\ Plus(s, x).stack = t
      /\ Plus(s, x).iters = s.iters /\ Plus(s, x).scope = s.scope /\ Plus(s, x).handlers = s.handlers
  BY <1>2, <1>3 DEF Layouts
<1>5. Len(s.stack) \in Nat BY <1>1
<1>6. Size(Plus(s, x)) = Size(s) + 1
 <2>1. Len(Plus(s, x).stack) = Len(s.stack) + 1 /\ Plus(s, x).iters = s.iters BY <1>2, <1>4
 <2>2. \A m, n \in Nat : (m + 1) + n = (m + n) + 1 OBVIOUS
 <2> QED BY ONLY <1>1, <1>5, <2>1, <2>2 DEF Size
<1> QED BY <1>2, <1>4, <1>6 DEF t

LEMMA ScopedType ==
  ASSUME NEW s \in Layouts, NEW n \in Nat
  PROVE  /\ Scoped(s, n) \in Layouts
         /\ Scoped(s, n).stack = s.stack /\ Scoped(s, n).iters = s.iters
         /\ Scoped(s, n).scope = n /\ Scoped(s, n).handlers = s.handlers
         /\ Size(Scoped(s, n)) = Size(s)
  BY DEF Layouts, Scoped, Size

LEMMA LoopedType ==
  ASSUME NEW s \in Layouts, NEW q \in Nat
  PROVE  /\ Looped(s, q) \in Layouts
         /\ Looped(s, q).stack = Append(s.stack, q)
         /\ Looped(s, q).iters = s.iters + 1 /\ Looped(s, q).scope = s.scope
         /\ Looped(s, q).handlers = s.handlers
         /\ Len(Looped(s, q).stack) = Len(s.stack) + 1
         /\ Looped(s, q).stack[Len(s.stack) + 1] = q
         /\ \A k \in 1..Len(s.stack) : Looped(s, q).stack[k] = s.stack[k]
         /\ Size(Looped(s, q)) = Size(s) + 2
<1> DEFINE t == Append(s.stack, q)
<1>1. s.stack \in Seq(Nat) /\ s.iters \in Nat BY DEF Layouts
<1>2. /\ t \in Seq(Nat) /\ Len(t) = Len(s.stack) + 1 /\ t[Len(s.stack) + 1] = q
      /\ \A k \in 1..Len(s.stack) : t[k] = s.stack[k]
  BY <1>1
<1> DEFINE n == s.iters + 1
<1>3. Looped(s, q) = [s EXCEPT !.stack = t, !.iters = n] BY DEF Looped
<1>6. n \in Nat BY <1>1
<1> HIDE DEF t, n
<1>4. /\ Looped(s, q) \in Layouts /\ Looped(s, q).stack = t
      /\ Looped(s, q).iters = n /\ Looped(s, q).scope = s.scope
      /\ Looped(s, q).handlers = s.handlers
  BY <1>2, <1>3, <1>6 DEF Layouts
<1>5. Len(s.stack) \in Nat BY <1>1
<1>7. Size(Looped(s, q)) = Size(s) + 2
 <2>1. Len(Looped(s, q).stack) = Len(s.stack) + 1 /\ Looped(s, q).iters = s.iters + 1 BY <1>2, <1>4 DEF n
 <2>2. s.iters \in Nat BY <1>1
 <2>3. \A x, y \in Nat : (x + 1) + (y + 1) = (x + y) + 2 OBVIOUS
 <2> QED BY ONLY <2>1, <2>2, <2>3, <1>5 DEF Size
<1> QED BY <1>2, <1>4, <1>7 DEF t, n

RegionOf(s, n, a, caught, t) ==
  /\ t \in Layouts
  /\ t.stack = s.stack /\ t.iters = s.iters /\ t.scope = n
  /\ t.handlers = Append(s.handlers, [site |-> a, caught |-> caught])
  /\ Len(t.handlers) = Len(s.handlers) + 1
  /\ \A j \in 1..Len(s.handlers) : t.handlers[j] = s.handlers[j]
  /\ t.handlers[Len(s.handlers) + 1] = [site |-> a, caught |-> caught]
  /\ \A j \in 0..Len(s.handlers) : SubSeq(t.handlers, 1, j) = SubSeq(s.handlers, 1, j)
  /\ SubSeq(t.handlers, 1, Len(s.handlers)) = s.handlers
  /\ Size(t) = Size(s)

LEMMA RegionType ==
  ASSUME NEW s \in Layouts, NEW a \in Nat \ {0}, NEW caught \in BOOLEAN, NEW n \in Nat
  PROVE  RegionOf(s, n, a, caught, Region(s, n, a, caught))
<1> DEFINE t == Region(s, n, a, caught)
           r == [site |-> a, caught |-> caught]
           h == Append(s.handlers, r)
<1>1. s.handlers \in Seq(Regions) /\ Len(s.handlers) \in Nat BY DEF Layouts
<1>2. r \in Regions BY DEF Regions
<1>3. t = [s EXCEPT !.scope = n, !.handlers = h] BY DEF Region
<1> HIDE DEF r, t
<1>4. /\ h \in Seq(Regions) /\ Len(h) = Len(s.handlers) + 1 /\ h[Len(s.handlers) + 1] = r
      /\ \A j \in 1..Len(s.handlers) : h[j] = s.handlers[j]
  BY <1>1, <1>2
<1> HIDE DEF h
<1>5. t \in Layouts /\ t.stack = s.stack /\ t.iters = s.iters /\ t.scope = n /\ t.handlers = h
  BY <1>3, <1>4 DEF Layouts
<1>6. ASSUME NEW j \in 0..Len(s.handlers) PROVE SubSeq(h, 1, j) = SubSeq(s.handlers, 1, j)
  BY <1>1, <1>4, SameCut
<1>7. SubSeq(h, 1, Len(s.handlers)) = s.handlers BY <1>1, WholeCut, <1>6
<1> QED BY <1>4, <1>5, <1>6, <1>7 DEF Size, h, r, t, RegionOf

LEMMA ArmType ==
  ASSUME NEW s \in Layouts, NEW a \in Nat \ {0}, NEW caught \in BOOLEAN, NEW n \in Nat
  PROVE  LET t == Region(s, n, a, caught) IN
         /\ t \in Layouts
         /\ t.stack = s.stack /\ t.iters = s.iters /\ t.scope = n
         /\ t.handlers = Append(s.handlers, [site |-> a, caught |-> caught])
         /\ Len(t.handlers) = Len(s.handlers) + 1
         /\ \A j \in 1..Len(s.handlers) : t.handlers[j] = s.handlers[j]
         /\ t.handlers[Len(s.handlers) + 1] = [site |-> a, caught |-> caught]
         /\ \A j \in 0..Len(s.handlers) : SubSeq(t.handlers, 1, j) = SubSeq(s.handlers, 1, j)
         /\ SubSeq(t.handlers, 1, Len(s.handlers)) = s.handlers
         /\ Size(t) = Size(s)
  BY RegionType DEF RegionOf

LEMMA ArmingType ==
  ASSUME NEW s \in Layouts, NEW a \in Nat \ {0}
  PROVE  LET t == Arming(s, a) IN
         /\ t \in Layouts
         /\ t.stack = s.stack /\ t.iters = s.iters /\ t.scope = s.scope
         /\ t.handlers = Append(s.handlers, [site |-> a, caught |-> FALSE])
         /\ Len(t.handlers) = Len(s.handlers) + 1
         /\ \A j \in 1..Len(s.handlers) : t.handlers[j] = s.handlers[j]
         /\ t.handlers[Len(s.handlers) + 1] = [site |-> a, caught |-> FALSE]
         /\ \A j \in 0..Len(s.handlers) : SubSeq(t.handlers, 1, j) = SubSeq(s.handlers, 1, j)
         /\ SubSeq(t.handlers, 1, Len(s.handlers)) = s.handlers
         /\ Size(t) = Size(s)
<1>1. s.scope \in Nat /\ FALSE \in BOOLEAN BY DEF Layouts
<1> QED BY <1>1, ArmType DEF Arming

LEMMA CatchingType ==
  ASSUME NEW s \in Layouts, NEW a \in Nat \ {0}
  PROVE  LET t == Catching(s, a) IN
         /\ t \in Layouts
         /\ t.stack = s.stack /\ t.iters = s.iters /\ t.scope = s.scope + 1
         /\ t.handlers = Append(s.handlers, [site |-> a, caught |-> TRUE])
         /\ Len(t.handlers) = Len(s.handlers) + 1
         /\ \A j \in 1..Len(s.handlers) : t.handlers[j] = s.handlers[j]
         /\ t.handlers[Len(s.handlers) + 1] = [site |-> a, caught |-> TRUE]
         /\ \A j \in 0..Len(s.handlers) : SubSeq(t.handlers, 1, j) = SubSeq(s.handlers, 1, j)
         /\ SubSeq(t.handlers, 1, Len(s.handlers)) = s.handlers
         /\ Size(t) = Size(s)
<1>1. s.scope + 1 \in Nat /\ TRUE \in BOOLEAN BY DEF Layouts
<1> QED BY <1>1, ArmType DEF Catching

LEMMA DisarmedType ==
  ASSUME NEW s \in Layouts, NEW n \in 0..Len(s.handlers)
  PROVE  LET t == Disarmed(s, n) IN
         /\ t \in Layouts
         /\ t.stack = s.stack /\ t.iters = s.iters /\ t.scope = s.scope
         /\ t.handlers = SubSeq(s.handlers, 1, n)
         /\ Len(t.handlers) = n
         /\ \A j \in 1..n : t.handlers[j] = s.handlers[j]
         /\ \A j \in 0..n : SubSeq(t.handlers, 1, j) = SubSeq(s.handlers, 1, j)
         /\ Size(t) = Size(s)
<1> DEFINE h == SubSeq(s.handlers, 1, n)
<1>1. s.handlers \in Seq(Regions) /\ Len(s.handlers) \in Nat BY DEF Layouts
<1>2. n \in Nat /\ n <= Len(s.handlers) BY <1>1
<1>3. h \in Seq(Regions) /\ Len(h) = n /\ \A j \in 1..n : h[j] = s.handlers[j] BY <1>1, <1>2, FirstN
<1>4. Disarmed(s, n) = [s EXCEPT !.handlers = h] BY DEF Disarmed
<1> HIDE DEF h
<1>5. /\ Disarmed(s, n) \in Layouts /\ Disarmed(s, n).handlers = h
      /\ Disarmed(s, n).stack = s.stack /\ Disarmed(s, n).iters = s.iters /\ Disarmed(s, n).scope = s.scope
  BY <1>3, <1>4 DEF Layouts
<1>6. ASSUME NEW j \in 0..n PROVE SubSeq(h, 1, j) = SubSeq(s.handlers, 1, j) BY <1>1, <1>2, <1>3, SameCut
<1> QED BY <1>3, <1>5, <1>6 DEF Size, h

\* What is put on can be taken off.
LEMMA PlusInjective ==
  ASSUME NEW s \in Layouts, NEW t \in Layouts, NEW x \in Nat, NEW y \in Nat, Plus(s, x) = Plus(t, y)
  PROVE  s = t /\ x = y
<1>1. /\ s.stack \in Seq(Nat) /\ t.stack \in Seq(Nat)
      /\ s.iters = t.iters /\ s.scope = t.scope /\ s.handlers = t.handlers
  BY PlusType DEF Layouts
<1>2. s.stack = t.stack /\ x = y
 <2> DEFINE u == Plus(s, x).stack
 <2>1. /\ u = Plus(t, y).stack /\ Len(u) = Len(s.stack) + 1 /\ Len(u) = Len(t.stack) + 1
       /\ u[Len(s.stack) + 1] = x /\ u[Len(t.stack) + 1] = y
       /\ \A k \in 1..Len(s.stack) : u[k] = s.stack[k]
       /\ \A k \in 1..Len(t.stack) : u[k] = t.stack[k]
   BY PlusType
 <2> HIDE DEF u
 <2>2. Len(s.stack) = Len(t.stack) BY <1>1, <2>1
 <2>3. \A k \in 1..Len(s.stack) : s.stack[k] = t.stack[k] BY <2>1, <2>2
 <2> QED BY <2>1, <2>2, <2>3, <1>1, SameSeq
<1> QED BY <1>1, <1>2, SameLayout

(* Code with the layouts of its addresses.  `room` bounds their size and `seen` the targets. *)

\* What the compiler emits.
Emitted ==
  {"Unit", "Push", "Call", "BinOp", "Pop", "Declare", "UnwindTo", "Checkpoint", "PopHandler", "Rotate",
   "IterInit", "IterDrop", "Throw", "Return", "Jump", "JumpIfFalse", "JumpIfTrue", "IterNextStore",
   "PushHandler"}

Guards == {"JumpIfFalse", "JumpIfTrue"}

\* The layout t behind an instruction at a with the layout s.
Behind(op, arg, a, s, t) ==
  /\ op \in {"Unit", "Push", "Call"} => t = Plus(s, 0)
  /\ op = "BinOp" => \E r \in Layouts, x \in Nat, y \in Nat : s = Plus(Plus(r, x), y) /\ t = Plus(r, 0)
  /\ op \in {"Pop"} \cup Guards => \E x \in Nat : s = Plus(t, x)
  /\ op = "Declare" => \E r \in Layouts, x \in Nat : s = Plus(r, x) /\ t = Scoped(r, r.scope + 1)
  /\ op = "UnwindTo" => t = Scoped(s, arg)
  /\ op = "Checkpoint" => t = s
  /\ op = "PushHandler" => t = Arming(s, a)
  /\ op = "PopHandler" => Len(s.handlers) > 0 /\ t = Disarmed(s, Len(s.handlers) - 1)
  /\ op = "Rotate" =>
       \E r \in Layouts, x \in Nat, y \in Nat : s = Plus(Plus(r, x), y) /\ t = Plus(Plus(r, y), x)
  /\ op = "IterInit" => \E r \in Layouts, x \in Nat : s = Plus(r, x) /\ t = Looped(r, a)
  /\ op \in {"IterDrop", "IterNextStore"} => \E q \in Nat \ {0} : s = Looped(t, q)

\* The layout t at the target.
Ahead(op, a, s, t) ==
  /\ op \in {"Jump", "IterNextStore"} => t = s
  /\ op \in Guards => \E x \in Nat : s = Plus(t, x)
  /\ op = "PushHandler" => t = Catching(s, a)

\* s has all that r has.
Within(r, s) ==
  /\ r.scope <= s.scope
  /\ Len(r.stack) <= Len(s.stack)
  /\ \A k \in 1..Len(r.stack) : r.stack[k] = s.stack[k]

\* Iterators have been made somewhere, and a try region has begun with what is still there.
LayoutOK(G, s) ==
  /\ s \in Layouts
  /\ Size(s) <= G.room
  /\ \A k \in 1..Len(s.stack) :
       s.stack[k] # 0 => s.stack[k] \in 1..Len(G.code) /\ G.code[s.stack[k]].op = "IterInit"
  /\ \A j \in 1..Len(s.handlers) :
       LET x == s.handlers[j].site
       IN /\ x \in 1..Len(G.code) /\ G.code[x].op = "PushHandler"
          /\ G.at[x] \in Layouts /\ Within(G.at[x], s)
          /\ G.at[x].handlers = SubSeq(s.handlers, 1, j - 1)

\* No instruction takes what the try regions that it is in have begun with.
Spares(G, op, s) ==
  \A j \in 1..Len(s.handlers) : Len(G.at[s.handlers[j].site].stack) + takes(op) <= Len(s.stack)

\* The instruction at a can run, and its edges lead to the layouts that it leaves.  A jump that is
\* still to be patched has the target 0.
Runs(G, a) ==
  LET op == G.code[a].op
      arg == G.code[a].arg
      s == G.at[a]
  IN /\ op \in Emitted
     /\ takes(op) <= Len(s.stack)
     /\ op = "UnwindTo" => arg <= s.scope
     /\ Spares(G, op, s)
     /\ op \notin Ends => Behind(op, arg, a, s, G.at[a + width(op)])
     /\ (op \in Targeted /\ arg # 0) =>
          arg \in DOMAIN G.at /\ arg <= G.seen /\ Ahead(op, a, s, G.at[arg])

Starts(c) == {a \in 1..Len(c) : c[a].op # "operand"}

Good(G) ==
  /\ CodeOK(G.code)
  /\ G.room \in Nat /\ G.seen \in Nat
  /\ DOMAIN G.at = Starts(G.code) \cup {Len(G.code) + 1}
  /\ G.at[1] = Bottom
  /\ \A a \in DOMAIN G.at : LayoutOK(G, G.at[a])
  /\ \A a \in Starts(G.code) : Runs(G, a)

\* The layout behind the code.
End(G) == G.at[Len(G.code) + 1]

\* A jump that is to be patched.
Open_jump(G, a) == a \in 1..Len(G.code) /\ G.code[a].op \in Targeted /\ G.code[a].arg = 0

\* H has more code than G, those of P have been patched, and those of N are to be patched.
Grows(G, H, P, N) ==
  /\ Len(G.code) <= Len(H.code)
  /\ G.room <= H.room
  /\ \A a \in 1..Len(G.code) : H.code[a].op = G.code[a].op /\ (a \notin P => H.code[a] = G.code[a])
  /\ \A a \in DOMAIN G.at : a \in DOMAIN H.at /\ H.at[a] = G.at[a]
  /\ \A a : Open_jump(H, a) => (Open_jump(G, a) /\ a \notin P) \/ a \in N

\* The code behind G makes and drops iterators at X only.
Calm(G, H, X) ==
  \A a \in (Len(G.code) + 1)..Len(H.code) : H.code[a].op \in {"IterInit", "IterDrop"} => a \in X

LEMMA EmittedOps ==
  /\ Emitted \subseteq Ops
  /\ "operand" \notin Ops
  /\ Emitted \cap Targeted = {"Jump", "JumpIfFalse", "JumpIfTrue", "IterNextStore", "PushHandler"}
  BY DEF Emitted, Ops, Targeted, Branches, Advances, Plain

LEMMA TakesNat ==
  ASSUME NEW op
  PROVE  takes(op) \in 0..2
  BY DEF takes

LEMMA CodeLen ==
  ASSUME NEW c, CodeOK(c)
  PROVE  c \in Seq(Cells) /\ Len(c) \in Nat
  BY DEF CodeOK

LEMMA GrowsTrans ==
  ASSUME NEW G, NEW H, NEW I2, NEW P, NEW Q, NEW N, NEW M, NEW R, NEW X,
         CodeOK(G.code), CodeOK(H.code), CodeOK(I2.code), G.room \in Nat, H.room \in Nat, I2.room \in Nat,
         Grows(G, H, P, N), Grows(H, I2, Q, M),
         \A a \in 1..Len(G.code) : a \in R <=> (a \in P \/ a \in Q),
         \A a : (a \in M \/ (a \in N /\ a \notin Q)) => a \in X
  PROVE  Grows(G, I2, R, X)
BY CodeLen DEF Grows, Open_jump

LEMMA CalmTrans ==
  ASSUME NEW G, NEW H, NEW I2, NEW P, NEW N, NEW X, NEW Y, NEW Z,
         CodeOK(G.code), CodeOK(H.code), CodeOK(I2.code), Calm(G, H, X), Calm(H, I2, Y), Grows(H, I2, P, N),
         \A a : (a \in X \/ a \in Y) => a \in Z
  PROVE  Calm(G, I2, Z)
<1>1. Len(G.code) \in Nat /\ Len(H.code) \in Nat /\ Len(I2.code) \in Nat BY CodeLen
<1> SUFFICES ASSUME NEW a \in (Len(G.code) + 1)..Len(I2.code), I2.code[a].op \in {"IterInit", "IterDrop"}
             PROVE  a \in Z
  BY DEF Calm
<1>2. CASE a <= Len(H.code) BY <1>1, <1>2 DEF Calm, Grows
<1>3. CASE a > Len(H.code) BY <1>1, <1>3 DEF Calm
<1> QED BY <1>1, <1>2, <1>3

LEMMA GrowsSelf ==
  ASSUME NEW G, Good(G)
  PROVE  Grows(G, G, {}, {}) /\ Calm(G, G, {})
BY CodeLen DEF Good, Grows, Calm

\* A layout stays in order as the code grows.
LEMMA LayoutGrows ==
  ASSUME NEW G, NEW H, NEW P, NEW N, Good(G), CodeOK(H.code), H.room \in Nat, Grows(G, H, P, N), NEW s, LayoutOK(G, s)
  PROVE  LayoutOK(H, s)
<1>1. Len(G.code) \in Nat /\ Len(H.code) \in Nat /\ Len(G.code) <= Len(H.code) /\ G.room \in Nat /\ G.room <= H.room
  BY CodeLen DEF Good, Grows
<1>2. s \in Layouts /\ Size(s) \in Nat /\ Size(s) <= H.room BY <1>1, LayoutType DEF LayoutOK
<1>3. ASSUME NEW k \in 1..Len(s.stack), s.stack[k] # 0
      PROVE  s.stack[k] \in 1..Len(H.code) /\ H.code[s.stack[k]].op = "IterInit"
 <2>1. s.stack[k] \in 1..Len(G.code) /\ G.code[s.stack[k]].op = "IterInit" BY <1>3 DEF LayoutOK
 <2> QED BY <2>1, <1>1 DEF Grows
<1>4. ASSUME NEW j \in 1..Len(s.handlers)
      PROVE  LET x == s.handlers[j].site
             IN /\ x \in 1..Len(H.code) /\ H.code[x].op = "PushHandler"
                /\ H.at[x] \in Layouts /\ Within(H.at[x], s)
                /\ H.at[x].handlers = SubSeq(s.handlers, 1, j - 1)
 <2> DEFINE x == s.handlers[j].site
 <2>1. /\ x \in 1..Len(G.code) /\ G.code[x].op = "PushHandler"
       /\ G.at[x] \in Layouts /\ Within(G.at[x], s)
       /\ G.at[x].handlers = SubSeq(s.handlers, 1, j - 1)
   BY DEF LayoutOK
 <2> HIDE DEF x
 <2>2. x \in DOMAIN G.at BY <2>1 DEF Good, Starts
 <2>3. x \in 1..Len(H.code) /\ H.code[x].op = "PushHandler" /\ H.at[x] = G.at[x]
   BY <2>1, <2>2, <1>1 DEF Grows
 <2> QED BY <2>1, <2>3 DEF x
<1> QED BY <1>2, <1>3, <1>4 DEF LayoutOK

(* An instruction is emitted. *)
LEMMA InstructionIs ==
  ASSUME NEW op \in Ops, NEW arg \in Nat
  PROVE  LET i == Instruction(op, arg) IN
         /\ CodeOK(i) /\ i \in Seq(Cells) /\ Len(i) = width(op) /\ width(op) \in 1..2
         /\ i[1] = [op |-> op, arg |-> arg]
         /\ width(op) = 2 => i[2].op = "operand"
         /\ op \in Targeted <=> width(op) = 2
BY InstructionOK DEF Instruction, width, CodeOK

\* G with one instruction more, and t behind it.
Emission(G, op, arg, t) ==
  LET c == G.code \o Instruction(op, arg)
  IN [code |-> c,
      at   |-> [a \in DOMAIN G.at \cup {Len(c) + 1} |-> IF a \in DOMAIN G.at THEN G.at[a] ELSE t],
      room |-> G.room + 1,
      seen |-> IF op \in Targeted THEN Larger(G.seen, arg) ELSE G.seen]

Unpatched(op, arg, a) == IF op \in Targeted /\ arg = 0 THEN {a} ELSE {}

Follows(G, H, op, arg, t) ==
  /\ Len(G.code) \in Nat
  /\ H.code = G.code \o Instruction(op, arg)
  /\ CodeOK(H.code)
  /\ Len(H.code) = Len(G.code) + width(op) /\ width(op) \in 1..2
  /\ \A a \in 1..Len(G.code) : H.code[a] = G.code[a]
  /\ H.code[Len(G.code) + 1] = [op |-> op, arg |-> arg]
  /\ Starts(H.code) = Starts(G.code) \cup {Len(G.code) + 1}
  /\ DOMAIN H.at = DOMAIN G.at \cup {Len(H.code) + 1}
  /\ Len(H.code) + 1 \notin DOMAIN G.at
  /\ DOMAIN H.at = Starts(H.code) \cup {Len(H.code) + 1}
  /\ \A a \in DOMAIN G.at : H.at[a] = G.at[a]
  /\ End(H) = t /\ H.at[Len(G.code) + 1] = End(G)
  /\ H.room = G.room + 1 /\ H.room \in Nat /\ H.seen \in Nat /\ G.seen <= H.seen
  /\ op \in Targeted => arg <= H.seen
  /\ H.seen = IF op \in Targeted THEN Larger(G.seen, arg) ELSE G.seen
  /\ Grows(G, H, {}, Unpatched(op, arg, Len(G.code) + 1))
  /\ Calm(G, H, IF op \in {"IterInit", "IterDrop"} THEN {Len(G.code) + 1} ELSE {})

LEMMA EmissionIs ==
  ASSUME NEW G, Good(G), NEW op \in Ops, NEW arg \in Nat, NEW t
  PROVE  Follows(G, Emission(G, op, arg, t), op, arg, t)
<1> DEFINE H == Emission(G, op, arg, t)
           n == Len(G.code)
           i == Instruction(op, arg)
           c == G.code \o i
           N == Unpatched(op, arg, n + 1)
<1>1. CodeOK(G.code) /\ G.code \in Seq(Cells) /\ n \in Nat /\ G.room \in Nat /\ G.seen \in Nat
  BY CodeLen DEF Good
<1>2. /\ CodeOK(i) /\ i \in Seq(Cells) /\ Len(i) = width(op) /\ width(op) \in 1..2
      /\ i[1] = [op |-> op, arg |-> arg] /\ (width(op) = 2 => i[2].op = "operand")
      /\ op \in Targeted <=> width(op) = 2
  BY InstructionIs
<1>3. H.code = c /\ CodeOK(c) BY <1>1, <1>2, ConcatOK DEF Emission
<1> HIDE DEF i
<1>4. /\ Len(c) = n + width(op) /\ \A a \in 1..n : c[a] = G.code[a]
      /\ c[n + 1] = [op |-> op, arg |-> arg]
      /\ width(op) = 2 => c[n + 2].op = "operand"
 <2>1. /\ Len(c) = n + Len(i) /\ \A a \in 1..n : c[a] = G.code[a]
       /\ \A a \in (n + 1)..(n + Len(i)) : c[a] = i[a - n]
   BY <1>1, <1>2, ConcatFacts
 <2>2. (n + 1) - n = 1 /\ (n + 2) - n = 2 /\ n + 1 \in (n + 1)..(n + Len(i))
       /\ (width(op) = 2 => n + 2 \in (n + 1)..(n + Len(i)))
   BY <1>1, <1>2
 <2> HIDE DEF n, c
 <2> QED BY <2>1, <2>2, <1>2
<1> HIDE DEF c
<1>5. Starts(c) = Starts(G.code) \cup {n + 1}
 <2>1. op # "operand" BY EmittedOps
 <2>2. ASSUME NEW a PROVE a \in Starts(c) <=> a \in Starts(G.code) \/ a = n + 1
  <3>1. a \in 1..Len(c) <=> a \in 1..n \/ a = n + 1 \/ (width(op) = 2 /\ a = n + 2) BY <1>1, <1>2, <1>4
  <3>2. a \in 1..n => c[a].op = G.code[a].op BY <1>4
  <3>3. c[n + 1].op # "operand" BY <1>4, <2>1
  <3>4. n + 2 \notin 1..n /\ n + 2 # n + 1 BY <1>1
  <3> QED BY <3>1, <3>2, <3>3, <3>4, <1>4 DEF Starts
 <2> QED BY <2>2
<1>6. DOMAIN G.at = Starts(G.code) \cup {n + 1} BY DEF Good
<1>7. /\ H.at = [a \in DOMAIN G.at \cup {Len(c) + 1} |-> IF a \in DOMAIN G.at THEN G.at[a] ELSE t]
      /\ H.room = G.room + 1
      /\ H.seen = IF op \in Targeted THEN Larger(G.seen, arg) ELSE G.seen
  BY DEF Emission, c, i
<1> HIDE DEF H
<1>8. Len(c) + 1 \notin DOMAIN G.at BY <1>1, <1>2, <1>4, <1>6 DEF Starts
<1>9. /\ DOMAIN H.at = DOMAIN G.at \cup {Len(c) + 1}
      /\ \A a \in DOMAIN G.at : H.at[a] = G.at[a]
      /\ H.at[Len(c) + 1] = t
  BY <1>7, <1>8
<1>10. H.at[n + 1] = End(G) /\ End(H) = t BY <1>3, <1>6, <1>9 DEF End
<1>11. H.seen \in Nat /\ G.seen <= H.seen /\ (op \in Targeted => arg <= H.seen) BY <1>1, <1>7 DEF Larger
<1>12. ASSUME NEW a, Open_jump(H, a)
       PROVE  Open_jump(G, a) \/ (a = n + 1 /\ op \in Targeted /\ arg = 0)
  BY <1>12, <1>3, OpFacts, <1>5, <1>4 DEF Open_jump, Starts
<1>13. Grows(G, H, {}, N)
 <2>1. Len(G.code) <= Len(H.code) /\ G.room <= H.room BY <1>1, <1>2, <1>3, <1>4, <1>7
 <2> QED BY <2>1, <1>3, <1>4, <1>9, <1>12 DEF Grows, Unpatched
<1>14. Calm(G, H, IF op \in {"IterInit", "IterDrop"} THEN {Len(G.code) + 1} ELSE {})
 <2>1. \A a \in (n + 1)..Len(c) : a = n + 1 \/ (a = n + 2 /\ width(op) = 2) BY <1>1, <1>2, <1>4
 <2>2. width(op) = 2 => c[n + 2].op \notin {"IterInit", "IterDrop"} BY <1>4
 <2> QED BY <2>1, <2>2, <1>3, <1>4 DEF Calm
<1>15. DOMAIN H.at = Starts(c) \cup {Len(c) + 1} BY <1>5, <1>6, <1>9
<1> HIDE DEF N
<1>16. /\ n \in Nat /\ H.code = G.code \o i /\ CodeOK(H.code)
       /\ Len(H.code) = n + width(op) /\ width(op) \in 1..2
       /\ \A a \in 1..n : H.code[a] = G.code[a]
       /\ H.code[n + 1] = [op |-> op, arg |-> arg]
       /\ Starts(H.code) = Starts(G.code) \cup {n + 1}
  BY <1>1, <1>2, <1>3, <1>4, <1>5 DEF c
<1>17. /\ DOMAIN H.at = DOMAIN G.at \cup {Len(H.code) + 1}
       /\ Len(H.code) + 1 \notin DOMAIN G.at
       /\ DOMAIN H.at = Starts(H.code) \cup {Len(H.code) + 1}
       /\ \A a \in DOMAIN G.at : H.at[a] = G.at[a]
  BY <1>3, <1>8, <1>9, <1>15
<1>18. H.room \in Nat BY <1>1, <1>7
<1> HIDE DEF n
<1> QED BY <1>7, <1>10, <1>11, <1>12, <1>13, <1>14, <1>16, <1>17, <1>18 DEF Follows, H, i, n, N

\* The instructions that are there stay in order.
LEMMA RunsGrows ==
  ASSUME NEW G, NEW H, NEW N, Good(G), CodeOK(H.code), H.room \in Nat, H.seen \in Nat, G.seen <= H.seen,
         Grows(G, H, {}, N), NEW a \in Starts(G.code)
  PROVE  Runs(H, a)
<1> DEFINE op == G.code[a].op
           arg == G.code[a].arg
           s == G.at[a]
<1>1. Len(G.code) \in Nat /\ CodeOK(G.code) /\ a \in 1..Len(G.code) /\ op # "operand" /\ G.seen \in Nat
  BY CodeLen DEF Good, Starts
<1>2. a \in DOMAIN G.at /\ a + width(op) \in DOMAIN G.at
 <2>1. /\ a + width(op) <= Len(G.code) + 1
       /\ a + width(op) <= Len(G.code) => G.code[a + width(op)].op # "operand"
   BY <1>1 DEF CodeOK, WellFormed
 <2>2. width(op) \in 1..2 BY DEF width
 <2>3. a + width(op) \in 1..Len(G.code) \/ a + width(op) = Len(G.code) + 1 BY <1>1, <2>1, <2>2
 <2> QED BY <2>1, <2>3 DEF Good, Starts
<1>3. Runs(G, a) BY DEF Good
<1>4. H.code[a] = G.code[a] /\ H.at[a] = s /\ H.at[a + width(op)] = G.at[a + width(op)]
  BY <1>1, <1>2 DEF Grows
<1>5. Spares(H, op, s)
 <2> SUFFICES ASSUME NEW j \in 1..Len(s.handlers)
              PROVE  Len(H.at[s.handlers[j].site].stack) + takes(op) <= Len(s.stack)
   BY DEF Spares
 <2>1. LayoutOK(G, s) BY <1>2 DEF Good
 <2>2. s.handlers[j].site \in DOMAIN G.at BY <2>1 DEF LayoutOK, Good, Starts
 <2>3. H.at[s.handlers[j].site] = G.at[s.handlers[j].site] BY <2>2 DEF Grows
 <2> QED BY <2>3, <1>3 DEF Runs, Spares
<1>6. (op \in Targeted /\ arg # 0) => arg \in DOMAIN H.at /\ arg <= H.seen /\ Ahead(op, a, s, H.at[arg])
 <2> SUFFICES ASSUME op \in Targeted, arg # 0
              PROVE  arg \in DOMAIN H.at /\ arg <= H.seen /\ Ahead(op, a, s, H.at[arg])
   OBVIOUS
 <2>1. arg \in DOMAIN G.at /\ arg <= G.seen /\ Ahead(op, a, s, G.at[arg]) BY <1>3 DEF Runs
 <2>2. arg \in Nat BY <1>1, CellType DEF CodeOK
 <2>3. arg \in DOMAIN H.at /\ H.at[arg] = G.at[arg] BY <2>1 DEF Grows
 <2> QED BY <2>1, <2>2, <2>3, <1>1
<1> HIDE DEF op, arg, s
<1>7. /\ op \in Emitted /\ takes(op) <= Len(s.stack) /\ (op = "UnwindTo" => arg <= s.scope)
      /\ op \notin Ends => Behind(op, arg, a, s, G.at[a + width(op)])
  BY <1>3 DEF Runs, op, arg, s
<1>8. H.code[a].op = op /\ H.code[a].arg = arg BY <1>4 DEF op, arg
<1> QED BY <1>4, <1>5, <1>6, <1>7, <1>8 DEF Runs

LEMMA EmitRaw ==
  ASSUME NEW G, Good(G), NEW op \in Emitted, NEW arg \in Nat, NEW t, NEW H, H = Emission(G, op, arg, t),
         takes(op) <= Len(End(G).stack),
         op = "UnwindTo" => arg <= End(G).scope,
         Spares(G, op, End(G)),
         op \notin Ends => Behind(op, arg, Len(G.code) + 1, End(G), t),
         (op \in Targeted /\ arg # 0) => arg \in DOMAIN G.at /\ Ahead(op, Len(G.code) + 1, End(G), G.at[arg]),
         LayoutOK(H, t)
  PROVE  Good(H)
<1> DEFINE n == Len(G.code)
           N == Unpatched(op, arg, n + 1)
           s == End(G)
<1>0. op \in Ops BY EmittedOps
<1>1. /\ n \in Nat
      /\ CodeOK(H.code)
      /\ Len(H.code) = n + width(op) /\ width(op) \in 1..2
      /\ H.code[n + 1] = [op |-> op, arg |-> arg]
      /\ Starts(H.code) = Starts(G.code) \cup {n + 1}
      /\ DOMAIN H.at = DOMAIN G.at \cup {Len(H.code) + 1}
      /\ DOMAIN H.at = Starts(H.code) \cup {Len(H.code) + 1}
      /\ \A a \in DOMAIN G.at : H.at[a] = G.at[a]
      /\ End(H) = t /\ H.at[n + 1] = s
      /\ H.room \in Nat /\ H.seen \in Nat /\ G.seen <= H.seen
      /\ op \in Targeted => arg <= H.seen
      /\ Grows(G, H, {}, N)
 <2>1. Follows(G, H, op, arg, t) BY <1>0, EmissionIs
 <2> QED BY <2>1 DEF Follows
<1> HIDE DEF N
<1>2. H.at[1] = Bottom
 <2>1. 1 \in DOMAIN G.at BY <1>1 DEF Good, CodeOK, WellFormed, Starts
 <2> QED BY <2>1, <1>1 DEF Good
<1>3. ASSUME NEW a \in DOMAIN H.at PROVE LayoutOK(H, H.at[a]) BY <1>1, LayoutGrows DEF Good, End
<1>4. Runs(H, n + 1)
 <2>0. LayoutOK(G, s) BY DEF Good, End
 <2>1. Spares(H, op, s)
  <3> SUFFICES ASSUME NEW j \in 1..Len(s.handlers)
               PROVE  Len(H.at[s.handlers[j].site].stack) + takes(op) <= Len(s.stack)
    BY DEF Spares
  <3>1. s.handlers[j].site \in DOMAIN G.at BY <2>0 DEF LayoutOK, Good, Starts
  <3> QED BY <3>1, <1>1 DEF Spares
 <2>2. H.at[n + 1 + width(op)] = t BY <1>1 DEF End
 <2>3. (op \in Targeted /\ arg # 0) => arg \in DOMAIN H.at /\ arg <= H.seen /\ Ahead(op, n + 1, s, H.at[arg])
   BY <1>1
 <2>4. H.code[n + 1].op = op /\ H.code[n + 1].arg = arg BY <1>1
 <2> HIDE DEF s, n
 <2>5. H.at[n + 1] = s BY <1>1
 <2>6. takes(op) <= Len(s.stack) /\ (op = "UnwindTo" => arg <= s.scope) /\ (op \notin Ends => Behind(op, arg, n + 1, s, t))
   BY DEF s, n
 <2> QED BY <2>1, <2>2, <2>3, <2>4, <2>5, <2>6 DEF Runs
<1>5. ASSUME NEW a \in Starts(H.code) PROVE Runs(H, a) BY <1>1, RunsGrows, <1>4
<1> QED BY <1>1, <1>2, <1>3, <1>5 DEF Good

(* Layouts in code. *)
LEMMA WithinTrans ==
  ASSUME NEW r \in Layouts, NEW s \in Layouts, NEW t \in Layouts, Within(r, s), Within(s, t)
  PROVE  Within(r, t)
<1>1. Len(r.stack) \in Nat /\ Len(s.stack) \in Nat /\ Len(t.stack) \in Nat
      /\ r.scope \in Nat /\ s.scope \in Nat /\ t.scope \in Nat
  BY LayoutType
<1>2. \A k \in 1..Len(r.stack) : k \in 1..Len(s.stack) BY <1>1 DEF Within
<1> QED BY <1>1, <1>2 DEF Within

\* More on the stack, or in the scope.
LEMMA LayoutRises ==
  ASSUME NEW G, NEW s, LayoutOK(G, s), NEW t \in Layouts, t.handlers = s.handlers, Within(s, t),
         Size(t) <= G.room,
         \A k \in (Len(s.stack) + 1)..Len(t.stack) :
           t.stack[k] # 0 => t.stack[k] \in 1..Len(G.code) /\ G.code[t.stack[k]].op = "IterInit"
  PROVE  LayoutOK(G, t)
<1>1. s \in Layouts /\ Len(s.stack) \in Nat /\ Len(t.stack) \in Nat BY LayoutType DEF LayoutOK
<1>2. ASSUME NEW k \in 1..Len(t.stack), t.stack[k] # 0
      PROVE  t.stack[k] \in 1..Len(G.code) /\ G.code[t.stack[k]].op = "IterInit"
  BY <1>1, <1>2 DEF Within, LayoutOK
<1>3. ASSUME NEW j \in 1..Len(t.handlers)
      PROVE  LET x == t.handlers[j].site
             IN /\ x \in 1..Len(G.code) /\ G.code[x].op = "PushHandler"
                /\ G.at[x] \in Layouts /\ Within(G.at[x], t)
                /\ G.at[x].handlers = SubSeq(t.handlers, 1, j - 1)
  BY <1>1, WithinTrans DEF LayoutOK
<1> QED BY <1>2, <1>3 DEF LayoutOK

LEMMA PlusLayout ==
  ASSUME NEW G, NEW s, LayoutOK(G, s), Size(s) + 1 <= G.room
  PROVE  LayoutOK(G, Plus(s, 0))
<1> DEFINE t == Plus(s, 0)
<1>1. s \in Layouts BY DEF LayoutOK
<1>2. /\ t \in Layouts /\ t.handlers = s.handlers /\ t.scope = s.scope
      /\ Len(t.stack) = Len(s.stack) + 1 /\ t.stack[Len(s.stack) + 1] = 0
      /\ \A k \in 1..Len(s.stack) : t.stack[k] = s.stack[k]
      /\ Size(t) = Size(s) + 1
  BY <1>1, PlusType
<1>3. Len(s.stack) \in Nat /\ s.scope \in Nat BY <1>1, LayoutType
<1> HIDE DEF t
<1>4. Within(s, t) BY <1>2, <1>3 DEF Within
<1>5. \A k \in (Len(s.stack) + 1)..Len(t.stack) : t.stack[k] = 0 BY <1>2, <1>3
<1> QED BY <1>2, <1>4, <1>5, LayoutRises DEF t

LEMMA ScopedLayout ==
  ASSUME NEW G, NEW s, LayoutOK(G, s), NEW n \in Nat, s.scope <= n
  PROVE  LayoutOK(G, Scoped(s, n))
<1> DEFINE t == Scoped(s, n)
<1>1. s \in Layouts /\ Size(s) <= G.room BY DEF LayoutOK
<1>2. t \in Layouts /\ t.handlers = s.handlers /\ t.scope = n /\ t.stack = s.stack /\ Size(t) = Size(s)
  BY <1>1, ScopedType
<1>3. Len(s.stack) \in Nat BY <1>1, LayoutType
<1> HIDE DEF t
<1>4. Within(s, t) BY <1>2, <1>3 DEF Within
<1>5. \A k \in (Len(s.stack) + 1)..Len(t.stack) : FALSE BY <1>2, <1>3
<1> QED BY <1>1, <1>2, <1>4, <1>5, LayoutRises DEF t

LEMMA LoopedLayout ==
  ASSUME NEW G, NEW s, LayoutOK(G, s), NEW q \in 1..Len(G.code), q \in Nat, G.code[q].op = "IterInit",
         Size(s) + 2 <= G.room
  PROVE  LayoutOK(G, Looped(s, q))
<1> DEFINE t == Looped(s, q)
<1>1. s \in Layouts BY DEF LayoutOK
<1>2. /\ t \in Layouts /\ t.handlers = s.handlers /\ t.scope = s.scope
      /\ Len(t.stack) = Len(s.stack) + 1 /\ t.stack[Len(s.stack) + 1] = q
      /\ \A k \in 1..Len(s.stack) : t.stack[k] = s.stack[k]
      /\ Size(t) = Size(s) + 2
  BY <1>1, LoopedType
<1>3. Len(s.stack) \in Nat /\ s.scope \in Nat BY <1>1, LayoutType
<1> HIDE DEF t
<1>4. Within(s, t) BY <1>2, <1>3 DEF Within
<1>5. \A k \in (Len(s.stack) + 1)..Len(t.stack) : t.stack[k] = q BY <1>2, <1>3
<1> QED BY <1>2, <1>4, <1>5, LayoutRises DEF t

\* A try region that begins at a.
LEMMA RegionLayout ==
  ASSUME NEW G, NEW s, LayoutOK(G, s), NEW a \in 1..Len(G.code), a \in Nat \ {0}, G.code[a].op = "PushHandler",
         G.at[a] = s, NEW n \in Nat, s.scope <= n, NEW c \in BOOLEAN
  PROVE  LayoutOK(G, Region(s, n, a, c))
<1> DEFINE t == Region(s, n, a, c)
<1>1. s \in Layouts /\ Len(s.stack) \in Nat /\ Len(s.handlers) \in Nat /\ s.scope \in Nat /\ Size(s) <= G.room
  BY LayoutType DEF LayoutOK
<1>2. /\ t \in Layouts /\ t.stack = s.stack /\ t.scope = n
      /\ Len(t.handlers) = Len(s.handlers) + 1
      /\ \A j \in 1..Len(s.handlers) : t.handlers[j] = s.handlers[j]
      /\ t.handlers[Len(s.handlers) + 1] = [site |-> a, caught |-> c]
      /\ \A j \in 0..Len(s.handlers) : SubSeq(t.handlers, 1, j) = SubSeq(s.handlers, 1, j)
      /\ SubSeq(t.handlers, 1, Len(s.handlers)) = s.handlers
      /\ Size(t) = Size(s)
 <2>1. RegionOf(s, n, a, c, t) BY <1>1, RegionType
 <2> HIDE DEF t
 <2> QED BY <2>1 DEF RegionOf
<1> HIDE DEF t
<1>3. Within(s, t) BY <1>1, <1>2 DEF Within
<1>4. ASSUME NEW j \in 1..Len(t.handlers)
      PROVE  LET x == t.handlers[j].site
             IN /\ x \in 1..Len(G.code) /\ G.code[x].op = "PushHandler"
                /\ G.at[x] \in Layouts /\ Within(G.at[x], t)
                /\ G.at[x].handlers = SubSeq(t.handlers, 1, j - 1)
 <2>1. CASE j \in 1..Len(s.handlers)
  <3> DEFINE x == s.handlers[j].site
  <3>1. /\ x \in 1..Len(G.code) /\ G.code[x].op = "PushHandler"
        /\ G.at[x] \in Layouts /\ Within(G.at[x], s)
        /\ G.at[x].handlers = SubSeq(s.handlers, 1, j - 1)
    BY <2>1 DEF LayoutOK
  <3>2. t.handlers[j].site = x BY <2>1, <1>2
  <3>3. j - 1 \in 0..Len(s.handlers) BY <2>1, <1>1
  <3> HIDE DEF x
  <3>4. Within(G.at[x], t) BY <3>1, <1>1, <1>2, <1>3, WithinTrans
  <3>5. SubSeq(t.handlers, 1, j - 1) = SubSeq(s.handlers, 1, j - 1) BY <3>3, <1>2
  <3> QED BY <3>1, <3>2, <3>4, <3>5
 <2>2. CASE j = Len(s.handlers) + 1 BY <2>2, <1>2, <1>1, <1>3
 <2> QED BY <2>1, <2>2, <1>1, <1>2
<1>5. \A k \in 1..Len(t.stack) :
        t.stack[k] # 0 => t.stack[k] \in 1..Len(G.code) /\ G.code[t.stack[k]].op = "IterInit"
  BY <1>2 DEF LayoutOK
<1> QED BY <1>1, <1>2, <1>4, <1>5 DEF LayoutOK, t

LEMMA DisarmedLayout ==
  ASSUME NEW G, NEW s, LayoutOK(G, s), NEW n \in 0..Len(s.handlers)
  PROVE  LayoutOK(G, Disarmed(s, n))
<1> DEFINE t == Disarmed(s, n)
<1>1. s \in Layouts /\ Len(s.handlers) \in Nat /\ Size(s) <= G.room BY LayoutType DEF LayoutOK
<1>2. /\ t \in Layouts /\ t.stack = s.stack /\ t.scope = s.scope
      /\ Len(t.handlers) = n
      /\ \A j \in 1..n : t.handlers[j] = s.handlers[j]
      /\ \A j \in 0..n : SubSeq(t.handlers, 1, j) = SubSeq(s.handlers, 1, j)
      /\ Size(t) = Size(s)
  BY <1>1, DisarmedType
<1> HIDE DEF t
<1>3. ASSUME NEW r, Within(r, s) PROVE Within(r, t) BY <1>2, <1>3 DEF Within
<1>4. ASSUME NEW j \in 1..Len(t.handlers)
      PROVE  LET x == t.handlers[j].site
             IN /\ x \in 1..Len(G.code) /\ G.code[x].op = "PushHandler"
                /\ G.at[x] \in Layouts /\ Within(G.at[x], t)
                /\ G.at[x].handlers = SubSeq(t.handlers, 1, j - 1)
 <2>1. j \in 1..Len(s.handlers) /\ j - 1 \in 0..n /\ t.handlers[j] = s.handlers[j] BY <1>1, <1>2
 <2>2. SubSeq(t.handlers, 1, j - 1) = SubSeq(s.handlers, 1, j - 1) BY <2>1, <1>2
 <2> QED BY <2>1, <2>2, <1>3 DEF LayoutOK
<1>5. \A k \in 1..Len(t.stack) :
        t.stack[k] # 0 => t.stack[k] \in 1..Len(G.code) /\ G.code[t.stack[k]].op = "IterInit"
  BY <1>2 DEF LayoutOK
<1> QED BY <1>1, <1>2, <1>4, <1>5 DEF LayoutOK, t

(* What emit makes of a lowering. *)
Heads(cells) == {i \in DOMAIN cells : cells[i].op # "operand"}

Targets(cells) == {cells[i].arg : i \in {j \in Heads(cells) : cells[j].op \in Targeted}}

Greatest(S) == CHOOSE m \in S : \A t \in S : t <= m

LEMMA EmitIs ==
  ASSUME NEW l, NEW cells
  PROVE  emit(l, cells) = [l EXCEPT !.code = @ \o cells, !.max_stack = @ + Cardinality(Heads(cells)),
                                    !.patched = Greatest(Targets(cells) \cup {@})]
  BY DEF emit, Heads, Targets, Greatest

\* Of a set of targets and one address more there is a last.
HasLast(S) == \E m \in S : m \in Nat /\ \A t \in S : t \in Nat /\ t <= m

Bounded(T) == \A p \in Nat : HasLast(T \cup {p})

LEMMA GreatestIs ==
  ASSUME NEW S, NEW m \in S, S \subseteq Nat, \A t \in S : t <= m
  PROVE  Greatest(S) = m
<1>1. Greatest(S) \in S /\ \A t \in S : t <= Greatest(S) BY DEF Greatest
<1>2. Greatest(S) <= m /\ m <= Greatest(S) /\ Greatest(S) \in Nat /\ m \in Nat BY <1>1
<1> QED BY <1>2

Latest(S, p) == Greatest(S \cup {p})

LEMMA GreatestOf ==
  ASSUME NEW T, Bounded(T), NEW p \in Nat
  PROVE  LET m == Greatest(T \cup {p})
         IN m \in Nat /\ m \in T \cup {p} /\ p <= m /\ \A t \in T \cup {p} : t \in Nat /\ t <= m
<1>1. PICK m \in T \cup {p} : m \in Nat /\ \A t \in T \cup {p} : t \in Nat /\ t <= m
  BY DEF Bounded, HasLast
<1>2. Greatest(T \cup {p}) = m BY <1>1, GreatestIs
<1> QED BY <1>1, <1>2

LEMMA GreatestUnion ==
  ASSUME NEW S, NEW T, Bounded(S), Bounded(T), NEW p \in Nat
  PROVE  /\ HasLast((S \cup T) \cup {p})
         /\ Latest(S \cup T, p) = Latest(T, Latest(S, p))
<1> DEFINE g == Greatest(S \cup {p})
           h == Greatest(T \cup {g})
<1>1. g \in Nat /\ g \in S \cup {p} /\ \A t \in S \cup {p} : t \in Nat /\ t <= g BY GreatestOf
<1> HIDE DEF g
<1>2. h \in Nat /\ h \in T \cup {g} /\ g <= h /\ \A t \in T \cup {g} : t \in Nat /\ t <= h
  BY <1>1, GreatestOf
<1> HIDE DEF h
<1> DEFINE U == (S \cup T) \cup {p}
<1>3. h \in U BY <1>1, <1>2
<1>4. ASSUME NEW t \in U PROVE t \in Nat /\ t <= h BY <1>2, <1>1
<1> HIDE DEF U
<1>5. Greatest(U) = h BY <1>3, <1>4, GreatestIs
<1> QED BY <1>2, <1>3, <1>4, <1>5 DEF U, h, g, HasLast, Latest

LEMMA BoundedUnion ==
  ASSUME NEW S, NEW T, Bounded(S), Bounded(T)
  PROVE  Bounded(S \cup T)
<1> SUFFICES ASSUME NEW p \in Nat
             PROVE  HasLast((S \cup T) \cup {p})
  BY DEF Bounded
<1> QED BY GreatestUnion

Emittable(x) == CodeOK(x) /\ Bounded(Targets(x)) /\ IsFiniteSet(Heads(x))

LEMMA InstructionEmittable ==
  ASSUME NEW op \in Ops, NEW arg \in Nat
  PROVE  LET i == Instruction(op, arg) IN
         /\ Emittable(i)
         /\ Cardinality(Heads(i)) = 1
         /\ Targets(i) = IF op \in Targeted THEN {arg} ELSE {}
<1> DEFINE i == Instruction(op, arg)
<1>1. /\ CodeOK(i) /\ i \in Seq(Cells) /\ Len(i) = width(op) /\ width(op) \in 1..2
      /\ i[1] = [op |-> op, arg |-> arg] /\ (width(op) = 2 => i[2].op = "operand")
      /\ op # "operand"
  BY InstructionIs, EmittedOps
<1> HIDE DEF i
<1>2. DOMAIN i = 1..Len(i) /\ 1 \in DOMAIN i /\ \A k \in DOMAIN i : k = 1 \/ (k = 2 /\ width(op) = 2)
  BY <1>1
<1>3. Heads(i) = {1} BY <1>1, <1>2 DEF Heads
<1>4. Cardinality(Heads(i)) = 1 /\ IsFiniteSet(Heads(i)) BY <1>3, FS_Singleton
<1>5. Targets(i) = IF op \in Targeted THEN {arg} ELSE {} BY <1>1, <1>3 DEF Targets
<1>6. Bounded(Targets(i))
 <2> SUFFICES ASSUME NEW p \in Nat
              PROVE  \E m \in Targets(i) \cup {p} : m \in Nat /\ \A t \in Targets(i) \cup {p} : t \in Nat /\ t <= m
   BY DEF Bounded, HasLast
 <2>1. CASE arg <= p \/ op \notin Targeted BY <2>1, <1>5
 <2>2. CASE p < arg /\ op \in Targeted BY <2>2, <1>5
 <2> QED BY <2>1, <2>2
<1> QED BY <1>1, <1>4, <1>5, <1>6 DEF Emittable, i

\* Pieces of code are put together.
LEMMA HeadsConcat ==
  ASSUME NEW x, NEW y, Emittable(x), Emittable(y)
  PROVE  /\ Emittable(x \o y)
         /\ Cardinality(Heads(x \o y)) = Cardinality(Heads(x)) + Cardinality(Heads(y))
         /\ Targets(x \o y) = Targets(x) \cup Targets(y)
<1> DEFINE c == x \o y
           n == Len(x)
           B == {n + i : i \in Heads(y)}
<1>1. CodeOK(x) /\ CodeOK(y) /\ CodeOK(c) /\ x \in Seq(Cells) /\ y \in Seq(Cells)
  BY ConcatOK, CodeLen DEF Emittable
<1>2. /\ n \in Nat /\ Len(y) \in Nat /\ Len(c) = n + Len(y) /\ c \in Seq(Cells)
      /\ \A i \in 1..n : c[i] = x[i]
      /\ \A i \in (n + 1)..(n + Len(y)) : c[i] = y[i - n]
      /\ DOMAIN c = 1..Len(c) /\ DOMAIN x = 1..n /\ DOMAIN y = 1..Len(y)
  BY <1>1, ConcatFacts
<1> HIDE DEF c
<1>3. \A i \in Heads(y) : i \in 1..Len(y) /\ n + i \in (n + 1)..(n + Len(y)) /\ c[n + i] = y[i]
 <2> SUFFICES ASSUME NEW i \in Heads(y)
              PROVE  i \in 1..Len(y) /\ n + i \in (n + 1)..(n + Len(y)) /\ c[n + i] = y[i]
   OBVIOUS
 <2>1. i \in 1..Len(y) BY <1>2 DEF Heads
 <2>2. n + i \in (n + 1)..(n + Len(y)) /\ (n + i) - n = i BY <2>1, <1>2
 <2> QED BY <2>1, <2>2, <1>2
<1>4. Heads(c) = Heads(x) \cup B
 <2>1. ASSUME NEW i \in Heads(c) PROVE i \in Heads(x) \cup B
  <3>1. i \in 1..n \/ i \in (n + 1)..(n + Len(y)) BY <1>2 DEF Heads
  <3>2. CASE i \in 1..n BY <3>2, <1>2 DEF Heads
  <3>3. CASE i \in (n + 1)..(n + Len(y))
   <4>1. i - n \in 1..Len(y) /\ n + (i - n) = i BY <3>3, <1>2
   <4>2. i - n \in Heads(y) BY <4>1, <3>3, <1>2 DEF Heads
   <4> QED BY <4>1, <4>2
  <3> QED BY <3>1, <3>2, <3>3
 <2>2. ASSUME NEW i \in Heads(x) PROVE i \in Heads(c) BY <1>2 DEF Heads
 <2>3. ASSUME NEW i \in Heads(y) PROVE n + i \in Heads(c) BY <1>2, <1>3 DEF Heads
 <2> QED BY <2>1, <2>2, <2>3
<1>5. Heads(x) \cap B = {} BY <1>2, <1>3 DEF Heads
<1>6. IsFiniteSet(B) /\ Cardinality(B) = Cardinality(Heads(y))
 <2> DEFINE f == [i \in Heads(y) |-> n + i]
 <2>1. \A i \in Heads(y) : i \in Nat BY <1>2 DEF Heads
 <2>2. f \in Bijection(Heads(y), B)
  <3>1. f \in [Heads(y) -> B] OBVIOUS
  <3>2. \A i, j \in Heads(y) : f[i] = f[j] => i = j BY <2>1, <1>2
  <3>3. \A b \in B : \E i \in Heads(y) : f[i] = b OBVIOUS
  <3>4. DOMAIN f = Heads(y) OBVIOUS
  <3> HIDE DEF f, B
  <3>5. f \in Injection(Heads(y), B) BY <3>1, <3>2, <3>4 DEF Injection, IsInjective
  <3>6. f \in Surjection(Heads(y), B) BY <3>1, <3>3 DEF Surjection
  <3> QED BY <3>5, <3>6 DEF Bijection
 <2>3. ExistsBijection(Heads(y), B) BY <2>2 DEF ExistsBijection
 <2> QED BY <2>3, FS_Bijection DEF Emittable
<1>7. IsFiniteSet(Heads(c)) /\ Cardinality(Heads(c)) = Cardinality(Heads(x)) + Cardinality(Heads(y))
 <2>1. IsFiniteSet(Heads(x)) /\ Cardinality({}) = 0 /\ Cardinality(Heads(x)) \in Nat /\ Cardinality(B) \in Nat
   BY <1>6, FS_EmptySet, FS_CardinalityType DEF Emittable
 <2> HIDE DEF B
 <2>2. Cardinality(Heads(x) \cup B) = Cardinality(Heads(x)) + Cardinality(B) - Cardinality(Heads(x) \cap B)
       /\ IsFiniteSet(Heads(x) \cup B)
   BY <2>1, <1>6, FS_Union
 <2>3. Cardinality(Heads(x) \cap B) = 0 BY <2>1, <1>5
 <2> QED BY <2>1, <2>2, <2>3, <1>4, <1>6
<1>8. Targets(c) = Targets(x) \cup Targets(y)
 <2>1. \A i \in Heads(x) : i \in Heads(c) /\ c[i] = x[i] BY <1>2, <1>4 DEF Heads
 <2>2. \A i \in Heads(y) : n + i \in Heads(c) /\ c[n + i] = y[i] BY <1>3, <1>4
 <2>3. \A i \in Heads(c) : (i \in Heads(x) /\ c[i] = x[i]) \/ \E k \in Heads(y) : c[i] = y[k]
   BY <2>1, <1>3, <1>4
 <2> HIDE DEF n, B
 <2>4. ASSUME NEW t \in Targets(c) PROVE t \in Targets(x) \cup Targets(y)
  <3>1. PICK i \in Heads(c) : c[i].op \in Targeted /\ t = c[i].arg BY DEF Targets
  <3> QED BY <3>1, <2>3 DEF Targets
 <2>5. ASSUME NEW t \in Targets(x) PROVE t \in Targets(c)
  <3>1. PICK i \in Heads(x) : x[i].op \in Targeted /\ t = x[i].arg BY DEF Targets
  <3> QED BY <3>1, <2>1 DEF Targets
 <2>6. ASSUME NEW t \in Targets(y) PROVE t \in Targets(c)
  <3>1. PICK i \in Heads(y) : y[i].op \in Targeted /\ t = y[i].arg BY DEF Targets
  <3> QED BY <3>1, <2>2 DEF Targets
 <2> QED BY <2>4, <2>5, <2>6
<1>9. Bounded(Targets(c)) BY <1>8, BoundedUnion DEF Emittable
<1> QED BY <1>1, <1>7, <1>8, <1>9 DEF Emittable, c

LEMMA ConcatAssoc ==
  ASSUME NEW a, NEW x, NEW y, CodeOK(a), CodeOK(x), CodeOK(y)
  PROVE  a \o (x \o y) = (a \o x) \o y
<1> DEFINE n == Len(a)
           m == Len(x)
           u == a \o x
           v == x \o y
           c == a \o v
           d == u \o y
<1>1. /\ a \in Seq(Cells) /\ x \in Seq(Cells) /\ y \in Seq(Cells)
      /\ n \in Nat /\ m \in Nat /\ Len(y) \in Nat
  BY CodeLen
<1>2. /\ u \in Seq(Cells) /\ Len(u) = n + m
      /\ \A i \in 1..n : u[i] = a[i]
      /\ \A i \in (n + 1)..(n + m) : u[i] = x[i - n]
  BY <1>1, ConcatFacts
<1>3. /\ v \in Seq(Cells) /\ Len(v) = m + Len(y)
      /\ \A i \in 1..m : v[i] = x[i]
      /\ \A i \in (m + 1)..(m + Len(y)) : v[i] = y[i - m]
  BY <1>1, ConcatFacts
<1> HIDE DEF u, v
<1>4. /\ c \in Seq(Cells) /\ Len(c) = n + Len(v)
      /\ \A i \in 1..n : c[i] = a[i]
      /\ \A i \in (n + 1)..(n + Len(v)) : c[i] = v[i - n]
  BY <1>1, <1>3, ConcatFacts
<1>5. /\ d \in Seq(Cells) /\ Len(d) = Len(u) + Len(y)
      /\ \A i \in 1..Len(u) : d[i] = u[i]
      /\ \A i \in (Len(u) + 1)..(Len(u) + Len(y)) : d[i] = y[i - Len(u)]
 <2>1. u \in Seq(Cells) /\ y \in Seq(Cells) BY <1>1, <1>2
 <2> QED BY <2>1, ConcatFacts
<1> HIDE DEF c, d, n, m
<1>6. Len(c) = Len(d) BY <1>1, <1>2, <1>3, <1>4, <1>5
<1>7. ASSUME NEW i \in 1..Len(c) PROVE c[i] = d[i]
 <2>1. CASE i <= n BY <2>1, <1>1, <1>2, <1>4, <1>5
 <2>2. CASE i > n /\ i <= n + m BY <2>2, <1>1, <1>2, <1>3, <1>4, <1>5
 <2>3. CASE i > n + m
  <3>1. /\ i \in (Len(u) + 1)..(Len(u) + Len(y)) /\ i \in (n + 1)..(n + Len(v))
        /\ i - n \in (m + 1)..(m + Len(y)) /\ (i - n) - m = i - Len(u)
    BY <2>3, <1>1, <1>2, <1>3, <1>4
  <3> QED BY <3>1, <1>3, <1>4, <1>5
 <2> QED BY <2>1, <2>2, <2>3, <1>1, <1>4
<1>8. c = d BY <1>4, <1>5, <1>6, <1>7, SameSeq
<1> QED BY <1>8 DEF c, d, u, v

\* Emitting pieces one after the other.
LEMMA EmitTwo ==
  ASSUME NEW l, DOMAIN l = LowFields, CodeOK(l.code), l.max_stack \in Nat, l.patched \in Nat, NEW x, NEW y, Emittable(x), Emittable(y)
  PROVE  emit(l, x \o y) = emit(emit(l, x), y)
<1> DEFINE m == emit(l, x)
           n == emit(m, y)
           k == emit(l, x \o y)
           cx == Cardinality(Heads(x))
           cy == Cardinality(Heads(y))
<1>1. CodeOK(l.code) /\ DOMAIN l = LowFields /\ CodeOK(x) /\ CodeOK(y) BY DEF Emittable
<1>2. /\ m = [l EXCEPT !.code = @ \o x, !.max_stack = @ + cx, !.patched = Greatest(Targets(x) \cup {@})]
      /\ n = [m EXCEPT !.code = @ \o y, !.max_stack = @ + cy, !.patched = Greatest(Targets(y) \cup {@})]
      /\ k = [l EXCEPT !.code = @ \o (x \o y), !.max_stack = @ + Cardinality(Heads(x \o y)),
                       !.patched = Greatest(Targets(x \o y) \cup {@})]
  BY EmitIs
<1>3. cx \in Nat /\ cy \in Nat /\ Cardinality(Heads(x \o y)) = cx + cy
  BY HeadsConcat, FS_CardinalityType DEF Emittable
<1>4. l.code \o (x \o y) = (l.code \o x) \o y
 <2> DEFINE b == l.code
 <2>1. CodeOK(b) BY <1>1
 <2> HIDE DEF b
 <2>2. b \o (x \o y) = (b \o x) \o y BY <2>1, <1>1, ConcatAssoc
 <2> QED BY <2>2 DEF b
<1>5. Greatest(Targets(x \o y) \cup {l.patched}) = Greatest(Targets(y) \cup {Greatest(Targets(x) \cup {l.patched})})
 <2>1. Targets(x \o y) = Targets(x) \cup Targets(y) BY HeadsConcat
 <2>2. Bounded(Targets(x)) /\ Bounded(Targets(y)) BY DEF Emittable
 <2> DEFINE p == l.patched
            S == Targets(x)
            T == Targets(y)
 <2>3. p \in Nat /\ Bounded(S) /\ Bounded(T) BY <2>2
 <2> HIDE DEF p, S, T
 <2>4. Latest(S \cup T, p) = Latest(T, Latest(S, p)) BY <2>3, GreatestUnion
 <2> QED BY <2>1, <2>4 DEF p, S, T, Latest
<1>6. l.max_stack + Cardinality(Heads(x \o y)) = (l.max_stack + cx) + cy BY <1>3
<1> DEFINE c1 == l.code \o x
           s1 == l.max_stack + cx
           p1 == Greatest(Targets(x) \cup {l.patched})
           c2 == c1 \o y
           s2 == s1 + cy
           p2 == Greatest(Targets(y) \cup {p1})
<1>7. m = [l EXCEPT !.code = c1, !.max_stack = s1, !.patched = p1] BY <1>2
<1>8. k = [l EXCEPT !.code = c2, !.max_stack = s2, !.patched = p2] BY <1>2, <1>4, <1>5, <1>6
<1> HIDE DEF c1, s1, p1, m
<1>9. m.code = c1 /\ m.max_stack = s1 /\ m.patched = p1 BY <1>7, <1>1 DEF LowFields
<1>10. n = [m EXCEPT !.code = c2, !.max_stack = s2, !.patched = p2] BY <1>2, <1>9
<1> HIDE DEF c2, s2, p2, n, k
<1>11. n = k BY <1>7, <1>8, <1>10
<1> QED BY <1>11 DEF n, k, m

(* A lowering with the layouts of its code. *)
Tracks(G, l) ==
  /\ Good(G)
  /\ DOMAIN l = LowFields
  /\ l.code = G.code
  /\ l.max_stack \in Nat /\ G.room <= l.max_stack
  /\ l.patched \in Nat /\ G.seen <= l.patched

Alike(l, m) ==
  /\ m.slots = l.slots /\ m.iters = l.iters /\ m.handlers = l.handlers
  /\ m.loops = l.loops /\ m.open = l.open

\* From G and l on to H and m, with the layout t behind the code.
Leads(G, l, H, m, t, P, N, X) ==
  /\ Tracks(H, m)
  /\ Alike(l, m)
  /\ Grows(G, H, P, N)
  /\ Calm(G, H, X)
  /\ End(H) = t

LEMMA TracksFacts ==
  ASSUME NEW G, NEW l, Tracks(G, l)
  PROVE  /\ CodeOK(G.code) /\ Len(G.code) \in Nat /\ G.room \in Nat /\ G.seen \in Nat
         /\ here(l) = Len(G.code) + 1
         /\ Len(G.code) + 1 \in DOMAIN G.at
         /\ LayoutOK(G, End(G)) /\ End(G) \in Layouts
  BY CodeLen DEF Tracks, Good, here, End, LayoutOK

LEMMA LeadsSelf ==
  ASSUME NEW G, NEW l, Tracks(G, l)
  PROVE  Leads(G, l, G, l, End(G), {}, {}, {})
  BY GrowsSelf DEF Tracks, Leads, Alike

LEMMA LeadsTrans ==
  ASSUME NEW G, NEW l, NEW H, NEW m, NEW I2, NEW n, NEW t, NEW u, Tracks(G, l),
         NEW P, NEW N, NEW X, Leads(G, l, H, m, t, P, N, X),
         NEW Q, NEW M, NEW Y, Leads(H, m, I2, n, u, Q, M, Y),
         NEW R, \A a \in 1..Len(G.code) : a \in R <=> (a \in P \/ a \in Q),
         NEW L, \A a : (a \in M \/ (a \in N /\ a \notin Q)) => a \in L,
         NEW Z, \A a : (a \in X \/ a \in Y) => a \in Z
  PROVE  Leads(G, l, I2, n, u, R, L, Z)
BY TracksFacts, GrowsTrans, CalmTrans DEF Leads, Alike

\* The same, where nothing is patched.
LEMMA LeadsOn ==
  ASSUME NEW G, NEW l, NEW H, NEW m, NEW I2, NEW n, NEW t, NEW u, Tracks(G, l),
         NEW N, NEW X, Leads(G, l, H, m, t, {}, N, X), Leads(H, m, I2, n, u, {}, {}, {})
  PROVE  Leads(G, l, I2, n, u, {}, N, X)
  BY LeadsTrans

LEMMA LeadsTo ==
  ASSUME NEW G, NEW l, NEW H, NEW m, NEW I2, NEW n, NEW t, NEW u, Tracks(G, l),
         NEW N, NEW X, Leads(G, l, H, m, t, {}, {}, {}), Leads(H, m, I2, n, u, {}, N, X)
  PROVE  Leads(G, l, I2, n, u, {}, N, X)
  BY LeadsTrans

(* An instruction is emitted. *)
IterSite(op, a) == IF op \in {"IterInit", "IterDrop"} THEN {a} ELSE {}

Emits(G, l, H, op, arg, t) ==
  /\ Follows(G, H, op, arg, t)
  /\ Leads(G, l, H, emit(l, Instruction(op, arg)), t, {},
           Unpatched(op, arg, Len(G.code) + 1), IterSite(op, Len(G.code) + 1))

LEMMA EmitFields ==
  ASSUME NEW l, DOMAIN l = LowFields, l.max_stack \in Nat, l.patched \in Nat, NEW x, Emittable(x)
  PROVE  LET m == emit(l, x) IN
         /\ DOMAIN m = LowFields /\ Alike(l, m)
         /\ m.code = l.code \o x /\ m.max_stack = l.max_stack + Cardinality(Heads(x))
         /\ m.max_stack \in Nat /\ l.max_stack <= m.max_stack
         /\ m.patched \in Nat /\ l.patched <= m.patched
         /\ \A t \in Targets(x) : t <= m.patched
         /\ m.patched = Greatest(Targets(x) \cup {l.patched})
<1> DEFINE m == emit(l, x)
           c == l.code \o x
           s == l.max_stack + Cardinality(Heads(x))
           p == Greatest(Targets(x) \cup {l.patched})
<1>1. p \in Nat /\ l.patched <= p /\ \A t \in Targets(x) : t <= p BY GreatestOf DEF Emittable
<1>2. s \in Nat /\ l.max_stack <= s BY FS_CardinalityType DEF Emittable
<1>3. m = [l EXCEPT !.code = c, !.max_stack = s, !.patched = p] BY EmitIs
<1> HIDE DEF m, c, s, p
<1>4. DOMAIN m = LowFields /\ Alike(l, m) /\ m.code = c /\ m.max_stack = s /\ m.patched = p
  BY <1>3 DEF LowFields, Alike
<1> QED BY <1>1, <1>2, <1>4 DEF m, c, s, p

LEMMA EmitOp ==
  ASSUME NEW G, NEW l, Tracks(G, l), NEW op \in Emitted, NEW arg \in Nat, NEW t,
         takes(op) <= Len(End(G).stack),
         op = "UnwindTo" => arg <= End(G).scope,
         Spares(G, op, End(G)),
         op \notin Ends => Behind(op, arg, Len(G.code) + 1, End(G), t),
         (op \in Targeted /\ arg # 0) => arg \in DOMAIN G.at /\ Ahead(op, Len(G.code) + 1, End(G), G.at[arg]),
         LayoutOK(Emission(G, op, arg, t), t)
  PROVE  \E H : Emits(G, l, H, op, arg, t)
<1> DEFINE H == Emission(G, op, arg, t)
           i == Instruction(op, arg)
           m == emit(l, i)
<1>1. op \in Ops /\ Good(G) /\ DOMAIN l = LowFields /\ l.code = G.code /\ G.room \in Nat
      /\ l.max_stack \in Nat /\ l.patched \in Nat /\ G.room <= l.max_stack /\ G.seen <= l.patched /\ G.seen \in Nat
  BY EmittedOps, TracksFacts DEF Tracks
<1>2. Good(H) /\ Follows(G, H, op, arg, t) BY <1>1, EmitRaw, EmissionIs
<1>3. Emittable(i) /\ Cardinality(Heads(i)) = 1 /\ Targets(i) = IF op \in Targeted THEN {arg} ELSE {}
  BY <1>1, InstructionEmittable
<1> HIDE DEF H, i
<1>4. /\ DOMAIN m = LowFields /\ Alike(l, m) /\ m.code = l.code \o i /\ m.max_stack = l.max_stack + 1
      /\ m.patched \in Nat /\ l.patched <= m.patched /\ \A x \in Targets(i) : x <= m.patched
  BY <1>1, <1>3, EmitFields
<1> HIDE DEF m
<1>5. H.code = m.code /\ H.room = G.room + 1 /\ H.seen = IF op \in Targeted THEN Larger(G.seen, arg) ELSE G.seen
  BY <1>1, <1>2, <1>4 DEF Follows, i
<1>6. H.seen <= m.patched BY <1>3, <1>4, <1>1, <1>5 DEF Larger
<1>7. m.max_stack \in Nat /\ H.room <= m.max_stack BY <1>1, <1>4, <1>5
<1>8. Tracks(H, m) BY <1>2, <1>4, <1>5, <1>6, <1>7 DEF Tracks
<1>9. Leads(G, l, H, m, t, {}, Unpatched(op, arg, Len(G.code) + 1), IterSite(op, Len(G.code) + 1))
  BY <1>2, <1>4, <1>8 DEF Leads, Follows, IterSite
<1> QED BY <1>2, <1>9 DEF Emits, m, i

\* What is taken lies on top of r, and r is in the same try regions.
LEMMA SparesOf ==
  ASSUME NEW G, Good(G), NEW op, NEW r, LayoutOK(G, r), NEW s \in Layouts, s.handlers = r.handlers,
         Len(r.stack) + takes(op) <= Len(s.stack)
  PROVE  Spares(G, op, s) /\ takes(op) <= Len(s.stack)
<1>0. r \in Layouts BY DEF LayoutOK
<1>1. Len(r.stack) \in Nat /\ Len(s.stack) \in Nat /\ takes(op) \in Nat
 <2>1. takes(op) \in 0..2 BY TakesNat
 <2> QED BY <2>1, <1>0, LayoutType
<1>2. ASSUME NEW j \in 1..Len(s.handlers)
      PROVE  Len(G.at[s.handlers[j].site].stack) + takes(op) <= Len(s.stack)
 <2> DEFINE x == G.at[s.handlers[j].site]
 <2>1. Within(x, r) /\ x \in Layouts BY DEF LayoutOK
 <2> HIDE DEF x
 <2>2. Len(x.stack) \in Nat BY <2>1, LayoutType
 <2>3. Len(x.stack) + takes(op) <= Len(s.stack) BY <2>1, <2>2, <1>1 DEF Within
 <2> QED BY <2>3 DEF x
<1> QED BY <1>1, <1>2 DEF Spares

LEMMA EmissionLayout ==
  ASSUME NEW G, Good(G), NEW op \in Emitted, NEW arg \in Nat, NEW t, NEW s, LayoutOK(G, s)
  PROVE  /\ LayoutOK(Emission(G, op, arg, t), s)
         /\ Emission(G, op, arg, t).room = G.room + 1
<1> DEFINE H == Emission(G, op, arg, t)
<1>1. op \in Ops BY EmittedOps
<1>2. Follows(G, H, op, arg, t) BY <1>1, EmissionIs
<1> HIDE DEF H
<1>3. CodeOK(H.code) /\ H.room \in Nat /\ Grows(G, H, {}, Unpatched(op, arg, Len(G.code) + 1)) /\ H.room = G.room + 1
  BY <1>2 DEF Follows
<1> QED BY <1>3, LayoutGrows DEF H

(* Each of the instructions. *)

\* One behind which the layout is t, taken from what lies on r.
LEMMA EmitKnown ==
  ASSUME NEW G, NEW l, Tracks(G, l), NEW op \in Emitted, NEW arg \in Nat, NEW t, LayoutOK(G, t),
         NEW r, LayoutOK(G, r), r.handlers = End(G).handlers,
         Len(r.stack) + takes(op) <= Len(End(G).stack),
         op = "UnwindTo" => arg <= End(G).scope,
         op \notin Ends => Behind(op, arg, Len(G.code) + 1, End(G), t),
         (op \in Targeted /\ arg # 0) => arg \in DOMAIN G.at /\ Ahead(op, Len(G.code) + 1, End(G), G.at[arg])
  PROVE  \E H : Emits(G, l, H, op, arg, t)
BY TracksFacts, SparesOf, EmissionLayout, EmitOp DEF Tracks

LEMMA EmitPush ==
  ASSUME NEW G, NEW l, Tracks(G, l), NEW op \in {"Unit", "Push", "Call"}
  PROVE  \E H : Emits(G, l, H, op, 0, Plus(End(G), 0))
<1> DEFINE s == End(G)
           t == Plus(s, 0)
           E == Emission(G, op, 0, t)
<1>1. Good(G) /\ s \in Layouts /\ LayoutOK(G, s) /\ G.room \in Nat BY TracksFacts DEF Tracks
<1>2. op \in Emitted /\ op \notin Targeted /\ op \notin Ends /\ takes(op) = 0 /\ op # "UnwindTo" /\ 0 \in Nat
  BY DEF Emitted, Targeted, Branches, Advances, Ends, takes
<1>3. Len(s.stack) \in Nat BY <1>1, LayoutType
<1>4. Spares(G, op, s) /\ takes(op) <= Len(s.stack) BY <1>1, <1>2, <1>3, SparesOf
<1>5. LayoutOK(E, s) /\ E.room = G.room + 1 BY <1>1, <1>2, EmissionLayout
<1> HIDE DEF E
<1>6. Size(s) \in Nat /\ Size(s) <= G.room BY <1>1, LayoutType DEF LayoutOK
<1>7. Size(s) + 1 <= E.room BY <1>1, <1>5, <1>6
<1>8. LayoutOK(E, t) BY <1>5, <1>7, PlusLayout
<1> HIDE DEF t
<1>9. Behind(op, 0, Len(G.code) + 1, s, t) BY DEF Behind, t, Guards
<1> QED BY <1>2, <1>4, <1>8, <1>9, EmitOp DEF E, t

LEMMA EmitCheckpoint ==
  ASSUME NEW G, NEW l, Tracks(G, l)
  PROVE  \E H : Emits(G, l, H, "Checkpoint", 0, End(G))
<1> DEFINE s == End(G)
<1>1. s \in Layouts /\ LayoutOK(G, s) /\ Len(s.stack) \in Nat BY TracksFacts, LayoutType
<1>2. "Checkpoint" \in Emitted /\ "Checkpoint" \notin Targeted /\ takes("Checkpoint") = 0
  BY DEF Emitted, Targeted, Branches, Advances, takes
<1>3. Behind("Checkpoint", 0, Len(G.code) + 1, s, s) BY DEF Behind, Guards
<1>4. Len(s.stack) + takes("Checkpoint") <= Len(s.stack) /\ 0 \in Nat BY <1>1, <1>2
<1> QED BY <1>1, <1>2, <1>3, <1>4, EmitKnown

LEMMA EmitDeclare ==
  ASSUME NEW G, NEW l, Tracks(G, l), NEW r, LayoutOK(G, r), NEW x \in Nat, End(G) = Plus(r, x)
  PROVE  \E H : Emits(G, l, H, "Declare", 0, Scoped(r, r.scope + 1))
<1> DEFINE t == Scoped(r, r.scope + 1)
<1>1. r \in Layouts /\ r.scope \in Nat /\ Len(r.stack) \in Nat BY LayoutType DEF LayoutOK
<1>2. "Declare" \in Emitted /\ "Declare" \notin Targeted /\ takes("Declare") = 1
  BY DEF Emitted, Targeted, Branches, Advances, takes
<1>3. Behind("Declare", 0, Len(G.code) + 1, End(G), t) BY <1>1 DEF Behind, Guards
<1>4. r.scope + 1 \in Nat /\ r.scope <= r.scope + 1 BY <1>1
<1>5. LayoutOK(G, t) BY <1>1, <1>4, ScopedLayout
<1>6. r.handlers = End(G).handlers /\ Len(r.stack) + 1 <= Len(End(G).stack) BY <1>1, PlusType
<1> HIDE DEF t
<1>7. \E H : Emits(G, l, H, "Declare", 0, t) BY <1>1, <1>2, <1>3, <1>5, <1>6, EmitKnown
<1> QED BY <1>7 DEF t

LEMMA EmitPop ==
  ASSUME NEW G, NEW l, Tracks(G, l), NEW r, LayoutOK(G, r), NEW x \in Nat, End(G) = Plus(r, x)
  PROVE  \E H : Emits(G, l, H, "Pop", 0, r)
<1>1. r \in Layouts /\ Len(r.stack) \in Nat BY LayoutType DEF LayoutOK
<1>2. "Pop" \in Emitted /\ "Pop" \notin Targeted /\ takes("Pop") = 1
  BY DEF Emitted, Targeted, Branches, Advances, takes
<1>3. Behind("Pop", 0, Len(G.code) + 1, End(G), r) BY <1>1 DEF Behind, Guards
<1>4. r.handlers = End(G).handlers /\ Len(r.stack) + 1 <= Len(End(G).stack) BY <1>1, PlusType
<1> QED BY <1>1, <1>2, <1>3, <1>4, EmitKnown

\* A branch on a value, to the same layout.
LEMMA EmitGuard ==
  ASSUME NEW G, NEW l, Tracks(G, l), NEW op \in Guards, NEW arg \in Nat,
         NEW r, LayoutOK(G, r), NEW x \in Nat, End(G) = Plus(r, x),
         arg # 0 => arg \in DOMAIN G.at /\ G.at[arg] = r
  PROVE  \E H : Emits(G, l, H, op, arg, r)
<1>1. r \in Layouts /\ Len(r.stack) \in Nat BY LayoutType DEF LayoutOK
<1>2. op \in Emitted /\ op # "UnwindTo" /\ takes(op) = 1 BY DEF Emitted, takes, Guards, Branches
<1>3. Behind(op, arg, Len(G.code) + 1, End(G), r) BY <1>1 DEF Behind, Guards
<1>4. r.handlers = End(G).handlers /\ Len(r.stack) + 1 <= Len(End(G).stack) BY <1>1, PlusType
<1>5. Ahead(op, Len(G.code) + 1, End(G), r) BY DEF Ahead, Guards
<1> QED BY <1>1, <1>2, <1>3, <1>4, <1>5, EmitKnown

LEMMA EmitBin ==
  ASSUME NEW G, NEW l, Tracks(G, l), NEW r, LayoutOK(G, r), NEW x \in Nat, NEW y \in Nat,
         End(G) = Plus(Plus(r, x), y)
  PROVE  \E H : Emits(G, l, H, "BinOp", 0, Plus(r, 0))
<1>1. r \in Layouts /\ Len(r.stack) \in Nat /\ Size(r) \in Nat /\ G.room \in Nat /\ Size(End(G)) <= G.room
  BY TracksFacts, LayoutType DEF LayoutOK
<1>2. "BinOp" \in Emitted /\ "BinOp" \notin Targeted /\ takes("BinOp") = 2
  BY DEF Emitted, Targeted, Branches, Advances, takes
<1> DEFINE u == Plus(r, x)
<1>3. u \in Layouts /\ Len(u.stack) = Len(r.stack) + 1 /\ Size(u) = Size(r) + 1 /\ u.handlers = r.handlers
  BY <1>1, PlusType
<1>4. Behind("BinOp", 0, Len(G.code) + 1, End(G), Plus(r, 0)) BY <1>1 DEF Behind, Guards
<1> HIDE DEF u
<1>5. End(G).handlers = u.handlers /\ Len(End(G).stack) = Len(u.stack) + 1 /\ Size(End(G)) = Size(u) + 1
  BY <1>3, PlusType DEF u
<1>6. LayoutOK(G, Plus(r, 0)) BY <1>1, <1>3, <1>5, PlusLayout
<1>7. r.handlers = End(G).handlers /\ Len(r.stack) + 2 <= Len(End(G).stack) BY <1>1, <1>3, <1>5
<1> QED BY <1>2, <1>4, <1>6, <1>7, EmitKnown

LEMMA EmitUnwind ==
  ASSUME NEW G, NEW l, Tracks(G, l), NEW arg \in Nat, arg <= End(G).scope, LayoutOK(G, Scoped(End(G), arg))
  PROVE  \E H : Emits(G, l, H, "UnwindTo", arg, Scoped(End(G), arg))
<1> DEFINE s == End(G)
           t == Scoped(s, arg)
<1>1. s \in Layouts /\ LayoutOK(G, s) /\ Len(s.stack) \in Nat BY TracksFacts, LayoutType
<1>2. "UnwindTo" \in Emitted /\ "UnwindTo" \notin Targeted /\ takes("UnwindTo") = 0
  BY DEF Emitted, Targeted, Branches, Advances, takes
<1>3. Behind("UnwindTo", arg, Len(G.code) + 1, s, t) BY DEF Behind, Guards
<1> HIDE DEF t
<1>4. \E H : Emits(G, l, H, "UnwindTo", arg, t) BY <1>1, <1>2, <1>3, EmitKnown DEF t
<1> QED BY <1>4 DEF t

\* What comes behind a jump has any layout.
LEMMA EmitJump ==
  ASSUME NEW G, NEW l, Tracks(G, l), NEW arg \in Nat, NEW t, LayoutOK(G, t),
         arg # 0 => arg \in DOMAIN G.at /\ G.at[arg] = End(G)
  PROVE  \E H : Emits(G, l, H, "Jump", arg, t)
<1> DEFINE s == End(G)
<1>1. s \in Layouts /\ LayoutOK(G, s) /\ Len(s.stack) \in Nat BY TracksFacts, LayoutType
<1>2. "Jump" \in Emitted /\ takes("Jump") = 0 /\ "Jump" \in Ends
  BY DEF Emitted, takes, Branches, Advances, Ends
<1>3. Ahead("Jump", Len(G.code) + 1, s, s) BY DEF Ahead, Guards
<1> QED BY <1>1, <1>2, <1>3, EmitKnown

LEMMA EmitEnd ==
  ASSUME NEW G, NEW l, Tracks(G, l), NEW op \in {"Throw", "Return"}, NEW t, LayoutOK(G, t),
         NEW r, LayoutOK(G, r), NEW x \in Nat, End(G) = Plus(r, x)
  PROVE  \E H : Emits(G, l, H, op, 0, t)
<1>1. r \in Layouts /\ Len(r.stack) \in Nat BY LayoutType DEF LayoutOK
<1>2. op \in Emitted /\ op \notin Targeted /\ takes(op) \in 0..1 /\ op \in Ends /\ op # "UnwindTo"
  BY DEF Emitted, Targeted, Branches, Advances, takes, Ends
<1>3. r.handlers = End(G).handlers /\ Len(r.stack) + takes(op) <= Len(End(G).stack)
  BY <1>1, <1>2, PlusType
<1> QED BY <1>1, <1>2, <1>3, EmitKnown

LEMMA EmitArm ==
  ASSUME NEW G, NEW l, Tracks(G, l)
  PROVE  \E H : Emits(G, l, H, "PushHandler", 0, Arming(End(G), Len(G.code) + 1))
<1> DEFINE s == End(G)
           a == Len(G.code) + 1
           op == "PushHandler"
           t == Arming(s, a)
           E == Emission(G, op, 0, t)
<1>1. Good(G) /\ s \in Layouts /\ LayoutOK(G, s) /\ a \in Nat \ {0} BY TracksFacts DEF Tracks
<1>2. op \in Emitted /\ op \in Ops /\ op \notin Ends /\ takes(op) = 0 /\ op # "UnwindTo" /\ 0 \in Nat
  BY EmittedOps DEF Emitted, Ends, takes, Branches, Advances
<1>3. Len(s.stack) \in Nat /\ s.scope \in Nat BY <1>1, LayoutType
<1>4. Spares(G, op, s) /\ takes(op) <= Len(s.stack) BY <1>1, <1>2, <1>3, SparesOf
<1>5. LayoutOK(E, s) BY <1>1, <1>2, EmissionLayout
<1>6. Follows(G, E, op, 0, t) BY <1>1, <1>2, EmissionIs
<1> HIDE DEF E
<1>7. E.code[a].op = op /\ E.at[a] = s /\ a \in 1..Len(E.code) BY <1>6 DEF Follows
<1> HIDE DEF op, a
<1>8. s.scope <= s.scope /\ FALSE \in BOOLEAN BY <1>3
<1>9. LayoutOK(E, t) BY <1>1, <1>3, <1>5, <1>7, <1>8, RegionLayout DEF Arming, op
<1> HIDE DEF t
<1>10. Behind(op, 0, a, s, t) BY DEF Behind, t, Guards, op
<1> QED BY <1>2, <1>4, <1>9, <1>10, EmitOp DEF E, t, op, a

LEMMA EmitDisarm ==
  ASSUME NEW G, NEW l, Tracks(G, l), Len(End(G).handlers) > 0
  PROVE  \E H : Emits(G, l, H, "PopHandler", 0, Disarmed(End(G), Len(End(G).handlers) - 1))
<1> DEFINE s == End(G)
           n == Len(s.handlers) - 1
           t == Disarmed(s, n)
<1>1. s \in Layouts /\ LayoutOK(G, s) /\ Len(s.stack) \in Nat /\ Len(s.handlers) \in Nat
  BY TracksFacts, LayoutType
<1>2. n \in 0..Len(s.handlers) BY <1>1
<1>3. LayoutOK(G, t) BY <1>1, <1>2, DisarmedLayout
<1>4. "PopHandler" \in Emitted /\ "PopHandler" \notin Targeted /\ takes("PopHandler") = 0
  BY DEF Emitted, Targeted, Branches, Advances, takes
<1>5. Behind("PopHandler", 0, Len(G.code) + 1, s, t) BY DEF Behind, Guards
<1>7. Len(s.stack) + takes("PopHandler") <= Len(s.stack) /\ 0 \in Nat BY <1>1, <1>4
<1> HIDE DEF t
<1>6. \E H : Emits(G, l, H, "PopHandler", 0, t) BY <1>1, <1>3, <1>4, <1>5, <1>7, EmitKnown
<1> QED BY <1>6 DEF t

\* The value of a break and the iterator change places.
LEMMA EmitRotate ==
  ASSUME NEW G, NEW l, Tracks(G, l), NEW r, LayoutOK(G, r), NEW q \in Nat, End(G) = Plus(Looped(r, q), 0),
         LayoutOK(G, Looped(Plus(r, 0), q))
  PROVE  \E H : Emits(G, l, H, "Rotate", 0, Looped(Plus(r, 0), q))
<1> DEFINE t == Looped(Plus(r, 0), q)
           i == r.iters + 1
           u == [r EXCEPT !.iters = i]
<1>1. r \in Layouts /\ Len(r.stack) \in Nat /\ r.iters \in Nat BY LayoutType DEF LayoutOK
<1>2. "Rotate" \in Emitted /\ "Rotate" \notin Targeted /\ takes("Rotate") = 2
  BY DEF Emitted, Targeted, Branches, Advances, takes
<1>3. u \in Layouts
 <2>1. i \in Nat BY <1>1
 <2> HIDE DEF i
 <2> QED BY <2>1, <1>1 DEF Layouts
<1>4. End(G) = Plus(Plus(u, q), 0)
 <2>1. Looped(r, q) = Plus(u, q)
  <3>1. u.stack = r.stack BY <1>1 DEF Layouts
  <3>2. Looped(r, q) = [r EXCEPT !.stack = Append(r.stack, q), !.iters = i] BY DEF Looped
  <3>3. Plus(u, q) = [u EXCEPT !.stack = Append(r.stack, q)] BY <3>1 DEF Plus
  <3> HIDE DEF i
  <3> QED BY <3>2, <3>3
 <2> QED BY <2>1
<1>5. t = Plus(Plus(u, 0), q)
 <2> DEFINE v == Append(r.stack, 0)
            w == Append(v, q)
 <2>1. u.stack = r.stack /\ u.iters = i BY <1>1 DEF Layouts
 <2>2. Plus(r, 0) = [r EXCEPT !.stack = v] /\ Plus(u, 0) = [u EXCEPT !.stack = v] BY <2>1 DEF Plus
 <2> HIDE DEF v, i
 <2>3. /\ Plus(r, 0).stack = v /\ Plus(u, 0).stack = v /\ Plus(r, 0).iters = r.iters
   BY <2>2, <1>1 DEF Layouts
 <2>4. t = [Plus(r, 0) EXCEPT !.stack = w, !.iters = i] /\ Plus(Plus(u, 0), q) = [Plus(u, 0) EXCEPT !.stack = w]
   BY <2>3 DEF Looped, Plus, i
 <2> HIDE DEF w, t, u
 <2> QED BY <2>2, <2>4 DEF u
<1>6. Behind("Rotate", 0, Len(G.code) + 1, End(G), t)
 <2>1. q \in Nat /\ 0 \in Nat OBVIOUS
 <2> HIDE DEF t, u
 <2> QED BY <2>1, <1>3, <1>4, <1>5 DEF Behind, Guards
<1>7. r.handlers = End(G).handlers /\ Len(r.stack) + 2 <= Len(End(G).stack)
 <2>1. u.handlers = r.handlers /\ Len(u.stack) = Len(r.stack) BY <1>1 DEF Layouts
 <2> HIDE DEF u
 <2>2. Plus(u, q) \in Layouts /\ Plus(u, q).handlers = r.handlers /\ Len(Plus(u, q).stack) = Len(r.stack) + 1
   BY <2>1, <1>3, PlusType
 <2>3. End(G).handlers = r.handlers /\ Len(End(G).stack) = Len(r.stack) + 2 BY <2>2, <1>4, <1>1, PlusType
 <2> QED BY <2>3, <1>1
<1> HIDE DEF t
<1>8. \E H : Emits(G, l, H, "Rotate", 0, t) BY <1>2, <1>6, <1>7, EmitKnown DEF t
<1> QED BY <1>8 DEF t

LEMMA EmitIterInit ==
  ASSUME NEW G, NEW l, Tracks(G, l), NEW r, LayoutOK(G, r), NEW x \in Nat, End(G) = Plus(r, x)
  PROVE  \E H : Emits(G, l, H, "IterInit", 0, Looped(r, Len(G.code) + 1))
<1> DEFINE a == Len(G.code) + 1
           op == "IterInit"
           t == Looped(r, a)
           E == Emission(G, op, 0, t)
<1>1. Good(G) /\ r \in Layouts /\ a \in Nat /\ G.room \in Nat /\ Size(End(G)) <= G.room /\ End(G) \in Layouts
  BY TracksFacts DEF Tracks, LayoutOK
<1>2. op \in Emitted /\ op \in Ops /\ op \notin Ends /\ takes(op) = 1 /\ op # "UnwindTo" /\ 0 \in Nat
      /\ op \notin Targeted
  BY EmittedOps DEF Emitted, Ends, takes, Branches, Advances, Targeted
<1>3. Len(r.stack) \in Nat /\ Size(r) \in Nat BY <1>1, LayoutType
<1>4. Spares(G, op, End(G)) /\ takes(op) <= Len(End(G).stack)
 <2>1. End(G).handlers = r.handlers /\ Len(r.stack) + takes(op) <= Len(End(G).stack)
   BY <1>1, <1>2, <1>3, PlusType
 <2> QED BY <2>1, <1>1, SparesOf
<1>5. LayoutOK(E, r) /\ E.room = G.room + 1 BY <1>1, <1>2, EmissionLayout
<1>6. Follows(G, E, op, 0, t) BY <1>1, <1>2, EmissionIs
<1> HIDE DEF E
<1>7. E.code[a].op = op /\ a \in 1..Len(E.code) BY <1>6 DEF Follows
<1>8. Size(r) + 2 <= E.room
 <2>1. Size(End(G)) = Size(r) + 1 BY <1>1, PlusType
 <2> QED BY <2>1, <1>1, <1>3, <1>5
<1> HIDE DEF op, a
<1>9. LayoutOK(E, t) BY <1>1, <1>5, <1>7, <1>8, LoopedLayout DEF op
<1> HIDE DEF t
<1>10. Behind(op, 0, a, End(G), t) BY <1>1 DEF Behind, t, Guards, op
<1> QED BY <1>2, <1>4, <1>9, <1>10, EmitOp DEF E, t, op, a

\* The iterator goes: it is dropped, or it is exhausted.
LEMMA EmitIterLast ==
  ASSUME NEW G, NEW l, Tracks(G, l), NEW op \in {"IterDrop", "IterNextStore"},
         NEW r, LayoutOK(G, r), NEW q \in Nat \ {0}, End(G) = Looped(r, q)
  PROVE  \E H : Emits(G, l, H, op, 0, r)
<1>1. r \in Layouts /\ Len(r.stack) \in Nat BY LayoutType DEF LayoutOK
<1>2. op \in Emitted /\ takes(op) = 1 /\ op # "UnwindTo" BY DEF Emitted, Branches, Advances, takes
<1>3. Behind(op, 0, Len(G.code) + 1, End(G), r) BY <1>1 DEF Behind, Guards
<1>4. r.handlers = End(G).handlers /\ Len(r.stack) + 1 <= Len(End(G).stack) BY <1>1, LoopedType
<1> QED BY <1>1, <1>2, <1>3, <1>4, EmitKnown

(* Jumps are patched. *)
LEMMA SameOpsOK ==
  ASSUME NEW c, CodeOK(c), NEW d \in Seq(Cells), Len(d) = Len(c), \A i \in 1..Len(c) : d[i].op = c[i].op
  PROVE  CodeOK(d)
<1>1. c \in Seq(Cells) /\ Len(c) \in Nat /\ WellFormed(c) BY DEF CodeOK
<1>2. ASSUME NEW i \in 1..Len(d), d[i].op # "operand"
      PROVE  /\ i + width(d[i].op) <= Len(d) + 1
             /\ i + width(d[i].op) <= Len(d) => d[i + width(d[i].op)].op # "operand"
             /\ width(d[i].op) = 2 => d[i + 1].op = "operand"
 <2> DEFINE w == width(d[i].op)
 <2>1. w \in 1..2 /\ w = width(c[i].op) /\ c[i].op # "operand" BY <1>1, <1>2, CellType
 <2>2. /\ i + w <= Len(c) + 1 /\ (i + w <= Len(c) => c[i + w].op # "operand")
       /\ w = 2 => c[i + 1].op = "operand"
   BY <2>1, <1>1 DEF WellFormed
 <2> HIDE DEF w
 <2>3. i + w <= Len(c) => d[i + w].op = c[i + w].op BY <2>1, <1>1
 <2>4. w = 2 => d[i + 1].op = c[i + 1].op BY <2>1, <2>2, <1>1
 <2> QED BY <2>2, <2>3, <2>4 DEF w
<1>3. Len(d) > 0 => d[1].op # "operand" BY <1>1 DEF WellFormed
<1> QED BY <1>2, <1>3 DEF CodeOK, WellFormed

PatchedCode(c, P, target) == [i \in DOMAIN c |-> IF i \in P THEN [c[i] EXCEPT !.arg = target] ELSE c[i]]

PatchedSeen(s, P, target) == IF P = {} THEN s ELSE Larger(s, target)

\* H is G with the jumps of P to the target.
Redirects(G, H, P, target) ==
  /\ H.at = G.at /\ H.room = G.room /\ Len(H.code) = Len(G.code)
  /\ \A a \in 1..Len(G.code) :
       /\ H.code[a].op = G.code[a].op
       /\ a \in P => H.code[a].arg = target
       /\ a \notin P => H.code[a] = G.code[a]

LEMMA PatchedCodeOK ==
  ASSUME NEW c, CodeOK(c), NEW P, NEW target \in Nat
  PROVE  LET d == PatchedCode(c, P, target) IN
         /\ CodeOK(d) /\ Len(d) = Len(c)
         /\ \A a \in 1..Len(c) : /\ d[a].op = c[a].op
                                 /\ a \in P => d[a].arg = target
                                 /\ a \notin P => d[a] = c[a]
<1> DEFINE d == PatchedCode(c, P, target)
<1>1. c \in Seq(Cells) /\ Len(c) \in Nat /\ DOMAIN c = 1..Len(c) BY DEF CodeOK
<1>2. \A a \in 1..Len(c) : /\ d[a] \in Cells /\ d[a].op = c[a].op
                           /\ a \in P => d[a].arg = target
                           /\ a \notin P => d[a] = c[a]
  BY <1>1, CellType DEF Cells, PatchedCode
<1>3. d \in [1..Len(c) -> Cells] BY <1>1, <1>2 DEF PatchedCode
<1> HIDE DEF d
<1>4. d \in Seq(Cells) /\ Len(d) = Len(c) BY <1>1, <1>3
<1>5. CodeOK(d) BY <1>2, <1>4, SameOpsOK
<1> QED BY <1>2, <1>4, <1>5 DEF d

LEMMA PatchGood ==
  ASSUME NEW G, Good(G), NEW H, NEW P, NEW target \in DOMAIN G.at, Redirects(G, H, P, target),
         CodeOK(H.code), H.seen \in Nat, G.seen <= H.seen, P # {} => target <= H.seen,
         \A a \in P : Open_jump(G, a) /\ Ahead(G.code[a].op, a, G.at[a], G.at[target])
  PROVE  Good(H) /\ Grows(G, H, P, {}) /\ Calm(G, H, {})
<1>1. /\ Len(G.code) \in Nat /\ G.room \in Nat /\ G.seen \in Nat /\ CodeOK(G.code)
      /\ target \in Nat \ {0}
  BY CodeLen DEF Good, Starts
<1>2. Grows(G, H, P, {}) BY <1>1 DEF Redirects, Open_jump, Grows
<1>3. Calm(G, H, {}) BY <1>1 DEF Calm, Redirects
<1>4. Starts(H.code) = Starts(G.code) BY DEF Starts, Redirects
<1>5. \A a \in DOMAIN H.at : LayoutOK(H, H.at[a])
 <2> SUFFICES ASSUME NEW a \in DOMAIN H.at PROVE LayoutOK(H, H.at[a]) OBVIOUS
 <2>1. LayoutOK(G, G.at[a]) /\ H.at[a] = G.at[a] /\ H.room \in Nat BY <1>1 DEF Redirects, Good
 <2> QED BY <2>1, <1>2, LayoutGrows
<1>6. ASSUME NEW a \in Starts(H.code) PROVE Runs(H, a)
 <2> DEFINE op == G.code[a].op
            arg == H.code[a].arg
            s == G.at[a]
 <2>1. Runs(G, a) /\ a \in 1..Len(G.code) /\ H.code[a].op = op /\ H.at = G.at
   BY <1>4 DEF Good, Starts, Redirects
 <2>2. Spares(H, op, s) BY <2>1 DEF Runs, Spares
 <2>3. op = "UnwindTo" => arg = G.code[a].arg
   BY <2>1 DEF Open_jump, Targeted, Branches, Advances, Redirects
 <2>4. op \notin Ends => Behind(op, arg, a, s, G.at[a + width(op)])
  <3>1. op \notin Ends => Behind(op, G.code[a].arg, a, s, G.at[a + width(op)]) BY <2>1 DEF Runs
  <3> HIDE DEF op, arg, s
  <3> QED BY <3>1, <2>3 DEF Behind
 <2>5. (op \in Targeted /\ arg # 0) => arg \in DOMAIN G.at /\ arg <= H.seen /\ Ahead(op, a, s, G.at[arg])
  <3>1. CASE a \in P BY <3>1, <2>1 DEF Redirects
  <3>2. CASE a \notin P
   <4>1. arg = G.code[a].arg BY <3>2, <2>1 DEF Redirects
   <4>2. (op \in Targeted /\ arg # 0) => arg \in DOMAIN G.at /\ arg <= G.seen /\ Ahead(op, a, s, G.at[arg])
     BY <4>1, <2>1 DEF Runs
   <4>3. arg \in Nat BY <4>1, <1>1, <2>1, CellType DEF CodeOK
   <4> QED BY <4>2, <4>3, <1>1
  <3> QED BY <3>1, <3>2
 <2>6. op \in Emitted /\ takes(op) <= Len(s.stack) /\ (op = "UnwindTo" => arg <= s.scope)
   BY <2>1, <2>3 DEF Runs
 <2> HIDE DEF op, arg, s
 <2>7. H.code[a].op = op /\ H.code[a].arg = arg /\ H.at[a] = s BY <2>1 DEF arg, op, s
 <2> QED BY <2>1, <2>2, <2>4, <2>5, <2>6, <2>7 DEF Runs
<1> QED BY <1>1, <1>2, <1>3, <1>4, <1>5, <1>6 DEF Good, Redirects

LEMMA PatchTracks ==
  ASSUME NEW G, NEW l, Tracks(G, l), NEW P, NEW target \in DOMAIN G.at,
         \A a \in P : Open_jump(G, a) /\ Ahead(G.code[a].op, a, G.at[a], G.at[target])
  PROVE  \E H : Leads(G, l, H, patch_to(l, P, target), End(G), P, {}, {}) /\ Redirects(G, H, P, target)
<1> DEFINE m == patch_to(l, P, target)
           c == PatchedCode(G.code, P, target)
           s == PatchedSeen(G.seen, P, target)
           p == PatchedSeen(l.patched, P, target)
           H == [code |-> c, at |-> G.at, room |-> G.room, seen |-> s]
<1>1. /\ Good(G) /\ CodeOK(G.code) /\ Len(G.code) \in Nat /\ G.room \in Nat /\ G.seen \in Nat
      /\ DOMAIN l = LowFields /\ l.code = G.code /\ l.max_stack \in Nat /\ G.room <= l.max_stack
      /\ l.patched \in Nat /\ G.seen <= l.patched
  BY TracksFacts DEF Tracks
<1>2. target \in Nat \ {0} BY <1>1 DEF Good, Starts
<1>3. /\ s \in Nat /\ p \in Nat /\ G.seen <= s /\ s <= p /\ (P # {} => target <= s)
  BY <1>1, <1>2 DEF PatchedSeen, Larger
<1>4. m = [l EXCEPT !.code = c, !.patched = p] BY <1>1 DEF patch_to, PatchedCode, PatchedSeen
<1>5. /\ CodeOK(c) /\ Len(c) = Len(G.code)
      /\ \A a \in 1..Len(G.code) : /\ c[a].op = G.code[a].op
                                   /\ a \in P => c[a].arg = target
                                   /\ a \notin P => c[a] = G.code[a]
  BY <1>1, <1>2, PatchedCodeOK
<1> HIDE DEF c, s, p, m
<1>6. H.code = c /\ H.at = G.at /\ H.room = G.room /\ H.seen = s OBVIOUS
<1> HIDE DEF H
<1>7. Redirects(G, H, P, target) BY <1>5, <1>6 DEF Redirects
<1>8. Good(H) /\ Grows(G, H, P, {}) /\ Calm(G, H, {}) BY <1>1, <1>3, <1>5, <1>6, <1>7, PatchGood
<1>9. /\ DOMAIN m = LowFields /\ Alike(l, m) /\ m.code = c /\ m.patched = p /\ m.max_stack = l.max_stack
  BY <1>1, <1>4 DEF LowFields, Alike
<1>10. End(H) = End(G) BY <1>5, <1>6 DEF End
<1>11. Tracks(H, m) BY <1>1, <1>3, <1>6, <1>8, <1>9 DEF Tracks
<1> QED BY <1>7, <1>8, <1>9, <1>10, <1>11 DEF Leads, m

(* A value that nobody wants is taken off again, or the Unit that makes it is. *)

\* H has what is in G, the last instruction apart.
Trims(G, H) ==
  /\ Len(G.code) <= Len(H.code) + 1
  /\ G.room <= H.room
  /\ \A a \in 1..(Len(G.code) - 1) : H.code[a] = G.code[a]
  /\ \A a \in DOMAIN G.at : a <= Len(G.code) => a \in DOMAIN H.at /\ H.at[a] = G.at[a]
  /\ \A a : Open_jump(H, a) => Open_jump(G, a)
  /\ \A a \in 1..Len(H.code) :
       H.code[a].op \in {"IterInit", "IterDrop"} => a <= Len(G.code) /\ H.code[a] = G.code[a]

LEMMA TrimsOf ==
  ASSUME NEW F, NEW G, NEW H, CodeOK(F.code), CodeOK(G.code), CodeOK(H.code),
         F.room \in Nat, G.room \in Nat, H.room \in Nat, DOMAIN F.at = Starts(F.code) \cup {Len(F.code) + 1},
         NEW P, NEW N, NEW X, Grows(F, G, P, N), Calm(F, G, X), Trims(G, H), Len(F.code) < Len(G.code)
  PROVE  Grows(F, H, P, N) /\ Calm(F, H, X)
<1>1. Len(F.code) \in Nat /\ Len(G.code) \in Nat /\ Len(H.code) \in Nat BY CodeLen
<1>2. Len(F.code) <= Len(H.code) /\ F.room <= H.room BY <1>1 DEF Grows, Trims
<1>3. ASSUME NEW a \in 1..Len(F.code)
      PROVE  H.code[a].op = F.code[a].op /\ (a \notin P => H.code[a] = F.code[a])
 <2>1. a \in 1..(Len(G.code) - 1) BY <1>1
 <2> QED BY <2>1 DEF Grows, Trims
<1>4. ASSUME NEW a \in DOMAIN F.at
      PROVE  a \in DOMAIN H.at /\ H.at[a] = F.at[a]
 <2>1. a <= Len(G.code) BY <1>1 DEF Starts
 <2> QED BY <2>1 DEF Grows, Trims
<1>5. ASSUME NEW a, Open_jump(H, a)
      PROVE  (Open_jump(F, a) /\ a \notin P) \/ a \in N
  BY <1>5 DEF Grows, Trims
<1>6. Calm(F, H, X)
 <2> SUFFICES ASSUME NEW a \in (Len(F.code) + 1)..Len(H.code), H.code[a].op \in {"IterInit", "IterDrop"}
              PROVE  a \in X
   BY DEF Calm
 <2>1. a \in 1..Len(H.code) BY <1>1
 <2>2. a \in (Len(F.code) + 1)..Len(G.code) /\ G.code[a].op \in {"IterInit", "IterDrop"}
   BY <2>1, <1>1 DEF Trims
 <2> QED BY <2>2 DEF Calm
<1> QED BY <1>2, <1>3, <1>4, <1>5, <1>6 DEF Grows

LEMMA CutGood ==
  ASSUME NEW G, Good(G), Len(G.code) > 0, G.code[Len(G.code)].op = "Unit", G.seen < Len(G.code),
         NEW H, H.code = AllButLast(G.code), H.room = G.room, H.seen = G.seen,
         H.at = [a \in DOMAIN G.at \ {Len(G.code) + 1} |-> G.at[a]]
  PROVE  /\ Good(H) /\ Trims(G, H) /\ Len(H.code) = Len(G.code) - 1
         /\ End(H) = G.at[Len(G.code)] /\ Plus(End(H), 0) = End(G)
<1> DEFINE n == Len(G.code)
<1>1. CodeOK(G.code) /\ n \in Nat /\ G.room \in Nat /\ G.seen \in Nat /\ G.code \in Seq(Cells)
  BY CodeLen DEF Good
<1>2. CodeOK(H.code) /\ Len(H.code) = n - 1 /\ \A a \in 1..(n - 1) : H.code[a] = G.code[a]
  BY <1>1, CutOK, FirstN DEF LastOf, Plain, AllButLast
<1>3. DOMAIN G.at = Starts(G.code) \cup {n + 1} /\ n \in Starts(G.code) BY <1>1 DEF Good, Starts
<1>4. DOMAIN H.at = DOMAIN G.at \ {n + 1} /\ \A a \in DOMAIN H.at : H.at[a] = G.at[a] OBVIOUS
<1>5. DOMAIN H.at = Starts(H.code) \cup {Len(H.code) + 1}
 <2>1. ASSUME NEW a PROVE a \in DOMAIN H.at <=> a \in Starts(H.code) \/ a = n
  <3>1. a \in 1..n <=> a \in 1..(n - 1) \/ a = n BY <1>1
  <3>2. n + 1 \notin 1..n BY <1>1
  <3> QED BY <3>1, <3>2, <1>2, <1>3, <1>4 DEF Starts
 <2> QED BY <2>1, <1>2, <1>1
<1>6. ASSUME NEW s, LayoutOK(G, s) PROVE LayoutOK(H, s)
 <2>1. \A x \in 1..n : G.code[x].op \in {"IterInit", "PushHandler"} =>
         x \in 1..Len(H.code) /\ H.code[x] = G.code[x] /\ x \in DOMAIN H.at
  <3> SUFFICES ASSUME NEW x \in 1..n, G.code[x].op \in {"IterInit", "PushHandler"}
               PROVE  x \in 1..Len(H.code) /\ H.code[x] = G.code[x] /\ x \in DOMAIN H.at
    OBVIOUS
  <3>1. x # n OBVIOUS
  <3>2. x \in 1..(n - 1) BY <3>1, <1>1
  <3> QED BY <3>2, <1>2, <1>5 DEF Starts
 <2>2. \A k \in 1..Len(s.stack) :
         s.stack[k] # 0 => s.stack[k] \in 1..Len(H.code) /\ H.code[s.stack[k]].op = "IterInit"
   BY <1>6, <2>1 DEF LayoutOK
 <2>3. \A j \in 1..Len(s.handlers) :
         LET x == s.handlers[j].site
         IN /\ x \in 1..Len(H.code) /\ H.code[x].op = "PushHandler"
            /\ H.at[x] \in Layouts /\ Within(H.at[x], s)
            /\ H.at[x].handlers = SubSeq(s.handlers, 1, j - 1)
  <3> SUFFICES ASSUME NEW j \in 1..Len(s.handlers)
               PROVE  LET x == s.handlers[j].site
                      IN /\ x \in 1..Len(H.code) /\ H.code[x].op = "PushHandler"
                         /\ H.at[x] \in Layouts /\ Within(H.at[x], s)
                         /\ H.at[x].handlers = SubSeq(s.handlers, 1, j - 1)
    OBVIOUS
  <3> DEFINE x == s.handlers[j].site
  <3>1. /\ x \in 1..n /\ G.code[x].op = "PushHandler"
        /\ G.at[x] \in Layouts /\ Within(G.at[x], s)
        /\ G.at[x].handlers = SubSeq(s.handlers, 1, j - 1)
    BY <1>6 DEF LayoutOK
  <3> HIDE DEF x
  <3>2. x \in 1..Len(H.code) /\ H.code[x] = G.code[x] /\ H.at[x] = G.at[x] BY <2>1, <3>1, <1>4
  <3> QED BY <3>1, <3>2 DEF x
 <2> QED BY <1>6, <2>2, <2>3 DEF LayoutOK
<1>7. ASSUME NEW a \in Starts(H.code) PROVE Runs(H, a)
 <2> DEFINE op == G.code[a].op
            arg == G.code[a].arg
            s == G.at[a]
 <2>1. a \in 1..(n - 1) /\ H.code[a] = G.code[a] /\ a \in Starts(G.code) /\ a \in DOMAIN H.at /\ H.at[a] = s
   BY <1>2, <1>1, <1>4, <1>5 DEF Starts
 <2>2. Runs(G, a) BY <2>1 DEF Good
 <2>3. a + width(op) \in DOMAIN H.at /\ H.at[a + width(op)] = G.at[a + width(op)]
  <3>1. /\ a + width(op) <= Len(H.code) + 1
        /\ a + width(op) <= Len(H.code) => H.code[a + width(op)].op # "operand"
    BY <1>2, <2>1 DEF CodeOK, WellFormed, Starts
  <3>2. width(op) \in 1..2 BY DEF width
  <3>3. a + width(op) \in 1..Len(H.code) \/ a + width(op) = Len(H.code) + 1
    BY <1>1, <1>2, <2>1, <3>1, <3>2
  <3> QED BY <3>1, <3>3, <1>4, <1>5 DEF Starts
 <2>4. Spares(H, op, s)
  <3> SUFFICES ASSUME NEW j \in 1..Len(s.handlers)
               PROVE  Len(H.at[s.handlers[j].site].stack) + takes(op) <= Len(s.stack)
    BY DEF Spares
  <3>1. LayoutOK(H, s) BY <2>1, <1>3, <1>6 DEF Good
  <3>2. s.handlers[j].site \in DOMAIN H.at BY <3>1, <1>5 DEF LayoutOK, Starts
  <3> QED BY <3>2, <2>2, <1>4 DEF Runs, Spares
 <2>5. (op \in Targeted /\ arg # 0) => arg \in DOMAIN H.at /\ arg <= H.seen /\ Ahead(op, a, s, H.at[arg])
  <3> SUFFICES ASSUME op \in Targeted, arg # 0
               PROVE  arg \in DOMAIN H.at /\ arg <= H.seen /\ Ahead(op, a, s, H.at[arg])
    OBVIOUS
  <3>1. arg \in DOMAIN G.at /\ arg <= G.seen /\ Ahead(op, a, s, G.at[arg]) BY <2>2 DEF Runs
  <3>2. arg # n + 1 BY <2>1, <1>1, CellType, <3>1
  <3> QED BY <3>1, <3>2, <1>4
 <2> HIDE DEF op, arg, s
 <2>6. H.code[a].op = op /\ H.code[a].arg = arg /\ H.at[a] = s BY <2>1 DEF op, arg, s
 <2>7. /\ op \in Emitted /\ takes(op) <= Len(s.stack) /\ (op = "UnwindTo" => arg <= s.scope)
       /\ op \notin Ends => Behind(op, arg, a, s, G.at[a + width(op)])
   BY <2>2 DEF Runs, op, arg, s
 <2> QED BY <2>3, <2>4, <2>5, <2>6, <2>7 DEF Runs
<1>8. 1 \in DOMAIN H.at BY <1>1, <1>2, <1>5 DEF CodeOK, WellFormed, Starts
<1>9. Good(H) BY <1>4, <1>6, <1>8, <1>1, <1>2, <1>5, <1>7 DEF Good
<1>10. End(H) = G.at[n] /\ Plus(End(H), 0) = End(G)
 <2>1. n \in DOMAIN H.at /\ Len(H.code) + 1 = n BY <1>1, <1>2, <1>5
 <2>2. End(H) = G.at[n] BY <2>1, <1>4 DEF End
 <2>3. Runs(G, n) /\ width("Unit") = 1 /\ "Unit" \notin Ends
   BY <1>3 DEF Good, width, Targeted, Branches, Advances, Ends
 <2>4. G.at[n + 1] = Plus(G.at[n], 0) BY <2>3 DEF Runs, Behind
 <2> QED BY <2>2, <2>4 DEF End
<1>11. Trims(G, H)
 <2>1. \A a \in DOMAIN G.at : a <= n => a \in DOMAIN H.at /\ H.at[a] = G.at[a] BY <1>1, <1>4
 <2>2. \A a \in 1..Len(H.code) : a \in 1..(n - 1) /\ a \in 1..n /\ a <= n BY <1>1, <1>2
 <2>3. \A a : Open_jump(H, a) => Open_jump(G, a) BY <2>2, <1>2 DEF Open_jump
 <2>4. n <= Len(H.code) + 1 /\ G.room <= H.room BY <1>1, <1>2
 <2> QED BY <2>1, <2>2, <2>3, <2>4, <1>2 DEF Trims
<1> QED BY <1>2, <1>9, <1>10, <1>11

LEMMA DiscardTracks ==
  ASSUME NEW G, NEW l, Tracks(G, l), NEW r, LayoutOK(G, r), End(G) = Plus(r, 0)
  PROVE  \E H : /\ Tracks(H, discard_value(l)) /\ Alike(l, discard_value(l))
                /\ End(H) = r /\ Trims(G, H)
<1>1. /\ Good(G) /\ CodeOK(G.code) /\ Len(G.code) \in Nat /\ G.room \in Nat /\ G.seen \in Nat
      /\ DOMAIN l = LowFields /\ l.code = G.code /\ l.max_stack \in Nat /\ G.room <= l.max_stack
      /\ l.patched \in Nat /\ G.seen <= l.patched /\ r \in Layouts
  BY TracksFacts DEF Tracks, LayoutOK
<1>2. CASE drop_trailing_unit(l)
 <2> DEFINE c == AllButLast(G.code)
            f == [a \in DOMAIN G.at \ {Len(G.code) + 1} |-> G.at[a]]
            H == [code |-> c, at |-> f, room |-> G.room, seen |-> G.seen]
            m == discard_value(l)
 <2>1. Len(G.code) > 0 /\ G.code[Len(G.code)].op = "Unit" /\ G.seen < Len(G.code)
   BY <1>1, <1>2 DEF drop_trailing_unit, LastOf
 <2>2. H.code = c /\ H.at = f /\ H.room = G.room /\ H.seen = G.seen OBVIOUS
 <2>3. m = [l EXCEPT !.code = c] BY <1>1, <1>2 DEF discard_value
 <2> HIDE DEF H, m
 <2>4. /\ Good(H) /\ Trims(G, H)
       /\ End(H) = G.at[Len(G.code)] /\ Plus(End(H), 0) = End(G)
   BY <1>1, <2>1, <2>2, CutGood
 <2>5. End(H) = r
  <3>1. LayoutOK(H, End(H)) BY <2>4 DEF Good, End
  <3>2. End(H) \in Layouts BY <3>1 DEF LayoutOK
  <3> QED BY <3>2, <2>4, <1>1, PlusInjective
 <2>6. DOMAIN m = LowFields /\ Alike(l, m) /\ m.code = c /\ m.max_stack = l.max_stack /\ m.patched = l.patched
   BY <2>3, <1>1 DEF LowFields, Alike
 <2>7. Tracks(H, m) BY <1>1, <2>2, <2>4, <2>6 DEF Tracks
 <2> QED BY <2>4, <2>5, <2>6, <2>7 DEF m
<1>3. CASE ~drop_trailing_unit(l)
 <2>1. discard_value(l) = emit(l, Instruction("Pop", 0)) BY <1>3 DEF discard_value, I
 <2>2. PICK H : Emits(G, l, H, "Pop", 0, r) BY EmitPop
 <2>3. Tracks(H, discard_value(l)) /\ Alike(l, discard_value(l)) /\ End(H) = r
   BY <2>1, <2>2 DEF Emits, Leads
 <2>4. Trims(G, H)
  <3>1. /\ Len(H.code) = Len(G.code) + 1 /\ H.room = G.room + 1
        /\ \A a \in 1..Len(G.code) : H.code[a] = G.code[a]
        /\ H.code[Len(G.code) + 1] = [op |-> "Pop", arg |-> 0]
        /\ \A a \in DOMAIN G.at : a \in DOMAIN H.at /\ H.at[a] = G.at[a]
        /\ Grows(G, H, {}, Unpatched("Pop", 0, Len(G.code) + 1))
    BY <2>2 DEF Emits, Follows, width, Targeted, Branches, Advances
  <3>2. Unpatched("Pop", 0, Len(G.code) + 1) = {} BY DEF Unpatched, Targeted, Branches, Advances
  <3>3. \A a : Open_jump(H, a) => Open_jump(G, a) BY <3>1, <3>2 DEF Grows
  <3>4. \A a \in 1..Len(H.code) : a \in 1..Len(G.code) \/ a = Len(G.code) + 1 BY <3>1, <1>1
  <3>5. Len(G.code) <= Len(H.code) + 1 /\ G.room <= H.room BY <3>1, <1>1
  <3>6. \A a \in 1..(Len(G.code) - 1) : a \in 1..Len(G.code) BY <1>1
  <3>7. \A a \in 1..Len(G.code) : a <= Len(G.code) BY <1>1
  <3>8. ASSUME NEW a \in 1..Len(H.code), H.code[a].op \in {"IterInit", "IterDrop"}
        PROVE  a <= Len(G.code) /\ H.code[a] = G.code[a]
    BY <3>1, <3>4, <3>8, <3>7
  <3> QED BY <3>1, <3>3, <3>5, <3>6, <3>8 DEF Trims
 <2> QED BY <2>3, <2>4
<1> QED BY <1>2, <1>3

Valued(r, wants) == IF wants = "Value" THEN Plus(r, 0) ELSE r

LEMMA LoweredTracks ==
  ASSUME NEW G, NEW l, Tracks(G, l), NEW r, LayoutOK(G, r), End(G) = Plus(r, 0), NEW wants \in Wants,
         NEW F, NEW k, Tracks(F, k), NEW P, NEW N, NEW X, Grows(F, G, P, N), Calm(F, G, X), Alike(k, l),
         Len(F.code) < Len(G.code)
  PROVE  \E H : Leads(F, k, H, Lowered(l, wants), Valued(r, wants), P, N, X) /\ (H = G \/ Trims(G, H))
<1>1. CASE wants = "Value" BY <1>1 DEF Lowered, Valued, Leads
<1>2. CASE wants = "Effect"
 <2>1. Lowered(l, wants) = discard_value(l) /\ Valued(r, wants) = r BY <1>2 DEF Lowered, Valued
 <2>2. PICK H : /\ Tracks(H, discard_value(l)) /\ Alike(l, discard_value(l))
                /\ End(H) = r /\ Trims(G, H)
   BY DiscardTracks
 <2>3. /\ CodeOK(F.code) /\ CodeOK(G.code) /\ CodeOK(H.code)
       /\ F.room \in Nat /\ G.room \in Nat /\ H.room \in Nat
       /\ DOMAIN F.at = Starts(F.code) \cup {Len(F.code) + 1}
   BY <2>2, TracksFacts DEF Tracks, Good
 <2>4. Grows(F, H, P, N) /\ Calm(F, H, X) BY <2>2, <2>3, TrimsOf
 <2>5. Leads(F, k, H, Lowered(l, wants), Valued(r, wants), P, N, X) BY <2>1, <2>2, <2>4 DEF Leads, Alike
 <2> QED BY <2>2, <2>5
<1> QED BY <1>1, <1>2 DEF Wants

(* Instructions that are emitted as often as something is left. *)
LEMMA LeastOf ==
  ASSUME NEW X, X \subseteq Nat, X # {}
  PROVE  \E m \in X : \A j \in X : m <= j
<1> DEFINE R == OpToRel(<, Nat)
<1>1. IsWellFoundedOn(R, Nat) BY NatLessThanWellFounded
<1>2. \A x, y \in Nat : y < x => <<y, x>> \in R BY DEF OpToRel
<1> HIDE DEF R
<1>3. PICK m \in X : \A y \in X : ~(<<y, m>> \in R) BY <1>1, WFMin
<1>4. \A y \in X : ~(y < m) BY <1>2, <1>3
<1> QED BY <1>4

LEMMA NothingEmittable == Emittable(<<>>) /\ Targets(<<>>) = {} /\ Heads(<<>>) = {}
<1>1. Heads(<<>>) = {} BY DEF Heads
<1>2. Targets(<<>>) = {} BY <1>1 DEF Targets
<1>3. CodeOK(<<>>) BY DEF CodeOK, WellFormed
<1>4. IsFiniteSet(Heads(<<>>)) BY <1>1, FS_EmptySet
<1>5. Bounded({})
 <2>1. \A p \in Nat : HasLast({} \cup {p}) BY DEF HasLast
 <2> QED BY <2>1 DEF Bounded
<1> QED BY <1>1, <1>2, <1>3, <1>4, <1>5 DEF Emittable

LEMMA EmitNothing ==
  ASSUME NEW G, NEW l, Tracks(G, l)
  PROVE  Leads(G, l, G, emit(l, <<>>), End(G), {}, {}, {})
<1> DEFINE m == emit(l, <<>>)
<1>1. DOMAIN l = LowFields /\ l.max_stack \in Nat /\ l.patched \in Nat /\ l.code \in Seq(Cells) /\ l.code = G.code
      /\ G.room <= l.max_stack /\ G.seen <= l.patched /\ G.room \in Nat /\ G.seen \in Nat
  BY TracksFacts, CodeLen DEF Tracks
<1>2. /\ DOMAIN m = LowFields /\ Alike(l, m) /\ m.code = l.code \o <<>> /\ m.max_stack \in Nat /\ l.max_stack <= m.max_stack
      /\ m.patched \in Nat /\ l.patched <= m.patched
  BY <1>1, NothingEmittable, EmitFields
<1>3. m.code = l.code BY <1>1, <1>2
<1> HIDE DEF m
<1>4. Tracks(G, m) BY <1>1, <1>2, <1>3 DEF Tracks
<1> QED BY <1>2, <1>4, GrowsSelf DEF Leads, m, Tracks

LEMMA TimesZero ==
  ASSUME NEW s
  PROVE  Times(0, s) = <<>>
BY DEF Times

LEMMA TimesOne ==
  ASSUME NEW S, NEW s \in Seq(S), Len(s) = 1 \/ Len(s) = 2
  PROVE  Times(1, s) = s
<1> DEFINE f == [i \in 1..(1 * Len(s)) |-> s[((i - 1) % Len(s)) + 1]]
<1>1. Times(1, s) = f BY DEF Times
<1>2. DOMAIN f = 1..Len(s) /\ \A i \in 1..Len(s) : f[i] = s[((i - 1) % Len(s)) + 1] OBVIOUS
<1>3. 0 % 1 = 0 /\ 0 % 2 = 0 /\ 1 % 2 = 1 OBVIOUS
<1>4. \A i \in 1..Len(s) : f[i] = s[i]
 <2>1. CASE Len(s) = 1 BY <2>1, <1>2, <1>3
 <2>2. CASE Len(s) = 2 BY <2>2, <1>3, <1>2
 <2> QED BY <2>1, <2>2
<1> HIDE DEF f
<1>5. DOMAIN s = 1..Len(s) /\ s = [i \in 1..Len(s) |-> s[i]] OBVIOUS
<1>6. f = s BY <1>2, <1>4, <1>5 DEF f
<1> QED BY <1>1, <1>6

LEMMA TimesMore ==
  ASSUME NEW S, NEW x \in S, NEW n \in Nat
  PROVE  Times(n + 1, <<x>>) = Times(n, <<x>>) \o <<x>>
<1>1. ASSUME NEW m \in Nat
      PROVE  Times(m, <<x>>) = [i \in 1..m |-> x]
  BY DEF Times
<1> DEFINE a == [i \in 1..n |-> x]
           b == [i \in 1..(n + 1) |-> x]
<1>2. Times(n + 1, <<x>>) = b /\ Times(n, <<x>>) = a BY <1>1
<1>3. a \in Seq(S) /\ b \in Seq(S) /\ Len(a) = n /\ Len(b) = n + 1 OBVIOUS
<1>4. a \o <<x>> = b
 <2>1. a \o <<x>> \in Seq(S) /\ Len(a \o <<x>>) = n + 1 BY <1>3
 <2>2. \A i \in 1..(n + 1) : (a \o <<x>>)[i] = x /\ b[i] = x BY <1>3
 <2> HIDE DEF a, b
 <2> QED BY <2>1, <2>2, <1>3, SameSeq
<1> QED BY <1>2, <1>4

PopsTo(G, l, n) ==
  /\ Emittable(Times(n, I("PopHandler")))
  /\ \E H : Leads(G, l, H, emit(l, Times(n, I("PopHandler"))), Disarmed(End(G), Len(End(G).handlers) - n), {}, {}, {})

LEMMA PopsHandlers ==
  ASSUME NEW G, NEW l, Tracks(G, l), NEW n \in Nat, n <= Len(End(G).handlers)
  PROVE  PopsTo(G, l, n)
<1> DEFINE s == End(G)
           h == Len(s.handlers)
           i == I("PopHandler")
           X == {m \in Nat : m <= h /\ ~PopsTo(G, l, m)}
<1>1. s \in Layouts /\ h \in Nat /\ s.handlers \in Seq(Regions) BY TracksFacts, LayoutType
<1>2. /\ DOMAIN l = LowFields /\ CodeOK(l.code) /\ l.max_stack \in Nat /\ l.patched \in Nat
  BY TracksFacts DEF Tracks
<1>3. i = <<[op |-> "PopHandler", arg |-> 0]>> /\ Emittable(i) /\ i = Instruction("PopHandler", 0)
  BY Opcodes, InstructionEmittable DEF I, Instruction, Targeted, Branches, Advances
<1>4. PopsTo(G, l, 0)
 <2>1. Disarmed(s, h - 0) = s BY <1>1, DisarmedType, WholeCut, SameLayout
 <2>2. Leads(G, l, G, emit(l, <<>>), s, {}, {}, {}) BY EmitNothing
 <2>3. Times(0, i) = <<>> BY TimesZero
 <2> QED BY <2>1, <2>2, <2>3, NothingEmittable DEF PopsTo
<1>5. ASSUME NEW m \in Nat, m + 1 <= h, PopsTo(G, l, m)
      PROVE  PopsTo(G, l, m + 1)
 <2> DEFINE t == Times(m, i)
            k == emit(l, t)
            r == Disarmed(s, h - m)
 <2>1. Emittable(t) BY <1>5 DEF PopsTo
 <2>2. PICK H : Leads(G, l, H, k, r, {}, {}, {}) BY <1>5 DEF PopsTo
 <2>3. r \in Layouts /\ Len(r.handlers) = h - m /\ r.stack = s.stack /\ r.iters = s.iters /\ r.scope = s.scope
       /\ r.handlers = SubSeq(s.handlers, 1, h - m) /\ \A j \in 0..(h - m) : SubSeq(r.handlers, 1, j) = SubSeq(s.handlers, 1, j)
  <3>1. h - m \in 0..h BY <1>1, <1>5
  <3> QED BY <1>1, <3>1, DisarmedType
 <2> HIDE DEF r
 <2>4. Tracks(H, k) /\ End(H) = r BY <2>2 DEF Leads
 <2>5. Len(End(H).handlers) > 0 /\ Len(End(H).handlers) - 1 = h - (m + 1) /\ h - (m + 1) \in 0..h /\ h - (m + 1) \in 0..(h - m)
  <3>1. Len(End(H).handlers) = h - m BY <2>3, <2>4
  <3>2. \A x, y \in Nat : y + 1 <= x => /\ x - y > 0 /\ (x - y) - 1 = x - (y + 1)
                                      /\ x - (y + 1) \in 0..x /\ x - (y + 1) \in 0..(x - y)
    OBVIOUS
  <3> QED BY <3>1, <3>2, <1>1, <1>5
 <2>6. PICK J : Emits(H, k, J, "PopHandler", 0, Disarmed(r, h - (m + 1))) BY <2>4, <2>5, EmitDisarm
 <2>7. Leads(H, k, J, emit(k, i), Disarmed(r, h - (m + 1)), {}, {}, {})
  <3>1. Unpatched("PopHandler", 0, Len(H.code) + 1) = {} /\ IterSite("PopHandler", Len(H.code) + 1) = {}
    BY DEF Unpatched, IterSite, Targeted, Branches, Advances
  <3> QED BY <3>1, <2>6, <1>3 DEF Emits
 <2>8. Disarmed(r, h - (m + 1)) = Disarmed(s, h - (m + 1))
  <3> DEFINE q == h - (m + 1)
  <3>1. Disarmed(r, q) \in Layouts /\ Disarmed(r, q).stack = r.stack /\ Disarmed(r, q).iters = r.iters
        /\ Disarmed(r, q).scope = r.scope /\ Disarmed(r, q).handlers = SubSeq(r.handlers, 1, q)
    BY <2>3, <2>5, DisarmedType
  <3>2. Disarmed(s, q) \in Layouts /\ Disarmed(s, q).stack = s.stack /\ Disarmed(s, q).iters = s.iters
        /\ Disarmed(s, q).scope = s.scope /\ Disarmed(s, q).handlers = SubSeq(s.handlers, 1, q)
    BY <1>1, <2>5, DisarmedType
  <3> HIDE DEF q
  <3>3. SubSeq(r.handlers, 1, q) = SubSeq(s.handlers, 1, q) BY <2>3, <2>5 DEF q
  <3>4. Disarmed(r, q).stack = Disarmed(s, q).stack /\ Disarmed(r, q).iters = Disarmed(s, q).iters
        /\ Disarmed(r, q).scope = Disarmed(s, q).scope /\ Disarmed(r, q).handlers = Disarmed(s, q).handlers
    BY <3>1, <3>2, <3>3, <2>3
  <3>5. Disarmed(r, q) = Disarmed(s, q) BY <3>1, <3>2, <3>4, SameLayout
  <3> QED BY <3>5 DEF q
 <2>9. Times(m + 1, i) = t \o i BY <1>3, TimesMore
 <2>10. Emittable(Times(m + 1, i)) /\ emit(l, Times(m + 1, i)) = emit(k, i)
  <3> HIDE DEF t, i
  <3>1. Emittable(t \o i) BY <2>1, <1>3, HeadsConcat
  <3>2. emit(l, t \o i) = emit(emit(l, t), i) BY <2>1, <1>2, <1>3, EmitTwo
  <3> QED BY <3>1, <3>2, <2>9
 <2>11. Leads(G, l, J, emit(k, i), Disarmed(s, h - (m + 1)), {}, {}, {}) BY <2>2, <2>7, <2>8, LeadsOn
 <2> QED BY <2>10, <2>11 DEF PopsTo
<1> HIDE DEF h, i
<1>6. SUFFICES ASSUME X # {} PROVE FALSE
 <2>1. n \notin X => PopsTo(G, l, n) BY DEF h
 <2> QED BY <2>1
<1>7. PICK m \in X : \A j \in X : m <= j
 <2>1. X \subseteq Nat OBVIOUS
 <2> HIDE DEF X
 <2> QED BY <2>1, <1>6, LeastOf
<1>8. m \in Nat /\ m <= h /\ m # 0 BY <1>4, <1>7
<1>9. m - 1 \in Nat /\ (m - 1) + 1 = m /\ m - 1 <= h /\ m - 1 \notin X BY <1>1, <1>7, <1>8
<1>10. PopsTo(G, l, m) BY <1>5, <1>8, <1>9
<1> QED BY <1>7, <1>10

(* The blocks that are open, and the statements that own them.  The d-th block is followed by the
   statement that is being lowered in it. *)
Blk(o, d) == o[2 * d - 1]

Ctx(o, d) == o[2 * d]

\* A jump goes out of the statement that will patch it, or to the next turn of its loop.
Ways == {"in", "out"}

\* How many blocks are open; the layout with which each began, and that with which the statement
\* in it began; the statement that will patch a jump; and the statements that repeat.
Plans ==
  [depth : Nat \ {0}, base : [Nat -> Layouts], start : [Nat -> Layouts], own : [Nat -> Nat \X Ways],
   loop : Seq(Nat)]

Nests(K, o, q) ==
  /\ Len(o) = 2 * K.depth - 1 /\ K.base[1] = Bottom
  /\ \A d \in 1..K.depth : Blk(o, d).kind = IF d = 1 THEN "program" ELSE "block"
  /\ \A d \in 1..(K.depth - 1) : Ctx(o, d).kind \in StmtKinds
  /\ Len(K.loop) = Len(q)
  /\ \A k \in 1..Len(K.loop) : K.loop[k] \in 1..(K.depth - 1) /\ Ctx(o, K.loop[k]).kind \in Repeated
  /\ \A j, k \in 1..Len(K.loop) : j < k => K.loop[j] < K.loop[k]
  /\ \A d \in 1..(K.depth - 1) : Ctx(o, d).kind \in Repeated => \E k \in 1..Len(K.loop) : K.loop[k] = d

\* The catch block of the handler that h arms.
Handles(G, T, U, h) ==
  h \in Nat \ {0} /\ G.code[h].op = "PushHandler" /\ h \in DOMAIN G.at /\ G.at[h] = T /\ U = Catching(T, h)

\* The statement c of the block b, which began with B, begins with T, and its own block n with U.
Fits(G, B, T, U, c, b, n) ==
  /\ LayoutOK(G, T) /\ B.scope <= T.scope /\ T = Scoped(B, T.scope)
  /\ LayoutOK(G, U) /\ n.depth = U.scope
  /\ b.some /\ c.wants = IF b.last THEN b.wants ELSE "Effect"
  /\ c.kind \in {"plain", "if", "else"} => U = T /\ n.wants = c.wants
  /\ c.kind \in Repeated => n.wants = "Effect" /\ c.top \in DOMAIN G.at /\ G.at[c.top] = U
  /\ c.kind \in Repeated \ {"for"} => U = T
  /\ c.kind = "for" =>
       /\ c.site - 7 \in 1..Len(G.code) /\ G.code[c.site - 7].op = "IterInit" /\ c.top = c.site - 4
       /\ U = Scoped(Looped(T, c.site - 7), T.scope + 1)
  /\ c.kind \in {"try", "catch", "operand"} => n.wants = "Value"
  /\ c.kind = "try" =>
       /\ c.site \in 1..Len(G.code) /\ G.code[c.site].op = "PushHandler"
       /\ c.site \in DOMAIN G.at /\ G.at[c.site] = T /\ U = Arming(T, c.site)
  /\ c.kind = "catch" => c.top = T.scope /\ \E h \in 1..Len(G.code) : Handles(G, T, U, h)
  /\ c.kind = "operand" => U = Plus(T, 0)

Links(G, K, o) ==
  \A d \in 1..(K.depth - 1) :
    Fits(G, K.base[d], K.start[d], K.base[d + 1], Ctx(o, d), Blk(o, d), Blk(o, d + 1))

\* The loop p of the statement c.
Ring(T, U, c, p) ==
  /\ p.break_depth = T.scope /\ p.continue_depth = U.scope
  /\ p.iters = U.iters /\ p.handlers = Len(U.handlers)
  /\ p.owns_iterator = (c.kind = "for")
  /\ p.continue_target = IF c.kind \in {"loop", "do"} THEN c.top ELSE 0
  /\ c.kind = "while" => c.site \notin p.continues

Rings(K, o, q) ==
  \A k \in 1..Len(q) : Ring(K.start[K.loop[k]], K.base[K.loop[k] + 1], Ctx(o, K.loop[k]), q[k])

\* s is where r is, some try regions and variables further in.
Over(r, s) ==
  /\ r.stack = s.stack /\ r.iters = s.iters /\ r.scope <= s.scope
  /\ Len(r.handlers) <= Len(s.handlers) /\ SubSeq(s.handlers, 1, Len(r.handlers)) = r.handlers

Levels(K, o) ==
  \A d \in 1..K.depth : \A e \in 1..(d - 1) :
    ( /\ Ctx(o, e).kind \in Repeated
      /\ \A i \in (e + 1)..(d - 1) : Ctx(o, i).kind \notin Repeated \cup {"operand"} )
      => Over(K.base[e + 1], K.base[d])

\* The layout that a jump of the statement c leads to.
Aim(c, T, U, way) ==
  CASE c.kind = "if" -> T
    [] c.kind = "else" -> Valued(T, c.wants)
    [] c.kind = "try" -> Catching(T, c.site)
    [] c.kind \in Repeated /\ way = "in" -> U
    [] OTHER -> Plus(T, 0)

Goal(K, o, x) == Aim(Ctx(o, x[1]), K.start[x[1]], K.base[x[1] + 1], x[2])

\* The jumps that a statement, and its loop p, will patch.
Sites(c) == IF c.kind \in {"if", "else", "try", "catch"} THEN {c.site} ELSE {}

Outs(c, p) == IF c.kind = "for" THEN p.breaks \cup {c.site} ELSE p.breaks

Ins(c, p) ==
  CASE c.kind \in {"loop", "do"} -> {}
    [] c.kind = "while" -> p.continues \cup {c.site}
    [] OTHER -> p.continues

Owns(G, K, L, d, way, S) ==
  \A a : a \in S <=> Open_jump(G, a) /\ a \notin L /\ K.own[a] = <<d, way>>

\* The jumps of L have nobody yet.
Jumps(G, K, o, q, L) ==
  /\ \A a : Open_jump(G, a) /\ a \notin L =>
       /\ K.own[a][1] \in 1..(K.depth - 1)
       /\ Ahead(G.code[a].op, a, G.at[a], Goal(K, o, K.own[a]))
  /\ \A d \in 1..(K.depth - 1) :
       Ctx(o, d).kind \notin Repeated =>
         Owns(G, K, L, d, "out", Sites(Ctx(o, d))) /\ Owns(G, K, L, d, "in", {})
  /\ \A k \in 1..Len(q) :
       LET d == K.loop[k]
       IN Owns(G, K, L, d, "out", Outs(Ctx(o, d), q[k])) /\ Owns(G, K, L, d, "in", Ins(Ctx(o, d), q[k]))

\* The head of a `for`.
ForShape(G, a) ==
  /\ a + 8 <= Len(G.code)
  /\ G.code[a + 1].op = "Unit" /\ G.code[a + 2].op = "Declare" /\ G.code[a + 3].op = "IterNextStore"
  /\ G.code[a + 5].op = "UnwindTo" /\ G.code[a + 6].op = "Unit" /\ G.code[a + 7].op = "Jump"
  /\ a + 3 \in DOMAIN G.at

\* A break at p leaves the `for` at a: its jump and that of the exhausted iterator are one.
Pairs(G, K, o, p, a) ==
  /\ a \in 1..Len(G.code) /\ G.code[a].op = "IterInit" /\ ForShape(G, a)
  /\ Len(G.at[p].stack) = Len(G.at[a + 3].stack) + 1 /\ G.at[p].iters = G.at[a + 3].iters
  /\ \E k \in 1..Len(G.at[p].stack) : G.at[p].stack[k] = a
  /\ G.code[p + 2].arg = G.code[a + 7].arg
  /\ G.code[p + 2].arg = 0 =>
       \E e \in 1..(K.depth - 1) : /\ Ctx(o, e).kind = "for"
                                   /\ K.own[p + 2] = <<e, "out">> /\ K.own[a + 7] = <<e, "out">>

BreakShape(G, K, o, p) ==
  /\ p + 3 <= Len(G.code)
  /\ G.code[p + 1].op = "UnwindTo" /\ G.code[p + 2].op = "Jump"
  /\ p \in DOMAIN G.at
  /\ \E a \in Nat : Pairs(G, K, o, p, a)

Shapes(G, K, o) ==
  \A a \in 1..Len(G.code) :
    /\ G.code[a].op = "IterInit" => ForShape(G, a)
    /\ G.code[a].op = "IterDrop" => BreakShape(G, K, o, a)

Ctxs(G, K, o, q, L) ==
  /\ K \in Plans
  /\ Nests(K, o, q) /\ Links(G, K, o) /\ Rings(K, o, q) /\ Levels(K, o)
  /\ Jumps(G, K, o, q, L)
  /\ Shapes(G, K, o)

\* Where lowering is in the innermost block.
Reached(G, K, l) ==
  LET B == K.base[K.depth]
      b == Blk(l.open, K.depth)
      S == Scoped(B, l.slots)
  IN /\ LayoutOK(G, B) /\ LayoutOK(G, S) /\ B.scope <= l.slots
     /\ End(G) = Valued(S, IF b.last THEN b.wants ELSE "Effect")
     /\ l.slots \in Nat /\ l.iters = B.iters /\ l.handlers = Len(B.handlers)
     /\ K.depth > 1 => b.depth = B.scope
     /\ ~b.some => ~b.last /\ l.slots = B.scope

LowSound(l) == \E G, K : Tracks(G, l) /\ Ctxs(G, K, l.open, l.loops, {}) /\ Reached(G, K, l)
(* What a context says stays true as the code grows. *)
LEMMA FitsGrows ==
  ASSUME NEW G, NEW H, NEW P, NEW N, Good(G), Good(H), Grows(G, H, P, N),
         NEW B, NEW T, NEW U, NEW c, NEW b, NEW n, Fits(G, B, T, U, c, b, n)
  PROVE  Fits(H, B, T, U, c, b, n)
<1>1. CodeOK(H.code) /\ H.room \in Nat /\ Len(G.code) \in Nat /\ Len(H.code) \in Nat BY CodeLen DEF Good
<1>2. LayoutOK(H, T) /\ LayoutOK(H, U) BY <1>1, LayoutGrows DEF Fits
<1>3. \A a \in 1..Len(G.code) : a \in 1..Len(H.code) /\ H.code[a].op = G.code[a].op BY <1>1 DEF Grows
<1>4. \A a \in DOMAIN G.at : a \in DOMAIN H.at /\ H.at[a] = G.at[a] BY DEF Grows
<1>5. \A h \in 1..Len(G.code) : Handles(G, T, U, h) => h \in 1..Len(H.code) /\ Handles(H, T, U, h)
  BY <1>3, <1>4 DEF Handles
<1> QED BY <1>2, <1>3, <1>4, <1>5 DEF Fits

LEMMA LinksGrows ==
  ASSUME NEW G, NEW H, NEW P, NEW N, Good(G), Good(H), Grows(G, H, P, N), NEW K, NEW o, Links(G, K, o)
  PROVE  Links(H, K, o)
  BY FitsGrows DEF Links

\* Where a jump is to be patched, the instruction is one of code that there was.
LEMMA OpenGrows ==
  ASSUME NEW G, NEW H, NEW P, NEW N, Good(G), Good(H), Grows(G, H, P, N), \A a \in N : ~(a <= Len(G.code)),
         NEW a, ~(a \in N), Open_jump(H, a)
  PROVE  /\ Open_jump(G, a) /\ a \notin P /\ H.code[a] = G.code[a] /\ H.at[a] = G.at[a]
         /\ a \in DOMAIN G.at
<1>1. Open_jump(G, a) /\ a \notin P BY DEF Grows
<1>2. H.code[a] = G.code[a] /\ a \in DOMAIN G.at
 <2>1. G.code[a].op # "operand" BY <1>1 DEF Open_jump, Targeted, Branches, Advances
 <2> QED BY <1>1, <2>1 DEF Open_jump, Grows, Good, Starts
<1> QED BY <1>1, <1>2 DEF Grows

LEMMA OpenStays ==
  ASSUME NEW G, NEW H, NEW P, NEW N, Good(G), Good(H), Grows(G, H, P, N), NEW a, Open_jump(G, a), a \notin P
  PROVE  Open_jump(H, a) /\ a <= Len(G.code)
BY CodeLen DEF Good, Grows, Open_jump

\* The blocks and statements stay, and so do the jumps they own.
SamePlan(K, J) ==
  /\ K \in Plans /\ J \in Plans
  /\ J.depth = K.depth /\ J.base = K.base /\ J.start = K.start /\ J.loop = K.loop

LEMMA JumpsGrows ==
  ASSUME NEW G, NEW H, NEW N, Good(G), Good(H), Grows(G, H, {}, N), \A a \in N : ~(a <= Len(G.code)),
         NEW K, NEW J, NEW o, NEW q, SamePlan(K, J), \A a : Open_jump(G, a) => J.own[a] = K.own[a],
         Jumps(G, K, o, q, {})
  PROVE  Jumps(H, J, o, q, N)
<1>1. ASSUME NEW a, Open_jump(H, a), a \notin N
      PROVE  /\ J.own[a][1] \in 1..(J.depth - 1)
             /\ Ahead(H.code[a].op, a, H.at[a], Goal(J, o, J.own[a]))
  BY <1>1, OpenGrows DEF Jumps, Goal, SamePlan
<1>2. ASSUME NEW d, NEW way, NEW S, Owns(G, K, {}, d, way, S)
      PROVE  Owns(H, J, N, d, way, S)
 <2>1. \A a : (Open_jump(H, a) /\ a \notin N) <=> Open_jump(G, a)
  <3>1. ASSUME NEW a, Open_jump(G, a) PROVE Open_jump(H, a) /\ a \notin N BY <3>1, OpenStays
  <3> QED BY <3>1 DEF Grows
 <2>2. \A a : a \in S <=> Open_jump(G, a) /\ K.own[a] = <<d, way>> BY <1>2 DEF Owns
 <2> QED BY <2>1, <2>2 DEF Owns
<1>3. ASSUME NEW d \in 1..(J.depth - 1), Ctx(o, d).kind \notin Repeated
      PROVE  Owns(H, J, N, d, "out", Sites(Ctx(o, d))) /\ Owns(H, J, N, d, "in", {})
  BY <1>3, <1>2 DEF Jumps, SamePlan
<1>4. ASSUME NEW k \in 1..Len(q)
      PROVE  LET d == J.loop[k]
             IN Owns(H, J, N, d, "out", Outs(Ctx(o, d), q[k])) /\ Owns(H, J, N, d, "in", Ins(Ctx(o, d), q[k]))
 <2>1. LET d == K.loop[k]
       IN Owns(G, K, {}, d, "out", Outs(Ctx(o, d), q[k])) /\ Owns(G, K, {}, d, "in", Ins(Ctx(o, d), q[k]))
   BY DEF Jumps
 <2> QED BY <2>1, <1>2 DEF SamePlan
<1> QED BY <1>1, <1>3, <1>4 DEF Jumps

\* Nothing but jumps changes, and those of a break and its `for` alike.
LEMMA ForShapeGrows ==
  ASSUME NEW G, NEW H, NEW P, NEW N, Good(G), Good(H), Grows(G, H, P, N), NEW a \in 1..Len(G.code), ForShape(G, a)
  PROVE  ForShape(H, a) /\ H.at[a + 3] = G.at[a + 3]
<1>1. Len(G.code) \in Nat /\ Len(H.code) \in Nat /\ Len(G.code) <= Len(H.code) BY CodeLen DEF Good, Grows
<1>2. a + 8 <= Len(H.code) /\ \A i \in 1..8 : a + i \in 1..Len(G.code)
 <2>1. a + 8 <= Len(G.code) BY DEF ForShape
 <2> QED BY <2>1, <1>1
<1>5. \A i \in 1..8 : H.code[a + i].op = G.code[a + i].op BY <1>2 DEF Grows
<1>6. {1, 2, 3, 5, 6, 7} \subseteq 1..8 OBVIOUS
<1>3. /\ H.code[a + 1].op = G.code[a + 1].op /\ H.code[a + 2].op = G.code[a + 2].op
      /\ H.code[a + 3].op = G.code[a + 3].op /\ H.code[a + 5].op = G.code[a + 5].op
      /\ H.code[a + 6].op = G.code[a + 6].op /\ H.code[a + 7].op = G.code[a + 7].op
  BY ONLY <1>5, <1>6
<1>4. a + 3 \in DOMAIN H.at /\ H.at[a + 3] = G.at[a + 3] BY DEF Grows, ForShape
<1> QED BY <1>2, <1>3, <1>4 DEF ForShape

Even(G, H, K, J, o, u) ==
  \A e \in 1..(K.depth - 1) : \A a, b \in Nat :
    ( /\ Ctx(o, e).kind = "for"
      /\ Open_jump(G, a) /\ K.own[a] = <<e, "out">>
      /\ Open_jump(G, b) /\ K.own[b] = <<e, "out">> )
      => /\ H.code[a].arg = H.code[b].arg
         /\ H.code[a].arg = 0 => /\ e \in 1..(J.depth - 1) /\ Ctx(u, e).kind = "for"
                                 /\ J.own[a] = K.own[a] /\ J.own[b] = K.own[b]

LEMMA PairsGrows ==
  ASSUME NEW G, NEW H, NEW P, NEW N, Good(G), Good(H), Grows(G, H, P, N), \A a \in P : Open_jump(G, a),
         NEW K, NEW J, NEW o, NEW u, Even(G, H, K, J, o, u),
         NEW p \in 1..Len(G.code), p \in DOMAIN G.at, p + 3 <= Len(G.code), G.code[p + 2].op = "Jump",
         NEW a \in Nat, Pairs(G, K, o, p, a)
  PROVE  Pairs(H, J, u, p, a)
<1>1. Len(G.code) \in Nat /\ Len(H.code) \in Nat /\ Len(G.code) <= Len(H.code) BY CodeLen DEF Good, Grows
<1>2. a \in 1..Len(G.code) /\ G.code[a].op = "IterInit" /\ ForShape(G, a) BY DEF Pairs
<1>3. ForShape(H, a) /\ H.at[a + 3] = G.at[a + 3] /\ H.at[p] = G.at[p] /\ H.code[a].op = G.code[a].op
      /\ a \in 1..Len(H.code)
 <2>1. ForShape(H, a) /\ H.at[a + 3] = G.at[a + 3] BY <1>2, ForShapeGrows
 <2>2. H.at[p] = G.at[p] /\ H.code[a].op = G.code[a].op BY <1>2 DEF Grows
 <2> QED BY <2>1, <2>2, <1>1, <1>2
<1>4. p + 2 \in 1..Len(G.code) /\ a + 7 \in 1..Len(G.code) /\ p + 2 \in Nat /\ a + 7 \in Nat
 <2>1. a + 8 <= Len(G.code) BY <1>2 DEF ForShape
 <2> QED BY <2>1, <1>1, <1>2
<1> DEFINE x == p + 2
           y == a + 7
<1>5. /\ G.code[x].op = "Jump" /\ G.code[y].op = "Jump" /\ G.code[x].arg = G.code[y].arg
      /\ G.code[x].arg = 0 =>
           \E e \in 1..(K.depth - 1) : Ctx(o, e).kind = "for" /\ K.own[x] = <<e, "out">> /\ K.own[y] = <<e, "out">>
  BY <1>2 DEF Pairs, ForShape
<1>6. /\ H.code[x].arg = H.code[y].arg
      /\ H.code[x].arg = 0 =>
           \E e \in 1..(J.depth - 1) : Ctx(u, e).kind = "for" /\ J.own[x] = <<e, "out">> /\ J.own[y] = <<e, "out">>
 <2> HIDE DEF x, y
 <2>1. CASE G.code[x].arg = 0
  <3>1. Open_jump(G, x) /\ Open_jump(G, y) BY <2>1, <1>4, <1>5 DEF Open_jump, Targeted, x, y
  <3>2. PICK e \in 1..(K.depth - 1) : Ctx(o, e).kind = "for" /\ K.own[x] = <<e, "out">> /\ K.own[y] = <<e, "out">>
    BY <2>1, <1>5
  <3>3. x \in Nat /\ y \in Nat BY <1>4 DEF x, y
  <3> QED BY <3>1, <3>2, <3>3 DEF Even
 <2>2. CASE G.code[x].arg # 0 BY <2>2, <1>5, <1>4 DEF Open_jump, Grows, x, y
 <2> QED BY <2>1, <2>2
<1>7. /\ Len(H.at[p].stack) = Len(H.at[a + 3].stack) + 1 /\ H.at[p].iters = H.at[a + 3].iters
      /\ \E k \in 1..Len(H.at[p].stack) : H.at[p].stack[k] = a
  BY <1>3 DEF Pairs
<1> QED BY <1>2, <1>3, <1>6, <1>7 DEF Pairs

LEMMA ShapesGrow ==
  ASSUME NEW G, NEW H, NEW P, NEW N, Good(G), Good(H), Grows(G, H, P, N), \A a \in P : Open_jump(G, a),
         NEW K, NEW J, NEW o, NEW u, Even(G, H, K, J, o, u), Shapes(G, K, o),
         NEW X, Calm(G, H, X),
         \A a \in X : /\ H.code[a].op = "IterInit" => ForShape(H, a)
                      /\ H.code[a].op = "IterDrop" => BreakShape(H, J, u, a)
  PROVE  Shapes(H, J, u)
<1>1. Len(G.code) \in Nat /\ Len(H.code) \in Nat /\ Len(G.code) <= Len(H.code) BY CodeLen DEF Good, Grows
<1>2. ASSUME NEW a \in 1..Len(H.code)
      PROVE  /\ H.code[a].op = "IterInit" => ForShape(H, a)
             /\ H.code[a].op = "IterDrop" => BreakShape(H, J, u, a)
 <2>1. CASE a \in (Len(G.code) + 1)..Len(H.code) BY <2>1 DEF Calm
 <2>2. CASE a \in 1..Len(G.code)
  <3>1. H.code[a].op = G.code[a].op BY <2>2 DEF Grows
  <3>2. H.code[a].op = "IterInit" => ForShape(H, a) BY <2>2, <3>1, ForShapeGrows DEF Shapes
  <3>3. ASSUME H.code[a].op = "IterDrop" PROVE BreakShape(H, J, u, a)
   <4>1. BreakShape(G, K, o, a) BY <3>1, <3>3, <2>2 DEF Shapes
   <4>2. PICK b \in Nat : Pairs(G, K, o, a, b) BY <4>1 DEF BreakShape
   <4>3. Pairs(H, J, u, a, b) BY <4>1, <4>2, <2>2, PairsGrows DEF BreakShape
   <4>4. a + 1 \in 1..Len(G.code) /\ a + 2 \in 1..Len(G.code) /\ a + 3 <= Len(H.code)
     BY <4>1, <1>1, <2>2 DEF BreakShape
   <4>5. H.code[a + 1].op = "UnwindTo" /\ H.code[a + 2].op = "Jump" /\ a \in DOMAIN H.at
     BY <4>1, <4>4 DEF BreakShape, Grows
   <4> QED BY <4>3, <4>4, <4>5 DEF BreakShape
  <3> QED BY <3>2, <3>3
 <2> QED BY <2>1, <2>2, <1>1
<1> QED BY <1>2 DEF Shapes

LEMMA CtxsGrow ==
  ASSUME NEW G, NEW H, NEW N, Good(G), Good(H), Grows(G, H, {}, N), \A a \in N : ~(a <= Len(G.code)),
         NEW K, NEW o, NEW q, Ctxs(G, K, o, q, {}),
         NEW f \in [Nat -> Nat \X Ways], \A a : Open_jump(G, a) => f[a] = K.own[a],
         NEW X, Calm(G, H, X),
         \A a \in X : /\ H.code[a].op = "IterInit" => ForShape(H, a)
                      /\ H.code[a].op = "IterDrop" => BreakShape(H, [K EXCEPT !.own = f], o, a)
  PROVE  Ctxs(H, [K EXCEPT !.own = f], o, q, N)
<1> DEFINE J == [K EXCEPT !.own = f]
<1>1. K \in Plans BY DEF Ctxs
<1>2. J \in Plans /\ SamePlan(K, J) /\ J.own = f BY <1>1 DEF Plans, SamePlan
<1> HIDE DEF J
<1>3. Nests(J, o, q) /\ Rings(J, o, q) /\ Levels(J, o) BY <1>2 DEF Ctxs, SamePlan, Nests, Rings, Levels
<1>4. Links(H, J, o) BY LinksGrows, <1>2 DEF Ctxs, Links, SamePlan
<1>5. Jumps(H, J, o, q, N) BY <1>2, JumpsGrows DEF Ctxs
<1>6. Even(G, H, K, J, o, o)
 <2> SUFFICES ASSUME NEW e \in 1..(K.depth - 1), NEW a \in Nat, NEW b \in Nat,
                     Ctx(o, e).kind = "for", Open_jump(G, a), K.own[a] = <<e, "out">>,
                     Open_jump(G, b), K.own[b] = <<e, "out">>
              PROVE  /\ H.code[a].arg = H.code[b].arg
                     /\ e \in 1..(J.depth - 1) /\ J.own[a] = K.own[a] /\ J.own[b] = K.own[b]
   BY DEF Even
 <2>1. H.code[a] = G.code[a] /\ H.code[b] = G.code[b] BY DEF Grows, Open_jump
 <2> QED BY <2>1, <1>2 DEF SamePlan, Open_jump
<1>7. Shapes(H, J, o) BY <1>6, ShapesGrow DEF J, Ctxs
<1>8. Ctxs(H, J, o, q, N) BY <1>2, <1>3, <1>4, <1>5, <1>7 DEF Ctxs
<1> QED BY <1>8 DEF J

With(o, c, n) == o \o <<c, n>>

IsWith(S, u, o, c, n) ==
  /\ u \in Seq(S) /\ Len(u) = Len(o) + 2 /\ Len(o) \in Nat
  /\ \A i \in 1..Len(o) : u[i] = o[i]
  /\ u[Len(o) + 1] = c /\ u[Len(o) + 2] = n

LEMMA PushTwo ==
  ASSUME NEW S, NEW o \in Seq(S), NEW c \in S, NEW n \in S
  PROVE  IsWith(S, With(o, c, n), o, c, n)
<1> DEFINE t == <<c, n>>
<1>1. t \in Seq(S) /\ Len(t) = 2 /\ t[1] = c /\ t[2] = n OBVIOUS
<1>0. \A a, b \in Seq(S) : LET e == a \o b IN
        /\ e \in Seq(S) /\ Len(e) = Len(a) + Len(b) /\ Len(a) \in Nat
        /\ \A i \in 1..Len(a) : e[i] = a[i]
        /\ \A i \in (Len(a) + 1)..Len(e) : e[i] = b[i - Len(a)]
  OBVIOUS
<1> DEFINE u == o \o t
<1> HIDE DEF t
<1>2. /\ u \in Seq(S) /\ Len(u) = Len(o) + Len(t) /\ Len(o) \in Nat
      /\ \A i \in 1..Len(o) : u[i] = o[i]
      /\ \A i \in (Len(o) + 1)..Len(u) : u[i] = t[i - Len(o)]
  BY <1>0, <1>1
<1> HIDE DEF u
<1>3. u[Len(o) + 1] = t[1] /\ u[Len(o) + 2] = t[2]
 <2>1. /\ Len(o) + 1 \in (Len(o) + 1)..Len(u) /\ (Len(o) + 1) - Len(o) = 1
       /\ Len(o) + 2 \in (Len(o) + 1)..Len(u) /\ (Len(o) + 2) - Len(o) = 2
   BY <1>1, <1>2
 <2> QED BY <2>1, <1>2
<1> QED BY <1>1, <1>2, <1>3 DEF t, u, With, IsWith

LEMMA PlanFacts ==
  ASSUME NEW K \in Plans
  PROVE  /\ K.depth \in Nat /\ K.depth > 0 /\ K.depth - 1 \in Nat
         /\ \A d \in Nat : K.base[d] \in Layouts /\ K.start[d] \in Layouts
         /\ \A a \in Nat : /\ K.own[a] = <<K.own[a][1], K.own[a][2]>>
                           /\ K.own[a][1] \in Nat /\ K.own[a][2] \in Ways
         /\ K.own \in [Nat -> Nat \X Ways]
         /\ K.loop \in Seq(Nat) /\ Len(K.loop) \in Nat
<1>1. K.depth \in Nat \ {0} /\ K.base \in [Nat -> Layouts] /\ K.start \in [Nat -> Layouts]
      /\ K.own \in [Nat -> Nat \X Ways] /\ K.loop \in Seq(Nat)
  BY DEF Plans
<1>2. \A a \in Nat : K.own[a] \in Nat \X Ways BY <1>1
<1>3. \A x \in Nat \X Ways : x = <<x[1], x[2]>> /\ x[1] \in Nat /\ x[2] \in Ways OBVIOUS
<1>5. \A a \in Nat : K.own[a] = <<K.own[a][1], K.own[a][2]>> /\ K.own[a][1] \in Nat /\ K.own[a][2] \in Ways
  BY <1>2, <1>3
<1>6. \A d \in Nat : K.base[d] \in Layouts /\ K.start[d] \in Layouts BY <1>1
<1>7. Len(K.loop) \in Nat BY <1>1
<1>4. K.depth \in Nat /\ K.depth > 0 /\ K.depth - 1 \in Nat
 <2>1. \A n \in Nat \ {0} : n \in Nat /\ n > 0 /\ n - 1 \in Nat OBVIOUS
 <2> QED BY <2>1, <1>1
<1> QED BY <1>1, <1>4, <1>5, <1>6, <1>7

LEMMA PutFacts ==
  ASSUME NEW S, NEW f \in [Nat -> S], NEW i \in Nat, NEW x \in S
  PROVE  /\ [f EXCEPT ![i] = x] \in [Nat -> S] /\ [f EXCEPT ![i] = x][i] = x
         /\ \A j \in Nat : j # i => [f EXCEPT ![i] = x][j] = f[j]
  OBVIOUS

LEMMA AppendFacts ==
  ASSUME NEW S, NEW s \in Seq(S), NEW x \in S
  PROVE  /\ Append(s, x) \in Seq(S) /\ Len(Append(s, x)) = Len(s) + 1
         /\ Append(s, x)[Len(s) + 1] = x /\ Len(s) \in Nat
         /\ \A k \in 1..Len(s) : Append(s, x)[k] = s[k]
  OBVIOUS

\* A statement with a block of its own begins.
Deeper(K, T, U, kind) ==
  [depth |-> K.depth + 1, base |-> [K.base EXCEPT ![K.depth + 1] = U],
   start |-> [K.start EXCEPT ![K.depth] = T], own |-> K.own,
   loop |-> IF kind \in Repeated THEN Append(K.loop, K.depth) ELSE K.loop]

LEMMA DeeperFacts ==
  ASSUME NEW K \in Plans, NEW T \in Layouts, NEW U \in Layouts, NEW kind
  PROVE  LET M == Deeper(K, T, U, kind)
             D == K.depth
         IN /\ M \in Plans /\ M.depth = D + 1 /\ M.own = K.own
            /\ \A d \in 1..D : M.base[d] = K.base[d]
            /\ M.base[D + 1] = U
            /\ \A d \in 1..(D - 1) : M.start[d] = K.start[d]
            /\ M.start[D] = T
            /\ kind \notin Repeated => M.loop = K.loop
            /\ kind \in Repeated => /\ Len(M.loop) = Len(K.loop) + 1 /\ M.loop[Len(K.loop) + 1] = D
                                    /\ \A k \in 1..Len(K.loop) : M.loop[k] = K.loop[k]
<1> DEFINE D == K.depth
           bs == [K.base EXCEPT ![D + 1] = U]
           st == [K.start EXCEPT ![D] = T]
           lp == IF kind \in Repeated THEN Append(K.loop, D) ELSE K.loop
           M == Deeper(K, T, U, kind)
<1>1. D \in Nat /\ D \in Nat \ {0} /\ D + 1 \in Nat \ {0} /\ K.base \in [Nat -> Layouts] /\ K.start \in [Nat -> Layouts]
      /\ K.own \in [Nat -> Nat \X Ways] /\ K.loop \in Seq(Nat)
 <2>1. D \in Nat \ {0} /\ K.base \in [Nat -> Layouts] /\ K.start \in [Nat -> Layouts]
       /\ K.own \in [Nat -> Nat \X Ways] /\ K.loop \in Seq(Nat)
   BY DEF Plans
 <2>2. \A n \in Nat \ {0} : n + 1 \in Nat \ {0} OBVIOUS
 <2> QED BY <2>1, <2>2
<1>2. bs \in [Nat -> Layouts] /\ bs[D + 1] = U /\ \A d \in 1..D : bs[d] = K.base[d]
 <2> HIDE DEF D
 <2>1. \A d \in 1..D : d \in Nat /\ d # D + 1 BY <1>1
 <2>2. D + 1 \in Nat BY <1>1
 <2>3. bs \in [Nat -> Layouts] /\ bs[D + 1] = U /\ \A d \in Nat : d # D + 1 => bs[d] = K.base[d]
  <3>1. U \in Layouts /\ K.base \in [Nat -> Layouts] BY <1>1
  <3> QED BY ONLY <3>1, <2>2, PutFacts
 <2> QED BY <2>1, <2>3
<1>3. st \in [Nat -> Layouts] /\ st[D] = T /\ \A d \in 1..(D - 1) : st[d] = K.start[d]
 <2> HIDE DEF D
 <2>1. \A d \in 1..(D - 1) : d \in Nat /\ d # D BY <1>1
 <2>2. D \in Nat BY <1>1
 <2>3. st \in [Nat -> Layouts] /\ st[D] = T /\ \A d \in Nat : d # D => st[d] = K.start[d]
  <3>1. T \in Layouts /\ K.start \in [Nat -> Layouts] BY <1>1
  <3> QED BY ONLY <3>1, <2>2, PutFacts
 <2> QED BY <2>1, <2>3
<1>4. /\ lp \in Seq(Nat)
      /\ kind \notin Repeated => lp = K.loop
      /\ kind \in Repeated => /\ Len(lp) = Len(K.loop) + 1 /\ lp[Len(K.loop) + 1] = D
                              /\ \A k \in 1..Len(K.loop) : lp[k] = K.loop[k]
 <2> HIDE DEF D
 <2>1. D \in Nat BY <1>1
 <2>2. CASE kind \in Repeated
  <3>1. lp = Append(K.loop, D) BY <2>2
  <3>2. K.loop \in Seq(Nat) BY <1>1
  <3>3. /\ Append(K.loop, D) \in Seq(Nat) /\ Len(Append(K.loop, D)) = Len(K.loop) + 1
        /\ Append(K.loop, D)[Len(K.loop) + 1] = D
        /\ \A k \in 1..Len(K.loop) : Append(K.loop, D)[k] = K.loop[k]
    BY <3>2, <2>1, AppendFacts
  <3> HIDE DEF lp
  <3> QED BY <3>1, <3>3, <2>2
 <2>3. CASE kind \notin Repeated BY <2>3, <1>1
 <2> QED BY <2>2, <2>3
<1>5. M = [depth |-> D + 1, base |-> bs, start |-> st, own |-> K.own, loop |-> lp] BY DEF Deeper
<1> HIDE DEF bs, st, lp, M
<1>6. M \in Plans /\ M.depth = D + 1 /\ M.own = K.own /\ M.base = bs /\ M.start = st /\ M.loop = lp
  BY <1>1, <1>2, <1>3, <1>4, <1>5 DEF Plans
<1> QED BY <1>2, <1>3, <1>4, <1>6 DEF M

\* The statements that were open have not changed.
Holds(u, o, c, n, D) ==
  /\ Len(u) = 2 * (D + 1) - 1
  /\ \A d \in 1..D : Blk(u, d) = Blk(o, d)
  /\ \A d \in 1..(D - 1) : Ctx(u, d) = Ctx(o, d)
  /\ Ctx(u, D) = c /\ Blk(u, D + 1) = n

LEMMA SameCtxs ==
  ASSUME NEW S, NEW o \in Seq(S), NEW c \in S, NEW n \in S, NEW D \in Nat, D > 0, Len(o) = 2 * D - 1
  PROVE  Holds(With(o, c, n), o, c, n, D)
<1> DEFINE u == With(o, c, n)
<1>0. IsWith(S, u, o, c, n) BY PushTwo
<1>1. /\ Len(u) = Len(o) + 2 /\ u[Len(o) + 1] = c /\ u[Len(o) + 2] = n
      /\ \A i \in 1..Len(o) : u[i] = o[i]
  BY <1>0 DEF IsWith
<1> HIDE DEF u
<1>2. \A d \in 1..D : 2 * d - 1 \in 1..Len(o) OBVIOUS
<1>3. \A d \in 1..(D - 1) : 2 * d \in 1..Len(o) OBVIOUS
<1>4. Len(o) + 1 = 2 * D /\ Len(o) + 2 = 2 * (D + 1) - 1 OBVIOUS
<1> QED BY <1>1, <1>2, <1>3, <1>4 DEF Blk, Ctx, u, Holds

\* What a loop, or another statement, has to patch.
Awaits(c, p, way, N) ==
  IF c.kind \in Repeated
  THEN IF way = "out" THEN (\A a : a \in Outs(c, p) <=> a \in N) /\ Ins(c, p) = {}
       ELSE Outs(c, p) = {} /\ (\A a : a \in Ins(c, p) <=> a \in N)
  ELSE way = "out" /\ \A a : a \in Sites(c) <=> a \in N

LEMMA CtxsOpen ==
  ASSUME NEW G, NEW K, NEW S, NEW o \in Seq(S), NEW q, NEW N, Good(G), Ctxs(G, K, o, q, N),
         NEW c \in S, NEW n \in S, NEW T, NEW U,
         Fits(G, K.base[K.depth], T, U, c, Blk(o, K.depth), n),
         n.kind = "block", c.kind \in StmtKinds,
         NEW way \in Ways, NEW p,
         \A a \in N : /\ Open_jump(G, a) /\ K.own[a] = <<K.depth, way>>
                      /\ Ahead(G.code[a].op, a, G.at[a], Aim(c, T, U, way)),
         Awaits(c, p, way, N),
         NEW Q, NEW v \in Seq(Q), q = v, NEW w, w = (IF c.kind \in Repeated THEN Append(v, p) ELSE v),
         c.kind \in Repeated => Ring(T, U, c, p),
         c.kind \in Repeated \cup {"operand"} \/ Over(K.base[K.depth], U)
  PROVE  Ctxs(G, Deeper(K, T, U, c.kind), With(o, c, n), w, {})
<1> DEFINE D == K.depth
           M == Deeper(K, T, U, c.kind)
           u == With(o, c, n)
<1>1. /\ K \in Plans /\ Nests(K, o, q) /\ Links(G, K, o) /\ Rings(K, o, q) /\ Levels(K, o)
      /\ Jumps(G, K, o, q, N) /\ Shapes(G, K, o)
      /\ T \in Layouts /\ U \in Layouts
  BY DEF Ctxs, Fits, LayoutOK
<1>2. D \in Nat /\ D > 0 /\ D + 1 \in Nat /\ Len(o) = 2 * D - 1 /\ K.loop \in Seq(Nat) /\ Len(K.loop) = Len(q) /\ Len(K.loop) \in Nat
      /\ 1..D = 1..((D + 1) - 1)
  BY <1>1, PlanFacts DEF Nests
<1>3. /\ M \in Plans /\ M.depth = D + 1 /\ M.own = K.own
      /\ \A d \in 1..D : M.base[d] = K.base[d]
      /\ M.base[D + 1] = U
      /\ \A d \in 1..(D - 1) : M.start[d] = K.start[d]
      /\ M.start[D] = T
      /\ c.kind \notin Repeated => M.loop = K.loop
      /\ c.kind \in Repeated => /\ Len(M.loop) = Len(K.loop) + 1 /\ M.loop[Len(K.loop) + 1] = D
                                /\ \A k \in 1..Len(K.loop) : M.loop[k] = K.loop[k]
  BY <1>1, DeeperFacts
<1>4. /\ Len(u) = 2 * (D + 1) - 1
      /\ \A d \in 1..D : Blk(u, d) = Blk(o, d)
      /\ \A d \in 1..(D - 1) : Ctx(u, d) = Ctx(o, d)
      /\ Ctx(u, D) = c /\ Blk(u, D + 1) = n
 <2>1. o \in Seq(S) /\ c \in S /\ n \in S OBVIOUS
 <2>2. Holds(u, o, c, n, D)
  <3> HIDE DEF D
  <3> QED BY <1>2, <2>1, SameCtxs
 <2> QED BY <2>2 DEF Holds
<1>5. /\ c.kind \notin Repeated => w = q
      /\ c.kind \in Repeated => /\ Len(w) = Len(q) + 1 /\ w[Len(q) + 1] = p
                                /\ \A k \in 1..Len(q) : w[k] = q[k]
  OBVIOUS
<1>0. D = K.depth OBVIOUS
<1> HIDE DEF M, u, D
<1>6. \A d \in 1..D : d \in 1..(D - 1) \/ d = D BY <1>2
<1>7. \A k \in 1..Len(K.loop) : /\ K.loop[k] \in 1..(D - 1) /\ K.loop[k] \in 1..D /\ K.loop[k] + 1 \in 1..D /\ M.loop[k] = K.loop[k]
                                /\ Ctx(u, K.loop[k]) = Ctx(o, K.loop[k])
 <2> SUFFICES ASSUME NEW k \in 1..Len(K.loop)
              PROVE  /\ K.loop[k] \in 1..(D - 1) /\ K.loop[k] \in 1..D /\ K.loop[k] + 1 \in 1..D /\ M.loop[k] = K.loop[k]
                     /\ Ctx(u, K.loop[k]) = Ctx(o, K.loop[k])
   OBVIOUS
 <2>1. K.loop[k] \in 1..(D - 1) BY <1>1, <1>0 DEF Nests
 <2>2. K.loop[k] \in 1..D /\ K.loop[k] + 1 \in 1..D
  <3>1. \A i \in 1..(D - 1) : i \in 1..D /\ i + 1 \in 1..D BY <1>2
  <3> QED BY ONLY <2>1, <3>1
 <2> QED BY <2>1, <2>2, <1>3, <1>4
<1>8. Nests(M, u, w)
 <2>1. \A d \in 1..(D + 1) : Blk(u, d).kind = IF d = 1 THEN "program" ELSE "block"
  <3>1. \A d \in 1..(D + 1) : d \in 1..D \/ (d = D + 1 /\ d # 1) BY <1>2
  <3> QED BY <3>1, <1>1, <1>4, <1>0 DEF Nests
 <2>2. \A d \in 1..D : Ctx(u, d).kind \in StmtKinds BY <1>1, <1>4, <1>6, <1>0 DEF Nests
 <2>3. Len(M.loop) = Len(w) BY <1>2, <1>3, <1>5
 <2>4. \A k \in 1..Len(M.loop) : k \in 1..Len(K.loop) \/ (c.kind \in Repeated /\ k = Len(K.loop) + 1)
   BY <1>2, <1>3
 <2>5. ASSUME NEW k \in 1..Len(M.loop) PROVE M.loop[k] \in 1..D /\ Ctx(u, M.loop[k]).kind \in Repeated
  <3>1. CASE k \in 1..Len(K.loop) BY <3>1, <1>1, <1>7, <1>0 DEF Nests
  <3>2. CASE c.kind \in Repeated /\ k = Len(K.loop) + 1
   <4>1. M.loop[k] = D /\ D \in 1..D BY <3>2, <1>2, <1>3
   <4> QED BY <3>2, <4>1, <1>4
  <3> QED BY <3>1, <3>2, <2>4
 <2>6. ASSUME NEW j \in 1..Len(M.loop), NEW k \in 1..Len(M.loop), j < k PROVE M.loop[j] < M.loop[k]
  <3>1. j \in 1..Len(K.loop) BY <2>4, <2>6, <1>2, <1>3
  <3>2. CASE k \in 1..Len(K.loop) BY <3>1, <3>2, <2>6, <1>1, <1>7, <1>0 DEF Nests
  <3>3. CASE c.kind \in Repeated /\ k = Len(K.loop) + 1
   <4>1. M.loop[j] \in 1..(D - 1) /\ M.loop[k] = D BY <3>1, <3>3, <1>3, <1>7
   <4>2. \A i \in 1..(D - 1) : i < D BY <1>2
   <4> QED BY ONLY <4>1, <4>2
  <3> QED BY <3>2, <3>3, <2>4
 <2>7. ASSUME NEW d \in 1..D, Ctx(u, d).kind \in Repeated PROVE \E k \in 1..Len(M.loop) : M.loop[k] = d
  <3>1. CASE d \in 1..(D - 1)
   <4>1. PICK k \in 1..Len(K.loop) : K.loop[k] = d BY <3>1, <2>7, <1>1, <1>4, <1>0 DEF Nests
   <4>2. k \in 1..Len(M.loop) BY <4>1, <1>2, <1>3
   <4> QED BY <4>1, <4>2, <1>7
  <3>2. CASE d = D
   <4>1. c.kind \in Repeated BY <3>2, <2>7, <1>4
   <4>2. Len(K.loop) + 1 \in 1..Len(M.loop) BY <4>1, <1>2, <1>3
   <4> QED BY <4>1, <4>2, <3>2, <1>3
  <3> QED BY <3>1, <3>2, <1>6
 <2>8. M.base[1] = Bottom BY <1>1, <1>2, <1>3 DEF Nests
 <2> QED BY <2>1, <2>2, <2>3, <2>5, <2>6, <2>7, <2>8, <1>2, <1>3, <1>4, <1>0 DEF Nests
<1>9. Links(G, M, u)
 <2> SUFFICES ASSUME NEW d \in 1..D
              PROVE  Fits(G, M.base[d], M.start[d], M.base[d + 1], Ctx(u, d), Blk(u, d), Blk(u, d + 1))
   BY <1>2, <1>3, <1>0 DEF Links
 <2>1. CASE d \in 1..(D - 1)
  <3>1. d + 1 \in 1..D BY <2>1, <1>2
  <3>2. Fits(G, K.base[d], K.start[d], K.base[d + 1], Ctx(o, d), Blk(o, d), Blk(o, d + 1))
    BY <2>1, <1>1, <1>0 DEF Links
  <3> QED BY <3>1, <3>2, <2>1, <1>3, <1>4
 <2>2. CASE d = D BY <2>2, <1>0, <1>2, <1>3, <1>4
 <2> QED BY <2>1, <2>2, <1>6
<1>10. Rings(M, u, w)
 <2> SUFFICES ASSUME NEW k \in 1..Len(w)
              PROVE  Ring(M.start[M.loop[k]], M.base[M.loop[k] + 1], Ctx(u, M.loop[k]), w[k])
   BY DEF Rings
 <2>1. CASE k \in 1..Len(q)
  <3>1. Ring(K.start[K.loop[k]], K.base[K.loop[k] + 1], Ctx(o, K.loop[k]), q[k])
    BY <2>1, <1>1, <1>0 DEF Rings
  <3>2. w[k] = q[k] BY <2>1, <1>5
  <3>3. M.loop[k] = K.loop[k] /\ K.loop[k] \in 1..(D - 1) /\ K.loop[k] + 1 \in 1..D /\ Ctx(u, K.loop[k]) = Ctx(o, K.loop[k])
    BY <2>1, <1>2, <1>7
  <3>4. M.start[K.loop[k]] = K.start[K.loop[k]] /\ M.base[K.loop[k] + 1] = K.base[K.loop[k] + 1]
    BY <3>3, <1>3
  <3> QED BY ONLY <3>1, <3>2, <3>3, <3>4
 <2>2. CASE c.kind \in Repeated /\ k = Len(q) + 1 BY <2>2, <1>2, <1>3, <1>4, <1>5
 <2>3. k \in 1..Len(q) \/ (c.kind \in Repeated /\ k = Len(q) + 1) BY <1>2, <1>5
 <2> QED BY <2>1, <2>2, <2>3
<1>11. Levels(M, u)
 <2> SUFFICES ASSUME NEW d \in 1..(D + 1), NEW e \in 1..(d - 1), Ctx(u, e).kind \in Repeated,
                     \A i \in (e + 1)..(d - 1) : Ctx(u, i).kind \notin Repeated \cup {"operand"}
              PROVE  Over(M.base[e + 1], M.base[d])
   BY <1>0, <1>3 DEF Levels
 <2>1. CASE d \in 1..D
  <3>1. e \in 1..(D - 1) /\ e + 1 \in 1..D /\ \A i \in (e + 1)..(d - 1) : i \in 1..(D - 1) BY <2>1, <1>2
  <3>2. Over(K.base[e + 1], K.base[d]) BY <3>1, <2>1, <1>1, <1>4, <1>0 DEF Levels
  <3> QED BY <3>1, <3>2, <2>1, <1>3
 <2>2. CASE d = D + 1 /\ e = D BY <1>1, LayoutType, WholeCut, <2>2, <1>3 DEF Over
 <2>3. CASE d = D + 1 /\ e \in 1..(D - 1)
  <3>1. /\ e + 1 \in 1..D /\ D \in (e + 1)..(d - 1) /\ D \in 1..D
        /\ \A i \in (e + 1)..(D - 1) : i \in 1..(D - 1) /\ i \in (e + 1)..(d - 1)
    BY <2>3, <1>2
  <3>2. Over(K.base[D], U) BY <3>1, <1>0, <1>4, <2>3
  <3>3. Over(K.base[e + 1], K.base[D]) BY <3>1, <2>3, <1>1, <1>4, <1>0 DEF Levels
  <3>4. Over(K.base[e + 1], U)
   <4> DEFINE r == K.base[e + 1]
              s == K.base[D]
   <4>1. r \in Layouts /\ s \in Layouts BY <3>1, <1>1, <1>2, PlanFacts
   <4> HIDE DEF r, s
   <4>2. /\ r.handlers \in Seq(Regions) /\ s.handlers \in Seq(Regions) /\ U.handlers \in Seq(Regions)
         /\ Len(r.handlers) \in Nat /\ Len(s.handlers) \in Nat /\ Len(U.handlers) \in Nat
         /\ r.scope \in Nat /\ s.scope \in Nat /\ U.scope \in Nat
     BY <4>1, <1>1, LayoutType
   <4>3. Over(r, s) /\ Over(s, U) BY <3>2, <3>3 DEF r, s
   <4>4. Len(r.handlers) <= Len(U.handlers) /\ r.scope <= U.scope
    <5>1. /\ Len(r.handlers) <= Len(s.handlers) /\ Len(s.handlers) <= Len(U.handlers)
          /\ r.scope <= s.scope /\ s.scope <= U.scope
      BY <4>3 DEF Over
    <5>2. \A x, y, z \in Nat : x <= y /\ y <= z => x <= z OBVIOUS
    <5> QED BY ONLY <4>2, <5>1, <5>2
   <4>5. \A i \in 1..Len(s.handlers) : U.handlers[i] = s.handlers[i] BY <4>3, <4>2 DEF Over
   <4>6. SubSeq(U.handlers, 1, Len(r.handlers)) = SubSeq(s.handlers, 1, Len(r.handlers))
     BY <4>3, <4>2, <4>5, <4>4, SameCut DEF Over
   <4> QED BY <4>3, <4>4, <4>6 DEF Over, r
  <3> QED BY <3>1, <3>4, <2>3, <1>3
 <2>4. d \in 1..D \/ (d = D + 1 /\ e = D) \/ (d = D + 1 /\ e \in 1..(D - 1)) BY <1>2
 <2> QED BY <2>1, <2>2, <2>3, <2>4
<1>12. \A a : Open_jump(G, a) /\ a \notin N => K.own[a][1] \in 1..(D - 1) BY <1>1, <1>0 DEF Jumps
<1>13. D \notin 1..(D - 1) /\ D \in 1..D BY <1>2
<1>14. Jumps(G, M, u, w, {})
 <2>1. ASSUME NEW a, Open_jump(G, a)
       PROVE  K.own[a][1] \in 1..D /\ Ahead(G.code[a].op, a, G.at[a], Goal(M, u, K.own[a]))
  <3>1. CASE a \in N BY <3>1, <1>0, <1>3, <1>4, <1>13 DEF Goal
  <3>2. CASE a \notin N
   <4> DEFINE x == K.own[a]
   <4>1. x[1] \in 1..(D - 1) /\ Ahead(G.code[a].op, a, G.at[a], Goal(K, o, x))
     BY <3>2, <2>1, <1>1, <1>0 DEF Jumps
   <4> HIDE DEF x
   <4>2. x[1] \in 1..D /\ x[1] + 1 \in 1..D BY <4>1, <1>2
   <4>3. Goal(M, u, x) = Goal(K, o, x) BY <4>1, <4>2, <1>3, <1>4, <1>0 DEF Goal
   <4> QED BY <4>1, <4>2, <4>3 DEF x
  <3> QED BY <3>1, <3>2
 <2>2. ASSUME NEW d \in 1..(D - 1), NEW way2, NEW X, Owns(G, K, N, d, way2, X)
       PROVE  Owns(G, M, {}, d, way2, X)
  <3>1. \A a : a \in N => K.own[a] # <<d, way2>>
   <4> SUFFICES ASSUME NEW a \in N, K.own[a] = <<d, way2>> PROVE FALSE OBVIOUS
   <4>1. <<d, way2>> = <<D, way>> BY <1>0
   <4> QED BY <4>1, <1>13
  <3> QED BY <3>1, <2>2, <1>3 DEF Owns
 <2>3. ASSUME NEW way2, NEW X, \A a : a \in X <=> (a \in N /\ way2 = way)
       PROVE  Owns(G, M, {}, D, way2, X)
   BY <1>0, <2>3, <1>12, <1>13, <1>3 DEF Owns
 <2>4. ASSUME NEW d \in 1..D, Ctx(u, d).kind \notin Repeated
       PROVE  Owns(G, M, {}, d, "out", Sites(Ctx(u, d))) /\ Owns(G, M, {}, d, "in", {})
  <3>1. CASE d \in 1..(D - 1) BY <3>1, <2>4, <1>1, <1>4, <1>0, <2>2 DEF Jumps
  <3>2. CASE d = D BY <3>2, <2>4, <1>4, <2>3 DEF Awaits
  <3> QED BY <3>1, <3>2, <1>6
 <2>5. ASSUME NEW k \in 1..Len(w)
       PROVE  LET d == M.loop[k]
              IN Owns(G, M, {}, d, "out", Outs(Ctx(u, d), w[k])) /\ Owns(G, M, {}, d, "in", Ins(Ctx(u, d), w[k]))
  <3>1. CASE k \in 1..Len(q)
   <4> DEFINE d == K.loop[k]
   <4>1. Owns(G, K, N, d, "out", Outs(Ctx(o, d), q[k])) /\ Owns(G, K, N, d, "in", Ins(Ctx(o, d), q[k]))
     BY <3>1, <1>1, <1>0 DEF Jumps
   <4>2. d \in 1..(D - 1) /\ M.loop[k] = d /\ Ctx(u, d) = Ctx(o, d) /\ w[k] = q[k]
     BY <3>1, <1>2, <1>5, <1>7
   <4> HIDE DEF d
   <4>3. Owns(G, M, {}, d, "out", Outs(Ctx(o, d), q[k])) /\ Owns(G, M, {}, d, "in", Ins(Ctx(o, d), q[k]))
     BY <4>1, <4>2, <2>2
   <4> QED BY <4>2, <4>3
  <3>2. CASE c.kind \in Repeated /\ k = Len(q) + 1
   <4>1. M.loop[k] = D /\ Ctx(u, D) = c /\ w[k] = p BY <3>2, <1>2, <1>3, <1>4, <1>5
   <4>2. Owns(G, M, {}, D, "out", Outs(c, p)) /\ Owns(G, M, {}, D, "in", Ins(c, p))
     BY <3>2, <2>3 DEF Awaits, Ways
   <4> QED BY <4>1, <4>2
  <3>3. k \in 1..Len(q) \/ (c.kind \in Repeated /\ k = Len(q) + 1) BY <1>2, <1>5
  <3> QED BY <3>1, <3>2, <3>3
 <2>6. M.depth - 1 = D /\ \A a : a \notin {} BY <1>2, <1>3
 <2> QED BY <2>1, <2>4, <2>5, <2>6, <1>3, <1>0 DEF Jumps
<1>15. Shapes(G, M, u)
 <2>1. Even(G, G, K, M, o, u)
  <3> SUFFICES ASSUME NEW e \in 1..(D - 1), NEW a \in Nat, NEW b \in Nat, Ctx(o, e).kind = "for",
                      Open_jump(G, a), Open_jump(G, b)
               PROVE  /\ G.code[a].arg = G.code[b].arg
                      /\ e \in 1..(M.depth - 1) /\ Ctx(u, e).kind = "for"
    BY <1>3, <1>0 DEF Even
  <3>1. e \in 1..D BY <1>2
  <3> QED BY <3>1, <1>2, <1>3, <1>4 DEF Open_jump
 <2>2. Grows(G, G, {}, {}) /\ Calm(G, G, {}) BY GrowsSelf
 <2> QED BY <2>1, <2>2, <1>1, ShapesGrow
<1>16. Ctxs(G, M, u, w, {}) BY <1>3, <1>8, <1>9, <1>10, <1>11, <1>14, <1>15 DEF Ctxs
<1> QED BY <1>16 DEF M, u, D

(* A statement with a block of its own ends. *)
Outside(o) == SubSeq(o, 1, Len(o) - 2)

Left(q, kind) == IF kind \in Repeated THEN AllButLast(q) ELSE q

Shallower(K, kind, f) ==
  [depth |-> K.depth - 1, base |-> K.base, start |-> K.start, own |-> f, loop |-> Left(K.loop, kind)]

LEMMA CutFacts ==
  ASSUME NEW S, NEW s \in Seq(S), NEW n \in Nat, n <= Len(s)
  PROVE  /\ SubSeq(s, 1, Len(s) - n) \in Seq(S) /\ Len(SubSeq(s, 1, Len(s) - n)) = Len(s) - n
         /\ \A i \in 1..(Len(s) - n) : SubSeq(s, 1, Len(s) - n)[i] = s[i] /\ i \in 1..Len(s)
BY FirstN

LEMMA LeftFacts ==
  ASSUME NEW S, NEW s \in Seq(S), NEW kind, kind \in Repeated => Len(s) > 0
  PROVE  /\ Left(s, kind) \in Seq(S)
         /\ kind \notin Repeated => Left(s, kind) = s
         /\ kind \in Repeated => /\ Len(Left(s, kind)) = Len(s) - 1
                                 /\ \A i \in 1..(Len(s) - 1) : Left(s, kind)[i] = s[i] /\ i \in 1..Len(s)
<1>1. CASE kind \in Repeated
 <2> DEFINE u == SubSeq(s, 1, Len(s) - 1)
 <2>1. 1 \in Nat /\ 1 <= Len(s) BY <1>1
 <2>2. Left(s, kind) = u BY <1>1 DEF Left, AllButLast
 <2>3. /\ u \in Seq(S) /\ Len(u) = Len(s) - 1
       /\ \A i \in 1..(Len(s) - 1) : u[i] = s[i] /\ i \in 1..Len(s)
   BY <2>1, CutFacts
 <2> HIDE DEF u
 <2> QED BY <1>1, <2>2, <2>3
<1>2. CASE kind \notin Repeated BY <1>2 DEF Left
<1> QED BY <1>1, <1>2

\* The statements that stay open have not changed.
Remains(u, o, D) ==
  /\ Len(u) = 2 * (D - 1) - 1
  /\ \A d \in 1..(D - 1) : Blk(u, d) = Blk(o, d)
  /\ \A d \in 1..(D - 2) : Ctx(u, d) = Ctx(o, d)

LEMMA RemainsOf ==
  ASSUME NEW S, NEW o \in Seq(S), NEW D \in Nat, D > 1, Len(o) = 2 * D - 1
  PROVE  Outside(o) \in Seq(S) /\ Remains(Outside(o), o, D)
<1> DEFINE u == Outside(o)
<1>1. 2 \in Nat /\ 2 <= Len(o) OBVIOUS
<1>2. /\ u \in Seq(S) /\ Len(u) = Len(o) - 2
      /\ \A i \in 1..(Len(o) - 2) : u[i] = o[i]
  BY <1>1, CutFacts DEF Outside
<1> HIDE DEF u
<1>3. \A d \in 1..(D - 1) : 2 * d - 1 \in 1..(Len(o) - 2) OBVIOUS
<1>4. \A d \in 1..(D - 2) : 2 * d \in 1..(Len(o) - 2) OBVIOUS
<1>5. Len(u) = 2 * (D - 1) - 1 BY <1>2
<1> QED BY <1>2, <1>3, <1>4, <1>5 DEF Blk, Ctx, u, Remains

\* The innermost statement with a block, and its loop.
Inner(K, o) == Ctx(o, K.depth - 1)

LEMMA LastLoop ==
  ASSUME NEW K, NEW o, NEW q, K \in Plans, Nests(K, o, q), K.depth > 1, Inner(K, o).kind \in Repeated
  PROVE  /\ Len(K.loop) > 0 /\ Len(K.loop) = Len(q) /\ Len(K.loop) \in Nat
         /\ K.loop[Len(K.loop)] = K.depth - 1
<1>1. K.depth \in Nat /\ K.loop \in Seq(Nat) /\ Len(K.loop) \in Nat BY PlanFacts
<1>2. K.depth - 1 \in 1..(K.depth - 1) BY <1>1
<1>3. PICK k \in 1..Len(K.loop) : K.loop[k] = K.depth - 1 BY <1>2 DEF Nests, Inner
<1>4. k = Len(K.loop)
 <2>1. SUFFICES ASSUME k < Len(K.loop) PROVE FALSE BY <1>1, <1>3
 <2>2. Len(K.loop) \in 1..Len(K.loop) BY <1>1, <1>3
 <2>3. K.loop[k] < K.loop[Len(K.loop)] /\ K.loop[Len(K.loop)] \in 1..(K.depth - 1)
   BY <2>1, <2>2, <1>3 DEF Nests
 <2> QED BY <2>3, <1>1, <1>3
<1> QED BY <1>1, <1>3, <1>4 DEF Nests

LEMMA CtxsClose ==
  ASSUME NEW G, NEW H, NEW P, NEW N, Good(G), Good(H), Grows(G, H, P, N), Calm(G, H, {}),
         \A a \in N : ~(a <= Len(G.code)),
         NEW K, NEW S, NEW o \in Seq(S), NEW Q, NEW q \in Seq(Q), Ctxs(G, K, o, q, {}), K.depth > 1,
         \A a \in P : Open_jump(G, a),
         \A a : Open_jump(G, a) => (a \in P <=> K.own[a][1] = K.depth - 1),
         NEW t \in Nat \ {0},
         Inner(K, o).kind = "for" =>
           \A a : Open_jump(G, a) /\ K.own[a] = <<K.depth - 1, "out">> => H.code[a].arg = t,
         NEW f \in [Nat -> Nat \X Ways], \A a : Open_jump(G, a) /\ a \notin P => f[a] = K.own[a]
  PROVE  Ctxs(H, Shallower(K, Inner(K, o).kind, f), Outside(o), Left(q, Inner(K, o).kind), N)
<1> DEFINE D == K.depth
           kind == Inner(K, o).kind
           J == Shallower(K, kind, f)
           u == Outside(o)
           w == Left(q, kind)
<1>1. /\ K \in Plans /\ Nests(K, o, q) /\ Links(G, K, o) /\ Rings(K, o, q) /\ Levels(K, o)
      /\ Jumps(G, K, o, q, {}) /\ Shapes(G, K, o)
  BY DEF Ctxs
<1>0. D = K.depth /\ kind = Ctx(o, D - 1).kind BY DEF Inner
<1>2. /\ D \in Nat /\ D > 1 /\ D - 1 \in Nat \ {0} /\ D - 1 \in Nat /\ Len(o) = 2 * D - 1 /\ K.loop \in Seq(Nat)
      /\ Len(K.loop) = Len(q) /\ Len(K.loop) \in Nat
      /\ (D - 1) - 1 = D - 2
 <2>1. D \in Nat /\ K.loop \in Seq(Nat) /\ Len(K.loop) \in Nat BY <1>1, PlanFacts
 <2>2. D > 1 OBVIOUS
 <2>3. \A n \in Nat : n > 1 => n - 1 \in Nat \ {0} /\ n - 1 \in Nat /\ (n - 1) - 1 = n - 2 OBVIOUS
 <2> QED BY <2>1, <2>2, <2>3, <1>1 DEF Nests
<1>3. u \in Seq(S) /\ Remains(u, o, D)
 <2> HIDE DEF D
 <2>1. o \in Seq(S) OBVIOUS
 <2> QED BY <2>1, <1>2, RemainsOf
<1>4. /\ Len(u) = 2 * (D - 1) - 1
      /\ \A d \in 1..(D - 1) : Blk(u, d) = Blk(o, d)
      /\ \A d \in 1..(D - 2) : Ctx(u, d) = Ctx(o, d)
  BY <1>3 DEF Remains
<1>5. kind \in Repeated => Len(K.loop) > 0 /\ K.loop[Len(K.loop)] = D - 1 BY <1>1, LastLoop
<1>6. /\ J.depth = D - 1 /\ J.base = K.base /\ J.start = K.start /\ J.own = f
      /\ J.loop = Left(K.loop, kind)
  BY DEF Shallower
<1>7. /\ Left(K.loop, kind) \in Seq(Nat)
      /\ kind \notin Repeated => J.loop = K.loop /\ w = q
      /\ kind \in Repeated => /\ Len(J.loop) = Len(K.loop) - 1 /\ Len(w) = Len(q) - 1
                              /\ \A i \in 1..(Len(K.loop) - 1) : /\ J.loop[i] = K.loop[i] /\ w[i] = q[i]
                                                                /\ i \in 1..Len(K.loop)
 <2>1. q \in Seq(Q) OBVIOUS
 <2>2. kind \in Repeated => Len(K.loop) > 0 /\ Len(q) > 0 BY <1>2, <1>5
 <2> HIDE DEF J, kind
 <2>3. /\ Left(K.loop, kind) \in Seq(Nat)
       /\ kind \notin Repeated => Left(K.loop, kind) = K.loop
       /\ kind \in Repeated => /\ Len(Left(K.loop, kind)) = Len(K.loop) - 1
                               /\ \A i \in 1..(Len(K.loop) - 1) : Left(K.loop, kind)[i] = K.loop[i] /\ i \in 1..Len(K.loop)
   BY <1>2, <2>2, LeftFacts
 <2>4. /\ kind \notin Repeated => w = q
       /\ kind \in Repeated => /\ Len(w) = Len(q) - 1
                               /\ \A i \in 1..(Len(q) - 1) : w[i] = q[i]
   BY <2>1, <2>2, LeftFacts
 <2> QED BY <2>3, <2>4, <1>2, <1>6
<1>8. J \in Plans
 <2>1. /\ K.base \in [Nat -> Layouts] /\ K.start \in [Nat -> Layouts]
       /\ f \in [Nat -> Nat \X Ways] /\ Left(K.loop, kind) \in Seq(Nat)
   BY <1>1, <1>7 DEF Plans
 <2> HIDE DEF D, kind
 <2>2. D - 1 \in Nat \ {0} BY <1>2
 <2>3. J = [depth |-> D - 1, base |-> K.base, start |-> K.start, own |-> f, loop |-> Left(K.loop, kind)]
   BY DEF Shallower, D
 <2> HIDE DEF J
 <2> QED BY <2>1, <2>2, <2>3 DEF Plans
<1> HIDE DEF D, J, u, w, kind
<1>9. \A d \in 1..(D - 2) : d \in 1..(D - 1) /\ d \in 1..D /\ d + 1 \in 1..(D - 1) /\ d # D - 1 BY <1>2
<1>90. /\ \A n \in Nat : \A k \in 1..(n - 1) : k < n /\ n \in 1..n /\ k \in 1..n
       /\ \A n \in Nat : \A x \in 1..(n - 1) : x # n - 1 => x \in 1..(n - 2)
       /\ \A n \in Nat : ~(n < n)
 <2>1. \A n \in Nat : \A k \in 1..(n - 1) : k < n /\ n \in 1..n /\ k \in 1..n OBVIOUS
 <2>2. \A n \in Nat : \A x \in 1..(n - 1) : x # n - 1 => x \in 1..(n - 2) OBVIOUS
 <2>3. \A n \in Nat : ~(n < n) OBVIOUS
 <2> QED BY ONLY <2>1, <2>2, <2>3
<1>10. ASSUME NEW k \in 1..Len(w)
       PROVE  k \in 1..Len(K.loop) /\ k \in 1..Len(q) /\ J.loop[k] = K.loop[k] /\ w[k] = q[k] /\ K.loop[k] \in 1..(D - 2)
 <2>1. k \in 1..Len(K.loop) /\ k \in 1..Len(q) /\ J.loop[k] = K.loop[k] /\ w[k] = q[k] /\ K.loop[k] \in 1..(D - 1)
       /\ Ctx(o, K.loop[k]).kind \in Repeated
   BY <1>7, <1>2, <1>1, <1>0 DEF Nests
 <2>2. K.loop[k] # D - 1
  <3>1. CASE kind \in Repeated
   <4>1. k < Len(K.loop) /\ Len(K.loop) \in 1..Len(K.loop) BY <3>1, <1>7, <1>2, <1>90
   <4>2. K.loop[k] < K.loop[Len(K.loop)] BY <4>1, <2>1, <1>1 DEF Nests
   <4>3. K.loop[Len(K.loop)] = D - 1 /\ D - 1 \in Nat BY <3>1, <1>5, <1>2
   <4>4. ASSUME K.loop[k] = D - 1 PROVE FALSE BY <4>2, <4>3, <4>4
   <4> QED BY <4>4
  <3>2. CASE kind \notin Repeated BY <3>2, <2>1, <1>0
  <3> QED BY <3>1, <3>2
 <2> QED BY <2>1, <2>2, <1>2, <1>90
<1>11. Len(J.loop) = Len(w) /\ Len(w) \in Nat /\ Len(w) <= Len(K.loop)
       /\ \A k \in 1..Len(K.loop) : k \in 1..Len(w) \/ (kind \in Repeated /\ k = Len(K.loop))
 <2>1. CASE kind \in Repeated
  <3>1. Len(J.loop) = Len(K.loop) - 1 /\ Len(w) = Len(K.loop) - 1 BY <2>1, <1>7, <1>2
  <3>2. Len(K.loop) \in Nat /\ Len(K.loop) > 0 BY <2>1, <1>2, <1>5
  <3>3. \A n \in Nat : \A m \in Nat : n > 0 /\ m = n - 1 =>
          m <= n /\ \A k \in 1..n : k \in 1..m \/ k = n
    OBVIOUS
  <3>4. Len(w) \in Nat
   <4>1. \A n \in Nat : n > 0 => n - 1 \in Nat OBVIOUS
   <4> QED BY <3>1, <3>2, <4>1
  <3>5. Len(w) <= Len(K.loop) /\ \A k \in 1..Len(K.loop) : k \in 1..Len(w) \/ k = Len(K.loop)
    BY <3>1, <3>2, <3>3, <3>4
  <3> QED BY <3>1, <3>4, <3>5, <2>1
 <2>2. CASE kind \notin Repeated
  <3>1. Len(J.loop) = Len(K.loop) /\ Len(w) = Len(K.loop) BY <2>2, <1>7, <1>2
  <3>2. Len(K.loop) \in Nat BY <1>2
  <3>3. Len(K.loop) <= Len(K.loop) BY <3>2
  <3> QED BY <3>1, <3>2, <3>3, <2>2
 <2> QED BY <2>1, <2>2
<1>12. Nests(J, u, w)
 <2>1. \A d \in 1..(D - 1) : Blk(u, d).kind = IF d = 1 THEN "program" ELSE "block"
  <3>1. \A d \in 1..(D - 1) : d \in 1..D BY <1>2
  <3> QED BY <3>1, <1>1, <1>4, <1>0 DEF Nests
 <2>2. \A d \in 1..(D - 2) : Ctx(u, d).kind \in StmtKinds BY <1>1, <1>4, <1>9, <1>0 DEF Nests
 <2>3. \A k \in 1..Len(J.loop) : J.loop[k] \in 1..(D - 2) /\ Ctx(u, J.loop[k]).kind \in Repeated
  <3> SUFFICES ASSUME NEW k \in 1..Len(w) PROVE J.loop[k] \in 1..(D - 2) /\ Ctx(u, J.loop[k]).kind \in Repeated
    BY <1>11
  <3>1. k \in 1..Len(K.loop) /\ J.loop[k] = K.loop[k] /\ K.loop[k] \in 1..(D - 2) BY <1>10
  <3> QED BY <3>1, <1>1, <1>4 DEF Nests
 <2>4. \A j, k \in 1..Len(J.loop) : j < k => J.loop[j] < J.loop[k]
  <3> SUFFICES ASSUME NEW j \in 1..Len(w), NEW k \in 1..Len(w), j < k PROVE J.loop[j] < J.loop[k]
    BY <1>11
  <3>1. j \in 1..Len(K.loop) /\ J.loop[j] = K.loop[j] /\ k \in 1..Len(K.loop) /\ J.loop[k] = K.loop[k]
    BY <1>10
  <3> QED BY <3>1, <1>1 DEF Nests
 <2>5. ASSUME NEW d \in 1..(D - 2), Ctx(u, d).kind \in Repeated PROVE \E k \in 1..Len(J.loop) : J.loop[k] = d
  <3>1. d \in 1..(D - 1) /\ Ctx(o, d).kind \in Repeated BY <2>5, <1>4, <1>9
  <3>2. PICK k \in 1..Len(K.loop) : K.loop[k] = d BY <3>1, <1>1, <1>0 DEF Nests
  <3>3. ~(kind \in Repeated /\ k = Len(K.loop)) BY <3>2, <1>5, <1>9
  <3>4. k \in 1..Len(w) BY <3>2, <3>3, <1>11
  <3> QED BY <3>2, <3>4, <1>10, <1>11
 <2>6. J.base[1] = Bottom BY <1>1, <1>6 DEF Nests
 <2> QED BY <2>1, <2>2, <2>3, <2>4, <2>5, <2>6, <1>2, <1>4, <1>6, <1>11 DEF Nests
<1>13. Links(H, J, u)
 <2> SUFFICES ASSUME NEW d \in 1..(D - 2)
              PROVE  Fits(H, K.base[d], K.start[d], K.base[d + 1], Ctx(u, d), Blk(u, d), Blk(u, d + 1))
   BY <1>2, <1>6 DEF Links
 <2>1. Fits(G, K.base[d], K.start[d], K.base[d + 1], Ctx(o, d), Blk(o, d), Blk(o, d + 1))
   BY <1>9, <1>1, <1>0 DEF Links
 <2>2. Fits(H, K.base[d], K.start[d], K.base[d + 1], Ctx(o, d), Blk(o, d), Blk(o, d + 1))
   BY <2>1, FitsGrows
 <2> QED BY <2>2, <1>4, <1>9
<1>14. Rings(J, u, w)
 <2> SUFFICES ASSUME NEW k \in 1..Len(w)
              PROVE  Ring(J.start[J.loop[k]], J.base[J.loop[k] + 1], Ctx(u, J.loop[k]), w[k])
   BY DEF Rings
 <2>1. k \in 1..Len(q) /\ J.loop[k] = K.loop[k] /\ w[k] = q[k] /\ K.loop[k] \in 1..(D - 2) BY <1>10
 <2>2. Ring(K.start[K.loop[k]], K.base[K.loop[k] + 1], Ctx(o, K.loop[k]), q[k]) BY <2>1, <1>1 DEF Rings
 <2> QED BY <2>1, <2>2, <1>4, <1>6
<1>15. Levels(J, u)
 <2> SUFFICES ASSUME NEW d \in 1..(D - 1), NEW e \in 1..(d - 1), Ctx(u, e).kind \in Repeated,
                     \A i \in (e + 1)..(d - 1) : Ctx(u, i).kind \notin Repeated \cup {"operand"}
              PROVE  Over(K.base[e + 1], K.base[d])
   BY <1>6 DEF Levels
 <2>1. d \in 1..D /\ e \in 1..(D - 2) /\ \A i \in (e + 1)..(d - 1) : i \in 1..(D - 2) BY <1>2
 <2>2. /\ Ctx(o, e).kind \in Repeated
       /\ \A i \in (e + 1)..(d - 1) : Ctx(o, i).kind \notin Repeated \cup {"operand"}
   BY <2>1, <1>4
 <2> QED BY <2>1, <2>2, <1>1, <1>0 DEF Levels
<1>16. ASSUME NEW a, Open_jump(H, a), a \notin N
       PROVE  /\ Open_jump(G, a) /\ a \notin P /\ H.code[a] = G.code[a] /\ H.at[a] = G.at[a]
              /\ f[a] = K.own[a] /\ K.own[a][1] \in 1..(D - 2)
              /\ Ahead(G.code[a].op, a, G.at[a], Goal(K, o, K.own[a]))
 <2>1. Open_jump(G, a) /\ a \notin P /\ H.code[a] = G.code[a] /\ H.at[a] = G.at[a]
  <3>1. Open_jump(G, a) /\ a \notin P BY <1>16 DEF Grows
  <3>2. a \in 1..Len(G.code) /\ G.code[a].op # "operand"
    BY <3>1 DEF Open_jump, Targeted, Branches, Advances
  <3>3. a \in DOMAIN G.at BY <3>2 DEF Good, Starts
  <3> QED BY <3>1, <3>2, <3>3 DEF Grows
 <2>2. K.own[a][1] \in 1..(D - 1) /\ Ahead(G.code[a].op, a, G.at[a], Goal(K, o, K.own[a]))
   BY <2>1, <1>1, <1>0 DEF Jumps
 <2>3. K.own[a][1] # D - 1 BY <2>1, <1>0
 <2>4. K.own[a][1] \in 1..(D - 2) BY <2>2, <2>3, <1>2, <1>90
 <2> QED BY <2>1, <2>2, <2>4
<1>17. ASSUME NEW d \in 1..(D - 2), NEW way, NEW X, Owns(G, K, {}, d, way, X)
       PROVE  Owns(H, J, N, d, way, X)
 <2>1. ASSUME NEW a \in P PROVE K.own[a] # <<d, way>>
  <3>1. K.own[a][1] = D - 1
   <4>1. Open_jump(G, a) OBVIOUS
   <4> QED BY <4>1, <1>0
  <3>2. ASSUME K.own[a] = <<d, way>> PROVE FALSE BY <3>2, <3>1, <1>9
  <3> QED BY <3>2
 <2>2. ASSUME NEW a, a \in X PROVE Open_jump(H, a) /\ a \notin N /\ f[a] = <<d, way>>
   BY <2>2, <1>17, <2>1, OpenStays DEF Owns
 <2>3. ASSUME NEW a, Open_jump(H, a), a \notin N, f[a] = <<d, way>> PROVE a \in X
   BY <2>3, <1>16, <1>17 DEF Owns
 <2> QED BY <2>2, <2>3, <1>6 DEF Owns
<1>18. Jumps(H, J, u, w, N)
 <2>1. ASSUME NEW a, Open_jump(H, a), a \notin N
       PROVE  f[a][1] \in 1..(D - 2) /\ Ahead(H.code[a].op, a, H.at[a], Goal(J, u, f[a]))
  <3> DEFINE x == K.own[a]
  <3>1. /\ H.code[a] = G.code[a] /\ H.at[a] = G.at[a] /\ f[a] = x /\ x[1] \in 1..(D - 2)
        /\ Ahead(G.code[a].op, a, G.at[a], Goal(K, o, x))
    BY <2>1, <1>16
  <3> HIDE DEF x
  <3>2. Goal(J, u, x) = Goal(K, o, x) BY <3>1, <1>4, <1>6 DEF Goal
  <3> QED BY <3>1, <3>2
 <2>2. ASSUME NEW d \in 1..(D - 2), Ctx(u, d).kind \notin Repeated
       PROVE  Owns(H, J, N, d, "out", Sites(Ctx(u, d))) /\ Owns(H, J, N, d, "in", {})
   BY <2>2, <1>1, <1>4, <1>9, <1>0, <1>17 DEF Jumps
 <2>3. ASSUME NEW k \in 1..Len(w)
       PROVE  LET d == J.loop[k]
              IN Owns(H, J, N, d, "out", Outs(Ctx(u, d), w[k])) /\ Owns(H, J, N, d, "in", Ins(Ctx(u, d), w[k]))
  <3> DEFINE d == K.loop[k]
  <3>1. k \in 1..Len(q) /\ J.loop[k] = d /\ w[k] = q[k] /\ d \in 1..(D - 2) BY <1>10
  <3>2. Owns(G, K, {}, d, "out", Outs(Ctx(o, d), q[k])) /\ Owns(G, K, {}, d, "in", Ins(Ctx(o, d), q[k]))
    BY <3>1, <1>1 DEF Jumps
  <3> HIDE DEF d
  <3>3. Owns(H, J, N, d, "out", Outs(Ctx(o, d), q[k])) /\ Owns(H, J, N, d, "in", Ins(Ctx(o, d), q[k]))
    BY <3>1, <3>2, <1>17
  <3> QED BY <3>1, <3>3, <1>4
 <2>4. J.depth - 1 = D - 2 BY <1>2, <1>6
 <2> QED BY <2>1, <2>2, <2>3, <2>4, <1>6 DEF Jumps
<1>19. Even(G, H, K, J, o, u)
 <2> SUFFICES ASSUME NEW e \in 1..(K.depth - 1), NEW a \in Nat, NEW b \in Nat, Ctx(o, e).kind = "for",
                     Open_jump(G, a), K.own[a] = <<e, "out">>, Open_jump(G, b), K.own[b] = <<e, "out">>
              PROVE  /\ H.code[a].arg = H.code[b].arg
                     /\ H.code[a].arg = 0 => /\ e \in 1..(J.depth - 1) /\ Ctx(u, e).kind = "for"
                                             /\ J.own[a] = K.own[a] /\ J.own[b] = K.own[b]
   BY DEF Even
 <2>3. e \in 1..(D - 1) /\ J.depth - 1 = D - 2 /\ J.own = f BY <1>0, <1>2, <1>6
 <2>1. CASE e = D - 1 BY <2>1, <1>0 DEF kind
 <2>2. CASE e \in 1..(D - 2)
  <3>1. K.own[a][1] = e /\ K.own[b][1] = e OBVIOUS
  <3>2. a \notin P /\ b \notin P BY <3>1, <2>2, <1>9, <1>0
  <3>3. H.code[a] = G.code[a] /\ H.code[b] = G.code[b] BY <3>2 DEF Grows, Open_jump
  <3> QED BY <3>2, <3>3, <2>2, <2>3, <1>4 DEF Open_jump
 <2> QED BY <2>1, <2>2, <2>3, <1>2, <1>90
<1>20. Shapes(H, J, u)
 <2>1. PICK X : Calm(G, H, X) /\ \A a : a \notin X OBVIOUS
 <2>2. \A a \in X : /\ H.code[a].op = "IterInit" => ForShape(H, a)
                    /\ H.code[a].op = "IterDrop" => BreakShape(H, J, u, a)
   BY <2>1
 <2>3. Good(G) /\ Good(H) /\ Grows(G, H, P, N) /\ \A a \in P : Open_jump(G, a) OBVIOUS
 <2>4. Shapes(G, K, o) BY <1>1
 <2> QED BY <2>1, <2>2, <2>3, <2>4, <1>19, ShapesGrow
<1>21. Ctxs(H, J, u, w, N) BY <1>8, <1>12, <1>13, <1>14, <1>15, <1>18, <1>20 DEF Ctxs
<1> QED BY <1>21 DEF J, u, w, kind

LEMMA TracksSame ==
  ASSUME NEW G, NEW l, Tracks(G, l), NEW m, DOMAIN m = LowFields,
         m.code = l.code, m.max_stack = l.max_stack, m.patched = l.patched
  PROVE  Tracks(G, m)
  BY DEF Tracks

\* An instruction without a target, and one with it.
Steady == {"Unit", "Push", "Call", "BinOp", "Pop", "Declare", "UnwindTo", "Checkpoint", "PopHandler", "Rotate",
           "Throw", "Return"}

LEMMA EmitsPlain ==
  ASSUME NEW G, NEW l, NEW H, NEW op \in Steady, NEW arg, NEW t, Emits(G, l, H, op, arg, t)
  PROVE  /\ Leads(G, l, H, emit(l, Instruction(op, arg)), t, {}, {}, {})
         /\ Len(H.code) = Len(G.code) + 1 /\ Len(G.code) \in Nat /\ H.room = G.room + 1
         /\ H.code[Len(G.code) + 1].op = op
<1>1. op \notin Targeted /\ op \notin {"IterInit", "IterDrop"}
  BY DEF Steady, Targeted, Branches, Advances
<1>2. Unpatched(op, arg, Len(G.code) + 1) = {} /\ IterSite(op, Len(G.code) + 1) = {} /\ width(op) = 1
  BY <1>1 DEF Unpatched, IterSite, width
<1>3. /\ Len(H.code) = Len(G.code) + 1 /\ Len(G.code) \in Nat /\ H.room = G.room + 1
      /\ H.code[Len(G.code) + 1] = [op |-> op, arg |-> arg]
  BY <1>2 DEF Emits, Follows
<1>4. Leads(G, l, H, emit(l, Instruction(op, arg)), t, {}, {}, {}) BY <1>2 DEF Emits
<1> QED BY <1>3, <1>4

LEMMA EmitsSite ==
  ASSUME NEW G, NEW l, NEW H, NEW op \in {"Jump", "JumpIfFalse", "JumpIfTrue", "PushHandler", "IterNextStore"},
         NEW t, Emits(G, l, H, op, 0, t)
  PROVE  /\ Leads(G, l, H, emit(l, Instruction(op, 0)), t, {}, {Len(G.code) + 1}, {})
         /\ Len(H.code) = Len(G.code) + 2 /\ Len(G.code) \in Nat /\ H.room = G.room + 1
         /\ Open_jump(H, Len(G.code) + 1) /\ H.code[Len(G.code) + 1].op = op
         /\ H.at[Len(G.code) + 1] = End(G) /\ Len(G.code) + 1 \in DOMAIN H.at
<1>1. op \in Targeted /\ op \notin {"IterInit", "IterDrop"} BY DEF Targeted, Branches, Advances
<1>2. /\ Unpatched(op, 0, Len(G.code) + 1) = {Len(G.code) + 1} /\ IterSite(op, Len(G.code) + 1) = {}
      /\ width(op) = 2
  BY <1>1 DEF Unpatched, IterSite, width
<1>3. /\ Len(G.code) \in Nat /\ Len(H.code) = Len(G.code) + 2
      /\ H.code[Len(G.code) + 1] = [op |-> op, arg |-> 0]
      /\ H.at[Len(G.code) + 1] = End(G) /\ H.room = G.room + 1
      /\ DOMAIN H.at = Starts(H.code) \cup {Len(H.code) + 1}
      /\ Starts(H.code) = Starts(G.code) \cup {Len(G.code) + 1}
  BY <1>2 DEF Emits, Follows
<1>4. Open_jump(H, Len(G.code) + 1) BY <1>1, <1>3 DEF Open_jump
<1>5. Leads(G, l, H, emit(l, Instruction(op, 0)), t, {}, {Len(G.code) + 1}, {}) BY <1>2 DEF Emits
<1>6. Len(G.code) + 1 \in DOMAIN H.at BY <1>3
<1> QED BY <1>3, <1>4, <1>5, <1>6

LEMMA EmitsJump ==
  ASSUME NEW G, NEW l, NEW H, NEW op \in {"Jump", "JumpIfFalse", "JumpIfTrue"}, NEW arg \in Nat \ {0},
         NEW t, Emits(G, l, H, op, arg, t)
  PROVE  /\ Leads(G, l, H, emit(l, Instruction(op, arg)), t, {}, {}, {})
         /\ Len(H.code) = Len(G.code) + 2 /\ Len(G.code) \in Nat /\ H.room = G.room + 1
<1>1. op \in Targeted /\ op \notin {"IterInit", "IterDrop"} BY DEF Targeted, Branches, Advances
<1>2. Unpatched(op, arg, Len(G.code) + 1) = {} /\ IterSite(op, Len(G.code) + 1) = {} /\ width(op) = 2
  BY <1>1 DEF Unpatched, IterSite, width
<1> QED BY <1>2 DEF Emits, Follows

LEMMA EmitPair ==
  ASSUME NEW G, NEW l, Tracks(G, l), NEW x, NEW y, Emittable(x), Emittable(y)
  PROVE  emit(l, x \o y) = emit(emit(l, x), y) /\ Emittable(x \o y)
  BY EmitTwo, HeadsConcat DEF Tracks, Good

LEMMA EmitThree ==
  ASSUME NEW G, NEW l, Tracks(G, l), NEW x, NEW y, NEW z, Emittable(x), Emittable(y), Emittable(z)
  PROVE  emit(l, x \o y \o z) = emit(emit(emit(l, x), y), z) /\ Emittable(x \o y \o z)
BY EmitPair

LEMMA EmitFour ==
  ASSUME NEW G, NEW l, Tracks(G, l), NEW x, NEW y, NEW z, NEW u,
         Emittable(x), Emittable(y), Emittable(z), Emittable(u)
  PROVE  emit(l, x \o y \o z \o u) = emit(emit(emit(emit(l, x), y), z), u)
BY EmitThree, EmitPair

LEMMA OneEmittable ==
  ASSUME NEW op \in Emitted, NEW arg \in Nat
  PROVE  Emittable(Instruction(op, arg))
  BY EmittedOps, InstructionEmittable

\* The block in which lowering is has come on.
LEMMA CtxsSame ==
  ASSUME NEW G, NEW K, NEW o, NEW u, NEW q, Ctxs(G, K, o, q, {}), Len(u) = Len(o),
         \A i \in 1..(Len(o) - 1) : u[i] = o[i],
         u[Len(o)].kind = o[Len(o)].kind, u[Len(o)].depth = o[Len(o)].depth, u[Len(o)].wants = o[Len(o)].wants
  PROVE  Ctxs(G, K, u, q, {})
<1> DEFINE D == K.depth
<1>0. D = K.depth OBVIOUS
<1>1. /\ K \in Plans /\ Nests(K, o, q) /\ Links(G, K, o) /\ Rings(K, o, q) /\ Levels(K, o)
      /\ Jumps(G, K, o, q, {}) /\ Shapes(G, K, o)
  BY DEF Ctxs
<1>2. D \in Nat /\ D > 0 /\ Len(o) = 2 * D - 1 BY <1>1, PlanFacts DEF Nests
<1> HIDE DEF D
<1>3. \A d \in 1..(D - 1) : /\ 2 * d \in 1..(2 * D - 1 - 1) /\ 2 * d - 1 \in 1..(2 * D - 1 - 1)
                            /\ d \in 1..D /\ d + 1 \in 1..D
                            /\ d + 1 \in 1..(D - 1) \/ d + 1 = D
  BY <1>2
<1>4. \A d \in 1..(D - 1) : Ctx(u, d) = Ctx(o, d) /\ Blk(u, d) = Blk(o, d) BY <1>2, <1>3 DEF Ctx, Blk
<1>5. \A d \in 1..D : /\ Blk(u, d).kind = Blk(o, d).kind /\ Blk(u, d).depth = Blk(o, d).depth
                      /\ Blk(u, d).wants = Blk(o, d).wants
  BY <1>2, <1>4 DEF Blk
<1>6. \A k \in 1..Len(q) : K.loop[k] \in 1..(D - 1) /\ Ctx(u, K.loop[k]) = Ctx(o, K.loop[k]) /\ k \in 1..Len(K.loop)
  BY <1>0, <1>1, <1>4 DEF Nests
<1>7. Nests(K, u, q) BY <1>0, <1>1, <1>2, <1>4, <1>5, <1>6 DEF Nests
<1>8. Links(G, K, u)
 <2> SUFFICES ASSUME NEW d \in 1..(D - 1)
              PROVE  Fits(G, K.base[d], K.start[d], K.base[d + 1], Ctx(u, d), Blk(u, d), Blk(u, d + 1))
   BY <1>0 DEF Links
 <2>1. Fits(G, K.base[d], K.start[d], K.base[d + 1], Ctx(o, d), Blk(o, d), Blk(o, d + 1))
   BY <1>0, <1>1 DEF Links
 <2>2. Fits(G, K.base[d], K.start[d], K.base[d + 1], Ctx(u, d), Blk(u, d), Blk(o, d + 1)) BY <2>1, <1>4
 <2>3. Blk(u, d + 1).depth = Blk(o, d + 1).depth /\ Blk(u, d + 1).wants = Blk(o, d + 1).wants
   BY <1>3, <1>5
 <2> QED BY <2>2, <2>3 DEF Fits
<1>9. Rings(K, u, q) BY <1>1, <1>6 DEF Rings
<1>10. Levels(K, u)
 <2> SUFFICES ASSUME NEW d \in 1..D, NEW e \in 1..(d - 1), Ctx(u, e).kind \in Repeated,
                     \A i \in (e + 1)..(d - 1) : Ctx(u, i).kind \notin Repeated \cup {"operand"}
              PROVE  Over(K.base[e + 1], K.base[d])
   BY <1>0 DEF Levels
 <2>1. e \in 1..(D - 1) /\ \A i \in (e + 1)..(d - 1) : i \in 1..(D - 1) BY <1>2
 <2>2. /\ Ctx(o, e).kind \in Repeated
       /\ \A i \in (e + 1)..(d - 1) : Ctx(o, i).kind \notin Repeated \cup {"operand"}
   BY <2>1, <1>4
 <2> QED BY <2>2, <1>0, <1>1 DEF Levels
<1>11. Jumps(G, K, u, q, {})
 <2>1. ASSUME NEW a, Open_jump(G, a)
       PROVE  K.own[a][1] \in 1..(D - 1) /\ Ahead(G.code[a].op, a, G.at[a], Goal(K, u, K.own[a]))
  <3> DEFINE x == K.own[a]
  <3>1. x[1] \in 1..(D - 1) /\ Ahead(G.code[a].op, a, G.at[a], Goal(K, o, x))
    BY <2>1, <1>0, <1>1 DEF Jumps
  <3> HIDE DEF x
  <3>2. Goal(K, u, x) = Goal(K, o, x) BY <3>1, <1>4 DEF Goal
  <3> QED BY <3>1, <3>2 DEF x
 <2>2. \A d \in 1..(D - 1) : Ctx(u, d).kind \notin Repeated =>
         Owns(G, K, {}, d, "out", Sites(Ctx(u, d))) /\ Owns(G, K, {}, d, "in", {})
   BY <1>0, <1>1, <1>4 DEF Jumps
 <2>3. \A k \in 1..Len(q) :
         /\ Owns(G, K, {}, K.loop[k], "out", Outs(Ctx(u, K.loop[k]), q[k]))
         /\ Owns(G, K, {}, K.loop[k], "in", Ins(Ctx(u, K.loop[k]), q[k]))
   BY <1>1, <1>6 DEF Jumps
 <2> QED BY <2>1, <2>2, <2>3, <1>0 DEF Jumps
<1>12. Shapes(G, K, u)
 <2>1. \A e \in 1..(K.depth - 1) : Ctx(u, e) = Ctx(o, e) BY <1>0, <1>4
 <2>2. ASSUME NEW p, NEW a, Pairs(G, K, o, p, a) PROVE Pairs(G, K, u, p, a) BY <2>1, <2>2 DEF Pairs
 <2> QED BY <2>2, <1>1 DEF Shapes, BreakShape
<1> QED BY <1>1, <1>7, <1>8, <1>9, <1>10, <1>11, <1>12 DEF Ctxs

\* What the statement that is being lowered has to leave.
Want(k) == IF k.last THEN k.wants ELSE "Effect"

Base(K) == K.base[K.depth]

Inmost(K, l) == Blk(l.open, K.depth)

\* A statement of the innermost block has begun.
Stands(G, K, b) ==
  /\ Tracks(G, b) /\ Ctxs(G, K, b.open, b.loops, {})
  /\ b.open \in Seq(Blocks \cup Opens) /\ b.loops \in Seq(Loops)
  /\ Base(K) \in Layouts /\ LayoutOK(G, Base(K)) /\ LayoutOK(G, Scoped(Base(K), b.slots))
  /\ b.slots \in Nat /\ Base(K).scope <= b.slots
  /\ End(G) = Scoped(Base(K), b.slots)
  /\ b.iters = Base(K).iters /\ b.handlers = Len(Base(K).handlers)
  /\ K.depth > 1 => Inmost(K, b).depth = Base(K).scope
  /\ Inmost(K, b).some
  /\ Inmost(K, b).last \in BOOLEAN /\ Inmost(K, b).wants \in Wants

LEMMA InmostIs ==
  ASSUME NEW G, NEW K, NEW o, NEW q, Ctxs(G, K, o, q, {})
  PROVE  LastOf(o) = Blk(o, K.depth) /\ Len(o) = 2 * K.depth - 1 /\ K.depth \in Nat /\ K.depth > 0 /\ Len(o) \in Nat /\ Len(o) > 0
BY PlanFacts DEF Ctxs, Nests, LastOf, Blk

LEMMA CtxsStay ==
  ASSUME NEW G, NEW H, Good(G), Good(H), Grows(G, H, {}, {}), Calm(G, H, {}),
         NEW K, NEW o, NEW q, Ctxs(G, K, o, q, {})
  PROVE  Ctxs(H, K, o, q, {})
<1>1. K \in Plans BY DEF Ctxs
<1>2. K.own \in [Nat -> Nat \X Ways] /\ [K EXCEPT !.own = K.own] = K BY <1>1 DEF Plans
<1>3. PICK X : Calm(G, H, X) /\ \A a : a \notin X OBVIOUS
<1>4. PICK N : Grows(G, H, {}, N) /\ (\A a : a \notin N) /\ N = {} OBVIOUS
<1>5. Ctxs(H, [K EXCEPT !.own = K.own], o, q, N) BY <1>4, <1>3, <1>2, CtxsGrow
<1> QED BY <1>2, <1>4, <1>5

LEMMA BegunFields ==
  ASSUME LowOK(low), Top.kind \in {"block", "program"}, NEW last \in BOOLEAN
  PROVE  LET l == IF Top.kind = "program" THEN emit(low, I("Checkpoint")) ELSE low
             b == Begun(last)
             n == Len(low.open)
         IN /\ DOMAIN b = LowFields
            /\ b.code = l.code /\ b.max_stack = l.max_stack /\ b.patched = l.patched
            /\ b.slots = low.slots /\ b.iters = low.iters /\ b.handlers = low.handlers /\ b.loops = low.loops
            /\ Len(b.open) = n /\ \A i \in 1..(n - 1) : b.open[i] = low.open[i]
            /\ b.open[n].kind = Top.kind /\ b.open[n].depth = Top.depth /\ b.open[n].wants = Top.wants
            /\ b.open[n].some = TRUE /\ b.open[n].last = last
            /\ b.open \in Seq(Blocks \cup Opens) /\ b.loops \in Seq(Loops)
<1> DEFINE l == IF Top.kind = "program" THEN emit(low, I("Checkpoint")) ELSE low
           k == Len(low.open)
           t == [low.open[k] EXCEPT !.some = TRUE, !.last = last]
           o == [low.open EXCEPT ![k] = t]
           m == Begun(last)
<1>1. DOMAIN low = LowFields /\ low.open \in Seq(Blocks \cup Opens)
      /\ k \in 1..k /\ k \in Nat /\ low.loops \in Seq(Loops)
  BY DEF LowOK, LowBase
<1>2. /\ DOMAIN l = LowFields /\ l.open = low.open /\ l.slots = low.slots /\ l.iters = low.iters
      /\ l.handlers = low.handlers /\ l.loops = low.loops
 <2>1. CASE Top.kind = "program"
  <3>1. l = emit(low, I("Checkpoint")) BY <2>1
  <3> HIDE DEF l
  <3> QED BY <3>1, <1>1 DEF emit, LowFields
 <2>2. CASE Top.kind # "program" BY <2>2, <1>1
 <2> QED BY <2>1, <2>2
<1> HIDE DEF l
<1>3. m = [l EXCEPT !.open = o, !.count = l.count + 1]
 <2>1. m = [l EXCEPT !.open[Len(l.open)].some = TRUE, !.open[Len(l.open)].last = last, !.count = @ + 1]
   BY DEF Begun, l
 <2> DEFINE u == [low.open EXCEPT ![k] = [low.open[k] EXCEPT !.some = TRUE]]
            v == [u EXCEPT ![k] = [u[k] EXCEPT !.last = last]]
 <2>2. m = [l EXCEPT !.open = v, !.count = l.count + 1] BY <2>1, <1>2
 <2>3. k \in DOMAIN low.open BY <1>1
 <2>4. u[k] = [low.open[k] EXCEPT !.some = TRUE] BY <2>3
 <2>5. [u[k] EXCEPT !.last = last] = t BY <2>4
 <2>6. v = o BY <2>3, <2>5
 <2> QED BY <2>2, <2>6
<1>4. /\ t \in Blocks /\ t.kind = Top.kind /\ t.depth = Top.depth /\ t.wants = Top.wants
      /\ t.some = TRUE /\ t.last = last
  BY TopType DEF Blocks
<1> HIDE DEF t
<1>5. /\ o \in Seq(Blocks \cup Opens) /\ Len(o) = k /\ o[k] = t
      /\ \A i \in 1..(k - 1) : o[i] = low.open[i]
  BY <1>1, <1>4
<1> HIDE DEF o
<1>6. /\ DOMAIN m = LowFields
      /\ m.code = l.code /\ m.max_stack = l.max_stack /\ m.patched = l.patched
      /\ m.slots = l.slots /\ m.iters = l.iters /\ m.handlers = l.handlers
      /\ m.loops = l.loops /\ m.open = o
  BY <1>2, <1>3 DEF LowFields
<1> HIDE DEF m
<1> QED BY <1>1, <1>2, <1>4, <1>5, <1>6 DEF l, m

LEMMA BegunSound ==
  ASSUME LowOK(low), LowSound(low), NEW kind, At(kind), NEW last \in BOOLEAN
  PROVE  \E G, K : Stands(G, K, Begun(last)) /\ Want(Inmost(K, Begun(last))) = Wanted(last)
<1> DEFINE b == Begun(last)
           n == Len(low.open)
           l == IF Top.kind = "program" THEN emit(low, I("Checkpoint")) ELSE low
<1>1. PICK G, K : Tracks(G, low) /\ Ctxs(G, K, low.open, low.loops, {}) /\ Reached(G, K, low)
  BY DEF LowSound
<1>2. Top.kind \in {"block", "program"} /\ ~Top.last BY DEF At
<1>3. /\ DOMAIN b = LowFields
      /\ b.code = l.code /\ b.max_stack = l.max_stack /\ b.patched = l.patched
      /\ b.slots = low.slots /\ b.iters = low.iters /\ b.handlers = low.handlers /\ b.loops = low.loops
      /\ Len(b.open) = n /\ \A i \in 1..(n - 1) : b.open[i] = low.open[i]
      /\ b.open[n].kind = Top.kind /\ b.open[n].depth = Top.depth /\ b.open[n].wants = Top.wants
      /\ b.open[n].some = TRUE /\ b.open[n].last = last
      /\ b.open \in Seq(Blocks \cup Opens) /\ b.loops \in Seq(Loops)
  BY <1>2, BegunFields
<1> HIDE DEF b
<1>4. n = 2 * K.depth - 1 /\ Top = Blk(low.open, K.depth) /\ Top = low.open[n]
  BY <1>1, InmostIs DEF Top, LastOf
<1>5. /\ LayoutOK(G, Base(K)) /\ LayoutOK(G, Scoped(Base(K), low.slots)) /\ Base(K).scope <= low.slots
      /\ End(G) = Scoped(Base(K), low.slots)
      /\ low.slots \in Nat /\ low.iters = Base(K).iters /\ low.handlers = Len(Base(K).handlers)
      /\ K.depth > 1 => Top.depth = Base(K).scope
  BY <1>2, <1>1, <1>4 DEF Valued, Reached, Base
<1>6. \E H : Leads(G, low, H, l, End(G), {}, {}, {})
 <2>1. CASE Top.kind = "program"
  <3>1. PICK H : Emits(G, low, H, "Checkpoint", 0, End(G)) BY <1>1, EmitCheckpoint
  <3>2. Leads(G, low, H, emit(low, Instruction("Checkpoint", 0)), End(G), {}, {}, {})
    BY <3>1, EmitsPlain DEF Steady
  <3> QED BY <3>2, <2>1 DEF I
 <2>2. CASE Top.kind # "program" BY <2>2, <1>1, LeadsSelf
 <2> QED BY <2>1, <2>2
<1>7. PICK H : Leads(G, low, H, l, End(G), {}, {}, {}) BY <1>6
<1> HIDE DEF l
<1>8. Good(G) /\ Good(H) /\ Grows(G, H, {}, {}) /\ Calm(G, H, {}) /\ End(H) = End(G) /\ Tracks(H, l) /\ CodeOK(H.code) /\ H.room \in Nat
  BY <1>1, <1>7, TracksFacts DEF Leads, Tracks
<1>9. Ctxs(H, K, low.open, low.loops, {}) BY <1>1, <1>8, CtxsStay
<1>10. Tracks(H, b) BY <1>3, <1>8, TracksSame
<1>11. Ctxs(H, K, b.open, b.loops, {}) BY <1>3, <1>4, <1>9, CtxsSame
<1>12. LayoutOK(H, Base(K)) /\ LayoutOK(H, Scoped(Base(K), b.slots)) /\ Base(K) \in Layouts
 <2>1. ASSUME NEW t, LayoutOK(G, t) PROVE LayoutOK(H, t) BY <2>1, <1>8, LayoutGrows
 <2>2. LayoutOK(H, Base(K)) /\ LayoutOK(H, Scoped(Base(K), low.slots)) BY <1>5, <2>1
 <2>3. Base(K) \in Layouts BY <2>2 DEF LayoutOK
 <2> QED BY <2>2, <2>3, <1>3
<1>13. Inmost(K, b) = b.open[n] /\ Top.wants \in Wants BY <1>4, <1>9, TopType DEF Inmost, Blk
<1>14. Stands(H, K, b) BY <1>3, <1>5, <1>8, <1>10, <1>11, <1>12, <1>13 DEF Stands
<1>15. Want(Inmost(K, b)) = Wanted(last) BY <1>3, <1>13 DEF Want, Wanted
<1> QED BY <1>14, <1>15 DEF b

LEMMA LayoutsStay ==
  ASSUME NEW G, NEW H, NEW P, NEW N, Good(G), Good(H), Grows(G, H, P, N), NEW t, LayoutOK(G, t)
  PROVE  LayoutOK(H, t)
BY LayoutGrows DEF Good

LEMMA StmtStops ==
  ASSUME NEW G, NEW K, NEW b, Stands(G, K, b), NEW H, NEW P, NEW N, Grows(G, H, P, N),
         NEW J, J.base = K.base, J.depth = K.depth,
         NEW m, Tracks(H, m), Ctxs(H, J, m.open, m.loops, {}),
         m.open = b.open, m.iters = b.iters, m.handlers = b.handlers,
         m.slots \in Nat, b.slots <= m.slots,
         End(H) = Valued(Scoped(Base(K), m.slots), Want(Inmost(K, b)))
  PROVE  LowSound(m)
<1>1. Base(J) = Base(K) /\ Inmost(J, m) = Inmost(K, b) BY DEF Base, Inmost
<1>2. Good(G) /\ Good(H) BY DEF Stands, Tracks
<1>3. LayoutOK(H, Base(K)) BY <1>2, LayoutsStay DEF Stands
<1>4. Base(K) \in Layouts /\ Base(K).scope \in Nat /\ Base(K).scope <= b.slots /\ b.slots \in Nat
  BY LayoutType DEF Stands
<1>5. Base(K).scope <= m.slots BY <1>4
<1>6. LayoutOK(H, Scoped(Base(K), m.slots)) BY <1>3, <1>5, ScopedLayout
<1>7. Reached(H, J, m) BY <1>1, <1>3, <1>5, <1>6 DEF Reached, Stands, Base, Inmost, Want
<1> QED BY <1>7 DEF LowSound

LEMMA StmtEnds ==
  ASSUME NEW G, NEW K, NEW b, Stands(G, K, b), NEW H, NEW l, Tracks(H, l), Grows(G, H, {}, {}), Calm(G, H, {}),
         Len(G.code) < Len(H.code),
         l.open = b.open, l.loops = b.loops, l.iters = b.iters, l.handlers = b.handlers,
         l.slots \in Nat, b.slots <= l.slots, End(H) = Plus(Scoped(Base(K), l.slots), 0)
  PROVE  LowSound(Lowered(l, Want(Inmost(K, b))))
<1> DEFINE wants == Want(Inmost(K, b))
           r == Scoped(Base(K), l.slots)
           k == [b EXCEPT !.slots = l.slots]
           m == Lowered(l, wants)
<1>1. wants \in Wants BY DEF Want, Stands, Wants
<1>2. Tracks(G, b) /\ DOMAIN b = LowFields /\ Good(G) /\ Good(H) BY DEF Stands, Tracks
<1>3. DOMAIN k = LowFields /\ k.code = b.code /\ k.max_stack = b.max_stack /\ k.patched = b.patched
      /\ k.slots = l.slots /\ k.iters = b.iters /\ k.handlers = b.handlers /\ k.loops = b.loops /\ k.open = b.open
  BY <1>2 DEF LowFields
<1> HIDE DEF k
<1>4. Tracks(G, k) BY <1>2, <1>3, TracksSame
<1>5. Alike(k, l) BY <1>3 DEF Alike
<1>6. LayoutOK(H, r) /\ End(H) = Plus(r, 0) BY <1>2, LayoutsStay, LayoutType, ScopedLayout DEF Stands
<1> HIDE DEF r, wants
<1>7. PICK H2 : Leads(G, k, H2, m, Valued(r, wants), {}, {}, {}) BY <1>1, <1>4, <1>5, <1>6, LoweredTracks
<1> HIDE DEF m
<1>8. /\ Tracks(H2, m) /\ Good(H2) /\ Grows(G, H2, {}, {}) /\ Calm(G, H2, {}) /\ End(H2) = Valued(r, wants)
      /\ m.slots = l.slots /\ m.iters = b.iters /\ m.handlers = b.handlers /\ m.loops = b.loops /\ m.open = b.open
  BY <1>3, <1>7 DEF Leads, Alike, Tracks
<1>9. Ctxs(H2, K, m.open, m.loops, {}) BY <1>2, <1>8, CtxsStay DEF Stands
<1>10. LowSound(m) BY <1>8, <1>9, StmtStops DEF r, wants
<1> QED BY <1>10 DEF m, wants

LEMMA ScopedTwice ==
  ASSUME NEW s \in Layouts, NEW m, NEW n
  PROVE  Scoped(Scoped(s, m), n) = Scoped(s, n)
  BY DEF Scoped, Layouts

\* Where a statement begins.
LEMMA StandsFacts ==
  ASSUME NEW G, NEW K, NEW b, Stands(G, K, b)
  PROVE  /\ Tracks(G, b) /\ Good(G) /\ K \in Plans
         /\ Len(G.code) \in Nat /\ b.slots \in Nat
         /\ LayoutOK(G, End(G)) /\ End(G) \in Layouts
         /\ End(G) = Scoped(Base(K), b.slots) /\ End(G).scope = b.slots
         /\ Scoped(End(G), End(G).scope) = End(G)
         /\ \A n \in Nat : Scoped(End(G), n) = Scoped(Base(K), n)
         /\ DOMAIN b = LowFields /\ CodeOK(b.code) /\ b.max_stack \in Nat /\ b.patched \in Nat
BY TracksFacts, ScopedType, ScopedTwice DEF Stands, Tracks, Ctxs, Good

LEMMA LeadsFacts ==
  ASSUME NEW G, NEW l, NEW H, NEW m, NEW t, NEW P, NEW N, NEW X, Leads(G, l, H, m, t, P, N, X), Tracks(G, l)
  PROVE  /\ Tracks(H, m) /\ Good(G) /\ Good(H) /\ End(H) = t /\ LayoutOK(H, t)
         /\ Grows(G, H, P, N) /\ Calm(G, H, X) /\ Len(H.code) \in Nat /\ Len(G.code) \in Nat
         /\ m.slots = l.slots /\ m.iters = l.iters /\ m.handlers = l.handlers
         /\ m.loops = l.loops /\ m.open = l.open
         /\ DOMAIN m = LowFields
         /\ \A s : LayoutOK(G, s) => LayoutOK(H, s)
BY TracksFacts, LayoutsStay DEF Leads, Tracks, Alike

(* The statements without blocks. *)
LEMMA StmtExprSound ==
  ASSUME LowOK(low), LowSound(low), Stmt_Expr
  PROVE  LowSound(low')
<1>1. PICK last \in Lasts : low' = Lowered(emit(Begun(last), I("Call")), Wanted(last))
  BY DEF Stmt_Expr, Lower
<1> DEFINE b == Begun(last)
           l == emit(b, Instruction("Call", 0))
<1>2. PICK G, K : Stands(G, K, b) /\ Want(Inmost(K, b)) = Wanted(last) BY BegunSound DEF Stmt_Expr, Lasts
<1>3. Tracks(G, b) /\ LayoutOK(G, End(G)) /\ End(G) = Scoped(Base(K), b.slots) /\ b.slots \in Nat
  BY <1>2, StandsFacts
<1>4. low' = Lowered(l, Wanted(last)) BY <1>1 DEF I
<1> HIDE DEF b
<1>5. PICK H : Emits(G, b, H, "Call", 0, Plus(End(G), 0)) BY <1>3, EmitPush
<1>6. Leads(G, b, H, l, Plus(End(G), 0), {}, {}, {}) /\ Len(H.code) = Len(G.code) + 1
  BY <1>5, EmitsPlain DEF Steady
<1> HIDE DEF l
<1>7. /\ Tracks(H, l) /\ Grows(G, H, {}, {}) /\ Calm(G, H, {}) /\ End(H) = Plus(End(G), 0) /\ Len(G.code) \in Nat
      /\ l.slots = b.slots /\ l.iters = b.iters /\ l.handlers = b.handlers /\ l.loops = b.loops /\ l.open = b.open
  BY <1>3, <1>6, LeadsFacts
<1>8. Len(G.code) < Len(H.code) /\ l.slots \in Nat /\ b.slots <= l.slots /\ End(H) = Plus(Scoped(Base(K), l.slots), 0)
  BY <1>3, <1>6, <1>7
<1>9. LowSound(Lowered(l, Want(Inmost(K, b)))) BY <1>2, <1>7, <1>8, StmtEnds
<1> QED BY <1>2, <1>4, <1>9

LEMMA StmtVarSound ==
  ASSUME LowOK(low), LowSound(low), Stmt_Var
  PROVE  LowSound(low')
<1>1. PICK last \in Lasts :
        LET l == emit(Begun(last), I("Push") \o I("Declare") \o I("Unit"))
        IN low' = Lowered([l EXCEPT !.slots = @ + 1], Wanted(last))
  BY DEF Stmt_Var, Lower
<1> DEFINE b == Begun(last)
           l1 == emit(b, Instruction("Push", 0))
           l2 == emit(l1, Instruction("Declare", 0))
           l3 == emit(l2, Instruction("Unit", 0))
           m == [l3 EXCEPT !.slots = l3.slots + 1]
<1>2. PICK G, K : Stands(G, K, b) /\ Want(Inmost(K, b)) = Wanted(last) BY BegunSound DEF Stmt_Var, Lasts
<1>3. /\ Tracks(G, b) /\ LayoutOK(G, End(G)) /\ End(G) = Scoped(Base(K), b.slots) /\ b.slots \in Nat
      /\ End(G).scope = b.slots /\ End(G) \in Layouts
      /\ \A n \in Nat : Scoped(End(G), n) = Scoped(Base(K), n)
  BY <1>2, StandsFacts
<1>4. low' = Lowered(m, Wanted(last)) BY OneEmittable, <1>3, EmitThree, <1>1 DEF Emitted, I
<1> HIDE DEF b
<1> DEFINE T == End(G)
           t == Scoped(T, T.scope + 1)
<1>5. PICK H1 : Emits(G, b, H1, "Push", 0, Plus(T, 0)) BY <1>3, EmitPush
<1>6. Leads(G, b, H1, l1, Plus(T, 0), {}, {}, {}) /\ Len(H1.code) = Len(G.code) + 1
  BY <1>5, EmitsPlain DEF Steady
<1> HIDE DEF l1
<1>7. Tracks(H1, l1) /\ LayoutOK(H1, T) /\ End(H1) = Plus(T, 0) BY <1>3, <1>6, LeadsFacts
<1>8. PICK H2 : Emits(H1, l1, H2, "Declare", 0, t) BY <1>7, EmitDeclare
<1>9. Leads(H1, l1, H2, l2, t, {}, {}, {}) /\ Len(H2.code) = Len(H1.code) + 1
  BY <1>8, EmitsPlain DEF Steady
<1> HIDE DEF l2
<1>10. Tracks(H2, l2) /\ End(H2) = t BY <1>7, <1>9, LeadsFacts
<1>11. PICK H3 : Emits(H2, l2, H3, "Unit", 0, Plus(t, 0)) BY <1>10, EmitPush
<1>12. Leads(H2, l2, H3, l3, Plus(t, 0), {}, {}, {}) /\ Len(H3.code) = Len(H2.code) + 1
  BY <1>11, EmitsPlain DEF Steady
<1> HIDE DEF l3, t
<1>13. Leads(G, b, H3, l3, Plus(t, 0), {}, {}, {}) BY <1>3, <1>6, <1>9, <1>12, LeadsOn
<1>14. /\ Tracks(H3, l3) /\ Grows(G, H3, {}, {}) /\ Calm(G, H3, {}) /\ End(H3) = Plus(t, 0) /\ Len(G.code) \in Nat
       /\ l3.slots = b.slots /\ l3.iters = b.iters /\ l3.handlers = b.handlers /\ l3.loops = b.loops /\ l3.open = b.open
       /\ DOMAIN l3 = LowFields
  BY <1>3, <1>13, LeadsFacts
<1>15. /\ DOMAIN m = LowFields /\ m.code = l3.code /\ m.max_stack = l3.max_stack /\ m.patched = l3.patched
       /\ m.slots = b.slots + 1 /\ m.iters = b.iters /\ m.handlers = b.handlers /\ m.loops = b.loops /\ m.open = b.open
  BY <1>14 DEF LowFields
<1> HIDE DEF m
<1>16. Tracks(H3, m) BY <1>14, <1>15, TracksSame
<1>17. Len(G.code) < Len(H3.code) /\ m.slots \in Nat /\ b.slots <= m.slots
  BY <1>3, <1>6, <1>9, <1>12, <1>14, <1>15
<1>18. End(H3) = Plus(Scoped(Base(K), m.slots), 0) BY <1>3, <1>14, <1>15 DEF t
<1>19. LowSound(Lowered(m, Want(Inmost(K, b)))) BY <1>2, <1>14, <1>15, <1>16, <1>17, <1>18, StmtEnds
<1> QED BY <1>2, <1>4, <1>19

LEMMA StmtReturnSound ==
  ASSUME LowOK(low), LowSound(low), NEW kind, NEW op \in {"Throw", "Return"}, Stmt_Return(kind, op)
  PROVE  LowSound(low')
<1>1. PICK last \in Lasts : low' = Lowered(emit(Begun(last), I("Push") \o I(op) \o I("Unit")), Wanted(last))
  BY DEF Stmt_Return, Lower
<1> DEFINE b == Begun(last)
           l1 == emit(b, Instruction("Push", 0))
           l2 == emit(l1, Instruction(op, 0))
           l3 == emit(l2, Instruction("Unit", 0))
<1>2. PICK G, K : Stands(G, K, b) /\ Want(Inmost(K, b)) = Wanted(last)
  BY BegunSound DEF Stmt_Return, Lasts
<1>3. /\ Tracks(G, b) /\ LayoutOK(G, End(G)) /\ End(G) = Scoped(Base(K), b.slots) /\ b.slots \in Nat
      /\ End(G) \in Layouts
  BY <1>2, StandsFacts
<1>4. low' = Lowered(l3, Wanted(last)) BY OneEmittable, <1>3, EmitThree, <1>1 DEF Emitted, I
<1> HIDE DEF b
<1> DEFINE T == End(G)
<1>5. PICK H1 : Emits(G, b, H1, "Push", 0, Plus(T, 0)) BY <1>3, EmitPush
<1>6. Leads(G, b, H1, l1, Plus(T, 0), {}, {}, {}) /\ Len(H1.code) = Len(G.code) + 1
  BY <1>5, EmitsPlain DEF Steady
<1> HIDE DEF l1
<1>7. Tracks(H1, l1) /\ LayoutOK(H1, T) /\ End(H1) = Plus(T, 0) BY <1>3, <1>6, LeadsFacts
<1>8. PICK H2 : Emits(H1, l1, H2, op, 0, T) BY <1>7, EmitEnd
<1>9. Leads(H1, l1, H2, l2, T, {}, {}, {}) /\ Len(H2.code) = Len(H1.code) + 1
  BY <1>8, EmitsPlain DEF Steady
<1> HIDE DEF l2
<1>10. Tracks(H2, l2) /\ End(H2) = T BY <1>7, <1>9, LeadsFacts
<1>11. PICK H3 : Emits(H2, l2, H3, "Unit", 0, Plus(T, 0)) BY <1>10, EmitPush
<1>12. Leads(H2, l2, H3, l3, Plus(T, 0), {}, {}, {}) /\ Len(H3.code) = Len(H2.code) + 1
  BY <1>11, EmitsPlain DEF Steady
<1> HIDE DEF l3
<1>13. Leads(G, b, H3, l3, Plus(T, 0), {}, {}, {}) BY <1>3, <1>6, <1>9, <1>12, LeadsOn
<1>14. /\ Tracks(H3, l3) /\ Grows(G, H3, {}, {}) /\ Calm(G, H3, {}) /\ End(H3) = Plus(T, 0) /\ Len(G.code) \in Nat
       /\ l3.slots = b.slots /\ l3.iters = b.iters /\ l3.handlers = b.handlers /\ l3.loops = b.loops /\ l3.open = b.open
  BY <1>3, <1>13, LeadsFacts
<1>15. /\ Len(G.code) < Len(H3.code) /\ l3.slots \in Nat /\ b.slots <= l3.slots
       /\ End(H3) = Plus(Scoped(Base(K), l3.slots), 0)
  BY <1>3, <1>6, <1>9, <1>12, <1>14
<1>16. LowSound(Lowered(l3, Want(Inmost(K, b)))) BY <1>2, <1>14, <1>15, StmtEnds
<1> QED BY <1>2, <1>4, <1>16

(* The statements with blocks begin. *)
Assign(K, N, x) == [a \in Nat |-> IF a \in N THEN x ELSE K.own[a]]

Given(K, N, x) == [K EXCEPT !.own = Assign(K, N, x)]

LEMMA CtxsGiven ==
  ASSUME NEW G, NEW H, NEW N, Good(G), Good(H), Grows(G, H, {}, N), \A a \in N : ~(a <= Len(G.code)),
         NEW K, NEW o, NEW q, Ctxs(G, K, o, q, {}), NEW x \in Nat \X Ways,
         NEW X, Calm(G, H, X),
         \A a \in X : /\ H.code[a].op = "IterInit" => ForShape(H, a)
                      /\ H.code[a].op = "IterDrop" => BreakShape(H, Given(K, N, x), o, a)
  PROVE  Ctxs(H, Given(K, N, x), o, q, N)
<1>1. K \in Plans BY DEF Ctxs
<1> DEFINE f == Assign(K, N, x)
<1>2. f \in [Nat -> Nat \X Ways] /\ \A a \in Nat : f[a] = IF a \in N THEN x ELSE K.own[a]
  BY <1>1 DEF Plans, Assign
<1>3. ASSUME NEW a, Open_jump(G, a) PROVE f[a] = K.own[a]
 <2>1. Len(G.code) \in Nat BY CodeLen DEF Good
 <2>2. a \in Nat /\ a <= Len(G.code) BY <2>1, <1>3 DEF Open_jump
 <2> QED BY <2>2, <1>2
<1>4. Given(K, N, x) = [K EXCEPT !.own = f] BY DEF Given
<1> HIDE DEF f
<1>5. Good(G) /\ Good(H) /\ Grows(G, H, {}, N) /\ (\A a \in N : ~(a <= Len(G.code))) /\ Calm(G, H, X)
  OBVIOUS
<1>6. \A a \in X : /\ H.code[a].op = "IterInit" => ForShape(H, a)
                   /\ H.code[a].op = "IterDrop" => BreakShape(H, [K EXCEPT !.own = f], o, a)
  BY <1>4
<1>7. Ctxs(G, K, o, q, {}) /\ \A a : Open_jump(G, a) => f[a] = K.own[a] BY <1>3
<1>8. Ctxs(H, [K EXCEPT !.own = f], o, q, N) BY <1>2, <1>5, <1>6, <1>7, CtxsGrow
<1> QED BY <1>4, <1>8

OpensGiven(H, J, o, q, N, l, c, wants, must, p, T, U, way) ==
  /\ o \in Seq(Blocks \cup Opens) /\ q \in Seq(Loops) /\ Ctxs(H, J, o, q, N) /\ Tracks(H, l)
  /\ c \in Opens /\ wants \in Wants /\ must \in BOOLEAN /\ way \in Ways
  /\ l.open = o /\ l.loops = (IF c.kind \in Repeated THEN Append(q, p) ELSE q) /\ l.slots \in Nat
  /\ Fits(H, Base(J), T, U, c, Blk(o, J.depth), Block("block", wants, l.slots, must))
  /\ \A a \in N : /\ Open_jump(H, a) /\ J.own[a] = <<J.depth, way>>
                  /\ Ahead(H.code[a].op, a, H.at[a], Aim(c, T, U, way))
  /\ Awaits(c, p, way, N) /\ (c.kind \in Repeated => Ring(T, U, c, p))
  /\ (c.kind \in Repeated \cup {"operand"} \/ Over(Base(J), U))
  /\ End(H) = U /\ l.iters = U.iters /\ l.handlers = Len(U.handlers)

LEMMA OpensNamed ==
  ASSUME NEW H, NEW J, NEW o, NEW q, NEW N, NEW l, NEW c, NEW wants, NEW must, NEW p, NEW T, NEW U, NEW way,
         OpensGiven(H, J, o, q, N, l, c, wants, must, p, T, U, way)
  PROVE  LowSound(Opened(l, c, wants, must))
<1> USE DEF OpensGiven
<1> DEFINE n == Block("block", wants, l.slots, must)
           m == Opened(l, c, wants, must)
           u == With(o, c, n)
           M == Deeper(J, T, U, c.kind)
           S == Blocks \cup Opens
<1>1. n \in Blocks /\ n.kind = "block" /\ ~n.some /\ ~n.last /\ n.depth = l.slots BY DEF Block, Blocks
<1>2. DOMAIN l = LowFields /\ Good(H) BY DEF Tracks
<1>3. /\ DOMAIN m = LowFields /\ m.code = l.code /\ m.max_stack = l.max_stack /\ m.patched = l.patched
      /\ m.slots = l.slots /\ m.iters = l.iters /\ m.handlers = l.handlers /\ m.loops = l.loops /\ m.open = u
  BY <1>2 DEF Opened, LowFields, With
<1>4. Tracks(H, m)
 <2> HIDE DEF m
 <2> QED BY <1>3, TracksSame
<1> HIDE DEF m, n
<1>5. Ctxs(H, M, u, l.loops, {})
 <2>1. n \in S /\ c \in S /\ o \in Seq(S) /\ c.kind \in StmtKinds BY <1>1 DEF Opens
 <2>2. Fits(H, J.base[J.depth], T, U, c, Blk(o, J.depth), n) BY DEF Base, n
 <2>3. c.kind \in Repeated \cup {"operand"} \/ Over(J.base[J.depth], U) BY DEF Base
 <2> HIDE DEF S, M, u
 <2>4. n.kind = "block" /\ Good(H) /\ q \in Seq(Loops) /\ q = q BY <1>1, <1>2
 <2> QED BY <2>1, <2>2, <2>3, <2>4, CtxsOpen DEF M, u
<1>6. M.depth = J.depth + 1 /\ M.base[J.depth + 1] = U /\ U \in Layouts /\ J \in Plans /\ LayoutOK(H, U) /\ l.slots = U.scope
 <2>1. J \in Plans /\ T \in Layouts /\ U \in Layouts /\ LayoutOK(H, U) /\ l.slots = U.scope
   BY <1>1 DEF Ctxs, Fits, LayoutOK, n
 <2> QED BY <2>1, DeeperFacts
<1>7. Blk(u, J.depth + 1) = n
 <2>1. J.depth \in Nat /\ J.depth > 0 /\ Len(o) = 2 * J.depth - 1 BY <1>6, PlanFacts DEF Ctxs, Nests
 <2>2. c \in S /\ n \in S /\ o \in Seq(S) BY <1>1
 <2> HIDE DEF S, u
 <2>3. Holds(With(o, c, n), o, c, n, J.depth) BY <2>1, <2>2, SameCtxs
 <2> QED BY <2>3 DEF Holds, u
<1> HIDE DEF M, u
<1>8. Scoped(U, l.slots) = U BY <1>6 DEF Scoped, Layouts
<1>9. Reached(H, M, m) BY <1>6, LayoutType, <1>1, <1>3, <1>7, <1>8 DEF Valued, Reached
<1> QED BY <1>3, <1>4, <1>5, <1>9 DEF LowSound, m

LEMMA OpensSound ==
  ASSUME NEW H, NEW J, NEW o \in Seq(Blocks \cup Opens), NEW q \in Seq(Loops), NEW N, Ctxs(H, J, o, q, N),
         NEW l, Tracks(H, l), NEW c \in Opens, NEW wants \in Wants, NEW must \in BOOLEAN,
         l.open = o, NEW p, l.loops = (IF c.kind \in Repeated THEN Append(q, p) ELSE q),
         NEW T, NEW U, l.slots \in Nat,
         Fits(H, Base(J), T, U, c, Blk(o, J.depth), Block("block", wants, l.slots, must)),
         NEW way \in Ways,
         \A a \in N : /\ Open_jump(H, a) /\ J.own[a] = <<J.depth, way>>
                      /\ Ahead(H.code[a].op, a, H.at[a], Aim(c, T, U, way)),
         Awaits(c, p, way, N),
         c.kind \in Repeated => Ring(T, U, c, p),
         c.kind \in Repeated \cup {"operand"} \/ Over(Base(J), U),
         End(H) = U, l.iters = U.iters, l.handlers = Len(U.handlers)
  PROVE  LowSound(Opened(l, c, wants, must))
  BY OpensNamed DEF OpensGiven

LEMMA OverSelf ==
  ASSUME NEW s \in Layouts, NEW n \in Nat, s.scope <= n
  PROVE  Over(s, Scoped(s, n))
<1>1. s.handlers \in Seq(Regions) /\ s.scope \in Nat /\ Len(s.handlers) \in Nat BY LayoutType
<1>2. SubSeq(s.handlers, 1, Len(s.handlers)) = s.handlers BY <1>1, WholeCut
<1>3. /\ Scoped(s, n).stack = s.stack /\ Scoped(s, n).iters = s.iters
      /\ Scoped(s, n).scope = n /\ Scoped(s, n).handlers = s.handlers
  BY ScopedType
<1> HIDE DEF Scoped
<1>4. Len(s.handlers) <= Len(s.handlers) BY <1>1
<1> QED BY <1>1, <1>2, <1>3, <1>4 DEF Over

\* A statement with a block, for which code has been emitted.
FromGiven(G, K, b, H, l, t, N, X, way, J) ==
  /\ Stands(G, K, b)
  /\ Leads(G, b, H, l, t, {}, N, X)
  /\ \A a \in N : ~(a <= Len(G.code)) /\ a \in Nat
  /\ way \in Ways
  /\ J = Given(K, N, <<K.depth, way>>)
  /\ \A a \in X : /\ H.code[a].op = "IterInit" => ForShape(H, a)
                  /\ H.code[a].op = "IterDrop" => BreakShape(H, J, b.open, a)

LEMMA FromNamed ==
  ASSUME NEW G, NEW K, NEW b, NEW H, NEW l, NEW t, NEW N, NEW X, NEW way, NEW J,
         FromGiven(G, K, b, H, l, t, N, X, way, J)
  PROVE  /\ Ctxs(H, J, b.open, b.loops, N) /\ J.depth = K.depth /\ Base(J) = Base(K)
         /\ Blk(b.open, J.depth) = Inmost(K, b)
         /\ \A a \in N : J.own[a] = <<J.depth, way>>
         /\ b.open \in Seq(Blocks \cup Opens) /\ b.loops \in Seq(Loops) /\ b.slots \in Nat
         /\ End(G) \in Layouts /\ LayoutOK(H, End(G)) /\ End(G).scope = b.slots
         /\ Base(K).scope <= End(G).scope /\ End(G) = Scoped(Base(K), End(G).scope)
         /\ b.iters = End(G).iters /\ b.handlers = Len(End(G).handlers)
         /\ Inmost(K, b).some /\ Want(Inmost(K, b)) \in Wants
         /\ Over(Base(J), End(G))
         /\ l.open = b.open /\ l.loops = b.loops /\ l.slots = b.slots /\ l.iters = b.iters
         /\ l.handlers = b.handlers /\ DOMAIN l = LowFields /\ Tracks(H, l) /\ End(H) = t
         /\ K.depth \in Nat
<1> USE DEF FromGiven
<1>1. /\ Tracks(G, b) /\ Good(G) /\ K \in Plans /\ b.slots \in Nat /\ LayoutOK(G, End(G)) /\ End(G) \in Layouts
      /\ End(G) = Scoped(Base(K), b.slots) /\ End(G).scope = b.slots
  BY StandsFacts
<1>2. /\ Tracks(H, l) /\ Good(H) /\ End(H) = t /\ Grows(G, H, {}, N) /\ Calm(G, H, X)
      /\ l.slots = b.slots /\ l.iters = b.iters /\ l.handlers = b.handlers
      /\ l.loops = b.loops /\ l.open = b.open /\ DOMAIN l = LowFields /\ LayoutOK(H, End(G))
  BY <1>1, LeadsFacts
<1>3. K.depth \in Nat /\ <<K.depth, way>> \in Nat \X Ways BY <1>1, PlanFacts
<1>4. /\ J \in Plans /\ J.depth = K.depth /\ J.base = K.base
      /\ \A a \in Nat : J.own[a] = IF a \in N THEN <<K.depth, way>> ELSE K.own[a]
 <2> DEFINE x == <<K.depth, way>>
 <2>1. x \in Nat \X Ways /\ J = Given(K, N, x) BY <1>3
 <2> HIDE DEF x
 <2> DEFINE f == Assign(K, N, x)
 <2>2. f \in [Nat -> Nat \X Ways] /\ \A a \in Nat : f[a] = IF a \in N THEN x ELSE K.own[a]
   BY <1>1, <2>1 DEF Plans, Assign
 <2>4. J = [K EXCEPT !.own = f] BY <2>1 DEF Given
 <2> HIDE DEF f
 <2>5. J.depth = K.depth /\ J.base = K.base /\ J \in Plans /\ J.own = f BY <1>1, <2>2, <2>4 DEF Plans
 <2>3. J.depth = K.depth /\ J.base = K.base /\ J \in Plans BY <2>5
 <2>6. \A a \in Nat : J.own[a] = IF a \in N THEN x ELSE K.own[a] BY <2>5, <2>2
 <2> QED BY <2>3, <2>6 DEF x
<1>5. Ctxs(H, J, b.open, b.loops, N) BY <1>1, <1>2, <1>3, CtxsGiven DEF Stands
<1>6. Base(K) \in Layouts /\ Base(K).scope <= b.slots /\ b.iters = Base(K).iters /\ b.handlers = Len(Base(K).handlers)
      /\ b.open \in Seq(Blocks \cup Opens) /\ b.loops \in Seq(Loops)
      /\ Inmost(K, b).some /\ Inmost(K, b).last \in BOOLEAN /\ Inmost(K, b).wants \in Wants
  BY DEF Stands
<1>7. b.iters = End(G).iters /\ b.handlers = Len(End(G).handlers)
 <2>1. End(G).iters = Base(K).iters /\ End(G).handlers = Base(K).handlers
  <3>1. Scoped(Base(K), b.slots).iters = Base(K).iters /\ Scoped(Base(K), b.slots).handlers = Base(K).handlers
    BY <1>1, <1>6, ScopedType
  <3> QED BY <3>1, <1>1
 <2> QED BY <2>1, <1>6
<1>8. Over(Base(J), End(G)) /\ Base(J) = Base(K) BY <1>4, <1>1, <1>6, OverSelf DEF Base
<1>9. Want(Inmost(K, b)) \in Wants BY <1>6 DEF Want, Wants
<1>10. Blk(b.open, J.depth) = Inmost(K, b) /\ \A a \in N : J.own[a] = <<J.depth, way>> BY <1>4 DEF Inmost
<1> QED BY <1>1, <1>2, <1>3, <1>4, <1>5, <1>6, <1>7, <1>8, <1>9, <1>10

LEMMA OpensFrom ==
  ASSUME NEW G, NEW K, NEW b, Stands(G, K, b), NEW H, NEW l, NEW t, NEW N, NEW X, Leads(G, b, H, l, t, {}, N, X),
         \A a \in N : ~(a <= Len(G.code)) /\ a \in Nat,
         NEW way \in Ways, NEW J, J = Given(K, N, <<K.depth, way>>),
         \A a \in X : /\ H.code[a].op = "IterInit" => ForShape(H, a)
                      /\ H.code[a].op = "IterDrop" => BreakShape(H, J, b.open, a)
  PROVE  /\ Ctxs(H, J, b.open, b.loops, N) /\ J.depth = K.depth /\ Base(J) = Base(K)
         /\ Blk(b.open, J.depth) = Inmost(K, b)
         /\ \A a \in N : J.own[a] = <<J.depth, way>>
         /\ b.open \in Seq(Blocks \cup Opens) /\ b.loops \in Seq(Loops) /\ b.slots \in Nat
         /\ End(G) \in Layouts /\ LayoutOK(H, End(G)) /\ End(G).scope = b.slots
         /\ Base(K).scope <= End(G).scope /\ End(G) = Scoped(Base(K), End(G).scope)
         /\ b.iters = End(G).iters /\ b.handlers = Len(End(G).handlers)
         /\ Inmost(K, b).some /\ Want(Inmost(K, b)) \in Wants
         /\ Over(Base(J), End(G))
         /\ l.open = b.open /\ l.loops = b.loops /\ l.slots = b.slots /\ l.iters = b.iters
         /\ l.handlers = b.handlers /\ DOMAIN l = LowFields /\ Tracks(H, l) /\ End(H) = t
         /\ K.depth \in Nat
<1>1. FromGiven(G, K, b, H, l, t, N, X, way, J) BY DEF FromGiven
<1> QED BY ONLY <1>1, FromNamed

\* Nothing is emitted, or nothing that has to be patched or that makes iterators.
LEMMA OpensPlain ==
  ASSUME NEW G, NEW K, NEW b, Stands(G, K, b), NEW H, NEW l, NEW t, Leads(G, b, H, l, t, {}, {}, {})
  PROVE  \E J : 
         /\ Ctxs(H, J, b.open, b.loops, {}) /\ J.depth = K.depth /\ Base(J) = Base(K)
         /\ Blk(b.open, J.depth) = Inmost(K, b)
         /\ b.open \in Seq(Blocks \cup Opens) /\ b.loops \in Seq(Loops) /\ b.slots \in Nat
         /\ End(G) \in Layouts /\ LayoutOK(H, End(G)) /\ End(G).scope = b.slots
         /\ Base(K).scope <= End(G).scope /\ End(G) = Scoped(Base(K), End(G).scope)
         /\ b.iters = End(G).iters /\ b.handlers = Len(End(G).handlers)
         /\ Inmost(K, b).some /\ Want(Inmost(K, b)) \in Wants
         /\ Over(Base(J), End(G))
         /\ l.open = b.open /\ l.loops = b.loops /\ l.slots = b.slots /\ l.iters = b.iters
         /\ l.handlers = b.handlers /\ DOMAIN l = LowFields /\ Tracks(H, l) /\ End(H) = t
         /\ K.depth \in Nat
<1>1. PICK N : (\A a : a \notin N) /\ N = {} OBVIOUS
<1>2. Leads(G, b, H, l, t, {}, N, N) /\ \A a \in N : ~(a <= Len(G.code)) /\ a \in Nat BY <1>1
<1> DEFINE J == Given(K, N, <<K.depth, "out">>)
<1>3. \A a \in N : /\ H.code[a].op = "IterInit" => ForShape(H, a)
                   /\ H.code[a].op = "IterDrop" => BreakShape(H, J, b.open, a)
  BY <1>1
<1>4. "out" \in Ways /\ J = Given(K, N, <<K.depth, "out">>) BY DEF Ways
<1> HIDE DEF J
<1>5. /\ Ctxs(H, J, b.open, b.loops, N) /\ J.depth = K.depth /\ Base(J) = Base(K)
         /\ Blk(b.open, J.depth) = Inmost(K, b)
         /\ b.open \in Seq(Blocks \cup Opens) /\ b.loops \in Seq(Loops) /\ b.slots \in Nat
         /\ End(G) \in Layouts /\ LayoutOK(H, End(G)) /\ End(G).scope = b.slots
         /\ Base(K).scope <= End(G).scope /\ End(G) = Scoped(Base(K), End(G).scope)
         /\ b.iters = End(G).iters /\ b.handlers = Len(End(G).handlers)
         /\ Inmost(K, b).some /\ Want(Inmost(K, b)) \in Wants
         /\ Over(Base(J), End(G))
         /\ l.open = b.open /\ l.loops = b.loops /\ l.slots = b.slots /\ l.iters = b.iters
         /\ l.handlers = b.handlers /\ DOMAIN l = LowFields /\ Tracks(H, l) /\ End(H) = t
         /\ K.depth \in Nat
 <2>1. FromGiven(G, K, b, H, l, t, N, N, "out", J) BY <1>2, <1>3, <1>4 DEF FromGiven
 <2> QED BY ONLY <2>1, FromNamed
<1>6. Ctxs(H, J, b.open, b.loops, {}) BY <1>1, <1>5
<1> QED BY <1>5, <1>6

\* Nothing has to be patched at the end.
LEMMA OpensUnsited ==
  ASSUME NEW H, NEW J, NEW o \in Seq(Blocks \cup Opens), NEW q \in Seq(Loops), Ctxs(H, J, o, q, {}),
         NEW l, Tracks(H, l), NEW c \in Opens, NEW wants \in Wants, NEW must \in BOOLEAN,
         l.open = o, NEW p, l.loops = (IF c.kind \in Repeated THEN Append(q, p) ELSE q),
         NEW T, NEW U, l.slots \in Nat,
         Fits(H, Base(J), T, U, c, Blk(o, J.depth), Block("block", wants, l.slots, must)),
         c.kind \in Repeated => Outs(c, p) = {} /\ Ins(c, p) = {} /\ Ring(T, U, c, p),
         c.kind \notin Repeated => Sites(c) = {},
         c.kind \in Repeated \cup {"operand"} \/ Over(Base(J), U),
         End(H) = U, l.iters = U.iters, l.handlers = Len(U.handlers)
  PROVE  LowSound(Opened(l, c, wants, must))
<1>1. PICK N : (\A a : a \notin N) /\ N = {} OBVIOUS
<1>2. Ctxs(H, J, o, q, N) BY <1>1
<1>3. \A a \in N : /\ Open_jump(H, a) /\ J.own[a] = <<J.depth, "out">>
                   /\ Ahead(H.code[a].op, a, H.at[a], Aim(c, T, U, "out"))
  BY <1>1
<1>4. Awaits(c, p, "out", N) BY <1>1 DEF Awaits
<1>5. "out" \in Ways /\ (c.kind \in Repeated => Ring(T, U, c, p)) BY DEF Ways
<1>6. OpensGiven(H, J, o, q, N, l, c, wants, must, p, T, U, "out")
  BY <1>2, <1>3, <1>4, <1>5 DEF OpensGiven
<1> QED BY ONLY <1>6, OpensNamed

LEMMA StmtBlockSound ==
  ASSUME LowOK(low), LowSound(low), Stmt_Block
  PROVE  LowSound(low')
<1>1. PICK last \in Lasts :
        low' = Opened(Begun(last), Open("plain", Wanted(last), 0, 0), Wanted(last), FALSE)
  BY DEF Stmt_Block, Lower
<1> DEFINE b == Begun(last)
           w == Wanted(last)
           c == Open("plain", w, 0, 0)
<1>2. PICK G, K : Stands(G, K, b) /\ Want(Inmost(K, b)) = w BY BegunSound DEF Stmt_Block, Lasts
<1>3. Leads(G, b, G, b, End(G), {}, {}, {}) BY <1>2, StandsFacts, LeadsSelf
<1> HIDE DEF b, w
<1> DEFINE T == End(G)
<1>4. PICK J :
         /\ Ctxs(G, J, b.open, b.loops, {}) /\ J.depth = K.depth /\ Base(J) = Base(K)
         /\ Blk(b.open, J.depth) = Inmost(K, b)
         /\ b.open \in Seq(Blocks \cup Opens) /\ b.loops \in Seq(Loops) /\ b.slots \in Nat
         /\ T \in Layouts /\ LayoutOK(G, T) /\ T.scope = b.slots
         /\ Base(K).scope <= T.scope /\ T = Scoped(Base(K), T.scope)
         /\ b.iters = T.iters /\ b.handlers = Len(T.handlers)
         /\ Inmost(K, b).some /\ Want(Inmost(K, b)) \in Wants
         /\ Over(Base(J), T) /\ Tracks(G, b)
  BY <1>2, <1>3, OpensPlain
<1> HIDE DEF T
<1>5. c \in Opens /\ c.kind = "plain" /\ c.wants = w /\ c.kind \notin Repeated /\ Sites(c) = {}
  BY <1>2, <1>4 DEF Open, Opens, StmtKinds, Sites, Repeated
<1>6. Fits(G, Base(J), T, T, c, Blk(b.open, J.depth), Block("block", w, b.slots, FALSE))
  BY <1>2, <1>4, <1>5 DEF Fits, Block, Want, Repeated
<1> HIDE DEF c
<1>7. LowSound(Opened(b, c, w, FALSE)) BY <1>5, <1>2, <1>4, <1>6, OpensUnsited DEF T
<1> QED BY <1>1, <1>7 DEF b, c, w

\* Where a statement begins, and the block that it is in.
LEMMA StandsOver ==
  ASSUME NEW G, NEW K, NEW b, Stands(G, K, b)
  PROVE  /\ Base(K).scope <= End(G).scope /\ End(G) = Scoped(Base(K), End(G).scope)
         /\ b.iters = End(G).iters /\ b.handlers = Len(End(G).handlers) /\ b.slots = End(G).scope
         /\ Inmost(K, b).some /\ Want(Inmost(K, b)) \in Wants
         /\ Over(Base(K), End(G))
         /\ End(G) \in Layouts /\ LayoutOK(G, End(G)) /\ Tracks(G, b) /\ b.slots \in Nat
         /\ b.open \in Seq(Blocks \cup Opens) /\ b.loops \in Seq(Loops)
         /\ DOMAIN b = LowFields
<1>1. Leads(G, b, G, b, End(G), {}, {}, {}) BY StandsFacts, LeadsSelf
<1>2. PICK J :
         /\ Base(J) = Base(K)
         /\ b.open \in Seq(Blocks \cup Opens) /\ b.loops \in Seq(Loops) /\ b.slots \in Nat
         /\ End(G) \in Layouts /\ LayoutOK(G, End(G)) /\ End(G).scope = b.slots
         /\ Base(K).scope <= End(G).scope /\ End(G) = Scoped(Base(K), End(G).scope)
         /\ b.iters = End(G).iters /\ b.handlers = Len(End(G).handlers)
         /\ Inmost(K, b).some /\ Want(Inmost(K, b)) \in Wants
         /\ Over(Base(J), End(G)) /\ Tracks(G, b)
  BY <1>1, OpensPlain
<1>3. DOMAIN b = LowFields BY <1>2 DEF Tracks
<1> QED BY <1>2, <1>3

LEMMA OpensAt ==
  ASSUME NEW G, NEW K, NEW b, Stands(G, K, b), NEW H, NEW l, NEW U, NEW N, NEW X, Leads(G, b, H, l, U, {}, N, X),
         \A a \in N : ~(a <= Len(G.code)) /\ a \in Nat,
         NEW way \in Ways,
         \A a \in X : /\ H.code[a].op = "IterInit" => ForShape(H, a)
                      /\ H.code[a].op = "IterDrop" => BreakShape(H, Given(K, N, <<K.depth, way>>), b.open, a),
         NEW m, Tracks(H, m), m.open = b.open, NEW c \in Opens, NEW p,
         m.loops = (IF c.kind \in Repeated THEN Append(b.loops, p) ELSE b.loops),
         NEW wants \in Wants, NEW must \in BOOLEAN, m.slots \in Nat,
         Fits(H, Base(K), End(G), U, c, Inmost(K, b), Block("block", wants, m.slots, must)),
         \A a \in N : Open_jump(H, a) /\ Ahead(H.code[a].op, a, H.at[a], Aim(c, End(G), U, way)),
         Awaits(c, p, way, N),
         c.kind \in Repeated => Ring(End(G), U, c, p),
         c.kind \in Repeated \cup {"operand"} \/ Over(Base(K), U),
         m.iters = U.iters, m.handlers = Len(U.handlers)
  PROVE  LowSound(Opened(m, c, wants, must))
<1> DEFINE J == Given(K, N, <<K.depth, way>>)
<1>1. J = Given(K, N, <<K.depth, way>>) OBVIOUS
<1> HIDE DEF J
<1>2. /\ Ctxs(H, J, b.open, b.loops, N) /\ J.depth = K.depth /\ Base(J) = Base(K)
      /\ Blk(b.open, J.depth) = Inmost(K, b)
      /\ \A a \in N : J.own[a] = <<J.depth, way>>
      /\ b.open \in Seq(Blocks \cup Opens) /\ b.loops \in Seq(Loops)
      /\ End(H) = U
 <2>1. \A a \in X : /\ H.code[a].op = "IterInit" => ForShape(H, a)
                    /\ H.code[a].op = "IterDrop" => BreakShape(H, J, b.open, a)
   BY <1>1
 <2>2. /\ Stands(G, K, b) /\ Leads(G, b, H, l, U, {}, N, X) /\ way \in Ways
       /\ \A a \in N : ~(a <= Len(G.code)) /\ a \in Nat
   OBVIOUS
 <2> QED BY ONLY <1>1, <2>1, <2>2, OpensFrom
<1>3. \A a \in N : /\ Open_jump(H, a) /\ J.own[a] = <<J.depth, way>>
                   /\ Ahead(H.code[a].op, a, H.at[a], Aim(c, End(G), U, way))
  BY <1>2
<1>4. Fits(H, Base(J), End(G), U, c, Blk(b.open, J.depth), Block("block", wants, m.slots, must)) BY <1>2
<1>5. c.kind \in Repeated \cup {"operand"} \/ Over(Base(J), U) BY <1>2
<1> QED BY <1>2, <1>3, <1>4, <1>5, OpensSound

\* No iterators are made.
LEMMA OpensCalm ==
  ASSUME NEW G, NEW K, NEW b, Stands(G, K, b), NEW H, NEW l, NEW U, NEW N, Leads(G, b, H, l, U, {}, N, {}),
         \A a \in N : ~(a <= Len(G.code)) /\ a \in Nat,
         NEW way \in Ways,
         NEW m, Tracks(H, m), m.open = b.open, NEW c \in Opens, NEW p,
         m.loops = (IF c.kind \in Repeated THEN Append(b.loops, p) ELSE b.loops),
         NEW wants \in Wants, NEW must \in BOOLEAN, m.slots \in Nat,
         Fits(H, Base(K), End(G), U, c, Inmost(K, b), Block("block", wants, m.slots, must)),
         \A a \in N : Open_jump(H, a) /\ Ahead(H.code[a].op, a, H.at[a], Aim(c, End(G), U, way)),
         Awaits(c, p, way, N),
         c.kind \in Repeated => Ring(End(G), U, c, p),
         c.kind \in Repeated \cup {"operand"} \/ Over(Base(K), U),
         m.iters = U.iters, m.handlers = Len(U.handlers)
  PROVE  LowSound(Opened(m, c, wants, must))
<1>1. PICK X : (\A a : a \notin X) /\ X = {} OBVIOUS
<1>2. Leads(G, b, H, l, U, {}, N, X) BY <1>1
<1>3. \A a \in X : /\ H.code[a].op = "IterInit" => ForShape(H, a)
                   /\ H.code[a].op = "IterDrop" => BreakShape(H, Given(K, N, <<K.depth, way>>), b.open, a)
  BY <1>1
<1> QED BY <1>2, <1>3, OpensAt

\* The same, with one jump at most and no loop.
LEMMA OpensOne ==
  ASSUME NEW G, NEW K, NEW b, Stands(G, K, b), NEW H, NEW l, NEW U, NEW a, Leads(G, b, H, l, U, {}, {a}, {}),
         ~(a <= Len(G.code)), a \in Nat,
         NEW m, Tracks(H, m), m.open = b.open, m.loops = b.loops, NEW c \in Opens, c.kind \notin Repeated,
         NEW wants \in Wants, NEW must \in BOOLEAN, m.slots \in Nat,
         Fits(H, Base(K), End(G), U, c, Inmost(K, b), Block("block", wants, m.slots, must)),
         Open_jump(H, a), Ahead(H.code[a].op, a, H.at[a], Aim(c, End(G), U, "out")),
         Sites(c) = {a}, Over(Base(K), U),
         m.iters = U.iters, m.handlers = Len(U.handlers)
  PROVE  LowSound(Opened(m, c, wants, must))
<1>1. PICK N : (\A x : x \in N <=> x = a) /\ N = {a} OBVIOUS
<1>2. Leads(G, b, H, l, U, {}, N, {}) /\ \A x \in N : ~(x <= Len(G.code)) /\ x \in Nat BY <1>1
<1>3. \A x \in N : Open_jump(H, x) /\ Ahead(H.code[x].op, x, H.at[x], Aim(c, End(G), U, "out")) BY <1>1
<1>4. Awaits(c, 0, "out", N) BY <1>1 DEF Awaits
<1>5. /\ m.loops = (IF c.kind \in Repeated THEN Append(b.loops, 0) ELSE b.loops)
      /\ c.kind \in Repeated => Ring(End(G), U, c, 0)
      /\ c.kind \in Repeated \cup {"operand"} \/ Over(Base(K), U)
      /\ "out" \in Ways
  BY DEF Ways
<1> QED BY <1>2, <1>3, <1>4, <1>5, OpensCalm

LEMMA if_statementSound ==
  ASSUME LowOK(low), LowSound(low), if_statement
  PROVE  LowSound(low')
<1>1. PICK last \in Lasts :
        low' = Opened(emit(emit(Begun(last), I("Push")), I("JumpIfFalse")),
                      Open("if", Wanted(last), here(emit(Begun(last), I("Push"))), 0), Wanted(last), FALSE)
  BY DEF if_statement, Lower
<1> DEFINE b == Begun(last)
           w == Wanted(last)
           l == emit(b, I("Push"))
           m == emit(l, I("JumpIfFalse"))
           c == Open("if", w, here(l), 0)
<1>2. PICK G, K : Stands(G, K, b) /\ Want(Inmost(K, b)) = w BY BegunSound DEF if_statement, Lasts
<1> HIDE DEF b, w
<1> DEFINE T == End(G)
<1>3. /\ Base(K).scope <= T.scope /\ T = Scoped(Base(K), T.scope)
      /\ b.iters = T.iters /\ b.handlers = Len(T.handlers) /\ b.slots = T.scope
      /\ Inmost(K, b).some /\ w \in Wants
      /\ Over(Base(K), T)
      /\ T \in Layouts /\ LayoutOK(G, T) /\ Tracks(G, b) /\ b.slots \in Nat
      /\ b.open \in Seq(Blocks \cup Opens) /\ b.loops \in Seq(Loops)
  BY <1>2, StandsOver
<1>4. PICK H1 : Emits(G, b, H1, "Push", 0, Plus(T, 0)) BY <1>3, EmitPush
<1>5. Leads(G, b, H1, l, Plus(T, 0), {}, {}, {}) /\ Len(H1.code) = Len(G.code) + 1 /\ Len(G.code) \in Nat
  BY <1>4, EmitsPlain DEF Steady, I
<1> HIDE DEF l
<1>6. Tracks(H1, l) /\ End(H1) = Plus(T, 0) /\ LayoutOK(H1, T) /\ here(l) = Len(H1.code) + 1
  BY <1>3, <1>5, LeadsFacts, TracksFacts
<1> DEFINE a == Len(H1.code) + 1
<1>7. PICK H : Emits(H1, l, H, "JumpIfFalse", 0, T) BY <1>6, EmitGuard DEF Guards
<1>8. /\ Leads(H1, l, H, m, T, {}, {a}, {}) /\ Open_jump(H, a) /\ H.code[a].op = "JumpIfFalse"
      /\ H.at[a] = Plus(T, 0)
  BY <1>6, <1>7, EmitsSite DEF I
<1>9. Leads(G, b, H, m, T, {}, {a}, {}) BY <1>3, <1>5, <1>8, LeadsTo
<1> HIDE DEF m
<1>10. /\ Tracks(H, m) /\ m.open = b.open /\ m.loops = b.loops /\ m.slots = b.slots /\ m.iters = T.iters
       /\ m.handlers = Len(T.handlers) /\ LayoutOK(H, T)
  BY <1>3, <1>9, LeadsFacts
<1>11. a \in Nat /\ ~(a <= Len(G.code)) /\ here(l) = a BY <1>5, <1>6
<1> HIDE DEF a
<1>12. c \in Opens /\ c.kind = "if" /\ c.kind \notin Repeated /\ Sites(c) = {a} /\ c.wants = w
  BY <1>11, <1>3 DEF Open, Opens, StmtKinds, Sites, Repeated
<1>13. Aim(c, T, T, "out") = T BY <1>12 DEF Aim
<1> HIDE DEF c
<1>14. Ahead(H.code[a].op, a, H.at[a], Aim(c, T, T, "out")) BY <1>13, <1>8 DEF Ahead, Guards
<1>15. Fits(H, Base(K), T, T, c, Inmost(K, b), Block("block", w, m.slots, FALSE))
  BY <1>2, <1>3, <1>10, <1>12 DEF Fits, Block, Want, Repeated
<1>16. LowSound(Opened(m, c, w, FALSE))
 <2>1. w \in Wants /\ FALSE \in BOOLEAN /\ m.slots \in Nat BY <1>3, <1>10
 <2> QED BY <1>2, <1>3, <1>8, <1>9, <1>10, <1>11, <1>12, <1>14, <1>15, <2>1, OpensOne
<1> QED BY <1>1, <1>16 DEF b, c, w, m, l

\* With no jump to be patched yet.
LEMMA OpensNone ==
  ASSUME NEW G, NEW K, NEW b, Stands(G, K, b), NEW H, NEW l, NEW U, Leads(G, b, H, l, U, {}, {}, {}),
         NEW m, Tracks(H, m), m.open = b.open, NEW c \in Opens, NEW p,
         m.loops = (IF c.kind \in Repeated THEN Append(b.loops, p) ELSE b.loops),
         NEW wants \in Wants, NEW must \in BOOLEAN, m.slots \in Nat,
         Fits(H, Base(K), End(G), U, c, Inmost(K, b), Block("block", wants, m.slots, must)),
         c.kind \in Repeated => Outs(c, p) = {} /\ Ins(c, p) = {} /\ Ring(End(G), U, c, p),
         c.kind \notin Repeated => Sites(c) = {},
         c.kind \in Repeated \cup {"operand"} \/ Over(Base(K), U),
         m.iters = U.iters, m.handlers = Len(U.handlers)
  PROVE  LowSound(Opened(m, c, wants, must))
<1>1. PICK N : (\A a : a \notin N) /\ N = {} OBVIOUS
<1>2. Leads(G, b, H, l, U, {}, N, {}) BY <1>1
<1>3. /\ \A a \in N : ~(a <= Len(G.code)) /\ a \in Nat
      /\ \A a \in N : Open_jump(H, a) /\ Ahead(H.code[a].op, a, H.at[a], Aim(c, End(G), U, "out"))
  BY <1>1
<1>4. Awaits(c, p, "out", N) BY <1>1 DEF Awaits
<1>5. "out" \in Ways /\ (c.kind \in Repeated => Ring(End(G), U, c, p)) BY DEF Ways
<1> QED BY <1>2, <1>3, <1>4, <1>5, OpensCalm

LEMMA StmtLoopSound ==
  ASSUME LowOK(low), LowSound(low), NEW kind \in {"loop", "do"}, Stmt_Loop(kind)
  PROVE  LowSound(low')
<1>1. PICK last \in Lasts :
        low' = Opened(begin_loop(Begun(last), here(Begun(last))),
                      Open(kind, Wanted(last), 0, here(Begun(last))), "Effect", FALSE)
  BY DEF Stmt_Loop, Lower
<1> DEFINE b == Begun(last)
           w == Wanted(last)
           m == begin_loop(b, here(b))
           c == Open(kind, w, 0, here(b))
<1>2. PICK G, K : Stands(G, K, b) /\ Want(Inmost(K, b)) = w BY BegunSound DEF Stmt_Loop, Lasts
<1> HIDE DEF b, w
<1> DEFINE T == End(G)
           p == Loop(here(b), b.slots, b, FALSE)
<1>3. /\ Base(K).scope <= T.scope /\ T = Scoped(Base(K), T.scope)
      /\ b.iters = T.iters /\ b.handlers = Len(T.handlers) /\ b.slots = T.scope
      /\ Inmost(K, b).some /\ w \in Wants
      /\ T \in Layouts /\ LayoutOK(G, T) /\ Tracks(G, b) /\ b.slots \in Nat
      /\ DOMAIN b = LowFields
  BY <1>2, StandsOver
<1>4. Leads(G, b, G, b, T, {}, {}, {}) BY <1>3, LeadsSelf
<1>5. /\ DOMAIN m = LowFields /\ m.code = b.code /\ m.max_stack = b.max_stack /\ m.patched = b.patched
      /\ m.open = b.open /\ m.slots = b.slots /\ m.iters = b.iters /\ m.handlers = b.handlers
      /\ m.loops = Append(b.loops, p)
  BY <1>3 DEF begin_loop, LowFields
<1> HIDE DEF m
<1>6. Tracks(G, m) BY <1>3, <1>5, TracksSame
<1>7. here(b) = Len(G.code) + 1 /\ here(b) \in DOMAIN G.at /\ here(b) \in Nat /\ G.at[here(b)] = T
  BY <1>3, TracksFacts DEF End
<1>8. c \in Opens /\ c.kind = kind /\ c.kind \in Repeated \ {"for", "while"} /\ c.wants = w /\ c.top = here(b)
  BY <1>7, <1>3 DEF Open, Opens, StmtKinds, Repeated
<1>9. Outs(c, p) = {} /\ Ins(c, p) = {} /\ Ring(T, T, c, p)
 <2>1. /\ p.breaks = {} /\ p.continues = {} /\ p.break_depth = T.scope /\ p.continue_depth = T.scope
       /\ p.iters = T.iters /\ p.handlers = Len(T.handlers) /\ p.owns_iterator = FALSE
       /\ p.continue_target = here(b)
   BY <1>3 DEF Loop
 <2> HIDE DEF p, c
 <2> QED BY <2>1, <1>8 DEF Outs, Ins, Ring
<1> HIDE DEF c, p
<1>10. Fits(G, Base(K), T, T, c, Inmost(K, b), Block("block", "Effect", m.slots, FALSE))
  BY <1>2, <1>3, <1>5, <1>7, <1>8 DEF Fits, Block, Want, Repeated
<1>11. LowSound(Opened(m, c, "Effect", FALSE))
 <2>1. /\ "Effect" \in Wants /\ FALSE \in BOOLEAN /\ m.slots \in Nat
       /\ m.loops = (IF c.kind \in Repeated THEN Append(b.loops, p) ELSE b.loops)
       /\ m.iters = T.iters /\ m.handlers = Len(T.handlers)
   BY <1>3, <1>5, <1>8 DEF Wants
 <2> QED BY <1>2, <1>4, <1>5, <1>6, <1>8, <1>9, <1>10, <2>1, OpensNone
<1> QED BY <1>1, <1>11 DEF b, c, w, m

LEMMA StmtOperandSound ==
  ASSUME LowOK(low), LowSound(low), Stmt_Operand
  PROVE  LowSound(low')
<1>1. PICK last \in Lasts :
        low' = Opened(emit(Begun(last), I("Push")), Open("operand", Wanted(last), 0, 0), "Value", FALSE)
  BY DEF Stmt_Operand, Lower
<1> DEFINE b == Begun(last)
           w == Wanted(last)
           m == emit(b, I("Push"))
           c == Open("operand", w, 0, 0)
<1>2. PICK G, K : Stands(G, K, b) /\ Want(Inmost(K, b)) = w BY BegunSound DEF Stmt_Operand, Lasts
<1> HIDE DEF b, w
<1> DEFINE T == End(G)
           U == Plus(T, 0)
<1>3. /\ Base(K).scope <= T.scope /\ T = Scoped(Base(K), T.scope)
      /\ b.iters = T.iters /\ b.handlers = Len(T.handlers) /\ b.slots = T.scope
      /\ Inmost(K, b).some /\ w \in Wants
      /\ T \in Layouts /\ LayoutOK(G, T) /\ Tracks(G, b) /\ b.slots \in Nat
  BY <1>2, StandsOver
<1>4. PICK H : Emits(G, b, H, "Push", 0, U) BY <1>3, EmitPush
<1>5. Leads(G, b, H, m, U, {}, {}, {}) BY <1>4, EmitsPlain DEF Steady, I
<1> HIDE DEF m
<1>6. /\ Tracks(H, m) /\ m.open = b.open /\ m.loops = b.loops /\ m.slots = b.slots /\ m.iters = b.iters
      /\ m.handlers = b.handlers /\ LayoutOK(H, T) /\ LayoutOK(H, U)
  BY <1>3, <1>5, LeadsFacts
<1>7. U.iters = T.iters /\ U.handlers = T.handlers /\ U.scope = T.scope BY <1>3, PlusType
<1> HIDE DEF T
<1>8. c \in Opens /\ c.kind = "operand" /\ c.kind \notin Repeated /\ Sites(c) = {} /\ c.wants = w
  BY <1>3 DEF Open, Opens, StmtKinds, Sites, Repeated
<1> HIDE DEF c
<1>9. Fits(H, Base(K), T, U, c, Inmost(K, b), Block("block", "Value", m.slots, FALSE))
  BY <1>2, <1>3, <1>6, <1>7, <1>8 DEF Fits, Block, Want, Repeated
<1> HIDE DEF U
<1>10. LowSound(Opened(m, c, "Value", FALSE))
  BY <1>3, <1>6, <1>7, <1>8, <1>2, <1>5, <1>9, OpensNone DEF Wants, T
<1> QED BY <1>1, <1>10 DEF b, c, w, m

LEMMA StmtWhileSound ==
  ASSUME LowOK(low), LowSound(low), Stmt_While
  PROVE  LowSound(low')
<1>1. PICK last \in Lasts :
        low' = Opened(begin_loop(emit(Begun(last), I("Jump")), 0),
                      Open("while", Wanted(last), here(Begun(last)), here(emit(Begun(last), I("Jump")))),
                      "Effect", FALSE)
  BY DEF Stmt_While, Lower
<1> DEFINE b == Begun(last)
           w == Wanted(last)
           l == emit(b, I("Jump"))
           m == begin_loop(l, 0)
           c == Open("while", w, here(b), here(l))
<1>2. PICK G, K : Stands(G, K, b) /\ Want(Inmost(K, b)) = w BY BegunSound DEF Stmt_While, Lasts
<1> HIDE DEF b, w
<1> DEFINE T == End(G)
           p == Loop(0, l.slots, l, FALSE)
           a == Len(G.code) + 1
<1>3. /\ Base(K).scope <= T.scope /\ T = Scoped(Base(K), T.scope)
      /\ b.iters = T.iters /\ b.handlers = Len(T.handlers) /\ b.slots = T.scope
      /\ Inmost(K, b).some /\ w \in Wants
      /\ T \in Layouts /\ LayoutOK(G, T) /\ Tracks(G, b) /\ b.slots \in Nat
      /\ DOMAIN b = LowFields
  BY <1>2, StandsOver
<1>4. PICK H : Emits(G, b, H, "Jump", 0, T) BY <1>3, EmitJump
<1>5. /\ Leads(G, b, H, l, T, {}, {a}, {}) /\ Open_jump(H, a) /\ H.code[a].op = "Jump"
      /\ H.at[a] = T /\ Len(G.code) \in Nat
  BY <1>4, EmitsSite DEF I
<1> HIDE DEF l
<1>6. /\ Tracks(H, l) /\ l.open = b.open /\ l.loops = b.loops /\ l.slots = b.slots /\ l.iters = b.iters
      /\ l.handlers = b.handlers /\ LayoutOK(H, T) /\ DOMAIN l = LowFields /\ End(H) = T
  BY <1>3, <1>5, LeadsFacts
<1>7. /\ DOMAIN m = LowFields /\ m.code = l.code /\ m.max_stack = l.max_stack /\ m.patched = l.patched
      /\ m.open = b.open /\ m.slots = b.slots /\ m.iters = b.iters /\ m.handlers = b.handlers
      /\ m.loops = Append(b.loops, p)
  BY <1>6 DEF begin_loop, LowFields
<1> HIDE DEF m
<1>8. Tracks(H, m) BY <1>6, <1>7, TracksSame
<1>9. here(b) = a /\ here(l) \in DOMAIN H.at /\ here(l) \in Nat /\ H.at[here(l)] = T
  BY <1>3, <1>6, TracksFacts DEF End
<1>10. a \in Nat /\ ~(a <= Len(G.code)) BY <1>5
<1> HIDE DEF a
<1>11. /\ c \in Opens /\ c.kind = "while" /\ c.kind \in Repeated \ {"for"} /\ c.wants = w /\ c.top = here(l)
       /\ c.site = a
  BY <1>9, <1>10, <1>3 DEF Open, Opens, StmtKinds, Repeated
<1>12. PICK N : (\A x : x \in N <=> x = a) /\ N = {a} OBVIOUS
<1>13. Awaits(c, p, "in", N) /\ Ring(T, T, c, p)
 <2>1. /\ p.breaks = {} /\ p.continues = {} /\ p.break_depth = T.scope /\ p.continue_depth = T.scope
       /\ p.iters = T.iters /\ p.handlers = Len(T.handlers) /\ p.owns_iterator = FALSE
       /\ p.continue_target = 0
   BY <1>3, <1>6 DEF Loop
 <2> HIDE DEF p, c
 <2>2. Outs(c, p) = {} /\ Ins(c, p) = {a} BY <2>1, <1>11 DEF Outs, Ins
 <2> QED BY <2>1, <2>2, <1>11, <1>12 DEF Awaits, Ring
<1> HIDE DEF c, p
<1>14. Fits(H, Base(K), T, T, c, Inmost(K, b), Block("block", "Effect", m.slots, FALSE))
  BY <1>2, <1>3, <1>6, <1>7, <1>9, <1>11 DEF Fits, Block, Want, Repeated
<1>15. \A x \in N : Open_jump(H, x) /\ Ahead(H.code[x].op, x, H.at[x], Aim(c, T, T, "in"))
  BY <1>11, <1>5, <1>12 DEF Aim, Ahead, Guards
<1>16. LowSound(Opened(m, c, "Effect", FALSE))
 <2>1. /\ "Effect" \in Wants /\ FALSE \in BOOLEAN /\ m.slots \in Nat /\ "in" \in Ways
       /\ m.loops = (IF c.kind \in Repeated THEN Append(b.loops, p) ELSE b.loops)
       /\ m.iters = T.iters /\ m.handlers = Len(T.handlers)
   BY <1>3, <1>7, <1>11 DEF Wants, Ways
 <2>2. /\ Leads(G, b, H, l, T, {}, N, {}) /\ \A x \in N : ~(x <= Len(G.code)) /\ x \in Nat
   BY <1>5, <1>10, <1>12
 <2> QED BY <1>2, <1>7, <1>8, <1>11, <1>13, <1>14, <1>15, <2>1, <2>2, OpensCalm
<1> QED BY <1>1, <1>16 DEF b, c, w, m, l

LEMMA StmtTrySound ==
  ASSUME LowOK(low), LowSound(low), Stmt_TryCatch
  PROVE  LowSound(low')
<1>1. PICK last \in Lasts :
        low' = Opened([emit(Begun(last), I("PushHandler")) EXCEPT !.handlers = @ + 1],
                      Open("try", Wanted(last), here(Begun(last)), 0), "Value", FALSE)
  BY DEF Stmt_TryCatch, Lower
<1> DEFINE b == Begun(last)
           w == Wanted(last)
           l == emit(b, I("PushHandler"))
           m == [l EXCEPT !.handlers = @ + 1]
           c == Open("try", w, here(b), 0)
<1>2. PICK G, K : Stands(G, K, b) /\ Want(Inmost(K, b)) = w BY BegunSound DEF Stmt_TryCatch, Lasts
<1> HIDE DEF b, w
<1> DEFINE T == End(G)
           a == Len(G.code) + 1
           U == Arming(T, a)
<1>3. /\ Base(K).scope <= T.scope /\ T = Scoped(Base(K), T.scope)
      /\ b.iters = T.iters /\ b.handlers = Len(T.handlers) /\ b.slots = T.scope
      /\ Inmost(K, b).some /\ w \in Wants /\ Over(Base(K), T)
      /\ T \in Layouts /\ LayoutOK(G, T) /\ Tracks(G, b) /\ b.slots \in Nat
      /\ DOMAIN b = LowFields
  BY <1>2, StandsOver
<1>4. PICK H : Emits(G, b, H, "PushHandler", 0, U) BY <1>3, EmitArm
<1>5. /\ Leads(G, b, H, l, U, {}, {a}, {}) /\ Open_jump(H, a) /\ H.code[a].op = "PushHandler"
      /\ H.at[a] = T /\ Len(G.code) \in Nat /\ a \in DOMAIN H.at
  BY <1>4, EmitsSite DEF I
<1> HIDE DEF l
<1>6. /\ Tracks(H, l) /\ l.open = b.open /\ l.loops = b.loops /\ l.slots = b.slots /\ l.iters = b.iters
      /\ l.handlers = b.handlers /\ LayoutOK(H, T) /\ LayoutOK(H, U) /\ DOMAIN l = LowFields
  BY <1>3, <1>5, LeadsFacts
<1>7. /\ DOMAIN m = LowFields /\ m.code = l.code /\ m.max_stack = l.max_stack /\ m.patched = l.patched
      /\ m.open = b.open /\ m.slots = b.slots /\ m.iters = b.iters /\ m.handlers = b.handlers + 1
      /\ m.loops = b.loops
  BY <1>6 DEF LowFields
<1> HIDE DEF m
<1>8. Tracks(H, m) BY <1>6, <1>7, TracksSame
<1>9. here(b) = a BY <1>3, TracksFacts
<1>10. a \in Nat \ {0} /\ a \in Nat /\ ~(a <= Len(G.code)) /\ a \in 1..Len(H.code) BY <1>5 DEF Open_jump
<1> HIDE DEF a
<1>11. /\ U \in Layouts /\ U.stack = T.stack /\ U.iters = T.iters /\ U.scope = T.scope
       /\ Len(U.handlers) = Len(T.handlers) + 1
       /\ \A j \in 0..Len(T.handlers) : SubSeq(U.handlers, 1, j) = SubSeq(T.handlers, 1, j)
  BY <1>3, <1>10, ArmingType
<1> HIDE DEF U
<1>12. /\ c \in Opens /\ c.kind = "try" /\ c.kind \notin Repeated /\ Sites(c) = {a} /\ c.wants = w /\ c.site = a
  BY <1>9, <1>10, <1>3 DEF Open, Opens, StmtKinds, Repeated, Sites
<1> HIDE DEF c
<1>13. Over(Base(K), U)
 <2>1. Base(K) \in Layouts /\ Len(Base(K).handlers) \in Nat /\ Len(T.handlers) \in Nat
   BY <1>2, <1>3, LayoutType DEF Stands
 <2>2. Len(Base(K).handlers) \in 0..Len(T.handlers) /\ Len(Base(K).handlers) <= Len(T.handlers) + 1
   BY <2>1, <1>3 DEF Over
 <2> QED BY <2>2, <1>3, <1>11 DEF Over
<1>14. Fits(H, Base(K), T, U, c, Inmost(K, b), Block("block", "Value", m.slots, FALSE))
  BY <1>12, <1>2, <1>3, <1>5, <1>6, <1>7, <1>10, <1>11 DEF U, Fits, Block, Want, Repeated
<1>15. Ahead(H.code[a].op, a, H.at[a], Aim(c, T, U, "out"))
  BY <1>12, <1>5 DEF Aim, Repeated, Ahead, Guards
<1>16. LowSound(Opened(m, c, "Value", FALSE))
 <2>1. /\ "Value" \in Wants /\ FALSE \in BOOLEAN /\ m.slots \in Nat
       /\ m.iters = U.iters /\ m.handlers = Len(U.handlers)
   BY <1>3, <1>7, <1>11 DEF Wants
 <2> QED BY <1>2, <1>5, <1>7, <1>8, <1>10, <1>12, <1>13, <1>14, <1>15, <2>1, OpensOne
<1> QED BY <1>1, <1>16 DEF b, c, w, m, l

(* A `for` begins with two rows of instructions. *)
LEMMA EmitsIter ==
  ASSUME NEW G, NEW l, NEW H, NEW op \in {"IterInit", "IterDrop"}, NEW arg, NEW t, Emits(G, l, H, op, arg, t)
  PROVE  /\ Leads(G, l, H, emit(l, Instruction(op, arg)), t, {}, {}, {Len(G.code) + 1})
         /\ Len(H.code) = Len(G.code) + 1 /\ Len(G.code) \in Nat
         /\ H.code[Len(G.code) + 1].op = op
<1>1. op \notin Targeted /\ op \in {"IterInit", "IterDrop"} BY DEF Targeted, Branches, Advances
<1>2. /\ Unpatched(op, arg, Len(G.code) + 1) = {} /\ IterSite(op, Len(G.code) + 1) = {Len(G.code) + 1}
      /\ width(op) = 1
  BY <1>1 DEF Unpatched, IterSite, width
<1>3. /\ Len(H.code) = Len(G.code) + 1 /\ Len(G.code) \in Nat
      /\ H.code[Len(G.code) + 1] = [op |-> op, arg |-> arg]
  BY <1>2 DEF Emits, Follows
<1>4. Leads(G, l, H, emit(l, Instruction(op, arg)), t, {}, {}, {Len(G.code) + 1}) BY <1>2 DEF Emits
<1> QED BY <1>3, <1>4

\* The operations of code that was there stay.
LEMMA LeadsOps ==
  ASSUME NEW G, NEW l, NEW H, NEW m, NEW t, NEW P, NEW N, NEW X, Leads(G, l, H, m, t, P, N, X), Tracks(G, l)
  PROVE  /\ Len(G.code) <= Len(H.code) /\ Len(G.code) \in Nat /\ Len(H.code) \in Nat
         /\ \A a \in Nat : 0 < a /\ a <= Len(G.code) => H.code[a].op = G.code[a].op
         /\ \A a : a \in DOMAIN G.at => a \in DOMAIN H.at /\ H.at[a] = G.at[a]
BY LeadsFacts DEF Grows

LEMMA OpStays ==
  ASSUME NEW G, NEW l, NEW H, NEW m, NEW t, NEW P, NEW N, NEW X, Leads(G, l, H, m, t, P, N, X), Tracks(G, l),
         NEW a \in Nat, 0 < a, a <= Len(G.code)
  PROVE  H.code[a].op = G.code[a].op
  BY ONLY Leads(G, l, H, m, t, P, N, X), Tracks(G, l), a \in Nat, 0 < a, a <= Len(G.code), LeadsOps

ForCells == I("Push") \o I("IterInit") \o I("Unit") \o I("Declare")

ForMade(G, l, T, q) ==
  \E H : /\ Leads(G, l, H, emit(l, ForCells), Scoped(Looped(T, q), T.scope + 1), {}, {}, {q})
         /\ Len(H.code) = q + 2 /\ Len(G.code) \in Nat
         /\ H.code[q].op = "IterInit" /\ H.code[q + 1].op = "Unit" /\ H.code[q + 2].op = "Declare"

LEMMA ForMakes ==
  ASSUME NEW G, NEW l, Tracks(G, l)
  PROVE  ForMade(G, l, End(G), Len(G.code) + 2)
<1> DEFINE T == End(G)
           q == Len(G.code) + 2
           g == Len(G.code)
           l1 == emit(l, I("Push"))
           l2 == emit(l1, I("IterInit"))
           l3 == emit(l2, I("Unit"))
           l4 == emit(l3, I("Declare"))
           V == Looped(T, q)
<1>1. LayoutOK(G, T) /\ T \in Layouts /\ g \in Nat BY TracksFacts
<1>2. emit(l, ForCells) = l4
 <2>1. Emittable(I("Push")) /\ Emittable(I("IterInit")) /\ Emittable(I("Unit")) /\ Emittable(I("Declare"))
   BY OneEmittable DEF I, Emitted
 <2> HIDE DEF I
 <2> QED BY <2>1, EmitFour DEF ForCells
<1>3. PICK H1 : Emits(G, l, H1, "Push", 0, Plus(T, 0)) BY EmitPush
<1>4. Leads(G, l, H1, l1, Plus(T, 0), {}, {}, {}) /\ Len(H1.code) = g + 1
  BY <1>3, EmitsPlain DEF Steady, I
<1> HIDE DEF l1
<1>5. Tracks(H1, l1) /\ End(H1) = Plus(T, 0) /\ LayoutOK(H1, T) BY <1>1, <1>4, LeadsFacts
<1>6. PICK H2 : Emits(H1, l1, H2, "IterInit", 0, V) BY <1>1, <1>4, <1>5, EmitIterInit
<1>7. Leads(H1, l1, H2, l2, V, {}, {}, {q}) /\ Len(H2.code) = q /\ H2.code[q].op = "IterInit"
 <2>1. q = Len(H1.code) + 1 BY <1>1, <1>4
 <2> QED BY <2>1, <1>6, EmitsIter DEF I
<1> HIDE DEF l2, V
<1>8. Tracks(H2, l2) /\ End(H2) = V /\ LayoutOK(H2, V) BY <1>5, <1>7, LeadsFacts
<1>9. PICK H3 : Emits(H2, l2, H3, "Unit", 0, Plus(V, 0)) BY <1>8, EmitPush
<1>10. Leads(H2, l2, H3, l3, Plus(V, 0), {}, {}, {}) /\ Len(H3.code) = q + 1 /\ H3.code[q + 1].op = "Unit"
  BY <1>7, <1>9, EmitsPlain DEF Steady, I
<1> HIDE DEF l3
<1>11. Tracks(H3, l3) /\ End(H3) = Plus(V, 0) /\ LayoutOK(H3, V) BY <1>8, <1>10, LeadsFacts
<1>12. V.scope = T.scope BY <1>1, LoopedType DEF V
<1>13. PICK H4 : Emits(H3, l3, H4, "Declare", 0, Scoped(V, T.scope + 1)) BY <1>11, <1>12, EmitDeclare
<1> DEFINE U == Scoped(V, T.scope + 1)
<1>14. /\ Leads(H3, l3, H4, l4, U, {}, {}, {}) /\ Len(H4.code) = Len(H3.code) + 1
       /\ H4.code[Len(H3.code) + 1].op = "Declare"
  BY <1>13, EmitsPlain DEF Steady, I
<1> HIDE DEF U
<1> HIDE DEF l4
<1>15. Leads(G, l, H4, l4, U, {}, {}, {q})
 <2>1. Leads(G, l, H2, l2, V, {}, {}, {q}) BY <1>4, <1>7, LeadsTo
 <2>2. Leads(G, l, H3, l3, Plus(V, 0), {}, {}, {q}) BY <2>1, <1>10, LeadsOn
 <2> QED BY <2>2, <1>14, LeadsOn
<1>16. q \in Nat /\ q > 0 /\ q + 1 \in Nat BY <1>1
<1>17. H4.code[q].op = "IterInit" /\ H4.code[q + 1].op = "Unit"
 <2>1. 0 < q /\ q <= q /\ q <= q + 1 /\ 0 < q + 1 /\ q + 1 <= q + 1 BY ONLY <1>16
 <2>2. q <= Len(H2.code) /\ q <= Len(H3.code) /\ q + 1 <= Len(H3.code) BY ONLY <2>1, <1>7, <1>10
 <2>3. H3.code[q].op = "IterInit" BY ONLY <1>7, <1>8, <1>10, <1>16, <2>1, <2>2, OpStays
 <2>4. H4.code[q].op = H3.code[q].op BY ONLY <1>11, <1>14, <1>16, <2>1, <2>2, OpStays
 <2>5. H4.code[q + 1].op = H3.code[q + 1].op BY ONLY <1>11, <1>14, <1>16, <2>1, <2>2, OpStays
 <2> QED BY ONLY <2>3, <2>4, <2>5, <1>10
<1> QED BY <1>1, <1>2, <1>10, <1>14, <1>15, <1>16, <1>17 DEF U, V, ForMade

ForSteps(d) == I("IterNextStore") \o Instruction("UnwindTo", d) \o I("Unit") \o I("Jump")

LEMMA LoopedScoped ==
  ASSUME NEW s \in Layouts, NEW q, NEW n
  PROVE  Scoped(Looped(s, q), n) = Looped(Scoped(s, n), q)
  BY DEF Scoped, Looped, Layouts

LEMMA ForGoes ==
  ASSUME NEW F, NEW k, Tracks(F, k), NEW T \in Layouts, LayoutOK(F, T), NEW q \in Nat \ {0},
         End(F) = Scoped(Looped(T, q), T.scope + 1)
  PROVE  \E H : /\ Leads(F, k, H, emit(k, ForSteps(T.scope)), End(F), {}, {Len(F.code) + 1, Len(F.code) + 5}, {})
                /\ Len(H.code) = Len(F.code) + 6 /\ Len(F.code) \in Nat
                /\ H.code[Len(F.code) + 1].op = "IterNextStore" /\ H.code[Len(F.code) + 3].op = "UnwindTo"
                /\ H.code[Len(F.code) + 4].op = "Unit" /\ H.code[Len(F.code) + 5].op = "Jump"
                /\ H.at[Len(F.code) + 1] = End(F) /\ H.at[Len(F.code) + 5] = Plus(T, 0)
                /\ Len(F.code) + 1 \in DOMAIN H.at /\ Len(F.code) + 5 \in DOMAIN H.at
                /\ Open_jump(H, Len(F.code) + 1) /\ Open_jump(H, Len(F.code) + 5)
<1> DEFINE g == Len(F.code)
           U == End(F)
           d == T.scope
           r == Scoped(T, d + 1)
           l1 == emit(k, I("IterNextStore"))
           l2 == emit(l1, Instruction("UnwindTo", d))
           l3 == emit(l2, I("Unit"))
           l4 == emit(l3, I("Jump"))
<1>1. LayoutOK(F, U) /\ U \in Layouts /\ g \in Nat /\ d \in Nat /\ d + 1 \in Nat /\ d <= d + 1
  BY TracksFacts, LayoutType
<1>2. /\ U = Looped(r, q) /\ LayoutOK(F, r) /\ Scoped(r, d) = T /\ r.scope = d + 1
 <2>1. Scoped(T, T.scope) = T BY DEF Scoped, Layouts
 <2>2. Good(F) BY DEF Tracks
 <2>3. LayoutOK(F, r) BY <1>1, <2>2, ScopedLayout
 <2>4. U = Looped(r, q) BY LoopedScoped
 <2>5. Scoped(r, d) = T BY <2>1, ScopedTwice
 <2> QED BY <1>1, <2>3, <2>4, <2>5, ScopedType
<1>3. emit(k, ForSteps(d)) = l4
 <2>1. /\ Emittable(I("IterNextStore")) /\ Emittable(Instruction("UnwindTo", d)) /\ Emittable(I("Unit"))
       /\ Emittable(I("Jump"))
   BY <1>1, OneEmittable DEF I, Emitted
 <2> HIDE DEF I
 <2> QED BY <2>1, EmitFour DEF ForSteps
<1> HIDE DEF U, d, r
<1>4. PICK H1 : Emits(F, k, H1, "IterNextStore", 0, r) BY <1>2, EmitIterLast DEF U
<1>5. /\ Leads(F, k, H1, l1, r, {}, {g + 1}, {}) /\ Len(H1.code) = g + 2
      /\ Open_jump(H1, g + 1) /\ H1.code[g + 1].op = "IterNextStore"
      /\ H1.at[g + 1] = U /\ g + 1 \in DOMAIN H1.at
  BY <1>4, EmitsSite DEF I, U
<1> HIDE DEF l1
<1>6. Tracks(H1, l1) /\ End(H1) = r /\ LayoutOK(H1, T) /\ LayoutOK(H1, U) /\ Good(H1)
  BY <1>1, <1>5, LeadsFacts
<1>7. PICK H2 : Emits(H1, l1, H2, "UnwindTo", d, T) BY <1>1, <1>2, <1>6, EmitUnwind
<1>8. Leads(H1, l1, H2, l2, T, {}, {}, {}) /\ Len(H2.code) = g + 3 /\ H2.code[g + 3].op = "UnwindTo"
 <2>1. Len(H1.code) + 1 = g + 3 BY <1>1, <1>5
 <2> QED BY <2>1, <1>7, EmitsPlain DEF Steady
<1> HIDE DEF l2
<1>9. Tracks(H2, l2) /\ End(H2) = T /\ LayoutOK(H2, T) /\ LayoutOK(H2, U) /\ Grows(H1, H2, {}, {})
  BY <1>6, <1>8, LeadsFacts
<1>10. PICK H3 : Emits(H2, l2, H3, "Unit", 0, Plus(T, 0)) BY <1>9, EmitPush
<1>11. Leads(H2, l2, H3, l3, Plus(T, 0), {}, {}, {}) /\ Len(H3.code) = g + 4 /\ H3.code[g + 4].op = "Unit"
 <2>1. Len(H2.code) + 1 = g + 4 BY <1>1, <1>8
 <2> QED BY <2>1, <1>10, EmitsPlain DEF Steady, I
<1> HIDE DEF l3
<1>12. Tracks(H3, l3) /\ End(H3) = Plus(T, 0) /\ LayoutOK(H3, U) BY <1>9, <1>11, LeadsFacts
<1>13. PICK H4 : Emits(H3, l3, H4, "Jump", 0, U) BY <1>12, EmitJump
<1>14. /\ Leads(H3, l3, H4, l4, U, {}, {g + 5}, {}) /\ Len(H4.code) = g + 6
       /\ Open_jump(H4, g + 5) /\ H4.code[g + 5].op = "Jump"
       /\ H4.at[g + 5] = Plus(T, 0) /\ g + 5 \in DOMAIN H4.at
 <2>1. Len(H3.code) + 1 = g + 5 /\ Len(H3.code) + 2 = g + 6 BY <1>1, <1>11
 <2> QED BY <2>1, <1>12, <1>13, EmitsSite DEF I
<1> HIDE DEF l4
<1>15. Leads(H1, l1, H4, l4, U, {}, {g + 5}, {})
 <2>1. Leads(H1, l1, H3, l3, Plus(T, 0), {}, {}, {}) BY <1>6, <1>8, <1>11, LeadsOn
 <2> QED BY <1>6, <2>1, <1>14, LeadsTo
<1>16. Leads(F, k, H4, l4, U, {}, {g + 1, g + 5}, {}) BY <1>5, <1>15, LeadsTrans
<1>17. /\ H4.code[g + 1].op = "IterNextStore" /\ H4.code[g + 3].op = "UnwindTo" /\ H4.code[g + 4].op = "Unit"
       /\ H4.at[g + 1] = U /\ g + 1 \in DOMAIN H4.at
 <2>1. /\ g + 1 \in Nat /\ g + 3 \in Nat /\ g + 4 \in Nat /\ 0 < g + 1 /\ 0 < g + 3 /\ 0 < g + 4
       /\ g + 1 <= g + 2 /\ g + 3 <= g + 3 /\ g + 4 <= g + 4
   BY ONLY <1>1
 <2>2. H4.code[g + 1].op = "IterNextStore" /\ H4.at[g + 1] = U /\ g + 1 \in DOMAIN H4.at
  <3>1. g + 1 <= Len(H1.code) BY ONLY <2>1, <1>5
  <3>2. H4.code[g + 1].op = H1.code[g + 1].op BY ONLY <3>1, <1>6, <1>15, <2>1, OpStays
  <3> QED BY ONLY <3>2, <1>5, <1>6, <1>15, LeadsOps
 <2>3. H4.code[g + 4].op = "Unit"
  <3>1. g + 4 <= Len(H3.code) BY ONLY <2>1, <1>11
  <3>2. H4.code[g + 4].op = H3.code[g + 4].op BY ONLY <3>1, <1>12, <1>14, <2>1, OpStays
  <3> QED BY ONLY <3>2, <1>11
 <2>4. Leads(H2, l2, H4, l4, U, {}, {g + 5}, {}) BY <1>9, <1>11, <1>14, LeadsTo
 <2>5. H4.code[g + 3].op = "UnwindTo"
  <3>1. g + 3 <= Len(H2.code) BY ONLY <2>1, <1>8
  <3>2. H4.code[g + 3].op = H2.code[g + 3].op BY ONLY <3>1, <1>9, <2>4, <2>1, OpStays
  <3> QED BY ONLY <3>2, <1>8
 <2> QED BY <2>2, <2>3, <2>5
<1>18. Open_jump(H4, g + 1) BY <1>6, <1>15, LeadsFacts, <1>5, OpenStays
<1> QED BY <1>1, <1>3, <1>14, <1>16, <1>17, <1>18 DEF U, d

\* The two rows, and the jump of the iterator to the body.
ForReady(G, b, H, z, T, q, U, l, m, n) ==
  /\ Leads(G, b, H, z, U, {}, {q + 7}, {q})
  /\ Tracks(H, n) /\ n.open = b.open /\ n.loops = b.loops /\ n.slots = T.scope + 1
  /\ n.iters = b.iters + 1 /\ n.handlers = b.handlers /\ DOMAIN n = LowFields
  /\ here(l) = q + 3 /\ Len(m.code) = q + 8 /\ l.slots = T.scope
  /\ q \in Nat \ {0} /\ Len(G.code) \in Nat
  /\ ForShape(H, q) /\ H.code[q].op = "IterInit" /\ H.at[q + 3] = U
  /\ Open_jump(H, q + 7) /\ H.code[q + 7].op = "Jump" /\ H.at[q + 7] = Plus(T, 0)
  /\ LayoutOK(H, T) /\ LayoutOK(H, U)

ForInner(l) == [l EXCEPT !.iters = @ + 1, !.slots = @ + 1]

LEMMA ForOpens ==
  ASSUME NEW G, NEW b, Tracks(G, b), b.slots = End(G).scope, b.iters \in Nat
  PROVE  LET T == End(G)
             q == Len(G.code) + 2
             l == emit(b, ForCells)
             m == emit(ForInner(l), ForSteps(l.slots))
         IN \E H, z : ForReady(G, b, H, z, T, q, Scoped(Looped(T, q), T.scope + 1), l, m, patch_here(m, {here(l)}))
<1> DEFINE T == End(G)
           q == Len(G.code) + 2
           U == Scoped(Looped(T, q), T.scope + 1)
           l == emit(b, ForCells)
           k == ForInner(l)
           m == emit(k, ForSteps(l.slots))
           n == patch_here(m, {here(l)})
<1>a. T = End(G) /\ q = Len(G.code) + 2 OBVIOUS
<1>b. U = Scoped(Looped(T, q), T.scope + 1) OBVIOUS
<1>c. l = emit(b, ForCells) OBVIOUS
<1>d. k = ForInner(l) OBVIOUS
<1>e. m = emit(k, ForSteps(l.slots)) OBVIOUS
<1>f. n = patch_here(m, {here(l)}) OBVIOUS
<1> HIDE DEF T, q, U, l, k, m, n
<1>1. LayoutOK(G, T) /\ T \in Layouts /\ Len(G.code) \in Nat /\ T.scope \in Nat /\ q \in Nat \ {0} /\ q \in Nat
  BY <1>a, TracksFacts, LayoutType
<1>2. PICK H1 : /\ Leads(G, b, H1, l, U, {}, {}, {q}) /\ Len(H1.code) = q + 2
                /\ H1.code[q].op = "IterInit" /\ H1.code[q + 1].op = "Unit" /\ H1.code[q + 2].op = "Declare"
  BY <1>a, ForMakes, <1>b, <1>c DEF ForMade
<1>3. /\ Tracks(H1, l) /\ End(H1) = U /\ LayoutOK(H1, T) /\ l.slots = T.scope /\ l.iters = b.iters
      /\ l.handlers = b.handlers /\ l.open = b.open /\ l.loops = b.loops /\ DOMAIN l = LowFields
      /\ Good(H1)
  BY <1>a, <1>1, <1>2, LeadsFacts
<1>4. /\ DOMAIN k = LowFields /\ k.code = l.code /\ k.max_stack = l.max_stack /\ k.patched = l.patched
      /\ k.open = b.open /\ k.loops = b.loops /\ k.handlers = b.handlers
      /\ k.iters = b.iters + 1 /\ k.slots = T.scope + 1
  BY <1>d, <1>3 DEF LowFields, ForInner
<1>5. Tracks(H1, k) BY <1>3, <1>4, TracksSame
<1>6. here(l) = q + 3 BY <1>3, TracksFacts, <1>1, <1>2
<1> DEFINE i == Len(H1.code) + 1
           j == Len(H1.code) + 5
<1>7. i = q + 3 /\ j = q + 7 /\ Len(H1.code) + 6 = q + 8 /\ Len(H1.code) + 3 = q + 5 /\ Len(H1.code) + 4 = q + 6
 <2>1. Len(H1.code) = q + 2 /\ q \in Nat BY ONLY <1>1, <1>2
 <2>2. \A x \in Nat : /\ (x + 2) + 1 = x + 3 /\ (x + 2) + 5 = x + 7 /\ (x + 2) + 6 = x + 8
                     /\ (x + 2) + 3 = x + 5 /\ (x + 2) + 4 = x + 6
   OBVIOUS
 <2> QED BY ONLY <2>1, <2>2
<1>8. PICK H2 : /\ Leads(H1, k, H2, m, U, {}, {i, j}, {})
                /\ Len(H2.code) = q + 8
                /\ H2.code[i].op = "IterNextStore" /\ H2.code[q + 5].op = "UnwindTo"
                /\ H2.code[q + 6].op = "Unit" /\ H2.code[j].op = "Jump"
                /\ H2.at[i] = U /\ H2.at[j] = Plus(T, 0)
                /\ i \in DOMAIN H2.at /\ j \in DOMAIN H2.at
                /\ Open_jump(H2, i) /\ Open_jump(H2, j)
 <2>1. End(H1) = Scoped(Looped(T, q), T.scope + 1) /\ m = emit(k, ForSteps(T.scope)) BY <1>3, <1>b, <1>e
 <2>2. PICK H2 : /\ Leads(H1, k, H2, emit(k, ForSteps(T.scope)), End(H1), {}, {Len(H1.code) + 1, Len(H1.code) + 5}, {})
               /\ Len(H2.code) = Len(H1.code) + 6
               /\ H2.code[Len(H1.code) + 1].op = "IterNextStore" /\ H2.code[Len(H1.code) + 3].op = "UnwindTo"
               /\ H2.code[Len(H1.code) + 4].op = "Unit" /\ H2.code[Len(H1.code) + 5].op = "Jump"
               /\ H2.at[Len(H1.code) + 1] = End(H1) /\ H2.at[Len(H1.code) + 5] = Plus(T, 0)
               /\ Len(H1.code) + 1 \in DOMAIN H2.at /\ Len(H1.code) + 5 \in DOMAIN H2.at
               /\ Open_jump(H2, Len(H1.code) + 1) /\ Open_jump(H2, Len(H1.code) + 5)
   BY <1>1, <1>3, <1>5, <2>1, ForGoes
 <2> QED BY <1>3, <1>7, <2>1, <2>2
<1> HIDE DEF i, j
<1>9. Tracks(H2, m) /\ End(H2) = U /\ Good(H2) /\ LayoutOK(H2, T) /\ LayoutOK(H2, U) /\ m.slots = k.slots /\ m.iters = k.iters
      /\ m.handlers = k.handlers /\ m.open = k.open /\ m.loops = k.loops /\ DOMAIN m = LowFields
  BY <1>3, <1>5, <1>8, LeadsFacts
<1>10. here(m) = Len(H2.code) + 1 /\ here(m) \in DOMAIN H2.at /\ H2.at[here(m)] = U /\ Len(m.code) = q + 8
  BY <1>8, <1>9, TracksFacts DEF End, Tracks
<1> DEFINE P == {i}
<1>11. PICK H : Leads(H2, m, H, patch_to(m, P, here(m)), U, P, {}, {}) /\ Redirects(H2, H, P, here(m))
  BY <1>8, <1>10, <1>9, PatchTracks DEF Ahead, Guards
<1>12. n = patch_to(m, P, here(m)) BY <1>f, <1>6, <1>7 DEF patch_here
<1>13. Leads(H1, k, H, n, U, {}, {j}, {})
 <2>1. /\ \A a \in 1..Len(H1.code) : a \in {} <=> (a \in {} \/ a \in P) BY <1>1, <1>2, <1>7
 <2>2. /\ \A a : (a \in {} \/ (a \in {i, j} /\ a \notin P)) => a \in {j}
       /\ \A a : (a \in {} \/ a \in {}) => a \in {}
   OBVIOUS
 <2> HIDE DEF P
 <2> QED BY <1>5, <1>8, <1>11, <1>12, <2>1, <2>2, LeadsTrans
<1>14. /\ Tracks(H, n) /\ Good(H) /\ End(H) = U /\ LayoutOK(H, T) /\ LayoutOK(H, U) /\ Grows(H1, H, {}, {j}) /\ Calm(H1, H, {})
       /\ n.slots = k.slots /\ n.iters = k.iters /\ n.handlers = k.handlers /\ n.open = k.open /\ n.loops = k.loops
       /\ DOMAIN n = LowFields
  BY <1>5, <1>3, <1>9, <1>11, <1>13, LeadsFacts
<1> DEFINE z == [n EXCEPT !.iters = b.iters, !.slots = b.slots]
<1>15. Leads(H1, l, H, z, U, {}, {j}, {})
 <2>1. /\ DOMAIN z = LowFields /\ z.code = n.code /\ z.max_stack = n.max_stack /\ z.patched = n.patched
       /\ z.iters = b.iters /\ z.slots = b.slots /\ z.open = n.open /\ z.loops = n.loops /\ z.handlers = n.handlers
   BY <1>14 DEF LowFields
 <2> HIDE DEF z
 <2>2. Tracks(H, z) BY <1>14, <2>1, TracksSame
 <2>3. Alike(l, z) BY <2>1, <1>a, <1>3, <1>4, <1>14 DEF Alike
 <2> QED BY <2>2, <2>3, <1>14 DEF Leads
<1> HIDE DEF z
<1>16. Leads(G, b, H, z, U, {}, {j}, {q}) BY <1>2, <1>15, LeadsTrans
<1>17. /\ H.at = H2.at /\ Len(H.code) = q + 8 /\ \A a \in 1..(q + 8) : H.code[a].op = H2.code[a].op
  BY <1>8, <1>11 DEF Redirects
<1>18. ForShape(H, q) /\ H.code[q].op = "IterInit" /\ H.code[q + 7].op = "Jump"
 <2>1. H2.code[q].op = "IterInit" /\ H2.code[q + 1].op = "Unit" /\ H2.code[q + 2].op = "Declare"
  <3>1. q \in Nat /\ q + 1 \in Nat /\ q + 2 \in Nat /\ q > 0 /\ q <= q + 2 /\ q + 1 <= q + 2 BY <1>1
  <3>2. \A a \in Nat : 0 < a /\ a <= Len(H1.code) => H2.code[a].op = H1.code[a].op
    BY <1>8, <1>5, LeadsOps
  <3> QED BY <3>1, <3>2, <1>2
 <2>2. {q, q + 1, q + 2, q + 3, q + 5, q + 6, q + 7} \subseteq 1..(q + 8) /\ q + 8 <= Len(H.code)
   BY <1>1, <1>17
 <2> QED BY <2>1, <2>2, <1>7, <1>8, <1>17 DEF ForShape
<1>19. Open_jump(H, j) BY <1>1, <1>7, <1>9, <1>11, LeadsFacts, <1>8, <1>14, OpenStays
<1>20. ForReady(G, b, H, z, T, q, U, l, m, n)
 <2>1. Leads(G, b, H, z, U, {}, {q + 7}, {q}) /\ Open_jump(H, q + 7) /\ H.at[q + 3] = U /\ H.at[q + 7] = Plus(T, 0)
   BY <1>7, <1>8, <1>16, <1>17, <1>19
 <2>2. /\ Tracks(H, n) /\ n.open = b.open /\ n.loops = b.loops /\ n.slots = T.scope + 1
       /\ n.iters = b.iters + 1 /\ n.handlers = b.handlers /\ DOMAIN n = LowFields
   BY <1>4, <1>14
 <2> QED BY <2>1, <2>2, <1>1, <1>3, <1>6, <1>10, <1>14, <1>18 DEF ForReady
<1> QED BY <1>20 DEF T, q, U, l, k, m, n

LEMMA StmtForSound ==
  ASSUME LowOK(low), LowSound(low), Stmt_For
  PROVE  LowSound(low')
<1>1. PICK last \in Lasts :
        LET l == emit(Begun(last), ForCells)
            m == emit(ForInner(l), ForSteps(l.slots))
            n == patch_here(m, {here(l)})
        IN low' = Opened(begin_for(n, l.slots), Open("for", Wanted(last), Len(m.code) - 1, here(l)), "Effect", FALSE)
  BY DEF Stmt_For, Lower, ForCells, ForInner, ForSteps
<1> DEFINE b == Begun(last)
           w == Wanted(last)
<1>2. PICK G, K : Stands(G, K, b) /\ Want(Inmost(K, b)) = w BY BegunSound DEF Stmt_For, Lasts
<1> HIDE DEF b, w
<1> DEFINE T == End(G)
           q == Len(G.code) + 2
           U == Scoped(Looped(T, q), T.scope + 1)
           l == emit(b, ForCells)
           m == emit(ForInner(l), ForSteps(l.slots))
           n == patch_here(m, {here(l)})
           r == begin_for(n, l.slots)
           p == Loop(0, l.slots, n, TRUE)
           c == Open("for", w, Len(m.code) - 1, here(l))
<1>a. low' = Opened(r, c, "Effect", FALSE) BY <1>1 DEF b, w
<1>b. T = End(G) /\ U = Scoped(Looped(T, q), T.scope + 1) /\ q = Len(G.code) + 2 OBVIOUS
<1>3. /\ Base(K).scope <= T.scope /\ T = Scoped(Base(K), T.scope)
      /\ b.iters = T.iters /\ b.handlers = Len(T.handlers) /\ b.slots = T.scope
      /\ Inmost(K, b).some /\ w \in Wants /\ Over(Base(K), T)
      /\ T \in Layouts /\ LayoutOK(G, T) /\ Tracks(G, b) /\ b.slots \in Nat
      /\ DOMAIN b = LowFields
  BY <1>2, StandsOver
<1>4. T.iters \in Nat /\ T.scope \in Nat BY <1>3, LayoutType
<1>5. PICK H, z : ForReady(G, b, H, z, T, q, U, l, m, n) BY <1>3, <1>4, ForOpens
<1> HIDE DEF l, m, n
<1> HIDE DEF T, q, U
<1>6. /\ DOMAIN r = LowFields /\ r.code = n.code /\ r.max_stack = n.max_stack /\ r.patched = n.patched
      /\ r.open = b.open /\ r.slots = n.slots /\ r.iters = n.iters /\ r.handlers = n.handlers
      /\ r.loops = Append(b.loops, p)
  BY <1>5 DEF begin_for, LowFields, ForReady
<1> HIDE DEF r
<1>7. Tracks(H, r) BY <1>5, <1>6, TracksSame DEF ForReady
<1>8. /\ U \in Layouts /\ U.iters = T.iters + 1 /\ U.scope = T.scope + 1 /\ U.handlers = T.handlers
 <2>1. q \in Nat /\ T.scope + 1 \in Nat BY <1>4, <1>5 DEF ForReady
 <2>2. Looped(T, q) \in Layouts /\ Looped(T, q).iters = T.iters + 1 /\ Looped(T, q).handlers = T.handlers
   BY <2>1, <1>3, LoopedType
 <2> QED BY <2>1, <2>2, <1>b, ScopedType
<1>9. /\ Leads(G, b, H, z, U, {}, {q + 7}, {q})
      /\ n.slots = T.scope + 1 /\ n.iters = T.iters + 1 /\ n.handlers = Len(T.handlers)
      /\ here(l) = q + 3 /\ Len(m.code) = q + 8 /\ l.slots = T.scope
      /\ q \in Nat \ {0} /\ q \in Nat /\ Len(G.code) \in Nat
      /\ ForShape(H, q) /\ H.code[q].op = "IterInit" /\ H.at[q + 3] = U
      /\ Open_jump(H, q + 7) /\ H.code[q + 7].op = "Jump" /\ H.at[q + 7] = Plus(T, 0)
      /\ LayoutOK(H, T) /\ LayoutOK(H, U)
  BY <1>3, <1>5 DEF ForReady
<1>10. /\ c \in Opens /\ c.kind = "for" /\ c.kind \in Repeated /\ c.wants = w /\ c.top = q + 3
       /\ c.site = q + 7 /\ c.site - 7 = q /\ c.top = c.site - 4
  BY <1>9, <1>3 DEF Open, Opens, StmtKinds, Repeated
<1> DEFINE j == q + 7
<1>11. PICK N : (\A x : x \in N <=> x = j) /\ N = {j} OBVIOUS
<1>12. Awaits(c, p, "out", N) /\ Ring(T, U, c, p)
 <2>1. /\ p.breaks = {} /\ p.continues = {} /\ p.break_depth = T.scope /\ p.continue_depth = U.scope
       /\ p.iters = U.iters /\ p.handlers = Len(U.handlers) /\ p.owns_iterator = TRUE
       /\ p.continue_target = 0
   BY <1>8, <1>9 DEF Loop
 <2> HIDE DEF p, c
 <2>2. Outs(c, p) = {j} /\ Ins(c, p) = {} BY <2>1, <1>10 DEF Outs, Ins
 <2> QED BY <2>1, <2>2, <1>10, <1>11 DEF Awaits, Ring
<1> HIDE DEF c, p
<1>13. Fits(H, Base(K), T, U, c, Inmost(K, b), Block("block", "Effect", r.slots, FALSE))
 <2>1. q \in 1..Len(H.code) /\ q + 3 \in DOMAIN H.at
  <3>1. Len(H.code) \in Nat /\ q + 8 <= Len(H.code) /\ q + 3 \in DOMAIN H.at
    BY <1>3, <1>9, LeadsFacts DEF ForShape
  <3> QED BY <3>1, <1>9
 <2>2. /\ Block("block", "Effect", r.slots, FALSE).depth = U.scope
       /\ Block("block", "Effect", r.slots, FALSE).wants = "Effect"
   BY <1>6, <1>8, <1>9 DEF Block
 <2>3. U = Scoped(Looped(T, c.site - 7), T.scope + 1) BY <1>b, <1>10
 <2> QED BY <1>2, <1>3, <1>9, <1>10, <2>1, <2>2, <2>3 DEF Fits, Want, Repeated
<1>14. \A x \in N : Open_jump(H, x) /\ Ahead(H.code[x].op, x, H.at[x], Aim(c, T, U, "out"))
  BY <1>10, <1>9, <1>11 DEF Aim, Ahead, Guards
<1>15. PICK X : (\A x : x \in X <=> x = q) /\ X = {q} OBVIOUS
<1>16. LowSound(Opened(r, c, "Effect", FALSE))
 <2>1. /\ "Effect" \in Wants /\ FALSE \in BOOLEAN /\ r.slots \in Nat /\ "out" \in Ways
       /\ r.loops = (IF c.kind \in Repeated THEN Append(b.loops, p) ELSE b.loops)
       /\ r.iters = U.iters /\ r.handlers = Len(U.handlers)
  <3>1. "Effect" \in Wants /\ FALSE \in BOOLEAN /\ "out" \in Ways BY ONLY TRUE DEF Wants, Ways
  <3>2. T.scope + 1 \in Nat BY ONLY <1>4
  <3> QED BY ONLY <3>1, <3>2, <1>6, <1>8, <1>9, <1>10
 <2>2. /\ Leads(G, b, H, z, U, {}, N, X) /\ \A x \in N : ~(x <= Len(G.code)) /\ x \in Nat
   BY <1>9, <1>11, <1>15, <1>b
 <2>3. \A x \in X : /\ H.code[x].op = "IterInit" => ForShape(H, x)
                    /\ H.code[x].op = "IterDrop" => BreakShape(H, Given(K, N, <<K.depth, "out">>), b.open, x)
   BY <1>9, <1>15
 <2>4. T = End(G) /\ Stands(G, K, b) BY <1>2, <1>b
 <2> QED BY <2>4, <1>6, <1>7, <1>10, <1>12, <1>13, <1>14, <2>1, <2>2, <2>3, OpensAt
<1> QED BY <1>a, <1>16

(* A loop is left, or goes on. *)
\* The innermost loop, in which no operand is open.
InLoop(G, K, b, e) ==
  LET c == Ctx(b.open, e)
      p == LastOf(b.loops)
      T == K.start[e]
      U == K.base[e + 1]
  IN /\ e \in 1..(K.depth - 1) /\ e \in Nat /\ e = K.loop[Len(b.loops)] /\ c.kind \in Repeated
     /\ LayoutOK(G, T) /\ LayoutOK(G, U) /\ T \in Layouts /\ U \in Layouts
     /\ Ring(T, U, c, p) /\ Over(U, Base(K))
     /\ c.top \in DOMAIN G.at /\ G.at[c.top] = U
     /\ c.kind # "for" => U = T
     /\ c.kind = "for" =>
          /\ c.site - 7 \in 1..Len(G.code) /\ G.code[c.site - 7].op = "IterInit" /\ c.top = c.site - 4
          /\ U = Scoped(Looped(T, c.site - 7), T.scope + 1)
          /\ Open_jump(G, c.site) /\ K.own[c.site] = <<e, "out">>
          /\ ForShape(G, c.site - 7)

LEMMA EvenOrOdd ==
  ASSUME NEW n \in Nat
  PROVE  \E d \in Nat : n = 2 * d \/ n = 2 * d + 1
<1> DEFINE X == {j \in Nat : ~\E d \in Nat : j = 2 * d \/ j = 2 * d + 1}
<1>1. SUFFICES ASSUME X # {} PROVE FALSE OBVIOUS
<1>2. PICK m \in X : \A j \in X : m <= j BY <1>1, LeastOf
<1>3. m \in Nat /\ m # 0 BY <1>2
<1>4. m - 1 \in Nat /\ m - 1 \notin X BY <1>2, <1>3
<1>5. PICK d \in Nat : m - 1 = 2 * d \/ m - 1 = 2 * d + 1 BY <1>4
<1>6. m = 2 * d + 1 \/ (m = 2 * (d + 1) /\ d + 1 \in Nat) BY <1>3, <1>5
<1> QED BY <1>2, <1>6

LEMMA NoOperand ==
  ASSUME NEW K \in Plans, NEW o, NEW q, Nests(K, o, q), Len(q) \in Nat, Len(q) > 0, ~InOperand,
         Len(low.open) = Len(o), \A i \in 1..Len(o) : low.open[i].kind = o[i].kind,
         DOMAIN low.open = 1..Len(o)
  PROVE  LET e == K.loop[Len(q)]
         IN /\ e \in 1..(K.depth - 1) /\ Ctx(o, e).kind \in Repeated
            /\ \A i \in (e + 1)..(K.depth - 1) : Ctx(o, i).kind \notin Repeated \cup {"operand"}
<1> DEFINE e == K.loop[Len(q)]
           D == K.depth
<1>1. D \in Nat /\ D > 0 /\ Len(K.loop) = Len(q) /\ Len(o) = 2 * D - 1 BY PlanFacts DEF Nests
<1>2. e \in 1..(D - 1) /\ Ctx(o, e).kind \in Repeated BY <1>1 DEF Nests
<1>3. \A k \in 1..Len(q) : K.loop[k] <= e /\ K.loop[k] \in 1..(D - 1)
 <2> TAKE k \in 1..Len(q)
 <2>1. k \in 1..Len(K.loop) /\ Len(q) \in 1..Len(K.loop) /\ (k = Len(q) \/ k < Len(q)) BY <1>1
 <2>2. K.loop[k] \in 1..(D - 1) BY <2>1 DEF Nests
 <2>3. k < Len(q) => K.loop[k] < e BY <2>1 DEF Nests
 <2> QED BY <2>1, <2>2, <2>3, <1>2
<1> HIDE DEF e
<1>4. ASSUME NEW i \in (e + 1)..(D - 1), Ctx(o, i).kind \in Repeated PROVE FALSE
 <2>1. i \in 1..(D - 1) /\ i > e BY <1>1, <1>2
 <2>2. PICK k \in 1..Len(K.loop) : K.loop[k] = i BY <1>4, <2>1 DEF Nests
 <2>3. k \in 1..Len(q) BY <1>1, <2>2
 <2>4. i <= e BY <1>3, <2>2, <2>3
 <2>5. i \in Nat /\ e \in Nat BY <1>1, <1>2, <2>1
 <2> QED BY <2>1, <2>4, <2>5
<1>5. ASSUME NEW i \in (e + 1)..(D - 1), Ctx(o, i).kind = "operand" PROVE FALSE
 <2>1. 2 * i \in DOMAIN low.open /\ low.open[2 * i].kind = "operand" /\ i \in Nat /\ e \in Nat /\ i > e
  <3>1. 2 * i \in 1..Len(o) /\ i \in Nat /\ e \in Nat /\ i > e BY <1>1, <1>2
  <3> QED BY <3>1, <1>5 DEF Ctx
 <2>2. ASSUME NEW j \in DOMAIN low.open, low.open[j].kind \in {"loop", "while", "do", "for"}
       PROVE  j < 2 * i
  <3>1. j \in 1..Len(o) /\ o[j].kind \in Repeated BY <2>2 DEF Repeated
  <3>2. j \in Nat /\ j > 0 /\ j <= 2 * D - 1 BY <3>1, <1>1
  <3>3. PICK d \in Nat : j = 2 * d \/ j = 2 * d - 1
   <4>1. PICK e1 \in Nat : j = 2 * e1 \/ j = 2 * e1 + 1 BY <3>2, EvenOrOdd
   <4>2. e1 + 1 \in Nat /\ (j = 2 * e1 \/ j = 2 * (e1 + 1) - 1) BY <4>1
   <4> QED BY <4>2
  <3>4. CASE j = 2 * d - 1
   <4>1. d \in 1..D BY <3>2, <3>4, <1>1
   <4>2. o[j].kind \in {"program", "block"} BY <3>4, <4>1 DEF Nests, Blk
   <4> QED BY <3>1, <4>2 DEF Repeated
  <3>5. CASE j = 2 * d
   <4>1. d \in 1..(D - 1) BY <3>2, <3>5, <1>1
   <4>2. Ctx(o, d).kind \in Repeated BY <3>1, <3>5 DEF Ctx
   <4>3. PICK k \in 1..Len(K.loop) : K.loop[k] = d BY <4>1, <4>2 DEF Nests
   <4>4. d <= e BY <1>1, <1>3, <4>3
   <4> QED BY <4>1, <4>4, <3>5, <2>1
  <3> QED BY <3>3, <3>4, <3>5
 <2> QED BY <2>1, <2>2 DEF InOperand
<1> QED BY <1>2, <1>4, <1>5 DEF e

LEMMA InLoopIs ==
  ASSUME NEW G, NEW K, NEW b, Stands(G, K, b), ~InOperand, b.loops # <<>>,
         Len(low.open) = Len(b.open), \A i \in 1..Len(b.open) : low.open[i].kind = b.open[i].kind,
         DOMAIN low.open = 1..Len(b.open)
  PROVE  \E e : InLoop(G, K, b, e)
<1> DEFINE n == Len(b.loops)
           e == K.loop[n]
           o == b.open
           c == Ctx(o, e)
           p == LastOf(b.loops)
           T == K.start[e]
           U == K.base[e + 1]
           D == K.depth
<1>1. /\ K \in Plans /\ Nests(K, o, b.loops) /\ Links(G, K, o) /\ Rings(K, o, b.loops) /\ Levels(K, o)
      /\ Jumps(G, K, o, b.loops, {}) /\ Shapes(G, K, o) /\ Good(G)
  BY DEF Stands, Ctxs, Tracks
<1>2. b.loops \in Seq(Loops) /\ n \in Nat /\ n > 0
 <2>1. b.loops \in Seq(Loops) BY DEF Stands
 <2> HIDE DEF n
 <2>2. Len(b.loops) \in Nat /\ Len(b.loops) > 0 BY <2>1
 <2> QED BY <2>1, <2>2 DEF n
<1>3. /\ e \in 1..(D - 1) /\ c.kind \in Repeated
      /\ \A i \in (e + 1)..(D - 1) : Ctx(o, i).kind \notin Repeated \cup {"operand"}
  BY <1>1, <1>2, NoOperand
<1> HIDE DEF n, e, o, D
<1>4. D = K.depth /\ D \in Nat /\ D > 0 /\ D - 1 \in Nat /\ e \in Nat /\ e + 1 \in Nat
  BY <1>1, <1>3, PlanFacts DEF D
<1>5. Fits(G, K.base[e], T, U, c, Blk(o, e), Blk(o, e + 1)) BY <1>1, <1>3, <1>4 DEF Links
<1>6. Ring(T, U, c, p) BY <1>2, <1>1 DEF n, LastOf, e, Rings
<1>7. Over(U, Base(K))
 <2>1. Base(K) = K.base[D] /\ D \in 1..K.depth BY ONLY <1>4 DEF Base
 <2> QED BY ONLY <2>1, <1>1, <1>3 DEF Levels
<1>8. T \in Layouts /\ U \in Layouts BY <1>1, <1>4, PlanFacts
<1>9. ASSUME c.kind = "for"
      PROVE  Open_jump(G, c.site) /\ K.own[c.site] = <<e, "out">> /\ ForShape(G, c.site - 7)
 <2>1. n \in 1..Len(b.loops) /\ p = b.loops[n] /\ e = K.loop[n] BY <1>2 DEF n, LastOf, e
 <2>2. Owns(G, K, {}, e, "out", Outs(c, p)) BY <2>1, <1>1 DEF Jumps
 <2>3. c.site \in Outs(c, p) BY <1>9 DEF Outs
 <2>4. c.site - 7 \in 1..Len(G.code) /\ G.code[c.site - 7].op = "IterInit" BY <1>5, <1>9 DEF Fits
 <2> QED BY <2>2, <2>3, <2>4, <1>1 DEF Owns, Shapes
<1>10. e = K.loop[Len(b.loops)] BY DEF e, n
<1>11. InLoop(G, K, b, e) BY <1>3, <1>5, <1>4, <1>6, <1>7, <1>8, <1>9, <1>10 DEF Fits, InLoop, o
<1> QED BY <1>11
\* A jump that nobody has yet belongs to the innermost loop.
Took(p, r, way, j) ==
  /\ r.break_depth = p.break_depth /\ r.continue_depth = p.continue_depth /\ r.iters = p.iters
  /\ r.handlers = p.handlers /\ r.owns_iterator = p.owns_iterator /\ r.continue_target = p.continue_target
  /\ r.breaks = IF way = "out" THEN p.breaks \cup {j} ELSE p.breaks
  /\ r.continues = IF way = "in" THEN p.continues \cup {j} ELSE p.continues

LEMMA TakesJump ==
  ASSUME NEW c, c.kind \in Repeated, NEW p, NEW r, NEW way \in Ways, NEW j, Took(p, r, way, j),
         way = "in" => c.kind \in {"while", "for"}
  PROVE  /\ \A a : a \in Outs(c, r) <=> (a \in Outs(c, p) \/ (way = "out" /\ a = j))
         /\ \A a : a \in Ins(c, r) <=> (a \in Ins(c, p) \/ (way = "in" /\ a = j))
BY DEF Took, Ways, Outs, Ins, Repeated

Only(N, j) == \A a : a \in N <=> a = j

LEMMA OwnsElse ==
  ASSUME NEW H, NEW J, NEW N, NEW j, Only(N, j), NEW d, NEW e, NEW way, NEW w, J.own[j] = <<e, way>>,
         e # d \/ way # w, NEW S, Owns(H, J, N, d, w, S)
  PROVE  Owns(H, J, {}, d, w, S)
BY DEF Owns, Only

LEMMA OwnsToo ==
  ASSUME NEW H, NEW J, NEW N, NEW j, Only(N, j), NEW d, NEW w, J.own[j] = <<d, w>>, Open_jump(H, j),
         NEW S, NEW R, Owns(H, J, N, d, w, S), \A a : a \in R <=> (a \in S \/ a = j)
  PROVE  Owns(H, J, {}, d, w, R)
BY DEF Owns, Only

LEMMA OwnsSame ==
  ASSUME NEW H, NEW J, NEW N, NEW d, NEW w, NEW S, NEW R, Owns(H, J, N, d, w, S), \A a : a \in R <=> a \in S
  PROVE  Owns(H, J, N, d, w, R)
  BY DEF Owns

LEMMA CtxsTake ==
  ASSUME NEW H, NEW J, NEW o, NEW q, NEW v, NEW N, Ctxs(H, J, o, q, N), NEW j, \A a : a \in N <=> a = j,
         Len(q) \in Nat, Len(q) > 0, Len(v) = Len(q), \A k \in 1..(Len(q) - 1) : v[k] = q[k],
         NEW way \in Ways, Took(q[Len(q)], v[Len(q)], way, j),
         NEW e, e = J.loop[Len(q)], way = "in" => Ctx(o, e).kind \in {"while", "for"},
         Open_jump(H, j), J.own[j] = <<e, way>>,
         Ahead(H.code[j].op, j, H.at[j], Goal(J, o, <<e, way>>))
  PROVE  Ctxs(H, J, o, v, {})
<1> DEFINE n == Len(q)
<1>a. Only(N, j) BY DEF Only
<1>1. /\ J \in Plans /\ Nests(J, o, q) /\ Rings(J, o, q) /\ Jumps(H, J, o, q, N) /\ J.depth \in Nat /\ Len(J.loop) = n
  BY PlanFacts DEF Ctxs, Nests
<1>2. e \in 1..(J.depth - 1) /\ Ctx(o, e).kind \in Repeated BY <1>1 DEF Nests
<1>3. ASSUME NEW k \in 1..n, k # n PROVE J.loop[k] # e /\ v[k] = q[k] BY <1>1, <1>3, <1>2 DEF Nests
<1>4. Nests(J, o, v) BY <1>1 DEF Nests
<1>5. Rings(J, o, v)
 <2>1. ASSUME NEW k \in 1..Len(v)
       PROVE  Ring(J.start[J.loop[k]], J.base[J.loop[k] + 1], Ctx(o, J.loop[k]), v[k])
  <3>1. Ring(J.start[J.loop[k]], J.base[J.loop[k] + 1], Ctx(o, J.loop[k]), q[k]) BY <1>1, <2>1 DEF Rings
  <3>2. CASE k # n BY <1>3, <2>1, <3>1, <3>2
  <3>3. CASE k = n
   <4> DEFINE c == Ctx(o, J.loop[k])
   <4>1. ASSUME c.kind = "while" PROVE c.site # j BY <4>1, <1>1, <2>1 DEF Ins, Repeated, Jumps, Owns
   <4>2. c = Ctx(o, e) /\ Took(q[k], v[k], way, j) BY <3>3
   <4> HIDE DEF c
   <4>3. Ring(J.start[J.loop[k]], J.base[J.loop[k] + 1], c, q[k]) BY <3>1 DEF c
   <4>4. Ring(J.start[J.loop[k]], J.base[J.loop[k] + 1], c, v[k]) BY <4>1, <4>2, <4>3 DEF Ring, Took
   <4> QED BY <4>4 DEF c
  <3> QED BY <3>2, <3>3
 <2> QED BY <2>1 DEF Rings
<1>6. ASSUME NEW a, Open_jump(H, a)
      PROVE  /\ J.own[a][1] \in 1..(J.depth - 1)
             /\ Ahead(H.code[a].op, a, H.at[a], Goal(J, o, J.own[a]))
  BY <1>2, <1>1, <1>6 DEF Jumps
<1>7. ASSUME NEW d \in 1..(J.depth - 1), Ctx(o, d).kind \notin Repeated
      PROVE  Owns(H, J, {}, d, "out", Sites(Ctx(o, d))) /\ Owns(H, J, {}, d, "in", {})
 <2>1. Owns(H, J, N, d, "out", Sites(Ctx(o, d))) /\ Owns(H, J, N, d, "in", {}) /\ e # d
   BY <1>1, <1>2, <1>7 DEF Jumps
 <2>2. Owns(H, J, {}, d, "out", Sites(Ctx(o, d))) BY ONLY <1>a, <2>1, OwnsElse, J.own[j] = <<e, way>>
 <2>3. Owns(H, J, {}, d, "in", {}) BY ONLY <1>a, <2>1, OwnsElse, J.own[j] = <<e, way>>
 <2> QED BY <2>2, <2>3
<1>8. ASSUME NEW k \in 1..Len(v)
      PROVE  /\ Owns(H, J, {}, J.loop[k], "out", Outs(Ctx(o, J.loop[k]), v[k]))
             /\ Owns(H, J, {}, J.loop[k], "in", Ins(Ctx(o, J.loop[k]), v[k]))
 <2> DEFINE d == J.loop[k]
            c == Ctx(o, d)
 <2>1. Owns(H, J, N, d, "out", Outs(c, q[k])) /\ Owns(H, J, N, d, "in", Ins(c, q[k]))
   BY <1>1, <1>8 DEF Jumps
 <2>2. CASE k # n
  <3>1. d # e /\ v[k] = q[k] BY <1>3, <1>8, <2>2
  <3> HIDE DEF d
  <3>2. Owns(H, J, {}, d, "out", Outs(c, q[k])) /\ Owns(H, J, {}, d, "in", Ins(c, q[k]))
    BY ONLY <1>a, <2>1, <3>1, OwnsElse, J.own[j] = <<e, way>>
  <3> QED BY <3>1, <3>2 DEF d
 <2>3. CASE k = n
  <3>1. d = e /\ c.kind \in Repeated /\ (way = "in" => c.kind \in {"while", "for"}) BY <1>2, <2>3
  <3> HIDE DEF d, c
  <3>2. /\ \A a : a \in Outs(c, v[k]) <=> (a \in Outs(c, q[k]) \/ (way = "out" /\ a = j))
        /\ \A a : a \in Ins(c, v[k]) <=> (a \in Ins(c, q[k]) \/ (way = "in" /\ a = j))
   <4>1. Took(q[k], v[k], way, j) BY <2>3
   <4> QED BY ONLY <4>1, <3>1, TakesJump, way \in Ways
  <3>3. J.own[j] = <<d, way>> BY <3>1
  <3>4. CASE way = "out"
   <4>1. \A a : a \in Ins(c, v[k]) <=> a \in Ins(c, q[k]) BY <3>2, <3>4
   <4>2. Owns(H, J, {}, d, "in", Ins(c, q[k])) BY ONLY <1>a, <2>1, <3>3, <3>4, OwnsElse
   <4>3. Owns(H, J, {}, d, "in", Ins(c, v[k])) BY <4>1, <4>2, OwnsSame
   <4>4. \A a : a \in Outs(c, v[k]) <=> (a \in Outs(c, q[k]) \/ a = j) BY <3>2, <3>4
   <4>5. Owns(H, J, {}, d, "out", Outs(c, v[k])) BY <1>a, <2>1, <3>3, <3>4, <4>4, OwnsToo
   <4> QED BY <4>3, <4>5 DEF d, c
  <3>5. CASE way = "in"
   <4>1. \A a : a \in Outs(c, v[k]) <=> a \in Outs(c, q[k]) BY <3>2, <3>5
   <4>2. Owns(H, J, {}, d, "out", Outs(c, q[k])) BY ONLY <1>a, <2>1, <3>3, <3>5, OwnsElse
   <4>3. Owns(H, J, {}, d, "out", Outs(c, v[k])) BY <4>1, <4>2, OwnsSame
   <4>4. \A a : a \in Ins(c, v[k]) <=> (a \in Ins(c, q[k]) \/ a = j) BY <3>2, <3>5
   <4>5. Owns(H, J, {}, d, "in", Ins(c, v[k])) BY <1>a, <2>1, <3>3, <3>5, <4>4, OwnsToo
   <4> QED BY <4>3, <4>5 DEF d, c
  <3> QED BY <3>4, <3>5 DEF Ways
 <2> QED BY <2>2, <2>3
<1>9. Jumps(H, J, o, v, {}) BY <1>6, <1>7, <1>8 DEF Jumps
<1> QED BY <1>4, <1>5, <1>9 DEF Ctxs

\* The Unit behind a jump stays where a value is wanted.
LEMMA UnitLowered ==
  ASSUME NEW F, NEW k, Tracks(F, k), NEW w \in Wants
  PROVE  \E H : Leads(F, k, H, Lowered(emit(k, I("Unit")), w), Valued(End(F), w), {}, {}, {})
<1> DEFINE T == End(F)
           l == emit(k, I("Unit"))
<1>1. LayoutOK(F, T) BY TracksFacts
<1>2. PICK G : Emits(F, k, G, "Unit", 0, Plus(T, 0)) BY EmitPush
<1>3. Leads(F, k, G, l, Plus(T, 0), {}, {}, {}) /\ Len(G.code) = Len(F.code) + 1 /\ Len(F.code) \in Nat
  BY <1>2, EmitsPlain DEF Steady, I
<1> HIDE DEF l, T
<1>4. /\ Tracks(G, l) /\ LayoutOK(G, T) /\ End(G) = Plus(T, 0) /\ Grows(F, G, {}, {}) /\ Calm(F, G, {})
  BY <1>1, <1>3, LeadsFacts
<1>5. Alike(k, l) /\ Len(F.code) < Len(G.code) BY <1>3 DEF Leads
<1>6. \E H : Leads(F, k, H, Lowered(l, w), Valued(T, w), {}, {}, {}) BY <1>4, <1>5, LoweredTracks
<1> QED BY <1>6 DEF l, T

LEMMA LeaveEnds ==
  ASSUME NEW G, NEW K, NEW b, Stands(G, K, b), NEW w, Want(Inmost(K, b)) = w,
         NEW H, NEW m, Tracks(H, m), NEW N, Grows(G, H, {}, N), End(H) = End(G),
         NEW J, J.base = K.base, J.depth = K.depth, Ctxs(H, J, b.open, m.loops, {}),
         m.open = b.open, m.iters = b.iters, m.handlers = b.handlers, m.slots = b.slots
  PROVE  LowSound(Lowered(emit(m, I("Unit")), w))
<1>1. w \in Wants /\ b.slots \in Nat /\ End(G) = Scoped(Base(K), b.slots) /\ Good(G) /\ Good(H)
  BY StandsOver, StandsFacts DEF Tracks
<1> DEFINE n == Lowered(emit(m, I("Unit")), w)
<1>2. PICK I2 : Leads(H, m, I2, n, Valued(End(H), w), {}, {}, {}) BY <1>1, UnitLowered
<1> HIDE DEF n
<1>3. /\ Tracks(I2, n) /\ Good(I2) /\ End(I2) = Valued(End(H), w) /\ Grows(H, I2, {}, {}) /\ Calm(H, I2, {})
      /\ n.slots = m.slots /\ n.iters = m.iters /\ n.handlers = m.handlers /\ n.loops = m.loops /\ n.open = m.open
  BY <1>2, LeadsFacts
<1>4. Ctxs(I2, J, n.open, n.loops, {}) BY <1>1, <1>3, CtxsStay
<1>5. Grows(G, I2, {}, N) BY <1>1, <1>3, GrowsTrans DEF Good
<1>6. LowSound(n)
 <2>1. /\ n.open = b.open /\ n.iters = b.iters /\ n.handlers = b.handlers /\ n.slots \in Nat /\ b.slots <= n.slots
       /\ End(I2) = Valued(Scoped(Base(K), n.slots), Want(Inmost(K, b)))
   BY <1>1, <1>3
 <2>2. Stands(G, K, b) /\ J.base = K.base /\ J.depth = K.depth OBVIOUS
 <2> QED BY ONLY <1>3, <1>4, <1>5, <2>1, <2>2, StmtStops
<1> QED BY <1>6 DEF n

LEMMA DisarmedOver ==
  ASSUME NEW U \in Layouts, NEW B \in Layouts, Over(U, B), NEW s \in Nat
  PROVE  /\ Len(U.handlers) \in 0..Len(B.handlers)
         /\ Disarmed(Scoped(B, s), Len(U.handlers)) = Scoped(U, s)
         /\ Disarmed(Plus(Scoped(B, s), 0), Len(U.handlers)) = Plus(Scoped(U, s), 0)
<1> DEFINE n == Len(U.handlers)
           S == Scoped(B, s)
           V == Scoped(U, s)
           P == Plus(S, 0)
           W == Plus(V, 0)
<1>1. n \in 0..Len(B.handlers) /\ B.handlers \in Seq(Regions) /\ U.handlers \in Seq(Regions)
  BY LayoutType DEF Over
<1>2. /\ S \in Layouts /\ S.stack = B.stack /\ S.iters = B.iters /\ S.scope = s /\ S.handlers = B.handlers
      /\ V \in Layouts /\ V.stack = U.stack /\ V.iters = U.iters /\ V.scope = s /\ V.handlers = U.handlers
  BY ScopedType
<1> HIDE DEF S, V
<1>3. /\ P \in Layouts /\ P.stack = Append(S.stack, 0) /\ P.iters = S.iters /\ P.scope = S.scope
      /\ P.handlers = S.handlers
      /\ W \in Layouts /\ W.stack = Append(V.stack, 0) /\ W.iters = V.iters /\ W.scope = V.scope
      /\ W.handlers = V.handlers
  BY <1>2, PlusType
<1> HIDE DEF P, W, n
<1>4. B.stack = U.stack /\ B.iters = U.iters /\ SubSeq(B.handlers, 1, n) = U.handlers BY DEF Over, n
<1>5. n \in 0..Len(S.handlers) /\ n \in 0..Len(P.handlers) BY <1>1, <1>2, <1>3
<1>6. /\ Disarmed(S, n) \in Layouts /\ Disarmed(S, n).stack = S.stack /\ Disarmed(S, n).iters = S.iters
      /\ Disarmed(S, n).scope = S.scope /\ Disarmed(S, n).handlers = SubSeq(S.handlers, 1, n)
  BY <1>2, <1>5, DisarmedType
<1>7. /\ Disarmed(P, n) \in Layouts /\ Disarmed(P, n).stack = P.stack /\ Disarmed(P, n).iters = P.iters
      /\ Disarmed(P, n).scope = P.scope /\ Disarmed(P, n).handlers = SubSeq(P.handlers, 1, n)
  BY <1>3, <1>5, DisarmedType
<1>8. Disarmed(S, n) = V
 <2>1. /\ Disarmed(S, n).stack = V.stack /\ Disarmed(S, n).iters = V.iters /\ Disarmed(S, n).scope = V.scope
       /\ Disarmed(S, n).handlers = V.handlers
   BY <1>2, <1>4, <1>6
 <2> QED BY ONLY <2>1, <1>2, <1>6, SameLayout
<1>9. Disarmed(P, n) = W
 <2>1. /\ Disarmed(P, n).stack = W.stack /\ Disarmed(P, n).iters = W.iters /\ Disarmed(P, n).scope = W.scope
       /\ Disarmed(P, n).handlers = W.handlers
   BY <1>2, <1>3, <1>4, <1>7
 <2> QED BY ONLY <2>1, <1>3, <1>7, SameLayout
<1> QED BY <1>1, <1>8, <1>9 DEF n, S, V, P, W

\* The try regions further in than the loop are left.
LEMMA HandlersGo ==
  ASSUME NEW F, NEW l, Tracks(F, l), NEW n \in Nat, n <= Len(End(F).handlers), l.handlers = Len(End(F).handlers)
  PROVE  \E H : Leads(F, l, H, pop_handlers(l, n), Disarmed(End(F), n), {}, {}, {})
<1>1. Len(End(F).handlers) \in Nat BY TracksFacts, LayoutType
<1> DEFINE h == Len(End(F).handlers)
           k == h - n
<1>2. k \in Nat /\ k <= h /\ h - k = n BY <1>1
<1>3. PopsTo(F, l, k) BY <1>2, PopsHandlers
<1>4. pop_handlers(l, n) = emit(l, Times(k, I("PopHandler"))) BY DEF pop_handlers
<1> QED BY <1>2, <1>3, <1>4 DEF PopsTo

\* No iterator is dropped.
LEMMA NoneDropped ==
  ASSUME NEW F, NEW l, Tracks(F, l), NEW floor, l.iters = floor, floor \in Nat, NEW covered
  PROVE  Leads(F, l, F, drop_iterators(l, floor, covered), End(F), {}, {}, {})
BY TimesZero, EmitNothing DEF drop_iterators

LEMMA ConcatLen ==
  ASSUME NEW S, NEW x \in Seq(S), NEW y \in Seq(S)
  PROVE  x \o y \in Seq(S) /\ Len(x \o y) = Len(x) + Len(y)
  OBVIOUS

IterGone(F, l, H, m, r, q, x) ==
  /\ Leads(F, l, H, m, Plus(r, 0), {}, {}, {x})
  /\ Len(H.code) = x /\ Len(F.code) \in Nat /\ x = Len(F.code) + 2
  /\ H.code[x].op = "IterDrop" /\ x \in DOMAIN H.at /\ H.at[x] = Looped(Plus(r, 0), q)
LEMMA OneDropped ==
  ASSUME NEW F, NEW l, Tracks(F, l), NEW floor \in Nat, l.iters = floor + 1,
         NEW r, LayoutOK(F, r), NEW q \in Nat \ {0}, End(F) = Plus(Looped(r, q), 0),
         LayoutOK(F, Looped(Plus(r, 0), q)), LayoutOK(F, Plus(r, 0))
  PROVE  \E H, x : IterGone(F, l, H, drop_iterators(l, floor, TRUE), r, q, x)
<1> DEFINE g == Len(F.code)
           l1 == emit(l, I("Rotate"))
           l2 == emit(l1, I("IterDrop"))
           V == Looped(Plus(r, 0), q)
<1>1. drop_iterators(l, floor, TRUE) = l2
 <2> DEFINE x == I("Rotate")
            y == I("IterDrop")
            z == x \o y
 <2>1. l.iters - floor = 1 OBVIOUS
 <2>2. Emittable(x) /\ Emittable(y) BY OneEmittable DEF I, Emitted
 <2>3. x \in Seq(Cells) /\ y \in Seq(Cells) /\ Len(x) = 1 /\ Len(y) = 1
  <3>1. width("Rotate") = 1 /\ width("IterDrop") = 1 /\ "Rotate" \in Ops /\ "IterDrop" \in Ops
    BY EmittedOps DEF width, Targeted, Branches, Advances, Emitted
  <3> QED BY <3>1, InstructionIs DEF I
 <2>4. drop_iterators(l, floor, TRUE) = emit(l, Times(l.iters - floor, z)) BY DEF drop_iterators
 <2>5. l2 = emit(emit(l, x), y) OBVIOUS
 <2> HIDE DEF x, y
 <2>6. z \in Seq(Cells) /\ Len(z) = 2
  <3>1. x \o y \in Seq(Cells) /\ Len(x \o y) = Len(x) + Len(y) BY <2>3, ConcatLen
  <3> QED BY <2>3, <3>1
 <2>7. emit(l, z) = emit(emit(l, x), y) BY <2>2, EmitPair
 <2> HIDE DEF z
 <2>8. Times(1, z) = z BY <2>6, TimesOne
 <2>9. emit(l, Times(l.iters - floor, z)) = emit(l, z) BY <2>1, <2>8
 <2> QED BY <2>4, <2>5, <2>7, <2>9
<1>2. g \in Nat BY TracksFacts
<1>3. PICK H1 : Emits(F, l, H1, "Rotate", 0, V) BY EmitRotate
<1>4. Leads(F, l, H1, l1, V, {}, {}, {}) /\ Len(H1.code) = g + 1 BY <1>3, EmitsPlain DEF Steady, I
<1> HIDE DEF l1, V
<1>5. Tracks(H1, l1) /\ End(H1) = V /\ LayoutOK(H1, Plus(r, 0)) BY <1>4, LeadsFacts
<1>6. PICK H2 : Emits(H1, l1, H2, "IterDrop", 0, Plus(r, 0)) BY <1>5, EmitIterLast DEF V
<1>7. /\ Leads(H1, l1, H2, l2, Plus(r, 0), {}, {}, {g + 2}) /\ Len(H2.code) = g + 2
      /\ H2.code[g + 2].op = "IterDrop"
 <2>1. Len(H1.code) + 1 = g + 2 BY <1>2, <1>4
 <2> QED BY <2>1, <1>6, EmitsIter DEF I
<1>8. g + 2 \in DOMAIN H2.at /\ H2.at[g + 2] = V BY <1>2, <1>4, <1>5, TracksFacts, <1>7, LeadsOps DEF End
<1>9. Leads(F, l, H2, l2, Plus(r, 0), {}, {}, {g + 2}) BY <1>4, <1>7, LeadsTo
<1> DEFINE x == g + 2
<1>10. Leads(F, l, H2, l2, Plus(r, 0), {}, {}, {x}) /\ x = Len(F.code) + 2 BY <1>9
<1> HIDE DEF x
<1>11. IterGone(F, l, H2, l2, r, q, x) BY <1>2, <1>7, <1>8, <1>10 DEF x, V, IterGone
<1> QED BY <1>1, <1>11

\* What a break out of a `for` finds, and leaves.
LEMMA ForLayouts ==
  ASSUME NEW F, Good(F), NEW T \in Layouts, LayoutOK(F, T), NEW q \in 1..Len(F.code), q \in Nat \ {0}, F.code[q].op = "IterInit",
         NEW s \in Nat, T.scope <= s, Size(T) + 3 <= F.room
  PROVE  LET r == Scoped(T, s) IN
         /\ LayoutOK(F, r) /\ LayoutOK(F, Plus(r, 0)) /\ LayoutOK(F, Looped(Plus(r, 0), q))
         /\ Scoped(Scoped(Looped(T, q), T.scope + 1), s) = Looped(r, q)
         /\ Scoped(Plus(r, 0), T.scope) = Plus(T, 0) /\ LayoutOK(F, Plus(T, 0))
<1> DEFINE r == Scoped(T, s)
           P == Plus(r, 0)
<1>0. r = Scoped(T, s) OBVIOUS
<1>1. F.room \in Nat /\ Size(T) \in Nat /\ q \in Nat /\ T.scope \in Nat BY LayoutType DEF Good
<1>2. LayoutOK(F, r) /\ r \in Layouts /\ Size(r) = Size(T) BY ScopedLayout, ScopedType
<1>3. Scoped(Scoped(Looped(T, q), T.scope + 1), s) = Looped(r, q)
  BY <1>1, LoopedType, ScopedTwice, LoopedScoped
<1>4. Scoped(P, T.scope) = Plus(T, 0) BY DEF Scoped, Plus, Layouts
<1> HIDE DEF r
<1>5. LayoutOK(F, P) /\ Size(P) = Size(T) + 1 /\ P \in Layouts BY <1>1, <1>2, PlusLayout, PlusType
<1>6. LayoutOK(F, Plus(T, 0)) BY <1>1, PlusLayout
<1> HIDE DEF P
<1>7. LayoutOK(F, Looped(P, q)) BY <1>1, <1>5, LoopedLayout
<1> QED BY <1>2, <1>3, <1>4, <1>5, <1>6, <1>7 DEF r, P

\* The row of instructions before the jump of a break; x is where the iterator goes, if at all.
BreakLeft(G, b, H, l, c, T, x) ==
  /\ Leads(G, b, H, l, Plus(T, 0), {}, {}, IF c.kind = "for" THEN {x} ELSE {})
  /\ x = Len(H.code) - 1 /\ x \in Nat /\ Len(G.code) \in Nat /\ Len(G.code) < x + 1
  /\ H.code[x + 1].op = "UnwindTo"
  /\ c.kind = "for" =>
       /\ H.code[x].op = "IterDrop" /\ x \in DOMAIN H.at /\ Len(G.code) < x
       /\ \E s \in Nat : H.at[x] = Looped(Plus(Scoped(T, s), 0), c.site - 7)

\* The value of the break, and the try regions that it leaves.
LEMMA BreakBegins ==
  ASSUME NEW G, NEW K, NEW b, Stands(G, K, b), NEW e, InLoop(G, K, b, e)
  PROVE  LET p == LastOf(b.loops)
             T == K.start[e]
             U == K.base[e + 1]
             l == pop_handlers(emit(b, I("Unit")), p.handlers)
         IN \E H : /\ Leads(G, b, H, l, Plus(Scoped(U, b.slots), 0), {}, {}, {})
                   /\ Len(G.code) < Len(H.code) /\ Len(H.code) \in Nat /\ Len(G.code) \in Nat
                   /\ Tracks(H, l) /\ End(H) = Plus(Scoped(U, b.slots), 0) /\ Good(H)
                   /\ l.iters = U.iters /\ p.iters = U.iters /\ U.iters \in Nat
                   /\ LayoutOK(H, T) /\ LayoutOK(H, U) /\ Size(U) + 1 <= H.room
                   /\ b.slots \in Nat /\ U.scope <= b.slots /\ U.scope \in Nat
                   /\ T \in Layouts /\ U \in Layouts
<1> DEFINE p == LastOf(b.loops)
           T == K.start[e]
           U == K.base[e + 1]
           B == Base(K)
           s == b.slots
           V == Plus(End(G), 0)
           l1 == emit(b, I("Unit"))
           l == pop_handlers(l1, p.handlers)
<1>1. /\ s \in Nat /\ End(G) = Scoped(B, s) /\ End(G).scope = s /\ b.iters = End(G).iters
      /\ b.handlers = Len(End(G).handlers) /\ LayoutOK(G, End(G)) /\ Tracks(G, b) /\ End(G) \in Layouts
      /\ B \in Layouts /\ B.scope <= s
  BY StandsOver DEF Stands
<1>2. /\ T \in Layouts /\ U \in Layouts /\ LayoutOK(G, T) /\ LayoutOK(G, U) /\ Over(U, B)
      /\ p.handlers = Len(U.handlers) /\ p.iters = U.iters
  BY DEF InLoop, Ring
<1> HIDE DEF p, T, U, B, s
<1>3. PICK H1 : Emits(G, b, H1, "Unit", 0, V) BY <1>1, EmitPush
<1>4. Leads(G, b, H1, l1, V, {}, {}, {}) /\ Len(H1.code) = Len(G.code) + 1 /\ Len(G.code) \in Nat
  BY <1>3, EmitsPlain DEF Steady, I
<1> HIDE DEF l1
<1>5. Tracks(H1, l1) /\ End(H1) = V /\ LayoutOK(H1, V) /\ l1.handlers = b.handlers /\ l1.iters = b.iters
      /\ LayoutOK(H1, T) /\ LayoutOK(H1, U)
  BY <1>1, <1>2, <1>4, LeadsFacts
<1>6. /\ Len(U.handlers) \in 0..Len(B.handlers)
      /\ Disarmed(V, Len(U.handlers)) = Plus(Scoped(U, s), 0)
  BY <1>1, <1>2, DisarmedOver
<1>7. V.handlers = End(G).handlers /\ End(G).handlers = B.handlers /\ End(G).iters = B.iters
 <2>1. Scoped(B, s).handlers = B.handlers /\ Scoped(B, s).iters = B.iters BY <1>1, ScopedType
 <2> QED BY <1>1, <2>1, PlusType
<1> DEFINE n == Len(U.handlers)
<1>8. n \in Nat /\ n <= Len(End(H1).handlers) /\ l1.handlers = Len(End(H1).handlers)
  BY <1>1, <1>5, <1>6, <1>7
<1> HIDE DEF n, V
<1>9. PICK H : Leads(H1, l1, H, pop_handlers(l1, n), Disarmed(End(H1), n), {}, {}, {})
  BY <1>5, <1>8, HandlersGo
<1>10. Leads(H1, l1, H, l, Plus(Scoped(U, s), 0), {}, {}, {}) BY <1>2, <1>5, <1>6, <1>9 DEF n
<1> HIDE DEF l
<1>11. Leads(G, b, H, l, Plus(Scoped(U, s), 0), {}, {}, {}) BY <1>1, <1>4, <1>10, LeadsTo
<1>12. /\ Tracks(H, l) /\ Good(H) /\ End(H) = Plus(Scoped(U, s), 0) /\ LayoutOK(H, T) /\ LayoutOK(H, U)
       /\ LayoutOK(H, Plus(Scoped(U, s), 0)) /\ l.iters = l1.iters /\ Len(H.code) \in Nat
  BY <1>5, <1>10, LeadsFacts
<1>13. Len(G.code) < Len(H.code) BY <1>5, <1>10, LeadsOps, <1>4, <1>12
<1>14. Size(U) + 1 <= H.room
 <2>1. Scoped(U, s) \in Layouts /\ Size(Scoped(U, s)) = Size(U) BY <1>1, <1>2, ScopedType
 <2>2. Size(Plus(Scoped(U, s), 0)) = Size(U) + 1 BY <2>1, PlusType
 <2> QED BY <2>2, <1>12 DEF LayoutOK
<1>15. U.scope <= s /\ U.scope \in Nat /\ U.iters \in Nat /\ l.iters = U.iters
  BY <1>1, <1>2, LayoutType, <1>5, <1>7, <1>12 DEF Over
<1> QED BY <1>1, <1>2, <1>4, <1>11, <1>12, <1>13, <1>14, <1>15 DEF p, T, U, s, l, l1

BreakRow(b, p, cov) ==
  emit(drop_iterators(pop_handlers(emit(b, I("Unit")), p.handlers),
                      p.iters - (IF p.owns_iterator THEN 1 ELSE 0), cov),
       Instruction("UnwindTo", p.break_depth))

LEMMA BreakGoes ==
  ASSUME NEW G, NEW K, NEW b, Stands(G, K, b), NEW e, InLoop(G, K, b, e)
  PROVE  \E H, x : BreakLeft(G, b, H, BreakRow(b, LastOf(b.loops), TRUE), Ctx(b.open, e), K.start[e], x)
<1> DEFINE p == LastOf(b.loops)
           T == K.start[e]
           U == K.base[e + 1]
           c == Ctx(b.open, e)
           s == b.slots
           floor == p.iters - (IF p.owns_iterator THEN 1 ELSE 0)
           l2 == pop_handlers(emit(b, I("Unit")), p.handlers)
           l3 == drop_iterators(l2, floor, TRUE)
           l4 == emit(l3, Instruction("UnwindTo", p.break_depth))
           D == Plus(Scoped(U, s), 0)
<1>1. PICK H2 : /\ Leads(G, b, H2, l2, D, {}, {}, {})
                /\ Len(G.code) < Len(H2.code) /\ Len(H2.code) \in Nat /\ Len(G.code) \in Nat
                /\ Tracks(H2, l2) /\ End(H2) = D /\ Good(H2)
                /\ l2.iters = U.iters /\ p.iters = U.iters /\ U.iters \in Nat
                /\ LayoutOK(H2, T) /\ LayoutOK(H2, U) /\ Size(U) + 1 <= H2.room
                /\ s \in Nat /\ U.scope <= s /\ U.scope \in Nat
                /\ T \in Layouts /\ U \in Layouts
  BY BreakBegins
<1> HIDE DEF l2
<1>2. Tracks(G, b) /\ Good(G) BY DEF Stands, Tracks
<1>3. /\ p.break_depth = T.scope /\ p.owns_iterator = (c.kind = "for") /\ T.scope \in Nat
      /\ c.kind # "for" => U = T
      /\ c.kind = "for" => /\ c.site - 7 \in 1..Len(G.code) /\ G.code[c.site - 7].op = "IterInit"
                           /\ U = Scoped(Looped(T, c.site - 7), T.scope + 1)
  BY <1>1, LayoutType DEF InLoop, Ring
<1>4. BreakRow(b, p, TRUE) = l4 BY DEF BreakRow, l2
<1> HIDE DEF p, T, U, c, s, floor, l3
<1>5. CASE c.kind # "for"
 <2>1. p.owns_iterator = FALSE /\ U = T BY <1>3, <1>5
 <2>2. floor = l2.iters /\ floor \in Nat BY <1>1, <2>1 DEF floor
 <2>3. Leads(H2, l2, H2, l3, D, {}, {}, {}) BY <1>1, <2>2, NoneDropped DEF l3
 <2>4. Tracks(H2, l3) /\ T.scope <= End(H2).scope /\ LayoutOK(H2, Scoped(End(H2), T.scope))
       /\ Scoped(End(H2), T.scope) = Plus(T, 0)
  <3>1. Scoped(Plus(Scoped(T, s), 0), T.scope) = Plus(T, 0) BY <1>1 DEF Scoped, Plus, Layouts
  <3>2. LayoutOK(H2, Plus(T, 0)) BY <1>1, <2>1, PlusLayout
  <3>3. Scoped(T, s) \in Layouts /\ Scoped(T, s).scope = s BY <1>1, ScopedType
  <3>4. Plus(Scoped(T, s), 0).scope = s BY <3>3, PlusType
  <3>5. Tracks(H2, l3) BY <2>3, <1>1, LeadsFacts
  <3> QED BY <1>1, <2>1, <3>1, <3>2, <3>4, <3>5
 <2>5. PICK H : Emits(H2, l3, H, "UnwindTo", T.scope, Plus(T, 0)) BY <1>3, <2>4, EmitUnwind
 <2>6. /\ Leads(H2, l3, H, l4, Plus(T, 0), {}, {}, {}) /\ Len(H.code) = Len(H2.code) + 1
       /\ H.code[Len(H2.code) + 1].op = "UnwindTo"
   BY <1>3, <2>5, EmitsPlain DEF Steady
 <2>7. Leads(G, b, H, l4, Plus(T, 0), {}, {}, {}) BY <1>1, <1>2, <2>3, LeadsOn, <2>6
 <2>8. BreakLeft(G, b, H, l4, c, T, Len(H2.code)) BY <1>1, <2>6, <1>5, <2>7 DEF BreakLeft
 <2> QED BY <1>4, <2>8 DEF p, c, T
<1>6. CASE c.kind = "for"
 <2> DEFINE q == c.site - 7
            r == Scoped(T, s)
 <2>1. p.owns_iterator = TRUE /\ U = Scoped(Looped(T, q), T.scope + 1) /\ q \in 1..Len(G.code) /\ G.code[q].op = "IterInit"
   BY <1>3, <1>6
 <2>2. q \in Nat /\ q \in Nat \ {0} /\ q \in 1..Len(H2.code) /\ H2.code[q].op = "IterInit"
   BY <1>1, <2>1, <1>2, LeadsOps
 <2> HIDE DEF q
 <2>3. /\ Size(U) = Size(T) + 2 /\ U.scope = T.scope + 1 /\ U.iters = T.iters + 1 /\ T.iters \in Nat /\ Size(T) \in Nat
  <3>1. /\ Looped(T, q) \in Layouts /\ Size(Looped(T, q)) = Size(T) + 2 /\ Looped(T, q).iters = T.iters + 1
    BY <1>1, <2>2, LoopedType
  <3>2. T.iters \in Nat /\ Size(T) \in Nat /\ T.scope + 1 \in Nat BY <1>1, <1>3, LayoutType
  <3> QED BY <2>1, <3>1, <3>2, ScopedType
 <2>4. floor = T.iters /\ l2.iters = floor + 1 BY <1>1, <2>1, <2>3 DEF floor
 <2>5. /\ LayoutOK(H2, r) /\ LayoutOK(H2, Plus(r, 0)) /\ LayoutOK(H2, Looped(Plus(r, 0), q))
       /\ Scoped(U, s) = Looped(r, q)
       /\ Scoped(Plus(r, 0), T.scope) = Plus(T, 0) /\ LayoutOK(H2, Plus(T, 0))
  <3>1. H2.room \in Nat BY <1>1 DEF Good
  <3>2. T.scope <= s /\ Size(T) + 3 <= H2.room BY <1>1, <1>3, <2>3, <3>1
  <3> QED BY <1>1, <2>1, <2>2, <3>2, ForLayouts
 <2>6. r.scope = s /\ r \in Layouts /\ Plus(r, 0).scope = s
  <3>1. r.scope = s /\ r \in Layouts BY <1>1, ScopedType
  <3> QED BY <3>1, PlusType
 <2> HIDE DEF r
 <2>7. floor \in Nat /\ End(H2) = Plus(Looped(r, q), 0) BY <1>1, <2>3, <2>4, <2>5
 <2>8a. /\ Tracks(H2, l2) /\ floor \in Nat /\ l2.iters = floor + 1 /\ LayoutOK(H2, r) /\ q \in Nat \ {0}
        /\ End(H2) = Plus(Looped(r, q), 0)
        /\ LayoutOK(H2, Looped(Plus(r, 0), q)) /\ LayoutOK(H2, Plus(r, 0))
   BY <1>1, <2>2, <2>4, <2>5, <2>7
 <2>8b. \E H, y : IterGone(H2, l2, H, drop_iterators(l2, floor, TRUE), r, q, y) BY ONLY <2>8a, OneDropped
 <2>8c. PICK H3, x : IterGone(H2, l2, H3, l3, r, q, x) BY ONLY <2>8b DEF l3
 <2>8. /\ Leads(H2, l2, H3, l3, Plus(r, 0), {}, {}, {x})
       /\ Len(H3.code) = x /\ x = Len(H2.code) + 2
       /\ H3.code[x].op = "IterDrop"
       /\ x \in DOMAIN H3.at /\ H3.at[x] = Looped(Plus(r, 0), q)
   BY ONLY <2>8c DEF IterGone
 <2>9. x \in Nat /\ Len(G.code) < x /\ Len(G.code) < x + 1 /\ 0 < x BY <1>1, <2>8
 <2>10. /\ Tracks(H3, l3) /\ End(H3) = Plus(r, 0) /\ LayoutOK(H3, Plus(T, 0))
   BY <1>1, <2>5, <2>8, LeadsFacts
 <2>11. PICK H : Emits(H3, l3, H, "UnwindTo", T.scope, Plus(T, 0))
  <3>1. T.scope <= s BY <1>1, <1>3, <2>3
  <3> QED BY <1>3, <2>5, <2>6, <2>10, <3>1, EmitUnwind
 <2>12. /\ Leads(H3, l3, H, l4, Plus(T, 0), {}, {}, {}) /\ Len(H.code) = x + 1
        /\ H.code[x + 1].op = "UnwindTo"
   BY <1>3, <2>8, <2>11, EmitsPlain DEF Steady
 <2>13. H.code[x].op = "IterDrop" /\ x \in DOMAIN H.at /\ H.at[x] = Looped(Plus(r, 0), q)
   BY <2>8, <2>9, <2>10, <2>12, LeadsOps
 <2>14. Leads(G, b, H, l4, Plus(T, 0), {}, {}, {x})
  <3>1. Leads(G, b, H3, l3, Plus(r, 0), {}, {}, {x}) BY <1>1, <1>2, <2>8, LeadsTo
  <3> QED BY <3>1, <1>2, <2>12, LeadsOn
 <2>15. BreakLeft(G, b, H, l4, c, T, x) BY <2>9, <2>12, <2>13, <1>1, <1>6, <2>14 DEF r, q, BreakLeft
 <2> QED BY <1>4, <2>15 DEF p, c, T
<1> QED BY <1>5, <1>6

IsGiven(J, K, N, x) ==
  /\ J \in Plans /\ J.depth = K.depth /\ J.base = K.base /\ J.start = K.start /\ J.loop = K.loop
  /\ \A a \in Nat : (a \in N => J.own[a] = x) /\ (a \notin N => J.own[a] = K.own[a])

LEMMA GivenIs ==
  ASSUME NEW K \in Plans, NEW N, NEW x \in Nat \X Ways
  PROVE  IsGiven(Given(K, N, x), K, N, x)
<1> DEFINE f == Assign(K, N, x)
           J == Given(K, N, x)
<1>1. f \in [Nat -> Nat \X Ways] /\ \A a \in Nat : f[a] = IF a \in N THEN x ELSE K.own[a]
  BY DEF Plans, Assign
<1>2. J = [K EXCEPT !.own = f] BY DEF Given
<1> HIDE DEF f, J
<1>3. /\ J \in Plans /\ J.depth = K.depth /\ J.base = K.base /\ J.start = K.start /\ J.loop = K.loop /\ J.own = f
  BY <1>1, <1>2 DEF Plans
<1>4. \A a \in Nat : (a \in N => J.own[a] = x) /\ (a \notin N => J.own[a] = K.own[a]) BY <1>1, <1>3
<1>5. IsGiven(J, K, N, x) BY <1>3, <1>4 DEF IsGiven
<1> QED BY <1>5 DEF J

\* A jump to the end, or to the next turn, of the loop is noted.
BreakTaken(l) == [l EXCEPT !.loops[Len(l.loops)].breaks = @ \cup {here(l)}]

NextTaken(l) == [l EXCEPT !.loops[Len(l.loops)].continues = @ \cup {here(l)}]

IsTaken(l, m, way, j) ==
  /\ DOMAIN m = LowFields /\ m.code = l.code /\ m.max_stack = l.max_stack /\ m.patched = l.patched
  /\ m.slots = l.slots /\ m.iters = l.iters /\ m.handlers = l.handlers /\ m.open = l.open
  /\ Len(m.loops) = Len(l.loops) /\ \A k \in 1..(Len(l.loops) - 1) : m.loops[k] = l.loops[k]
  /\ Took(l.loops[Len(l.loops)], m.loops[Len(l.loops)], way, j)

LEMMA TookBreak ==
  ASSUME NEW p \in Loops, NEW j
  PROVE  Took(p, [p EXCEPT !.breaks = p.breaks \cup {j}], "out", j)
BY DEF Took, Loops

LEMMA TookNext ==
  ASSUME NEW p \in Loops, NEW j
  PROVE  Took(p, [p EXCEPT !.continues = p.continues \cup {j}], "in", j)
BY DEF Took, Loops

LEMMA TakenIs ==
  ASSUME NEW l, DOMAIN l = LowFields, l.loops \in Seq(Loops), Len(l.loops) > 0
  PROVE  IsTaken(l, BreakTaken(l), "out", here(l)) /\ IsTaken(l, NextTaken(l), "in", here(l))
<1> DEFINE n == Len(l.loops)
           p == l.loops[n]
           j == here(l)
           x == [p EXCEPT !.breaks = p.breaks \cup {j}]
           y == [p EXCEPT !.continues = p.continues \cup {j}]
<1>1. n \in Nat /\ n \in DOMAIN l.loops /\ p \in Loops OBVIOUS
<1>2. Took(p, x, "out", j) /\ Took(p, y, "in", j) BY <1>1, TookBreak, TookNext
<1>3. BreakTaken(l) = [l EXCEPT !.loops = [l.loops EXCEPT ![n] = x]] BY <1>1 DEF BreakTaken, LowFields
<1>4. NextTaken(l) = [l EXCEPT !.loops = [l.loops EXCEPT ![n] = y]] BY <1>1 DEF NextTaken, LowFields
<1> HIDE DEF x, y, j
<1>5. ASSUME NEW z, NEW way, Took(p, z, way, j), NEW m, m = [l EXCEPT !.loops = [l.loops EXCEPT ![n] = z]]
      PROVE  IsTaken(l, m, way, j)
 <2> DEFINE q == [l.loops EXCEPT ![n] = z]
 <2>1. Len(q) = Len(l.loops) /\ q[n] = z /\ \A k \in 1..(n - 1) : q[k] = l.loops[k] BY <1>1
 <2> HIDE DEF q
 <2>2. /\ DOMAIN m = LowFields /\ m.code = l.code /\ m.max_stack = l.max_stack /\ m.patched = l.patched
       /\ m.slots = l.slots /\ m.iters = l.iters /\ m.handlers = l.handlers /\ m.open = l.open /\ m.loops = q
   BY <1>5 DEF LowFields, q
 <2> QED BY <1>5, <2>1, <2>2 DEF IsTaken
<1>6. IsTaken(l, BreakTaken(l), "out", j) /\ IsTaken(l, NextTaken(l), "in", j) BY <1>2, <1>3, <1>4, <1>5
<1> QED BY <1>6 DEF j

\* A break out of a `for` has the shape that it has to have.
LEMMA BreakShaped ==
  ASSUME NEW G, NEW K, NEW b, Stands(G, K, b), NEW e, InLoop(G, K, b, e), Ctx(b.open, e).kind = "for",
         NEW H, Good(H), NEW N, Grows(G, H, {}, N), NEW x \in Nat, Len(G.code) < x, Len(H.code) = x + 3,
         H.code[x + 1].op = "UnwindTo", H.code[x + 2].op = "Jump", Open_jump(H, x + 2),
         x \in DOMAIN H.at, NEW s \in Nat,
         H.at[x] = Looped(Plus(Scoped(K.start[e], s), 0), Ctx(b.open, e).site - 7),
         NEW J, IsGiven(J, K, N, <<e, "out">>), Only(N, x + 2)
  PROVE  BreakShape(H, J, b.open, x)
<1> DEFINE o == b.open
           c == Ctx(o, e)
           a == c.site - 7
           T == K.start[e]
           U == K.base[e + 1]
<1>1. /\ e \in 1..(K.depth - 1) /\ T \in Layouts /\ a \in 1..Len(G.code) /\ G.code[a].op = "IterInit"
      /\ c.top = c.site - 4 /\ U = Scoped(Looped(T, a), T.scope + 1)
      /\ Open_jump(G, c.site) /\ K.own[c.site] = <<e, "out">> /\ ForShape(G, a)
      /\ c.top \in DOMAIN G.at /\ G.at[c.top] = U
  BY DEF InLoop
<1>2. Good(G) /\ Len(G.code) \in Nat BY StandsFacts
<1>3. a \in Nat /\ a > 0 /\ a <= Len(G.code) /\ c.site \in Nat /\ c.site = a + 7 /\ c.site <= Len(G.code)
 <2>1. c.site \in 1..Len(G.code) BY <1>1 DEF Open_jump
 <2>2. c.site \in Nat BY <1>2, <2>1
 <2>3. a \in Nat /\ a > 0 /\ a <= Len(G.code) BY ONLY <1>1, <1>2
 <2>4. c.site = a + 7 BY ONLY <2>2
 <2>5. c.site <= Len(G.code) BY ONLY <1>2, <2>1
 <2> QED BY ONLY <2>2, <2>3, <2>4, <2>5
<1>4. c.top = a + 3 BY <1>1, <1>3
<1> HIDE DEF c, T, U
<1> HIDE DEF a
<1>5. ForShape(H, a) /\ H.at[a + 3] = U /\ H.code[a].op = "IterInit" /\ a \in 1..Len(H.code)
 <2>1. H.at[a + 3] = G.at[a + 3] BY <1>1, <1>2, ForShapeGrows
 <2>2. H.code[a].op = G.code[a].op /\ Len(G.code) <= Len(H.code) BY <1>1 DEF Grows
 <2>3. a \in 1..Len(H.code) BY <1>2, <1>3, <2>2
 <2>4. ForShape(H, a) BY <1>1, <1>2, ForShapeGrows
 <2> QED BY <1>1, <1>4, <2>1, <2>2, <2>3, <2>4
<1>6. Open_jump(H, a + 7) BY <1>1, <1>3, <1>2, OpenStays
<1>7. J.own[x + 2] = <<e, "out">> /\ J.own[a + 7] = <<e, "out">> /\ J.depth = K.depth
 <2>1. x + 2 \in Nat /\ x + 2 \in N /\ a + 7 \in Nat BY <1>3 DEF Only
 <2>2. a + 7 # x + 2 BY <1>2, <1>3
 <2>3. a + 7 \notin N BY <2>2 DEF Only
 <2>4. K.own[a + 7] = <<e, "out">> BY <1>1, <1>3
 <2> QED BY <2>1, <2>3, <2>4 DEF IsGiven
<1>8. /\ Len(H.at[x].stack) = Len(H.at[a + 3].stack) + 1 /\ H.at[x].iters = H.at[a + 3].iters
      /\ \E k \in 1..Len(H.at[x].stack) : H.at[x].stack[k] = a
 <2> DEFINE r == Scoped(T, s)
            u == Plus(r, 0)
 <2>1. r \in Layouts /\ r.stack = T.stack /\ r.iters = T.iters BY <1>1, ScopedType
 <2> HIDE DEF r
 <2>2. u \in Layouts /\ Len(u.stack) = Len(r.stack) + 1 /\ u.iters = r.iters BY <2>1, PlusType
 <2> HIDE DEF u
 <2>3. /\ Len(Looped(u, a).stack) = Len(u.stack) + 1 /\ Looped(u, a).stack[Len(u.stack) + 1] = a
       /\ Looped(u, a).iters = u.iters + 1
   BY <2>2, <1>3, LoopedType
 <2>4. /\ Looped(T, a) \in Layouts /\ Len(Looped(T, a).stack) = Len(T.stack) + 1 /\ Looped(T, a).iters = T.iters + 1
   BY <1>1, <1>3, LoopedType
 <2>5. U.stack = Looped(T, a).stack /\ U.iters = T.iters + 1
  <3>1. T.scope + 1 \in Nat
   <4>1. T.scope \in Nat BY ONLY <1>1, LayoutType
   <4> QED BY ONLY <4>1
  <3> QED BY <1>1, <2>4, <3>1, ScopedType
 <2>6. H.at[x] = Looped(u, a) BY DEF u, r, a, c, T
 <2>7. Len(u.stack) + 1 \in 1..Len(Looped(u, a).stack) BY <2>2, LayoutType, <2>3
 <2>8. Len(T.stack) \in Nat BY <1>1, LayoutType
 <2> QED BY <1>5, <2>1, <2>2, <2>3, <2>4, <2>5, <2>6, <2>7, <2>8
<1>9. H.code[x + 2].arg = 0 /\ H.code[a + 7].arg = 0 BY <1>6 DEF Open_jump
<1>10. Pairs(H, J, o, x, a) BY <1>1, <1>7, <1>5, <1>8, <1>9 DEF Pairs
<1> QED BY <1>3, <1>10 DEF BreakShape

LEMMA BreakJumps ==
  ASSUME NEW G, NEW K, NEW b, Stands(G, K, b), NEW e, InLoop(G, K, b, e), b.loops # <<>>,
         NEW H, NEW l, NEW x, BreakLeft(G, b, H, l, Ctx(b.open, e), K.start[e], x),
         NEW w, Want(Inmost(K, b)) = w
  PROVE  LowSound(Lowered(emit(emit(BreakTaken(l), I("Jump")), I("Unit")), w))
<1> DEFINE o == b.open
           c == Ctx(o, e)
           T == K.start[e]
           j == x + 2
           m == BreakTaken(l)
           n == emit(m, I("Jump"))
           X == IF c.kind = "for" THEN {x} ELSE {}
           v == <<e, "out">>
<1>1. /\ Leads(G, b, H, l, Plus(T, 0), {}, {}, X) /\ x = Len(H.code) - 1 /\ x \in Nat /\ Len(G.code) \in Nat
      /\ Len(G.code) < x + 1 /\ H.code[x + 1].op = "UnwindTo"
      /\ c.kind = "for" =>
           /\ H.code[x].op = "IterDrop" /\ x \in DOMAIN H.at /\ Len(G.code) < x
           /\ \E s \in Nat : H.at[x] = Looped(Plus(Scoped(T, s), 0), c.site - 7)
  BY DEF BreakLeft
<1>2. /\ Tracks(G, b) /\ Good(G) /\ K \in Plans /\ LayoutOK(G, End(G)) /\ b.loops \in Seq(Loops)
      /\ Ctxs(G, K, o, b.loops, {})
  BY StandsFacts DEF Stands
<1>3. /\ e \in 1..(K.depth - 1) /\ e \in Nat /\ e = K.loop[Len(b.loops)] /\ c.kind \in Repeated /\ T \in Layouts
  BY DEF InLoop
<1> HIDE DEF c, T, X
<1>4. /\ Tracks(H, l) /\ Good(H) /\ End(H) = Plus(T, 0) /\ LayoutOK(H, End(G)) /\ Grows(G, H, {}, {}) /\ Calm(G, H, X)
      /\ Len(H.code) \in Nat /\ l.slots = b.slots /\ l.iters = b.iters /\ l.handlers = b.handlers
      /\ l.loops = b.loops /\ l.open = o /\ DOMAIN l = LowFields
  BY <1>1, <1>2, LeadsFacts
<1>5. here(l) = j /\ Len(H.code) + 1 = j /\ j \in Nat /\ ~(j <= Len(G.code)) /\ Len(H.code) = x + 1
  BY <1>4, TracksFacts, <1>1
<1>6. IsTaken(l, m, "out", j) /\ Len(b.loops) \in Nat /\ Len(b.loops) > 0 BY <1>2, <1>4, TakenIs, <1>5
<1> HIDE DEF m, j
<1>7. Tracks(H, m) BY <1>4, <1>6, TracksSame DEF IsTaken
<1>8. PICK F : Emits(H, m, F, "Jump", 0, End(G)) BY <1>4, <1>7, EmitJump
<1>9. /\ Leads(H, m, F, n, End(G), {}, {j}, {}) /\ Len(F.code) = x + 3 /\ Open_jump(F, j) /\ F.code[j].op = "Jump"
      /\ F.at[j] = Plus(T, 0)
 <2>1. Len(H.code) + 1 = j BY <1>5
 <2>2. /\ Leads(H, m, F, n, End(G), {}, {Len(H.code) + 1}, {}) /\ Len(F.code) = Len(H.code) + 2
       /\ Open_jump(F, Len(H.code) + 1) /\ F.code[Len(H.code) + 1].op = "Jump"
       /\ F.at[Len(H.code) + 1] = End(H)
   BY <1>8, EmitsSite DEF I
 <2>3. Leads(H, m, F, n, End(G), {}, {j}, {}) BY <2>1, <2>2, Zenon
 <2>4. Len(F.code) = x + 3 BY <2>2, <1>1, <1>5
 <2> QED BY <2>1, <2>2, <2>3, <2>4, <1>4, Zenon
<1> HIDE DEF n
<1>10. PICK N : Only(N, j) /\ N = {j} BY DEF Only
<1>11. /\ Tracks(F, n) /\ Good(F) /\ End(F) = End(G) /\ Grows(H, F, {}, N) /\ Calm(H, F, {})
       /\ n.slots = b.slots /\ n.iters = b.iters /\ n.handlers = b.handlers /\ n.loops = m.loops /\ n.open = o
  BY <1>9, <1>10, <1>7, LeadsFacts, <1>4, <1>6 DEF IsTaken
<1>12. Grows(G, F, {}, N) /\ Calm(G, F, X) BY <1>2, <1>4, <1>11, GrowsTrans, CalmTrans DEF Good
<1>13. v \in Nat \X Ways BY <1>3 DEF Ways
<1> DEFINE J == Given(K, N, v)
<1> HIDE DEF v
<1>14. IsGiven(J, K, N, v) BY <1>2, <1>13, GivenIs
<1>15. ASSUME NEW a \in X PROVE /\ F.code[a].op = "IterInit" => ForShape(F, a)
                                /\ F.code[a].op = "IterDrop" => BreakShape(F, J, o, a)
 <2>1. c.kind = "for" /\ a = x /\ Len(G.code) < x /\ x > 0 BY <1>1 DEF X
 <2>2. H.code[x].op = "IterDrop" /\ x \in DOMAIN H.at BY <1>1, <2>1
 <2>3. PICK s \in Nat : H.at[x] = Looped(Plus(Scoped(T, s), 0), c.site - 7) BY <1>1, <2>1
 <2>4. F.code[x].op = "IterDrop" /\ x \in DOMAIN F.at /\ F.at[x] = H.at[x] /\ F.code[x + 1].op = "UnwindTo"
  <3>1. x <= Len(H.code) /\ x + 1 <= Len(H.code) /\ 0 < x + 1 /\ x + 1 \in Nat BY <1>1, <1>5
  <3>2. Leads(H, m, F, n, End(G), {}, N, {}) BY <1>9, <1>10
  <3>3. /\ \A a2 \in Nat : 0 < a2 /\ a2 <= Len(H.code) => F.code[a2].op = H.code[a2].op
        /\ \A a2 : a2 \in DOMAIN H.at => a2 \in DOMAIN F.at /\ F.at[a2] = H.at[a2]
    BY <3>2, <1>7, LeadsOps
  <3> QED BY <2>1, <2>2, <3>1, <3>3, <1>1
 <2>5. Open_jump(F, x + 2) /\ F.code[x + 2].op = "Jump" /\ Only(N, x + 2) /\ v = <<e, "out">>
   BY <1>9, <1>10 DEF j, v
 <2>6. BreakShape(F, J, o, x)
  <3> HIDE DEF J
  <3> QED BY <1>1, <1>9, <1>11, <1>12, <1>14, <2>1, <2>3, <2>4, <2>5, BreakShaped DEF c, T
 <2> QED BY <2>1, <2>4, <2>6
<1> DEFINE q == b.loops
<1>16. Ctxs(F, J, o, q, N)
 <2>1. \A a \in N : ~(a <= Len(G.code)) BY <1>5, <1>10 DEF Only
 <2>2. \A a \in X : /\ F.code[a].op = "IterInit" => ForShape(F, a)
                    /\ F.code[a].op = "IterDrop" => BreakShape(F, Given(K, N, v), o, a)
   BY <1>15
 <2> HIDE DEF J
 <2>3. Ctxs(F, Given(K, N, v), o, q, N) BY <1>2, <1>11, <1>12, <1>13, <2>1, <2>2, CtxsGiven
 <2> QED BY <2>3 DEF J
<1> HIDE DEF J
<1>17. J.own[j] = v /\ J.loop = K.loop /\ J.start = K.start /\ J.base = K.base /\ J.depth = K.depth
  BY <1>5, <1>10, <1>14 DEF Only, IsGiven
<1>18. Ahead(F.code[j].op, j, F.at[j], Goal(J, o, <<e, "out">>))
 <2>1. Aim(c, J.start[e], J.base[e + 1], "out") = Plus(T, 0) BY <1>3, <1>17 DEF Aim, Repeated, T
 <2>2. Goal(J, o, <<e, "out">>) = Plus(T, 0) BY <2>1 DEF Goal, c
 <2> QED BY <2>2, <1>9 DEF Ahead, Guards
<1>19. Ctxs(F, J, o, m.loops, {})
 <2>1. /\ Len(m.loops) = Len(q) /\ \A k \in 1..(Len(q) - 1) : m.loops[k] = q[k] BY <1>4, <1>6 DEF IsTaken
 <2>2. Took(q[Len(q)], m.loops[Len(q)], "out", j) /\ "out" \in Ways BY <1>4, <1>6 DEF IsTaken, Ways
 <2>3. J.own[j] = <<e, "out">> /\ e = J.loop[Len(q)] /\ \A a : a \in N <=> a = j
   BY <1>3, <1>10, <1>17 DEF v, Only
 <2> HIDE DEF o, q
 <2>4. Len(q) \in Nat /\ Len(q) > 0 BY <1>6 DEF q
 <2> QED BY <1>9, <1>16, <1>18, <2>1, <2>2, <2>3, <2>4, CtxsTake
<1>20. LowSound(Lowered(emit(n, I("Unit")), w))
 <2>1. Stands(G, K, b) /\ Want(Inmost(K, b)) = w /\ Ctxs(F, J, b.open, n.loops, {}) /\ n.open = b.open
   BY <1>11, <1>19
 <2> QED BY ONLY <1>11, <1>12, <1>17, <2>1, LeaveEnds
<1> QED BY <1>20 DEF n, m

LEMMA Stmt_BreakSound ==
  ASSUME LowOK(low), LowSound(low), ~LeaveOperand, Stmt_Break
  PROVE  LowSound(low')
<1> DEFINE active == LastOf(low.loops)
<1>1. PICK last \in Lasts :
        LET l == Leaving(Begun(last), I("Unit"), active.iters - (IF active.owns_iterator THEN 1 ELSE 0),
                         active.break_depth)
            m == [l EXCEPT !.loops[Len(l.loops)].breaks = @ \cup {here(l)}]
        IN low' = Lowered(emit(m, I("Jump") \o I("Unit")), Wanted(last))
  BY DEF Stmt_Break, Lower
<1> DEFINE b == Begun(last)
           w == Wanted(last)
           l == Leaving(b, I("Unit"), active.iters - (IF active.owns_iterator THEN 1 ELSE 0), active.break_depth)
           m == BreakTaken(l)
<1>2. PICK G, K : Stands(G, K, b) /\ Want(Inmost(K, b)) = w BY BegunSound DEF Stmt_Break, Lasts
<1>3. b.loops = low.loops /\ low.loops # <<>> /\ ~InOperand BY BegunFields DEF Lasts, Stmt_Break, At
<1>4. PICK e : InLoop(G, K, b, e)
 <2>1. Len(low.open) = Len(b.open) /\ \A i \in 1..Len(b.open) : low.open[i].kind = b.open[i].kind
  <3>1. last \in BOOLEAN /\ Top.kind \in {"block", "program"} BY DEF Lasts, Stmt_Break, At
  <3>2. /\ Len(b.open) = Len(low.open) /\ \A i \in 1..(Len(low.open) - 1) : b.open[i] = low.open[i]
        /\ b.open[Len(low.open)].kind = low.open[Len(low.open)].kind
    BY <3>1, BegunFields DEF Top, LastOf
  <3>3. Len(low.open) \in Nat BY DEF LowOK, LowBase
  <3> QED BY <3>2, <3>3
 <2>2. DOMAIN low.open = 1..Len(b.open) BY <2>1 DEF LowOK, LowBase
 <2> QED BY <1>2, <1>3, <2>1, <2>2, InLoopIs
<1>5. l = BreakRow(b, LastOf(b.loops), TRUE)
 <2>1. (I("Unit") # <<>>) = TRUE
  <3>1. Len(I("Unit")) # 0
   <4>1. "Unit" \in Ops /\ 0 \in Nat BY EmittedOps DEF Emitted
   <4>2. Len(Instruction("Unit", 0)) \in 1..2 BY <4>1, InstructionIs
   <4> QED BY <4>2 DEF I
  <3> QED BY <3>1
 <2> HIDE DEF b
 <2>2. l.loops = l.loops OBVIOUS
 <2> QED BY <1>3, <2>1 DEF Leaving, BreakRow
<1> HIDE DEF b, w, l
<1>6. PICK H, x : BreakLeft(G, b, H, l, Ctx(b.open, e), K.start[e], x) BY <1>2, <1>4, <1>5, BreakGoes
<1>7. LowSound(Lowered(emit(emit(m, I("Jump")), I("Unit")), w)) BY <1>2, <1>3, <1>4, <1>6, BreakJumps
<1>8. emit(m, I("Jump") \o I("Unit")) = emit(emit(m, I("Jump")), I("Unit"))
 <2>1. Tracks(H, l) /\ l.loops = b.loops /\ DOMAIN l = LowFields
   BY <1>2, <1>6, StandsFacts, LeadsFacts DEF BreakLeft
 <2>2. b.loops \in Seq(Loops) /\ Len(b.loops) > 0 BY <1>2, <1>3 DEF Stands
 <2>3. IsTaken(l, m, "out", here(l)) BY <2>1, <2>2, TakenIs
 <2> HIDE DEF m
 <2>4. Tracks(H, m) BY <2>1, <2>3, TracksSame DEF IsTaken
 <2>5. Emittable(I("Jump")) /\ Emittable(I("Unit")) BY OneEmittable DEF I, Emitted
 <2> QED BY <2>4, <2>5, EmitPair
<1>9. low' = Lowered(emit(m, I("Jump") \o I("Unit")), w) BY <1>1 DEF BreakTaken, b, w, l
<1> QED BY <1>7, <1>8, <1>9

ContinueRow(b, p, cov) ==
  emit(drop_iterators(pop_handlers(emit(b, <<>>), p.handlers), p.iters, cov),
       Instruction("UnwindTo", p.continue_depth))

\* A continue leaves what the next turn begins with.
LEMMA ContinueGoes ==
  ASSUME NEW G, NEW K, NEW b, Stands(G, K, b), NEW e, InLoop(G, K, b, e), NEW cov
  PROVE  \E H : Leads(G, b, H, ContinueRow(b, LastOf(b.loops), cov), K.base[e + 1], {}, {}, {})
<1> DEFINE p == LastOf(b.loops)
           U == K.base[e + 1]
           B == Base(K)
           s == b.slots
           n == Len(U.handlers)
           l1 == emit(b, <<>>)
           l2 == pop_handlers(l1, p.handlers)
           l3 == drop_iterators(l2, p.iters, cov)
           l4 == emit(l3, Instruction("UnwindTo", p.continue_depth))
<1>1. /\ s \in Nat /\ End(G) = Scoped(B, s) /\ b.iters = End(G).iters
      /\ b.handlers = Len(End(G).handlers) /\ LayoutOK(G, End(G)) /\ Tracks(G, b) /\ End(G) \in Layouts
      /\ B \in Layouts /\ B.scope <= s
  BY StandsOver DEF Stands
<1>2. /\ U \in Layouts /\ LayoutOK(G, U) /\ Over(U, B)
      /\ p.handlers = Len(U.handlers) /\ p.iters = U.iters /\ p.continue_depth = U.scope
  BY DEF InLoop, Ring
<1>3. ContinueRow(b, LastOf(b.loops), cov) = l4 BY DEF ContinueRow
<1> HIDE DEF p, U, B, s
<1>4. Leads(G, b, G, l1, End(G), {}, {}, {}) BY <1>1, EmitNothing
<1> HIDE DEF l1
<1>5. Tracks(G, l1) /\ l1.handlers = b.handlers /\ l1.iters = b.iters BY <1>1, <1>4, LeadsFacts
<1>6. /\ n \in 0..Len(B.handlers) /\ Disarmed(End(G), n) = Scoped(U, s) BY <1>1, <1>2, DisarmedOver
<1>7. End(G).handlers = B.handlers /\ End(G).iters = B.iters /\ Len(B.handlers) \in Nat
  BY <1>1, ScopedType, LayoutType
<1>8. n \in Nat /\ n <= Len(End(G).handlers) /\ l1.handlers = Len(End(G).handlers)
  BY <1>1, <1>5, <1>6, <1>7
<1> HIDE DEF n
<1>9. PICK H : Leads(G, l1, H, pop_handlers(l1, n), Disarmed(End(G), n), {}, {}, {})
  BY <1>5, <1>8, HandlersGo
<1>10. Leads(G, l1, H, l2, Scoped(U, s), {}, {}, {}) BY <1>2, <1>6, <1>9 DEF n
<1> HIDE DEF l2
<1>11. /\ Tracks(H, l2) /\ End(H) = Scoped(U, s) /\ LayoutOK(H, U) /\ l2.iters = l1.iters
  BY <1>2, <1>5, <1>10, LeadsFacts
<1>12. U.scope <= s /\ U.scope \in Nat /\ U.iters \in Nat /\ l2.iters = p.iters /\ p.iters \in Nat
  BY <1>1, <1>2, LayoutType, <1>5, <1>7, <1>11 DEF Over
<1>13. Leads(H, l2, H, l3, Scoped(U, s), {}, {}, {}) BY <1>11, <1>12, NoneDropped
<1> HIDE DEF l3
<1>14. Tracks(H, l3) /\ End(H).scope = s /\ Scoped(End(H), U.scope) = U
  BY <1>1, <1>2, ScopedType, ScopedTwice, <1>11, <1>13, LeadsFacts DEF Scoped, Layouts
<1>15. PICK F : Emits(H, l3, F, "UnwindTo", U.scope, U) BY <1>11, <1>12, <1>14, EmitUnwind
<1>16. Leads(H, l3, F, l4, U, {}, {}, {}) BY <1>2, <1>12, <1>15, EmitsPlain DEF Steady
<1> HIDE DEF l4
<1>17. Leads(G, b, H, l2, Scoped(U, s), {}, {}, {}) BY <1>1, <1>4, <1>10, LeadsTo
<1>18. Leads(G, b, H, l3, Scoped(U, s), {}, {}, {}) BY <1>1, <1>13, <1>17, LeadsOn
<1>19. Leads(G, b, F, l4, U, {}, {}, {}) BY <1>1, <1>16, <1>18, LeadsOn
<1> QED BY <1>3, <1>19 DEF U

\* The next turn begins at code that there is.
LEMMA ContinueBack ==
  ASSUME NEW G, NEW K, NEW b, Stands(G, K, b), NEW e, InLoop(G, K, b, e), b.loops # <<>>,
         Ctx(b.open, e).kind \in {"loop", "do"},
         NEW H, NEW l, Leads(G, b, H, l, K.base[e + 1], {}, {}, {}),
         NEW w, Want(Inmost(K, b)) = w
  PROVE  /\ Tracks(H, l) /\ LastOf(b.loops).continue_target \in Nat \ {0}
         /\ LowSound(Lowered(emit(emit(l, Instruction("Jump", LastOf(b.loops).continue_target)), I("Unit")), w))
<1> DEFINE o == b.open
           c == Ctx(o, e)
           U == K.base[e + 1]
           t == LastOf(b.loops).continue_target
           n == emit(l, Instruction("Jump", t))
<1>1. /\ Tracks(G, b) /\ Good(G) /\ LayoutOK(G, End(G))
      /\ Ctxs(G, K, o, b.loops, {})
  BY StandsFacts DEF Stands
<1>2. t = c.top /\ c.top \in DOMAIN G.at /\ G.at[c.top] = U BY DEF InLoop, Ring
<1>3. t \in Nat \ {0} BY <1>1, CodeLen, <1>2 DEF Good, Starts
<1> HIDE DEF c, t, U
<1>4. /\ Tracks(H, l) /\ Good(H) /\ End(H) = U /\ LayoutOK(H, End(G))
      /\ l.slots = b.slots /\ l.iters = b.iters /\ l.handlers = b.handlers /\ l.loops = b.loops /\ l.open = o
  BY <1>1, LeadsFacts DEF U
<1>5. t \in DOMAIN H.at /\ H.at[t] = U BY <1>1, <1>2, LeadsOps
<1>6. PICK F : Emits(H, l, F, "Jump", t, End(G)) BY <1>3, <1>4, <1>5, EmitJump
<1>7. Leads(H, l, F, n, End(G), {}, {}, {}) BY <1>3, <1>6, EmitsJump
<1> HIDE DEF n
<1>8. Leads(G, b, F, n, End(G), {}, {}, {}) BY <1>1, <1>7, LeadsOn
<1>9. /\ Tracks(F, n) /\ Good(F) /\ End(F) = End(G) /\ Grows(G, F, {}, {}) /\ Calm(G, F, {})
      /\ n.slots = b.slots /\ n.iters = b.iters /\ n.handlers = b.handlers /\ n.loops = b.loops /\ n.open = o
  BY <1>1, <1>8, LeadsFacts
<1>10. Ctxs(F, K, o, b.loops, {}) BY <1>1, <1>9, CtxsStay
<1>11. LowSound(Lowered(emit(n, I("Unit")), w))
 <2>1. Stands(G, K, b) /\ Want(Inmost(K, b)) = w /\ Ctxs(F, K, b.open, n.loops, {}) /\ n.open = b.open
       /\ K.base = K.base /\ K.depth = K.depth
   BY <1>9, <1>10
 <2> QED BY ONLY <1>9, <2>1, LeaveEnds
<1> QED BY <1>3, <1>4, <1>11 DEF n, t

\* The next turn begins at code that is to come.
LEMMA ContinueOn ==
  ASSUME NEW G, NEW K, NEW b, Stands(G, K, b), NEW e, InLoop(G, K, b, e), b.loops # <<>>,
         Ctx(b.open, e).kind \in {"while", "for"},
         NEW H, NEW l, Leads(G, b, H, l, K.base[e + 1], {}, {}, {}),
         NEW w, Want(Inmost(K, b)) = w
  PROVE  Tracks(H, NextTaken(l)) /\ LowSound(Lowered(emit(emit(NextTaken(l), I("Jump")), I("Unit")), w))
<1> DEFINE o == b.open
           c == Ctx(o, e)
           U == K.base[e + 1]
           j == Len(H.code) + 1
           m == NextTaken(l)
           n == emit(m, I("Jump"))
           v == <<e, "in">>
<1>2. /\ Tracks(G, b) /\ Good(G) /\ K \in Plans /\ LayoutOK(G, End(G)) /\ b.loops \in Seq(Loops)
      /\ Ctxs(G, K, o, b.loops, {}) /\ Len(G.code) \in Nat
  BY StandsFacts DEF Stands
<1>3. /\ e \in 1..(K.depth - 1) /\ e \in Nat /\ e = K.loop[Len(b.loops)] /\ c.kind \in {"while", "for"}
  BY DEF InLoop
<1> HIDE DEF c, U
<1>4. /\ Tracks(H, l) /\ Good(H) /\ End(H) = U /\ LayoutOK(H, End(G)) /\ Grows(G, H, {}, {}) /\ Calm(G, H, {})
      /\ Len(H.code) \in Nat /\ l.slots = b.slots /\ l.iters = b.iters /\ l.handlers = b.handlers
      /\ l.loops = b.loops /\ l.open = o /\ DOMAIN l = LowFields
  BY <1>2, LeadsFacts DEF U
<1>5. here(l) = j /\ j \in Nat /\ ~(j <= Len(G.code)) BY <1>4, TracksFacts, <1>2 DEF Grows
<1>6. IsTaken(l, m, "in", j) /\ Len(b.loops) \in Nat /\ Len(b.loops) > 0 BY <1>2, <1>4, TakenIs, <1>5
<1> HIDE DEF m
<1>7. Tracks(H, m) BY <1>4, <1>6, TracksSame DEF IsTaken
<1>8. PICK F : Emits(H, m, F, "Jump", 0, End(G)) BY <1>4, <1>7, EmitJump
<1>9. /\ Leads(H, m, F, n, End(G), {}, {j}, {}) /\ Open_jump(F, j) /\ F.code[j].op = "Jump"
      /\ F.at[j] = U
  BY <1>8, EmitsSite, <1>4 DEF I
<1> HIDE DEF n, j
<1>10. PICK N : Only(N, j) /\ N = {j} BY DEF Only
<1>11. /\ Tracks(F, n) /\ Good(F) /\ End(F) = End(G) /\ Grows(H, F, {}, N) /\ Calm(H, F, {})
       /\ n.slots = b.slots /\ n.iters = b.iters /\ n.handlers = b.handlers /\ n.loops = m.loops /\ n.open = o
  BY <1>9, <1>10, <1>7, LeadsFacts, <1>4, <1>6 DEF IsTaken
<1>12. Grows(G, F, {}, N) /\ Calm(G, F, {}) BY <1>2, <1>4, <1>11, GrowsTrans, CalmTrans DEF Good
<1>13. v \in Nat \X Ways BY <1>3 DEF Ways
<1> DEFINE J == Given(K, N, v)
           q == b.loops
<1> HIDE DEF v
<1>14. IsGiven(J, K, N, v) BY <1>2, <1>13, GivenIs
<1>16. Ctxs(F, J, o, q, N)
 <2>1. \A a \in N : ~(a <= Len(G.code)) BY <1>5, <1>10 DEF Only
 <2>2. \A a \in {} : /\ F.code[a].op = "IterInit" => ForShape(F, a)
                    /\ F.code[a].op = "IterDrop" => BreakShape(F, Given(K, N, v), o, a)
   OBVIOUS
 <2> HIDE DEF J
 <2>3. Ctxs(F, Given(K, N, v), o, q, N) BY <1>2, <1>11, <1>12, <1>13, <2>1, <2>2, CtxsGiven
 <2> QED BY <2>3 DEF J
<1> HIDE DEF J
<1>17. J.own[j] = v /\ J.loop = K.loop /\ J.start = K.start /\ J.base = K.base /\ J.depth = K.depth
  BY <1>5, <1>10, <1>14 DEF Only, IsGiven
<1>18. Ahead(F.code[j].op, j, F.at[j], Goal(J, o, <<e, "in">>))
 <2>1. Aim(c, J.start[e], J.base[e + 1], "in") = U BY <1>3, <1>17 DEF Aim, Repeated, U
 <2>2. Goal(J, o, <<e, "in">>) = U BY <2>1 DEF Goal, c
 <2> QED BY <2>2, <1>9 DEF Ahead, Guards
<1>19. Ctxs(F, J, o, m.loops, {})
 <2>1. /\ Len(m.loops) = Len(q) /\ \A k \in 1..(Len(q) - 1) : m.loops[k] = q[k] BY <1>4, <1>6 DEF IsTaken
 <2>2. Took(q[Len(q)], m.loops[Len(q)], "in", j) /\ "in" \in Ways BY <1>4, <1>6 DEF IsTaken, Ways
 <2>3. J.own[j] = <<e, "in">> /\ e = J.loop[Len(q)] /\ (\A a : a \in N <=> a = j) /\ Ctx(o, e).kind \in {"while", "for"}
   BY <1>3, <1>10, <1>17 DEF v, Only, c
 <2> HIDE DEF o, q
 <2>4. Len(q) \in Nat /\ Len(q) > 0 BY <1>6 DEF q
 <2> QED BY <1>9, <1>16, <1>18, <2>1, <2>2, <2>3, <2>4, CtxsTake
<1>20. LowSound(Lowered(emit(n, I("Unit")), w))
 <2>1. Stands(G, K, b) /\ Want(Inmost(K, b)) = w /\ Ctxs(F, J, b.open, n.loops, {}) /\ n.open = b.open
   BY <1>11, <1>19
 <2> QED BY ONLY <1>11, <1>12, <1>17, <2>1, LeaveEnds
<1> QED BY <1>7, <1>20 DEF n, m

LEMMA Stmt_ContinueSound ==
  ASSUME LowOK(low), LowSound(low), ~LeaveOperand, Stmt_Continue
  PROVE  LowSound(low')
<1> DEFINE active == LastOf(low.loops)
<1>1. PICK last \in Lasts :
        LET l == Leaving(Begun(last), <<>>, active.iters, active.continue_depth)
            m == IF active.continue_target # 0 THEN l
                 ELSE [l EXCEPT !.loops[Len(l.loops)].continues = @ \cup {here(l)}]
        IN low' = Lowered(emit(m, Instruction("Jump", active.continue_target) \o I("Unit")), Wanted(last))
  BY DEF Stmt_Continue, Lower
<1> DEFINE b == Begun(last)
           w == Wanted(last)
           l == Leaving(b, <<>>, active.iters, active.continue_depth)
           t == active.continue_target
<1>2. PICK G, K : Stands(G, K, b) /\ Want(Inmost(K, b)) = w BY BegunSound DEF Stmt_Continue, Lasts
<1>3. b.loops = low.loops /\ low.loops # <<>> /\ ~InOperand BY BegunFields DEF Lasts, Stmt_Continue, At
<1>4. PICK e : InLoop(G, K, b, e)
 <2>1. Len(low.open) = Len(b.open) /\ \A i \in 1..Len(b.open) : low.open[i].kind = b.open[i].kind
  <3>1. last \in BOOLEAN /\ Top.kind \in {"block", "program"} BY DEF Lasts, Stmt_Continue, At
  <3>2. /\ Len(b.open) = Len(low.open) /\ \A i \in 1..(Len(low.open) - 1) : b.open[i] = low.open[i]
        /\ b.open[Len(low.open)].kind = low.open[Len(low.open)].kind
    BY <3>1, BegunFields DEF Top, LastOf
  <3>3. Len(low.open) \in Nat BY DEF LowOK, LowBase
  <3> QED BY <3>2, <3>3
 <2>2. DOMAIN low.open = 1..Len(b.open) BY <2>1 DEF LowOK, LowBase
 <2> QED BY <1>2, <1>3, <2>1, <2>2, InLoopIs
<1>5. l = ContinueRow(b, LastOf(b.loops), <<>> # <<>>)
 <2> HIDE DEF b
 <2> QED BY <1>3 DEF Leaving, ContinueRow
<1>6. Emittable(I("Unit")) /\ \A n \in Nat : Emittable(Instruction("Jump", n))
  BY OneEmittable DEF I, Emitted
<1>7. t = LastOf(b.loops).continue_target BY <1>3
<1>8. low' = Lowered(emit(IF t # 0 THEN l ELSE NextTaken(l), Instruction("Jump", t) \o I("Unit")), w)
  BY <1>1 DEF NextTaken, b, w, l, t
<1> HIDE DEF b, w, l, t
<1>9. PICK H : Leads(G, b, H, l, K.base[e + 1], {}, {}, {}) BY <1>2, <1>4, <1>5, ContinueGoes
<1>10. Ctx(b.open, e).kind \in Repeated /\ t = IF Ctx(b.open, e).kind \in {"loop", "do"} THEN Ctx(b.open, e).top ELSE 0
  BY <1>4, <1>7 DEF InLoop, Ring
<1>11. CASE Ctx(b.open, e).kind \in {"loop", "do"}
 <2>1. Tracks(H, l) /\ t \in Nat \ {0} /\ LowSound(Lowered(emit(emit(l, Instruction("Jump", t)), I("Unit")), w))
   BY <1>2, <1>3, <1>4, <1>7, <1>9, <1>11, ContinueBack
 <2>2. emit(l, Instruction("Jump", t) \o I("Unit")) = emit(emit(l, Instruction("Jump", t)), I("Unit"))
   BY <1>6, <2>1, EmitPair
 <2> QED BY <1>8, <2>1, <2>2
<1>12. CASE Ctx(b.open, e).kind \in {"while", "for"}
 <2> DEFINE m == NextTaken(l)
 <2>1. Tracks(H, m) /\ LowSound(Lowered(emit(emit(m, I("Jump")), I("Unit")), w))
   BY <1>2, <1>3, <1>4, <1>9, <1>12, ContinueOn
 <2>2. t = 0 BY <1>10, <1>12
 <2> HIDE DEF m
 <2>3. emit(m, I("Jump") \o I("Unit")) = emit(emit(m, I("Jump")), I("Unit"))
   BY <1>6, <2>1, EmitPair DEF I
 <2> QED BY <1>8, <2>1, <2>2, <2>3 DEF m, I
<1> QED BY <1>10, <1>11, <1>12 DEF Repeated
=============================================================================
