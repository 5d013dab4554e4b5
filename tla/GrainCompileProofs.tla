----------------------------- MODULE GrainCompileProofs -----------------------------
(***************************************************************************)
(* From the lowering of a script to its last instruction: a statement that *)
(* ends closes its context, and what is left at the end is a chart, a      *)
(* layout for each address (Charts).  On a chart the verifier finds what   *)
(* the layouts say until it meets a break out of a `for` (Walked, Doomed), *)
(* and the machine has at each instruction what the layout says, above the *)
(* floor of its frame (MachineOK).                                         *)
(*                                                                         *)
(* Whole is the inductive invariant of compiled scripts and of artifacts.  *)
(***************************************************************************)
EXTENDS GrainLayoutProofs

(* The statements with blocks end. *)
LEMMA BottomLayout ==
  ASSUME NEW G, Good(G)
  PROVE  LayoutOK(G, Bottom)
<1>1. Bottom \in Layouts /\ Size(Bottom) = 0 /\ G.room \in Nat /\ Len(Bottom.stack) = 0 /\ Len(Bottom.handlers) = 0
  BY BottomType DEF Good, Bottom
<1>2. 1..0 = {} OBVIOUS
<1> QED BY <1>1, <1>2 DEF LayoutOK

\* Every block that is open began with a layout in order.
LEMMA BaseLayout ==
  ASSUME NEW G, Good(G), NEW K, NEW o, NEW q, Ctxs(G, K, o, q, {}), NEW d \in 1..K.depth
  PROVE  LayoutOK(G, K.base[d]) /\ (d > 1 => Blk(o, d).depth = K.base[d].scope)
<1>1. K \in Plans /\ Links(G, K, o) /\ K.base[1] = Bottom BY DEF Ctxs, Nests
<1>2. K.depth \in Nat /\ d \in Nat /\ d > 0 /\ d <= K.depth BY <1>1, PlanFacts
<1>3. CASE d = 1 BY <1>1, <1>3, BottomLayout
<1>4. CASE d # 1
 <2> DEFINE e == d - 1
 <2>1. e \in 1..(K.depth - 1) /\ e + 1 = d BY <1>2, <1>4
 <2>2. Fits(G, K.base[e], K.start[e], K.base[e + 1], Ctx(o, e), Blk(o, e), Blk(o, e + 1))
   BY <1>1, <2>1 DEF Links
 <2> HIDE DEF e
 <2> QED BY <2>1, <2>2 DEF Fits
<1> QED BY <1>3, <1>4

\* The block has been closed, and k is the lowering.
Closes(G, K, o, q, k) ==
  LET D == K.depth
      B == K.base[D]
      T == K.start[D - 1]
      A == K.base[D - 1]
  IN /\ Tracks(G, k) /\ Good(G) /\ K \in Plans /\ D \in Nat /\ D > 1 /\ D - 1 \in Nat
     /\ Ctxs(G, K, o, q, {}) /\ o \in Seq(Blocks \cup Opens) /\ q \in Seq(Loops)
     /\ Fits(G, A, T, B, Inner(K, o), Blk(o, D - 1), Blk(o, D))
     /\ LayoutOK(G, A) /\ LayoutOK(G, T) /\ LayoutOK(G, B) /\ A \in Layouts /\ T \in Layouts /\ B \in Layouts
     /\ (D - 1 > 1 => Blk(o, D - 1).depth = A.scope)
     /\ Inner(K, o) \in Opens
     /\ End(G) = Valued(B, Blk(o, D).wants)
     /\ k.open = Outside(o) /\ k.loops = q /\ k.slots = B.scope /\ k.iters = B.iters /\ k.handlers = Len(B.handlers)
     /\ DOMAIN k = LowFields

LEMMA ValuedScoped ==
  ASSUME NEW s \in Layouts, NEW n \in Nat, NEW w
  PROVE  /\ Scoped(Valued(s, w), n) = Valued(Scoped(s, n), w) /\ Valued(s, w).scope = s.scope
         /\ Scoped(s, s.scope) = s
BY DEF Scoped, Valued, Plus, Layouts

LEMMA CloseParts ==
  ASSUME LowOK(low), NEW kind, Closing(kind), NEW G, NEW K, Tracks(G, low), Ctxs(G, K, low.open, low.loops, {})
  PROVE  LET D == K.depth
             B == K.base[D]
             T == K.start[D - 1]
             A == K.base[D - 1]
             o == low.open
         IN /\ Good(G) /\ K \in Plans /\ D \in Nat /\ D > 1 /\ D - 1 \in Nat
            /\ o \in Seq(Blocks \cup Opens) /\ low.loops \in Seq(Loops)
            /\ Fits(G, A, T, B, Inner(K, o), Blk(o, D - 1), Blk(o, D))
            /\ LayoutOK(G, A) /\ LayoutOK(G, T) /\ LayoutOK(G, B) /\ A \in Layouts /\ T \in Layouts /\ B \in Layouts
            /\ (D - 1 > 1 => Blk(o, D - 1).depth = A.scope)
            /\ Inner(K, o) \in Opens /\ Inner(K, o) = Owner /\ Inner(K, o).kind = kind
            /\ Top = Blk(o, D) /\ Top.depth = B.scope /\ Top.wants \in Wants
            /\ SubSeq(o, 1, Len(o) - 2) = Outside(o)
<1> DEFINE o == low.open
           D == K.depth
<1>1. /\ Good(G) /\ K \in Plans /\ Nests(K, o, low.loops) /\ Links(G, K, o) BY DEF Tracks, Ctxs
<1>2. o \in Seq(Blocks \cup Opens) /\ low.loops \in Seq(Loops) /\ Top.wants \in Wants
  BY TopType DEF LowOK, LowBase
<1>3. Top = Blk(o, D) /\ Len(o) = 2 * D - 1 /\ D \in Nat /\ D > 0 BY InmostIs DEF Top
<1>4. D > 1
 <2>1. Top.kind = "block" BY DEF Closing
 <2>2. D \in 1..D BY <1>3
 <2>3. D # 1 BY <1>1, <1>3, <2>1, <2>2 DEF Nests
 <2> QED BY <1>3, <2>3
<1>5. D - 1 \in Nat /\ D - 1 \in 1..D /\ D \in 1..D /\ D - 1 \in 1..(D - 1) /\ (D - 1) + 1 = D
  BY <1>3, <1>4
<1>6. Fits(G, K.base[D - 1], K.start[D - 1], K.base[D], Inner(K, o), Blk(o, D - 1), Blk(o, D))
  BY <1>1, <1>5 DEF Links, Inner
<1>7. LayoutOK(G, K.base[D - 1]) /\ LayoutOK(G, K.base[D]) /\ Blk(o, D).depth = K.base[D].scope
      /\ (D - 1 > 1 => Blk(o, D - 1).depth = K.base[D - 1].scope)
  BY <1>1, <1>4, <1>5, BaseLayout
<1>8. LayoutOK(G, K.start[D - 1]) BY <1>6 DEF Fits
<1>9. Inner(K, o) = Owner BY <1>3 DEF Inner, Ctx, Owner
<1>10. Inner(K, o).kind = kind BY <1>9 DEF Closing, Owner
<1>11. Inner(K, o) \in Opens
 <2>1. Inner(K, o).kind \in StmtKinds BY <1>1, <1>5 DEF Nests, Inner
 <2>2. 2 * (D - 1) \in 1..Len(o) /\ Inner(K, o) = o[2 * (D - 1)] BY <1>3, <1>4 DEF Inner, Ctx
 <2>3. Inner(K, o) \in Blocks \cup Opens BY <1>2, <2>2
 <2>4. ASSUME NEW x \in Blocks PROVE x.kind \notin StmtKinds BY DEF Blocks, StmtKinds
 <2> QED BY <2>1, <2>3, <2>4
<1> QED BY <1>1, <1>2, <1>3, <1>4, <1>5, <1>6, <1>7, <1>8, <1>9, <1>10, <1>11 DEF Outside, LayoutOK

LEMMA ClosedSound ==
  ASSUME LowOK(low), LowSound(low), NEW kind, Closing(kind)
  PROVE  \E G, K : /\ Closes(G, K, low.open, low.loops, Closed)
                   /\ Inner(K, low.open) = Owner /\ Owner.kind = kind
<1> DEFINE o == low.open
           q == low.loops
           l == [low EXCEPT !.open = Outside(o)]
<1>1. PICK G, K : Tracks(G, low) /\ Ctxs(G, K, o, q, {}) /\ Reached(G, K, low) BY DEF LowSound
<1> DEFINE D == K.depth
           B == K.base[D]
           T == K.start[D - 1]
           A == K.base[D - 1]
           w == Top.wants
<1>2. /\ Good(G) /\ K \in Plans /\ D \in Nat /\ D > 1 /\ D - 1 \in Nat
      /\ o \in Seq(Blocks \cup Opens) /\ low.loops \in Seq(Loops)
      /\ Fits(G, A, T, B, Inner(K, o), Blk(o, D - 1), Blk(o, D))
      /\ LayoutOK(G, A) /\ LayoutOK(G, T) /\ LayoutOK(G, B) /\ A \in Layouts /\ T \in Layouts /\ B \in Layouts
      /\ (D - 1 > 1 => Blk(o, D - 1).depth = A.scope)
      /\ Inner(K, o) \in Opens /\ Inner(K, o) = Owner /\ Inner(K, o).kind = kind
      /\ Top = Blk(o, D) /\ Top.depth = B.scope /\ w \in Wants
      /\ SubSeq(o, 1, Len(o) - 2) = Outside(o)
  BY <1>1, CloseParts
<1>3. /\ B.scope <= low.slots /\ End(G) = Valued(Scoped(B, low.slots), IF Top.last THEN w ELSE "Effect")
      /\ low.slots \in Nat /\ low.iters = B.iters /\ low.handlers = Len(B.handlers)
      /\ ~Top.some => ~Top.last /\ low.slots = B.scope
  BY <1>1, <1>2 DEF Reached
<1>4. /\ Closed = IF Top.some THEN unwind_to(l, Top.depth) ELSE IF w = "Value" THEN emit(l, I("Unit")) ELSE l
      /\ Top.some => Top.last
  BY <1>2 DEF Closed, Closing
<1>5. DOMAIN low = LowFields BY <1>1 DEF Tracks
<1>6. /\ DOMAIN l = LowFields /\ l.code = low.code /\ l.max_stack = low.max_stack /\ l.patched = low.patched
      /\ l.slots = low.slots /\ l.iters = low.iters /\ l.handlers = low.handlers
      /\ l.loops = q /\ l.open = Outside(o)
  BY <1>5 DEF LowFields
<1> HIDE DEF l
<1>7. Tracks(G, l) BY <1>1, <1>6, TracksSame
<1>8. B.scope \in Nat BY <1>2, LayoutType
<1> SUFFICES \E H : /\ Tracks(H, Closed) /\ Good(H) /\ Grows(G, H, {}, {}) /\ Calm(G, H, {})
                    /\ End(H) = Valued(B, w) /\ DOMAIN Closed = LowFields
                    /\ Closed.open = Outside(o) /\ Closed.loops = q /\ Closed.slots = B.scope
                    /\ Closed.iters = B.iters /\ Closed.handlers = Len(B.handlers)
 <2>1. PICK H : /\ Tracks(H, Closed) /\ Good(H) /\ Grows(G, H, {}, {}) /\ Calm(G, H, {})
                /\ End(H) = Valued(B, w) /\ DOMAIN Closed = LowFields
                /\ Closed.open = Outside(o) /\ Closed.loops = q /\ Closed.slots = B.scope
                /\ Closed.iters = B.iters /\ Closed.handlers = Len(B.handlers)
   OBVIOUS
 <2>2. Ctxs(H, K, o, q, {}) BY <1>1, <1>2, <2>1, CtxsStay
 <2>3. Fits(H, A, T, B, Inner(K, o), Blk(o, D - 1), Blk(o, D)) BY <1>2, <2>1, FitsGrows
 <2>4. LayoutOK(H, A) /\ LayoutOK(H, T) /\ LayoutOK(H, B)
  <3> HIDE DEF A, B, T
  <3> QED BY <1>2, <2>1, LayoutsStay
 <2>5. Closes(H, K, o, q, Closed) BY <1>2, <2>1, <2>2, <2>3, <2>4 DEF Closes
 <2> QED BY <1>2, <2>5
<1> HIDE DEF A, B, T, D, o, q
<1>9. CASE ~Top.some
 <2>1. End(G) = B /\ low.slots = B.scope BY <1>2, <1>3, <1>9 DEF Scoped, Layouts, Valued
 <2>2. CASE w = "Value"
  <3> DEFINE m == emit(l, I("Unit"))
  <3>1. PICK H : Emits(G, l, H, "Unit", 0, Plus(B, 0)) BY <1>7, <2>1, EmitPush
  <3>2. Leads(G, l, H, m, Plus(B, 0), {}, {}, {}) BY <3>1, EmitsPlain DEF Steady, I
  <3> HIDE DEF m
  <3>3. /\ Tracks(H, m) /\ Good(H) /\ Grows(G, H, {}, {}) /\ Calm(G, H, {}) /\ End(H) = Plus(B, 0) /\ DOMAIN m = LowFields
        /\ m.slots = l.slots /\ m.iters = l.iters /\ m.handlers = l.handlers
        /\ m.loops = l.loops /\ m.open = l.open
    BY <1>7, <3>2, LeadsFacts
  <3>4. Closed = m BY <1>4, <1>9, <2>2 DEF m
  <3> QED BY <3>3, <3>4, <1>3, <1>6, <2>1, <2>2 DEF Valued
 <2>3. CASE w # "Value"
  <3>1. Closed = l BY <1>4, <1>9, <2>3
  <3>2. Grows(G, G, {}, {}) /\ Calm(G, G, {}) BY <1>2, GrowsSelf
  <3> QED BY <3>1, <3>2, <1>2, <1>3, <1>6, <1>7, <2>1, <2>3 DEF Valued
 <2> QED BY <2>2, <2>3
<1>10. CASE Top.some
 <2>1. End(G) = Valued(Scoped(B, low.slots), w) /\ Closed = unwind_to(l, B.scope)
   BY <1>2, <1>3, <1>4, <1>10
 <2> DEFINE s == Scoped(B, low.slots)
 <2>2. s \in Layouts /\ s.scope = low.slots /\ Scoped(s, B.scope) = B
  <3>1. s \in Layouts /\ s.scope = low.slots BY <1>2, <1>3, ScopedType
  <3>2. Scoped(s, B.scope) = Scoped(B, B.scope) BY <1>2, ScopedTwice
  <3>3. Scoped(B, B.scope) = B BY <1>2, <1>8, ValuedScoped
  <3> QED BY <3>1, <3>2, <3>3
 <2> HIDE DEF s
 <2>3. End(G).scope = low.slots /\ Scoped(End(G), B.scope) = Valued(B, w)
   BY <1>8, <2>2, ValuedScoped, <2>1 DEF s
 <2>4. CASE low.slots > B.scope
  <3> DEFINE u == emit(l, Instruction("UnwindTo", B.scope))
             m == [u EXCEPT !.slots = B.scope]
  <3>1. Closed = m BY <2>1, <2>4, <1>6 DEF unwind_to
  <3>2. LayoutOK(G, Scoped(End(G), B.scope))
   <4>1. CASE w = "Value"
    <5>1. /\ Size(Plus(B, 0)) = Size(B) + 1 /\ Size(s) = Size(B) /\ Size(Plus(s, 0)) = Size(s) + 1
     <6>1. \A r \in Layouts : Size(Plus(r, 0)) = Size(r) + 1
      <7>1. 0 \in Nat OBVIOUS
      <7> QED BY ONLY <7>1, PlusType
     <6>2. Size(s) = Size(B) BY <1>2, <1>3, ScopedType DEF s
     <6> QED BY ONLY <6>1, <6>2, <1>2, <2>2
    <5>2. LayoutOK(G, Plus(s, 0)) BY <1>1, <2>1, <4>1, TracksFacts DEF Valued, s
    <5>3. Size(B) + 1 <= G.room BY <5>1, <5>2 DEF LayoutOK
    <5> QED BY <1>2, <2>3, <4>1, <5>3, PlusLayout DEF Valued
   <4>2. CASE w # "Value" BY <1>2, <2>3, <4>2 DEF Valued
   <4> QED BY <4>1, <4>2
  <3>3. B.scope <= End(G).scope BY <1>3, <2>3
  <3>4. PICK H : Emits(G, l, H, "UnwindTo", B.scope, Valued(B, w))
    BY <1>7, <1>8, <2>3, <3>2, <3>3, EmitUnwind
  <3>5. Leads(G, l, H, u, Valued(B, w), {}, {}, {}) BY <3>4, EmitsPlain DEF Steady
  <3> HIDE DEF u
  <3>6. /\ Tracks(H, u) /\ Good(H) /\ Grows(G, H, {}, {}) /\ Calm(G, H, {}) /\ End(H) = Valued(B, w) /\ DOMAIN u = LowFields
        /\ u.slots = l.slots /\ u.iters = l.iters /\ u.handlers = l.handlers
        /\ u.loops = l.loops /\ u.open = l.open
    BY <1>7, <3>5, LeadsFacts
  <3>7. /\ DOMAIN m = LowFields /\ m.code = u.code /\ m.max_stack = u.max_stack /\ m.patched = u.patched
        /\ m.slots = B.scope /\ m.iters = u.iters /\ m.handlers = u.handlers /\ m.loops = u.loops /\ m.open = u.open
    BY <3>6 DEF LowFields
  <3> HIDE DEF m
  <3>8. Tracks(H, m) BY <3>6, <3>7, TracksSame
  <3> QED BY <3>1, <3>6, <3>7, <3>8, <1>3, <1>6
 <2>5. CASE low.slots = B.scope
  <3>1. ~(low.slots > B.scope) BY <1>8, <2>5
  <3>2. Closed = l BY <2>1, <3>1, <1>6 DEF unwind_to
  <3>3. Grows(G, G, {}, {}) /\ Calm(G, G, {}) BY <1>2, GrowsSelf
  <3>4. End(G) = Valued(B, w) BY <1>2, <2>1, <2>5 , <1>8, ValuedScoped
  <3> QED BY <3>2, <3>3, <3>4, <1>2, <1>3, <1>6, <1>7, <2>5
 <2> QED BY <1>3, <1>8, <2>4, <2>5
<1> QED BY <1>9, <1>10

\* The jumps that the innermost statement has to patch, and where they lead.
Leaves(G, K, o, S, way) ==
  \A a : a \in S <=> Open_jump(G, a) /\ K.own[a] = <<K.depth - 1, way>>

Lands(G, S, t) == \A a \in S : Open_jump(G, a) /\ Ahead(G.code[a].op, a, G.at[a], t)

\* The layout of the statement that ends, and that of its block.
First(K) == K.start[K.depth - 1]

Body(K) == K.base[K.depth]

LEMMA LeavesLand ==
  ASSUME NEW G, NEW K, NEW o, NEW q, NEW k, Closes(G, K, o, q, k), NEW S, NEW way, Leaves(G, K, o, S, way)
  PROVE  Lands(G, S, Aim(Inner(K, o), First(K), Body(K), way))
<1> SUFFICES ASSUME NEW a \in S
             PROVE  Open_jump(G, a) /\ Ahead(G.code[a].op, a, G.at[a], Aim(Inner(K, o), First(K), Body(K), way))
  BY DEF Lands
<1>1. Open_jump(G, a) /\ K.own[a] = <<K.depth - 1, way>> BY DEF Leaves
<1>2. Jumps(G, K, o, q, {}) /\ K.depth \in Nat BY DEF Closes, Ctxs
<1>3. Ahead(G.code[a].op, a, G.at[a], Goal(K, o, K.own[a])) BY <1>1, <1>2 DEF Jumps
<1>4. (K.depth - 1) + 1 = K.depth BY <1>2
<1>5. Goal(K, o, K.own[a]) = Aim(Inner(K, o), First(K), Body(K), way)
  BY <1>1, <1>4 DEF Goal, Inner, First, Body
<1> QED BY <1>1, <1>3, <1>5

LEMMA SitesAre ==
  ASSUME NEW G, NEW K, NEW o, NEW q, NEW k, Closes(G, K, o, q, k), Inner(K, o).kind \notin Repeated
  PROVE  Leaves(G, K, o, Sites(Inner(K, o)), "out") /\ Leaves(G, K, o, {}, "in")
<1>1. Jumps(G, K, o, q, {}) /\ K.depth - 1 \in 1..(K.depth - 1) BY DEF Closes, Ctxs
<1>2. Owns(G, K, {}, K.depth - 1, "out", Sites(Inner(K, o))) /\ Owns(G, K, {}, K.depth - 1, "in", {})
  BY <1>1 DEF Jumps, Inner
<1> QED BY <1>2 DEF Owns, Leaves

LEMMA LoopSites ==
  ASSUME NEW G, NEW K, NEW o, NEW q, NEW k, Closes(G, K, o, q, k), Inner(K, o).kind \in Repeated
  PROVE  /\ Leaves(G, K, o, Outs(Inner(K, o), LastOf(q)), "out")
         /\ Leaves(G, K, o, Ins(Inner(K, o), LastOf(q)), "in")
         /\ Len(q) \in Nat /\ Len(q) > 0 /\ LastOf(q) \in Loops
         /\ Ring(First(K), Body(K), Inner(K, o), LastOf(q))
<1>1. Jumps(G, K, o, q, {}) /\ K \in Plans /\ Nests(K, o, q) /\ Rings(K, o, q) /\ K.depth \in Nat /\ K.depth > 1
      /\ q \in Seq(Loops)
  BY DEF Closes, Ctxs
<1>2. Len(q) \in Nat /\ Len(q) > 0 /\ K.loop[Len(q)] = K.depth - 1 BY <1>1, LastLoop
<1>3. Len(q) \in 1..Len(q) /\ LastOf(q) = q[Len(q)] BY <1>2 DEF LastOf
<1>4. /\ Owns(G, K, {}, K.depth - 1, "out", Outs(Inner(K, o), LastOf(q)))
      /\ Owns(G, K, {}, K.depth - 1, "in", Ins(Inner(K, o), LastOf(q)))
  BY <1>1, <1>2, <1>3 DEF Jumps, Inner
<1>5. Ring(First(K), Body(K), Inner(K, o), LastOf(q)) BY <1>1, <1>3, <1>2 DEF Rings, First, Body, Inner
<1>6. LastOf(q) \in Loops BY <1>1, <1>3
<1> QED BY <1>2, <1>4, <1>5, <1>6 DEF Owns, Leaves

\* All that it has to patch has been patched.
LEMMA CloseDone ==
  ASSUME NEW G, NEW K, NEW o, NEW q, NEW k, Closes(G, K, o, q, k),
         NEW R, Leaves(G, K, o, R, "out"), NEW S, Leaves(G, K, o, S, "in"),
         NEW P, \A a : a \in P <=> (a \in R \/ a \in S),
         NEW H, Grows(G, H, P, {}), Calm(G, H, {}),
         NEW t \in Nat \ {0}, Inner(K, o).kind = "for" => \A a \in R : H.code[a].arg = t,
         NEW m, Tracks(H, m), m.open = Outside(o), m.loops = Left(q, Inner(K, o).kind),
         m.slots = First(K).scope, m.iters = First(K).iters, m.handlers = Len(First(K).handlers),
         End(H) = Valued(First(K), Inner(K, o).wants)
  PROVE  LowSound(m)
<1> DEFINE D == K.depth
           A == K.base[D - 1]
           T == First(K)
           kind == Inner(K, o).kind
           J == Shallower(K, kind, K.own)
           b == Blk(o, D - 1)
<1>1. /\ Good(G) /\ K \in Plans /\ D \in Nat /\ D > 1 /\ D - 1 \in Nat
      /\ Ctxs(G, K, o, q, {}) /\ o \in Seq(Blocks \cup Opens) /\ q \in Seq(Loops)
      /\ Fits(G, A, T, Body(K), Inner(K, o), b, Blk(o, D))
      /\ LayoutOK(G, A) /\ LayoutOK(G, T) /\ A \in Layouts /\ T \in Layouts
      /\ (D - 1 > 1 => b.depth = A.scope)
  BY DEF Closes, First, Body
<1>2. Good(H) BY DEF Tracks
<1>3. K.own \in [Nat -> Nat \X Ways] /\ \A a \in Nat : K.own[a] = <<K.own[a][1], K.own[a][2]>> /\ K.own[a][2] \in Ways
  BY <1>1, PlanFacts
<1>4. \A a \in P : Open_jump(G, a) BY DEF Leaves
<1>5. ASSUME NEW a, Open_jump(G, a) PROVE a \in P <=> K.own[a][1] = D - 1
 <2>1. a \in Nat BY <1>1, CodeLen, <1>5 DEF Good, Open_jump
 <2>2. K.own[a] = <<K.own[a][1], K.own[a][2]>> /\ (K.own[a][2] = "out" \/ K.own[a][2] = "in")
   BY <1>3, <2>1 DEF Ways
 <2>3. a \in R <=> K.own[a] = <<D - 1, "out">> BY <1>5 DEF Leaves
 <2>4. a \in S <=> K.own[a] = <<D - 1, "in">> BY <1>5 DEF Leaves
 <2> HIDE DEF D
 <2> QED BY <2>2, <2>3, <2>4
<1>6. kind = "for" => \A a : Open_jump(G, a) /\ K.own[a] = <<D - 1, "out">> => H.code[a].arg = t
  BY DEF Leaves
<1>7. Ctxs(H, J, Outside(o), Left(q, kind), {})
 <2>1. \A a \in {} : ~(a <= Len(G.code)) OBVIOUS
 <2>2. \A a : Open_jump(G, a) /\ a \notin P => K.own[a] = K.own[a] OBVIOUS
 <2>3. /\ Good(G) /\ Good(H) /\ Grows(G, H, P, {}) /\ Calm(G, H, {})
       /\ Ctxs(G, K, o, q, {}) /\ K.depth > 1
       /\ \A a \in P : Open_jump(G, a)
       /\ \A a : Open_jump(G, a) => (a \in P <=> K.own[a][1] = K.depth - 1)
   BY <1>1, <1>2, <1>4, <1>5
 <2>4. /\ t \in Nat \ {0}
       /\ Inner(K, o).kind = "for" =>
            \A a : Open_jump(G, a) /\ K.own[a] = <<K.depth - 1, "out">> => H.code[a].arg = t
   BY <1>6
 <2>5. Ctxs(H, Shallower(K, Inner(K, o).kind, K.own), Outside(o), Left(q, Inner(K, o).kind), {})
   BY ONLY <1>1, <1>3, <2>1, <2>2, <2>3, <2>4, CtxsClose
 <2> QED BY <2>5
<1>8. J.depth = D - 1 /\ J.base = K.base BY DEF Shallower
<1>9. Blk(Outside(o), D - 1) = b
 <2>1. Len(o) = 2 * D - 1 BY <1>1 DEF Ctxs, Nests
 <2>2. Remains(Outside(o), o, D)
  <3> HIDE DEF D
  <3> QED BY <1>1, <2>1, RemainsOf
 <2>3. D - 1 \in 1..(D - 1) BY <1>1
 <2> QED BY <2>2, <2>3 DEF Remains
<1>10. /\ A.scope <= T.scope /\ T = Scoped(A, T.scope) /\ b.some
       /\ Inner(K, o).wants = IF b.last THEN b.wants ELSE "Effect"
  BY <1>1 DEF Fits
<1>11. T.iters = A.iters /\ T.handlers = A.handlers /\ T.scope \in Nat
 <2>1. T.scope \in Nat BY <1>1, LayoutType
 <2> HIDE DEF T, A
 <2>2. Scoped(A, T.scope).iters = A.iters /\ Scoped(A, T.scope).handlers = A.handlers
   BY <1>1, <2>1, ScopedType
 <2> QED BY <1>10, <2>1, <2>2
<1>12. LayoutOK(H, A) /\ LayoutOK(H, T)
 <2> HIDE DEF A, T
 <2> QED BY <1>1, <1>2, LayoutsStay
<1> HIDE DEF J
<1>13. Reached(H, J, m)
 <2> HIDE DEF D, A, T, b
 <2>1. J.base[J.depth] = A BY <1>8 DEF A
 <2>2. m.slots = T.scope /\ m.iters = T.iters /\ m.handlers = Len(T.handlers) /\ End(H) = Valued(T, Inner(K, o).wants)
   BY DEF T
 <2>3. Blk(m.open, J.depth) = b BY <1>8, <1>9
 <2> QED BY <1>1, <1>8, <1>10, <1>11, <1>12, <2>1, <2>2, <2>3 DEF Reached
<1>14. Ctxs(H, J, m.open, m.loops, {}) BY <1>7
<1> QED BY <1>13, <1>14 DEF LowSound

\* What is still to be patched can be.
LEMMA LandsStay ==
  ASSUME NEW G, NEW H, NEW P, NEW N, Good(G), Good(H), Grows(G, H, P, N), NEW S, NEW t, Lands(G, S, t),
         \A a \in S : ~(a \in P)
  PROVE  Lands(H, S, t)
<1> SUFFICES ASSUME NEW a \in S PROVE Open_jump(H, a) /\ Ahead(H.code[a].op, a, H.at[a], t) BY DEF Lands
<1>1. Open_jump(G, a) /\ Ahead(G.code[a].op, a, G.at[a], t) /\ ~(a \in P) BY DEF Lands
<1>2. Open_jump(H, a) BY <1>1, OpenStays
<1>3. a \in 1..Len(G.code) /\ G.code[a].op # "operand"
  BY <1>1 DEF Open_jump, Targeted, Branches, Advances
<1>4. a \in DOMAIN G.at BY <1>3 DEF Good, Starts
<1> QED BY <1>1, <1>2, <1>3, <1>4 DEF Grows

LEMMA PatchHere ==
  ASSUME NEW G, NEW l, Tracks(G, l), NEW P, Lands(G, P, End(G))
  PROVE  \E H : /\ Leads(G, l, H, patch_here(l, P), End(G), P, {}, {})
                /\ Redirects(G, H, P, Len(G.code) + 1)
<1> DEFINE n == Len(G.code) + 1
<1>1. n \in DOMAIN G.at /\ here(l) = n /\ G.at[n] = End(G) BY TracksFacts DEF End
<1>2. \A a \in P : Open_jump(G, a) /\ Ahead(G.code[a].op, a, G.at[a], G.at[n]) BY <1>1 DEF Lands
<1> HIDE DEF n
<1>3. \E H : Leads(G, l, H, patch_to(l, P, n), End(G), P, {}, {}) /\ Redirects(G, H, P, n)
  BY <1>1, <1>2, PatchTracks
<1> QED BY <1>1, <1>3 DEF patch_here, n

\* A jump over what comes next.
Skips(G, l, H, t) ==
  LET j == Len(G.code) + 1
  IN /\ Leads(G, l, H, emit(l, I("Jump")), t, {}, {j}, {})
     /\ Len(H.code) = Len(G.code) + 2 /\ Len(G.code) \in Nat /\ H.room = G.room + 1
     /\ Open_jump(H, j) /\ H.code[j].op = "Jump" /\ H.at[j] = End(G) /\ here(l) = j

LEMMA SkipGoes ==
  ASSUME NEW G, NEW l, Tracks(G, l), NEW t, LayoutOK(G, t)
  PROVE  \E H : Skips(G, l, H, t)
<1>1. \E H : Emits(G, l, H, "Jump", 0, t) BY EmitJump
<1> QED BY <1>1, EmitsSite, TracksFacts DEF Skips, I

LEMMA PlainGoes ==
  ASSUME NEW G, NEW l, Tracks(G, l), NEW op \in {"Unit", "Push"}
  PROVE  \E H : /\ Leads(G, l, H, emit(l, I(op)), Plus(End(G), 0), {}, {}, {})
                /\ Len(H.code) = Len(G.code) + 1 /\ Len(G.code) \in Nat /\ H.room = G.room + 1
<1>1. PICK H : Emits(G, l, H, op, 0, Plus(End(G), 0)) BY EmitPush
<1>2. op \in Steady BY DEF Steady
<1> QED BY <1>1, <1>2, EmitsPlain DEF I

LEMMA LoopValueGoes ==
  ASSUME NEW G, NEW l, Tracks(G, l), NEW T, LayoutOK(G, T), End(G) = T,
         NEW breaks, Lands(G, breaks, Plus(T, 0)), NEW w \in Wants
  PROVE  \E H : Leads(G, l, H, Lowered(LoopValue(l, breaks), w), Valued(T, w), breaks, {}, {})
<1> DEFINE m == emit(l, I("Unit"))
           n == emit(m, I("Jump"))
           j == here(m)
           t == Plus(T, 0)
<1>1. PICK H : /\ Leads(G, l, H, m, t, {}, {}, {})
               /\ Len(H.code) = Len(G.code) + 1 /\ Len(G.code) \in Nat
  BY PlainGoes
<1> HIDE DEF m, t
<1>2. Tracks(H, m) /\ Good(G) /\ Good(H) /\ LayoutOK(H, t) /\ End(H) = t /\ Grows(G, H, {}, {})
  BY <1>1, LeadsFacts
<1>3. PICK J : Skips(H, m, J, t) BY <1>2, SkipGoes
<1>4. /\ Leads(H, m, J, n, t, {}, {j}, {}) /\ j = Len(G.code) + 2 /\ Len(J.code) = Len(G.code) + 3
      /\ Open_jump(J, j) /\ J.code[j].op = "Jump" /\ J.at[j] = t
  BY <1>1, <1>2, <1>3 DEF Skips
<1> HIDE DEF n, j
<1>5. Tracks(J, n) /\ Good(J) /\ End(J) = t /\ Grows(H, J, {}, {j}) BY <1>2, <1>4, LeadsFacts
<1>6. Lands(J, breaks, t) BY <1>2, LandsStay, <1>5 DEF t
<1>7. Lands(J, breaks \cup {j}, End(J)) BY <1>4, <1>5, <1>6 DEF Lands, Ahead, Guards
<1>8. PICK L : Leads(J, n, L, patch_here(n, breaks \cup {j}), t, breaks \cup {j}, {}, {})
  BY <1>5, <1>7, PatchHere
<1> DEFINE u == patch_here(n, breaks \cup {j})
<1> HIDE DEF u
<1>9. Leads(J, n, L, u, t, breaks \cup {j}, {}, {}) BY <1>8 DEF u
<1>10. Leads(G, l, J, n, t, {}, {j}, {}) BY <1>1, <1>4, LeadsTo
<1>11. Leads(G, l, L, u, t, breaks, {}, {}) BY <1>1, <1>4, <1>9, <1>10, LeadsTrans
<1>12. Len(J.code) <= Len(L.code) /\ Len(L.code) \in Nat BY <1>5, <1>9, LeadsFacts DEF Grows
<1>13. Len(G.code) < Len(L.code) BY <1>1, <1>4, <1>12
<1>14. /\ Tracks(L, u) /\ LayoutOK(L, T) /\ End(L) = Plus(T, 0) /\ Grows(G, L, breaks, {}) /\ Calm(G, L, {})
       /\ Alike(l, u)
  BY <1>11, LeadsFacts DEF t, Leads
<1>15. \E M : Leads(G, l, M, Lowered(u, w), Valued(T, w), breaks, {}, {}) BY <1>13, <1>14, LoweredTracks
<1>16. LoopValue(l, breaks) = u BY DEF LoopValue, u, n, m, j
<1> QED BY <1>15, <1>16

\* What is known where the block of a statement has ended.
LEMMA ClosesFacts ==
  ASSUME NEW G, NEW K, NEW o, NEW q, NEW k, Closes(G, K, o, q, k)
  PROVE  LET T == First(K)
             B == Body(K)
             A == K.base[K.depth - 1]
             c == Inner(K, o)
             n == Blk(o, K.depth)
         IN /\ Tracks(G, k) /\ Good(G) /\ Len(G.code) \in Nat /\ K.depth \in Nat /\ K.depth > 1
            /\ Fits(G, A, T, B, c, Blk(o, K.depth - 1), n)
            /\ T \in Layouts /\ B \in Layouts /\ LayoutOK(G, T) /\ LayoutOK(G, B)
            /\ T.scope \in Nat /\ B.scope \in Nat /\ Scoped(T, T.scope) = T
            /\ c \in Opens /\ c.wants \in Wants /\ c.top \in Nat /\ c.kind \in StmtKinds
            /\ End(G) = Valued(B, n.wants)
            /\ k.open = Outside(o) /\ k.loops = q /\ k.slots = B.scope
            /\ k.iters = B.iters /\ k.handlers = Len(B.handlers) /\ DOMAIN k = LowFields
<1>1. First(K) = K.start[K.depth - 1] /\ Body(K) = K.base[K.depth] BY DEF First, Body
<1>2. First(K) \in Layouts /\ Body(K) \in Layouts /\ Good(G) /\ K.depth \in Nat /\ K.depth > 1
  BY <1>1 DEF Closes
<1>3. First(K).scope \in Nat /\ Body(K).scope \in Nat /\ Scoped(First(K), First(K).scope) = First(K)
 <2> HIDE DEF First, Body
 <2> QED BY <1>2, LayoutType, ValuedScoped
<1>4. Len(G.code) \in Nat BY <1>2, CodeLen DEF Good
<1>5. /\ Inner(K, o) \in Opens /\ Inner(K, o).wants \in Wants /\ Inner(K, o).top \in Nat
      /\ Inner(K, o).kind \in StmtKinds
  BY DEF Closes, Opens
<1> QED BY <1>1, <1>2, <1>3, <1>4, <1>5 DEF Closes

\* A statement that is no loop has ended.
LEMMA CloseLeads ==
  ASSUME NEW G, NEW K, NEW o, NEW q, NEW k, Closes(G, K, o, q, k), Inner(K, o).kind \notin Repeated,
         NEW H, NEW l, NEW t, NEW P, Leads(G, k, H, l, t, P, {}, {}),
         \A a : a \in P <=> a \in Sites(Inner(K, o)),
         NEW m, Tracks(H, m), m.open = l.open, m.loops = l.loops,
         m.slots = First(K).scope, m.iters = First(K).iters, m.handlers = Len(First(K).handlers),
         t = Valued(First(K), Inner(K, o).wants)
  PROVE  LowSound(m)
BY ClosesFacts, LeadsFacts, SitesAre, CloseDone DEF Left, Repeated

LEMMA end_blockSound ==
  ASSUME LowOK(low), LowSound(low), end_block
  PROVE  LowSound(low')
<1>1. Closing("plain") /\ low' = Closed BY DEF end_block, Lower
<1>2. PICK G, K : Closes(G, K, low.open, low.loops, Closed) /\ Inner(K, low.open) = Owner /\ Owner.kind = "plain"
  BY <1>1, ClosedSound
<1> DEFINE o == low.open
           k == Closed
           c == Inner(K, o)
           T == First(K)
           B == Body(K)
<1> HIDE DEF o, k
<1>3. Closes(G, K, o, low.loops, k) /\ c.kind = "plain" BY <1>2 DEF o, k
<1> HIDE DEF c, T, B
<1>4. /\ Tracks(G, k) /\ Fits(G, K.base[K.depth - 1], T, B, c, Blk(o, K.depth - 1), Blk(o, K.depth))
      /\ End(G) = Valued(B, Blk(o, K.depth).wants)
      /\ k.slots = B.scope /\ k.iters = B.iters /\ k.handlers = Len(B.handlers)
  BY <1>3, ClosesFacts DEF c, T, B
<1>5. B = T /\ Blk(o, K.depth).wants = c.wants BY <1>3, <1>4 DEF Fits
<1>6. Leads(G, k, G, k, End(G), {}, {}, {}) BY <1>4, LeadsSelf
<1>7. c.kind \notin Repeated /\ \A a : a \in {} <=> a \in Sites(c) BY <1>3 DEF Repeated, Sites
<1>8. LowSound(k) BY <1>3, <1>4, <1>5, <1>6, <1>7, CloseLeads DEF c, T
<1> QED BY <1>1, <1>8 DEF k

LEMMA end_elseSound ==
  ASSUME LowOK(low), LowSound(low), end_else
  PROVE  LowSound(low')
<1>1. Closing("else") /\ low' = patch_here(Closed, {Owner.site}) BY DEF end_else, Lower
<1>2. PICK G, K : Closes(G, K, low.open, low.loops, Closed) /\ Inner(K, low.open) = Owner /\ Owner.kind = "else"
  BY <1>1, ClosedSound
<1> DEFINE o == low.open
           k == Closed
           c == Inner(K, o)
           T == First(K)
           B == Body(K)
<1> HIDE DEF o, k
<1>3. Closes(G, K, o, low.loops, k) /\ c.kind = "else" /\ c = Owner BY <1>2 DEF o, k
<1> HIDE DEF c, T, B
<1>4. /\ Tracks(G, k) /\ Fits(G, K.base[K.depth - 1], T, B, c, Blk(o, K.depth - 1), Blk(o, K.depth))
      /\ End(G) = Valued(B, Blk(o, K.depth).wants)
      /\ k.slots = B.scope /\ k.iters = B.iters /\ k.handlers = Len(B.handlers)
  BY <1>3, ClosesFacts DEF c, T, B
<1>5. B = T /\ Blk(o, K.depth).wants = c.wants BY <1>3, <1>4 DEF Fits
<1>6. c.kind \notin Repeated /\ Sites(c) = {c.site} BY <1>3 DEF Repeated, Sites
<1>7. Lands(G, Sites(c), Aim(c, T, B, "out")) BY <1>3, <1>6, SitesAre, LeavesLand DEF c, T, B
<1>8. Aim(c, T, B, "out") = End(G) BY <1>3, <1>4, <1>5 DEF Aim
<1>9. PICK H : Leads(G, k, H, patch_here(k, {c.site}), End(G), {c.site}, {}, {})
  BY <1>4, <1>6, <1>7, <1>8, PatchHere
<1> DEFINE m == patch_here(k, {c.site})
<1> HIDE DEF m
<1>10. Leads(G, k, H, m, End(G), {c.site}, {}, {}) BY <1>9 DEF m
<1>11. Tracks(H, m) /\ m.slots = k.slots /\ m.iters = k.iters /\ m.handlers = k.handlers
  BY <1>4, <1>10, LeadsFacts
<1>12. \A a : a \in {c.site} <=> a \in Sites(c) BY <1>6
<1>13. LowSound(m) BY <1>3, <1>4, <1>5, <1>6, <1>10, <1>11, <1>12, CloseLeads DEF c, T
<1> QED BY <1>1, <1>3, <1>13 DEF k, m

LEMMA end_operandSound ==
  ASSUME LowOK(low), LowSound(low), end_operand
  PROVE  LowSound(low')
<1>1. Closing("operand") /\ low' = Lowered(emit(Closed, I("BinOp")), Owner.wants)
  BY DEF end_operand, Lower
<1>2. PICK G, K : Closes(G, K, low.open, low.loops, Closed) /\ Inner(K, low.open) = Owner /\ Owner.kind = "operand"
  BY <1>1, ClosedSound
<1> DEFINE o == low.open
           k == Closed
           c == Inner(K, o)
           T == First(K)
           B == Body(K)
<1> HIDE DEF o, k
<1>3. Closes(G, K, o, low.loops, k) /\ c.kind = "operand" /\ c = Owner BY <1>2 DEF o, k
<1> HIDE DEF c, T, B
<1>4. /\ Tracks(G, k) /\ Fits(G, K.base[K.depth - 1], T, B, c, Blk(o, K.depth - 1), Blk(o, K.depth))
      /\ End(G) = Valued(B, Blk(o, K.depth).wants) /\ LayoutOK(G, T) /\ T \in Layouts /\ Good(G)
      /\ k.slots = B.scope /\ k.iters = B.iters /\ k.handlers = Len(B.handlers) /\ c.wants \in Wants
  BY <1>3, ClosesFacts DEF c, T, B
<1>5. B = Plus(T, 0) /\ End(G) = Plus(Plus(T, 0), 0) BY <1>3, <1>4 DEF Fits, Valued
<1>6. c.kind \notin Repeated /\ \A a : a \in {} <=> a \in Sites(c) BY <1>3 DEF Repeated, Sites
<1> DEFINE m == emit(k, I("BinOp"))
<1>7. PICK H : Emits(G, k, H, "BinOp", 0, Plus(T, 0)) BY <1>4, <1>5, EmitBin
<1>8. "BinOp" \in Steady BY DEF Steady
<1>9. Leads(G, k, H, m, Plus(T, 0), {}, {}, {}) /\ Len(H.code) = Len(G.code) + 1 /\ Len(G.code) \in Nat
  BY <1>7, <1>8, EmitsPlain DEF I
<1> HIDE DEF m
<1>10. /\ Tracks(H, m) /\ LayoutOK(H, T) /\ End(H) = Plus(T, 0) /\ Grows(G, H, {}, {}) /\ Calm(G, H, {})
       /\ Alike(k, m) /\ Len(G.code) < Len(H.code)
  BY <1>4, <1>9, LeadsFacts DEF Leads
<1> DEFINE v == Lowered(m, c.wants)
<1> HIDE DEF v
<1>11. PICK M : Leads(G, k, M, v, Valued(T, c.wants), {}, {}, {}) BY <1>4, <1>10, LoweredTracks DEF v
<1>12. /\ Tracks(M, v) /\ v.slots = k.slots /\ v.iters = k.iters /\ v.handlers = k.handlers
  BY <1>4, <1>11, LeadsFacts
<1>13. B.scope = T.scope /\ B.iters = T.iters /\ B.handlers = T.handlers BY <1>4, <1>5, PlusType
<1>14. LowSound(v) BY <1>3, <1>4, <1>6, <1>11, <1>12, <1>13, CloseLeads DEF c, T
<1> QED BY <1>1, <1>3, <1>14 DEF k, m, v

\* The statement goes on with another block, and the jump at j is to be patched behind it.
Reopens(G, K, o, q, k, H, l, U, P, j, m, c, wants, must) ==
  /\ Closes(G, K, o, q, k)
  /\ Inner(K, o).kind \notin Repeated
  /\ j \in Nat
  /\ Leads(G, k, H, l, U, P, {j}, {})
  /\ ~(j <= Len(G.code))
  /\ \A a : a \in P <=> a \in Sites(Inner(K, o))
  /\ Tracks(H, m)
  /\ m.open = l.open
  /\ m.loops = l.loops
  /\ m.slots \in Nat
  /\ m.iters = U.iters
  /\ m.handlers = Len(U.handlers)
  /\ c \in Opens
  /\ c.kind \notin Repeated
  /\ wants \in Wants
  /\ must \in BOOLEAN
  /\ Fits(H, K.base[K.depth - 1], First(K), U, c, Blk(o, K.depth - 1), Block("block", wants, m.slots, must))
  /\ Open_jump(H, j)
  /\ Ahead(H.code[j].op, j, H.at[j], Aim(c, First(K), U, "out"))
  /\ Sites(c) = {j}
  /\ Over(K.base[K.depth - 1], U)

LEMMA ReopensNamed ==
  ASSUME NEW G, NEW K, NEW o, NEW q, NEW k, NEW H, NEW l, NEW U, NEW P, NEW j, NEW m, NEW c, NEW wants, NEW must,
         Reopens(G, K, o, q, k, H, l, U, P, j, m, c, wants, must)
  PROVE  LowSound(Opened(m, c, wants, must))
<1> USE DEF Reopens
<1> DEFINE D == K.depth
           x == Inner(K, o)
           f == [K.own EXCEPT ![j] = <<D - 1, "out">>]
           J == Shallower(K, x.kind, f)
           u == Outside(o)
<1>1. /\ Tracks(G, k) /\ Good(G) /\ D \in Nat /\ D > 1 /\ D - 1 \in Nat /\ K \in Plans
      /\ Ctxs(G, K, o, q, {}) /\ o \in Seq(Blocks \cup Opens) /\ q \in Seq(Loops) /\ k.open = u /\ k.loops = q
  BY DEF Closes
<1>2. /\ Good(H) /\ Grows(G, H, P, {j}) /\ Calm(G, H, {}) /\ End(H) = U /\ l.open = u /\ l.loops = q
  BY <1>1, LeadsFacts
<1>3. /\ K.own \in [Nat -> Nat \X Ways]
      /\ \A a \in Nat : K.own[a] = <<K.own[a][1], K.own[a][2]>> /\ K.own[a][2] \in Ways
  BY <1>1, PlanFacts
<1>4. <<D - 1, "out">> \in Nat \X Ways /\ "out" \in Ways BY <1>1 DEF Ways
<1>5. f \in [Nat -> Nat \X Ways] /\ f[j] = <<D - 1, "out">> /\ \A a \in Nat : a # j => f[a] = K.own[a]
 <2> HIDE DEF D
 <2> QED BY <1>3, <1>4, PutFacts
<1> HIDE DEF f
<1>6. Leaves(G, K, o, Sites(x), "out") /\ Leaves(G, K, o, {}, "in") BY SitesAre
<1>7. \A a \in P : Open_jump(G, a) BY <1>6 DEF Leaves
<1>8. ASSUME NEW a, Open_jump(G, a) PROVE (a \in P <=> K.own[a][1] = D - 1) /\ a \in Nat /\ a # j
 <2>1. a \in Nat /\ a # j BY <1>1, CodeLen, <1>8 DEF Good, Open_jump
 <2>2. K.own[a] = <<K.own[a][1], K.own[a][2]>> /\ (K.own[a][2] = "out" \/ K.own[a][2] = "in")
   BY <1>3, <2>1 DEF Ways
 <2>3. a \in Sites(x) <=> K.own[a] = <<D - 1, "out">> BY <1>6, <1>8 DEF Leaves
 <2>4. ~(K.own[a] = <<D - 1, "in">>) BY <1>6, <1>8 DEF Leaves
 <2>5. a \in P <=> a \in Sites(x) OBVIOUS
 <2> HIDE DEF D, x
 <2> QED BY <2>1, <2>2, <2>3, <2>4, <2>5
<1>9. Ctxs(H, J, u, q, {j})
 <2>1. \A a \in {j} : ~(a <= Len(G.code)) OBVIOUS
 <2>2. \A a : Open_jump(G, a) /\ a \notin P => f[a] = K.own[a] BY <1>5, <1>8
 <2>3. /\ Good(G) /\ Good(H) /\ Grows(G, H, P, {j}) /\ Calm(G, H, {})
       /\ Ctxs(G, K, o, q, {}) /\ K.depth > 1
       /\ \A a \in P : Open_jump(G, a)
       /\ \A a : Open_jump(G, a) => (a \in P <=> K.own[a][1] = K.depth - 1)
   BY <1>1, <1>2, <1>7, <1>8
 <2>4. /\ 1 \in Nat \ {0}
       /\ Inner(K, o).kind = "for" =>
            \A a : Open_jump(G, a) /\ K.own[a] = <<K.depth - 1, "out">> => H.code[a].arg = 1
   BY DEF Repeated
 <2>5. Ctxs(H, Shallower(K, Inner(K, o).kind, f), Outside(o), Left(q, Inner(K, o).kind), {j})
   BY ONLY <1>1, <1>5, <2>1, <2>2, <2>3, <2>4, CtxsClose
 <2>6. Left(q, Inner(K, o).kind) = q BY DEF Left
 <2> QED BY <2>5, <2>6
<1>10. J.depth = D - 1 /\ J.base = K.base /\ J.own = f BY DEF Shallower
<1>11. Blk(u, D - 1) = Blk(o, D - 1) /\ u \in Seq(Blocks \cup Opens)
 <2>1. Len(o) = 2 * D - 1 BY <1>1 DEF Ctxs, Nests
 <2>2. Remains(Outside(o), o, D) /\ Outside(o) \in Seq(Blocks \cup Opens)
  <3> HIDE DEF D
  <3> QED BY <1>1, <2>1, RemainsOf
 <2>3. D - 1 \in 1..(D - 1) BY <1>1
 <2> QED BY <2>2, <2>3 DEF Remains
<1> HIDE DEF J, u, D
<1>12. Base(J) = K.base[K.depth - 1] BY <1>10 DEF Base, D
<1>13. /\ m.open = u /\ m.loops = q
       /\ Fits(H, Base(J), First(K), U, c, Blk(u, J.depth), Block("block", wants, m.slots, must))
       /\ Over(Base(J), U)
  BY <1>2, <1>10, <1>11, <1>12 DEF D
<1>14. \A a \in {j} : /\ Open_jump(H, a) /\ J.own[a] = <<J.depth, "out">>
                      /\ Ahead(H.code[a].op, a, H.at[a], Aim(c, First(K), U, "out"))
  BY <1>5, <1>10
<1>15. Awaits(c, 0, "out", {j}) BY DEF Awaits
<1>16. m.loops = (IF c.kind \in Repeated THEN Append(q, 0) ELSE q) BY <1>13
<1>17. c.kind \in Repeated => Ring(First(K), U, c, 0) OBVIOUS
<1>18. u \in Seq(Blocks \cup Opens) /\ q \in Seq(Loops) /\ Ctxs(H, J, u, q, {j}) BY <1>1, <1>9, <1>11
<1>19. /\ Tracks(H, m) /\ c \in Opens /\ wants \in Wants /\ must \in BOOLEAN /\ m.slots \in Nat /\ End(H) = U
       /\ m.iters = U.iters /\ m.handlers = Len(U.handlers)
       /\ c.kind \in Repeated \cup {"operand"} \/ Over(Base(J), U)
  BY <1>2, <1>13
<1> DEFINE N == {j}
<1>20. /\ Ctxs(H, J, u, q, N) /\ Awaits(c, 0, "out", N)
       /\ \A a \in N : /\ Open_jump(H, a) /\ J.own[a] = <<J.depth, "out">>
                       /\ Ahead(H.code[a].op, a, H.at[a], Aim(c, First(K), U, "out"))
  BY <1>14, <1>15, <1>18
<1> HIDE DEF N
<1>21. OpensGiven(H, J, u, q, N, m, c, wants, must, 0, First(K), U, "out")
  BY ONLY <1>4, <1>13, <1>16, <1>17, <1>18, <1>19, <1>20 DEF OpensGiven
<1> QED BY ONLY <1>21, OpensNamed

LEMMA CloseOpens ==
  ASSUME NEW G, NEW K, NEW o, NEW q, NEW k, Closes(G, K, o, q, k), Inner(K, o).kind \notin Repeated,
         NEW H, NEW l, NEW U, NEW P, NEW j \in Nat, Leads(G, k, H, l, U, P, {j}, {}), ~(j <= Len(G.code)),
         \A a : a \in P <=> a \in Sites(Inner(K, o)),
         NEW m, Tracks(H, m), m.open = l.open, m.loops = l.loops, m.slots \in Nat,
         m.iters = U.iters, m.handlers = Len(U.handlers),
         NEW c \in Opens, c.kind \notin Repeated, NEW wants \in Wants, NEW must \in BOOLEAN,
         Fits(H, K.base[K.depth - 1], First(K), U, c, Blk(o, K.depth - 1), Block("block", wants, m.slots, must)),
         Open_jump(H, j), Ahead(H.code[j].op, j, H.at[j], Aim(c, First(K), U, "out")),
         Sites(c) = {j}, Over(K.base[K.depth - 1], U)
  PROVE  LowSound(Opened(m, c, wants, must))
  BY ReopensNamed DEF Reopens

\* Behind the block that is run if the condition holds, and behind the jump that skips the other.
Parts(G, K, o, k, c, H, l) ==
  LET T == First(K)
      j == Len(G.code) + 1
  IN /\ Leads(G, k, H, l, T, {c.site}, {j}, {})
     /\ Lands(H, {j}, End(G)) /\ Open_jump(H, j) /\ H.at[j] = End(G) /\ H.code[j].op = "Jump"
     /\ here(k) = j /\ j \in Nat /\ ~(j <= Len(G.code))

LEMMA PartsGo ==
  ASSUME NEW G, NEW K, NEW o, NEW q, NEW k, Closes(G, K, o, q, k), Inner(K, o).kind = "if"
  PROVE  \E H : Parts(G, K, o, k, Inner(K, o), H, patch_here(emit(k, I("Jump")), {Inner(K, o).site}))
<1> DEFINE c == Inner(K, o)
           T == First(K)
           j == Len(G.code) + 1
           l == emit(k, I("Jump"))
           m == patch_here(l, {c.site})
<1>1. /\ Tracks(G, k) /\ Good(G) /\ LayoutOK(G, T) /\ Len(G.code) \in Nat BY ClosesFacts
<1>2. PICK H : Skips(G, k, H, T) BY <1>1, SkipGoes
<1>3. /\ Leads(G, k, H, l, T, {}, {j}, {}) /\ Open_jump(H, j) /\ H.code[j].op = "Jump" /\ H.at[j] = End(G)
      /\ here(k) = j
  BY <1>2 DEF Skips
<1> HIDE DEF c, T, l
<1>4. Tracks(H, l) /\ Good(H) /\ Grows(G, H, {}, {j}) /\ End(H) = T BY <1>1, <1>3, LeadsFacts
<1>5. Sites(c) = {c.site} /\ Aim(c, T, Body(K), "out") = T /\ c.kind \notin Repeated
  BY DEF Sites, Aim, c, Repeated
<1>6. Lands(G, {c.site}, T) /\ Leaves(G, K, o, {c.site}, "out") BY <1>5, SitesAre, LeavesLand DEF c, T
<1>7. Lands(H, {c.site}, End(H)) BY <1>1, <1>4, <1>6, LandsStay
<1>8. PICK M : Leads(H, l, M, m, End(H), {c.site}, {}, {}) BY <1>4, <1>7, PatchHere
<1> HIDE DEF m
<1>9. c.site \in 1..Len(G.code) BY <1>6 DEF Lands, Open_jump
<1>10. c.site # j BY <1>1, <1>9
<1>11. Leads(G, k, M, m, T, {c.site}, {j}, {})
 <2>1. \A a \in 1..Len(G.code) : a \in {c.site} <=> (a \in {} \/ a \in {c.site}) OBVIOUS
 <2>2. \A a : (a \in {} \/ (a \in {j} /\ a \notin {c.site})) => a \in {j} OBVIOUS
 <2>3. \A a : (a \in {} \/ a \in {}) => a \in {} OBVIOUS
 <2>4. Leads(H, l, M, m, T, {c.site}, {}, {}) BY <1>4, <1>8
 <2> HIDE DEF j
 <2> QED BY <1>1, <1>3, <2>1, <2>2, <2>3, <2>4, LeadsTrans
<1>12. Lands(H, {j}, End(G)) BY <1>3 DEF Lands, Ahead, Guards
<1>13. Good(M) /\ Grows(H, M, {c.site}, {}) /\ Grows(G, M, {c.site}, {j})
  BY <1>1, <1>4, <1>8, <1>11, LeadsFacts
<1>14. Lands(M, {j}, End(G)) BY <1>4, <1>10, <1>12, <1>13, LandsStay
<1>15. Open_jump(M, j) /\ M.at[j] = End(G) /\ M.code[j].op = "Jump"
  BY <1>14, <1>3, <1>4, <1>13 DEF Lands, Open_jump, Good, Starts, Grows
<1>16. Parts(G, K, o, k, c, M, m) BY <1>1, <1>3, <1>11, <1>14, <1>15 DEF Parts, T
<1> QED BY <1>16 DEF m, c, l

LEMMA end_ifSound ==
  ASSUME LowOK(low), LowSound(low), end_if
  PROVE  LowSound(low')
<1>1. Closing("if") BY DEF end_if
<1>2. PICK G, K : Closes(G, K, low.open, low.loops, Closed) /\ Inner(K, low.open) = Owner /\ Owner.kind = "if"
  BY <1>1, ClosedSound
<1> DEFINE o == low.open
           k == Closed
           c == Inner(K, o)
           T == First(K)
           B == Body(K)
           l == patch_here(emit(k, I("Jump")), {c.site})
           u == emit(l, I("Unit"))
           j == here(k)
           m == IF c.wants = "Effect" THEN patch_here(k, {c.site}) ELSE patch_here(u, {j})
<1>3. low' = m BY <1>2 DEF end_if, Lower
<1> HIDE DEF o, k
<1>4. Closes(G, K, o, low.loops, k) /\ c.kind = "if" BY <1>2 DEF o, k
<1> HIDE DEF c, T, B, l, u, j
<1>5. /\ Tracks(G, k) /\ Fits(G, K.base[K.depth - 1], T, B, c, Blk(o, K.depth - 1), Blk(o, K.depth))
      /\ End(G) = Valued(B, Blk(o, K.depth).wants) /\ Good(G) /\ c.wants \in Wants
      /\ k.slots = B.scope /\ k.iters = B.iters /\ k.handlers = Len(B.handlers) /\ Len(G.code) \in Nat
  BY <1>4, ClosesFacts DEF c, T, B
<1>6. B = T /\ End(G) = Valued(T, c.wants) BY <1>4, <1>5 DEF Fits
<1>7. c.kind \notin Repeated /\ Sites(c) = {c.site} /\ Aim(c, T, B, "out") = T
  BY <1>4 DEF Repeated, Sites, Aim
<1>8. \A a : a \in {c.site} <=> a \in Sites(c) BY <1>7
<1> SUFFICES \E H : Leads(G, k, H, m, Valued(T, c.wants), {c.site}, {}, {})
 <2>1. PICK H : Leads(G, k, H, m, Valued(T, c.wants), {c.site}, {}, {}) OBVIOUS
 <2> HIDE DEF m
 <2>2. Tracks(H, m) /\ m.slots = k.slots /\ m.iters = k.iters /\ m.handlers = k.handlers
   BY <1>5, <2>1, LeadsFacts
 <2>3. LowSound(m) BY <1>4, <1>5, <1>6, <1>7, <1>8, <2>1, <2>2, CloseLeads DEF c, T
 <2> QED BY <1>3, <2>3
<1>9. CASE c.wants = "Effect"
 <2>1. End(G) = T /\ Valued(T, c.wants) = T BY <1>6, <1>9 DEF Valued
 <2>2. Lands(G, {c.site}, T) BY <1>4, <1>7, SitesAre, LeavesLand DEF c, T, B
 <2>3. PICK H : Leads(G, k, H, patch_here(k, {c.site}), End(G), {c.site}, {}, {})
   BY <1>5, <2>1, <2>2, PatchHere
 <2> QED BY <1>9, <2>1, <2>3
<1>10. CASE c.wants # "Effect"
 <2>1. c.wants = "Value" /\ End(G) = Plus(T, 0) /\ Valued(T, c.wants) = Plus(T, 0)
   BY <1>5, <1>6, <1>10 DEF Valued, Wants
 <2>2. PICK H : Parts(G, K, o, k, c, H, l) BY <1>4, PartsGo DEF c, l
 <2>3. /\ Leads(G, k, H, l, T, {c.site}, {j}, {}) /\ Lands(H, {j}, Plus(T, 0)) /\ j \in Nat /\ ~(j <= Len(G.code))
   BY <2>1, <2>2 DEF Parts, T, j
 <2>4. Tracks(H, l) /\ Good(H) /\ End(H) = T BY <1>5, <2>3, LeadsFacts
 <2>5. PICK M : Leads(H, l, M, u, Plus(End(H), 0), {}, {}, {}) BY <2>4, PlainGoes DEF u
 <2>6. Tracks(M, u) /\ Good(M) /\ End(M) = Plus(T, 0) /\ Grows(H, M, {}, {}) BY <2>4, <2>5, LeadsFacts
 <2>7. Lands(M, {j}, End(M)) BY <2>3, <2>4, <2>6, LandsStay
 <2>8. PICK L : Leads(M, u, L, patch_here(u, {j}), End(M), {j}, {}, {}) BY <2>6, <2>7, PatchHere
 <2>9. Leads(M, u, L, m, Plus(T, 0), {j}, {}, {}) BY <1>10, <2>6, <2>8
 <2> HIDE DEF m
 <2>10. Leads(G, k, M, u, Plus(T, 0), {c.site}, {j}, {}) BY <2>4, <2>5, <1>5, <2>3, LeadsTrans
 <2>11. Leads(G, k, L, m, Plus(T, 0), {c.site}, {}, {}) BY <1>5, <2>3, <2>9, <2>10, LeadsTrans
 <2> QED BY <2>1, <2>11
<1> QED BY <1>9, <1>10

LEMMA begin_elseSound ==
  ASSUME LowOK(low), LowSound(low), begin_else
  PROVE  LowSound(low')
<1>1. Closing("if") BY DEF begin_else
<1>2. PICK G, K : Closes(G, K, low.open, low.loops, Closed) /\ Inner(K, low.open) = Owner /\ Owner.kind = "if"
  BY <1>1, ClosedSound
<1> DEFINE o == low.open
           k == Closed
           c == Inner(K, o)
           T == First(K)
           B == Body(K)
           A == K.base[K.depth - 1]
           b == Blk(o, K.depth - 1)
           l == patch_here(emit(k, I("Jump")), {c.site})
           j == here(k)
           e == Open("else", c.wants, j, 0)
<1>3. low' = Opened(l, e, c.wants, TRUE) BY <1>2 DEF begin_else, Lower
<1> HIDE DEF o, k
<1>4. Closes(G, K, o, low.loops, k) /\ c.kind = "if" BY <1>2 DEF o, k
<1> HIDE DEF c, T, B, l, j, A, b, e
<1>5. /\ Tracks(G, k) /\ Fits(G, A, T, B, c, b, Blk(o, K.depth))
      /\ End(G) = Valued(B, Blk(o, K.depth).wants) /\ Good(G) /\ c.wants \in Wants
      /\ k.slots = B.scope /\ k.iters = B.iters /\ k.handlers = Len(B.handlers) /\ Len(G.code) \in Nat
      /\ T \in Layouts /\ T.scope \in Nat
  BY <1>4, ClosesFacts DEF c, T, B, A, b
<1>6. B = T /\ End(G) = Valued(T, c.wants) BY <1>4, <1>5 DEF Fits
<1>7. PICK H : Parts(G, K, o, k, c, H, l) BY <1>4, PartsGo DEF c, l
<1>8. /\ Leads(G, k, H, l, T, {c.site}, {j}, {}) /\ j \in Nat /\ ~(j <= Len(G.code))
      /\ Open_jump(H, j) /\ H.at[j] = Valued(T, c.wants) /\ H.code[j].op = "Jump"
  BY <1>6, <1>7 DEF Parts, T, j
<1>9. /\ Tracks(H, l) /\ Good(H) /\ End(H) = T /\ Grows(G, H, {c.site}, {j})
      /\ l.slots = T.scope /\ l.iters = T.iters /\ l.handlers = Len(T.handlers)
  BY <1>5, <1>6, <1>8, LeadsFacts
<1>10. c.kind \notin Repeated /\ \A a : a \in {c.site} <=> a \in Sites(c) BY <1>4 DEF Repeated, Sites
<1>11. e.kind = "else" /\ e.wants = c.wants /\ e.site = j /\ e \in Opens /\ e.kind \notin Repeated
  BY <1>5, <1>8 DEF e, Open, Opens, StmtKinds, Repeated
<1>12. Sites(e) = {j} /\ Aim(e, T, T, "out") = Valued(T, c.wants) BY <1>11 DEF Sites, Aim
<1>13. Ahead(H.code[j].op, j, H.at[j], Aim(e, T, T, "out")) BY <1>8, <1>12 DEF Ahead, Guards
<1>14. Fits(H, A, T, B, c, b, Blk(o, K.depth)) BY <1>5, <1>9, FitsGrows
<1>15. Fits(H, A, T, T, e, b, Block("block", c.wants, l.slots, TRUE))
  BY <1>9, <1>11, <1>14 DEF Block, Fits
<1>16. Over(A, T)
 <2>1. T = Scoped(A, T.scope) /\ A.scope <= T.scope /\ LayoutOK(G, A) /\ A \in Layouts
   BY <1>4, <1>5 DEF Fits, Closes, A
 <2>2. T.stack = A.stack /\ T.iters = A.iters /\ T.handlers = A.handlers
  <3>1. /\ Scoped(A, T.scope).stack = A.stack /\ Scoped(A, T.scope).iters = A.iters
        /\ Scoped(A, T.scope).handlers = A.handlers
    BY <1>5, <2>1, ScopedType
  <3> QED BY <2>1, <3>1
 <2>3. A.handlers \in Seq(Regions) /\ Len(A.handlers) \in Nat BY <2>1, LayoutType
 <2>4. SubSeq(A.handlers, 1, Len(A.handlers)) = A.handlers BY <2>3, WholeCut
 <2> QED BY <2>1, <2>2, <2>3, <2>4 DEF Over
<1>17. LowSound(Opened(l, e, c.wants, TRUE))
 <2>1. TRUE \in BOOLEAN /\ l.slots \in Nat /\ l.open = l.open /\ l.loops = l.loops BY <1>5, <1>9
 <2> QED BY <1>4, <1>5, <1>8, <1>9, <1>10, <1>11, <1>12, <1>13, <1>15, <1>16, <2>1, CloseOpens DEF c, T, A, b
<1> QED BY <1>3, <1>17

\* From G on to H, whatever else the lowering keeps.
Comes(G, H, t, P, N) == Good(G) /\ Good(H) /\ Grows(G, H, P, N) /\ Calm(G, H, {}) /\ End(H) = t

LEMMA ComesOf ==
  ASSUME NEW G, NEW l, Tracks(G, l), NEW H, NEW m, NEW t, NEW P, NEW N, Leads(G, l, H, m, t, P, N, {})
  PROVE  Comes(G, H, t, P, N)
  BY LeadsFacts DEF Comes

LEMMA ComesTrans ==
  ASSUME NEW G, NEW H, NEW L, NEW t, NEW u, NEW P, NEW N, Comes(G, H, t, P, N),
         NEW Q, NEW M, Comes(H, L, u, Q, M),
         NEW R, \A a \in 1..Len(G.code) : a \in R <=> (a \in P \/ a \in Q),
         NEW S, \A a : (a \in M \/ (a \in N /\ a \notin Q)) => a \in S
  PROVE  Comes(G, L, u, R, S)
<1>1. /\ CodeOK(G.code) /\ CodeOK(H.code) /\ CodeOK(L.code) /\ G.room \in Nat /\ H.room \in Nat /\ L.room \in Nat
      /\ Good(G) /\ Good(L) /\ End(L) = u
  BY DEF Comes, Good
<1>2. Grows(G, H, P, N) /\ Grows(H, L, Q, M) /\ Calm(G, H, {}) /\ Calm(H, L, {}) BY DEF Comes
<1>3. Grows(G, L, R, S) BY <1>1, <1>2, GrowsTrans
<1>4. Calm(G, L, {})
 <2>1. \A a : (a \in {} \/ a \in {}) => a \in {} OBVIOUS
 <2> QED BY ONLY <1>1, <1>2, <2>1, CalmTrans
<1> QED BY <1>1, <1>3, <1>4 DEF Comes

\* Nothing is patched on the way.
LEMMA ComesOn ==
  ASSUME NEW G, NEW H, NEW L, NEW t, NEW u, NEW P, NEW N, Comes(G, H, t, P, N), Comes(H, L, u, {}, {})
  PROVE  Comes(G, L, u, P, N)
BY ComesTrans

\* Nothing is left to be patched.
LEMMA ComesPatched ==
  ASSUME NEW G, NEW H, NEW L, NEW t, NEW u, NEW P, Comes(G, H, t, P, {}), NEW Q, Comes(H, L, u, Q, {})
  PROVE  Comes(G, L, u, P \cup Q, {})
BY ComesTrans

LEMMA ComesStays ==
  ASSUME NEW G, NEW H, NEW t, NEW P, NEW N, Comes(G, H, t, P, N)
  PROVE  /\ Good(G) /\ Good(H) /\ Grows(G, H, P, N) /\ Len(G.code) \in Nat /\ Len(H.code) \in Nat
         /\ Len(G.code) <= Len(H.code)
         /\ \A s : LayoutOK(G, s) => LayoutOK(H, s)
         /\ \A S, s : Lands(G, S, s) /\ (\A a \in S : ~(a \in P)) => Lands(H, S, s)
BY CodeLen, LayoutsStay, LandsStay DEF Comes, Good, Grows

\* The value of the statement is taken off again, if nobody wants it.
Finishes(G, M, l, t, P) == Tracks(M, l) /\ Comes(G, M, t, P, {})

LEMMA ComesLowered ==
  ASSUME NEW G, NEW k, Tracks(G, k), NEW H, NEW P, NEW r, Comes(G, H, Plus(r, 0), P, {}), LayoutOK(H, r),
         NEW l, Tracks(H, l), NEW w \in Wants, Len(G.code) < Len(H.code)
  PROVE  \E M : /\ Finishes(G, M, Lowered(l, w), Valued(r, w), P) /\ Alike(l, Lowered(l, w))
                /\ (M = H \/ Trims(H, M))
<1> DEFINE n == [l EXCEPT !.code = k.code, !.max_stack = k.max_stack, !.patched = k.patched]
<1>1. DOMAIN k = LowFields /\ DOMAIN l = LowFields BY DEF Tracks
<1>2. /\ DOMAIN n = LowFields /\ n.code = k.code /\ n.max_stack = k.max_stack /\ n.patched = k.patched
      /\ n.slots = l.slots /\ n.iters = l.iters /\ n.handlers = l.handlers
      /\ n.loops = l.loops /\ n.open = l.open
  BY <1>1 DEF LowFields
<1> HIDE DEF n
<1>3. Tracks(G, n) /\ Alike(n, l) BY <1>2, TracksSame DEF Alike
<1>4. Grows(G, H, P, {}) /\ Calm(G, H, {}) /\ End(H) = Plus(r, 0) BY DEF Comes
<1> DEFINE v == Lowered(l, w)
<1> HIDE DEF v
<1>5. PICK M : Leads(G, n, M, v, Valued(r, w), P, {}, {}) /\ (M = H \/ Trims(H, M))
  BY <1>3, <1>4, LoweredTracks DEF v
<1>6. Comes(G, M, Valued(r, w), P, {}) /\ Tracks(M, v) BY <1>3, <1>5, ComesOf, LeadsFacts
<1>7. Alike(l, v) BY <1>2, <1>5 DEF Leads, Alike
<1> QED BY <1>5, <1>6, <1>7 DEF v, Finishes

LEMMA CloseComes ==
  ASSUME NEW G, NEW K, NEW o, NEW q, NEW k, Closes(G, K, o, q, k), Inner(K, o).kind \notin Repeated,
         NEW H, NEW P, NEW m, Finishes(G, H, m, Valued(First(K), Inner(K, o).wants), P),
         \A a : a \in P <=> a \in Sites(Inner(K, o)),
         m.open = Outside(o), m.loops = q,
         m.slots = First(K).scope, m.iters = First(K).iters, m.handlers = Len(First(K).handlers)
  PROVE  LowSound(m)
BY SitesAre, CloseDone DEF Comes, Finishes, Left, Repeated

LoopGiven(G, K, o, q, k, H, P, m, t) ==
  /\ Closes(G, K, o, q, k) /\ Inner(K, o).kind \in Repeated
  /\ Finishes(G, H, m, Valued(First(K), Inner(K, o).wants), P)
  /\ \A a : a \in P <=> (a \in Outs(Inner(K, o), LastOf(q)) \/ a \in Ins(Inner(K, o), LastOf(q)))
  /\ t \in Nat \ {0}
  /\ (Inner(K, o).kind = "for" => \A a \in Outs(Inner(K, o), LastOf(q)) : H.code[a].arg = t)
  /\ m.open = Outside(o) /\ m.loops = AllButLast(q)
  /\ m.slots = First(K).scope /\ m.iters = First(K).iters /\ m.handlers = Len(First(K).handlers)

LEMMA CloseLoop ==
  ASSUME NEW G, NEW K, NEW o, NEW q, NEW k, NEW H, NEW P, NEW m, NEW t, LoopGiven(G, K, o, q, k, H, P, m, t)
  PROVE  LowSound(m)
  BY LoopSites, CloseDone DEF LoopGiven, Comes, Finishes, Left

InTry(T, n, a) == Region(T, n, a, FALSE)

InCatch(T, n, a) == Region(T, n, a, TRUE)

\* A region of T that lies under a value is left.
LEMMA RegionLeft ==
  ASSUME NEW T \in Layouts, NEW n \in Nat, NEW a \in Nat \ {0},
         NEW R, R = InTry(T, n, a) \/ R = InCatch(T, n, a)
  PROVE  /\ R \in Layouts /\ Len(R.handlers) = Len(T.handlers) + 1 /\ Len(T.handlers) \in Nat
         /\ Disarmed(R, Len(R.handlers) - 1) = Scoped(T, n)
         /\ Disarmed(Plus(R, 0), Len(Plus(R, 0).handlers) - 1) = Plus(Scoped(T, n), 0)
<1>1. /\ R \in Layouts /\ R.stack = T.stack /\ R.iters = T.iters /\ R.scope = n
      /\ Len(R.handlers) = Len(T.handlers) + 1 /\ SubSeq(R.handlers, 1, Len(T.handlers)) = T.handlers
 <2>1. \A c \in BOOLEAN : RegionOf(T, n, a, c, Region(T, n, a, c)) BY RegionType
 <2>2. PICK c \in BOOLEAN : R = Region(T, n, a, c) BY DEF InTry, InCatch
 <2>3. RegionOf(T, n, a, c, R) BY <2>1, <2>2
 <2> QED BY <2>3 DEF RegionOf
<1>2. Len(T.handlers) \in Nat BY LayoutType
<1>3. ASSUME NEW r \in Layouts, NEW s \in Layouts, r.stack = s.stack, r.iters = s.iters, r.scope = s.scope,
             Len(r.handlers) = Len(T.handlers) + 1, SubSeq(r.handlers, 1, Len(T.handlers)) = T.handlers,
             s.handlers = T.handlers
      PROVE  Disarmed(r, Len(r.handlers) - 1) = s
 <2>1. Len(r.handlers) - 1 = Len(T.handlers) /\ Len(T.handlers) \in 0..Len(r.handlers) BY <1>2, <1>3
 <2>2. /\ Disarmed(r, Len(T.handlers)) \in Layouts /\ Disarmed(r, Len(T.handlers)).stack = r.stack
       /\ Disarmed(r, Len(T.handlers)).iters = r.iters /\ Disarmed(r, Len(T.handlers)).scope = r.scope
       /\ Disarmed(r, Len(T.handlers)).handlers = SubSeq(r.handlers, 1, Len(T.handlers))
   BY <1>3, <2>1, DisarmedType
 <2>3. Disarmed(r, Len(T.handlers)) = s BY <1>3, <2>2, SameLayout
 <2> QED BY <2>1, <2>3
<1>4. /\ Scoped(T, n) \in Layouts /\ Scoped(T, n).stack = T.stack /\ Scoped(T, n).iters = T.iters
      /\ Scoped(T, n).scope = n /\ Scoped(T, n).handlers = T.handlers
  BY ScopedType
<1>5. Disarmed(R, Len(R.handlers) - 1) = Scoped(T, n) BY <1>1, <1>3, <1>4
<1>6. /\ Plus(R, 0) \in Layouts /\ Plus(R, 0).stack = Append(R.stack, 0) /\ Plus(R, 0).iters = R.iters
      /\ Plus(R, 0).scope = R.scope /\ Plus(R, 0).handlers = R.handlers
  BY <1>1, PlusType
<1>7. /\ Plus(Scoped(T, n), 0) \in Layouts /\ Plus(Scoped(T, n), 0).stack = Append(T.stack, 0)
      /\ Plus(Scoped(T, n), 0).iters = T.iters
      /\ Plus(Scoped(T, n), 0).scope = n /\ Plus(Scoped(T, n), 0).handlers = T.handlers
  BY <1>4, PlusType
<1>8. Disarmed(Plus(R, 0), Len(Plus(R, 0).handlers) - 1) = Plus(Scoped(T, n), 0)
 <2> DEFINE r == Plus(R, 0)
            s == Plus(Scoped(T, n), 0)
 <2> HIDE DEF r, s
 <2>1. /\ r \in Layouts /\ s \in Layouts /\ r.stack = s.stack /\ r.iters = s.iters /\ r.scope = s.scope
       /\ Len(r.handlers) = Len(T.handlers) + 1 /\ SubSeq(r.handlers, 1, Len(T.handlers)) = T.handlers
       /\ s.handlers = T.handlers
   BY <1>1, <1>6, <1>7 DEF r, s
 <2>2. Disarmed(r, Len(r.handlers) - 1) = s BY <1>3, <2>1
 <2> QED BY <2>2 DEF r, s
<1> QED BY <1>1, <1>2, <1>5, <1>8

\* The layout of a statement is over that of the block it is in.
LEMMA FirstOver ==
  ASSUME NEW G, NEW K, NEW o, NEW q, NEW k, Closes(G, K, o, q, k)
  PROVE  LET A == K.base[K.depth - 1]
             T == First(K)
         IN /\ A.stack = T.stack /\ A.iters = T.iters /\ A.handlers = T.handlers /\ A.scope <= T.scope
            /\ A.handlers \in Seq(Regions) /\ SubSeq(A.handlers, 1, Len(A.handlers)) = A.handlers /\ A.scope \in Nat
            /\ Len(A.handlers) \in Nat
<1> DEFINE A == K.base[K.depth - 1]
           T == First(K)
<1>1. /\ T = Scoped(A, T.scope) /\ A.scope <= T.scope /\ T.scope \in Nat BY ClosesFacts DEF Fits
<1>2. A \in Layouts BY DEF Closes
<1> HIDE DEF A, T
<1>3. /\ Scoped(A, T.scope).stack = A.stack /\ Scoped(A, T.scope).iters = A.iters
      /\ Scoped(A, T.scope).handlers = A.handlers
  BY <1>1, <1>2, ScopedType
<1>4. A.handlers \in Seq(Regions) /\ A.scope \in Nat /\ Len(A.handlers) \in Nat BY <1>2, LayoutType
<1>5. SubSeq(A.handlers, 1, Len(A.handlers)) = A.handlers BY <1>4, WholeCut
<1> QED BY <1>1, <1>3, <1>4, <1>5 DEF A, T

LEMMA CatchOver ==
  ASSUME NEW G, NEW K, NEW o, NEW q, NEW k, Closes(G, K, o, q, k), NEW a \in Nat \ {0}
  PROVE  /\ Over(K.base[K.depth - 1], Catching(First(K), a))
         /\ Catching(First(K), a).scope = First(K).scope + 1 /\ Catching(First(K), a).iters = First(K).iters
         /\ Len(Catching(First(K), a).handlers) = Len(First(K).handlers) + 1
<1> DEFINE A == K.base[K.depth - 1]
           T == First(K)
<1>1. /\ A.stack = T.stack /\ A.iters = T.iters /\ A.handlers = T.handlers /\ A.scope <= T.scope
      /\ SubSeq(A.handlers, 1, Len(A.handlers)) = A.handlers /\ A.scope \in Nat /\ Len(A.handlers) \in Nat
  BY FirstOver
<1>2. T \in Layouts /\ T.scope \in Nat BY ClosesFacts
<1> HIDE DEF A, T
<1>3. /\ Catching(T, a).stack = T.stack /\ Catching(T, a).iters = T.iters /\ Catching(T, a).scope = T.scope + 1
      /\ Len(Catching(T, a).handlers) = Len(T.handlers) + 1
      /\ SubSeq(Catching(T, a).handlers, 1, Len(T.handlers)) = T.handlers
  BY <1>2, CatchingType
<1>4. Over(A, Catching(T, a)) BY <1>1, <1>2, <1>3 DEF Over
<1> QED BY <1>3, <1>4 DEF A, T

LEMMA begin_catchSound ==
  ASSUME LowOK(low), LowSound(low), begin_catch
  PROVE  LowSound(low')
<1>1. Closing("try") BY DEF begin_catch
<1>2. PICK G, K : Closes(G, K, low.open, low.loops, Closed) /\ Inner(K, low.open) = Owner /\ Owner.kind = "try"
  BY <1>1, ClosedSound
<1> DEFINE o == low.open
           k == Closed
           c == Inner(K, o)
           T == First(K)
           B == Body(K)
           A == K.base[K.depth - 1]
           b == Blk(o, K.depth - 1)
           u == emit(k, I("PopHandler"))
           v == emit(u, I("Jump"))
           m == patch_here(v, {c.site})
           n == [m EXCEPT !.slots = @ + 1]
           e == Open("catch", c.wants, here(u), m.slots)
<1>3. low' = Opened(n, e, "Value", FALSE) BY <1>2 DEF begin_catch, Lower
<1> HIDE DEF o, k
<1>4. Closes(G, K, o, low.loops, k) /\ c.kind = "try" BY <1>2 DEF o, k
<1> DEFINE U == Catching(T, c.site)
<1> HIDE DEF c, T, B, A, b, u, v, m, n, e
<1>5. /\ Tracks(G, k) /\ Fits(G, A, T, B, c, b, Blk(o, K.depth))
      /\ End(G) = Valued(B, Blk(o, K.depth).wants) /\ Good(G) /\ c.wants \in Wants
      /\ k.slots = B.scope /\ k.iters = B.iters /\ k.handlers = Len(B.handlers) /\ Len(G.code) \in Nat
      /\ k.open = Outside(o) /\ k.loops = low.loops
      /\ T \in Layouts /\ T.scope \in Nat
  BY <1>4, ClosesFacts DEF c, T, B, A, b
<1>6. /\ B = Arming(T, c.site) /\ End(G) = Plus(B, 0)
      /\ c.site \in 1..Len(G.code) /\ G.code[c.site].op = "PushHandler"
      /\ c.site \in DOMAIN G.at /\ G.at[c.site] = T /\ LayoutOK(G, T)
  BY <1>4, <1>5 DEF Fits, Valued
<1>7. c.site \in Nat \ {0} BY <1>5, <1>6
<1>8. c.kind \notin Repeated /\ Sites(c) = {c.site} /\ Aim(c, T, B, "out") = U
  BY <1>4 DEF Repeated, Sites, Aim
<1>9. Lands(G, {c.site}, U) BY <1>4, <1>8, SitesAre, LeavesLand DEF c, T, B
<1>10. Disarmed(Plus(B, 0), Len(Plus(B, 0).handlers) - 1) = Plus(T, 0) /\ Len(B.handlers) = Len(T.handlers) + 1 /\ B \in Layouts
      /\ Len(T.handlers) \in Nat /\ Len(Plus(B, 0).handlers) > 0
 <2>1. B = InTry(T, T.scope, c.site) /\ Scoped(T, T.scope) = T
   BY <1>5, <1>6, ValuedScoped DEF Arming, InTry
 <2>2. /\ B \in Layouts
       /\ Len(B.handlers) = Len(T.handlers) + 1 /\ Len(T.handlers) \in Nat
       /\ Disarmed(Plus(B, 0), Len(Plus(B, 0).handlers) - 1) = Plus(Scoped(T, T.scope), 0)
   BY <1>5, <1>7, <2>1, RegionLeft
 <2>3. B \in Layouts BY <2>1, <2>2
 <2>4. Plus(B, 0).handlers = B.handlers BY <2>3, PlusType
 <2>5. Disarmed(Plus(B, 0), Len(Plus(B, 0).handlers) - 1) = Plus(T, 0) BY <2>1, <2>2
 <2>6. Len(B.handlers) = Len(T.handlers) + 1 /\ Len(T.handlers) \in Nat BY <2>1, <2>2
 <2> HIDE DEF U
 <2> QED BY <2>3, <2>4, <2>5, <2>6
<1>11. PICK H : Emits(G, k, H, "PopHandler", 0, Plus(T, 0)) BY <1>5, <1>6, <1>10, EmitDisarm
<1>12. Leads(G, k, H, u, Plus(T, 0), {}, {}, {}) /\ Len(H.code) = Len(G.code) + 1
  BY <1>11, EmitsPlain DEF I, Steady, u
<1>13. /\ Tracks(H, u) /\ Good(H) /\ End(H) = Plus(T, 0) /\ Grows(G, H, {}, {}) /\ Len(H.code) \in Nat
       /\ LayoutOK(H, T)
  BY <1>5, <1>6, <1>12, LeadsFacts
<1>14. c.site \in 1..Len(H.code) /\ H.code[c.site].op = "PushHandler" /\ H.at[c.site] = T
  BY <1>5, <1>6, <1>13 DEF Grows
<1>15. LayoutOK(H, U)
 <2>1. LayoutOK(H, Region(T, T.scope + 1, c.site, TRUE))
  <3>1. T.scope + 1 \in Nat /\ T.scope <= T.scope + 1 /\ TRUE \in BOOLEAN BY <1>5
  <3> QED BY <1>7, <1>13, <1>14, <3>1, RegionLayout
 <2> QED BY <2>1 DEF Catching
<1> HIDE DEF U
<1>16. PICK J : Skips(H, u, J, U) BY <1>13, <1>15, SkipGoes
<1> DEFINE j == here(u)
<1> HIDE DEF j
<1>17. /\ Leads(H, u, J, v, U, {}, {j}, {}) /\ j = Len(G.code) + 2 /\ Open_jump(J, j) /\ J.code[j].op = "Jump"
       /\ J.at[j] = Plus(T, 0)
  BY <1>5, <1>12, <1>13, <1>16 DEF Skips, v, j
<1>18. Tracks(J, v) /\ Good(J) /\ End(J) = U /\ Grows(H, J, {}, {j}) BY <1>13, <1>17, LeadsFacts
<1>19. Lands(J, {c.site}, End(J)) BY <1>5, <1>9, <1>13, LandsStay, <1>18
<1>20. PICK L : Leads(J, v, L, m, End(J), {c.site}, {}, {}) BY <1>18, <1>19, PatchHere DEF m
<1>21. Tracks(L, m) /\ Good(L) /\ End(L) = U /\ Grows(J, L, {c.site}, {}) BY <1>18, <1>20, LeadsFacts
<1>22. Leads(G, k, L, m, U, {c.site}, {j}, {})
 <2>1. Leads(G, k, J, v, U, {}, {j}, {}) BY <1>5, <1>12, <1>17, LeadsTo
 <2>2. \A a \in 1..Len(G.code) : a \in {c.site} <=> (a \in {} \/ a \in {c.site}) OBVIOUS
 <2>3. \A a : (a \in {} \/ (a \in {j} /\ a \notin {c.site})) => a \in {j} OBVIOUS
 <2>4. \A a : (a \in {} \/ a \in {}) => a \in {} OBVIOUS
 <2>5. Leads(J, v, L, m, U, {c.site}, {}, {}) BY <1>18, <1>20
 <2> QED BY <1>5, <2>1, <2>2, <2>3, <2>4, <2>5, LeadsTrans
<1>23. /\ Good(L) /\ Grows(G, L, {c.site}, {j}) /\ DOMAIN m = LowFields
       /\ m.slots = T.scope /\ m.iters = T.iters /\ m.handlers = Len(B.handlers)
       /\ m.open = Outside(o) /\ m.loops = low.loops /\ LayoutOK(L, U)
 <2>1. B.scope = T.scope /\ B.iters = T.iters BY <1>5, <1>6, <1>7, ArmingType
 <2> QED BY <1>5, <1>22, <2>1, LeadsFacts
<1>24. /\ DOMAIN n = LowFields /\ n.slots = T.scope + 1 /\ n.iters = T.iters /\ n.handlers = Len(T.handlers) + 1
       /\ n.open = m.open /\ n.loops = m.loops /\ n.code = m.code /\ n.max_stack = m.max_stack /\ n.patched = m.patched
  BY <1>10, <1>23 DEF n, LowFields
<1>25. Tracks(L, n) BY <1>21, <1>24, TracksSame
<1>26. Open_jump(L, j) /\ L.at[j] = Plus(T, 0) /\ L.code[j].op = "Jump"
 <2>1. ~(j \in {c.site}) /\ j \in Nat BY <1>5, <1>6, <1>17
 <2>2. Open_jump(L, j) BY <1>17, <1>18, <1>21, <2>1, OpenStays
 <2>3. j \in DOMAIN J.at /\ j \in 1..Len(J.code) BY <1>17, <1>18 DEF Open_jump, Good, Starts
 <2> QED BY <1>17, <1>21, <2>2, <2>3 DEF Grows
<1>27. /\ e.kind = "catch" /\ e.wants = c.wants /\ e.site = j /\ e.top = T.scope
       /\ e \in Opens /\ e.kind \notin Repeated
  BY <1>5, <1>17, <1>23 DEF e, Open, Opens, StmtKinds, Repeated, j
<1>28. Sites(e) = {j} /\ Ahead(L.code[j].op, j, L.at[j], Aim(e, T, U, "out"))
  BY <1>27, <1>26 DEF Sites, Aim, Repeated, Ahead, Guards
<1>29. Fits(L, A, T, B, c, b, Blk(o, K.depth)) BY <1>5, <1>23, FitsGrows
<1>30. /\ Over(A, U) /\ U.scope = T.scope + 1 /\ U.iters = T.iters /\ Len(U.handlers) = Len(T.handlers) + 1
  BY <1>4, <1>7, CatchOver DEF A, T, U
<1>31. Fits(L, A, T, U, e, b, Block("block", "Value", n.slots, FALSE))
  BY <1>24, <1>30, <1>4, <1>7, <1>29, <1>27, <1>23 DEF Block, Fits, Handles, U
<1>32. /\ n.open = m.open /\ n.loops = m.loops /\ n.slots \in Nat /\ n.iters = U.iters /\ n.handlers = Len(U.handlers)
       /\ "Value" \in Wants /\ FALSE \in BOOLEAN /\ j \in Nat /\ ~(j <= Len(G.code))
  BY <1>5, <1>17, <1>24, <1>30 DEF Wants
<1>33. \A a : a \in {c.site} <=> a \in Sites(c) BY <1>8
<1>34. LowSound(Opened(n, e, "Value", FALSE))
 <2>1. Reopens(G, K, o, low.loops, k, L, m, U, {c.site}, j, n, e, "Value", FALSE)
   BY <1>4, <1>8, <1>22, <1>25, <1>26, <1>27, <1>28, <1>30, <1>31, <1>32, <1>33 DEF Reopens, c, T, A, b
 <2> QED BY ONLY <2>1, ReopensNamed
<1> QED BY <1>3, <1>34

PlainTo(G, l, H, m, t) ==
  /\ Comes(G, H, t, {}, {}) /\ Tracks(H, m) /\ DOMAIN m = LowFields
  /\ m.slots = l.slots /\ m.iters = l.iters /\ m.handlers = l.handlers
  /\ m.loops = l.loops /\ m.open = l.open
  /\ Len(H.code) = Len(G.code) + 1 /\ Len(G.code) \in Nat

LEMMA PlainComes ==
  ASSUME NEW G, NEW l, Tracks(G, l), NEW H, NEW op \in Steady, NEW arg, NEW t, Emits(G, l, H, op, arg, t)
  PROVE  PlainTo(G, l, H, emit(l, Instruction(op, arg)), t)
<1> DEFINE m == emit(l, Instruction(op, arg))
<1>1. Leads(G, l, H, m, t, {}, {}, {}) /\ Len(H.code) = Len(G.code) + 1 /\ Len(G.code) \in Nat
  BY EmitsPlain
<1> HIDE DEF m
<1>2. Comes(G, H, t, {}, {}) BY <1>1, ComesOf
<1> QED BY <1>1, <1>2, LeadsFacts DEF m, PlainTo

\* The handler has been disarmed, behind the variable of the catch block.
HasCaught(l, top) ==
  LET m == unwind_to(emit(l, I("Pop")), top)
  IN [emit(m, I("PopHandler") \o I("Unit")) EXCEPT !.handlers = @ - 1]

CaughtTo(G, k, H, m, T) ==
  /\ Comes(G, H, Plus(T, 0), {}, {}) /\ Tracks(H, m) /\ DOMAIN m = LowFields
  /\ m.slots = T.scope /\ m.iters = k.iters /\ m.handlers = k.handlers - 1
  /\ m.loops = k.loops /\ m.open = k.open
  /\ Len(G.code) < Len(H.code) /\ LayoutOK(H, T)

LEMMA CaughtGoes ==
  ASSUME NEW G, NEW k, Tracks(G, k), NEW T \in Layouts, LayoutOK(G, T), NEW h \in 1..Len(G.code), h \in Nat \ {0},
         G.code[h].op = "PushHandler", h \in DOMAIN G.at, G.at[h] = T,
         LayoutOK(G, Catching(T, h)), End(G) = Plus(Catching(T, h), 0), k.slots = T.scope + 1
  PROVE  \E H : CaughtTo(G, k, H, HasCaught(k, T.scope), T)
<1> DEFINE U == Catching(T, h)
           R == Region(T, T.scope, h, TRUE)
           l == emit(k, I("Pop"))
           u == emit(l, Instruction("UnwindTo", T.scope))
           m == [u EXCEPT !.slots = T.scope]
           v == emit(m, I("PopHandler"))
           w == emit(v, I("Unit"))
           n == [w EXCEPT !.handlers = @ - 1]
<1>1. Good(G) /\ Len(G.code) \in Nat /\ T.scope \in Nat BY TracksFacts, LayoutType DEF Tracks
<1>0. "UnwindTo" \in Steady /\ "PopHandler" \in Steady /\ "Unit" \in Steady /\ "Pop" \in Steady
  BY DEF Steady
<1>2. PICK H1 : Emits(G, k, H1, "Pop", 0, U) BY EmitPop
<1> HIDE DEF l, u, m, v, w, n
<1>3. /\ Comes(G, H1, U, {}, {}) /\ Tracks(H1, l) /\ DOMAIN l = LowFields
      /\ l.slots = k.slots /\ l.iters = k.iters /\ l.handlers = k.handlers
      /\ l.loops = k.loops /\ l.open = k.open
      /\ Len(H1.code) = Len(G.code) + 1
  BY <1>0, <1>2, PlainComes DEF l, I, PlainTo
<1>4. /\ Good(H1) /\ Grows(G, H1, {}, {}) /\ LayoutOK(H1, T) /\ End(H1) = U /\ Len(H1.code) \in Nat
  BY <1>3, ComesStays DEF Comes
<1>5. /\ h \in 1..Len(H1.code) /\ H1.code[h].op = "PushHandler" /\ H1.at[h] = T BY <1>1, <1>4 DEF Grows
<1>6. LayoutOK(H1, R)
 <2>1. T.scope <= T.scope /\ TRUE \in BOOLEAN BY <1>1
 <2> QED BY <1>1, <1>4, <1>5, <2>1, RegionLayout
<1>7. Scoped(U, T.scope) = R /\ U.scope = T.scope + 1
  BY CatchingType DEF Catching, Region, Scoped, Layouts
<1> HIDE DEF U
<1>8. PICK H2 : Emits(H1, l, H2, "UnwindTo", T.scope, R)
 <2> HIDE DEF R
 <2>1. T.scope <= End(H1).scope /\ LayoutOK(H1, Scoped(End(H1), T.scope)) /\ Scoped(End(H1), T.scope) = R
   BY <1>1, <1>4, <1>6, <1>7
 <2> QED BY <1>1, <1>3, <2>1, EmitUnwind
<1>9. /\ R \in Layouts /\ Len(R.handlers) = Len(T.handlers) + 1 /\ Len(T.handlers) \in Nat
      /\ Disarmed(R, Len(R.handlers) - 1) = T
 <2>1. Scoped(T, T.scope) = T BY <1>1, ValuedScoped
 <2>2. R = InCatch(T, T.scope, h) BY DEF InCatch
 <2> HIDE DEF R
 <2> QED BY <1>1, <2>1, <2>2, RegionLeft
<1> HIDE DEF R
<1>10. /\ Comes(H1, H2, R, {}, {}) /\ Tracks(H2, u) /\ DOMAIN u = LowFields
       /\ u.slots = l.slots /\ u.iters = l.iters /\ u.handlers = l.handlers
       /\ u.loops = l.loops /\ u.open = l.open /\ Len(H2.code) = Len(H1.code) + 1
 <2>1. PlainTo(H1, l, H2, u, R) BY <1>0, <1>3, <1>8, PlainComes DEF u
 <2> QED BY <2>1 DEF PlainTo
<1>11. /\ DOMAIN m = LowFields /\ m.code = u.code /\ m.max_stack = u.max_stack /\ m.patched = u.patched
       /\ m.slots = T.scope /\ m.iters = u.iters /\ m.handlers = u.handlers /\ m.loops = u.loops /\ m.open = u.open
  BY <1>10 DEF m, LowFields
<1>12. Tracks(H2, m) BY <1>10, <1>11, TracksSame
<1>13. End(H2) = R /\ LayoutOK(H2, T) /\ Good(H2) /\ Len(H2.code) \in Nat
  BY <1>4, <1>10, ComesStays DEF Comes
<1>14. PICK H3 : Emits(H2, m, H3, "PopHandler", 0, T) BY <1>9, <1>13, <1>12, EmitDisarm
<1>15. /\ Comes(H2, H3, T, {}, {}) /\ Tracks(H3, v) /\ DOMAIN v = LowFields
       /\ v.slots = m.slots /\ v.iters = m.iters /\ v.handlers = m.handlers
       /\ v.loops = m.loops /\ v.open = m.open /\ Len(H3.code) = Len(H2.code) + 1
  BY <1>0, <1>12, <1>14, PlainComes DEF v, I, PlainTo
<1>16. End(H3) = T /\ LayoutOK(H3, T) /\ Len(H3.code) \in Nat BY <1>13, <1>15, ComesStays DEF Comes
<1>17. PICK H4 : Emits(H3, v, H4, "Unit", 0, Plus(T, 0)) BY <1>15, <1>16, EmitPush
<1>18. /\ Comes(H3, H4, Plus(T, 0), {}, {}) /\ Tracks(H4, w) /\ DOMAIN w = LowFields
       /\ w.slots = v.slots /\ w.iters = v.iters /\ w.handlers = v.handlers
       /\ w.loops = v.loops /\ w.open = v.open /\ Len(H4.code) = Len(H3.code) + 1
 <2>1. PlainTo(H3, v, H4, w, Plus(T, 0)) BY <1>0, <1>15, <1>17, PlainComes DEF w, I
 <2> QED BY <2>1 DEF PlainTo
<1>19. /\ DOMAIN n = LowFields /\ n.code = w.code /\ n.max_stack = w.max_stack /\ n.patched = w.patched
       /\ n.slots = w.slots /\ n.iters = w.iters /\ n.handlers = w.handlers - 1 /\ n.loops = w.loops /\ n.open = w.open
  BY <1>18 DEF n, LowFields
<1>20. Tracks(H4, n) /\ LayoutOK(H4, T) BY <1>16, <1>18, <1>19, TracksSame, ComesStays
<1>21. Comes(G, H4, Plus(T, 0), {}, {}) BY <1>3, <1>10, <1>15, <1>18, ComesOn
<1>22. HasCaught(k, T.scope) = n
 <2>1. l.slots > T.scope BY <1>1, <1>3
 <2>2. unwind_to(l, T.scope) = m BY <2>1 DEF unwind_to, m, u
 <2>3. Emittable(I("PopHandler")) /\ Emittable(I("Unit")) BY OneEmittable DEF Emitted, I
 <2>4. emit(m, I("PopHandler") \o I("Unit")) = w BY <1>12, <2>3, EmitPair DEF w, v
 <2> QED BY <2>2, <2>4 DEF HasCaught, n, l
<1>23. Len(G.code) < Len(H4.code) BY <1>1, <1>3, <1>4, <1>10, <1>13, <1>15, <1>16, <1>18
<1>24. /\ n.slots = T.scope /\ n.iters = k.iters /\ n.handlers = k.handlers - 1 /\ n.loops = k.loops /\ n.open = k.open
  BY <1>3, <1>10, <1>11, <1>15, <1>18, <1>19
<1>25. CaughtTo(G, k, H4, n, T) BY <1>19, <1>20, <1>21, <1>23, <1>24 DEF CaughtTo
<1> QED BY <1>22, <1>25

\* A jump behind it is patched, and the statement has its value.
LEMMA EndsPatched ==
  ASSUME NEW G, NEW k, Tracks(G, k), NEW H, NEW r, Comes(G, H, Plus(r, 0), {}, {}), LayoutOK(H, r),
         NEW l, Tracks(H, l), NEW w \in Wants, Len(G.code) < Len(H.code), NEW P, Lands(G, P, Plus(r, 0))
  PROVE  \E M : /\ Finishes(G, M, Lowered(patch_here(l, P), w), Valued(r, w), P)
                /\ Alike(l, Lowered(patch_here(l, P), w))
<1>1. Lands(H, P, Plus(r, 0)) /\ End(H) = Plus(r, 0) /\ Good(G) /\ Good(H) /\ Len(G.code) \in Nat /\ Len(H.code) \in Nat
  BY ComesStays DEF Comes
<1> DEFINE u == patch_here(l, P)
<1> HIDE DEF u
<1>2. PICK J : Leads(H, l, J, u, End(H), P, {}, {}) BY <1>1, PatchHere DEF u
<1>3. Comes(H, J, Plus(r, 0), P, {}) /\ Tracks(J, u) /\ Alike(l, u) BY <1>1, <1>2, ComesOf DEF Leads
<1>4. Comes(G, J, Plus(r, 0), P, {}) BY <1>3, ComesTrans
<1>5. LayoutOK(J, r) /\ Len(H.code) <= Len(J.code) /\ Len(J.code) \in Nat BY <1>3, ComesStays
<1>6. Len(G.code) < Len(J.code) BY <1>1, <1>5
<1> DEFINE v == Lowered(u, w)
<1> HIDE DEF v
<1>7. PICK M : Finishes(G, M, v, Valued(r, w), P) /\ Alike(u, v)
  BY <1>3, <1>4, <1>5, <1>6, ComesLowered DEF v
<1>8. Alike(l, v) BY <1>3, <1>7 DEF Alike
<1> QED BY <1>7, <1>8 DEF u, v

LEMMA end_catchSound ==
  ASSUME LowOK(low), LowSound(low), end_catch
  PROVE  LowSound(low')
<1>1. Closing("catch") BY DEF end_catch
<1>2. PICK G, K : Closes(G, K, low.open, low.loops, Closed) /\ Inner(K, low.open) = Owner /\ Owner.kind = "catch"
  BY <1>1, ClosedSound
<1> DEFINE o == low.open
           k == Closed
           c == Inner(K, o)
           T == First(K)
           B == Body(K)
           A == K.base[K.depth - 1]
           b == Blk(o, K.depth - 1)
           m == HasCaught(k, c.top)
           v == Lowered(patch_here(m, {c.site}), c.wants)
<1>3. low' = v BY <1>2 DEF end_catch, Lower, HasCaught
<1> HIDE DEF o, k
<1>4. Closes(G, K, o, low.loops, k) /\ c.kind = "catch" BY <1>2 DEF o, k
<1> HIDE DEF c, T, B, A, b, m, v
<1>5. /\ Tracks(G, k) /\ Fits(G, A, T, B, c, b, Blk(o, K.depth))
      /\ End(G) = Valued(B, Blk(o, K.depth).wants) /\ Good(G) /\ c.wants \in Wants
      /\ k.slots = B.scope /\ k.iters = B.iters /\ k.handlers = Len(B.handlers) /\ Len(G.code) \in Nat
      /\ k.open = Outside(o) /\ k.loops = low.loops
      /\ T \in Layouts /\ T.scope \in Nat /\ LayoutOK(G, T) /\ LayoutOK(G, B)
  BY <1>4, ClosesFacts DEF c, T, B, A, b
<1>6. PICK h \in 1..Len(G.code) : Handles(G, T, B, h) BY <1>4, <1>5 DEF Fits
<1>7. /\ h \in Nat \ {0} /\ G.code[h].op = "PushHandler" /\ h \in DOMAIN G.at /\ G.at[h] = T /\ B = Catching(T, h)
      /\ c.top = T.scope /\ End(G) = Plus(B, 0)
  BY <1>4, <1>5, <1>6 DEF Fits, Valued, Handles
<1>8. c.kind \notin Repeated /\ Sites(c) = {c.site} /\ Aim(c, T, B, "out") = Plus(T, 0)
  BY <1>4 DEF Repeated, Sites, Aim
<1>9. Lands(G, {c.site}, Plus(T, 0)) BY <1>4, <1>8, SitesAre, LeavesLand DEF c, T, B
<1>10. B.scope = T.scope + 1 /\ B.iters = T.iters /\ Len(B.handlers) = Len(T.handlers) + 1 /\ Len(T.handlers) \in Nat
  BY <1>5, LayoutType, <1>7, CatchingType
<1>11. PICK H : CaughtTo(G, k, H, m, T) BY <1>5, <1>7, <1>10, CaughtGoes DEF m
<1>12. PICK M : Finishes(G, M, v, Valued(T, c.wants), {c.site}) /\ Alike(m, v)
  BY <1>5, <1>9, <1>11, EndsPatched DEF CaughtTo, v
<1>13. /\ v.open = Outside(o) /\ v.loops = low.loops /\ v.slots = T.scope /\ v.iters = T.iters
       /\ v.handlers = Len(T.handlers)
  BY <1>5, <1>10, <1>11, <1>12 DEF CaughtTo, Alike
<1>14. \A a : a \in {c.site} <=> a \in Sites(c) BY <1>8
<1>15. LowSound(v) BY <1>4, <1>8, <1>12, <1>13, <1>14, CloseComes DEF c, T
<1> QED BY <1>3, <1>15

\* What is known where the body of a loop has ended.
Rounds(G, K, o, q, k, c, p, T, B) ==
  /\ Tracks(G, k) /\ Good(G) /\ Len(G.code) \in Nat /\ DOMAIN k = LowFields
  /\ T \in Layouts /\ B \in Layouts /\ LayoutOK(G, T) /\ LayoutOK(G, B) /\ T.scope \in Nat /\ End(G) = B
  /\ c.wants \in Wants /\ c.top \in DOMAIN G.at /\ c.top \in Nat \ {0} /\ G.at[c.top] = B
  /\ k.open = Outside(o) /\ k.loops = q /\ k.slots = B.scope /\ k.iters = B.iters /\ k.handlers = Len(B.handlers)
  /\ c.kind # "for" => B = T
  /\ Lands(G, Outs(c, p), Plus(T, 0)) /\ Lands(G, Ins(c, p), B)
  /\ \A a \in Outs(c, p) : ~(a \in Ins(c, p))
  /\ Ring(T, B, c, p)

LEMMA RoundsOf ==
  ASSUME NEW G, NEW K, NEW o, NEW q, NEW k, Closes(G, K, o, q, k), Inner(K, o).kind \in Repeated
  PROVE  Rounds(G, K, o, q, k, Inner(K, o), LastOf(q), First(K), Body(K))
<1> DEFINE T == First(K)
           B == Body(K)
           c == Inner(K, o)
           p == LastOf(q)
<1>0. Closes(G, K, o, q, k) /\ c.kind \in Repeated OBVIOUS
<1> HIDE DEF T, B, c, p
<1>1. /\ Tracks(G, k) /\ Good(G) /\ Len(G.code) \in Nat /\ DOMAIN k = LowFields
      /\ Fits(G, K.base[K.depth - 1], T, B, c, Blk(o, K.depth - 1), Blk(o, K.depth))
      /\ T \in Layouts /\ B \in Layouts /\ LayoutOK(G, T) /\ LayoutOK(G, B) /\ T.scope \in Nat
      /\ End(G) = Valued(B, Blk(o, K.depth).wants) /\ c.wants \in Wants /\ c.top \in Nat
      /\ k.open = Outside(o) /\ k.loops = q /\ k.slots = B.scope /\ k.iters = B.iters /\ k.handlers = Len(B.handlers)
  BY ClosesFacts DEF T, B, c
<1>2. /\ Blk(o, K.depth).wants = "Effect" /\ c.top \in DOMAIN G.at /\ G.at[c.top] = B
      /\ c.kind # "for" => B = T
  BY <1>0, <1>1 DEF Fits
<1>3. End(G) = B BY <1>1, <1>2 DEF Valued
<1>4. c.top # 0 BY <1>1, <1>2 DEF Good, Starts
<1>5. /\ Leaves(G, K, o, Outs(c, p), "out") /\ Leaves(G, K, o, Ins(c, p), "in") /\ Ring(T, B, c, p)
  BY <1>0, LoopSites DEF T, B, c, p
<1>6. Lands(G, Outs(c, p), Aim(c, T, B, "out")) /\ Lands(G, Ins(c, p), Aim(c, T, B, "in"))
  BY <1>5, LeavesLand DEF T, B, c
<1>7. Aim(c, T, B, "out") = Plus(T, 0) /\ Aim(c, T, B, "in") = B BY <1>0 DEF Aim, Repeated
<1>8. \A a \in Outs(c, p) : ~(a \in Ins(c, p)) BY <1>5 DEF Leaves
<1>9. Rounds(G, K, o, q, k, c, p, T, B) BY <1>1, <1>2, <1>3, <1>4, <1>5, <1>6, <1>7, <1>8 DEF Rounds
<1> QED BY <1>9 DEF T, B, c, p

OneLess(G, l, m) ==
  /\ Tracks(G, m) /\ m.open = l.open /\ m.loops = AllButLast(l.loops)
  /\ m.slots = l.slots /\ m.iters = l.iters /\ m.handlers = l.handlers /\ DOMAIN m = LowFields

LEMMA LoopIsOver ==
  ASSUME NEW G, NEW l, Tracks(G, l)
  PROVE  OneLess(G, l, end_loop(l))
<1> DEFINE m == end_loop(l)
<1>1. DOMAIN l = LowFields BY DEF Tracks
<1>2. /\ m.open = l.open /\ m.loops = AllButLast(l.loops)
      /\ m.slots = l.slots /\ m.iters = l.iters /\ m.handlers = l.handlers /\ DOMAIN m = LowFields
      /\ m.code = l.code /\ m.max_stack = l.max_stack /\ m.patched = l.patched
  BY <1>1 DEF end_loop, LowFields
<1> HIDE DEF m
<1>3. Tracks(G, m) BY <1>2, TracksSame
<1>4. OneLess(G, l, m) BY <1>2, <1>3 DEF OneLess
<1> QED BY <1>4 DEF m

\* A loop other than a `for` comes to its end at H, where what goes on to its next turn is patched.
LEMMA LoopEnds ==
  ASSUME NEW G, NEW K, NEW o, NEW q, NEW k, Closes(G, K, o, q, k), Inner(K, o).kind \in Repeated \ {"for"},
         NEW H, NEW P, Comes(G, H, First(K), P, {}), \A a : a \in P <=> a \in Ins(Inner(K, o), LastOf(q)),
         NEW m, Tracks(H, m), m.open = k.open, m.loops = AllButLast(q),
         m.slots = k.slots, m.iters = k.iters, m.handlers = k.handlers
  PROVE  LowSound(Lowered(LoopValue(m, LastOf(q).breaks), Inner(K, o).wants))
<1> DEFINE T == First(K)
           B == Body(K)
           c == Inner(K, o)
           p == LastOf(q)
           w == c.wants
           v == Lowered(LoopValue(m, p.breaks), w)
<1>0. /\ Closes(G, K, o, q, k) /\ c.kind \in Repeated /\ c.kind # "for" /\ Comes(G, H, T, P, {})
      /\ \A a : a \in P <=> a \in Ins(c, p)
  OBVIOUS
<1> HIDE DEF T, B, c, p, w, v
<1>1. Rounds(G, K, o, q, k, c, p, T, B) BY <1>0, RoundsOf DEF T, B, c, p
<1>2. Outs(c, p) = p.breaks /\ B = T /\ w \in Wants BY <1>0, <1>1 DEF Outs, Rounds, w
<1>3. Lands(H, p.breaks, Plus(T, 0)) BY <1>0, <1>1, <1>2, ComesStays DEF Rounds
<1>4. LayoutOK(H, T) /\ End(H) = T BY <1>0, <1>1, ComesStays DEF Rounds, Comes
<1>5. PICK M : Leads(H, m, M, v, Valued(T, w), p.breaks, {}, {}) BY <1>2, <1>3, <1>4, LoopValueGoes DEF v
<1>6. Comes(H, M, Valued(T, w), p.breaks, {}) /\ Tracks(M, v) /\ Alike(m, v) BY <1>5, ComesOf DEF Leads
<1>7. Finishes(G, M, v, Valued(T, w), P \cup p.breaks) BY <1>0, <1>6, ComesPatched DEF Finishes
<1>8. \A a : a \in P \cup p.breaks <=> (a \in Outs(c, p) \/ a \in Ins(c, p)) BY <1>0, <1>2
<1>9. /\ v.open = Outside(o) /\ v.loops = AllButLast(q) /\ v.slots = T.scope /\ v.iters = T.iters
      /\ v.handlers = Len(T.handlers)
  BY <1>1, <1>2, <1>6 DEF Alike, Rounds
<1>10. PICK t \in Nat \ {0} : TRUE OBVIOUS
<1> DEFINE R == P \cup p.breaks
<1> HIDE DEF R
<1>11. LowSound(v)
 <2>1. Finishes(G, M, v, Valued(First(K), Inner(K, o).wants), R) BY <1>7 DEF R, T, w, c
 <2>2. \A a : a \in R <=> (a \in Outs(Inner(K, o), LastOf(q)) \/ a \in Ins(Inner(K, o), LastOf(q)))
   BY <1>8 DEF R, c, p
 <2>3. /\ v.open = Outside(o) /\ v.loops = AllButLast(q) /\ v.slots = First(K).scope /\ v.iters = First(K).iters
       /\ v.handlers = Len(First(K).handlers)
   BY <1>9 DEF T
 <2>4. /\ Inner(K, o).kind \in Repeated /\ t \in Nat \ {0}
       /\ Inner(K, o).kind = "for" => \A a \in Outs(Inner(K, o), LastOf(q)) : M.code[a].arg = t
   BY <1>0, <1>10 DEF c
 <2>5. Closes(G, K, o, q, k) BY <1>0
 <2>6. LoopGiven(G, K, o, q, k, M, R, v, t) BY ONLY <2>1, <2>2, <2>3, <2>4, <2>5 DEF LoopGiven
 <2> QED BY ONLY <2>6, CloseLoop
<1> QED BY <1>11 DEF v, p, w, c

LEMMA end_while_trueSound ==
  ASSUME LowOK(low), LowSound(low), end_while_true
  PROVE  LowSound(low')
<1>1. Closing("loop") BY DEF end_while_true
<1>2. PICK G, K : Closes(G, K, low.open, low.loops, Closed) /\ Inner(K, low.open) = Owner /\ Owner.kind = "loop"
  BY <1>1, ClosedSound
<1> DEFINE o == low.open
           q == low.loops
           k == Closed
           c == Inner(K, o)
           p == LastOf(q)
           T == First(K)
           B == Body(K)
           u == emit(k, Instruction("Jump", c.top))
           m == end_loop(u)
           v == Lowered(LoopValue(m, p.breaks), c.wants)
<1>3. low' = v BY <1>2 DEF end_while_true, Lower
<1> HIDE DEF o, k, q
<1>4. Closes(G, K, o, q, k) /\ c.kind = "loop" /\ c.kind \in Repeated /\ c.kind # "for"
  BY <1>2 DEF o, k, q, Repeated
<1> HIDE DEF c, T, B, p, u, m, v
<1>5. Rounds(G, K, o, q, k, c, p, T, B) /\ B = T BY <1>4, RoundsOf DEF T, B, c, p, Rounds
<1>6. PICK H : Emits(G, k, H, "Jump", c.top, T) BY <1>5, EmitJump DEF Rounds
<1>7. Leads(G, k, H, u, T, {}, {}, {}) BY <1>5, <1>6, EmitsJump DEF u, Rounds
<1>8. /\ Comes(G, H, T, {}, {}) /\ Tracks(H, u) /\ u.open = k.open /\ u.loops = q /\ u.slots = k.slots
      /\ u.iters = k.iters /\ u.handlers = k.handlers
  BY <1>5, <1>7, ComesOf DEF Rounds, Leads, Alike
<1>9. /\ Tracks(H, m) /\ m.open = k.open /\ m.loops = AllButLast(q) /\ m.slots = k.slots
      /\ m.iters = k.iters /\ m.handlers = k.handlers
  BY <1>8, LoopIsOver DEF m, OneLess
<1>10. \A a : a \in {} <=> a \in Ins(c, p) BY <1>4 DEF Ins
<1>11. LowSound(v) BY <1>4, <1>8, <1>9, <1>10, LoopEnds DEF c, p, T, v
<1> QED BY <1>3, <1>11

\* Jumps that are to be patched lead to an instruction that there is.
LEMMA PatchBack ==
  ASSUME NEW G, NEW l, Tracks(G, l), NEW P, NEW t \in DOMAIN G.at, Lands(G, P, G.at[t])
  PROVE  \E H : /\ Leads(G, l, H, patch_to(l, P, t), End(G), P, {}, {})
                /\ Redirects(G, H, P, t)
BY PatchTracks DEF Lands

\* The condition of a `while` comes behind its body, and goes back to its top.
Tests(G, k, H, e, s, test, top, T) ==
  /\ Comes(G, H, T, {s}, {}) /\ test \in DOMAIN H.at /\ H.at[test] = T
  /\ Tracks(H, e) /\ Alike(k, e)
Tested(k, s, top) == emit(patch_to(k, {s}, here(k)), I("Push") \o Instruction("JumpIfTrue", top))

LEMMA TestGoes ==
  ASSUME NEW G, NEW k, Tracks(G, k), NEW s, Lands(G, {s}, End(G)), NEW top \in DOMAIN G.at, top \in Nat \ {0},
         G.at[top] = End(G)
  PROVE  \E H : Tests(G, k, H, Tested(k, s, top), s, here(k), top, End(G))
<1> DEFINE T == End(G)
           P == {s}
           l == patch_to(k, P, here(k))
           u == emit(l, I("Push"))
           y == Instruction("JumpIfTrue", top)
           e == emit(u, y)
           j == Len(G.code) + 1
<1>1. /\ Len(G.code) \in Nat /\ here(k) = j /\ j \in DOMAIN G.at /\ LayoutOK(G, T) /\ Good(G) /\ T \in Layouts
      /\ G.at[j] = T
  BY TracksFacts DEF Tracks, End
<1>2. PICK H1 : Leads(G, k, H1, l, T, P, {}, {}) /\ Redirects(G, H1, P, j)
 <2>1. Lands(G, P, End(G)) OBVIOUS
 <2>2. l = patch_here(k, P) BY DEF patch_here
 <2> HIDE DEF P, l, T
 <2>3. PICK H1 : Leads(G, k, H1, patch_here(k, P), End(G), P, {}, {}) /\ Redirects(G, H1, P, Len(G.code) + 1)
   BY <2>1, PatchHere
 <2> QED BY <2>2, <2>3 DEF T
<1> HIDE DEF T, l, P
<1>3. Tracks(H1, l) /\ Good(H1) /\ End(H1) = T /\ Grows(G, H1, P, {}) /\ LayoutOK(H1, T)
  BY <1>2, LeadsFacts
<1>4. PICK H2 : /\ Leads(H1, l, H2, u, Plus(T, 0), {}, {}, {}) BY <1>3, PlainGoes
<1> HIDE DEF u
<1>5. Tracks(H2, u) /\ Good(H2) /\ End(H2) = Plus(T, 0) /\ Grows(H1, H2, {}, {}) /\ LayoutOK(H2, T)
  BY <1>3, <1>4, LeadsFacts
<1>6. /\ top \in DOMAIN H2.at /\ H2.at[top] = T /\ j \in DOMAIN H2.at /\ H2.at[j] = T
  BY <1>1, <1>3, <1>5 DEF Grows, T
<1>7. PICK H3 : Emits(H2, u, H3, "JumpIfTrue", top, T) BY <1>5, <1>6, EmitGuard DEF Guards
<1>8. Leads(H2, u, H3, e, T, {}, {}, {}) BY <1>7, EmitsJump
<1> HIDE DEF e
<1>9. Grows(H2, H3, {}, {}) /\ Tracks(H3, e) BY <1>5, <1>8, LeadsFacts
<1>10. j \in DOMAIN H3.at /\ H3.at[j] = T BY <1>6, <1>9 DEF Grows
<1>11. Comes(G, H3, T, P, {}) BY <1>2, ComesOf, <1>3, <1>4, <1>5, <1>8, ComesOn
<1>12. Alike(k, e) BY <1>2, <1>4, <1>8 DEF Leads, Alike
<1>13. Tested(k, s, top) = e
 <2>1. Emittable(I("Push")) /\ Emittable(y) BY OneEmittable DEF I, Emitted
 <2>2. emit(l, I("Push") \o y) = emit(emit(l, I("Push")), y)
  <3> HIDE DEF y
  <3> QED BY <1>3, <2>1, EmitPair
 <2> QED BY <2>2 DEF Tested, e, u, l, P
<1> QED BY <1>1, <1>9, <1>10, <1>11, <1>12, <1>13 DEF Tests, P, T

LEMMA end_whileSound ==
  ASSUME LowOK(low), LowSound(low), end_while
  PROVE  LowSound(low')
<1>1. Closing("while") BY DEF end_while
<1>2. PICK G, K : Closes(G, K, low.open, low.loops, Closed) /\ Inner(K, low.open) = Owner /\ Owner.kind = "while"
  BY <1>1, ClosedSound
<1> DEFINE o == low.open
           q == low.loops
           k == Closed
           c == Inner(K, o)
           p == LastOf(q)
           T == First(K)
           B == Body(K)
           test == here(k)
           l == Tested(k, c.site, c.top)
           e == end_loop(l)
           m == patch_to(e, p.continues, test)
           v == Lowered(LoopValue(m, p.breaks), c.wants)
<1>3. low' = v BY <1>2 DEF end_while, Lower, Tested
<1> HIDE DEF o, k, q
<1>4. Closes(G, K, o, q, k) /\ c.kind = "while" /\ c.kind \in Repeated /\ c.kind # "for"
  BY <1>2 DEF o, k, q, Repeated
<1> HIDE DEF c, T, B, p, l, e, m, v, test
<1>5. Rounds(G, K, o, q, k, c, p, T, B) /\ B = T /\ Ins(c, p) = p.continues \cup {c.site}
 <2>1. Rounds(G, K, o, q, k, c, p, T, B) BY <1>4, RoundsOf DEF T, B, c, p
 <2>2. B = T BY <1>4, <2>1 DEF Rounds
 <2>3. Ins(c, p) = p.continues \cup {c.site} BY <1>4 DEF Ins
 <2> QED BY <2>1, <2>2, <2>3
<1>6. /\ Tracks(G, k) /\ End(G) = T /\ c.top \in DOMAIN G.at /\ c.top \in Nat \ {0} /\ G.at[c.top] = T
      /\ Lands(G, {c.site}, T) /\ Lands(G, p.continues, T) /\ c.site \notin p.continues
      /\ k.open = Outside(o) /\ k.loops = q
  BY <1>4, <1>5 DEF Rounds, Lands, Ring
<1>7. PICK H : Tests(G, k, H, l, c.site, test, c.top, T) BY <1>6, TestGoes DEF l, test
<1>8. /\ Comes(G, H, T, {c.site}, {}) /\ test \in DOMAIN H.at /\ H.at[test] = T /\ Tracks(H, l) /\ Alike(k, l)
  BY <1>7 DEF Tests
<1>9. OneLess(H, l, e) BY <1>8, LoopIsOver DEF e
<1>10. Lands(H, p.continues, T) BY <1>6, <1>8, ComesStays
<1>11. PICK J : Leads(H, e, J, m, End(H), p.continues, {}, {})
  BY <1>9, <1>8, <1>10, PatchBack DEF OneLess, m
<1>12. /\ Comes(H, J, T, p.continues, {}) /\ Tracks(J, m) /\ Alike(e, m)
  BY <1>8, <1>9, <1>11, ComesOf DEF OneLess, Leads, Comes
<1> DEFINE P == {c.site} \cup p.continues
<1>13. Comes(G, J, T, P, {}) BY <1>8, <1>12, ComesPatched
<1>14. /\ m.open = k.open /\ m.loops = AllButLast(q) /\ m.slots = k.slots
       /\ m.iters = k.iters /\ m.handlers = k.handlers
  BY <1>6, <1>8, <1>9, <1>12 DEF OneLess, Alike
<1>15. \A a : a \in P <=> a \in Ins(c, p) BY <1>5
<1> HIDE DEF P
<1>16. LowSound(v) BY <1>4, <1>12, <1>13, <1>14, <1>15, LoopEnds DEF c, p, T, v
<1> QED BY <1>3, <1>16

\* A branch back to the top, and one over a jump to it.
LEMMA UntilGoes ==
  ASSUME NEW G, NEW l, Tracks(G, l), NEW T, LayoutOK(G, T), End(G) = Plus(T, 0),
         NEW top \in DOMAIN G.at, top \in Nat \ {0}, G.at[top] = T
  PROVE  \E H : Leads(G, l, H, emit(l, Instruction("JumpIfFalse", top)), T, {}, {}, {})
<1>1. PICK H : Emits(G, l, H, "JumpIfFalse", top, T) BY EmitGuard DEF Guards
<1> QED BY <1>1, EmitsJump

LEMMA WhileGoes ==
  ASSUME NEW G, NEW l, Tracks(G, l), NEW T, LayoutOK(G, T), End(G) = Plus(T, 0),
         NEW top \in DOMAIN G.at, top \in Nat \ {0}, G.at[top] = T
  PROVE  \E H : Leads(G, l, H, patch_here(emit(l, I("JumpIfFalse") \o Instruction("Jump", top)), {here(l)}),
                      T, {}, {}, {})
<1> DEFINE x == I("JumpIfFalse")
           y == Instruction("Jump", top)
           u == emit(l, x)
           e == emit(u, y)
           j == Len(G.code) + 1
           P == {j}
           m == patch_here(e, P)
<1>1. Len(G.code) \in Nat /\ here(l) = j /\ Good(G) BY TracksFacts DEF Tracks
<1>2. PICK H1 : Emits(G, l, H1, "JumpIfFalse", 0, T) BY EmitGuard DEF Guards
<1>3. /\ Leads(G, l, H1, u, T, {}, P, {}) /\ Open_jump(H1, j) /\ H1.code[j].op = "JumpIfFalse"
      /\ H1.at[j] = End(G)
 <2>1. /\ Leads(G, l, H1, emit(l, Instruction("JumpIfFalse", 0)), T, {}, {Len(G.code) + 1}, {})
       /\ Open_jump(H1, Len(G.code) + 1) /\ H1.code[Len(G.code) + 1].op = "JumpIfFalse"
       /\ H1.at[Len(G.code) + 1] = End(G)
   BY <1>2, EmitsSite
 <2> QED BY <2>1 DEF I
<1> HIDE DEF u, P, j
<1>4. Tracks(H1, u) /\ Good(H1) /\ End(H1) = T /\ Grows(G, H1, {}, P) /\ LayoutOK(H1, T)
  BY <1>3, LeadsFacts
<1>5. top \in DOMAIN H1.at /\ H1.at[top] = End(H1) /\ top \in Nat BY <1>4 DEF Grows
<1>6. PICK H2 : Emits(H1, u, H2, "Jump", top, T) BY <1>4, <1>5, EmitJump
<1>7. Leads(H1, u, H2, e, T, {}, {}, {}) BY <1>6, EmitsJump
<1> HIDE DEF e
<1>8. Tracks(H2, e) /\ Good(H2) /\ End(H2) = T /\ Grows(H1, H2, {}, {}) BY <1>4, <1>7, LeadsFacts
<1>9. Lands(H2, P, End(H2))
 <2>1. Lands(H1, P, T) BY <1>3 DEF Lands, Ahead, Guards, P
 <2>2. Lands(H2, P, T) BY <1>4, <1>8, <2>1, LandsStay
 <2> QED BY <1>8, <2>2
<1>10. PICK H3 : Leads(H2, e, H3, m, T, P, {}, {}) BY <1>8, <1>9, PatchHere
<1> HIDE DEF m
<1>11. Leads(G, l, H2, e, T, {}, P, {}) BY <1>3, <1>7, LeadsOn
<1>12. Leads(G, l, H3, m, T, {}, {}, {}) BY <1>1, <1>10, <1>11, LeadsTrans DEF P, j
<1>13. patch_here(emit(l, x \o y), {here(l)}) = m
 <2>1. Emittable(x) /\ Emittable(y) BY OneEmittable DEF I, Emitted
 <2>2. emit(l, x \o y) = emit(emit(l, x), y)
  <3> HIDE DEF y, x
  <3> QED BY <2>1, EmitPair
 <2> QED BY <1>1, <2>2 DEF e, u, m, P
<1> QED BY <1>12, <1>13

LEMMA end_doSound ==
  ASSUME LowOK(low), LowSound(low), end_do
  PROVE  LowSound(low')
<1>1. Closing("do") BY DEF end_do
<1>2. PICK G, K : Closes(G, K, low.open, low.loops, Closed) /\ Inner(K, low.open) = Owner /\ Owner.kind = "do"
  BY <1>1, ClosedSound
<1> DEFINE o == low.open
           q == low.loops
           k == Closed
           c == Inner(K, o)
           p == LastOf(q)
           T == First(K)
           B == Body(K)
           e == end_loop(k)
           l == emit(e, I("Push"))
           until == emit(l, Instruction("JumpIfFalse", c.top))
           while == patch_here(emit(l, I("JumpIfFalse") \o Instruction("Jump", c.top)), {here(l)})
           v(m) == Lowered(LoopValue(m, p.breaks), c.wants)
<1>3. PICK m \in {until, while} : low' = v(m) BY <1>2 DEF end_do, Lower
<1> HIDE DEF o, k, q
<1>4. Closes(G, K, o, q, k) /\ c.kind = "do" /\ c.kind \in Repeated /\ c.kind # "for"
  BY <1>2 DEF o, k, q, Repeated
<1> HIDE DEF c, T, B, p, l, e, v
<1>5. Rounds(G, K, o, q, k, c, p, T, B) /\ B = T /\ Ins(c, p) = {}
 <2>1. Rounds(G, K, o, q, k, c, p, T, B) BY <1>4, RoundsOf DEF T, B, c, p
 <2>2. B = T BY <1>4, <2>1 DEF Rounds
 <2>3. Ins(c, p) = {} BY <1>4 DEF Ins
 <2> QED BY <2>1, <2>2, <2>3
<1>6. /\ Tracks(G, k) /\ End(G) = T /\ c.top \in DOMAIN G.at /\ c.top \in Nat \ {0} /\ G.at[c.top] = T
      /\ k.open = Outside(o) /\ k.loops = q /\ LayoutOK(G, T) /\ T \in Layouts
  BY <1>4, <1>5 DEF Rounds
<1>7. OneLess(G, k, e) BY <1>6, LoopIsOver DEF e
<1>8. Tracks(G, e) BY <1>7 DEF OneLess
<1>9. PICK H : Leads(G, e, H, l, Plus(T, 0), {}, {}, {}) BY <1>8, PlainGoes, <1>6 DEF l
<1>10. /\ Tracks(H, l) /\ LayoutOK(H, T) /\ End(H) = Plus(T, 0) /\ Grows(G, H, {}, {})
  BY <1>6, <1>8, <1>9, LeadsFacts
<1>11. c.top \in DOMAIN H.at /\ H.at[c.top] = T BY <1>6, <1>10 DEF Grows
<1>12. \E J : Leads(H, l, J, m, T, {}, {}, {}) BY <1>6, <1>10, <1>11, UntilGoes, WhileGoes, <1>3
<1>13. PICK J : Leads(H, l, J, m, T, {}, {}, {}) BY <1>12
<1>14. Comes(G, J, T, {}, {}) /\ Tracks(J, m) /\ Alike(e, m)
  BY <1>8, <1>9, ComesOf, <1>10, <1>13, ComesOn DEF Leads, Alike
<1>15. /\ m.open = k.open /\ m.loops = AllButLast(q) /\ m.slots = k.slots
       /\ m.iters = k.iters /\ m.handlers = k.handlers
  BY <1>6, <1>7, <1>14 DEF OneLess, Alike
<1>16. \A a : a \in {} <=> a \in Ins(c, p) BY <1>5
<1>17. LowSound(v(m)) BY <1>4, <1>14, <1>15, <1>16, LoopEnds DEF c, p, T, v
<1> QED BY <1>3, <1>17

\* A `for` begins with an iterator and its variable, and leaves a value.
LEMMA ForHolds ==
  ASSUME NEW G, NEW K, NEW o, NEW q, NEW k, Closes(G, K, o, q, k), Inner(K, o).kind = "for"
  PROVE  /\ Body(K).iters = First(K).iters + 1 /\ Len(Body(K).handlers) = Len(First(K).handlers)
         /\ First(K).iters \in Nat /\ LayoutOK(G, Plus(First(K), 0))
<1> DEFINE T == First(K)
           B == Body(K)
           c == Inner(K, o)
           p == LastOf(q)
<1>0. Closes(G, K, o, q, k) /\ c.kind = "for" /\ c.kind \in Repeated BY DEF Repeated
<1> HIDE DEF T, B, c, p
<1>1. /\ Fits(G, K.base[K.depth - 1], T, B, c, Blk(o, K.depth - 1), Blk(o, K.depth))
      /\ T \in Layouts /\ Good(G)
  BY <1>0, ClosesFacts DEF T, B, c
<1>2. /\ c.site - 7 \in 1..Len(G.code) /\ G.code[c.site - 7].op = "IterInit"
      /\ B = Scoped(Looped(T, c.site - 7), T.scope + 1)
  BY <1>0, <1>1 DEF Fits
<1>3. B.iters = T.iters + 1 /\ B.handlers = T.handlers /\ T.iters \in Nat
  BY <1>1, <1>2 DEF Scoped, Looped, Layouts
<1>4. Rounds(G, K, o, q, k, c, p, T, B) BY <1>0, RoundsOf DEF T, B, c, p
<1>5. Lands(G, Outs(c, p), Plus(T, 0)) /\ Outs(c, p) = p.breaks \cup {c.site}
  BY <1>0, <1>4 DEF Outs, Rounds
<1>6. Open_jump(G, c.site) /\ Ahead(G.code[c.site].op, c.site, G.at[c.site], Plus(T, 0))
  BY <1>5 DEF Lands
<1>7. ForShape(G, c.site - 7) BY <1>0, <1>2 DEF Closes, Ctxs, Shapes
<1>8. c.site \in Int BY <1>6 DEF Open_jump
<1>9. G.code[c.site].op = "Jump"
 <2>1. c.site - 7 + 7 = c.site BY <1>8
 <2>2. G.code[(c.site - 7) + 7].op = "Jump" BY <1>7 DEF ForShape
 <2> QED BY <2>1, <2>2
<1>10. Plus(T, 0) = G.at[c.site] BY <1>6, <1>9 DEF Ahead
<1>11. c.site \in DOMAIN G.at BY <1>1, <1>6, <1>9 DEF Open_jump, Good, Starts
<1>12. LayoutOK(G, Plus(T, 0)) BY <1>1, <1>11, <1>10 DEF Good
<1>13. B.iters = T.iters + 1 /\ Len(B.handlers) = Len(T.handlers) BY <1>3
<1> QED BY <1>3, <1>12, <1>13 DEF T, B

\* The jumps out of the loop lead behind it.
Over_for(G, M, m, k, q, c, p, T, R, t) ==
  /\ Comes(G, M, Plus(T, 0), R, {}) /\ Tracks(M, m) /\ m.open = k.open /\ m.loops = AllButLast(q)
  /\ m.slots = k.slots /\ m.iters = k.iters /\ m.handlers = k.handlers
  /\ Len(G.code) < Len(M.code) /\ t \in Nat \ {0}
  /\ \A a \in Outs(c, p) : a \in 1..Len(G.code) /\ M.code[a].arg = t
Round_over(k, top) == end_loop(emit(k, Instruction("Jump", top)))
For_over(k, c, p) == patch_here(patch_to(Round_over(k, c.top), p.continues, c.top), Outs(c, p))

LEMMA ForLeaves ==
  ASSUME NEW G, NEW K, NEW o, NEW q, NEW k, NEW c, NEW p, NEW T, NEW B, Rounds(G, K, o, q, k, c, p, T, B),
         LayoutOK(G, Plus(T, 0)), c.kind = "for"
  PROVE  \E M, t : Over_for(G, M, For_over(k, c, p), k, q, c, p, T, p.continues \cup Outs(c, p), t)
<1> DEFINE u == emit(k, Instruction("Jump", c.top))
           l == end_loop(u)
           n == patch_to(l, p.continues, c.top)
           R == Outs(c, p)
           C == p.continues
           m == patch_here(n, R)
           t == Plus(T, 0)
<1>1. /\ Tracks(G, k) /\ End(G) = B /\ c.top \in DOMAIN G.at /\ c.top \in Nat \ {0} /\ G.at[c.top] = B
      /\ k.loops = q /\ LayoutOK(G, t) /\ Lands(G, R, t) /\ Good(G) /\ \A a \in R : ~(a \in C)
      /\ Lands(G, C, B) /\ Len(G.code) \in Nat
  BY DEF Ins, Rounds
<1> HIDE DEF u, l, n, R, m, t, C
<1>2. PICK H : Emits(G, k, H, "Jump", c.top, t) BY <1>1, EmitJump
<1>3. Leads(G, k, H, u, t, {}, {}, {}) /\ Len(H.code) = Len(G.code) + 2 BY <1>1, <1>2, EmitsJump DEF u
<1>4. Comes(G, H, t, {}, {}) /\ Tracks(H, u) /\ Alike(k, u) /\ Grows(G, H, {}, {})
  BY <1>1, <1>3, ComesOf DEF Leads
<1>5. OneLess(H, u, l) BY <1>4, LoopIsOver DEF l
<1>6. Lands(H, R, t) /\ Lands(H, C, B) /\ Tracks(H, l) BY <1>1, <1>4, <1>5, ComesStays DEF OneLess
<1>7. c.top \in DOMAIN H.at /\ H.at[c.top] = B BY <1>1, <1>4 DEF Grows
<1>8. PICK J : Leads(H, l, J, n, t, C, {}, {}) /\ Redirects(H, J, C, c.top)
 <2>1. End(H) = t BY <1>4 DEF Comes
 <2>2. PICK J : Leads(H, l, J, patch_to(l, C, c.top), End(H), C, {}, {}) /\ Redirects(H, J, C, c.top)
   BY <1>6, <1>7, PatchBack
 <2> QED BY <2>1, <2>2 DEF n, C
<1>9. Comes(H, J, t, C, {}) /\ Tracks(J, n) /\ Alike(l, n) /\ Len(J.code) = Len(G.code) + 2
  BY <1>3, <1>6, <1>8, ComesOf DEF Leads, Redirects
<1>10. Lands(J, R, End(J)) BY <1>1, <1>6, <1>9, ComesStays DEF Comes
<1>11. PICK M : Leads(J, n, M, m, t, R, {}, {}) /\ Redirects(J, M, R, Len(J.code) + 1)
 <2>1. End(J) = t BY <1>9 DEF Comes
 <2>2. PICK M : Leads(J, n, M, patch_here(n, R), End(J), R, {}, {}) /\ Redirects(J, M, R, Len(J.code) + 1)
   BY <1>9, <1>10, PatchHere
 <2> QED BY <2>1, <2>2 DEF m
<1>12. Comes(J, M, t, R, {}) /\ Tracks(M, m) /\ Alike(n, m) /\ Len(M.code) = Len(G.code) + 2
  BY <1>9, <1>11, ComesOf DEF Leads, Redirects
<1> DEFINE a1 == Len(G.code) + 3
<1>13. \A a \in R : a \in 1..Len(G.code) /\ M.code[a].arg = a1
  BY <1>1, <1>9, <1>11 DEF Lands, Open_jump, Redirects
<1>14. Comes(G, M, t, C \cup R, {}) BY <1>4, <1>9, ComesPatched, <1>12
<1>15. /\ m.open = k.open /\ m.loops = AllButLast(q) /\ m.slots = k.slots
       /\ m.iters = k.iters /\ m.handlers = k.handlers
  BY <1>1, <1>4, <1>5, <1>9, <1>12 DEF OneLess, Alike
<1>16. Over_for(G, M, m, k, q, c, p, T, C \cup R, a1)
  BY <1>1, <1>12, <1>13, <1>14, <1>15 DEF Over_for, t, R
<1>17. m = For_over(k, c, p) BY DEF m, n, l, u, Round_over, C, R, For_over
<1>18. Over_for(G, M, For_over(k, c, p), k, q, c, p, T, p.continues \cup Outs(c, p), a1)
  BY <1>16, <1>17 DEF C, R
<1> QED BY <1>18

LEMMA end_forSound ==
  ASSUME LowOK(low), LowSound(low), end_for
  PROVE  LowSound(low')
<1>1. Closing("for") BY DEF end_for
<1>2. PICK G, K : Closes(G, K, low.open, low.loops, Closed) /\ Inner(K, low.open) = Owner /\ Owner.kind = "for"
  BY <1>1, ClosedSound
<1> DEFINE o == low.open
           q == low.loops
           k == Closed
           c == Inner(K, o)
           p == LastOf(q)
           T == First(K)
           B == Body(K)
           m == For_over(k, c, p)
           z == [m EXCEPT !.iters = @ - 1, !.slots = p.break_depth]
           w == c.wants
           v == Lowered(z, w)
           P == p.continues \cup Outs(c, p)
<1>3. low' = v BY <1>2 DEF Outs, end_for, Lower, Round_over, For_over
<1> HIDE DEF o, k, q
<1>4. Closes(G, K, o, q, k) /\ c.kind = "for" /\ c.kind \in Repeated BY <1>2 DEF o, k, q, Repeated
<1> HIDE DEF c, T, B, p, m, z, v, P, w
<1>5. /\ Rounds(G, K, o, q, k, c, p, T, B)
      /\ B.iters = T.iters + 1 /\ Len(B.handlers) = Len(T.handlers)
      /\ T.iters \in Nat /\ LayoutOK(G, Plus(T, 0))
 <2>1. Rounds(G, K, o, q, k, c, p, T, B) BY <1>4, RoundsOf DEF T, B, c, p
 <2>2. /\ B.iters = T.iters + 1 /\ Len(B.handlers) = Len(T.handlers)
       /\ T.iters \in Nat /\ LayoutOK(G, Plus(T, 0))
   BY <1>4, ForHolds DEF T, B, c
 <2> QED BY <2>1, <2>2
<1>6. /\ k.open = Outside(o) /\ k.iters = T.iters + 1 /\ k.handlers = Len(T.handlers) /\ p.break_depth = T.scope
      /\ Tracks(G, k) /\ Good(G) /\ LayoutOK(G, T) /\ w \in Wants /\ T.scope \in Nat /\ Len(G.code) \in Nat
      /\ T \in Layouts
  BY <1>5 DEF Rounds, Ring, w
<1>7. PICK M, t : Over_for(G, M, m, k, q, c, p, T, P, t) BY <1>4, <1>5, ForLeaves DEF m, P
<1>8. /\ Comes(G, M, Plus(T, 0), P, {}) /\ Tracks(M, m) /\ m.open = Outside(o) /\ m.loops = AllButLast(q)
      /\ m.iters = T.iters + 1 /\ m.handlers = Len(T.handlers)
      /\ Len(G.code) < Len(M.code) /\ t \in Nat \ {0}
      /\ \A a \in Outs(c, p) : a \in 1..Len(G.code) /\ M.code[a].arg = t
  BY <1>6, <1>7 DEF Over_for
<1>9. DOMAIN m = LowFields BY <1>8 DEF Tracks
<1>10. /\ z.open = m.open /\ z.loops = m.loops /\ z.iters = T.iters /\ z.slots = T.scope
       /\ z.handlers = m.handlers /\ z.code = m.code /\ z.max_stack = m.max_stack /\ z.patched = m.patched
       /\ DOMAIN z = LowFields
  BY <1>9, <1>5, <1>6, <1>8 DEF z, LowFields
<1>11. Tracks(M, z) BY <1>8, <1>10, TracksSame
<1>12. LayoutOK(M, T) BY <1>6, <1>8, ComesStays
<1>13. PICK N : /\ Finishes(G, N, v, Valued(T, w), P) /\ Alike(z, v)
                /\ (N = M \/ Trims(M, N))
  BY <1>6, <1>8, <1>11, <1>12, ComesLowered DEF v
<1>14. \A a \in Outs(c, p) : N.code[a].arg = t BY <1>8, ComesStays, <1>6, <1>13 DEF Trims
<1>15. /\ v.open = Outside(o) /\ v.loops = AllButLast(q) /\ v.slots = T.scope /\ v.iters = T.iters
       /\ v.handlers = Len(T.handlers)
  BY <1>8, <1>10, <1>13 DEF Alike
<1>16. Ins(c, p) = p.continues BY <1>4 DEF Ins
<1>17. \A a : a \in P <=> (a \in Outs(c, p) \/ a \in Ins(c, p)) BY <1>16 DEF P
<1>18. LowSound(v)
 <2>1. Finishes(G, N, v, Valued(First(K), Inner(K, o).wants), P) BY <1>13 DEF T, w, c
 <2>2. \A a : a \in P <=> (a \in Outs(Inner(K, o), LastOf(q)) \/ a \in Ins(Inner(K, o), LastOf(q)))
   BY <1>17 DEF c, p
 <2>3. /\ v.open = Outside(o) /\ v.loops = AllButLast(q) /\ v.slots = First(K).scope /\ v.iters = First(K).iters
       /\ v.handlers = Len(First(K).handlers)
   BY <1>15 DEF T
 <2>4. /\ Inner(K, o).kind \in Repeated /\ t \in Nat \ {0}
       /\ Inner(K, o).kind = "for" => \A a \in Outs(Inner(K, o), LastOf(q)) : N.code[a].arg = t
   BY <1>4, <1>8, <1>14 DEF c, p
 <2>5. Closes(G, K, o, q, k) BY <1>4
 <2>6. LoopGiven(G, K, o, q, k, N, P, v, t) BY ONLY <2>1, <2>2, <2>3, <2>4, <2>5 DEF LoopGiven
 <2> QED BY ONLY <2>6, CloseLoop
<1> QED BY <1>3, <1>18

(* The lowering begins. *)
NoLayouts == [code |-> <<>>, at |-> [a \in {1} |-> Bottom], room |-> 0, seen |-> 0]

NoPlan ==
  [depth |-> 1, base |-> [n \in Nat |-> Bottom], start |-> [n \in Nat |-> Bottom],
   own |-> [n \in Nat |-> <<0, "in">>], loop |-> <<>>]

LEMMA NothingGood == Good(NoLayouts) /\ Len(NoLayouts.code) = 0
<1> DEFINE G == NoLayouts
<1>1. /\ G.code = <<>> /\ Len(G.code) = 0 /\ G.at = [a \in {1} |-> Bottom] /\ G.room = 0 /\ G.seen = 0
      /\ DOMAIN G.at = {1} /\ G.at[1] = Bottom
  BY DEF NoLayouts
<1>2. CodeOK(G.code) BY <1>1, EmptyCode
<1>3. Starts(G.code) = {} BY <1>1 DEF Starts
<1> HIDE DEF G
<1>4. LayoutOK(G, Bottom) BY <1>1 DEF Bottom, Layouts, Size, LayoutOK
<1>5. Good(G) BY <1>1, <1>2, <1>3, <1>4 DEF Good
<1> QED BY <1>1, <1>5 DEF G

LEMMA NoPlanOK == NoPlan \in Plans
BY DEF Bottom, Layouts, Ways, NoPlan, Plans

LEMMA NewSound == LowSound(NewLowering)
<1> DEFINE G == NoLayouts
           K == NoPlan
           l == NewLowering
           n == Block("program", "Value", 0, FALSE)
<1>1. /\ l.code = <<>> /\ l.max_stack = 0 /\ l.patched = 1 /\ l.slots = 0 /\ l.iters = 0 /\ l.handlers = 0
      /\ l.loops = <<>> /\ l.open = <<n>> /\ DOMAIN l = LowFields
  BY DEF NewLowering, LowFields
<1>2. /\ n.kind = "program" /\ n.wants = "Value" /\ n.depth = 0 /\ n.some = FALSE /\ n.last = FALSE
  BY DEF Block
<1>3. G.code = <<>> /\ G.room = 0 /\ G.seen = 0 /\ G.at[1] = Bottom BY DEF NoLayouts
<1>4. K.depth = 1 /\ K.base[1] = Bottom /\ K.loop = <<>> BY DEF NoPlan
<1> HIDE DEF G, K, l, n
<1>5. Good(G) /\ Len(G.code) = 0 BY NothingGood DEF G
<1>6. Tracks(G, l) BY <1>1, <1>3, <1>5 DEF Tracks
<1>7. ~Open_jump(G, 0) /\ \A a : ~Open_jump(G, a) BY <1>5 DEF Open_jump
<1>8. Blk(l.open, 1) = n /\ Len(l.open) = 1 BY <1>1 DEF Blk
<1>9. Nests(K, l.open, l.loops) BY <1>1, <1>2, <1>4, <1>8 DEF Nests
<1>10. Ctxs(G, K, l.open, l.loops, {})
 <2>1. Links(G, K, l.open) BY <1>4 DEF Links
 <2>2. Rings(K, l.open, l.loops) BY <1>1 DEF Rings
 <2>3. Levels(K, l.open) BY <1>4 DEF Levels
 <2>4. Jumps(G, K, l.open, l.loops, {}) BY <1>1, <1>4, <1>7 DEF Jumps
 <2>5. Shapes(G, K, l.open) BY <1>5 DEF Shapes
 <2>6. K \in Plans BY NoPlanOK DEF K
 <2> QED BY <1>9, <2>1, <2>2, <2>3, <2>4, <2>5, <2>6 DEF Ctxs
<1>11. Reached(G, K, l)
 <2>1. Scoped(Bottom, 0) = Bottom /\ Bottom.scope = 0 /\ Bottom.iters = 0 /\ Len(Bottom.handlers) = 0
   BY DEF Scoped, Bottom
 <2>2. LayoutOK(G, Bottom) /\ End(G) = Bottom BY <1>3, <1>5 DEF Good, End
 <2>3. Valued(Bottom, "Effect") = Bottom BY DEF Valued
 <2> QED BY <1>1, <1>2, <1>4, <1>8, <2>1, <2>2, <2>3 DEF Reached
<1>12. LowSound(l) BY <1>6, <1>10, <1>11 DEF LowSound
<1> QED BY <1>12 DEF l

\* No statement has an end of its own that leaves this.
LEMMA LoweringSound ==
  ASSUME LowOK(low), LowSound(low), ~LeaveOperand, lower_statement \/ resume_statement
  PROVE  LowSound(low')
<1>1. CASE lower_statement
 <2>1. CASE Stmt_Var BY <2>1, StmtVarSound
 <2>2. CASE Stmt_Expr BY <2>2, StmtExprSound
 <2>3. CASE Stmt_Return("throw", "Throw") BY <2>3, StmtReturnSound
 <2>4. CASE Stmt_Return("return", "Return") BY <2>4, StmtReturnSound
 <2>5. CASE Stmt_Break BY <2>5, Stmt_BreakSound
 <2>6. CASE Stmt_Continue BY <2>6, Stmt_ContinueSound
 <2>7. CASE Stmt_Block BY <2>7, StmtBlockSound
 <2>8. CASE if_statement BY <2>8, if_statementSound
 <2>9. CASE Stmt_Loop("loop") BY <2>9, StmtLoopSound
 <2>10. CASE Stmt_Loop("do") BY <2>10, StmtLoopSound
 <2>11. CASE Stmt_While BY <2>11, StmtWhileSound
 <2>12. CASE Stmt_For BY <2>12, StmtForSound
 <2>13. CASE Stmt_TryCatch BY <2>13, StmtTrySound
 <2>14. CASE Stmt_Operand BY <2>14, StmtOperandSound
 <2> QED BY <1>1, <2>1, <2>2, <2>3, <2>4, <2>5, <2>6, <2>7, <2>8, <2>9, <2>10, <2>11, <2>12, <2>13, <2>14
         DEF lower_statement
<1>2. CASE resume_statement
  BY <1>2, end_blockSound, end_ifSound, begin_elseSound, end_elseSound, end_while_trueSound, end_whileSound,
     end_doSound, end_forSound, begin_catchSound, end_catchSound, end_operandSound DEF resume_statement
<1> QED BY <1>1, <1>2

(* The program has been lowered. *)
\* A break at p leaves the `for` that has made its iterator at a, and goes where the exhausted
\* iterator goes.
Escapes(G, p, a) ==
  /\ a \in 1..Len(G.code) /\ a \in Nat /\ G.code[a].op = "IterInit" /\ ForShape(G, a)
  /\ Len(G.at[p].stack) = Len(G.at[a + 3].stack) + 1 /\ G.at[p].iters = G.at[a + 3].iters
  /\ \E k \in 1..Len(G.at[p].stack) : G.at[p].stack[k] = a
  /\ G.code[p + 2].arg = G.code[a + 7].arg

\* Code with one layout for each of its instructions, with which every way to it agrees; there is
\* a slot for everything that it keeps on the stack.
Charts(G, c, room) ==
  /\ Good(G) /\ G.code = c /\ G.room <= room
  /\ c # <<>> /\ c[Len(c)].op = "Return"
  /\ \A a \in 1..Len(c) : c[a].op \in Targeted => c[a].arg \in Starts(c)
  /\ \A a \in 1..Len(c) : c[a].op = "IterInit" => ForShape(G, a)
  /\ \A a \in 1..Len(c) :
       c[a].op = "IterDrop" =>
         /\ a + 3 <= Len(c) /\ c[a + 1].op = "UnwindTo" /\ c[a + 2].op = "Jump"
         /\ \E b \in Nat : Escapes(G, a, b)

LEMMA ReturnGoes ==
  ASSUME NEW G, NEW l, Tracks(G, l)
  PROVE  \E H : /\ Leads(G, l, H, emit(l, I("Return")), End(G), {}, {}, {})
                /\ Len(H.code) = Len(G.code) + 1 /\ H.code[Len(G.code) + 1].op = "Return"
<1> DEFINE t == End(G)
<1>1. LayoutOK(G, t) /\ t \in Layouts BY TracksFacts
<1>2. Len(t.stack) \in Nat BY <1>1, LayoutType
<1>3. takes("Return") = 0 /\ "Return" \in Emitted /\ "Return" \in Ends /\ "Return" \notin Targeted /\ 0 \in Nat
  BY DEF takes, Emitted, Ends, Targeted, Branches, Advances
<1>4. PICK H : Emits(G, l, H, "Return", 0, t) BY <1>2, <1>3, <1>1, EmitKnown
<1>5. "Return" \in Steady BY DEF Steady
<1>6. /\ Leads(G, l, H, emit(l, Instruction("Return", 0)), t, {}, {}, {})
      /\ Len(H.code) = Len(G.code) + 1 /\ H.code[Len(G.code) + 1].op = "Return"
  BY <1>4, <1>5, EmitsPlain
<1> QED BY <1>6 DEF I

\* With nothing left to be patched.
LEMMA ChartsOf ==
  ASSUME NEW G, Good(G), NEW K, NEW o, NEW q, Ctxs(G, K, o, q, {}), K.depth = 1,
         NEW H, Good(H), Grows(G, H, {}, {}), Calm(G, H, {}), Len(H.code) = Len(G.code) + 1,
         H.code[Len(G.code) + 1].op = "Return", NEW room, H.room <= room
  PROVE  Charts(H, H.code, room)
<1>1. /\ CodeOK(G.code) /\ CodeOK(H.code) /\ Len(G.code) \in Nat /\ Len(H.code) \in Nat
      /\ DOMAIN G.at = Starts(G.code) \cup {Len(G.code) + 1} /\ DOMAIN H.at = Starts(H.code) \cup {Len(H.code) + 1}
  BY CodeLen DEF Good
<1>2. \A a : ~Open_jump(G, a) BY DEF Ctxs, Jumps
<1>3. \A a \in 1..Len(G.code) : H.code[a] = G.code[a] BY DEF Grows
<1>4. Len(H.code) = Len(G.code) + 1 /\ "Return" \notin Targeted /\ "Return" \notin {"IterInit", "IterDrop"}
  BY DEF Targeted, Branches, Advances
<1>5. \A a \in 1..Len(H.code) : a \in 1..Len(G.code) \/ a = Len(G.code) + 1 BY <1>1, <1>4
<1>6. ASSUME NEW a \in 1..Len(H.code), H.code[a].op \in Targeted
      PROVE  H.code[a].arg \in Starts(H.code)
 <2>1. a \in 1..Len(G.code) /\ H.code[a] = G.code[a] BY <1>3, <1>4, <1>5, <1>6
 <2>2. G.code[a].arg # 0 BY <1>2, <1>6, <2>1 DEF Open_jump
 <2>3. a \in Starts(G.code) /\ "operand" \notin Targeted BY <1>6, <2>1, OpFacts DEF Starts
 <2>4. Runs(G, a) BY <2>3 DEF Good
 <2>5. G.code[a].arg \in DOMAIN G.at BY <1>6, <2>1, <2>2, <2>4 DEF Runs
 <2>6. CASE G.code[a].arg \in Starts(G.code) BY <1>1, <1>3, <1>4, <2>1, <2>6 DEF Starts
 <2>7. CASE G.code[a].arg = Len(G.code) + 1 BY <1>1, <1>4, <2>1, <2>7 DEF Starts
 <2> QED BY <1>1, <2>5, <2>6, <2>7
<1>7. /\ \A a \in DOMAIN G.at : a \in DOMAIN H.at /\ H.at[a] = G.at[a] BY DEF Grows
<1>8. ASSUME NEW a \in 1..Len(G.code), ForShape(G, a)
      PROVE  ForShape(H, a)
 <2>1. a + 8 <= Len(G.code) /\ a \in Nat /\ a + 3 \in DOMAIN G.at BY <1>1, <1>8 DEF ForShape
 <2>2. \A i \in {1, 2, 3, 5, 6, 7} : a + i \in 1..Len(G.code) /\ H.code[a + i] = G.code[a + i]
   BY <1>1, <1>3, <2>1
 <2>3. a + 8 <= Len(H.code) /\ a + 3 \in DOMAIN H.at BY <1>1, <1>4, <1>7, <2>1
 <2> QED BY <1>8, <2>2, <2>3 DEF ForShape
<1>9. ASSUME NEW a \in 1..Len(H.code), H.code[a].op = "IterInit"
      PROVE  ForShape(H, a)
  BY <1>3, <1>4, <1>5, <1>9, <1>8 DEF Ctxs, Shapes
<1>10. ASSUME NEW p \in 1..Len(H.code), H.code[p].op = "IterDrop"
       PROVE  /\ p + 3 <= Len(H.code) /\ H.code[p + 1].op = "UnwindTo" /\ H.code[p + 2].op = "Jump"
              /\ \E a \in Nat : Escapes(H, p, a)
 <2>1. p \in 1..Len(G.code) /\ G.code[p].op = "IterDrop" /\ p \in Nat BY <1>1, <1>3, <1>4, <1>5, <1>10
 <2>2. BreakShape(G, K, o, p) BY <2>1 DEF Ctxs, Shapes
 <2>3. p + 3 <= Len(G.code) /\ p \in DOMAIN G.at /\ G.code[p + 1].op = "UnwindTo" /\ G.code[p + 2].op = "Jump"
   BY <2>2 DEF BreakShape
 <2>4. PICK a \in Nat : Pairs(G, K, o, p, a) BY <2>2 DEF BreakShape
 <2>5. H.code[p + 1] = G.code[p + 1] /\ H.code[p + 2] = G.code[p + 2] /\ H.at[p] = G.at[p]
       /\ p + 3 <= Len(H.code)
   BY <1>1, <1>3, <1>4, <1>7, <2>1, <2>3
 <2>6. a \in 1..Len(G.code) /\ G.code[a].op = "IterInit" /\ ForShape(G, a) BY <2>4 DEF Pairs
 <2>7. a + 3 \in DOMAIN G.at /\ a + 7 \in 1..Len(G.code) BY <1>1, <2>6 DEF ForShape
 <2>8. H.at[a + 3] = G.at[a + 3] /\ H.code[a + 7] = G.code[a + 7] /\ H.code[a] = G.code[a] /\ a \in 1..Len(H.code)
   BY <1>1, <1>3, <1>4, <1>7, <2>6, <2>7
 <2>9. Escapes(H, p, a) BY <1>8, <2>4, <2>5, <2>6, <2>8 DEF Escapes, Pairs
 <2> QED BY <2>3, <2>5, <2>9
<1>11. H.code # <<>> /\ H.code[Len(H.code)].op = "Return" BY <1>1, <1>4
<1> QED BY <1>6, <1>9, <1>10, <1>11 DEF Charts

LEMMA ProgramSound ==
  ASSUME LowOK(low), LowSound(low), program
  PROVE  declared' \in Nat /\ \E G : Charts(G, code', declared')
<1>1. PICK G, K : Tracks(G, low) /\ Ctxs(G, K, low.open, low.loops, {}) /\ Reached(G, K, low)
  BY DEF LowSound
<1>2. Good(G) /\ K.depth \in Nat /\ K.depth > 0 BY <1>1, PlanFacts DEF Tracks, Ctxs
<1>3. Top.kind = "program" /\ Top = Blk(low.open, K.depth) BY <1>1, InmostIs DEF program, Top
<1>4. K.depth = 1 BY <1>1, <1>2, <1>3 DEF Ctxs, Nests
<1> DEFINE u == IF Top.some THEN low ELSE emit(low, I("Unit"))
           v == emit(u, I("Return"))
<1>5. PICK H : Tracks(H, u) /\ Grows(G, H, {}, {}) /\ Calm(G, H, {})
 <2>1. CASE Top.some BY <1>1, <1>2, <2>1, GrowsSelf
 <2>2. CASE ~Top.some
  <3>1. PICK H : Leads(G, low, H, emit(low, I("Unit")), Plus(End(G), 0), {}, {}, {}) BY <1>1, PlainGoes
  <3>2. u = emit(low, I("Unit")) BY <2>2
  <3> QED BY <1>1, <3>1, <3>2, LeadsFacts
 <2> QED BY <2>1, <2>2
<1>6. code' = v.code /\ declared' = v.max_stack
 <2>1. CASE Top.some
  <3>1. CodeOK(low.code) /\ CodeOK(I("Return")) /\ CodeOK(I("Unit"))
    BY OneEmittable DEF I, Emitted, Emittable, LowOK, LowBase
  <3>2. I("Return") \in Seq(Cells) BY <3>1 DEF CodeOK
  <3>3. <<>> \o I("Return") = I("Return") BY <3>2
  <3> QED BY <2>1, <3>3 DEF program
 <2>2. CASE ~Top.some BY OneEmittable, <1>1, EmitPair, <2>2 DEF I, Emitted, program
 <2> QED BY <2>1, <2>2
<1> HIDE DEF u, v
<1>7. PICK J : /\ Leads(H, u, J, v, End(H), {}, {}, {})
               /\ Len(J.code) = Len(H.code) + 1 /\ J.code[Len(H.code) + 1].op = "Return"
  BY <1>5, ReturnGoes DEF v
<1>8. /\ Tracks(J, v) /\ Good(H) /\ Good(J) /\ Grows(H, J, {}, {}) /\ Calm(H, J, {})
  BY <1>5, <1>7, LeadsFacts
<1>9. Ctxs(H, K, low.open, low.loops, {}) BY <1>1, <1>2, <1>5, <1>8, CtxsStay
<1>10. /\ J.code = code' /\ J.room <= declared' /\ declared' \in Nat BY <1>6, <1>8 DEF Tracks
<1>11. Charts(J, J.code, declared') BY <1>4, <1>7, <1>8, <1>9, <1>10, ChartsOf
<1> QED BY <1>10, <1>11

(* What the verifier makes of the layouts. *)
\* It counts a slot more for each iterator.
Image(s) == [operands |-> Size(s), iters |-> s.iters, handlers |-> Len(s.handlers)]

LEMMA ImageType ==
  ASSUME NEW s \in Layouts
  PROVE  /\ Image(s) \in States /\ Image(s).operands = Len(s.stack) + s.iters
         /\ Image(s).iters = s.iters /\ Image(s).handlers = Len(s.handlers)
         /\ Image(s).operands \in Nat /\ Image(s).iters \in Nat /\ Image(s).handlers \in Nat
  BY LayoutType DEF Image, States, Size

\* The fields of a state.
LEMMA SameState ==
  ASSUME NEW s \in States, NEW t \in States, s.operands = t.operands, s.iters = t.iters, s.handlers = t.handlers
  PROVE  s = t
  BY DEF States

LEMMA LayoutParts ==
  ASSUME NEW s \in Layouts
  PROVE  /\ \A x : Len(Plus(s, x).stack) = Len(s.stack) + 1 /\ Plus(s, x).iters = s.iters
                   /\ Plus(s, x).handlers = s.handlers /\ Plus(s, x).scope = s.scope
         /\ \A q : Len(Looped(s, q).stack) = Len(s.stack) + 1 /\ Looped(s, q).iters = s.iters + 1
                   /\ Looped(s, q).handlers = s.handlers /\ Looped(s, q).scope = s.scope
         /\ \A n : Scoped(s, n).stack = s.stack /\ Scoped(s, n).iters = s.iters
                   /\ Scoped(s, n).handlers = s.handlers /\ Scoped(s, n).scope = n
         /\ \A n, a, c : /\ Region(s, n, a, c).stack = s.stack /\ Region(s, n, a, c).iters = s.iters
                         /\ Len(Region(s, n, a, c).handlers) = Len(s.handlers) + 1
                         /\ Region(s, n, a, c).scope = n
         /\ \A n : /\ Disarmed(s, n).stack = s.stack /\ Disarmed(s, n).iters = s.iters
                   /\ Disarmed(s, n).scope = s.scope
         /\ \A n \in 0..Len(s.handlers) : Len(Disarmed(s, n).handlers) = n
<1>1. s.stack \in Seq(Nat) /\ s.handlers \in Seq(Regions) /\ Len(s.handlers) \in Nat /\ Len(s.stack) \in Nat
  BY LayoutType
<1>2. \A n \in 0..Len(s.handlers) : Len(SubSeq(s.handlers, 1, n)) = n BY <1>1, FirstN
<1>3. DOMAIN s = {"stack", "iters", "scope", "handlers"} BY DEF Layouts
<1>4. \A x : Len(Append(s.stack, x)) = Len(s.stack) + 1 BY <1>1
<1>5. \A x : Len(Append(s.handlers, x)) = Len(s.handlers) + 1 BY <1>1
<1>6. /\ \A x : Len(Plus(s, x).stack) = Len(s.stack) + 1 /\ Plus(s, x).iters = s.iters
                /\ Plus(s, x).handlers = s.handlers /\ Plus(s, x).scope = s.scope
  BY <1>3, <1>4 DEF Plus
<1>7. \A q : Len(Looped(s, q).stack) = Len(s.stack) + 1 /\ Looped(s, q).iters = s.iters + 1
             /\ Looped(s, q).handlers = s.handlers /\ Looped(s, q).scope = s.scope
  BY <1>3, <1>4 DEF Looped
<1>8. \A n : Scoped(s, n).stack = s.stack /\ Scoped(s, n).iters = s.iters
             /\ Scoped(s, n).handlers = s.handlers /\ Scoped(s, n).scope = n
  BY <1>3 DEF Scoped
<1>9. \A n, a, c : /\ Region(s, n, a, c).stack = s.stack /\ Region(s, n, a, c).iters = s.iters
                   /\ Len(Region(s, n, a, c).handlers) = Len(s.handlers) + 1
                   /\ Region(s, n, a, c).scope = n
  BY <1>3, <1>5 DEF Region
<1>10. \A n : /\ Disarmed(s, n).stack = s.stack /\ Disarmed(s, n).iters = s.iters
              /\ Disarmed(s, n).scope = s.scope
  BY <1>3 DEF Disarmed
<1>11. \A n \in 0..Len(s.handlers) : Len(Disarmed(s, n).handlers) = n BY <1>2, <1>3 DEF Disarmed
<1> QED BY <1>6, <1>7, <1>8, <1>9, <1>10, <1>11

\* The change from one layout to another, as the verifier counts.
Shifts(s, t, operands, iters, handled) ==
  /\ Len(t.stack) + t.iters = Len(s.stack) + s.iters + operands
  /\ t.iters = s.iters + iters
  /\ Len(t.handlers) = Len(s.handlers) + handled

\* What an instruction does to a layout.
LEMMA BehindShifts ==
  ASSUME NEW op, NEW arg, NEW a \in Nat \ {0}, NEW s \in Layouts, NEW t \in Layouts, Behind(op, arg, a, s, t)
  PROVE  /\ op \in {"Unit", "Push", "Call"} => Shifts(s, t, 1, 0, 0)
         /\ op \in {"Pop", "Declare", "JumpIfFalse", "JumpIfTrue", "BinOp"} => Shifts(s, t, -1, 0, 0)
         /\ op \in {"UnwindTo", "Checkpoint", "Rotate"} => Shifts(s, t, 0, 0, 0)
         /\ op = "PushHandler" => Shifts(s, t, 0, 0, 1)
         /\ op = "PopHandler" => Shifts(s, t, 0, 0, -1) /\ Len(s.handlers) > 0
         /\ op = "IterInit" => Shifts(s, t, 1, 1, 0)
         /\ op \in {"IterDrop", "IterNextStore"} => Shifts(s, t, -2, -1, 0)
<1>0. /\ Len(s.stack) \in Nat /\ Len(s.handlers) \in Nat /\ s.iters \in Nat
      /\ Len(t.stack) \in Nat /\ Len(t.handlers) \in Nat /\ t.iters \in Nat
      /\ \A r \in Layouts : Len(r.stack) \in Nat /\ Len(r.handlers) \in Nat /\ r.iters \in Nat
  BY LayoutType
<1>p. \A r \in Layouts : \A x : /\ Len(Plus(r, x).stack) = Len(r.stack) + 1 /\ Plus(r, x).iters = r.iters
                                /\ Plus(r, x).handlers = r.handlers
  BY LayoutParts
<1>l. \A r \in Layouts : \A x : /\ Len(Looped(r, x).stack) = Len(r.stack) + 1 /\ Looped(r, x).iters = r.iters + 1
                                /\ Looped(r, x).handlers = r.handlers
  BY LayoutParts
<1>t. ASSUME NEW r \in Layouts, NEW x \in Nat PROVE Plus(r, x) \in Layouts BY PlusType
<1>1. CASE op \in {"Unit", "Push", "Call"}
 <2>1. t = Plus(s, 0) BY <1>1 DEF Behind
 <2>2. Len(t.stack) = Len(s.stack) + 1 /\ t.iters = s.iters /\ t.handlers = s.handlers BY <1>p, <2>1
 <2>3. Shifts(s, t, 1, 0, 0) BY ONLY <1>0, <2>2 DEF Shifts
 <2> QED BY <1>1, <2>3
<1>2. CASE op \in {"Pop", "JumpIfFalse", "JumpIfTrue"}
 <2>1. PICK x : s = Plus(t, x) BY <1>2 DEF Behind, Guards
 <2>2. Len(s.stack) = Len(t.stack) + 1 /\ t.iters = s.iters /\ t.handlers = s.handlers BY <1>p, <2>1
 <2>3. Shifts(s, t, -1, 0, 0) BY ONLY <1>0, <2>2 DEF Shifts
 <2> QED BY <1>2, <2>3
<1>3. CASE op = "BinOp"
 <2>1. PICK r \in Layouts, x \in Nat, y \in Nat : s = Plus(Plus(r, x), y) /\ t = Plus(r, 0)
   BY <1>3 DEF Behind
 <2>2. /\ Len(s.stack) = Len(Plus(r, x).stack) + 1 /\ s.iters = Plus(r, x).iters /\ s.handlers = Plus(r, x).handlers
   BY <1>p, <1>t, <2>1
 <2>3. /\ Len(Plus(r, x).stack) = Len(r.stack) + 1 /\ r.iters = Plus(r, x).iters /\ r.handlers = Plus(r, x).handlers
       /\ Len(t.stack) = Len(r.stack) + 1 /\ r.iters = t.iters /\ r.handlers = t.handlers
   BY <1>p, <2>1
 <2>4. Len(t.stack) = Len(s.stack) - 1 /\ t.iters = s.iters /\ t.handlers = s.handlers
   BY <1>0, <2>2, <2>3
 <2>5. Shifts(s, t, -1, 0, 0) BY ONLY <1>0, <2>4 DEF Shifts
 <2> QED BY <1>3, <2>5
<1>4. CASE op = "Declare"
 <2>1. PICK r \in Layouts, x \in Nat : s = Plus(r, x) /\ t = Scoped(r, r.scope + 1) BY <1>4 DEF Behind
 <2>2. t.stack = r.stack /\ t.iters = r.iters /\ t.handlers = r.handlers BY <2>1, LayoutParts
 <2>3. Len(s.stack) = Len(r.stack) + 1 /\ r.iters = s.iters /\ r.handlers = s.handlers BY <1>p, <2>1
 <2>4. Shifts(s, t, -1, 0, 0) BY ONLY <1>0, <2>2, <2>3 DEF Shifts
 <2> QED BY <1>4, <2>4
<1>5. CASE op \in {"UnwindTo", "Checkpoint"} BY <1>5, LayoutParts, <1>0 DEF Behind, Shifts
<1>6. CASE op = "Rotate"
 <2>1. PICK r \in Layouts, x \in Nat, y \in Nat : s = Plus(Plus(r, x), y) /\ t = Plus(Plus(r, y), x)
   BY <1>6 DEF Behind
 <2>2. /\ Len(s.stack) = Len(Plus(r, x).stack) + 1 /\ s.iters = Plus(r, x).iters /\ s.handlers = Plus(r, x).handlers
       /\ Len(t.stack) = Len(Plus(r, y).stack) + 1 /\ t.iters = Plus(r, y).iters /\ t.handlers = Plus(r, y).handlers
   BY <1>p, <1>t, <2>1
 <2>3. /\ Len(Plus(r, x).stack) = Len(r.stack) + 1 /\ r.iters = Plus(r, x).iters /\ r.handlers = Plus(r, x).handlers
       /\ Len(Plus(r, y).stack) = Len(r.stack) + 1 /\ r.iters = Plus(r, y).iters /\ r.handlers = Plus(r, y).handlers
   BY <1>p, <2>1
 <2>4. Shifts(s, t, 0, 0, 0) BY ONLY <1>0, <2>2, <2>3 DEF Shifts
 <2> QED BY <1>6, <2>4
<1>7. CASE op = "PushHandler"
 <2>0. t = Arming(s, a) BY <1>7 DEF Behind
 <2>1. t.stack = s.stack /\ t.iters = s.iters /\ Len(t.handlers) = Len(s.handlers) + 1
   BY <2>0, ArmingType
 <2>2. Shifts(s, t, 0, 0, 1) BY ONLY <1>0, <2>1 DEF Shifts
 <2> QED BY <1>7, <2>2
<1>8. CASE op = "PopHandler"
 <2>1. /\ t.stack = s.stack /\ t.iters = s.iters /\ Len(s.handlers) > 0
       /\ Len(t.handlers) = Len(s.handlers) - 1
   BY <1>0, <1>8, LayoutParts DEF Behind
 <2>2. Shifts(s, t, 0, 0, -1) BY ONLY <1>0, <2>1 DEF Shifts
 <2> QED BY <1>8, <2>1, <2>2
<1>9. CASE op = "IterInit"
 <2>1. PICK r \in Layouts, x \in Nat : s = Plus(r, x) /\ t = Looped(r, a) BY <1>9 DEF Behind
 <2>2. Len(s.stack) = Len(r.stack) + 1 /\ s.iters = r.iters /\ s.handlers = r.handlers BY <1>p, <2>1
 <2>3. Len(t.stack) = Len(r.stack) + 1 /\ t.iters = r.iters + 1 /\ t.handlers = r.handlers BY <1>l, <2>1
 <2>4. Shifts(s, t, 1, 1, 0)
  <3>1. Len(t.stack) = Len(s.stack) /\ t.iters = s.iters + 1 /\ t.handlers = s.handlers
    BY ONLY <2>2, <2>3
  <3> QED BY ONLY <1>0, <3>1 DEF Shifts
 <2> QED BY <1>9, <2>4
<1>10. CASE op \in {"IterDrop", "IterNextStore"}
 <2>1. PICK q : s = Looped(t, q) BY <1>10 DEF Behind
 <2>2. Len(s.stack) = Len(t.stack) + 1 /\ s.iters = t.iters + 1 /\ s.handlers = t.handlers BY <1>l, <2>1
 <2>4. Len(t.stack) = Len(s.stack) - 1 /\ t.iters = s.iters - 1 /\ t.handlers = s.handlers
   BY ONLY <1>0, <2>2
 <2>5. Len(t.stack) + t.iters = Len(s.stack) + s.iters + -2 /\ t.iters = s.iters + -1 /\ Len(t.handlers) = Len(s.handlers) + 0
  <3> DEFINE x == Len(s.stack)
             y == s.iters
             u == Len(t.stack)
             v == t.iters
  <3>1. x \in Nat /\ y \in Nat /\ u = x - 1 /\ v = y - 1 /\ Len(s.handlers) \in Nat BY ONLY <1>0, <2>4
  <3> HIDE DEF x, y, u, v
  <3>2. u + v = x + y + -2 /\ v = y + -1 BY ONLY <3>1
  <3>3. Len(t.handlers) = Len(s.handlers) + 0 BY ONLY <3>1, <2>4
  <3> QED BY ONLY <3>2, <3>3 DEF x, y, u, v
 <2>3. Shifts(s, t, -2, -1, 0) BY ONLY <2>5 DEF Shifts
 <2> QED BY <1>10, <2>3
<1>11. CASE op \notin {"Unit", "Push", "Call", "Pop", "Declare", "JumpIfFalse", "JumpIfTrue", "BinOp", "UnwindTo",
                     "Checkpoint", "Rotate", "PushHandler", "PopHandler", "IterInit", "IterDrop", "IterNextStore"}
  BY <1>11
<1> QED BY <1>1, <1>2, <1>3, <1>4, <1>5, <1>6, <1>7, <1>8, <1>9, <1>10, <1>11

LEMMA AheadShifts ==
  ASSUME NEW op, NEW a \in Nat \ {0}, NEW s \in Layouts, NEW t \in Layouts, Ahead(op, a, s, t)
  PROVE  /\ op \in {"Jump", "IterNextStore"} => t = s /\ Shifts(s, t, 0, 0, 0)
         /\ op \in Guards => Shifts(s, t, -1, 0, 0)
         /\ op = "PushHandler" => Shifts(s, t, 0, 0, 1)
<1>0. /\ Len(s.stack) \in Nat /\ Len(s.handlers) \in Nat /\ s.iters \in Nat
      /\ Len(t.stack) \in Nat /\ Len(t.handlers) \in Nat /\ t.iters \in Nat
  BY LayoutType
<1>1. CASE op \in {"Jump", "IterNextStore"} BY <1>1, <1>0 DEF Ahead, Shifts, Guards
<1>2. CASE op \in Guards
 <2>1. PICK x : s = Plus(t, x) BY <1>2 DEF Ahead
 <2>2. Len(s.stack) = Len(t.stack) + 1 /\ s.iters = t.iters /\ s.handlers = t.handlers
   BY <2>1, LayoutParts
 <2>3. Shifts(s, t, -1, 0, 0) BY ONLY <1>0, <2>2 DEF Shifts
 <2> QED BY <1>2, <2>3 DEF Guards
<1>3. CASE op = "PushHandler"
 <2>0. t = Catching(s, a) BY <1>3 DEF Ahead
 <2>1. t.stack = s.stack /\ t.iters = s.iters /\ Len(t.handlers) = Len(s.handlers) + 1
   BY <2>0, CatchingType
 <2>2. Shifts(s, t, 0, 0, 1) BY ONLY <1>0, <2>1 DEF Shifts
 <2> QED BY <1>3, <2>2 DEF Guards
<1>4. CASE op \notin {"Jump", "IterNextStore", "PushHandler"} \cup Guards BY <1>4
<1> QED BY <1>1, <1>2, <1>3, <1>4

(* The verifier walks over a chart. *)
LEMMA ChartedCode ==
  ASSUME NEW G, NEW c, NEW room, Charts(G, c, room)
  PROVE  /\ CodeOK(c) /\ c \in Seq(Cells) /\ Len(c) \in Nat /\ Len(c) > 0
         /\ G.code = c /\ Good(G) /\ G.room \in Nat
         /\ DOMAIN G.at = Starts(c) \cup {Len(c) + 1}
         /\ \A a \in DOMAIN G.at : G.at[a] \in Layouts /\ Size(G.at[a]) \in Nat /\ Size(G.at[a]) <= G.room
         /\ 1 \in Starts(c) /\ G.at[1] = Bottom
<1>1. Good(G) /\ G.code = c /\ c # <<>> BY DEF Charts
<1>2. CodeOK(c) /\ c \in Seq(Cells) /\ Len(c) \in Nat BY <1>1, CodeLen DEF Good
<1>3. Len(c) > 0 BY <1>1, <1>2
<1>4. c[1].op # "operand" /\ 1 \in 1..Len(c) BY <1>2, <1>3 DEF CodeOK, WellFormed
<1>5. \A a \in DOMAIN G.at : G.at[a] \in Layouts /\ Size(G.at[a]) <= G.room BY <1>1 DEF Good, LayoutOK
<1>6. \A a \in DOMAIN G.at : Size(G.at[a]) \in Nat BY <1>5, LayoutType
<1> QED BY <1>1, <1>2, <1>3, <1>4, <1>5, <1>6 DEF Good, Starts

\* The instruction at a, what it leaves, and where it goes.
LEMMA ChartedStart ==
  ASSUME NEW G, NEW c, NEW room, Charts(G, c, room), NEW a \in Starts(c)
  PROVE  LET op == c[a].op
             s  == G.at[a]
         IN /\ a \in Nat \ {0} /\ a \in 1..Len(c) /\ op \in Emitted /\ op \in Ops /\ c[a].arg \in Nat
            /\ width(op) \in 1..2 /\ a + width(op) \in Nat \ {0}
            /\ s \in Layouts /\ a \in DOMAIN G.at /\ takes(op) <= Len(s.stack)
            /\ op = "UnwindTo" => c[a].arg <= s.scope
            /\ Spares(G, op, s)
            /\ op \notin Ends => /\ a + width(op) \in Starts(c) /\ a + width(op) \in DOMAIN G.at
                                 /\ G.at[a + width(op)] \in Layouts
                                 /\ Behind(op, c[a].arg, a, s, G.at[a + width(op)])
            /\ op \in Targeted => /\ c[a].arg \in Starts(c) /\ c[a].arg \in DOMAIN G.at
                                  /\ G.at[c[a].arg] \in Layouts
                                  /\ Ahead(op, a, s, G.at[c[a].arg])
<1> DEFINE op == c[a].op
           s == G.at[a]
<1>1. /\ CodeOK(c) /\ c \in Seq(Cells) /\ Len(c) \in Nat /\ Len(c) > 0 /\ G.code = c /\ Good(G)
      /\ DOMAIN G.at = Starts(c) \cup {Len(c) + 1}
      /\ \A x \in DOMAIN G.at : G.at[x] \in Layouts
  BY ChartedCode
<1>2. a \in 1..Len(c) /\ a \in Nat \ {0} /\ op # "operand" BY <1>1 DEF Starts
<1>3. op \in Ops /\ c[a].arg \in Nat /\ width(op) \in 1..2 /\ a + width(op) \in Nat \ {0}
  BY <1>1, <1>2, CellType
<1>4. Runs(G, a) BY <1>1 DEF Good
<1>5. op \in Emitted /\ takes(op) <= Len(s.stack) /\ (op = "UnwindTo" => c[a].arg <= s.scope)
  BY <1>1, <1>4 DEF Runs
<1>6. Spares(G, op, s) BY <1>1, <1>4 DEF Runs
<1>7. a \in DOMAIN G.at /\ s \in Layouts BY <1>1
<1>8. ASSUME op \notin Ends
      PROVE  /\ a + width(op) \in Starts(c) /\ a + width(op) \in DOMAIN G.at
             /\ G.at[a + width(op)] \in Layouts
             /\ Behind(op, c[a].arg, a, s, G.at[a + width(op)])
 <2>1. Behind(op, c[a].arg, a, s, G.at[a + width(op)]) BY <1>1, <1>4, <1>8 DEF Runs
 <2>2. c[Len(c)].op = "Return" BY DEF Charts
 <2>3. /\ a + width(op) <= Len(c) + 1
       /\ a + width(op) <= Len(c) => c[a + width(op)].op # "operand"
       /\ width(op) = 2 => c[a + 1].op = "operand"
   BY <1>1, <1>2 DEF CodeOK, WellFormed
 <2>4. a # Len(c) BY <1>8, <2>2 DEF Ends
 <2>5. ~(width(op) = 2 /\ a + 1 = Len(c)) BY <2>2, <2>3
 <2>6. a + width(op) <= Len(c) BY <1>1, <1>2, <1>3, <2>3, <2>4, <2>5
 <2>7. a + width(op) \in Starts(c) BY <1>3, <2>3, <2>6, <1>1 DEF Starts
 <2> QED BY <1>1, <2>1, <2>7
<1>9. ASSUME op \in Targeted
      PROVE  /\ c[a].arg \in Starts(c) /\ c[a].arg \in DOMAIN G.at /\ G.at[c[a].arg] \in Layouts
             /\ Ahead(op, a, s, G.at[c[a].arg])
  BY <1>2, <1>9, <1>1, <1>4 DEF Charts, Starts, Runs
<1>10. op \notin Ends => /\ a + width(op) \in Starts(c) /\ a + width(op) \in DOMAIN G.at
                         /\ G.at[a + width(op)] \in Layouts
                         /\ Behind(op, c[a].arg, a, s, G.at[a + width(op)])
  BY <1>8
<1>11. op \in Targeted => /\ c[a].arg \in Starts(c) /\ c[a].arg \in DOMAIN G.at
                          /\ G.at[c[a].arg] \in Layouts
                          /\ Ahead(op, a, s, G.at[c[a].arg])
  BY <1>9
<1> HIDE DEF op, s
<1>12. /\ a \in Nat \ {0} /\ a \in 1..Len(c) /\ op \in Emitted /\ op \in Ops /\ c[a].arg \in Nat
       /\ width(op) \in 1..2 /\ a + width(op) \in Nat \ {0}
       /\ s \in Layouts /\ a \in DOMAIN G.at /\ takes(op) <= Len(s.stack)
       /\ op = "UnwindTo" => c[a].arg <= s.scope
       /\ Spares(G, op, s)
  BY <1>2, <1>3, <1>5, <1>6, <1>7
<1> QED BY <1>10, <1>11, <1>12 DEF op, s

LEMMA ChartUnderflows ==
  ASSUME NEW G, NEW c, NEW room, Charts(G, c, room), NEW a \in Starts(c)
  PROVE  ~Underflows(c[a].op, Image(G.at[a]))
<1> DEFINE op == c[a].op
           s == G.at[a]
           t == G.at[a + width(op)]
<1>1. /\ a \in Nat \ {0} /\ op \in Emitted /\ s \in Layouts /\ takes(op) <= Len(s.stack)
      /\ op \notin Ends => t \in Layouts /\ Behind(op, c[a].arg, a, s, t)
  BY ChartedStart
<1>2. /\ Image(s).operands = Len(s.stack) + s.iters /\ Image(s).iters = s.iters
      /\ Image(s).handlers = Len(s.handlers)
  BY <1>1, ImageType
<1>3. Len(s.stack) \in Nat /\ s.iters \in Nat /\ Len(s.handlers) \in Nat BY <1>1, LayoutType
<1> HIDE DEF op, s, t
<1>4. op \in {"IterDrop", "IterNextStore"} => Len(s.stack) >= 1 /\ s.iters >= 1
 <2> SUFFICES ASSUME op \in {"IterDrop", "IterNextStore"} PROVE Len(s.stack) >= 1 /\ s.iters >= 1 OBVIOUS
 <2>1. op \notin Ends BY DEF Ends
 <2>2. Shifts(s, t, -2, -1, 0) BY <1>1, <2>1, BehindShifts
 <2>3. t \in Layouts /\ Len(t.stack) \in Nat /\ t.iters \in Nat BY <1>1, <2>1, LayoutType
 <2>4. Len(t.stack) + t.iters = Len(s.stack) + s.iters + -2 /\ t.iters = s.iters + -1
   BY ONLY <2>2 DEF Shifts
 <2>5. \A x, y, u, v \in Nat : x + y = u + v + -2 /\ y = v + -1 => u >= 1 /\ v >= 1 OBVIOUS
 <2> QED BY ONLY <1>3, <2>3, <2>4, <2>5
<1>5. op = "PopHandler" => Len(s.handlers) > 0 BY <1>1 DEF Ends, Behind
<1>6. op \notin {"IterNext", "SkipIfNotUnit"} BY <1>1 DEF Emitted
<1>7. requires(op) <= Len(s.stack) /\ requires(op) \in Nat
  BY <1>1, <1>3 DEF requires, takes, Branches, Advances
<1>8. ~(Image(s).operands < requires(op)) BY <1>2, <1>3, <1>7
<1>9. ~(op \in Advances /\ Image(s).operands < 2) BY <1>2, <1>3, <1>4, <1>6 DEF Advances
<1>10. ~(op \in Advances \cup {"IterDrop"} /\ Image(s).iters = 0) BY <1>2, <1>3, <1>4, <1>6 DEF Advances
<1>11. ~(op = "PopHandler" /\ Image(s).handlers = 0) BY <1>2, <1>3, <1>5
<1>12. ~Underflows(op, Image(s)) BY <1>8, <1>9, <1>10, <1>11 DEF Underflows
<1> QED BY <1>12 DEF op, s

\* Every edge but the one behind an IterDrop, for which the verifier takes too little.
LEMMA ChartNext ==
  ASSUME NEW G, NEW c, NEW room, Charts(G, c, room), NEW a \in Starts(c), c[a].op \notin Ends, c[a].op # "IterDrop"
  PROVE  AtNext(c[a].op, Image(G.at[a])) = Image(G.at[a + width(c[a].op)])
<1> DEFINE op == c[a].op
           s == G.at[a]
           t == G.at[a + width(op)]
           u == AtNext(op, Image(s))
<1>1. /\ a \in Nat \ {0} /\ op \in Emitted /\ op \in Ops /\ s \in Layouts /\ t \in Layouts
      /\ Behind(op, c[a].arg, a, s, t)
  BY ChartedStart
<1>2. Image(s) \in States /\ ~Underflows(op, Image(s)) BY <1>1, ImageType, ChartUnderflows
<1>3. u \in States BY <1>1, <1>2, StateTypes
<1>4. /\ Image(s).operands = Len(s.stack) + s.iters /\ Image(s).iters = s.iters /\ Image(s).handlers = Len(s.handlers)
      /\ Image(t).operands = Len(t.stack) + t.iters /\ Image(t).iters = t.iters /\ Image(t).handlers = Len(t.handlers)
      /\ Image(t) \in States
  BY <1>1, ImageType
<1>a. (u.operands = Image(t).operands /\ u.iters = Image(t).iters /\ u.handlers = Image(t).handlers) => u = Image(t)
  BY <1>3, <1>4, SameState
<1>5. op \notin Ends /\ op # "IterDrop" OBVIOUS
<1> SUFFICES u = Image(t) OBVIOUS
<1> HIDE DEF op, s, t, u
<1>6. CASE op \in {"Unit", "Push", "Call"}
 <2>1. Shifts(s, t, 1, 0, 0) BY ONLY <1>1, <1>6, BehindShifts
 <2>2. Changed(u, Image(s), 1, 0, 0) BY <1>2, <1>6, Effects DEF u
 <2>3. u.operands = Image(t).operands /\ u.iters = Image(t).iters /\ u.handlers = Image(t).handlers
   BY <1>4, <2>1, <2>2 DEF Shifts, Changed
 <2> QED BY <1>a, <2>3
<1>7. CASE op \in {"Pop", "Declare", "JumpIfFalse", "JumpIfTrue", "BinOp"}
 <2>1. Shifts(s, t, -1, 0, 0) BY ONLY <1>1, <1>7, BehindShifts
 <2>2. Changed(u, Image(s), -1, 0, 0) BY <1>2, <1>7, Effects DEF u
 <2>3. u.operands = Image(t).operands /\ u.iters = Image(t).iters /\ u.handlers = Image(t).handlers
   BY <1>4, <2>1, <2>2 DEF Shifts, Changed
 <2> QED BY <1>a, <2>3
<1>8. CASE op \in {"UnwindTo", "Checkpoint", "Rotate"}
 <2>1. Shifts(s, t, 0, 0, 0) BY ONLY <1>1, <1>8, BehindShifts
 <2>2. Changed(u, Image(s), 0, 0, 0) BY <1>2, <1>8, Effects DEF u
 <2>3. u.operands = Image(t).operands /\ u.iters = Image(t).iters /\ u.handlers = Image(t).handlers
   BY <1>4, <2>1, <2>2 DEF Shifts, Changed
 <2> QED BY <1>a, <2>3
<1>9. CASE op = "PushHandler"
 <2>1. Shifts(s, t, 0, 0, 1) BY ONLY <1>1, <1>9, BehindShifts
 <2>2. Changed(u, Image(s), 0, 0, 1) BY <1>2, <1>9, Effects DEF u
 <2>3. u.operands = Image(t).operands /\ u.iters = Image(t).iters /\ u.handlers = Image(t).handlers
   BY <1>4, <2>1, <2>2 DEF Shifts, Changed
 <2> QED BY <1>a, <2>3
<1>10. CASE op = "PopHandler"
 <2>1. Shifts(s, t, 0, 0, -1) BY ONLY <1>1, <1>10, BehindShifts
 <2>2. Changed(u, Image(s), 0, 0, -1) BY <1>2, <1>10, Effects DEF u
 <2>3. u.operands = Image(t).operands /\ u.iters = Image(t).iters /\ u.handlers = Image(t).handlers
   BY <1>4, <2>1, <2>2 DEF Shifts, Changed
 <2> QED BY <1>a, <2>3
<1>11. CASE op = "IterInit"
 <2>1. Shifts(s, t, 1, 1, 0) BY ONLY <1>1, <1>11, BehindShifts
 <2>2. Changed(u, Image(s), 1, 1, 0) BY <1>2, <1>11, Effects DEF u
 <2>3. u.operands = Image(t).operands /\ u.iters = Image(t).iters /\ u.handlers = Image(t).handlers
   BY <1>4, <2>1, <2>2 DEF Shifts, Changed
 <2> QED BY <1>a, <2>3
<1>12. CASE op = "IterNextStore"
 <2>1. op \in Advances BY <1>12 DEF Advances
 <2>2. Shifts(s, t, -2, -1, 0) BY ONLY <1>1, <1>12, BehindShifts
 <2>3. Changed(u, Image(s), -2, -1, 0) BY <1>2, <2>1, Effects DEF u
 <2>4. u.operands = Image(t).operands /\ u.iters = Image(t).iters /\ u.handlers = Image(t).handlers
   BY <1>4, <2>2, <2>3 DEF Shifts, Changed
 <2> QED BY <1>a, <2>4
<1>13. u = Image(t) BY ONLY <1>1, <1>5, <1>6, <1>7, <1>8, <1>9, <1>10, <1>11, <1>12 DEF Emitted, Ends
<1> QED BY <1>13

LEMMA ChartTarget ==
  ASSUME NEW G, NEW c, NEW room, Charts(G, c, room), NEW a \in Starts(c), c[a].op \in Targeted
  PROVE  AtTarget(c[a].op, Image(G.at[a])) = Image(G.at[c[a].arg])
<1> DEFINE op == c[a].op
           s == G.at[a]
           t == G.at[c[a].arg]
           u == AtTarget(op, Image(s))
<1>1. /\ a \in Nat \ {0} /\ op \in Emitted /\ op \in Ops /\ s \in Layouts /\ t \in Layouts
      /\ Ahead(op, a, s, t)
  BY ChartedStart
<1>2. Image(s) \in States /\ ~Underflows(op, Image(s)) BY <1>1, ImageType, ChartUnderflows
<1>3. u \in States BY <1>1, <1>2, StateTypes
<1>4. /\ Image(s).operands = Len(s.stack) + s.iters /\ Image(s).iters = s.iters /\ Image(s).handlers = Len(s.handlers)
      /\ Image(t).operands = Len(t.stack) + t.iters /\ Image(t).iters = t.iters /\ Image(t).handlers = Len(t.handlers)
      /\ Image(t) \in States
  BY <1>1, ImageType
<1>a. (u.operands = Image(t).operands /\ u.iters = Image(t).iters /\ u.handlers = Image(t).handlers) => u = Image(t)
  BY <1>3, <1>4, SameState
<1>5. op \in {"Jump", "IterNextStore"} \cup {"JumpIfFalse", "JumpIfTrue"} \cup {"PushHandler"}
  BY <1>1, EmittedOps
<1> SUFFICES u = Image(t) OBVIOUS
<1> HIDE DEF op, s, t, u
<1>6. CASE op \in {"Jump", "IterNextStore"}
 <2>1. Shifts(s, t, 0, 0, 0) BY ONLY <1>1, <1>6, AheadShifts
 <2>2. Changed(u, Image(s), 0, 0, 0) BY <1>2, <1>6, Effects DEF u
 <2>3. u.operands = Image(t).operands /\ u.iters = Image(t).iters /\ u.handlers = Image(t).handlers
   BY <1>4, <2>1, <2>2 DEF Shifts, Changed
 <2> QED BY <1>a, <2>3
<1>7. CASE op \in {"JumpIfFalse", "JumpIfTrue"}
 <2>1. op \in Guards BY <1>7 DEF Guards
 <2>2. Shifts(s, t, -1, 0, 0) BY ONLY <1>1, <2>1, AheadShifts
 <2>3. Changed(u, Image(s), -1, 0, 0) BY <1>2, <1>7, Effects DEF u
 <2>4. u.operands = Image(t).operands /\ u.iters = Image(t).iters /\ u.handlers = Image(t).handlers
   BY <1>4, <2>2, <2>3 DEF Shifts, Changed
 <2> QED BY <1>a, <2>4
<1>8. CASE op = "PushHandler"
 <2>1. Shifts(s, t, 0, 0, 1) BY ONLY <1>1, <1>8, AheadShifts
 <2>2. Changed(u, Image(s), 0, 0, 1) BY <1>2, <1>8, Effects DEF u
 <2>3. u.operands = Image(t).operands /\ u.iters = Image(t).iters /\ u.handlers = Image(t).handlers
   BY <1>4, <2>1, <2>2 DEF Shifts, Changed
 <2> QED BY <1>a, <2>3
<1>13. u = Image(t) BY <1>5, <1>6, <1>7, <1>8
<1> QED BY <1>13

\* There is room for what the verifier sees.
LEMMA ChartRoom ==
  ASSUME NEW G, NEW c, NEW room, Charts(G, c, room), NEW a \in Starts(c)
  PROVE  HighWater_last(c[a].op, Image(G.at[a])) \in Nat /\ HighWater_last(c[a].op, Image(G.at[a])) <= G.room
<1> DEFINE op == c[a].op
           s == G.at[a]
           u == After(op, Image(s))
<1>1. op \in Emitted /\ op \in Ops /\ s \in Layouts /\ a \in DOMAIN G.at /\ G.room \in Nat
  BY ChartedStart, ChartedCode
<1>2. Image(s) \in States /\ ~Underflows(op, Image(s)) /\ Image(s).operands \in Nat
  BY <1>1, ImageType, ChartUnderflows
<1>3. u \in States /\ u.operands \in Nat BY <1>1, <1>2, StateTypes DEF States
<1>4. Image(s).operands <= G.room BY <1>1, ChartedCode DEF Image
<1>5. CASE op \in {"Unit", "Push", "Call", "IterInit"}
 <2>1. op \notin Ends /\ op # "IterDrop" /\ op \notin Advances BY <1>5 DEF Ends, Advances
 <2>2. u = AtNext(op, Image(s)) BY <2>1 DEF AtNext
 <2>3. u = Image(G.at[a + width(op)]) /\ a + width(op) \in DOMAIN G.at
   BY <2>1, <2>2, ChartNext, ChartedStart
 <2>4. u.operands <= G.room BY <2>3, ChartedCode DEF Image
 <2>5. u.operands = Image(s).operands + 1 BY <1>2, <1>5 DEF After, pops, pushes, requires, Branches
 <2>6. opcode_temps(op) \in 0..1 BY DEF opcode_temps
 <2> QED BY <1>1, <1>2, <1>3, <1>4, <2>4, <2>5, <2>6 DEF HighWater_last, Larger
<1>6. CASE op \notin {"Unit", "Push", "Call", "IterInit"}
 <2>1. opcode_temps(op) = 0 BY <1>6 DEF opcode_temps
 <2>2. u.operands <= Image(s).operands BY <1>2, <1>6 DEF After, pops, pushes, requires, Branches
 <2> QED BY <1>1, <1>2, <1>3, <1>4, <2>1, <2>2 DEF HighWater_last, Larger
<1> QED BY <1>5, <1>6

(* Where the iterators on the stack come from. *)
On_stack(v, t) == \E j \in 1..Len(t.stack) : t.stack[j] = v
\* What is on the stack of t has been on that of s, or is a value, or has been made at a.
Stems(op, a, s, t) ==
  \A v : On_stack(v, t) => v = 0 \/ On_stack(v, s) \/ (op = "IterInit" /\ v = a)

LEMMA OnPlus ==
  ASSUME NEW r \in Layouts, NEW x \in Nat
  PROVE  /\ Plus(r, x) \in Layouts
         /\ On_stack(x, Plus(r, x))
         /\ \A v : On_stack(v, r) => On_stack(v, Plus(r, x))
         /\ \A v : On_stack(v, Plus(r, x)) => v = x \/ On_stack(v, r)
<1>1. /\ Plus(r, x) \in Layouts /\ Len(Plus(r, x).stack) = Len(r.stack) + 1 /\ Len(r.stack) \in Nat
      /\ Plus(r, x).stack[Len(r.stack) + 1] = x
      /\ \A k \in 1..Len(r.stack) : Plus(r, x).stack[k] = r.stack[k]
  BY PlusType, LayoutType
<1>2. On_stack(x, Plus(r, x)) BY <1>1 DEF On_stack
<1>3. ASSUME NEW v, On_stack(v, r) PROVE On_stack(v, Plus(r, x)) BY <1>1, <1>3 DEF On_stack
<1>4. ASSUME NEW v, On_stack(v, Plus(r, x)) PROVE v = x \/ On_stack(v, r) BY <1>1, <1>4 DEF On_stack
<1> QED BY <1>1, <1>2, <1>3, <1>4

LEMMA OnLooped ==
  ASSUME NEW r \in Layouts, NEW q \in Nat
  PROVE  /\ \A v : On_stack(v, r) => On_stack(v, Looped(r, q))
         /\ \A v : On_stack(v, Looped(r, q)) => v = q \/ On_stack(v, r)
<1>1. /\ Len(Looped(r, q).stack) = Len(r.stack) + 1 /\ Len(r.stack) \in Nat
      /\ Looped(r, q).stack[Len(r.stack) + 1] = q
      /\ \A k \in 1..Len(r.stack) : Looped(r, q).stack[k] = r.stack[k]
  BY LoopedType, LayoutType
<1>3. ASSUME NEW v, On_stack(v, r) PROVE On_stack(v, Looped(r, q)) BY <1>1, <1>3 DEF On_stack
<1>4. ASSUME NEW v, On_stack(v, Looped(r, q)) PROVE v = q \/ On_stack(v, r)
 <2>1. PICK k \in 1..Len(Looped(r, q).stack) : Looped(r, q).stack[k] = v BY <1>4 DEF On_stack
 <2>2. CASE k = Len(r.stack) + 1 BY <1>1, <2>1, <2>2
 <2>3. CASE k # Len(r.stack) + 1
  <3>1. k \in 1..Len(r.stack) BY <1>1, <2>3
  <3>2. r.stack[k] = v BY <1>1, <2>1, <3>1
  <3> QED BY <3>1, <3>2 DEF On_stack
 <2> QED BY <2>2, <2>3
<1> QED BY <1>3, <1>4

LEMMA SameStems ==
  ASSUME NEW op, NEW a, NEW s, NEW t, t.stack = s.stack
  PROVE  Stems(op, a, s, t)
  BY DEF Stems, On_stack

LEMMA BehindStems ==
  ASSUME NEW op \in Emitted, op \notin Ends, NEW arg, NEW a \in Nat \ {0}, NEW s \in Layouts, NEW t \in Layouts,
         Behind(op, arg, a, s, t)
  PROVE  Stems(op, a, s, t)
<1>1. CASE op \in {"Unit", "Push", "Call"} BY <1>1, OnPlus DEF Behind, Stems
<1>2. CASE op \in {"Pop", "JumpIfFalse", "JumpIfTrue"}
 <2>1. PICK x \in Nat : s = Plus(t, x) BY <1>2 DEF Behind, Guards
 <2> QED BY <2>1, OnPlus DEF Stems
<1>3. CASE op = "BinOp"
 <2>1. PICK r \in Layouts, x \in Nat, y \in Nat : s = Plus(Plus(r, x), y) /\ t = Plus(r, 0)
   BY <1>3 DEF Behind
 <2>0. Plus(r, x) \in Layouts BY <2>1, PlusType
 <2>2. \A v : On_stack(v, Plus(r, x)) => On_stack(v, s) BY <2>0, <2>1, OnPlus
 <2>3. \A v : On_stack(v, r) => On_stack(v, Plus(r, x)) BY <2>1, OnPlus
 <2>4. \A v : On_stack(v, t) => v = 0 \/ On_stack(v, r) BY <2>1, OnPlus
 <2> QED BY <2>2, <2>3, <2>4 DEF Stems
<1>4. CASE op = "Declare"
 <2>1. PICK r \in Layouts, x \in Nat : s = Plus(r, x) /\ t = Scoped(r, r.scope + 1) BY <1>4 DEF Behind
 <2>2. \A v : On_stack(v, r) => On_stack(v, s) BY <2>1, OnPlus
 <2>3. t.stack = r.stack BY <2>1, LayoutParts
 <2> QED BY <2>2, <2>3 DEF Stems, On_stack
<1>5. CASE op \in {"UnwindTo", "Checkpoint", "PushHandler", "PopHandler"}
 <2>0. Len(s.handlers) \in Nat BY LayoutType
 <2>1. \/ t = s \/ t = Scoped(s, arg) \/ t = Arming(s, a)
       \/ Len(s.handlers) > 0 /\ t = Disarmed(s, Len(s.handlers) - 1)
   BY <1>5 DEF Behind
 <2>2. t.stack = s.stack
  <3>1. CASE t = s \/ t = Scoped(s, arg) BY <3>1, LayoutParts
  <3>2. CASE t = Arming(s, a) BY <3>2, ArmingType
  <3>3. CASE Len(s.handlers) > 0 /\ t = Disarmed(s, Len(s.handlers) - 1) BY <3>3, LayoutParts
  <3> QED BY <2>1, <3>1, <3>2, <3>3
 <2> QED BY <2>2, SameStems
<1>6. CASE op = "Rotate"
 <2>1. PICK r \in Layouts, x \in Nat, y \in Nat : s = Plus(Plus(r, x), y) /\ t = Plus(Plus(r, y), x)
   BY <1>6 DEF Behind
 <2>0. Plus(r, x) \in Layouts /\ Plus(r, y) \in Layouts BY <2>1, PlusType
 <2>2. (\A v : On_stack(v, Plus(r, x)) => On_stack(v, s)) /\ On_stack(y, s) BY <2>0, <2>1, OnPlus
 <2>3. (\A v : On_stack(v, r) => On_stack(v, Plus(r, x))) /\ On_stack(x, Plus(r, x)) BY <2>1, OnPlus
 <2>4. \A v : On_stack(v, t) => v = x \/ On_stack(v, Plus(r, y)) BY <2>0, <2>1, OnPlus
 <2>5. \A v : On_stack(v, Plus(r, y)) => v = y \/ On_stack(v, r) BY <2>1, OnPlus
 <2> QED BY <2>2, <2>3, <2>4, <2>5 DEF Stems
<1>7. CASE op = "IterInit"
 <2>1. PICK r \in Layouts, x \in Nat : s = Plus(r, x) /\ t = Looped(r, a) BY <1>7 DEF Behind
 <2>2. \A v : On_stack(v, r) => On_stack(v, s) BY <2>1, OnPlus
 <2>3. \A v : On_stack(v, t) => v = a \/ On_stack(v, r) BY <2>1, OnLooped
 <2> QED BY <1>7, <2>2, <2>3 DEF Stems
<1>8. CASE op \in {"IterDrop", "IterNextStore"}
 <2>1. PICK q \in Nat \ {0} : s = Looped(t, q) BY <1>8 DEF Behind
 <2>2. \A v : On_stack(v, t) => On_stack(v, s) BY <2>1, OnLooped
 <2> QED BY <2>2 DEF Stems
<1> QED BY <1>1, <1>2, <1>3, <1>4, <1>5, <1>6, <1>7, <1>8 DEF Emitted, Ends

LEMMA AheadStems ==
  ASSUME NEW op \in Emitted \cap Targeted, NEW a \in Nat \ {0}, NEW s \in Layouts, NEW t \in Layouts, Ahead(op, a, s, t)
  PROVE  Stems(op, a, s, t)
<1>1. CASE op \in {"Jump", "IterNextStore"} BY <1>1, SameStems DEF Ahead
<1>2. CASE op \in {"JumpIfFalse", "JumpIfTrue"}
 <2>1. PICK x \in Nat : s = Plus(t, x) BY <1>2 DEF Ahead, Guards
 <2> QED BY <2>1, OnPlus DEF Stems
<1>3. CASE op = "PushHandler" BY <1>3, CatchingType, SameStems DEF Ahead
<1> QED BY <1>1, <1>2, <1>3, EmittedOps

(* What the verifier has found of compiled code. *)
\* The iterators that are on the stack at x, unless they have just been made, have come round.
Rooted(G, lab, x) ==
  \A q : (On_stack(q, G.at[x]) /\ q # 0 /\ x \notin {q + 1, q + 2, q + 3}) => q + 3 \in DOMAIN lab
\* It has seen nothing but the layouts.
Walked(G, lab, todo, high) ==
  /\ \A x \in DOMAIN lab : /\ x \in Starts(G.code) /\ lab[x] = Image(G.at[x])
                           /\ G.code[x].op # "IterDrop" /\ Rooted(G, lab, x)
  /\ \A i \in 1..Len(todo) : /\ todo[i].at \in Starts(G.code) /\ todo[i].state = Image(G.at[todo[i].at])
                             /\ Rooted(G, lab, todo[i].at)
  /\ high \in Nat /\ high <= G.room
\* It has seen a break out of a `for`, and the `for`.
Doomed(G, lab) ==
  \E p \in DOMAIN lab, a \in Nat :
    /\ p \in 1..Len(G.code) /\ G.code[p].op = "IterDrop"
    /\ p + 3 <= Len(G.code) /\ G.code[p + 1].op = "UnwindTo" /\ G.code[p + 2].op = "Jump"
    /\ Escapes(G, p, a)
    /\ lab[p] = Image(G.at[p])
    /\ a + 3 \in DOMAIN lab /\ lab[a + 3] = Image(G.at[a + 3])

\* The iterators on the stack are those of a `for`.
LEMMA ChartFor ==
  ASSUME NEW G, NEW c, NEW room, Charts(G, c, room), NEW a \in Starts(c), NEW q, On_stack(q, G.at[a]), q # 0
  PROVE  /\ q \in 1..Len(c) /\ q \in Nat \ {0} /\ c[q].op = "IterInit" /\ q + 8 <= Len(c)
         /\ c[q + 1].op = "Unit" /\ c[q + 2].op = "Declare" /\ c[q + 3].op = "IterNextStore"
         /\ c[q + 5].op = "UnwindTo" /\ c[q + 6].op = "Unit" /\ c[q + 7].op = "Jump"
<1>1. Good(G) /\ G.code = c /\ a \in DOMAIN G.at /\ Len(c) \in Nat BY ChartedCode, ChartedStart
<1>2. LayoutOK(G, G.at[a]) BY <1>1 DEF Good
<1>3. q \in 1..Len(c) /\ c[q].op = "IterInit" BY <1>1, <1>2 DEF LayoutOK, On_stack
<1>4. ForShape(G, q) BY <1>3 DEF Charts
<1> QED BY <1>1, <1>3, <1>4 DEF ForShape

\* The edges of an instruction agree with the chart.
Onto(G, c, a, x) ==
  /\ x.at \in Starts(c) /\ x.state = Image(G.at[x.at])
  /\ Stems(c[a].op, a, G.at[a], G.at[x.at])
  /\ x.at = a + 1 \/ c[a].op \in Targeted

LEMMA ChartEdges ==
  ASSUME NEW G, NEW room, Charts(G, code, room), NEW a \in Starts(code), code[a].op # "IterDrop",
         NEW i \in 1..Len(Edges(a, Image(G.at[a])))
  PROVE  Onto(G, code, a, Edges(a, Image(G.at[a]))[i])
<1> DEFINE es == Edges(a, Image(G.at[a]))
<1> SUFFICES /\ es[i].at \in Starts(code) /\ es[i].state = Image(G.at[es[i].at])
             /\ Stems(code[a].op, a, G.at[a], G.at[es[i].at])
             /\ es[i].at = a + 1 \/ code[a].op \in Targeted
  BY DEF Onto
<1> DEFINE op == code[a].op
           n == Edge(a + width(op), AtNext(op, Image(G.at[a])))
           t == Edge(code[a].arg, AtTarget(op, Image(G.at[a])))
<1>1. \/ op \notin Ends /\ es[i] = n
      \/ op \in Targeted /\ es[i] = t
  BY EdgesOf
<1>2. /\ a \in Nat \ {0} /\ op \in Emitted /\ op \in Ops
      /\ G.at[a] \in Layouts
      /\ op \notin Ends => /\ a + width(op) \in Starts(code)
                           /\ G.at[a + width(op)] \in Layouts
                           /\ Behind(op, code[a].arg, a, G.at[a], G.at[a + width(op)])
      /\ op \in Targeted => /\ code[a].arg \in Starts(code)
                            /\ G.at[code[a].arg] \in Layouts
                            /\ Ahead(op, a, G.at[a], G.at[code[a].arg])
  BY ChartedStart
<1>3. CASE op \notin Ends /\ es[i] = n BY <1>3, ChartNext, <1>2, BehindStems DEF Edge, width
<1>4. CASE op \in Targeted /\ es[i] = t BY <1>4, ChartTarget, <1>2, AheadStems DEF Edge
<1> QED BY <1>1, <1>3, <1>4

\* The iterators that are there behind an instruction have come round, too.
LEMMA RootsGo ==
  ASSUME NEW G, NEW c, NEW room, Charts(G, c, room), NEW a \in Starts(c), NEW x, Onto(G, c, a, x), NEW lab, NEW lab2,
         Rooted(G, lab, a), \A z \in DOMAIN lab : z \in DOMAIN lab2, a \in DOMAIN lab2
  PROVE  Rooted(G, lab2, x.at)
<1> DEFINE y == x.at
<1>0. Stems(c[a].op, a, G.at[a], G.at[y]) /\ (y = a + 1 \/ c[a].op \in Targeted) BY DEF Onto
<1> HIDE DEF y
<1> SUFFICES Rooted(G, lab2, y) BY DEF y
<1> SUFFICES ASSUME NEW q, On_stack(q, G.at[y]), q # 0, y \notin {q + 1, q + 2, q + 3}
             PROVE  q + 3 \in DOMAIN lab2
  BY DEF Rooted
<1>1. a \in Nat \ {0} BY ChartedStart
<1>2. On_stack(q, G.at[a]) \/ (c[a].op = "IterInit" /\ q = a) BY <1>0 DEF Stems
<1>3. "IterInit" \notin Targeted /\ "Unit" \notin Targeted /\ "Declare" \notin Targeted
  BY DEF Targeted, Branches, Advances
<1>4. On_stack(q, G.at[a]) BY <1>0, <1>2, <1>3
<1>5. /\ q \in Nat \ {0} /\ c[q + 1].op = "Unit" /\ c[q + 2].op = "Declare" BY <1>4, ChartFor
<1>6. a # q + 1 /\ a # q + 2 BY <1>0, <1>1, <1>3, <1>5
<1>7. CASE a = q + 3 BY <1>7
<1>8. CASE a # q + 3 BY <1>4, <1>6, <1>8 DEF Rooted
<1> QED BY <1>7, <1>8

(* One turn of the walk over a chart. *)
LEMMA RootedGrows ==
  ASSUME NEW G, NEW x, NEW lab, NEW lab2, Rooted(G, lab, x), \A z \in DOMAIN lab : z \in DOMAIN lab2
  PROVE  Rooted(G, lab2, x)
  BY DEF Rooted

LEMMA DoomedGrows ==
  ASSUME NEW G, NEW lab, NEW lab2, Doomed(G, lab), \A z \in DOMAIN lab : z \in DOMAIN lab2 /\ lab2[z] = lab[z]
  PROVE  Doomed(G, lab2)
<1>1. PICK p \in DOMAIN lab, a \in Nat :
        /\ p \in 1..Len(G.code) /\ G.code[p].op = "IterDrop"
        /\ p + 3 <= Len(G.code) /\ G.code[p + 1].op = "UnwindTo" /\ G.code[p + 2].op = "Jump"
        /\ Escapes(G, p, a)
        /\ lab[p] = Image(G.at[p])
        /\ a + 3 \in DOMAIN lab /\ lab[a + 3] = Image(G.at[a + 3])
  BY DEF Doomed
<1>2. p \in DOMAIN lab2 /\ lab2[p] = lab[p] /\ a + 3 \in DOMAIN lab2 /\ lab2[a + 3] = lab[a + 3] BY <1>1
<1> QED BY <1>1, <1>2 DEF Doomed

\* The edges that are still to be walked after a visit.
LEMMA VisitEdges ==
  ASSUME CodeOK(code), WalkOK, visit
  PROVE  /\ Top_of_work.at \in Starts(code) /\ Top_of_work.at \notin DOMAIN label
         /\ \A x \in DOMAIN label : x \in DOMAIN label' /\ label'[x] = label[x]
         /\ DOMAIN label' = DOMAIN label \cup {Top_of_work.at} /\ label'[Top_of_work.at] = Top_of_work.state
         /\ \A i \in 1..Len(work') :
              \/ i \in 1..Len(work) /\ work'[i] = work[i]
              \/ \E j \in 1..Len(Edges(Top_of_work.at, Top_of_work.state)) :
                   work'[i] = Edges(Top_of_work.at, Top_of_work.state)[j]
         /\ high_water' = Larger(high_water, HighWater_last(code[Top_of_work.at].op, Top_of_work.state))
         /\ \E i \in 1..Len(work) : Top_of_work = work[i]
<1> DEFINE e == Top_of_work
           es == Edges(e.at, e.state)
           op == code[e.at].op
<1>1. /\ work # <<>> /\ ~Refused(e) /\ e.at \notin DOMAIN label
      /\ label' = [a \in DOMAIN label \cup {e.at} |-> IF a = e.at THEN e.state ELSE label[a]]
      /\ work' = Rest_of_work \o es
      /\ high_water' = HighWater(op, e.state)
      /\ code' = code
  BY DEF visit, chunk
<1>2. /\ Len(work) \in Nat \ {0} /\ e = work[Len(work)]
      /\ e.state \in States /\ e.at \in Nat \ {0} /\ EdgeOK(e)
      /\ Rest_of_work \in Seq([at : Nat, state : States])
      /\ Len(Rest_of_work) = Len(work) - 1
      /\ \A i \in 1..(Len(work) - 1) : Rest_of_work[i] = work[i]
  BY <1>1, TopOfWork
<1>3. Len(code) \in Nat /\ e.at <= Len(code) BY <1>1, <1>2 DEF Refused, CodeOK
<1>4. IsStart(e.at) /\ ~Underflows(op, e.state) /\ ~BadTarget(e.at)
  BY <1>2, <1>3, <1>1 DEF EdgeOK, IsStart, Refused, NotRunnable
<1>5. op \in Ops /\ e.at + width(op) \in Nat \ {0} BY <1>4, StartFacts
<1>6. AtNext(op, e.state) \in States /\ AtTarget(op, e.state) \in States BY <1>2, <1>4, <1>5, StateTypes
<1> DEFINE n == Edge(e.at + width(op), AtNext(op, e.state))
           t == Edge(code[e.at].arg, AtTarget(op, e.state))
           S == [at : Nat, state : States]
<1>8. op \in Targeted => IsStart(code[e.at].arg) /\ code[e.at].arg \in Nat \ {0}
  BY <1>4, <1>3 DEF BadTarget, IsStart
<1>9. n \in S /\ (op \in Targeted => t \in S) BY <1>5, <1>6, <1>8 DEF Edge
<1>10. es \in Seq(S) /\ Len(es) \in Nat BY <1>9, EdgesOf
<1>11. e.at \in Starts(code) BY <1>4 DEF IsStart, Starts
<1>12. high_water' = Larger(high_water, HighWater_last(op, e.state))
  BY <1>1 DEF HighWater, HighWater_last
<1> HIDE DEF e, es, op, n, t, S
<1>13. \A i \in 1..Len(work') : (i \in 1..Len(work) /\ work'[i] = work[i]) \/ \E j \in 1..Len(es) : work'[i] = es[j]
 <2> DEFINE r == Rest_of_work
 <2>1. r \in Seq(S) /\ es \in Seq(S) /\ Len(r) = Len(work) - 1 /\ Len(work) - 1 \in Nat
   BY <1>2, <1>10 DEF S
 <2>2. \A i \in 1..(Len(work) - 1) : r[i] = work[i] BY <1>2
 <2>0. work' = r \o es BY <1>1
 <2> HIDE DEF r
 <2>3. /\ Len(r \o es) = Len(r) + Len(es)
       /\ \A i \in 1..Len(r) : (r \o es)[i] = r[i]
       /\ \A i \in (Len(r) + 1)..(Len(r) + Len(es)) : (r \o es)[i] = es[i - Len(r)]
   BY <2>1, ConcatFacts
 <2> SUFFICES ASSUME NEW i \in 1..Len(work')
              PROVE  (i \in 1..Len(work) /\ work'[i] = work[i]) \/ \E j \in 1..Len(es) : work'[i] = es[j]
   OBVIOUS
 <2>4. CASE i <= Len(r) BY <2>0, <2>1, <2>2, <2>3, <2>4
 <2>5. CASE i > Len(r) BY <1>10, <2>0, <2>1, <2>3, <2>5
 <2> QED BY <2>1, <2>4, <2>5
<1>14. /\ \A x \in DOMAIN label : x \in DOMAIN label' /\ label'[x] = label[x]
       /\ DOMAIN label' = DOMAIN label \cup {e.at} /\ label'[e.at] = e.state
  BY <1>1
<1>15. \E i \in 1..Len(work) : e = work[i] BY <1>2
<1>16. e.at \notin DOMAIN label BY <1>1
<1> QED BY <1>11, <1>12, <1>13, <1>14, <1>15, <1>16 DEF e, es, op

LEMMA VisitWalked ==
  ASSUME CodeOK(code), WalkOK, visit, NEW G, NEW room, Charts(G, code, room), Walked(G, label, work, high_water)
  PROVE  Walked(G, label', work', high_water') \/ Doomed(G, label')
<1> DEFINE e == Top_of_work
           a == e.at
           es == Edges(e.at, e.state)
           op == code[a].op
<1>1. /\ a \in Starts(code) /\ a \notin DOMAIN label
      /\ \A x \in DOMAIN label : x \in DOMAIN label' /\ label'[x] = label[x]
      /\ DOMAIN label' = DOMAIN label \cup {a} /\ label'[a] = e.state
  BY VisitEdges
<1>2. /\ \A i \in 1..Len(work') : (i \in 1..Len(work) /\ work'[i] = work[i]) \/ \E j \in 1..Len(es) : work'[i] = es[j]
      /\ high_water' = Larger(high_water, HighWater_last(op, e.state))
      /\ \E i \in 1..Len(work) : e = work[i]
  BY VisitEdges
<1>3. e.state = Image(G.at[a]) /\ Rooted(G, label, a) BY <1>2 DEF Walked
<1>4. G.code = code /\ G.room \in Nat /\ Len(code) \in Nat BY ChartedCode
<1>5. high_water \in Nat /\ high_water <= G.room BY DEF Walked
<1>6. HighWater_last(op, e.state) \in Nat /\ HighWater_last(op, e.state) <= G.room
  BY <1>1, <1>3, ChartRoom
<1>7. high_water' \in Nat /\ high_water' <= G.room BY <1>2, <1>4, <1>5, <1>6 DEF Larger
<1>8. \A x \in DOMAIN label : x \in Starts(code) /\ label[x] = Image(G.at[x]) /\ code[x].op # "IterDrop" /\ Rooted(G, label, x)
  BY <1>4 DEF Walked
<1>9. \A i \in 1..Len(work) : work[i].at \in Starts(code) /\ work[i].state = Image(G.at[work[i].at]) /\ Rooted(G, label, work[i].at)
  BY <1>4 DEF Walked
<1>10. CASE op # "IterDrop"
 <2>1. \A x \in DOMAIN label' : x \in Starts(code) /\ label'[x] = Image(G.at[x]) /\ code[x].op # "IterDrop"
   BY <1>1, <1>3, <1>8, <1>10
 <2>2. \A x \in DOMAIN label' : Rooted(G, label', x)
  <3> SUFFICES ASSUME NEW x \in DOMAIN label' PROVE Rooted(G, label', x) OBVIOUS
  <3>1. Rooted(G, label, x) BY <1>1, <1>3, <1>8
  <3> QED BY <1>1, <3>1, RootedGrows
 <2>3. \A i \in 1..Len(work') : work'[i].at \in Starts(code) /\ work'[i].state = Image(G.at[work'[i].at]) /\ Rooted(G, label', work'[i].at)
  <3> SUFFICES ASSUME NEW i \in 1..Len(work')
               PROVE  work'[i].at \in Starts(code) /\ work'[i].state = Image(G.at[work'[i].at]) /\ Rooted(G, label', work'[i].at)
    OBVIOUS
  <3>1. CASE i \in 1..Len(work) /\ work'[i] = work[i] BY <1>1, <1>9, <3>1, RootedGrows
  <3>2. CASE \E j \in 1..Len(es) : work'[i] = es[j]
   <4>1. PICK j \in 1..Len(es) : work'[i] = es[j] BY <3>2
   <4>2. Onto(G, code, a, es[j]) BY <1>1, <1>3, <1>10, <4>1, ChartEdges
   <4> HIDE DEF a, es
   <4>3. Rooted(G, label', es[j].at) BY <1>1, <1>3, <4>2, RootsGo
   <4> QED BY <4>1, <4>2, <4>3 DEF Onto
  <3> QED BY <1>2, <3>1, <3>2
 <2> QED BY <1>4, <1>7, <2>1, <2>2, <2>3 DEF Walked
<1>11. CASE op = "IterDrop"
 <2>1. a \in 1..Len(code) /\ a \in Nat BY <1>1, ChartedStart
 <2>2. a + 3 <= Len(code) /\ code[a + 1].op = "UnwindTo" /\ code[a + 2].op = "Jump"
   BY <1>11, <2>1 DEF Charts
 <2>3. PICK b \in Nat : Escapes(G, a, b) BY <1>11, <2>1 DEF Charts
 <2>4. b \in 1..Len(code) /\ On_stack(b, G.at[a]) /\ b # 0 BY <1>4, <2>3 DEF Escapes, On_stack
 <2>5. code[b + 1].op = "Unit" /\ code[b + 2].op = "Declare" /\ code[b + 3].op = "IterNextStore"
   BY <1>4, <2>3 DEF Escapes, ForShape
 <2>6. a \notin {b + 1, b + 2, b + 3} BY <1>11, <2>5
 <2>7. b + 3 \in DOMAIN label BY <1>3, <2>4, <2>6 DEF Rooted
 <2>8. b + 3 \in DOMAIN label' /\ label'[b + 3] = Image(G.at[b + 3]) /\ a \in DOMAIN label' /\ label'[a] = Image(G.at[a])
   BY <1>1, <1>3, <1>8, <2>7
 <2> HIDE DEF a
 <2> QED BY <1>4, <1>11, <2>1, <2>2, <2>3, <2>8 DEF Doomed
<1> QED BY <1>10, <1>11

LEMMA MergeWalked ==
  ASSUME WalkOK, merge, NEW G, Walked(G, label, work, high_water)
  PROVE  Walked(G, label', work', high_water')
<1>1. work' = Rest_of_work /\ label' = label /\ high_water' = high_water /\ work # <<>> BY DEF merge
<1>2. /\ Len(work) \in Nat \ {0} /\ Len(Rest_of_work) = Len(work) - 1
      /\ \A i \in 1..(Len(work) - 1) : Rest_of_work[i] = work[i]
  BY <1>1, TopOfWork
<1>3. \A i \in 1..Len(work') : i \in 1..Len(work) /\ work'[i] = work[i] BY <1>1, <1>2
<1> QED BY <1>1, <1>3 DEF Walked

\* Nothing but a break out of a `for` is refused.
LEMMA NotRefused ==
  ASSUME CodeOK(code), WalkOK, NEW G, NEW room, Charts(G, code, room), Walked(G, label, work, high_water), work # <<>>
  PROVE  ~Refused(Top_of_work)
<1> DEFINE e == Top_of_work
           a == e.at
<1>1. e = work[Len(work)] /\ Len(work) \in Nat \ {0} BY TopOfWork
<1>2. a \in Starts(code) /\ e.state = Image(G.at[a]) BY <1>1, ChartedCode DEF Walked
<1>3. a \in Nat \ {0} /\ a \in 1..Len(code) /\ (code[a].op \in Targeted => code[a].arg \in Starts(code))
  BY <1>2, ChartedStart
<1>4. ~Underflows(code[a].op, e.state) BY <1>2, ChartUnderflows
<1>5. ~BadTarget(a) BY <1>3 DEF BadTarget, Starts, IsStart
<1>6. a \in DOMAIN label => label[a] = e.state BY <1>2 DEF Walked
<1>7. ~(a > Len(code)) BY <1>3
<1> QED BY <1>4, <1>5, <1>6, <1>7 DEF Refused, NotRunnable

LEMMA WalkStarts ==
  ASSUME NEW G, NEW c, NEW room, Charts(G, c, room)
  PROVE  Walked(G, <<>>, <<Edge(1, Zero)>>, 0)
<1>1. 1 \in Starts(c) /\ G.at[1] = Bottom /\ G.code = c /\ G.room \in Nat BY ChartedCode
<1>2. Image(Bottom) = Zero BY BottomType DEF Image, Zero, Bottom
<1>3. Rooted(G, <<>>, 1) BY <1>1 DEF Rooted, On_stack, Bottom
<1>4. Len(<<Edge(1, Zero)>>) = 1 /\ <<Edge(1, Zero)>>[1].at = 1 /\ <<Edge(1, Zero)>>[1].state = Zero
  BY DEF Edge
<1>5. DOMAIN <<>> = {} OBVIOUS
<1> QED BY <1>1, <1>2, <1>3, <1>4, <1>5 DEF Walked

(* A break out of a `for` is refused, whatever way the verifier goes. *)
\* The edges of a walk that is over.
LEMMA WalkedLabels ==
  ASSUME CodeOK(code), WalkOK, work = <<>>, NEW a \in DOMAIN label
  PROVE  /\ label[a] \in States
         /\ code[a].op \notin Ends =>
              /\ a + width(code[a].op) \in DOMAIN label
              /\ label[a + width(code[a].op)] = AtNext(code[a].op, label[a])
         /\ code[a].op \in Targeted =>
              /\ code[a].arg \in DOMAIN label
              /\ label[code[a].arg] = AtTarget(code[a].op, label[a])
<1>1. LabelOK(a) BY DEF WalkOK
<1>2. \A e : ~Pending(e) BY DEF Pending
<1>3. code[a].op \notin Ends => Taken(NextOf(a)) BY <1>1 DEF LabelOK
<1>4. code[a].op \in Targeted => Taken(TargetOf(a)) BY <1>1 DEF LabelOK
<1> QED BY <1>1, <1>2, <1>3, <1>4 DEF LabelOK, Taken, NextOf, TargetOf, Edge

LEMMA DoomedEnds ==
  ASSUME CodeOK(code), WalkOK, work = <<>>, NEW G, NEW room, Charts(G, code, room), Doomed(G, label)
  PROVE  FALSE
<1>0. G.code = code BY DEF Charts
<1>1. PICK p \in DOMAIN label, a \in Nat :
        /\ p \in 1..Len(code) /\ code[p].op = "IterDrop"
        /\ p + 3 <= Len(code) /\ code[p + 1].op = "UnwindTo" /\ code[p + 2].op = "Jump"
        /\ Escapes(G, p, a)
        /\ label[p] = Image(G.at[p])
        /\ a + 3 \in DOMAIN label /\ label[a + 3] = Image(G.at[a + 3])
  BY <1>0 DEF Doomed
<1>2. /\ a \in 1..Len(code) /\ a \in Nat /\ code[a].op = "IterInit" /\ ForShape(G, a)
      /\ Len(G.at[p].stack) = Len(G.at[a + 3].stack) + 1 /\ G.at[p].iters = G.at[a + 3].iters
      /\ code[p + 2].arg = code[a + 7].arg
  BY <1>0, <1>1 DEF Escapes
<1>3. /\ code[a + 3].op = "IterNextStore" /\ code[a + 5].op = "UnwindTo" /\ code[a + 6].op = "Unit"
      /\ code[a + 7].op = "Jump"
  BY <1>0, <1>2 DEF ForShape
<1>4. /\ width("IterNextStore") = 2 /\ width("IterDrop") = 1 /\ width("UnwindTo") = 1 /\ width("Unit") = 1
      /\ {"IterNextStore", "IterDrop", "UnwindTo", "Unit"} \cap Ends = {}
      /\ "Jump" \in Targeted /\ "IterNextStore" \in Advances
  BY DEF width, Targeted, Advances, Branches, Ends
<1>5. p \in Nat BY <1>1
\* The way of the break.
<1>6. /\ p + 1 \in DOMAIN label /\ label[p + 1] = AtNext("IterDrop", label[p]) /\ label[p] \in States
  BY <1>1, <1>4, WalkedLabels
<1>7. /\ p + 2 \in DOMAIN label /\ label[p + 2] = AtNext("UnwindTo", label[p + 1]) /\ label[p + 1] \in States
  BY <1>5, <1>1, <1>4, <1>6, WalkedLabels
<1>8. label[code[p + 2].arg] = AtTarget("Jump", label[p + 2]) /\ label[p + 2] \in States
  BY <1>1, <1>4, <1>7, WalkedLabels
<1>9. label[code[p + 2].arg].operands = label[p].operands - 1
  BY <1>6, <1>7, <1>8, Effects DEF Changed, States
\* The way of the exhausted iterator.
<1>10. /\ a + 5 \in DOMAIN label /\ label[a + 5] = AtNext("IterNextStore", label[a + 3]) /\ label[a + 3] \in States
 <2>1. a + 3 + 2 = a + 5 BY <1>2
 <2>2. /\ label[a + 3] \in States
       /\ a + 3 + width(code[a + 3].op) \in DOMAIN label
       /\ label[a + 3 + width(code[a + 3].op)] = AtNext(code[a + 3].op, label[a + 3])
   BY <1>1, <1>3, <1>4, WalkedLabels
 <2> QED BY <1>3, <1>4, <2>1, <2>2
<1>11. /\ a + 6 \in DOMAIN label /\ label[a + 6] = AtNext("UnwindTo", label[a + 5]) /\ label[a + 5] \in States
 <2>1. a + 5 + 1 = a + 6 BY <1>2
 <2> QED BY <1>3, <1>4, <1>10, <2>1, WalkedLabels
<1>12. /\ a + 7 \in DOMAIN label /\ label[a + 7] = AtNext("Unit", label[a + 6]) /\ label[a + 6] \in States
 <2>1. a + 6 + 1 = a + 7 OBVIOUS
 <2>2. /\ label[a + 6] \in States
       /\ a + 6 + width(code[a + 6].op) \in DOMAIN label
       /\ label[a + 6 + width(code[a + 6].op)] = AtNext(code[a + 6].op, label[a + 6])
   BY <1>3, <1>4, <1>11, WalkedLabels
 <2> QED BY <1>3, <1>4, <2>1, <2>2
<1>13. label[code[a + 7].arg] = AtTarget("Jump", label[a + 7]) /\ label[a + 7] \in States
  BY <1>3, <1>4, <1>12, WalkedLabels
<1>14. label[code[a + 7].arg].operands = label[a + 3].operands - 1
 <2>1. label[a + 5].operands = label[a + 3].operands - 2
  <3>1. Changed(AtNext("IterNextStore", label[a + 3]), label[a + 3], -2, -1, 0) BY <1>4, <1>10, Effects
  <3> QED BY <1>10, <3>1 DEF Changed, States
 <2>2. label[a + 6].operands = label[a + 5].operands BY <1>11, Effects DEF Changed, States
 <2>3. label[a + 7].operands = label[a + 6].operands + 1 BY <1>12, Effects DEF Changed, States
 <2>4. label[code[a + 7].arg].operands = label[a + 7].operands BY <1>13, Effects DEF Changed, States
 <2> QED BY <1>10, <2>1, <2>2, <2>3, <2>4 DEF States
<1>15. G.at[p] \in Layouts /\ G.at[a + 3] \in Layouts
  BY <1>1, ChartedStart DEF WalkOK, LabelOK, IsStart, Starts
<1>16. label[p].operands = Len(G.at[p].stack) + G.at[p].iters BY <1>1, <1>15, ImageType
<1>17. label[a + 3].operands = Len(G.at[a + 3].stack) + G.at[a + 3].iters BY <1>1, <1>15, ImageType
<1>18. /\ Len(G.at[p].stack) \in Nat /\ G.at[p].iters \in Nat
       /\ Len(G.at[a + 3].stack) \in Nat /\ G.at[a + 3].iters \in Nat
  BY <1>15, LayoutType
<1>19. label[code[p + 2].arg] = label[code[a + 7].arg] BY <1>2
<1> DEFINE x == Len(G.at[p].stack)
           i == G.at[p].iters
           y == Len(G.at[a + 3].stack)
           j == G.at[a + 3].iters
           lp == label[p].operands
           la == label[a + 3].operands
           lt == label[code[p + 2].arg].operands
<1>20. x \in Nat /\ i \in Nat /\ y \in Nat /\ j \in Nat /\ x = y + 1 /\ i = j /\ lp = x + i /\ la = y + j
  BY <1>2, <1>16, <1>17, <1>18
<1>21. lt = lp - 1 /\ lt = la - 1 BY <1>9, <1>14, <1>19
<1> HIDE DEF x, i, y, j, lp, la, lt
<1> QED BY <1>20, <1>21

(* The machine on the chart. *)
Kind(x) == IF x = 0 THEN "v" ELSE "i"
\* An operand stack as far as it has not been taken off yet.
Fills(stack, slots) == \A k \in 1..Len(stack) : k \in 1..Len(slots) /\ stack[k] = Kind(slots[k])
\* The frame f is at an instruction, with the layout of which it agrees but for n operands.
Placed(G, f, n) ==
  /\ f.pc \in Starts(code)
  /\ Fills(f.stack, G.at[f.pc].stack)
  /\ Len(f.stack) <= Len(G.at[f.pc].stack)
  /\ Len(G.at[f.pc].stack) <= Len(f.stack) + n
  /\ f.scope = f.base + G.at[f.pc].scope
\* The handler h of the i-th frame is that of the try region r.
Arms(G, h, r, i, base) ==
  /\ h.owner = i /\ h.caught = r.caught /\ h.target = code[r.site].arg
  /\ h.operands = Len(G.at[r.site].stack) /\ h.scope_len = base + G.at[r.site].scope
Guarded(G, i) ==
  /\ Up(i) - frames[i].handler_base = Len(G.at[frames[i].pc].handlers)
  /\ \A n \in 1..Len(G.at[frames[i].pc].handlers) :
       Arms(G, handlers[frames[i].handler_base + n], G.at[frames[i].pc].handlers[n], i, frames[i].base)
\* Each frame unwinds to what it has set itself.
Floors ==
  /\ Len(frames) > 0 => unwind_floor = frames[Len(frames)].mark
  /\ \A i \in 1..Len(frames) : i < Len(frames) => frames[i + 1].outer_floor = frames[i].mark
\* What the arm at hand may have taken.
Lack == IF raised = "none" THEN 0 ELSE takes(This.op)
MachineOK(G) ==
  /\ phase = "run" => Len(frames) > 0
  /\ RunTypes
  /\ fault = "none"
  /\ raised # "system" => ops <= MaxOps
  /\ cut => raised = "system"
  /\ BasesOK
  /\ \A i \in 1..Len(frames) : i < Len(frames) => Placed(G, frames[i], 0) /\ code[frames[i].pc].op = "Call"
  /\ Len(frames) > 0 => Placed(G, Running, Lack)
  /\ ~cut => \A i \in 1..Len(frames) : Guarded(G, i)
  /\ ~cut => Floors
\* The counters after a step.
Tallied ==
  /\ raised' \in {"none", "catchable", "system"}
  /\ ops' \in 0..(MaxOps + 1)
  /\ raised' # "system" => ops' <= MaxOps
  /\ unwind_floor' \in Nat
  /\ host' \in Nat
  /\ fault' = "none"
  /\ cut' \in BOOLEAN
  /\ cut => cut'
  /\ cut' => raised' = "system"

\* The frame that runs.
LEMMA RunningIs ==
  ASSUME NEW G, MachineOK(G), phase = "run"
  PROVE  /\ Len(frames) \in Nat \ {0} /\ Len(frames) \in 1..Len(frames) /\ frames \in Seq(Frames)
         /\ Running \in Frames /\ Running = frames[Len(frames)]
         /\ Running.stack \in Seq({"v", "i"}) /\ Len(Running.stack) \in Nat
         /\ Running.pc \in Nat \ {0}
         /\ Running.handler_base \in Nat /\ Running.scope \in Nat /\ Running.base \in Nat
         /\ Running.outer_floor \in Nat /\ Running.mark \in Nat
         /\ handlers \in Seq(Handlers) /\ Len(handlers) \in Nat
         /\ Running.handler_base <= Len(handlers)
         /\ Placed(G, Running, Lack) /\ Running.pc \in Starts(code)
         /\ ~cut => Guarded(G, Len(frames)) /\ Up(Len(frames)) = Len(handlers)
         /\ ~cut => unwind_floor = Running.mark
<1>1. Len(frames) > 0 /\ frames \in Seq(Frames) /\ handlers \in Seq(Handlers) BY DEF MachineOK, RunTypes
<1>2. Len(frames) \in Nat \ {0} /\ Len(frames) \in 1..Len(frames) BY <1>1
<1>3. Running = frames[Len(frames)] /\ Running \in Frames BY <1>1, <1>2 DEF Running
<1>4. Running.handler_base <= Len(handlers) BY <1>2, <1>3 DEF MachineOK, BasesOK
<1>5. Placed(G, Running, Lack) BY <1>1 DEF MachineOK
<1>6. ~cut => Guarded(G, Len(frames)) BY <1>2 DEF MachineOK
<1>7. Up(Len(frames)) = Len(handlers) BY DEF Up
<1>8. ~cut => unwind_floor = Running.mark BY <1>1, <1>3 DEF MachineOK, Floors
<1>9. /\ Running.stack \in Seq({"v", "i"}) /\ Len(Running.stack) \in Nat
      /\ Running.pc \in Nat \ {0}
      /\ Running.handler_base \in Nat /\ Running.scope \in Nat /\ Running.base \in Nat
      /\ Running.outer_floor \in Nat /\ Running.mark \in Nat
  BY <1>3 DEF Frames
<1> QED BY <1>1, <1>2, <1>3, <1>4, <1>5, <1>6, <1>7, <1>8, <1>9 DEF Placed

\* The running frame is replaced by g; the handlers that it has armed may be others.
LEMMA ReplacedOK ==
  ASSUME NEW G, MachineOK(G), phase = "run", code' = code, phase' = "run",
         NEW g \in Frames, Put(g), g.handler_base = Running.handler_base, g.base = Running.base,
         g.outer_floor = Running.outer_floor,
         handlers' \in Seq(Handlers), Running.handler_base <= Len(handlers'),
         \A j \in 1..Running.handler_base : handlers'[j] = handlers[j],
         Tallied,
         NEW n \in Nat, Placed(G, g, n), n = IF raised' = "none" THEN 0 ELSE takes(code[g.pc].op),
         ~cut' => Len(handlers') - Running.handler_base = Len(G.at[g.pc].handlers),
         ~cut' => \A m \in 1..Len(G.at[g.pc].handlers) :
                   Arms(G, handlers'[Running.handler_base + m], G.at[g.pc].handlers[m], Len(frames), Running.base),
         ~cut' => unwind_floor' = g.mark,
         (~cut' /\ Len(frames) > 1) => g.outer_floor = frames[Len(frames) - 1].mark
  PROVE  MachineOK(G)'
<1> DEFINE k == Len(frames)
<1>1. /\ k \in Nat \ {0} /\ k \in 1..k /\ Running = frames[k] /\ frames \in Seq(Frames)
      /\ Running.handler_base \in Nat /\ Len(handlers') \in Nat
  BY RunningIs
<1>2. /\ frames' \in Seq(Frames) /\ Len(frames') = k
      /\ frames'[k] = g
      /\ \A i \in 1..k : i # k => frames'[i] = frames[i]
  BY <1>1 DEF Put
<1> HIDE DEF k
<1>3. \A i \in 1..k : /\ frames'[i].handler_base = frames[i].handler_base /\ frames[i].handler_base \in Nat
                      /\ frames'[i].base = frames[i].base
 <2>1. \A i \in 1..k : frames[i] \in Frames BY <1>1 DEF k
 <2> QED BY <2>1, <1>1, <1>2 DEF Frames
<1>4. BasesOK' BY <1>1, <1>3, <1>2 DEF MachineOK, BasesOK, k
<1>5. ASSUME NEW i \in 1..k, i # k
      PROVE  /\ Up(i)' = Up(i) /\ Up(i) = frames[i + 1].handler_base /\ Up(i) \in Nat
             /\ Up(i) <= Running.handler_base
 <2>1. i + 1 \in 1..k /\ i + 1 <= k BY <1>1, <1>5
 <2>2. frames'[i + 1].handler_base = frames[i + 1].handler_base BY <2>1, <1>3
 <2>3. frames[i + 1].handler_base <= frames[k].handler_base BY <2>1, <1>1 DEF MachineOK, BasesOK, k
 <2> QED BY <2>1, <2>2, <2>3, <1>1, <1>2, <1>3, <1>5 DEF Up, k
<1>6. ASSUME NEW i \in 1..k, i < k
      PROVE  (Placed(G, frames[i], 0) /\ code[frames[i].pc].op = "Call")'
 <2>1. Placed(G, frames[i], 0) /\ code[frames[i].pc].op = "Call" BY <1>6 DEF MachineOK, k
 <2>2. frames'[i] = frames[i] BY <1>1, <1>2, <1>6
 <2> QED BY <2>1, <2>2 DEF Placed
<1>7. Running' = g BY <1>2 DEF Running
<1>8. Lack' = n BY <1>7 DEF Lack, This
<1>9. Placed(G, Running, Lack)' BY <1>7, <1>8 DEF Placed
<1>10. ASSUME ~cut', NEW i \in 1..k
       PROVE  Guarded(G, i)'
 <2>1. CASE i = k
  <3>1. /\ Up(i)' = Len(handlers') /\ frames'[i].handler_base = Running.handler_base
        /\ frames'[i].pc = g.pc /\ frames'[i].base = Running.base
    BY <2>1, <1>1, <1>2 DEF Up
  <3>2. Up(i)' - frames'[i].handler_base = Len(G.at[frames'[i].pc].handlers) BY <1>10, <3>1
  <3>3. \A m \in 1..Len(G.at[frames'[i].pc].handlers) :
          Arms(G, handlers'[frames'[i].handler_base + m], G.at[frames'[i].pc].handlers[m], i, frames'[i].base)
    BY <1>10, <2>1, <3>1 DEF k
  <3>4. \A m \in 1..Len(G.at[frames'[i].pc].handlers) :
          Arms(G, handlers[frames[i].handler_base + m], G.at[frames[i].pc].handlers[m], i, frames[i].base)'
    BY <3>3 DEF Arms
  <3> QED BY ONLY <3>2, <3>4 DEF Guarded
 <2>2. CASE i # k
  <3>1. Guarded(G, i) BY <1>10 DEF MachineOK, k, Tallied
  <3>2. frames'[i] = frames[i] /\ Up(i)' = Up(i) /\ frames[i].handler_base \in Nat
    BY <2>2, <1>2, <1>3, <1>5
  <3> DEFINE c == Len(G.at[frames[i].pc].handlers)
             b == frames[i].handler_base
  <3>3. Up(i) - b = c /\ b \in Nat /\ Up(i) \in Nat /\ Up(i) <= Running.handler_base
    BY <2>2, <1>5, <3>1, <3>2 DEF Guarded
  <3> HIDE DEF c, b
  <3>4. ASSUME NEW m \in 1..c
        PROVE  handlers'[b + m] = handlers[b + m]
   <4>1. \A x, y, u \in Nat : x - y = c /\ x <= u => \A j \in 1..c : y + j \in 1..u OBVIOUS
   <4>2. b + m \in 1..Running.handler_base BY ONLY <1>1, <3>3, <3>4, <4>1
   <4> QED BY <4>2
  <3>5. \A m \in 1..c : Arms(G, handlers[b + m], G.at[frames[i].pc].handlers[m], i, frames[i].base)
    BY <3>1 DEF Guarded, b, c
  <3>6. \A m \in 1..c : Arms(G, handlers'[b + m], G.at[frames[i].pc].handlers[m], i, frames[i].base)
    BY <3>4, <3>5
  <3>7. Up(i)' - frames'[i].handler_base = Len(G.at[frames'[i].pc].handlers) BY <3>2, <3>3 DEF c, b
  <3>8. \A m \in 1..Len(G.at[frames[i].pc].handlers) :
          Arms(G, handlers'[frames[i].handler_base + m], G.at[frames[i].pc].handlers[m], i, frames[i].base)
    BY <3>6 DEF b, c
  <3>9. \A m \in 1..Len(G.at[frames'[i].pc].handlers) :
          Arms(G, handlers'[frames'[i].handler_base + m], G.at[frames'[i].pc].handlers[m], i, frames'[i].base)
    BY <3>2, <3>8
  <3>10. \A m \in 1..Len(G.at[frames'[i].pc].handlers) :
          Arms(G, handlers[frames[i].handler_base + m], G.at[frames[i].pc].handlers[m], i, frames[i].base)'
    BY <3>9 DEF Arms
  <3> QED BY <3>7, <3>10 DEF Guarded
 <2> QED BY <2>1, <2>2
<1>11. ASSUME ~cut'
       PROVE  Floors'
 <2>0. Floors BY <1>11 DEF MachineOK, Tallied
 <2>1. unwind_floor' = frames'[k].mark BY <1>2, <1>11
 <2>2. ASSUME NEW i \in 1..k, i < k
       PROVE  frames'[i + 1].outer_floor = frames'[i].mark
   BY <1>1, <1>2, <2>2, <1>11, <2>0 DEF k, Floors
 <2> QED BY <1>2, <2>1, <2>2 DEF Floors
<1>12. RunTypes' BY <1>2 DEF RunTypes, Tallied, MachineOK
<1>13. Len(frames') > 0 BY <1>1, <1>2
<1> QED BY <1>1, <1>2, <1>4, <1>6, <1>9, <1>10, <1>11, <1>12, <1>13 DEF MachineOK, Tallied

(* The arms on the chart. *)
Charted(G) == \E room : Charts(G, code, room)
\* An operand stack is all there.
Agrees(stack, slots) == Len(stack) = Len(slots) /\ \A k \in 1..Len(stack) : stack[k] = Kind(slots[k])
\* f is g, but for the stack, the scope and the instruction.
Twin(f, g) ==
  /\ f.handler_base = g.handler_base /\ f.base = g.base /\ f.outer_floor = g.outer_floor /\ f.mark = g.mark

\* What the machine does to a frame.
LEMMA FrameMoves ==
  ASSUME NEW f \in Frames
  PROVE  /\ Len(f.stack) \in Nat /\ f.stack \in Seq({"v", "i"})
         /\ \A x \in {"v", "i"} :
              /\ Pushed(f, x) \in Frames /\ Pushed(f, x).stack = Append(f.stack, x)
              /\ Pushed(f, x).pc = f.pc /\ Pushed(f, x).scope = f.scope /\ Twin(Pushed(f, x), f)
         /\ \A n \in 0..Len(f.stack) :
              /\ Popped(f, n) \in Frames /\ Popped(f, n).stack = SubSeq(f.stack, 1, Len(f.stack) - n)
              /\ Popped(f, n).pc = f.pc /\ Popped(f, n).scope = f.scope /\ Twin(Popped(f, n), f)
<1>1. Len(f.stack) \in Nat /\ f.stack \in Seq({"v", "i"}) BY DEF Frames
<1>2. ASSUME NEW x \in {"v", "i"}
      PROVE  /\ Pushed(f, x) \in Frames /\ Pushed(f, x).stack = Append(f.stack, x)
             /\ Pushed(f, x).pc = f.pc /\ Pushed(f, x).scope = f.scope /\ Twin(Pushed(f, x), f)
 <2>1. Append(f.stack, x) \in Seq({"v", "i"}) BY <1>1
 <2> QED BY <2>1 DEF Pushed, Frames, Twin
<1>3. ASSUME NEW n \in 0..Len(f.stack)
      PROVE  /\ Popped(f, n) \in Frames /\ Popped(f, n).stack = SubSeq(f.stack, 1, Len(f.stack) - n)
             /\ Popped(f, n).pc = f.pc /\ Popped(f, n).scope = f.scope /\ Twin(Popped(f, n), f)
 <2>1. Len(f.stack) - n \in Nat /\ Len(f.stack) - n <= Len(f.stack) BY <1>1
 <2>2. SubSeq(f.stack, 1, Len(f.stack) - n) \in Seq({"v", "i"}) BY <1>1, <2>1, FirstN
 <2> QED BY <2>2 DEF Popped, Frames, Twin
<1> QED BY <1>1, <1>2, <1>3

\* What the stack is when an operand has been put on, or taken off.
LEMMA AgreesMore ==
  ASSUME NEW st \in Seq({"v", "i"}), NEW sl \in Seq(Nat), Agrees(st, sl), NEW x \in Nat
  PROVE  Agrees(Append(st, Kind(x)), Append(sl, x))
BY DEF Agrees

LEMMA AgreesFewer ==
  ASSUME NEW st \in Seq({"v", "i"}), NEW sl \in Seq(Nat), Agrees(st, sl), NEW n \in Nat, n <= Len(st)
  PROVE  /\ Agrees(SubSeq(st, 1, Len(st) - n), SubSeq(sl, 1, Len(sl) - n))
         /\ Fills(SubSeq(st, 1, Len(st) - n), sl) /\ Len(SubSeq(st, 1, Len(st) - n)) = Len(st) - n
<1>1. Len(st) = Len(sl) /\ Len(st) \in Nat BY DEF Agrees
<1> DEFINE m == Len(st) - n
<1>2. m \in Nat /\ m <= Len(st) /\ m = Len(sl) - n BY <1>1
<1> HIDE DEF m
<1>3. Len(SubSeq(st, 1, m)) = m /\ \A i \in 1..m : SubSeq(st, 1, m)[i] = st[i] BY <1>2, FirstN
<1>4. Len(SubSeq(sl, 1, m)) = m /\ \A i \in 1..m : SubSeq(sl, 1, m)[i] = sl[i] BY <1>1, <1>2, FirstN
<1>5. \A i \in 1..m : i \in 1..Len(st) /\ i \in 1..Len(sl) BY <1>1, <1>2
<1>6. Agrees(SubSeq(st, 1, m), SubSeq(sl, 1, m)) BY <1>3, <1>4, <1>5 DEF Agrees
<1>7. Fills(SubSeq(st, 1, m), sl) BY <1>3, <1>5 DEF Agrees, Fills
<1> QED BY <1>2, <1>3, <1>6, <1>7 DEF m

LEMMA AgreesFills ==
  ASSUME NEW st, NEW sl, Agrees(st, sl)
  PROVE  Fills(st, sl) /\ Len(st) = Len(sl)
BY DEF Agrees, Fills

\* A stack with x on top.
LEMMA AgreesTop ==
  ASSUME NEW st \in Seq({"v", "i"}), NEW r \in Layouts, NEW x \in Nat, Agrees(st, Append(r.stack, x))
  PROVE  /\ Len(st) \in Nat \ {0} /\ st[Len(st)] = Kind(x) /\ st # <<>>
         /\ Agrees(SubSeq(st, 1, Len(st) - 1), r.stack)
         /\ Len(r.stack) = Len(st) - 1
<1> DEFINE q == Append(r.stack, x)
           m == Len(r.stack)
<1>1. r.stack \in Seq(Nat) /\ m \in Nat BY LayoutType
<1>2. q \in Seq(Nat) /\ Len(q) = m + 1 /\ q[m + 1] = x /\ \A i \in 1..m : q[i] = r.stack[i] BY <1>1
<1>3. Agrees(st, q) OBVIOUS
<1> HIDE DEF q
<1>4. Len(st) = m + 1 /\ Len(st) \in Nat BY <1>1, <1>2, <1>3 DEF Agrees
<1>5. st[Len(st)] = Kind(x) BY <1>1, <1>2, <1>3, <1>4 DEF Agrees
<1>6. 1 \in Nat /\ 1 <= Len(st) BY <1>1, <1>4
<1>7. Agrees(SubSeq(st, 1, Len(st) - 1), SubSeq(q, 1, Len(q) - 1)) BY <1>2, <1>3, <1>6, AgreesFewer
<1>8. SubSeq(q, 1, m) \in Seq(Nat) /\ Len(SubSeq(q, 1, m)) = m /\ \A i \in 1..m : SubSeq(q, 1, m)[i] = q[i]
  BY <1>1, <1>2, FirstN
<1>9. SubSeq(q, 1, m) = r.stack BY <1>1, <1>2, <1>8, SameSeq
<1>10. Len(q) - 1 = m BY <1>1, <1>2
<1>11. Agrees(SubSeq(st, 1, Len(st) - 1), r.stack) BY <1>7, <1>9, <1>10
<1>12. st # <<>> /\ Len(st) \in Nat \ {0} /\ m = Len(st) - 1 BY <1>1, <1>4
<1> HIDE DEF m
<1> QED BY <1>5, <1>11, <1>12 DEF m

\* The layout of the instruction at hand, of the next one, and of the target.
Lay(G) == G.at[Running.pc]
LayNext(G) == G.at[Running.pc + width(This.op)]
LayAway(G) == G.at[This.arg]

\* The instruction at hand.
LEMMA ChartHere ==
  ASSUME NEW G, Charted(G), MachineOK(G), phase = "run"
  PROVE  /\ Running.pc \in Nat \ {0} /\ This.op \in Emitted /\ This.arg \in Nat
         /\ width(This.op) \in 1..2
         /\ Lay(G) \in Layouts /\ takes(This.op) <= Len(Lay(G).stack) /\ takes(This.op) \in 0..2
         /\ This.op = "UnwindTo" => This.arg <= Lay(G).scope
         /\ Spares(G, This.op, Lay(G))
         /\ This.op \notin Ends => /\ Running.pc + width(This.op) \in Starts(code)
                                   /\ LayNext(G) \in Layouts
                                   /\ Behind(This.op, This.arg, Running.pc, Lay(G), LayNext(G))
         /\ This.op \in Targeted => /\ This.arg \in Starts(code)
                                    /\ LayAway(G) \in Layouts
                                    /\ Ahead(This.op, Running.pc, Lay(G), LayAway(G))
<1>1. PICK room : Charts(G, code, room) BY DEF Charted
<1>2. Running.pc \in Starts(code) BY RunningIs
<1>3. takes(This.op) \in 0..2 BY TakesNat
<1> QED BY <1>1, <1>2, <1>3, ChartedStart DEF This, Lay, LayNext, LayAway

\* Where an arm begins, all operands are there.
LEMMA ChartStack ==
  ASSUME NEW G, Charted(G), MachineOK(G), phase = "run", raised = "none"
  PROVE  /\ Agrees(Running.stack, Lay(G).stack) /\ Len(Running.stack) \in Nat
         /\ Len(Running.stack) = Len(Lay(G).stack)
         /\ Running.stack \in Seq({"v", "i"}) /\ Lay(G).stack \in Seq(Nat)
         /\ Lay(G).scope \in Nat
         /\ Running.scope = Running.base + Lay(G).scope
         /\ ~Underflow
         /\ cut = FALSE /\ unwind_floor = Running.mark
<1>1. Placed(G, Running, Lack) /\ Running.stack \in Seq({"v", "i"}) /\ Len(Running.stack) \in Nat
  BY RunningIs
<1>2. Lack = 0 BY DEF Lack
<1>3. Lay(G) \in Layouts /\ takes(This.op) <= Len(Lay(G).stack) /\ takes(This.op) \in 0..2 BY ChartHere
<1>4. Lay(G).stack \in Seq(Nat) /\ Len(Lay(G).stack) \in Nat /\ Lay(G).scope \in Nat BY <1>3, LayoutType
<1>5. Placed(G, Running, 0) BY <1>1, <1>2
<1>6. /\ Fills(Running.stack, Lay(G).stack) /\ Running.scope = Running.base + Lay(G).scope
      /\ Len(Running.stack) <= Len(Lay(G).stack) /\ Len(Lay(G).stack) <= Len(Running.stack) + 0
  BY <1>5 DEF Placed, Lay
<1>7. Len(Running.stack) = Len(Lay(G).stack) BY <1>1, <1>4, <1>6
<1>8. Agrees(Running.stack, Lay(G).stack) BY <1>6, <1>7 DEF Agrees, Fills
<1>9. ~Underflow BY <1>1, <1>3, <1>7 DEF Underflow
<1>10. cut = FALSE BY DEF MachineOK, RunTypes
<1>11. unwind_floor = Running.mark BY <1>10, RunningIs
<1> QED BY <1>1, <1>4, <1>6, <1>7, <1>8, <1>9, <1>10, <1>11

\* The machine finds nothing malformed.
LEMMA NothingMalformed ==
  ASSUME NEW G, Charted(G), MachineOK(G), malformed
  PROVE  FALSE
<1>1. phase = "run" /\ raised = "none" /\ (Underflow \/ Malformed) BY DEF malformed
<1>2. ~Underflow /\ Agrees(Running.stack, Lay(G).stack) BY <1>1, ChartStack
<1>3. CASE This.op \in Advances \cup {"IterDrop"} /\ ~TopIs("i")
 <2>1. This.op \in {"IterDrop", "IterNextStore"} BY <1>1, <1>3, ChartHere DEF Advances, Emitted
 <2>2. This.op \notin Ends BY <2>1 DEF Ends
 <2>3. LayNext(G) \in Layouts /\ Behind(This.op, This.arg, Running.pc, Lay(G), LayNext(G))
   BY <1>1, <2>2, ChartHere
 <2>4. PICK q \in Nat \ {0} : Lay(G) = Looped(LayNext(G), q) BY <2>1, <2>3 DEF Behind
 <2>5. Agrees(Running.stack, Append(LayNext(G).stack, q)) /\ q \in Nat BY <1>2, <2>3, <2>4, LoopedType
 <2>6. Running.stack \in Seq({"v", "i"}) BY <1>1, ChartStack
 <2>7. Running.stack[Len(Running.stack)] = Kind(q) /\ Running.stack # <<>> BY <2>3, <2>5, <2>6, AgreesTop
 <2> QED BY <1>3, <2>7 DEF Kind, TopIs
<1>4. CASE This.op = "UnwindTo" /\ Running.base + This.arg > Running.scope
 <2>1. This.arg <= Lay(G).scope /\ This.arg \in Nat BY <1>1, <1>4, ChartHere
 <2>2. Running.scope = Running.base + Lay(G).scope /\ Lay(G).scope \in Nat BY <1>1, ChartStack
 <2>3. Running.base \in Nat BY <1>1, RunningIs
 <2> QED BY <1>4, <2>1, <2>2, <2>3
<1> QED BY <1>1, <1>2, <1>3, <1>4 DEF Malformed

\* Counters that an arm leaves alone.
LEMMA SameTallied ==
  ASSUME NEW G, MachineOK(G), UNCHANGED <<unwind_floor, host, fault, cut, ops, raised>>
  PROVE  Tallied
BY DEF MachineOK, RunTypes, Tallied

\* The handlers of the frame that runs.
LEMMA OwnArms ==
  ASSUME NEW G, MachineOK(G), phase = "run", ~cut
  PROVE  /\ Len(handlers) - Running.handler_base = Len(Lay(G).handlers)
         /\ \A m \in 1..Len(Lay(G).handlers) :
              Arms(G, handlers[Running.handler_base + m], Lay(G).handlers[m], Len(frames), Running.base)
         /\ (Len(frames) > 1 => Running.outer_floor = frames[Len(frames) - 1].mark)
<1>1. Guarded(G, Len(frames)) /\ Up(Len(frames)) = Len(handlers) /\ Running = frames[Len(frames)]
      /\ Len(frames) \in Nat \ {0}
  BY RunningIs
<1>2. ASSUME Len(frames) > 1
      PROVE  Running.outer_floor = frames[Len(frames) - 1].mark
  BY <1>1, <1>2 DEF MachineOK, Floors
<1> QED BY <1>1, <1>2 DEF Guarded, Lay

\* The top frame goes elsewhere, with the handlers that it has.
LEMMA MovedThere ==
  ASSUME NEW G, MachineOK(G), phase = "run", code' = code, phase' = "run",
         NEW g \in Frames, Put(g), Twin(g, Running), handlers' = handlers,
         Tallied, unwind_floor' = unwind_floor,
         NEW n \in Nat, Placed(G, g, n), n = IF raised' = "none" THEN 0 ELSE takes(code[g.pc].op),
         G.at[g.pc].handlers = Lay(G).handlers
  PROVE  MachineOK(G)'
BY RunningIs, OwnArms, ReplacedOK DEF Tallied, Twin

\* A frame that has all the operands of its instruction.
LEMMA PlacedAt ==
  ASSUME NEW G, NEW f \in Frames, f.pc \in Starts(code), Agrees(f.stack, G.at[f.pc].stack),
         f.scope = f.base + G.at[f.pc].scope
  PROVE  Placed(G, f, 0)
BY FrameMoves, AgreesFills DEF Placed

\* f is what the arm has made of the running frame, that is still where it was.
Worked(f) == f \in Frames /\ f.pc = Running.pc /\ Twin(f, Running)

LEMMA WorkedNext ==
  ASSUME NEW f, Worked(f), NEW G, Charted(G), MachineOK(G), phase = "run"
  PROVE  /\ Next_pc(f) \in Frames /\ Next_pc(f).pc = Running.pc + width(This.op)
         /\ Next_pc(f).stack = f.stack /\ Next_pc(f).scope = f.scope /\ Twin(Next_pc(f), Running)
         /\ Next_pc(f).base = f.base
BY ChartHere DEF This, Worked, Next_pc, Frames, Twin

\* The arm is done.
LEMMA OnwardOK ==
  ASSUME NEW G, Charted(G), MachineOK(G), phase = "run", raised = "none", code' = code, phase' = "run",
         This.op \notin Ends, NEW f, Worked(f), Put(Next_pc(f)), handlers' = handlers,
         Tallied, unwind_floor' = unwind_floor, raised' = "none",
         Agrees(f.stack, LayNext(G).stack), f.scope = f.base + LayNext(G).scope,
         LayNext(G).handlers = Lay(G).handlers
  PROVE  MachineOK(G)'
<1> DEFINE g == Next_pc(f)
<1>1. /\ g \in Frames /\ g.pc = Running.pc + width(This.op)
      /\ g.stack = f.stack /\ g.scope = f.scope /\ Twin(g, Running) /\ g.base = f.base
  BY WorkedNext
<1>2. Put(g) OBVIOUS
<1>3. g.pc \in Starts(code) /\ G.at[g.pc] = LayNext(G) BY <1>1, ChartHere DEF LayNext
<1> HIDE DEF g
<1>4. Placed(G, g, 0) BY <1>1, <1>3, PlacedAt
<1>5. 0 \in Nat /\ 0 = IF raised' = "none" THEN 0 ELSE takes(code[g.pc].op) OBVIOUS
<1> QED BY <1>1, <1>2, <1>3, <1>4, <1>5, MovedThere

\* What the arm has left when it fails, or cannot go on.
Spent(G, f) ==
  /\ Worked(f) /\ f.scope = Running.scope
  /\ Fills(f.stack, Lay(G).stack) /\ Len(f.stack) <= Len(Lay(G).stack)
  /\ Len(Lay(G).stack) <= Len(f.stack) + takes(This.op)

LEMMA StuckOK ==
  ASSUME NEW G, Charted(G), MachineOK(G), phase = "run", raised = "none", code' = code, phase' = "run",
         NEW f, Spent(G, f), Put(f), handlers' = handlers, Tallied, unwind_floor' = unwind_floor,
         raised' # "none"
  PROVE  MachineOK(G)'
<1>1. f \in Frames /\ Twin(f, Running) /\ f.pc = Running.pc /\ f.scope = Running.scope
  BY DEF Spent, Worked
<1>2. This = code[f.pc] /\ Lay(G) = G.at[f.pc] BY <1>1 DEF This, Lay
<1>3. Running.pc \in Starts(code) BY RunningIs
<1>4. takes(This.op) \in Nat BY TakesNat
<1>5. f.scope = f.base + Lay(G).scope BY <1>1, ChartStack DEF Twin
<1>6. Placed(G, f, takes(This.op)) BY <1>1, <1>2, <1>3, <1>5 DEF Spent, Placed
<1>7. takes(This.op) = IF raised' = "none" THEN 0 ELSE takes(code[f.pc].op) BY <1>2
<1> QED BY <1>1, <1>2, <1>4, <1>6, <1>7, MovedThere

\* The machine takes off no more than the arm may take.
LEMMA SpentPopped ==
  ASSUME NEW G, Charted(G), MachineOK(G), phase = "run", raised = "none", NEW n \in Nat, n <= takes(This.op)
  PROVE  /\ Spent(G, Popped(Running, n)) /\ n \in 0..Len(Running.stack)
         /\ Popped(Running, n).stack = SubSeq(Running.stack, 1, Len(Running.stack) - n)
<1>1. /\ Running.stack \in Seq({"v", "i"}) /\ Len(Running.stack) \in Nat /\ Running \in Frames
      /\ takes(This.op) \in 0..2
  BY RunningIs, TakesNat
<1>2. /\ Agrees(Running.stack, Lay(G).stack) /\ Len(Running.stack) = Len(Lay(G).stack) /\ Lay(G).stack \in Seq(Nat)
      /\ takes(This.op) <= Len(Running.stack)
  BY ChartHere, ChartStack
<1>3. n \in 0..Len(Running.stack) BY <1>1, <1>2
<1>4. LET f == Popped(Running, n)
      IN /\ f \in Frames /\ f.stack = SubSeq(Running.stack, 1, Len(Running.stack) - n)
         /\ f.pc = Running.pc /\ f.scope = Running.scope /\ Twin(f, Running)
  BY <1>1, <1>3, FrameMoves
<1>5. n <= Len(Running.stack) BY <1>1, <1>3
<1>6. /\ Fills(SubSeq(Running.stack, 1, Len(Running.stack) - n), Lay(G).stack)
      /\ Len(SubSeq(Running.stack, 1, Len(Running.stack) - n)) = Len(Running.stack) - n
  BY <1>1, <1>2, <1>5, AgreesFewer
<1>7. /\ Len(Running.stack) - n <= Len(Lay(G).stack)
      /\ Len(Lay(G).stack) <= Len(Running.stack) - n + takes(This.op)
  BY <1>1, <1>2, <1>3
<1> QED BY <1>3, <1>4, <1>6, <1>7 DEF Spent, Worked

LEMMA SpentSelf ==
  ASSUME NEW G, Charted(G), MachineOK(G), phase = "run", raised = "none"
  PROVE  Spent(G, Running) /\ Worked(Running)
<1>1. /\ Running \in Frames /\ Len(Running.stack) \in Nat /\ takes(This.op) \in Nat
  BY RunningIs, TakesNat
<1>2. /\ Agrees(Running.stack, Lay(G).stack) /\ Len(Running.stack) = Len(Lay(G).stack) BY ChartStack
<1>3. Fills(Running.stack, Lay(G).stack) BY <1>2, AgreesFills
<1> QED BY <1>1, <1>2, <1>3 DEF Spent, Worked, Twin

\* An arm fails.
LEMMA RaisedOK ==
  ASSUME NEW G, Charted(G), MachineOK(G), phase = "run", raised = "none", code' = code,
         NEW f, Spent(G, f), Raise(f, "catchable")
  PROVE  MachineOK(G)'
BY StuckOK DEF Raise, MachineOK, RunTypes, Tallied

\* An arm jumps, if that can be paid for.
LEMMA JumpedOK ==
  ASSUME NEW G, Charted(G), MachineOK(G), phase = "run", raised = "none", code' = code,
         This.op \in Targeted, NEW f, Spent(G, f), transfer(f, This.arg),
         Agrees(f.stack, LayAway(G).stack), LayAway(G).scope = Lay(G).scope,
         LayAway(G).handlers = Lay(G).handlers
  PROVE  MachineOK(G)'
<1>1. /\ phase' = "run" /\ handlers' = handlers /\ unwind_floor' = unwind_floor
      /\ UNCHANGED <<host, fault, cut>>
  BY DEF transfer
<1>2. ops \in Nat /\ MaxOps \in Nat /\ ops <= MaxOps BY GrainAssumption DEF MachineOK, RunTypes
<1>3. CASE Backward(f, This.arg) /\ Unpaid
  BY <1>3, <1>1, <1>2, StuckOK DEF transfer, MachineOK, RunTypes, Tallied
<1>4. CASE ~(Backward(f, This.arg) /\ Unpaid)
 <2> DEFINE g == [f EXCEPT !.pc = This.arg]
 <2>1. Put(g) /\ raised' = "none" /\ ops' \in {ops, ops + 1} /\ (ops' = ops + 1 => ~Unpaid)
   BY <1>4, <1>2 DEF transfer
 <2>2. Tallied BY <1>2, <2>1, <1>1 DEF Unpaid, MachineOK, RunTypes, Tallied
 <2>3. This.arg \in Starts(code) /\ This.arg \in Nat \ {0} /\ LayAway(G) \in Layouts
   BY ChartHere DEF Starts
 <2>4. g \in Frames /\ g.pc = This.arg /\ g.stack = f.stack /\ g.scope = f.scope /\ Twin(g, Running) /\ g.base = f.base
   BY <2>3 DEF Spent, Worked, Frames, Twin
 <2> HIDE DEF g
 <2>5. G.at[g.pc] = LayAway(G) BY <2>4 DEF LayAway
 <2>6. g.scope = g.base + LayAway(G).scope BY <2>4, ChartStack DEF Spent, Twin
 <2>7. Placed(G, g, 0) BY <2>3, <2>4, <2>5, <2>6, PlacedAt
 <2>8. 0 \in Nat /\ 0 = IF raised' = "none" THEN 0 ELSE takes(code[g.pc].op) BY <2>1
 <2>9. G.at[g.pc].handlers = Lay(G).handlers BY <2>5
 <2> QED BY <1>1, <2>1, <2>2, <2>4, <2>7, <2>8, <2>9, MovedThere
<1> QED BY <1>3, <1>4

\* What an arm can rely on.
LEMMA ArmBegins ==
  ASSUME NEW G, Charted(G), MachineOK(G), NEW S, At_op(S)
  PROVE  /\ phase = "run" /\ raised = "none" /\ This.op \in S /\ This.op \in Emitted
         /\ Running \in Frames /\ Running.stack \in Seq({"v", "i"}) /\ Len(Running.stack) \in Nat
         /\ Agrees(Running.stack, Lay(G).stack)
         /\ Running.scope = Running.base + Lay(G).scope /\ Running.base \in Nat
         /\ Lay(G) \in Layouts /\ Lay(G).scope \in Nat
         /\ takes(This.op) <= Len(Running.stack)
         /\ This.op \notin Ends => LayNext(G) \in Layouts /\ Behind(This.op, This.arg, Running.pc, Lay(G), LayNext(G))
         /\ This.op \in Targeted => LayAway(G) \in Layouts /\ Ahead(This.op, Running.pc, Lay(G), LayAway(G))
BY ChartStack, ChartHere, RunningIs DEF At_op

\* The arm moves on with f.
LEMMA DoneWith ==
  ASSUME NEW G, Charted(G), MachineOK(G), phase = "run", raised = "none", code' = code,
         This.op \notin Ends, NEW f, Worked(f), Done(f),
         Agrees(f.stack, LayNext(G).stack), f.scope = f.base + LayNext(G).scope,
         LayNext(G).handlers = Lay(G).handlers
  PROVE  MachineOK(G)'
BY SameTallied, OnwardOK DEF Done

LEMMA PushArm ==
  ASSUME NEW G, Charted(G), MachineOK(G), code' = code, PUSH
  PROVE  MachineOK(G)'
<1>1. At_op({"Unit", "Push"}) /\ Done(Pushed(Running, "v")) BY DEF PUSH
<1>2. This.op \in {"Unit", "Push"} /\ phase = "run" /\ raised = "none" BY <1>1, ArmBegins
<1>3. This.op \notin Ends BY <1>2 DEF Ends
<1>4. LayNext(G) = Plus(Lay(G), 0) BY <1>1, <1>2, <1>3, ArmBegins DEF Behind
<1> DEFINE f == Pushed(Running, "v")
<1>5. /\ f \in Frames /\ f.stack = Append(Running.stack, "v")
      /\ f.pc = Running.pc /\ f.scope = Running.scope /\ Twin(f, Running)
  BY <1>1, ArmBegins, FrameMoves
<1> HIDE DEF f
<1>6. /\ Lay(G) \in Layouts /\ Lay(G).stack \in Seq(Nat) /\ Agrees(Running.stack, Lay(G).stack)
      /\ Running.stack \in Seq({"v", "i"}) /\ 0 \in Nat
  BY <1>1, ArmBegins, LayoutType
<1>7. Agrees(Append(Running.stack, Kind(0)), Append(Lay(G).stack, 0)) BY <1>6, AgreesMore
<1>8. Kind(0) = "v" BY DEF Kind
<1>9. /\ LayNext(G).stack = Append(Lay(G).stack, 0) /\ LayNext(G).scope = Lay(G).scope
      /\ LayNext(G).handlers = Lay(G).handlers
  BY <1>4, <1>6, PlusType
<1>10. Agrees(f.stack, LayNext(G).stack) BY <1>5, <1>7, <1>8, <1>9
<1>11. f.scope = f.base + LayNext(G).scope BY <1>1, <1>5, <1>9, ArmBegins DEF Twin
<1>12. Done(f) BY <1>1 DEF f
<1> QED BY <1>2, <1>3, <1>5, <1>9, <1>10, <1>11, <1>12, DoneWith DEF Worked

\* The running frame without what was on top.
LEMMA TopOff ==
  ASSUME NEW G, Charted(G), MachineOK(G), phase = "run", raised = "none",
         NEW r \in Layouts, NEW x \in Nat, Lay(G).stack = Append(r.stack, x)
  PROVE  LET f == Popped(Running, 1)
         IN /\ f \in Frames /\ f.pc = Running.pc /\ f.scope = Running.scope /\ Twin(f, Running) /\ Worked(f)
            /\ Agrees(f.stack, r.stack) /\ f.stack \in Seq({"v", "i"})
            /\ Running.stack[Len(Running.stack)] = Kind(x) /\ Len(Running.stack) \in Nat \ {0}
            /\ f.base = Running.base
<1>1. /\ Running \in Frames /\ Running.stack \in Seq({"v", "i"}) /\ Len(Running.stack) \in Nat
  BY RunningIs
<1>2. Agrees(Running.stack, Append(r.stack, x)) BY ChartStack
<1>3. /\ Len(Running.stack) \in Nat \ {0} /\ Running.stack[Len(Running.stack)] = Kind(x)
      /\ Agrees(SubSeq(Running.stack, 1, Len(Running.stack) - 1), r.stack)
  BY <1>1, <1>2, AgreesTop
<1>4. 1 \in 0..Len(Running.stack) BY <1>3
<1>5. LET f == Popped(Running, 1)
      IN /\ f \in Frames /\ f.stack = SubSeq(Running.stack, 1, Len(Running.stack) - 1)
         /\ f.pc = Running.pc /\ f.scope = Running.scope /\ Twin(f, Running)
  BY <1>1, <1>4, FrameMoves
<1>6. Popped(Running, 1).stack \in Seq({"v", "i"}) BY <1>5 DEF Frames
<1> QED BY <1>3, <1>5, <1>6 DEF Worked, Twin

LEMMA PopArm ==
  ASSUME NEW G, Charted(G), MachineOK(G), code' = code, POP
  PROVE  MachineOK(G)'
<1>1. At_op({"Pop"}) /\ Done(Popped(Running, 1)) BY DEF POP
<1>2. This.op = "Pop" /\ phase = "run" /\ raised = "none" BY <1>1, ArmBegins
<1>3. This.op \notin Ends BY <1>2 DEF Ends
<1>4. LayNext(G) \in Layouts /\ Behind("Pop", This.arg, Running.pc, Lay(G), LayNext(G))
  BY <1>1, <1>2, <1>3, ArmBegins
<1>5. PICK x \in Nat : Lay(G) = Plus(LayNext(G), x) BY <1>4 DEF Behind
<1>6. /\ Lay(G).stack = Append(LayNext(G).stack, x) /\ Lay(G).scope = LayNext(G).scope
      /\ Lay(G).handlers = LayNext(G).handlers
  BY <1>4, <1>5, PlusType
<1> DEFINE f == Popped(Running, 1)
<1>7. Worked(f) /\ Agrees(f.stack, LayNext(G).stack) /\ f.scope = Running.scope /\ f.base = Running.base
  BY <1>2, <1>4, <1>6, TopOff
<1>8. Done(f) BY <1>1
<1> HIDE DEF f
<1>9. f.scope = f.base + LayNext(G).scope BY <1>2, <1>6, <1>7, ChartStack
<1> QED BY <1>2, <1>3, <1>6, <1>7, <1>8, <1>9, DoneWith

LEMMA DeclareArm ==
  ASSUME NEW G, Charted(G), MachineOK(G), code' = code, DECLARE_LOCAL
  PROVE  MachineOK(G)'
<1>1. At_op({"Declare"}) /\ Done([Popped(Running, 1) EXCEPT !.scope = @ + 1]) BY DEF DECLARE_LOCAL
<1>2. This.op = "Declare" /\ phase = "run" /\ raised = "none" BY <1>1, ArmBegins
<1>3. This.op \notin Ends BY <1>2 DEF Ends
<1>4. LayNext(G) \in Layouts /\ Behind("Declare", This.arg, Running.pc, Lay(G), LayNext(G))
  BY <1>1, <1>2, <1>3, ArmBegins
<1>5. PICK r \in Layouts, x \in Nat : Lay(G) = Plus(r, x) /\ LayNext(G) = Scoped(r, r.scope + 1)
  BY <1>4 DEF Behind
<1>6. r.scope \in Nat /\ r.scope + 1 \in Nat BY LayoutType
<1>7. /\ Lay(G).stack = Append(r.stack, x) /\ Lay(G).scope = r.scope /\ Lay(G).handlers = r.handlers
  BY <1>5, PlusType
<1>8. LayNext(G).stack = r.stack /\ LayNext(G).scope = r.scope + 1 /\ LayNext(G).handlers = r.handlers
 <2> DEFINE n == r.scope + 1
 <2>1. n \in Nat /\ LayNext(G) = Scoped(r, n) BY <1>5, <1>6
 <2> HIDE DEF n
 <2>2. LayNext(G).stack = r.stack /\ LayNext(G).scope = n /\ LayNext(G).handlers = r.handlers
   BY <2>1, ScopedType
 <2> QED BY <2>2 DEF n
<1> DEFINE e == Popped(Running, 1)
           f == [e EXCEPT !.scope = @ + 1]
<1>9. Worked(e) /\ Agrees(e.stack, r.stack) /\ e.scope = Running.scope /\ e.base = Running.base
  BY <1>2, <1>7, TopOff
<1>10. Done(f) BY <1>1
<1> HIDE DEF e
<1>11. e \in Frames /\ e.scope \in Nat BY <1>9 DEF Worked, Frames
<1>12. f \in Frames /\ f.pc = e.pc /\ f.stack = e.stack /\ f.scope = e.scope + 1 /\ Twin(f, e) /\ f.base = e.base
  BY <1>11 DEF Frames, Twin
<1> HIDE DEF f
<1>13. Worked(f) BY <1>9, <1>12 DEF Worked, Twin
<1>14. Running.scope = Running.base + r.scope /\ Running.base \in Nat
  BY <1>2, <1>7, ChartStack, RunningIs
<1>15. f.scope = f.base + LayNext(G).scope BY <1>6, <1>8, <1>9, <1>12, <1>14
<1>16. Agrees(f.stack, LayNext(G).stack) /\ LayNext(G).handlers = Lay(G).handlers
  BY <1>7, <1>8, <1>9, <1>12
<1> QED BY <1>2, <1>3, <1>10, <1>13, <1>15, <1>16, DoneWith

LEMMA UnwindArm ==
  ASSUME NEW G, Charted(G), MachineOK(G), code' = code, UNWIND_TO
  PROVE  MachineOK(G)'
<1>1. At_op({"UnwindTo"}) /\ Done([Running EXCEPT !.scope = Running.base + This.arg]) BY DEF UNWIND_TO
<1>2. This.op = "UnwindTo" /\ phase = "run" /\ raised = "none" BY <1>1, ArmBegins
<1>3. This.op \notin Ends BY <1>2 DEF Ends
<1>4. Lay(G) \in Layouts /\ Behind("UnwindTo", This.arg, Running.pc, Lay(G), LayNext(G)) /\ This.arg \in Nat
  BY <1>1, <1>2, <1>3, ArmBegins, ChartHere
<1>5. LayNext(G) = Scoped(Lay(G), This.arg) BY <1>4 DEF Behind
<1>6. LayNext(G).stack = Lay(G).stack /\ LayNext(G).scope = This.arg /\ LayNext(G).handlers = Lay(G).handlers
  BY <1>4, <1>5, ScopedType
<1> DEFINE f == [Running EXCEPT !.scope = Running.base + This.arg]
<1>7. Running \in Frames /\ Running.base \in Nat /\ Running.base + This.arg \in Nat
  BY <1>2, <1>4, RunningIs
<1>8. f \in Frames /\ Worked(f) /\ f.stack = Running.stack /\ f.scope = f.base + This.arg
  BY <1>7 DEF Worked, Twin, Frames
<1>9. Done(f) BY <1>1
<1> HIDE DEF f
<1>10. Agrees(f.stack, LayNext(G).stack) BY <1>2, <1>6, <1>8, ChartStack
<1> QED BY <1>2, <1>3, <1>6, <1>8, <1>9, <1>10, DoneWith

LEMMA TwoPut ==
  ASSUME NEW X, NEW a \in Seq(X), NEW p \in X, NEW q \in X
  PROVE  a \o <<p, q>> = Append(Append(a, p), q)
<1> DEFINE b == <<p, q>>
           c == Append(Append(a, p), q)
           n == Len(a)
<1>1. b \in Seq(X) /\ Len(b) = 2 /\ n \in Nat /\ b[1] = p /\ b[2] = q OBVIOUS
<1>2. Append(a, p) \in Seq(X) /\ Len(Append(a, p)) = n + 1 /\ Append(a, p)[n + 1] = p
      /\ \A i \in 1..n : Append(a, p)[i] = a[i]
  BY <1>1
<1>3. c \in Seq(X) /\ Len(c) = n + 2 /\ c[n + 2] = q /\ c[n + 1] = p /\ \A i \in 1..n : c[i] = a[i]
 <2> DEFINE d == Append(a, p)
 <2>1. d \in Seq(X) /\ Len(d) = n + 1 /\ d[n + 1] = p /\ \A i \in 1..n : d[i] = a[i] BY <1>2
 <2> HIDE DEF d
 <2> DEFINE e == Append(d, q)
 <2>2. e \in Seq(X) /\ Len(e) = n + 2 /\ e[n + 2] = q /\ \A i \in 1..(n + 1) : e[i] = d[i] BY <1>1, <2>1
 <2>3. c = e BY DEF d
 <2> HIDE DEF c, e
 <2>4. n + 1 \in 1..(n + 1) /\ \A i \in 1..n : i \in 1..(n + 1) BY <1>1
 <2> QED BY <2>1, <2>2, <2>3, <2>4
<1> HIDE DEF b, c
<1>4. /\ a \o b \in Seq(X) /\ Len(a \o b) = n + 2 /\ \A i \in 1..n : (a \o b)[i] = a[i]
      /\ \A i \in (n + 1)..(n + 2) : (a \o b)[i] = b[i - n]
 <2> HIDE DEF n
 <2>1. n + Len(b) = n + 2 BY <1>1
 <2> USE DEF n
 <2>2. /\ a \o b \in Seq(X) /\ Len(a \o b) = Len(a) + Len(b) /\ \A i \in 1..Len(a) : (a \o b)[i] = a[i]
       /\ \A i \in (Len(a) + 1)..(Len(a) + Len(b)) : (a \o b)[i] = b[i - Len(a)]
   BY <1>1, ConcatFacts
 <2> HIDE DEF n
 <2>3. /\ a \o b \in Seq(X) /\ Len(a \o b) = n + Len(b) /\ \A i \in 1..n : (a \o b)[i] = a[i]
       /\ \A i \in (n + 1)..(n + Len(b)) : (a \o b)[i] = b[i - n]
   BY <2>2 DEF n
 <2> QED BY <2>1, <2>3
<1>5. (a \o b)[n + 1] = p /\ (a \o b)[n + 2] = q BY <1>1, <1>4
<1>6. ASSUME NEW i \in 1..Len(c)
      PROVE  c[i] = (a \o b)[i]
  BY <1>1, <1>3, <1>4, <1>5
<1>7. c = a \o b BY <1>3, <1>4, <1>6, SameSeq
<1> QED BY <1>7 DEF b, c

\* The running frame and the two operands on top.
LEMMA TwoOff ==
  ASSUME NEW G, Charted(G), MachineOK(G), phase = "run", raised = "none",
         NEW r \in Layouts, NEW x \in Nat, NEW y \in Nat, Lay(G) = Plus(Plus(r, x), y)
  PROVE  LET n == Len(Running.stack)
         IN /\ n \in Nat /\ n >= 2 /\ Running.stack[n] = Kind(y) /\ Running.stack[n - 1] = Kind(x)
            /\ SubSeq(Running.stack, 1, n - 2) \in Seq({"v", "i"})
            /\ Agrees(SubSeq(Running.stack, 1, n - 2), r.stack)
            /\ Lay(G).scope = r.scope /\ Lay(G).handlers = r.handlers
<1> DEFINE st == Running.stack
           n == Len(st)
           u == Plus(r, x)
           m == Len(r.stack)
<1>1. /\ u \in Layouts /\ u.stack = Append(r.stack, x) /\ u.scope = r.scope /\ u.handlers = r.handlers
      /\ Len(u.stack) = m + 1 /\ u.stack[m + 1] = x /\ \A k \in 1..m : u.stack[k] = r.stack[k]
  BY PlusType
<1>2. Lay(G) = Plus(u, y) OBVIOUS
<1> HIDE DEF u
<1>3. /\ Lay(G).stack = Append(u.stack, y) /\ Lay(G).scope = u.scope /\ Lay(G).handlers = u.handlers
      /\ Len(Lay(G).stack) = Len(u.stack) + 1 /\ Lay(G).stack[Len(u.stack) + 1] = y
      /\ \A k \in 1..Len(u.stack) : Lay(G).stack[k] = u.stack[k]
 <2>1. /\ Plus(u, y).stack = Append(u.stack, y) /\ Plus(u, y).scope = u.scope /\ Plus(u, y).handlers = u.handlers
       /\ Len(Plus(u, y).stack) = Len(u.stack) + 1 /\ Plus(u, y).stack[Len(u.stack) + 1] = y
       /\ \A k \in 1..Len(u.stack) : Plus(u, y).stack[k] = u.stack[k]
   BY <1>1, PlusType
 <2> QED BY <1>2, <2>1
<1>4. /\ Agrees(st, Lay(G).stack) /\ n \in Nat /\ n = Len(Lay(G).stack) /\ st \in Seq({"v", "i"})
      /\ Lay(G).stack \in Seq(Nat)
  BY ChartStack
<1>5. r.stack \in Seq(Nat) /\ m \in Nat BY LayoutType
<1> DEFINE sl == Lay(G).stack
<1>6. n = m + 2 /\ sl[m + 2] = y /\ sl[m + 1] = x /\ \A k \in 1..m : sl[k] = r.stack[k]
  BY <1>1, <1>5, <1>3, <1>4
<1> HIDE DEF sl, st
<1>7. Agrees(st, sl) /\ st \in Seq({"v", "i"}) /\ sl \in Seq(Nat) /\ n = Len(sl) /\ n \in Nat
  BY <1>4 DEF st, sl
<1>8. n \in 1..n /\ n - 1 \in 1..n /\ n = m + 2 /\ n - 1 = m + 1 BY <1>5, <1>6
<1>9. st[n] = Kind(y) /\ st[n - 1] = Kind(x) BY <1>7, <1>8, <1>6 DEF Agrees
<1>10. 2 \in Nat /\ 2 <= Len(st) /\ Len(sl) - 2 = m /\ Len(sl) - 2 = n - 2 BY <1>5, <1>7, <1>8
<1>11. Agrees(SubSeq(st, 1, n - 2), SubSeq(sl, 1, Len(sl) - 2)) BY <1>7, <1>10, AgreesFewer
<1>12. SubSeq(sl, 1, m) = r.stack BY <1>5, <1>7, <1>8, FirstN, <1>6, SameSeq
<1>13. Agrees(SubSeq(st, 1, n - 2), r.stack) BY <1>10, <1>11, <1>12
<1>14. n - 2 \in Nat /\ n - 2 <= Len(st) /\ n >= 2 BY <1>7, <1>10
<1>15. SubSeq(st, 1, n - 2) \in Seq({"v", "i"}) BY <1>7, <1>14, FirstN
<1>16. Lay(G).scope = r.scope /\ Lay(G).handlers = r.handlers BY <1>1, <1>3
<1> QED BY <1>7, <1>9, <1>13, <1>14, <1>15, <1>16 DEF st

LEMMA RotateArm ==
  ASSUME NEW G, Charted(G), MachineOK(G), code' = code, ROTATE
  PROVE  MachineOK(G)'
<1> DEFINE t == Running.stack
           n == Len(t)
           a == SubSeq(t, 1, n - 2)
           u == a \o <<t[n], t[n - 1]>>
           f == [Running EXCEPT !.stack = u]
<1>1. At_op({"Rotate"}) /\ Done(f) BY DEF ROTATE
<1>2. This.op = "Rotate" /\ phase = "run" /\ raised = "none" BY <1>1, ArmBegins
<1>3. This.op \notin Ends BY <1>2 DEF Ends
<1>4. LayNext(G) \in Layouts /\ Behind("Rotate", This.arg, Running.pc, Lay(G), LayNext(G))
  BY <1>1, <1>2, <1>3, ArmBegins
<1>5. PICK r \in Layouts, x \in Nat, y \in Nat : Lay(G) = Plus(Plus(r, x), y) /\ LayNext(G) = Plus(Plus(r, y), x)
  BY <1>4 DEF Behind
<1>6. /\ n \in Nat /\ n >= 2 /\ t[n] = Kind(y) /\ t[n - 1] = Kind(x)
      /\ a \in Seq({"v", "i"}) /\ Agrees(a, r.stack)
      /\ Lay(G).scope = r.scope /\ Lay(G).handlers = r.handlers
  BY <1>2, <1>5, TwoOff
<1> DEFINE v == Plus(r, y)
<1>7. v \in Layouts /\ v.stack = Append(r.stack, y) /\ v.scope = r.scope /\ v.handlers = r.handlers
  BY PlusType
<1>8. LayNext(G) = Plus(v, x) BY <1>5
<1> HIDE DEF v
<1>9. LayNext(G).stack = Append(v.stack, x) /\ LayNext(G).scope = v.scope /\ LayNext(G).handlers = v.handlers
 <2>1. Plus(v, x).stack = Append(v.stack, x) /\ Plus(v, x).scope = v.scope /\ Plus(v, x).handlers = v.handlers
   BY <1>7, PlusType
 <2> QED BY <1>8, <2>1
<1>10. Kind(x) \in {"v", "i"} /\ Kind(y) \in {"v", "i"} /\ r.stack \in Seq(Nat) /\ v.stack \in Seq(Nat)
  BY <1>7, LayoutType DEF Kind
<1> HIDE DEF a
<1>11. u = Append(Append(a, Kind(y)), Kind(x)) BY <1>6, <1>10, TwoPut
<1> HIDE DEF u
<1>12. Agrees(Append(a, Kind(y)), v.stack) /\ Append(a, Kind(y)) \in Seq({"v", "i"})
  BY <1>6, <1>10, <1>7, AgreesMore
<1> DEFINE w == Append(a, Kind(y))
<1>13. w \in Seq({"v", "i"}) /\ Agrees(w, v.stack) /\ u = Append(w, Kind(x)) BY <1>11, <1>12
<1> HIDE DEF w
<1>14. Agrees(u, LayNext(G).stack) /\ u \in Seq({"v", "i"}) BY <1>10, <1>13, <1>9, AgreesMore
<1>15. Running \in Frames BY <1>2, RunningIs
<1>16. f \in Frames /\ f.stack = u /\ f.scope = Running.scope /\ f.base = Running.base /\ Worked(f)
  BY <1>14, <1>15 DEF Frames, Worked, Twin
<1> HIDE DEF f
<1>17. f.scope = f.base + LayNext(G).scope BY <1>2, <1>6, <1>7, <1>9, <1>16, ChartStack
<1>18. Agrees(f.stack, LayNext(G).stack) /\ LayNext(G).handlers = Lay(G).handlers
  BY <1>6, <1>7, <1>9, <1>14, <1>16
<1> QED BY <1>1, <1>2, <1>3, <1>16, <1>17, <1>18, DoneWith

LEMMA CheckpointArm ==
  ASSUME NEW G, Charted(G), MachineOK(G), code' = code, CHECKPOINT
  PROVE  MachineOK(G)'
<1>1. At_op({"Checkpoint"}) BY DEF CHECKPOINT
<1>2. This.op = "Checkpoint" /\ phase = "run" /\ raised = "none" BY <1>1, ArmBegins
<1>3. This.op \notin Ends BY <1>2 DEF Ends
<1>4. Behind("Checkpoint", This.arg, Running.pc, Lay(G), LayNext(G)) BY <1>1, <1>2, <1>3, ArmBegins
<1>5. LayNext(G) = Lay(G) BY <1>4 DEF Behind
<1>6. /\ Agrees(Running.stack, LayNext(G).stack) /\ Running.scope = Running.base + LayNext(G).scope
      /\ LayNext(G).handlers = Lay(G).handlers /\ Worked(Running) /\ cut = FALSE
  BY <1>2, <1>5, ChartStack, SpentSelf
<1>7. CASE Len(frames) > 1 BY <1>7, <1>2, <1>3, <1>6, DoneWith DEF CHECKPOINT
<1>8. CASE ~(Len(frames) > 1)
 <2> DEFINE f == [Running EXCEPT !.mark = Running.scope]
            g == Next_pc(f)
 <2>1. /\ unwind_floor' = Running.scope /\ Put(g)
       /\ UNCHANGED <<phase, handlers, raised, ops, host, fault, cut>>
   BY <1>8 DEF CHECKPOINT
 <2>2. Running \in Frames /\ Running.scope \in Nat /\ Running.pc \in Nat \ {0} BY <1>2, RunningIs
 <2>3. /\ f \in Frames /\ f.pc = Running.pc /\ f.stack = Running.stack /\ f.scope = Running.scope
       /\ f.base = Running.base /\ f.outer_floor = Running.outer_floor /\ f.handler_base = Running.handler_base
       /\ f.mark = Running.scope
   BY <2>2 DEF Frames
 <2> HIDE DEF f
 <2>4. width(This.op) \in 1..2 /\ code[f.pc] = This BY <1>2, <2>3, ChartHere DEF This
 <2>5. Running.pc + width(This.op) \in Nat \ {0} BY <2>2, <2>4
 <2>6. /\ g \in Frames /\ g.pc = Running.pc + width(This.op) /\ g.stack = Running.stack /\ g.scope = Running.scope
       /\ g.base = Running.base /\ g.outer_floor = Running.outer_floor /\ g.handler_base = Running.handler_base
       /\ g.mark = Running.scope
   BY <2>3, <2>4, <2>5 DEF Frames, Next_pc
 <2> HIDE DEF g
 <2>7. Tallied BY <2>1, <2>2 DEF MachineOK, RunTypes, Tallied
 <2>8. g.pc \in Starts(code) /\ G.at[g.pc] = LayNext(G) BY <1>2, <1>3, <2>6, ChartHere DEF LayNext
 <2>9. Placed(G, g, 0) BY <1>6, <2>6, <2>8, PlacedAt
 <2>10. 0 \in Nat /\ 0 = IF raised' = "none" THEN 0 ELSE takes(code[g.pc].op) BY <1>2, <2>1
 <2>11. /\ handlers' \in Seq(Handlers) /\ Running.handler_base <= Len(handlers')
        /\ \A j \in 1..Running.handler_base : handlers'[j] = handlers[j]
   BY <1>2, <2>1, RunningIs
 <2>12. Len(handlers') - Running.handler_base = Len(G.at[g.pc].handlers)
   BY <1>2, <1>5, <1>6, <2>1, <2>8, OwnArms
 <2>13. \A m \in 1..Len(G.at[g.pc].handlers) :
          Arms(G, handlers'[Running.handler_base + m], G.at[g.pc].handlers[m], Len(frames), Running.base)
   BY <1>2, <1>5, <1>6, <2>1, <2>8, OwnArms
 <2>14. unwind_floor' = g.mark /\ phase' = "run" BY <1>2, <2>1, <2>6
 <2>15. Put(g) BY <2>1
 <2> QED BY <1>2, <1>8, <2>6, <2>7, <2>9, <2>10, <2>11, <2>12, <2>13, <2>14, <2>15, ReplacedOK
<1> QED BY <1>7, <1>8

LEMMA IterInitArm ==
  ASSUME NEW G, Charted(G), MachineOK(G), code' = code, ITER_INIT
  PROVE  MachineOK(G)'
<1> DEFINE e == Popped(Running, 1)
           f == Pushed(e, "i")
<1>1. At_op({"IterInit"}) /\ (Done(f) \/ Raise(e, "catchable")) BY DEF ITER_INIT
<1>2. This.op = "IterInit" /\ phase = "run" /\ raised = "none" BY <1>1, ArmBegins
<1>3. This.op \notin Ends /\ takes(This.op) = 1 BY <1>2 DEF Ends, takes, Branches, Advances
<1>4. CASE Raise(e, "catchable")
 <2>1. Spent(G, e) BY <1>2, <1>3, SpentPopped
 <2> HIDE DEF e
 <2> QED BY <1>2, <1>4, <2>1, RaisedOK
<1>5. CASE Done(f)
 <2>1. LayNext(G) \in Layouts /\ Behind("IterInit", This.arg, Running.pc, Lay(G), LayNext(G))
   BY <1>1, <1>2, <1>3, ArmBegins
 <2>2. PICK r \in Layouts, x \in Nat : Lay(G) = Plus(r, x) /\ LayNext(G) = Looped(r, Running.pc)
   BY <2>1 DEF Behind
 <2>3. Lay(G).stack = Append(r.stack, x) /\ Lay(G).scope = r.scope /\ Lay(G).handlers = r.handlers
   BY <2>2, PlusType
 <2>4. Running.pc \in Nat \ {0} /\ r.stack \in Seq(Nat) BY <1>2, RunningIs, LayoutType
 <2>5. /\ LayNext(G).stack = Append(r.stack, Running.pc) /\ LayNext(G).scope = r.scope
       /\ LayNext(G).handlers = r.handlers
   BY <2>2, <2>4, LoopedType
 <2>6. /\ e \in Frames /\ e.pc = Running.pc /\ e.scope = Running.scope /\ Twin(e, Running)
       /\ Agrees(e.stack, r.stack) /\ e.stack \in Seq({"v", "i"}) /\ e.base = Running.base
   BY <1>2, <2>3, TopOff
 <2> HIDE DEF e
 <2>7. /\ f \in Frames /\ f.pc = e.pc /\ f.scope = e.scope /\ Twin(f, e) /\ f.stack = Append(e.stack, "i")
   BY <2>6, FrameMoves
 <2> HIDE DEF f
 <2>8. Kind(Running.pc) = "i" BY <2>4 DEF Kind
 <2>9. Agrees(Append(e.stack, Kind(Running.pc)), Append(r.stack, Running.pc)) BY <2>4, <2>6, AgreesMore
 <2>10. Agrees(f.stack, LayNext(G).stack) BY <2>5, <2>7, <2>8, <2>9
 <2>11. Worked(f) /\ f.base = Running.base /\ f.scope = Running.scope BY <2>6, <2>7 DEF Worked, Twin
 <2>12. f.scope = f.base + LayNext(G).scope BY <1>2, <2>3, <2>5, <2>11, ChartStack
 <2>13. LayNext(G).handlers = Lay(G).handlers BY <2>3, <2>5
 <2> QED BY <1>2, <1>3, <1>5, <2>10, <2>11, <2>12, <2>13, DoneWith
<1> QED BY <1>1, <1>4, <1>5

\* The iterator goes.
LEMMA Dropped ==
  ASSUME NEW G, Charted(G), MachineOK(G), code' = code, phase = "run", raised = "none",
         This.op \in {"IterDrop", "IterNextStore"}, Done(Popped(Running, 1))
  PROVE  MachineOK(G)'
<1>1. This.op \notin Ends BY DEF Ends
<1>2. LayNext(G) \in Layouts /\ Behind(This.op, This.arg, Running.pc, Lay(G), LayNext(G))
  BY <1>1, ChartHere
<1>3. PICK q \in Nat \ {0} : Lay(G) = Looped(LayNext(G), q) BY <1>2 DEF Behind
<1>4. /\ Lay(G).stack = Append(LayNext(G).stack, q) /\ Lay(G).scope = LayNext(G).scope
      /\ Lay(G).handlers = LayNext(G).handlers /\ q \in Nat
  BY <1>2, <1>3, LoopedType
<1> DEFINE f == Popped(Running, 1)
<1>5. Worked(f) /\ Agrees(f.stack, LayNext(G).stack) /\ f.scope = Running.scope /\ f.base = Running.base
  BY <1>2, <1>4, TopOff
<1>6. Done(f) OBVIOUS
<1> HIDE DEF f
<1>7. f.scope = f.base + LayNext(G).scope BY <1>4, <1>5, ChartStack
<1> QED BY <1>1, <1>4, <1>5, <1>6, <1>7, DoneWith

LEMMA IterArms ==
  ASSUME NEW G, Charted(G), MachineOK(G), code' = code, ITER_DROP \/ ITER_NEXT
  PROVE  MachineOK(G)'
<1>1. CASE ITER_DROP BY <1>1, ArmBegins, Dropped DEF ITER_DROP
<1>2. CASE ITER_NEXT
  BY <1>2, ArmBegins, SpentSelf, ChartHere, ChartStack, JumpedOK, Dropped, RaisedOK DEF ITER_NEXT,
     Emitted, Advances, Targeted, Ahead
<1> QED BY <1>1, <1>2

LEMMA JumpArms ==
  ASSUME NEW G, Charted(G), MachineOK(G), code' = code, JUMP \/ JUMP_IF \/ SKIP_IF_NOT_UNIT
  PROVE  MachineOK(G)'
<1>1. CASE JUMP BY <1>1, ArmBegins, ChartHere, SpentSelf, ChartStack, JumpedOK DEF JUMP, Targeted, Ahead
<1>2. CASE JUMP_IF
 <2> DEFINE f == Popped(Running, 1)
 <2>1. At_op(Guards) /\ (transfer(f, This.arg) \/ Done(f) \/ Raise(f, "catchable"))
   BY <1>2 DEF JUMP_IF, Guards
 <2>2. This.op \in Guards /\ phase = "run" /\ raised = "none" BY <2>1, ArmBegins
 <2>3. This.op \in Targeted /\ takes(This.op) = 1 /\ This.op \notin Ends
   BY <2>2 DEF Guards, Targeted, Branches, takes, Ends, Advances
 <2>4. Spent(G, f) BY <2>2, <2>3, SpentPopped
 <2>5. CASE Raise(f, "catchable")
  <3> HIDE DEF f
  <3> QED BY <2>2, <2>4, <2>5, RaisedOK
 <2>6. CASE transfer(f, This.arg)
  <3>1. LayAway(G) \in Layouts /\ Ahead(This.op, Running.pc, Lay(G), LayAway(G)) BY <2>2, <2>3, ChartHere
  <3>2. PICK x \in Nat : Lay(G) = Plus(LayAway(G), x) BY <2>2, <3>1 DEF Ahead
  <3>3. /\ Lay(G).stack = Append(LayAway(G).stack, x) /\ Lay(G).scope = LayAway(G).scope
        /\ Lay(G).handlers = LayAway(G).handlers
    BY <3>1, <3>2, PlusType
  <3>4. Agrees(f.stack, LayAway(G).stack) BY <2>2, <3>1, <3>3, TopOff
  <3> HIDE DEF f
  <3> QED BY <2>2, <2>3, <2>4, <2>6, <3>3, <3>4, JumpedOK
 <2>7. CASE Done(f)
  <3>1. LayNext(G) \in Layouts /\ Behind(This.op, This.arg, Running.pc, Lay(G), LayNext(G))
    BY <2>2, <2>3, ChartHere
  <3>2. PICK x \in Nat : Lay(G) = Plus(LayNext(G), x) BY <2>2, <3>1 DEF Behind
  <3>3. /\ Lay(G).stack = Append(LayNext(G).stack, x) /\ Lay(G).scope = LayNext(G).scope
        /\ Lay(G).handlers = LayNext(G).handlers
    BY <3>1, <3>2, PlusType
  <3>4. Worked(f) /\ Agrees(f.stack, LayNext(G).stack) /\ f.scope = Running.scope /\ f.base = Running.base
    BY <2>2, <3>1, <3>3, TopOff
  <3> HIDE DEF f
  <3>5. f.scope = f.base + LayNext(G).scope BY <2>2, <3>3, <3>4, ChartStack
  <3> QED BY <2>2, <2>3, <2>7, <3>3, <3>4, <3>5, DoneWith
 <2> QED BY <2>1, <2>5, <2>6, <2>7
<1>3. CASE SKIP_IF_NOT_UNIT BY <1>3, ArmBegins DEF SKIP_IF_NOT_UNIT, Emitted
<1> QED BY <1>1, <1>2, <1>3

LEMMA BinThrowArms ==
  ASSUME NEW G, Charted(G), MachineOK(G), code' = code, BIN_OP \/ THROW
  PROVE  MachineOK(G)'
<1>1. CASE BIN_OP
 <2> DEFINE n == Len(Running.stack)
            e == Popped(Running, 2)
            f == Pushed(e, "v")
 <2>1. At_op({"BinOp"}) /\ (Done(f) \/ Raise(Running, "catchable")) BY <1>1 DEF BIN_OP
 <2>2. This.op = "BinOp" /\ phase = "run" /\ raised = "none" BY <2>1, ArmBegins
 <2>3. This.op \notin Ends BY <2>2 DEF Ends
 <2>4. CASE Raise(Running, "catchable") BY <2>2, <2>4, SpentSelf, RaisedOK
 <2>5. CASE Done(f)
  <3>1. LayNext(G) \in Layouts /\ Behind("BinOp", This.arg, Running.pc, Lay(G), LayNext(G))
    BY <2>2, <2>3, ChartHere
  <3>2. PICK r \in Layouts, x \in Nat, y \in Nat : Lay(G) = Plus(Plus(r, x), y) /\ LayNext(G) = Plus(r, 0)
    BY <3>1 DEF Behind
  <3>3. /\ n \in Nat /\ n >= 2 /\ Agrees(SubSeq(Running.stack, 1, n - 2), r.stack)
        /\ SubSeq(Running.stack, 1, n - 2) \in Seq({"v", "i"})
        /\ Lay(G).scope = r.scope /\ Lay(G).handlers = r.handlers
    BY <2>2, <3>2, TwoOff
  <3>4. 2 \in 0..n /\ Running \in Frames BY <2>2, <3>3, RunningIs
  <3>5. /\ e \in Frames /\ e.stack = SubSeq(Running.stack, 1, n - 2)
        /\ e.pc = Running.pc /\ e.scope = Running.scope /\ Twin(e, Running)
    BY <3>4, FrameMoves
  <3> HIDE DEF e
  <3>6. f \in Frames /\ f.stack = Append(e.stack, "v") /\ f.pc = e.pc /\ f.scope = e.scope /\ Twin(f, e)
    BY <3>5, FrameMoves
  <3> HIDE DEF f
  <3>7. 0 \in Nat /\ r.stack \in Seq(Nat) /\ Kind(0) = "v" BY LayoutType DEF Kind
  <3>8. /\ LayNext(G).stack = Append(r.stack, 0) /\ LayNext(G).scope = r.scope /\ LayNext(G).handlers = r.handlers
    BY <3>2, <3>7, PlusType
  <3>9. e.stack \in Seq({"v", "i"}) /\ Agrees(e.stack, r.stack) BY <3>3, <3>5
  <3>10. Agrees(Append(e.stack, Kind(0)), Append(r.stack, 0)) BY <3>7, <3>9, AgreesMore
  <3>11. Agrees(f.stack, LayNext(G).stack) BY <3>6, <3>7, <3>8, <3>10
  <3>12. Worked(f) /\ f.base = Running.base /\ f.scope = Running.scope BY <3>5, <3>6 DEF Worked, Twin
  <3>13. f.scope = f.base + LayNext(G).scope /\ LayNext(G).handlers = Lay(G).handlers
    BY <2>2, <3>3, <3>8, <3>12, ChartStack
  <3> QED BY <2>2, <2>3, <2>5, <3>11, <3>12, <3>13, DoneWith
 <2> QED BY <2>1, <2>4, <2>5
<1>2. CASE THROW
 <2> DEFINE f == Popped(Running, 1)
 <2>1. At_op({"Throw"}) /\ Raise(f, "catchable") BY <1>2 DEF THROW
 <2>2. This.op = "Throw" /\ phase = "run" /\ raised = "none" BY <2>1, ArmBegins
 <2>3. takes(This.op) = 1 BY <2>2 DEF takes, Branches, Advances
 <2>4. Spent(G, f) BY <2>2, <2>3, SpentPopped
 <2> HIDE DEF f
 <2> QED BY <2>1, <2>2, <2>4, RaisedOK
<1> QED BY <1>1, <1>2

\* The running frame stays.
LEMMA StaysPut ==
  ASSUME NEW G, MachineOK(G), phase = "run", frames' = frames
  PROVE  Put(Running)
BY RunningIs DEF Put

\* A call has been paid for, or not.
LEMMA CallStuck ==
  ASSUME NEW G, Charted(G), MachineOK(G), code' = code, At_op({"Call"}), ops' = ops + 1, frames' = frames,
         \/ raised' = "system"
         \/ ~Unpaid /\ raised' = "catchable",
         UNCHANGED <<phase, handlers, unwind_floor, host, fault, cut>>
  PROVE  MachineOK(G)'
<1>1. phase = "run" /\ raised = "none" BY ArmBegins
<1>2. ops \in Nat /\ MaxOps \in Nat /\ ops <= MaxOps BY <1>1, GrainAssumption DEF MachineOK, RunTypes
<1>3. Tallied BY <1>1, <1>2 DEF MachineOK, RunTypes, Tallied, Unpaid
<1>4. Put(Running) /\ Spent(G, Running) BY <1>1, StaysPut, SpentSelf
<1> QED BY <1>1, <1>3, <1>4, StuckOK

\* What is behind a call.
LEMMA BehindCall ==
  ASSUME NEW G, Charted(G), MachineOK(G), At_op({"Call"})
  PROVE  /\ This.op = "Call" /\ phase = "run" /\ raised = "none" /\ This.op \notin Ends
         /\ LET f == Pushed(Running, "v")
            IN /\ Worked(f) /\ Agrees(f.stack, LayNext(G).stack) /\ f.scope = f.base + LayNext(G).scope
               /\ LayNext(G).handlers = Lay(G).handlers
<1> DEFINE f == Pushed(Running, "v")
<1>1. This.op = "Call" /\ phase = "run" /\ raised = "none" BY ArmBegins
<1>2. This.op \notin Ends BY <1>1 DEF Ends
<1>3. LayNext(G) \in Layouts /\ Behind("Call", This.arg, Running.pc, Lay(G), LayNext(G))
  BY <1>1, <1>2, ChartHere
<1>4. LayNext(G) = Plus(Lay(G), 0) BY <1>3 DEF Behind
<1>5. /\ Lay(G) \in Layouts /\ Lay(G).stack \in Seq(Nat) /\ Agrees(Running.stack, Lay(G).stack) /\ 0 \in Nat
      /\ Running.stack \in Seq({"v", "i"}) /\ Running.scope = Running.base + Lay(G).scope /\ Running \in Frames
  BY <1>1, ChartHere, ChartStack, RunningIs
<1>6. /\ f \in Frames /\ f.stack = Append(Running.stack, "v")
      /\ f.pc = Running.pc /\ f.scope = Running.scope /\ Twin(f, Running)
  BY <1>5, FrameMoves
<1> HIDE DEF f
<1>7. Agrees(Append(Running.stack, Kind(0)), Append(Lay(G).stack, 0)) /\ Kind(0) = "v"
  BY <1>5, AgreesMore DEF Kind
<1>8. /\ LayNext(G).stack = Append(Lay(G).stack, 0) /\ LayNext(G).scope = Lay(G).scope
      /\ LayNext(G).handlers = Lay(G).handlers
  BY <1>4, <1>5, PlusType
<1>9. Agrees(f.stack, LayNext(G).stack) /\ Worked(f) /\ f.scope = f.base + LayNext(G).scope
  BY <1>5, <1>6, <1>7, <1>8 DEF Worked, Twin
<1> QED BY <1>1, <1>2, <1>8, <1>9 DEF f

LEMMA CallNativeArm ==
  ASSUME NEW G, Charted(G), MachineOK(G), code' = code, CALL_native
  PROVE  MachineOK(G)'
<1>1. /\ At_op({"Call"}) /\ ops' = ops + 1
      /\ UNCHANGED <<phase, handlers, unwind_floor, host, fault, cut>>
      /\ \/ raised' = "system" /\ frames' = frames
         \/ ~Unpaid /\ raised' = "catchable" /\ frames' = frames
         \/ ~Unpaid /\ Put(Next_pc(Pushed(Running, "v"))) /\ raised' = raised
  BY DEF CALL_native
<1>2. CASE frames' = frames /\ (raised' = "system" \/ (~Unpaid /\ raised' = "catchable"))
  BY <1>1, <1>2, CallStuck
<1>3. CASE ~Unpaid /\ Put(Next_pc(Pushed(Running, "v"))) /\ raised' = raised
 <2> DEFINE f == Pushed(Running, "v")
 <2>1. /\ This.op = "Call" /\ phase = "run" /\ raised = "none" /\ This.op \notin Ends
       /\ Worked(f) /\ Agrees(f.stack, LayNext(G).stack) /\ f.scope = f.base + LayNext(G).scope
       /\ LayNext(G).handlers = Lay(G).handlers
   BY <1>1, BehindCall
 <2>2. ops \in Nat /\ MaxOps \in Nat /\ ops <= MaxOps BY <2>1, GrainAssumption DEF MachineOK, RunTypes
 <2>3. Tallied BY <1>1, <1>3, <2>1, <2>2 DEF MachineOK, RunTypes, Tallied, Unpaid
 <2>4. Put(Next_pc(f)) BY <1>3
 <2> HIDE DEF f
 <2> QED BY <1>1, <1>3, <2>1, <2>3, <2>4, OnwardOK
<1> QED BY <1>1, <1>2, <1>3

\* The frame moves on, and its handlers are others.
LEMMA HandlersOK ==
  ASSUME NEW G, Charted(G), MachineOK(G), phase = "run", raised = "none", code' = code,
         This.op \notin Ends, Put(Next_pc(Running)),
         UNCHANGED <<phase, unwind_floor, raised, ops, host, fault, cut>>,
         Agrees(Running.stack, LayNext(G).stack), LayNext(G).scope = Lay(G).scope,
         handlers' \in Seq(Handlers), Running.handler_base <= Len(handlers'),
         \A j \in 1..Running.handler_base : handlers'[j] = handlers[j],
         Len(handlers') - Running.handler_base = Len(LayNext(G).handlers),
         \A m \in 1..Len(LayNext(G).handlers) :
           Arms(G, handlers'[Running.handler_base + m], LayNext(G).handlers[m], Len(frames), Running.base)
  PROVE  MachineOK(G)'
<1> DEFINE g == Next_pc(Running)
<1>1. Worked(Running) BY SpentSelf
<1>2. /\ g \in Frames /\ g.pc = Running.pc + width(This.op)
      /\ g.stack = Running.stack /\ g.scope = Running.scope /\ Twin(g, Running) /\ g.base = Running.base
  BY <1>1, WorkedNext
<1>3. g.pc \in Starts(code) /\ G.at[g.pc] = LayNext(G) BY <1>2, ChartHere DEF LayNext
<1>4. Put(g) OBVIOUS
<1> HIDE DEF g
<1>5. Running.scope = Running.base + LayNext(G).scope /\ unwind_floor = Running.mark /\ cut = FALSE
  BY ChartStack
<1>6. Placed(G, g, 0) BY <1>2, <1>3, <1>5, PlacedAt
<1>7. Tallied BY SameTallied
<1>8. g.handler_base = Running.handler_base /\ g.outer_floor = Running.outer_floor /\ g.mark = Running.mark
  BY <1>2 DEF Twin
<1>9. (Len(frames) > 1) => g.outer_floor = frames[Len(frames) - 1].mark BY <1>5, <1>8, OwnArms
<1>10. 0 \in Nat /\ 0 = IF raised' = "none" THEN 0 ELSE takes(code[g.pc].op) OBVIOUS
<1>11. unwind_floor' = g.mark /\ phase' = "run" BY <1>5, <1>8
<1> QED BY <1>2, <1>3, <1>4, <1>6, <1>7, <1>8, <1>9, <1>10, <1>11, ReplacedOK

LEMMA PushHandlerArm ==
  ASSUME NEW G, Charted(G), MachineOK(G), code' = code, PUSH_HANDLER
  PROVE  MachineOK(G)'
<1> DEFINE h == [target |-> This.arg, operands |-> Len(Running.stack),
                 scope_len |-> Running.scope, caught |-> FALSE, owner |-> Len(frames)]
           b == Running.handler_base
           c == Lay(G).handlers
           n == Len(handlers)
           z == Running.pc
<1>1. /\ At_op({"PushHandler"}) /\ handlers' = Append(handlers, h) /\ Put(Next_pc(Running))
      /\ UNCHANGED <<phase, unwind_floor, raised, ops, host, fault, cut>>
  BY DEF PUSH_HANDLER
<1>2. This.op = "PushHandler" /\ phase = "run" /\ raised = "none" BY <1>1, ArmBegins
<1>3. This.op \notin Ends /\ This.op \in Targeted BY <1>2 DEF Ends, Targeted
<1>4. /\ LayNext(G) \in Layouts /\ Lay(G) \in Layouts /\ z \in Nat \ {0}
      /\ Behind("PushHandler", This.arg, z, Lay(G), LayNext(G))
      /\ This.arg \in Starts(code) /\ This.arg \in Nat
  BY <1>2, <1>3, ChartHere
<1>5. LayNext(G) = Arming(Lay(G), z) BY <1>4 DEF Behind
<1>6. /\ LayNext(G).stack = Lay(G).stack /\ LayNext(G).scope = Lay(G).scope
      /\ Len(LayNext(G).handlers) = Len(c) + 1
      /\ \A j \in 1..Len(c) : LayNext(G).handlers[j] = c[j]
      /\ LayNext(G).handlers[Len(c) + 1] = [site |-> z, caught |-> FALSE]
  BY <1>4, <1>5, ArmingType
<1>7. /\ Agrees(Running.stack, Lay(G).stack) /\ Len(Running.stack) = Len(Lay(G).stack) /\ Len(Running.stack) \in Nat
      /\ Running.scope = Running.base + Lay(G).scope /\ cut = FALSE
  BY <1>2, ChartStack
<1>8. /\ b \in Nat /\ n \in Nat /\ b <= n /\ handlers \in Seq(Handlers) /\ Len(frames) \in Nat /\ Running.scope \in Nat
  BY <1>2, RunningIs
<1>9. n - b = Len(c) /\ \A m \in 1..Len(c) : Arms(G, handlers[b + m], c[m], Len(frames), Running.base)
  BY <1>2, <1>7, OwnArms
<1>10. h \in Handlers BY <1>4, <1>7, <1>8 DEF Starts, Handlers
<1>11. Arms(G, h, [site |-> z, caught |-> FALSE], Len(frames), Running.base) BY <1>7 DEF Arms, Lay, This
<1> HIDE DEF h
<1>12. /\ handlers' \in Seq(Handlers) /\ Len(handlers') = n + 1 /\ handlers'[n + 1] = h
       /\ \A j \in 1..n : handlers'[j] = handlers[j]
  BY <1>1, <1>8, <1>10
<1>13. Len(c) \in Nat BY <1>4, LayoutType
<1> HIDE DEF b, n, c, z
<1>14. b <= n + 1 /\ n + 1 - b = Len(c) + 1 /\ \A j \in 1..b : j \in 1..n BY <1>8, <1>9, <1>13
<1>15. ASSUME NEW m \in 1..(Len(c) + 1)
       PROVE  Arms(G, handlers'[b + m], LayNext(G).handlers[m], Len(frames), Running.base)
 <2>1. CASE m \in 1..Len(c)
  <3>1. b + m \in 1..n BY <1>8, <1>9, <1>13, <2>1
  <3> QED BY <1>6, <1>9, <1>12, <2>1, <3>1
 <2>2. CASE m = Len(c) + 1 BY <1>8, <1>9, <1>13, <2>2, <1>6, <1>11, <1>12
 <2> QED BY <1>13, <2>1, <2>2
<1>16. b <= Len(handlers') /\ \A j \in 1..b : handlers'[j] = handlers[j] BY <1>12, <1>14
<1>17. Len(handlers') - b = Len(LayNext(G).handlers) BY <1>6, <1>12, <1>14, <1>8, <1>13
<1>18. \A m \in 1..Len(LayNext(G).handlers) :
         Arms(G, handlers'[b + m], LayNext(G).handlers[m], Len(frames), Running.base)
  BY <1>6, <1>15
<1>19. Agrees(Running.stack, LayNext(G).stack) /\ LayNext(G).scope = Lay(G).scope BY <1>6, <1>7
<1> QED BY <1>1, <1>2, <1>3, <1>12, <1>16, <1>17, <1>18, <1>19, HandlersOK DEF b

LEMMA PopHandlerArm ==
  ASSUME NEW G, Charted(G), MachineOK(G), code' = code, POP_HANDLER
  PROVE  MachineOK(G)'
<1> DEFINE b == Running.handler_base
           c == Lay(G).handlers
           n == Len(handlers)
           u == SubSeq(handlers, 1, n - 1)
<1>1. /\ At_op({"PopHandler"}) /\ handlers' = u /\ Put(Next_pc(Running))
      /\ UNCHANGED <<phase, unwind_floor, raised, ops, host, fault, cut>>
  BY DEF POP_HANDLER
<1>2. This.op = "PopHandler" /\ phase = "run" /\ raised = "none" BY <1>1, ArmBegins
<1>3. This.op \notin Ends BY <1>2 DEF Ends
<1>4. /\ LayNext(G) \in Layouts /\ Lay(G) \in Layouts
      /\ Behind("PopHandler", This.arg, Running.pc, Lay(G), LayNext(G))
  BY <1>2, <1>3, ChartHere
<1>5. Len(c) > 0 /\ LayNext(G) = Disarmed(Lay(G), Len(c) - 1) BY <1>4 DEF Behind
<1>6. c \in Seq(Regions) /\ Len(c) \in Nat BY <1>4, LayoutType
<1>7. /\ LayNext(G).stack = Lay(G).stack /\ LayNext(G).scope = Lay(G).scope
      /\ Len(LayNext(G).handlers) = Len(c) - 1
      /\ \A j \in 1..(Len(c) - 1) : LayNext(G).handlers[j] = c[j]
 <2> DEFINE d == Len(c) - 1
 <2>1. d \in 0..Len(c) BY <1>5, <1>6
 <2> HIDE DEF d
 <2>2. LET t == Disarmed(Lay(G), d)
       IN /\ t.stack = Lay(G).stack /\ t.scope = Lay(G).scope
          /\ Len(t.handlers) = d /\ \A j \in 1..d : t.handlers[j] = c[j]
   BY <1>4, <2>1, DisarmedType
 <2> QED BY <1>5, <2>2 DEF d
<1>8. /\ b \in Nat /\ n \in Nat /\ b <= n /\ handlers \in Seq(Handlers) BY <1>2, RunningIs
<1>9. Agrees(Running.stack, Lay(G).stack) /\ cut = FALSE BY <1>2, ChartStack
<1>10. n - b = Len(c) /\ \A m \in 1..Len(c) : Arms(G, handlers[b + m], c[m], Len(frames), Running.base)
  BY <1>2, <1>9, OwnArms
<1>11. n - 1 \in Nat /\ n - 1 <= n /\ b <= n - 1 /\ n - 1 - b = Len(c) - 1 BY <1>5, <1>6, <1>8, <1>10
<1>12. u \in Seq(Handlers) /\ Len(u) = n - 1 /\ \A j \in 1..(n - 1) : u[j] = handlers[j]
  BY <1>8, <1>11, FirstN
<1> HIDE DEF b, c, u, n
<1>13. handlers' \in Seq(Handlers) /\ b <= Len(handlers') /\ \A j \in 1..b : handlers'[j] = handlers[j]
  BY <1>8, <1>11, <1>1, <1>12
<1>14. Len(handlers') - b = Len(LayNext(G).handlers) BY <1>1, <1>7, <1>11, <1>12
<1>15. ASSUME NEW m \in 1..Len(LayNext(G).handlers)
       PROVE  Arms(G, handlers'[b + m], LayNext(G).handlers[m], Len(frames), Running.base)
 <2>1. m \in 1..(Len(c) - 1) /\ m \in 1..Len(c) /\ b + m \in 1..(n - 1)
  <3>1. \A L, d, e \in Nat : e - d = L => \A j \in 1..(L - 1) : j \in 1..L /\ d + j \in 1..(e - 1)
    OBVIOUS
  <3>2. m \in 1..(Len(c) - 1) BY ONLY <1>15, <1>7
  <3> QED BY ONLY <3>1, <3>2, <1>6, <1>8, <1>10
 <2> QED BY <1>1, <1>7, <1>10, <1>12, <2>1
<1>16. Agrees(Running.stack, LayNext(G).stack) /\ LayNext(G).scope = Lay(G).scope BY <1>7, <1>9
<1> QED BY <1>1, <1>2, <1>3, <1>13, <1>14, <1>15, <1>16, HandlersOK DEF b

\* A new frame agrees with the layout of the first instruction.
LEMMA NewFrame ==
  ASSUME NEW G, Charted(G), RunTypes, NEW base \in Nat
  PROVE  LET g == Frame(base)
         IN /\ g \in Frames /\ g.pc = 1 /\ g.handler_base = Len(handlers) /\ g.base = base
            /\ g.mark = base /\ g.outer_floor = unwind_floor
            /\ Placed(G, g, 0) /\ G.at[g.pc].handlers = <<>>
<1> DEFINE g == Frame(base)
<1>1. Len(handlers) \in Nat /\ unwind_floor \in Nat BY DEF RunTypes
<1>2. /\ g \in Frames /\ g.pc = 1 /\ g.handler_base = Len(handlers) /\ g.stack = <<>>
      /\ g.base = base /\ g.scope = base /\ g.mark = base /\ g.outer_floor = unwind_floor
  BY <1>1 DEF Frame, Frames
<1> HIDE DEF g
<1>3. PICK room : Charts(G, code, room) BY DEF Charted
<1>4. 1 \in Starts(code) /\ G.at[1] = Bottom BY <1>3, ChartedCode
<1>5. Bottom.stack = <<>> /\ Bottom.scope = 0 /\ Bottom.handlers = <<>> BY DEF Bottom
<1>6. Agrees(g.stack, G.at[g.pc].stack) /\ g.scope = g.base + G.at[g.pc].scope
  BY <1>2, <1>4, <1>5 DEF Agrees
<1>7. Placed(G, g, 0) BY <1>2, <1>4, <1>6, PlacedAt
<1> QED BY <1>2, <1>4, <1>5, <1>7 DEF g

LEMMA CallCompiledArm ==
  ASSUME NEW G, Charted(G), MachineOK(G), code' = code, call_compiled
  PROVE  MachineOK(G)'
<1> DEFINE k == Len(frames)
           g == Frame(0)
<1>1. /\ At_op({"Call"}) /\ ops' = ops + 1
      /\ UNCHANGED <<phase, handlers, host, fault, cut>>
      /\ \/ raised' = "system" /\ UNCHANGED <<frames, unwind_floor>>
         \/ ~Unpaid /\ frames' = Append(frames, g) /\ unwind_floor' = 0 /\ UNCHANGED raised
  BY DEF call_compiled
<1>2. CASE raised' = "system" /\ UNCHANGED <<frames, unwind_floor>> BY <1>1, <1>2, CallStuck
<1>3. CASE ~Unpaid /\ frames' = Append(frames, g) /\ unwind_floor' = 0 /\ UNCHANGED raised
 <2>1. This.op = "Call" /\ phase = "run" /\ raised = "none" BY <1>1, BehindCall
 <2>2. ops \in Nat /\ MaxOps \in Nat /\ ops <= MaxOps BY <2>1, GrainAssumption DEF MachineOK, RunTypes
 <2>3. cut = FALSE /\ unwind_floor = Running.mark BY <2>1, ChartStack
 <2>4. /\ ops' \in 0..(MaxOps + 1) /\ ops' <= MaxOps /\ raised' = "none" /\ unwind_floor' = 0 /\ cut' = FALSE
       /\ phase' = "run" /\ fault' = "none" /\ handlers' = handlers
   BY <1>1, <1>3, <2>1, <2>2, <2>3 DEF Unpaid, MachineOK
 <2>5. /\ k \in Nat \ {0} /\ frames \in Seq(Frames) /\ Running = frames[k] /\ k \in 1..k
       /\ handlers \in Seq(Handlers) /\ Len(handlers) \in Nat
       /\ Placed(G, Running, Lack) /\ Guarded(G, k) /\ Up(k) = Len(handlers)
   BY <2>1, <2>3, RunningIs
 <2>6. Lack = 0 BY <2>1 DEF Lack
 <2>7. /\ g \in Frames /\ g.pc = 1 /\ g.handler_base = Len(handlers) /\ g.base = 0
       /\ g.mark = 0 /\ g.outer_floor = unwind_floor
       /\ Placed(G, g, 0) /\ G.at[g.pc].handlers = <<>>
  <3>1. RunTypes /\ 0 \in Nat BY DEF MachineOK
  <3> HIDE DEF g
  <3>2. g = Frame(0) BY DEF g
  <3> QED BY <3>1, <3>2, NewFrame
 <2> HIDE DEF g, k
 <2>8. /\ frames' \in Seq(Frames) /\ Len(frames') = k + 1 /\ frames'[k + 1] = g
       /\ \A i \in 1..k : frames'[i] = frames[i]
   BY <1>3, <2>5, <2>7 DEF k
 <2>9. \A i \in 1..(k + 1) : i \in 1..k \/ i = k + 1 BY <2>5
 <2>10. BasesOK'
  <3>1. \A i \in 1..k : frames[i].handler_base <= Len(handlers) BY DEF MachineOK, BasesOK, k
  <3>2. \A i, j \in 1..k : i <= j => frames[i].handler_base <= frames[j].handler_base
    BY DEF MachineOK, BasesOK, k
  <3>3. ASSUME NEW i \in 1..(k + 1), NEW j \in 1..(k + 1), i <= j
        PROVE  frames'[i].handler_base <= frames'[j].handler_base
    BY <3>1, <2>5, <2>7, <2>8, <2>9, <3>3, <3>2
  <3>4. \A i \in 1..(k + 1) : frames'[i].handler_base <= Len(handlers')
    BY <3>1, <2>4, <2>5, <2>7, <2>8, <2>9
  <3> QED BY <3>3, <3>4, <2>8 DEF BasesOK
 <2>11. ASSUME NEW i \in 1..k
        PROVE  (Placed(G, frames[i], 0) /\ code[frames[i].pc].op = "Call")'
  <3>1. Placed(G, frames[i], 0) /\ code[frames[i].pc].op = "Call"
    BY <2>5, <2>6, <2>1 DEF This, MachineOK, k
  <3>2. frames'[i] = frames[i] BY <2>8
  <3> QED BY <3>1, <3>2 DEF Placed
 <2>12. Running' = g /\ Lack' = 0 BY <2>4, <2>8 DEF Running, Lack
 <2>13. Placed(G, Running, Lack)' BY <2>7, <2>12 DEF Placed
 <2>14. ASSUME NEW i \in 1..(k + 1)
        PROVE  Guarded(G, i)'
  <3>1. CASE i = k + 1 BY <2>4, <2>8, <3>1, <2>5, <2>7 DEF Up, Guarded
  <3>2. CASE i \in 1..k
   <4>1. Guarded(G, i) BY <2>3, <3>2 DEF MachineOK, k
   <4>2. frames'[i] = frames[i] BY <2>8, <3>2
   <4>3. Up(i)' = Up(i) BY <2>5, <2>7, <2>8, <3>2 DEF Up, k
   <4>4. \A m \in 1..Len(G.at[frames'[i].pc].handlers) :
           Arms(G, handlers'[frames'[i].handler_base + m], G.at[frames'[i].pc].handlers[m], i, frames'[i].base)
     BY <2>4, <4>1, <4>2 DEF Guarded
   <4>5. \A m \in 1..Len(G.at[frames'[i].pc].handlers) :
           Arms(G, handlers[frames[i].handler_base + m], G.at[frames[i].pc].handlers[m], i, frames[i].base)'
     BY <4>4 DEF Arms
   <4>6. Up(i)' - frames'[i].handler_base = Len(G.at[frames'[i].pc].handlers)
     BY <4>1, <4>2, <4>3 DEF Guarded
   <4> QED BY <4>5, <4>6 DEF Guarded
  <3> QED BY <2>9, <3>1, <3>2
 <2>15. Floors'
  <3>0. Floors BY <2>3 DEF MachineOK
  <3>1. unwind_floor' = frames'[k + 1].mark BY <2>4, <2>7, <2>8
  <3>2. ASSUME NEW i \in 1..k
        PROVE  frames'[i + 1].outer_floor = frames'[i].mark
    BY <2>3, <2>5, <2>7, <2>8, <3>0 DEF Floors, k
  <3>3. \A i \in 1..(k + 1) : i < k + 1 => i \in 1..k BY <2>5
  <3> QED BY <2>8, <3>1, <3>2, <3>3 DEF Floors
 <2>16. RunTypes' BY <1>1, <2>4, <2>5, <2>8 DEF MachineOK, RunTypes
 <2>17. Len(frames') > 0 /\ \A i \in 1..(k + 1) : i < k + 1 => i \in 1..k BY <2>5, <2>8
 <2> QED BY <2>4, <2>8, <2>10, <2>11, <2>13, <2>14, <2>15, <2>16, <2>17 DEF MachineOK
<1> QED BY <1>1, <1>2, <1>3

\* A frame that waits for what it has called, and what becomes of it.
LEMMA WaitingFrame ==
  ASSUME NEW G, Charted(G), MachineOK(G), NEW i \in 1..Len(frames), i < Len(frames), NEW value \in BOOLEAN
  PROVE  LET f == frames[i]
             g == IF value THEN Next_pc(Pushed(f, "v")) ELSE f
         IN /\ g \in Frames /\ Twin(g, f) /\ Placed(G, g, 0)
            /\ G.at[g.pc].handlers = G.at[f.pc].handlers
            /\ ~value => code[g.pc].op = "Call"
<1> DEFINE f == frames[i]
           x == Pushed(f, "v")
           g == Next_pc(x)
           s == G.at[f.pc]
           p == f.pc + width("Call")
           t == G.at[p]
<1>1. f \in Frames BY DEF MachineOK, RunTypes
<1>2. code[f.pc].op = "Call" /\ Placed(G, f, 0) BY DEF MachineOK
<1>3. f.pc \in Starts(code) /\ f.scope = f.base + s.scope BY <1>2 DEF Placed
<1>4. PICK room : Charts(G, code, room) BY DEF Charted
<1>5. code[f.pc].op \notin Ends BY <1>2 DEF Ends
<1>6. /\ s \in Layouts /\ p \in Starts(code) /\ p \in Nat \ {0} /\ t \in Layouts
      /\ Behind("Call", code[f.pc].arg, f.pc, s, t)
  BY <1>2, <1>3, <1>4, <1>5, ChartedStart
<1>7. t = Plus(s, 0) BY <1>6 DEF Behind
<1>8. t.stack = Append(s.stack, 0) /\ t.scope = s.scope /\ t.handlers = s.handlers /\ s.stack \in Seq(Nat) /\ 0 \in Nat
 <2> HIDE DEF s, t, f, p
 <2>1. 0 \in Nat /\ s \in Layouts BY <1>6
 <2>2. Plus(s, 0).stack = Append(s.stack, 0) /\ Plus(s, 0).scope = s.scope /\ Plus(s, 0).handlers = s.handlers
   BY <2>1, PlusType
 <2> QED BY <1>7, <2>1, <2>2, LayoutType
<1>9. f.stack \in Seq({"v", "i"}) /\ Len(f.stack) \in Nat /\ Len(s.stack) \in Nat
 <2>1. f.stack \in Seq({"v", "i"}) BY ONLY <1>1 DEF Frames
 <2> HIDE DEF f, s
 <2> QED BY ONLY <2>1, <1>8
<1>10. Agrees(f.stack, s.stack) BY <1>2, <1>9 DEF Placed, Agrees, Fills
<1>11. x \in Frames /\ x.stack = Append(f.stack, "v") /\ x.pc = f.pc /\ x.scope = f.scope /\ Twin(x, f)
  BY <1>1, FrameMoves
<1>12. g = [x EXCEPT !.pc = p] BY <1>2, <1>11 DEF Next_pc
<1> HIDE DEF x, g, p
<1>13. g \in Frames /\ g.pc = p /\ g.stack = x.stack /\ g.scope = x.scope /\ g.base = x.base /\ Twin(g, f)
  BY <1>6, <1>11, <1>12 DEF Frames, Twin
<1>14. Agrees(Append(f.stack, Kind(0)), Append(s.stack, 0)) /\ Kind(0) = "v"
  BY <1>8, <1>9, <1>10, AgreesMore DEF Kind
<1>15. Agrees(g.stack, G.at[g.pc].stack) /\ g.scope = g.base + G.at[g.pc].scope
  BY <1>3, <1>8, <1>11, <1>13, <1>14 DEF Twin
<1>16. Placed(G, g, 0) BY <1>6, <1>13, <1>15, PlacedAt
<1>17. CASE value BY <1>8, <1>13, <1>16, <1>17 DEF f, g, x
<1>18. CASE ~value BY <1>1, <1>2, <1>18 DEF f, Twin
<1> QED BY <1>17, <1>18

\* The running frame goes.
LEMMA GoneOK ==
  ASSUME NEW G, Charted(G), MachineOK(G), phase = "run", code' = code,
         NEW value \in BOOLEAN, NEW scope \in Nat, Without(value, scope),
         handlers' \in Seq(Handlers), Running.handler_base <= Len(handlers'),
         \A j \in 1..Running.handler_base : handlers'[j] = handlers[j],
         Tallied, value <=> raised' = "none",
         ~cut' => Len(handlers') = Running.handler_base,
         ~cut' => unwind_floor' = Running.outer_floor
  PROVE  MachineOK(G)'
<1> DEFINE k == Len(frames)
           q == k - 1
<1>1. /\ k \in Nat \ {0} /\ Running = frames[k] /\ k \in 1..k /\ frames \in Seq(Frames)
      /\ Running.handler_base \in Nat /\ Len(handlers') \in Nat
  BY RunningIs
<1>2. /\ fault' = "none" /\ (raised' # "system" => ops' <= MaxOps) /\ (cut' => raised' = "system")
      /\ (~cut' => ~cut)
  BY DEF Tallied
<1>3. CASE k = 1
 <2>1. /\ frames' = [i \in 1..0 |-> IF value /\ i = 0 THEN Next_pc(Pushed(frames[i], "v")) ELSE frames[i]]
       /\ phase' = "end"
   BY <1>3 DEF Without
 <2>2. frames' \in [1..0 -> Frames] BY <2>1
 <2>3. frames' \in Seq(Frames) /\ Len(frames') = 0 BY <2>2
 <2>4. RunTypes' BY <2>3 DEF RunTypes, Tallied
 <2>5. BasesOK' BY <2>3 DEF BasesOK
 <2>6. \A i \in 1..Len(frames') : FALSE BY <2>3
 <2>7. Floors' BY <2>3, <2>6 DEF Floors
 <2> QED BY <1>2, <2>1, <2>3, <2>4, <2>5, <2>6, <2>7 DEF MachineOK
<1>4. CASE k # 1
 <2> DEFINE g == IF value THEN Next_pc(Pushed(frames[q], "v")) ELSE frames[q]
 <2>1. q \in 1..k /\ q < k /\ q \in Nat \ {0}
  <3>1. k \in Nat \ {0} /\ k # 1 BY <1>1, <1>4
  <3> HIDE DEF k
  <3> QED BY <3>1
 <2>2. frames' = [i \in 1..q |-> IF value /\ i = q THEN Next_pc(Pushed(frames[i], "v")) ELSE frames[i]]
       /\ phase' = "run"
   BY <1>4 DEF Without
 <2>3. /\ g \in Frames /\ Twin(g, frames[q]) /\ Placed(G, g, 0)
       /\ G.at[g.pc].handlers = G.at[frames[q].pc].handlers
       /\ ~value => code[g.pc].op = "Call"
   BY <2>1, WaitingFrame
 <2>4. \A i \in 1..q : frames'[i] = IF i = q THEN g ELSE frames[i] BY <2>2
 <2>5. DOMAIN frames' = 1..q BY <2>2
 <2>15. \A i \in 1..q : i \in 1..k BY <2>1
 <2>16. \A i \in 1..k : frames[i] \in Frames BY <1>1
 <2> HIDE DEF g, k, q
 <2>6. /\ frames' \in Seq(Frames) /\ Len(frames') = q
       /\ frames'[q] = g
       /\ \A i \in 1..q : i # q => frames'[i] = frames[i]
  <3>1. frames' \in [1..q -> Frames] BY <2>3, <2>4, <2>15, <2>16, <2>2
  <3> QED BY <3>1, <2>1, <2>4
 <2>7. \A i \in 1..q : /\ frames'[i].handler_base = frames[i].handler_base /\ frames[i].handler_base \in Nat
                       /\ frames'[i].base = frames[i].base /\ frames'[i].mark = frames[i].mark
                       /\ frames'[i].outer_floor = frames[i].outer_floor
                       /\ G.at[frames'[i].pc].handlers = G.at[frames[i].pc].handlers
   BY <2>15, <2>16, <2>3, <2>6 DEF Frames, Twin
 <2>8. BasesOK'
  <3>1. \A i, j \in 1..k : i <= j => frames[i].handler_base <= frames[j].handler_base
    BY DEF MachineOK, BasesOK, k
  <3>2. \A i \in 1..q : i <= k => frames[i].handler_base <= Running.handler_base BY <3>1, <1>1, <2>15
  <3>3. \A i \in 1..q : frames[i].handler_base <= Len(handlers') BY <3>2, <1>1, <2>1, <2>7
  <3> QED BY <3>1, <3>3, <2>6, <2>7, <2>15 DEF BasesOK
 <2>9. ASSUME NEW i \in 1..q
       PROVE  /\ Up(i) = frames[i + 1].handler_base /\ Up(i) \in Nat /\ Up(i) <= Running.handler_base
              /\ ~cut' => Up(i)' = Up(i)
  <3>1. i + 1 \in 1..k /\ i + 1 <= k /\ i # k BY <1>1, <2>1 DEF q
  <3>2. frames[i + 1].handler_base <= frames[k].handler_base BY <3>1, <1>1 DEF MachineOK, BasesOK, k
  <3>3. Up(i) = frames[i + 1].handler_base /\ Up(i) \in Nat BY <3>1, <2>16 DEF Up, k, Frames
  <3>4. CASE i = q BY <3>4, <1>1, <3>2, <3>3, <2>6 DEF q, Up
  <3>5. CASE i # q BY <3>5, <2>1, <3>2, <3>3, <2>6, <2>7, <1>1 DEF Up
  <3> QED BY <3>4, <3>5
 <2>10. ASSUME NEW i \in 1..q, i < q
        PROVE  (Placed(G, frames[i], 0) /\ code[frames[i].pc].op = "Call")'
  <3>1. Placed(G, frames[i], 0) /\ code[frames[i].pc].op = "Call" BY <1>1, <2>1, <2>10 DEF MachineOK, k
  <3>2. frames'[i] = frames[i] BY <2>1, <2>6, <2>10
  <3> QED BY <3>1, <3>2 DEF Placed
 <2>11. Placed(G, Running, Lack)'
  <3>1. Running' = g BY <2>6 DEF Running
  <3>2. Lack' = 0 BY <2>3, <3>1 DEF Lack, This, takes, Branches, Advances
  <3> QED BY <2>3, <3>1, <3>2 DEF Placed
 <2>12. ASSUME ~cut', NEW i \in 1..q
        PROVE  Guarded(G, i)'
  <3>1. Guarded(G, i) BY <1>2, <2>12, <2>15 DEF MachineOK, k
  <3>2. /\ frames'[i].handler_base = frames[i].handler_base /\ frames[i].handler_base \in Nat
        /\ Up(i)' = Up(i) /\ Up(i) \in Nat /\ Up(i) <= Running.handler_base
        /\ frames'[i].base = frames[i].base
        /\ G.at[frames'[i].pc].handlers = G.at[frames[i].pc].handlers
    BY <2>7, <2>9, <2>12
  <3> DEFINE c == Len(G.at[frames[i].pc].handlers)
             b == frames[i].handler_base
  <3>3. Up(i) - b = c /\ b \in Nat /\ Up(i) \in Nat /\ Up(i) <= Running.handler_base
    BY <3>1, <3>2 DEF Guarded
  <3> HIDE DEF c, b
  <3>4. ASSUME NEW m \in 1..c
        PROVE  handlers'[b + m] = handlers[b + m]
   <4>1. \A x, y, u \in Nat : x - y = c /\ x <= u => \A j \in 1..c : y + j \in 1..u OBVIOUS
   <4>2. b + m \in 1..Running.handler_base BY ONLY <1>1, <3>3, <3>4, <4>1
   <4> QED BY <4>2
  <3>5. \A m \in 1..c : Arms(G, handlers[b + m], G.at[frames[i].pc].handlers[m], i, frames[i].base)
    BY <3>1 DEF Guarded, b, c
  <3>6. \A m \in 1..c : Arms(G, handlers'[b + m], G.at[frames[i].pc].handlers[m], i, frames[i].base)
    BY <3>4, <3>5
  <3>7. Up(i)' - frames'[i].handler_base = Len(G.at[frames'[i].pc].handlers) BY <3>2, <3>3 DEF c, b
  <3>8. \A m \in 1..Len(G.at[frames[i].pc].handlers) :
          Arms(G, handlers'[frames[i].handler_base + m], G.at[frames[i].pc].handlers[m], i, frames[i].base)
    BY <3>6 DEF b, c
  <3>9. \A m \in 1..Len(G.at[frames'[i].pc].handlers) :
          Arms(G, handlers'[frames'[i].handler_base + m], G.at[frames'[i].pc].handlers[m], i, frames'[i].base)
    BY <3>2, <3>8
  <3>10. \A m \in 1..Len(G.at[frames'[i].pc].handlers) :
          Arms(G, handlers[frames[i].handler_base + m], G.at[frames[i].pc].handlers[m], i, frames[i].base)'
    BY <3>9 DEF Arms
  <3> QED BY <3>7, <3>10 DEF Guarded
 <2>13. ASSUME ~cut'
        PROVE  Floors'
  <3>0. Floors BY <1>2, <2>13 DEF MachineOK
  <3>1. \A i \in 1..k : i < k => frames[i + 1].outer_floor = frames[i].mark BY <3>0 DEF Floors, k
  <3>2. unwind_floor' = frames'[q].mark BY <1>1, <2>1, <3>1, <2>7, <2>13 DEF q
  <3>3. ASSUME NEW i \in 1..q, i < q
        PROVE  frames'[i + 1].outer_floor = frames'[i].mark
    BY <1>1, <2>1, <3>3, <2>7, <3>1
  <3> QED BY <2>6, <3>2, <3>3 DEF Floors
 <2>14. RunTypes' BY <2>6 DEF RunTypes, Tallied
 <2>17. Len(frames') > 0 BY <2>1, <2>6
 <2> QED BY <1>2, <2>2, <2>6, <2>8, <2>10, <2>11, <2>12, <2>13, <2>14, <2>17 DEF MachineOK
<1> QED BY <1>3, <1>4

\* The handlers of the frames below.
LEMMA StillBelow ==
  ASSUME NEW G, MachineOK(G), phase = "run", handlers' = SubSeq(handlers, 1, Running.handler_base)
  PROVE  /\ handlers' \in Seq(Handlers) /\ Len(handlers') = Running.handler_base
         /\ Running.handler_base <= Len(handlers')
         /\ \A j \in 1..Running.handler_base : handlers'[j] = handlers[j]
<1> DEFINE b == Running.handler_base
           u == SubSeq(handlers, 1, b)
<1>1. b \in Nat /\ b <= Len(handlers) /\ handlers \in Seq(Handlers) /\ handlers' = u BY RunningIs
<1> HIDE DEF b
<1>2. u \in Seq(Handlers) /\ Len(u) = b /\ \A j \in 1..b : u[j] = handlers[j] BY <1>1, FirstN
<1>3. b <= b BY <1>1
<1> HIDE DEF u
<1>4. handlers' \in Seq(Handlers) /\ Len(handlers') = b /\ b <= Len(handlers') /\ \A j \in 1..b : handlers'[j] = handlers[j]
  BY <1>1, <1>2, <1>3
<1> QED BY <1>4 DEF b

LEMMA ReturnArm ==
  ASSUME NEW G, Charted(G), MachineOK(G), code' = code, RETURN
  PROVE  MachineOK(G)'
<1>1. /\ phase = "run" /\ raised = "none" /\ Without(TRUE, Running.scope)
      /\ handlers' = SubSeq(handlers, 1, Running.handler_base)
      /\ unwind_floor' = Running.outer_floor
      /\ UNCHANGED <<raised, ops, fault, cut>>
  BY DEF RETURN, At_op, Restored_floor
<1>2. Running.scope \in Nat /\ Running.outer_floor \in Nat BY <1>1, RunningIs
<1>3. host' \in Nat BY <1>1, <1>2 DEF Without, MachineOK, RunTypes
<1>4. Tallied BY <1>1, <1>2, <1>3 DEF Tallied, MachineOK, RunTypes
<1>5. /\ handlers' \in Seq(Handlers) /\ Len(handlers') = Running.handler_base
      /\ Running.handler_base <= Len(handlers')
      /\ \A j \in 1..Running.handler_base : handlers'[j] = handlers[j]
  BY <1>1, StillBelow
<1>6. TRUE <=> raised' = "none" BY <1>1
<1> QED BY <1>1, <1>2, <1>4, <1>5, <1>6, GoneOK

\* The innermost handler is that of a try region that the instruction is in.
LEMMA CaughtBy ==
  ASSUME NEW G, Charted(G), MachineOK(G), phase = "run", Caught
  PROVE  /\ ~cut /\ raised = "catchable"
         /\ Innermost \in (Running.handler_base + 1)..Len(handlers) /\ Innermost \in Nat \ {0}
         /\ handlers[Innermost] \in Handlers
         /\ Innermost - Running.handler_base \in 1..Len(Lay(G).handlers)
         /\ Arms(G, handlers[Innermost], Lay(G).handlers[Innermost - Running.handler_base], Len(frames), Running.base)
         /\ handlers[Innermost].caught = FALSE
<1> DEFINE b == Running.handler_base
           n == Len(handlers)
<1>1. raised = "catchable" /\ Armed # {} BY DEF Caught, is_catchable
<1>2. ~cut BY <1>1 DEF MachineOK
<1>3. handlers \in Seq(Handlers) /\ b \in Nat /\ n \in Nat /\ b <= n BY RunningIs
<1>4. n - b = Len(Lay(G).handlers)
      /\ \A m \in 1..Len(Lay(G).handlers) : Arms(G, handlers[b + m], Lay(G).handlers[m], Len(frames), Running.base)
  BY <1>2, OwnArms
<1>5. Armed \subseteq (b + 1)..n /\ \A i \in Armed : handlers[i].caught # TRUE BY DEF Armed
<1> HIDE DEF b, n
<1>6. \E m \in Armed : \A j \in Armed : j <= m
 <2>1. Armed \subseteq 1..n BY <1>3, <1>5
 <2> QED BY <1>1, <1>3, <2>1, LargestOf
<1>7. Innermost \in Armed BY <1>6 DEF Innermost
<1>8. Innermost \in (b + 1)..n /\ Innermost \in 1..n /\ Innermost - b \in 1..(n - b) /\ b + (Innermost - b) = Innermost
      /\ Innermost \in Nat \ {0}
  BY <1>3, <1>5, <1>7
<1>9. handlers[Innermost] \in Handlers BY <1>3, <1>8 DEF n
<1>10. Arms(G, handlers[Innermost], Lay(G).handlers[Innermost - b], Len(frames), Running.base)
 <2> DEFINE j == Innermost - b
 <2>1. j \in 1..Len(Lay(G).handlers) /\ b + j = Innermost BY <1>4, <1>8
 <2> HIDE DEF j
 <2>2. Arms(G, handlers[b + j], Lay(G).handlers[j], Len(frames), Running.base) BY <1>4, <2>1
 <2> QED BY <2>1, <2>2 DEF j
<1>11. handlers[Innermost].caught = FALSE BY <1>5, <1>7, <1>9 DEF Handlers
<1> QED BY <1>1, <1>2, <1>4, <1>8, <1>9, <1>10, <1>11 DEF b, n

LEMMA LeaveArm ==
  ASSUME NEW G, Charted(G), MachineOK(G), code' = code, leave_with_error
  PROVE  MachineOK(G)'
<1> DEFINE e == IF Caught THEN Cut_back.scope ELSE Running.scope
           n == Lesser(e, unwind_floor)
<1>1. /\ phase = "run" /\ raised # "none" /\ Without(FALSE, n)
      /\ handlers' = SubSeq(handlers, 1, Running.handler_base)
      /\ unwind_floor' = Running.outer_floor
      /\ raised' = IF Caught THEN "system" ELSE raised
      /\ UNCHANGED <<ops, fault, cut>>
  BY DEF leave_with_error, Restored_floor
<1>2. Running.scope \in Nat /\ Running.outer_floor \in Nat /\ unwind_floor \in Nat /\ Running \in Frames
  BY <1>1, RunningIs DEF MachineOK, RunTypes
<1>3. e \in Nat BY <1>1, CaughtBy, <1>2 DEF Handlers, Cut_back, Frames, Lesser
<1> HIDE DEF e
<1>4. n \in Nat BY <1>2, <1>3 DEF Lesser
<1> HIDE DEF n
<1>5. host' \in Nat BY <1>1, <1>4 DEF Without, MachineOK, RunTypes
<1>6. raised' # "none" /\ (cut => raised' = "system") /\ (ops' <= MaxOps \/ raised' = "system")
      /\ raised' \in {"none", "catchable", "system"}
  BY <1>1 DEF MachineOK, RunTypes
<1>7. Tallied BY <1>1, <1>2, <1>5, <1>6 DEF Tallied, MachineOK, RunTypes
<1>8. /\ handlers' \in Seq(Handlers) /\ Len(handlers') = Running.handler_base
      /\ Running.handler_base <= Len(handlers')
      /\ \A j \in 1..Running.handler_base : handlers'[j] = handlers[j]
  BY <1>1, StillBelow
<1>9. FALSE <=> raised' = "none" BY <1>6
<1> QED BY <1>1, <1>4, <1>7, <1>8, <1>9, GoneOK

LEMMA CatchUnpaidArm ==
  ASSUME NEW G, Charted(G), MachineOK(G), code' = code, catch_unpaid
  PROVE  MachineOK(G)'
<1> DEFINE m == Innermost
           n == Resumed.scope
           b == Running.handler_base
           u == SubSeq(handlers, 1, m)
<1>1. /\ phase = "run" /\ Caught /\ Without(FALSE, n)
      /\ handlers' = [u EXCEPT ![m].caught = TRUE]
      /\ raised' = "system" /\ ops' = ops + 1 /\ cut' = TRUE
      /\ UNCHANGED <<unwind_floor, fault>>
  BY DEF catch_unpaid
<1>2. /\ m \in (b + 1)..Len(handlers) /\ m \in Nat \ {0} /\ handlers[m] \in Handlers
      /\ raised = "catchable"
  BY <1>1, CaughtBy
<1>3. /\ b \in Nat /\ handlers \in Seq(Handlers) /\ Len(handlers) \in Nat /\ Running.scope \in Nat
      /\ Running \in Frames
  BY <1>1, RunningIs
<1>4. n \in Nat
 <2> DEFINE s == Lesser(Running.scope, handlers[m].scope_len)
            t == SubSeq(Running.stack, 1, Lesser(Len(Running.stack), handlers[m].operands))
            x == [Running EXCEPT !.stack = t, !.scope = s]
 <2>1. s \in Nat BY <1>2, <1>3 DEF Lesser, Handlers
 <2>2. n = x.scope + 1
  <3>1. Resumed = [x EXCEPT !.scope = @ + 1, !.pc = handlers[m].target] BY DEF Resumed, Cut_back
  <3>2. DOMAIN x = DOMAIN Running OBVIOUS
  <3>3. "scope" \in DOMAIN x BY <3>2, <1>3 DEF Frames
  <3> HIDE DEF x
  <3> QED BY <3>1, <3>3
 <2> HIDE DEF s, t
 <2>3. x.scope = s BY <1>3 DEF Frames
 <2> QED BY <2>1, <2>2, <2>3
<1> HIDE DEF n
<1>5. host' \in Nat BY <1>1, <1>4 DEF Without, MachineOK, RunTypes
<1>6. /\ u \in Seq(Handlers) /\ Len(u) = m /\ \A j \in 1..m : u[j] = handlers[j] BY <1>2, <1>3, FirstN
<1> HIDE DEF u
<1>7. /\ handlers' \in Seq(Handlers) /\ Len(handlers') = m
      /\ \A j \in 1..m : j # m => handlers'[j] = handlers[j]
 <2>1. u[m] = handlers[m] /\ m \in 1..m BY <1>2, <1>6
 <2>2. [handlers[m] EXCEPT !.caught = TRUE] \in Handlers BY <1>2 DEF Handlers
 <2> HIDE DEF m
 <2> QED BY <2>1, <2>2, <1>1, <1>6
<1>8. b <= Len(handlers') /\ \A j \in 1..b : handlers'[j] = handlers[j]
 <2> HIDE DEF m, b
 <2> QED BY <1>2, <1>3, <1>7
<1>9. ops' \in 0..(MaxOps + 1) BY <1>2, GrainAssumption, <1>1 DEF MachineOK, RunTypes
<1>10. Tallied BY <1>1, <1>5, <1>9 DEF Tallied, MachineOK, RunTypes
<1>11. (FALSE <=> raised' = "none") /\ cut' BY <1>1
<1> HIDE DEF m, b
<1>12. Running.handler_base <= Len(handlers') /\ \A j \in 1..Running.handler_base : handlers'[j] = handlers[j]
  BY <1>8 DEF b
<1> QED BY <1>1, <1>4, <1>7, <1>10, <1>11, <1>12, GoneOK

\* The region r that is the n-th that the instruction is in began with what is still there, and its
\* catch block is entered with as much.
LEMMA RegionFacts ==
  ASSUME NEW G, Charted(G), MachineOK(G), phase = "run", NEW n \in 1..Len(Lay(G).handlers)
  PROVE  LET r == Lay(G).handlers[n]
             x == r.site
             t == G.at[code[x].arg]
         IN /\ r \in Regions /\ x \in Nat \ {0}
            /\ G.at[x] \in Layouts /\ Within(G.at[x], Lay(G))
            /\ Len(G.at[x].stack) + takes(This.op) <= Len(Lay(G).stack)
            /\ code[x].arg \in Starts(code) /\ t \in Layouts
            /\ t.stack = G.at[x].stack /\ t.scope = G.at[x].scope + 1
            /\ Len(t.handlers) = n /\ t.handlers[n] = [site |-> x, caught |-> TRUE]
            /\ \A j \in 1..(n - 1) : t.handlers[j] = Lay(G).handlers[j]
<1> DEFINE s == Lay(G)
           r == s.handlers[n]
           x == r.site
           t == G.at[code[x].arg]
           y == G.at[x]
<1>1. PICK room : Charts(G, code, room) BY DEF Charted
<1>2. s \in Layouts /\ Spares(G, This.op, s) BY ChartHere
<1>3. s.handlers \in Seq(Regions) /\ Len(s.handlers) \in Nat /\ r \in Regions /\ x \in Nat \ {0}
  BY <1>2, LayoutType
<1>4. Good(G) /\ G.code = code BY <1>1 DEF Charts
<1>5. Running.pc \in DOMAIN G.at BY <1>1, RunningIs, ChartedStart
<1>6. LayoutOK(G, s) BY <1>4, <1>5 DEF Good, Lay
<1>7. /\ x \in 1..Len(code) /\ code[x].op = "PushHandler"
      /\ y \in Layouts /\ Within(y, s) /\ y.handlers = SubSeq(s.handlers, 1, n - 1)
  BY <1>4, <1>6 DEF LayoutOK
<1>8. Len(y.stack) + takes(This.op) <= Len(s.stack) BY <1>2 DEF Spares
<1>9. x \in Starts(code) /\ code[x].op \in Targeted BY <1>7 DEF Starts, Targeted
<1>10. code[x].arg \in Starts(code) /\ t \in Layouts /\ Ahead("PushHandler", x, y, t)
 <2> HIDE DEF x, s
 <2>1. code[x].arg \in Starts(code) /\ G.at[code[x].arg] \in Layouts
       /\ Ahead(code[x].op, x, G.at[x], G.at[code[x].arg])
   BY ONLY <1>1, <1>9, ChartedStart
 <2> QED BY ONLY <2>1, <1>7
<1>11. t = Catching(y, x) BY <1>10 DEF Ahead
<1> DEFINE q == n - 1
<1>12. q \in Nat /\ q <= Len(s.handlers) /\ q + 1 = n BY <1>3
<1> HIDE DEF q
<1>13. SubSeq(s.handlers, 1, q) \in Seq(Regions) /\ Len(SubSeq(s.handlers, 1, q)) = q
       /\ \A j \in 1..q : SubSeq(s.handlers, 1, q)[j] = s.handlers[j]
  BY <1>3, <1>12, FirstN
<1>14. y.handlers = SubSeq(s.handlers, 1, q) BY <1>7 DEF q
<1> HIDE DEF s, r, x, y, t
<1>15. /\ Catching(y, x).stack = y.stack /\ Catching(y, x).scope = y.scope + 1
       /\ Len(Catching(y, x).handlers) = Len(y.handlers) + 1
       /\ \A j \in 1..Len(y.handlers) : Catching(y, x).handlers[j] = y.handlers[j]
       /\ Catching(y, x).handlers[Len(y.handlers) + 1] = [site |-> x, caught |-> TRUE]
  BY <1>3, <1>7, CatchingType
<1>16. /\ t.stack = y.stack /\ t.scope = y.scope + 1
       /\ Len(t.handlers) = n /\ t.handlers[n] = [site |-> x, caught |-> TRUE]
       /\ \A j \in 1..q : t.handlers[j] = s.handlers[j]
  BY <1>12, <1>13, <1>14, <1>11, <1>15
<1> QED BY <1>3, <1>7, <1>8, <1>10, <1>16 DEF s, r, x, y, t, q

\* The frame that resumes.
LEMMA ResumedIs ==
  ASSUME NEW G, Charted(G), MachineOK(G), phase = "run", Caught
  PROVE  LET h == handlers[Innermost]
             c == Lesser(Len(Running.stack), h.operands)
         IN /\ Resumed \in Frames /\ Resumed.pc = h.target /\ Twin(Resumed, Running)
            /\ Resumed.base = Running.base /\ Resumed.stack = SubSeq(Running.stack, 1, c)
            /\ Resumed.scope = Lesser(Running.scope, h.scope_len) + 1
<1> DEFINE h == handlers[Innermost]
           c == Lesser(Len(Running.stack), h.operands)
           t == SubSeq(Running.stack, 1, c)
           s == Lesser(Running.scope, h.scope_len)
           x == [Running EXCEPT !.stack = t, !.scope = s]
           p == h.target
           g == Resumed
<1>1. h \in Handlers BY CaughtBy
<1>2. Running \in Frames /\ Running.stack \in Seq({"v", "i"}) /\ Len(Running.stack) \in Nat /\ Running.scope \in Nat
  BY RunningIs
<1>3. h.operands \in Nat /\ h.scope_len \in Nat /\ p \in Nat \ {0} BY <1>1 DEF Handlers
<1>4. c \in Nat /\ c <= Len(Running.stack) /\ s \in Nat BY <1>2, <1>3 DEF Lesser
<1>5. t \in Seq({"v", "i"}) BY <1>2, <1>4, FirstN
<1>6. g = [x EXCEPT !.scope = @ + 1, !.pc = p] BY DEF Resumed, Cut_back
<1> HIDE DEF t, s, g, h, p, c
<1>7. x \in Frames /\ x.stack = t /\ x.scope = s /\ Twin(x, Running) BY <1>2, <1>4, <1>5 DEF Frames, Twin
<1> DEFINE q == x.scope + 1
<1>8. g = [x EXCEPT !.scope = q, !.pc = p] BY <1>6
<1>9. q = s + 1 BY <1>7
<1> HIDE DEF x
<1>10. q \in Nat BY <1>4, <1>9
<1> HIDE DEF q
<1>11. g \in Frames /\ g.pc = p /\ g.stack = t /\ g.scope = q /\ Twin(g, x)
  BY <1>3, <1>7, <1>8, <1>10 DEF Frames, Twin
<1>12. Twin(g, Running) /\ g.base = Running.base BY <1>7, <1>11 DEF Twin
<1> QED BY <1>9, <1>11, <1>12 DEF g, p, t, s, c, h

\* The counters when a handler resumes.
LEMMA CatchTallied ==
  ASSUME NEW G, Charted(G), MachineOK(G), catch
  PROVE  Tallied /\ raised' = "none"
<1>1. /\ phase = "run" /\ Caught /\ ~Unpaid /\ raised' = "none" /\ ops' = ops + 1
      /\ UNCHANGED <<phase, unwind_floor, host, fault, cut>>
  BY DEF catch
<1>2. raised = "catchable" /\ ~cut BY <1>1, CaughtBy
<1>3. ops \in Nat /\ ops <= MaxOps /\ MaxOps \in Nat BY <1>2, GrainAssumption DEF MachineOK, RunTypes
<1>4. ops' \in 0..(MaxOps + 1) /\ ops' <= MaxOps BY <1>1, <1>3 DEF Unpaid
<1>5. unwind_floor' \in Nat /\ host' \in Nat /\ fault' = "none" /\ cut' = cut /\ cut \in BOOLEAN
  BY <1>1 DEF MachineOK, RunTypes
<1> QED BY <1>1, <1>2, <1>4, <1>5 DEF Tallied

\* The frame that resumes is where the catch block begins, with all its operands.
LEMMA ResumedPlaced ==
  ASSUME NEW G, Charted(G), MachineOK(G), phase = "run", Caught
  PROVE  Placed(G, Resumed, 0)
<1> DEFINE n == Innermost - Running.handler_base
           h == handlers[Innermost]
           r == Lay(G).handlers[n]
           y == G.at[r.site]
           t == G.at[code[r.site].arg]
           s == Lay(G)
           st == Running.stack
           c == Lesser(Len(st), h.operands)
           g == Resumed
<1>1. /\ n \in 1..Len(s.handlers) /\ Arms(G, h, r, Len(frames), Running.base) /\ raised = "catchable"
  BY CaughtBy
<1>2. /\ y \in Layouts /\ Within(y, s) /\ Len(y.stack) + takes(This.op) <= Len(s.stack)
      /\ code[r.site].arg \in Starts(code) /\ t \in Layouts /\ t.stack = y.stack /\ t.scope = y.scope + 1
  BY <1>1, RegionFacts
<1>3. /\ g \in Frames /\ g.pc = h.target /\ g.base = Running.base /\ g.stack = SubSeq(st, 1, c)
      /\ g.scope = Lesser(Running.scope, h.scope_len) + 1
  BY ResumedIs
<1>4. /\ st \in Seq({"v", "i"}) /\ Len(st) \in Nat /\ Running.scope \in Nat /\ Running.base \in Nat
      /\ Fills(st, s.stack) /\ Len(s.stack) <= Len(st) + takes(This.op)
      /\ Running.scope = Running.base + s.scope
  BY <1>1, RunningIs DEF Placed, Lack, Lay
<1>5. s \in Layouts /\ takes(This.op) \in 0..2 BY ChartHere
<1>6. /\ h.target = code[r.site].arg /\ h.operands = Len(y.stack) /\ h.scope_len = Running.base + y.scope
  BY <1>1 DEF Arms
<1>7. /\ s.stack \in Seq(Nat) /\ Len(s.stack) \in Nat /\ s.scope \in Nat
      /\ y.stack \in Seq(Nat) /\ Len(y.stack) \in Nat /\ y.scope \in Nat
  BY <1>2, <1>5, LayoutType
<1>8. y.scope <= s.scope /\ Len(y.stack) <= Len(s.stack)
      /\ \A k \in 1..Len(y.stack) : y.stack[k] = s.stack[k]
  BY <1>2 DEF Within
<1> HIDE DEF s, y, t, r, h, n, g, st
<1>9. Len(y.stack) <= Len(st)
 <2> DEFINE k == takes(This.op)
 <2>1. k \in 0..2 /\ Len(y.stack) + k <= Len(s.stack) /\ Len(s.stack) <= Len(st) + k BY <1>2, <1>4, <1>5
 <2> HIDE DEF k
 <2> QED BY <2>1, <1>4, <1>7
<1>10. c = Len(y.stack) BY <1>4, <1>6, <1>7, <1>9 DEF Lesser
<1> HIDE DEF c
<1>11. SubSeq(st, 1, c) \in Seq({"v", "i"}) /\ Len(SubSeq(st, 1, c)) = c /\ \A k \in 1..c : SubSeq(st, 1, c)[k] = st[k]
  BY <1>4, <1>7, <1>9, <1>10, FirstN
<1>12. Agrees(g.stack, t.stack)
 <2>1. Len(g.stack) = Len(t.stack) BY <1>2, <1>3, <1>10, <1>11
 <2>2. ASSUME NEW k \in 1..Len(g.stack)
       PROVE  g.stack[k] = Kind(t.stack[k])
  <3>1. k \in 1..c /\ k \in 1..Len(y.stack) /\ k \in 1..Len(st)
    BY <2>2, <1>3, <1>4, <1>7, <1>9, <1>10, <1>11
  <3>2. g.stack[k] = st[k] BY <3>1, <1>3, <1>11
  <3>3. st[k] = Kind(s.stack[k]) BY <3>1, <1>4 DEF Fills
  <3>4. s.stack[k] = t.stack[k] BY <3>1, <1>2, <1>8
  <3> QED BY <3>2, <3>3, <3>4
 <2> QED BY <2>1, <2>2 DEF Agrees
<1>13. g.scope = g.base + t.scope
 <2>1. Lesser(Running.scope, h.scope_len) = Running.base + y.scope BY <1>4, <1>6, <1>7, <1>8 DEF Lesser
 <2> DEFINE a == Running.base
            d == y.scope
            e == a + d
 <2>2. g.scope = e + 1 /\ g.base = a /\ t.scope = d + 1 BY <2>1, <1>2, <1>3
 <2>3. a \in Nat /\ d \in Nat BY <1>4, <1>7
 <2> HIDE DEF a, d
 <2>4. e + 1 = a + (d + 1) BY <2>3
 <2> HIDE DEF e
 <2> QED BY <2>2, <2>4
<1>14. t = G.at[g.pc] /\ g.pc \in Starts(code) BY <1>2, <1>3, <1>6 DEF t
<1>15. Placed(G, g, 0) BY <1>3, <1>12, <1>13, <1>14, PlacedAt
<1> QED BY <1>15 DEF g

\* The handler of a catch block.
LEMMA ArmsSpent ==
  ASSUME NEW G, NEW h \in Handlers, NEW r \in Regions, NEW i, NEW base, Arms(G, h, r, i, base)
  PROVE  Arms(G, [h EXCEPT !.caught = TRUE], [site |-> r.site, caught |-> TRUE], i, base)
<1> DEFINE q == [h EXCEPT !.caught = TRUE]
           z == [site |-> r.site, caught |-> TRUE]
<1>1. q.caught = TRUE /\ q.owner = h.owner /\ q.target = h.target /\ q.operands = h.operands /\ q.scope_len = h.scope_len
  BY DEF Handlers
<1>2. z.site = r.site /\ z.caught = TRUE OBVIOUS
<1> HIDE DEF q, z
<1>3. Arms(G, q, z, i, base) BY <1>1, <1>2 DEF Arms
<1> QED BY <1>3 DEF q, z

\* The catch block is entered.
LEMMA CatchArm ==
  ASSUME NEW G, Charted(G), MachineOK(G), code' = code, catch
  PROVE  MachineOK(G)'
<1> DEFINE m == Innermost
           h == handlers[m]
           b == Running.handler_base
           n == m - b
           r == Lay(G).handlers[n]
           t == G.at[code[r.site].arg]
           g == Resumed
           u == SubSeq(handlers, 1, m)
<1>1. /\ phase = "run" /\ Caught /\ Put(g) /\ raised' = "none" /\ phase' = "run"
      /\ handlers' = [u EXCEPT ![m].caught = TRUE]
      /\ UNCHANGED unwind_floor /\ cut' = cut
  BY DEF catch
<1>2. /\ ~cut /\ m \in (b + 1)..Len(handlers) /\ m \in Nat \ {0} /\ h \in Handlers
      /\ n \in 1..Len(Lay(G).handlers) /\ Arms(G, h, r, Len(frames), Running.base)
  BY <1>1, CaughtBy
<1>3. /\ r \in Regions /\ t \in Layouts /\ Len(t.handlers) = n /\ t.handlers[n] = [site |-> r.site, caught |-> TRUE]
      /\ \A j \in 1..(n - 1) : t.handlers[j] = Lay(G).handlers[j]
  BY <1>1, <1>2, RegionFacts
<1>4. b \in Nat /\ handlers \in Seq(Handlers) /\ Len(handlers) \in Nat /\ unwind_floor = Running.mark
  BY <1>1, <1>2, RunningIs
<1>5. /\ Len(handlers) - b = Len(Lay(G).handlers)
      /\ \A j \in 1..Len(Lay(G).handlers) : Arms(G, handlers[b + j], Lay(G).handlers[j], Len(frames), Running.base)
      /\ (Len(frames) > 1 => Running.outer_floor = frames[Len(frames) - 1].mark)
  BY <1>1, <1>2, OwnArms
<1>6. g \in Frames /\ g.pc = h.target /\ Twin(g, Running) BY <1>1, ResumedIs
<1>7. Placed(G, g, 0) BY <1>1, ResumedPlaced
<1>8. Tallied BY CatchTallied
<1>9. t = G.at[g.pc] BY <1>2, <1>6 DEF Arms
<1>10. /\ u \in Seq(Handlers) /\ Len(u) = m /\ \A j \in 1..m : u[j] = handlers[j] BY <1>2, <1>4, FirstN
<1> HIDE DEF u, g, t, r
<1>11. /\ handlers' \in Seq(Handlers) /\ Len(handlers') = m
       /\ (\A j \in 1..m : j # m => handlers'[j] = handlers[j])
       /\ handlers'[m] = [h EXCEPT !.caught = TRUE]
 <2>1. [h EXCEPT !.caught = TRUE] \in Handlers BY <1>2 DEF Handlers
 <2>2. u[m] = h /\ m \in 1..m BY <1>2, <1>10
 <2> HIDE DEF h, m
 <2> QED BY <2>1, <2>2, <1>1, <1>10
<1>12. Arms(G, handlers'[m], t.handlers[n], Len(frames), Running.base)
 <2>1. Arms(G, [h EXCEPT !.caught = TRUE], [site |-> r.site, caught |-> TRUE], Len(frames), Running.base)
   BY <1>2, <1>3, ArmsSpent
 <2> HIDE DEF h, n, m
 <2> QED BY <2>1, <1>3, <1>11
<1> HIDE DEF b
<1>13. b + n = m /\ n \in Nat /\ m \in Nat /\ b <= m BY <1>2, <1>4
<1> HIDE DEF n, m, h
<1>14. ASSUME NEW j \in 1..n
       PROVE  Arms(G, handlers'[b + j], t.handlers[j], Len(frames), Running.base)
 <2>1. CASE j = n BY <2>1, <1>12, <1>13
 <2>2. CASE j # n
  <3>1. j \in 1..(n - 1) /\ j \in 1..Len(Lay(G).handlers) BY <2>2, <1>2, <1>5, <1>4, <1>13
  <3>2. b + j \in 1..m /\ b + j # m BY <2>2, <1>4, <1>13
  <3>3. handlers'[b + j] = handlers[b + j] BY <3>2, <1>11
  <3>4. t.handlers[j] = Lay(G).handlers[j] BY <3>1, <1>3
  <3> QED BY <3>1, <3>3, <3>4, <1>5
 <2> QED BY <2>1, <2>2
<1>15. b <= Len(handlers') /\ Len(handlers') - b = Len(t.handlers) BY <1>3, <1>4, <1>11, <1>13
<1>16. \A j \in 1..b : handlers'[j] = handlers[j] BY <1>2, <1>4, <1>13, <1>11
<1>17. /\ g.handler_base = b /\ g.base = Running.base /\ g.outer_floor = Running.outer_floor /\ g.mark = Running.mark
  BY <1>6 DEF Twin, b
<1>18. unwind_floor' = g.mark /\ (Len(frames) > 1 => g.outer_floor = frames[Len(frames) - 1].mark)
  BY <1>1, <1>4, <1>5, <1>17
<1>19. Put(g) /\ g \in Frames /\ handlers' \in Seq(Handlers) /\ raised' = "none" /\ phase' = "run" /\ phase = "run"
  BY <1>1, <1>6, <1>11
<1>20. \A j \in 1..Len(t.handlers) : Arms(G, handlers'[b + j], t.handlers[j], Len(frames), Running.base)
  BY <1>3, <1>14
<1> QED BY <1>7, <1>8, <1>9, <1>15, <1>16, <1>17, <1>18, <1>19, <1>20, ReplacedOK DEF b

\* The program's own frame.
LEMMA MainArm ==
  ASSUME NEW G, Charted(G), NotRun, code' = code, run_main
  PROVE  MachineOK(G)'
<1> DEFINE g == Frame(HostVars)
<1>1. /\ phase' = "run" /\ frames' = <<g>> /\ unwind_floor' = HostVars
      /\ UNCHANGED <<handlers, raised, ops, host, fault, cut>>
  BY DEF run_main
<1>2. /\ frames = <<>> /\ handlers = <<>> /\ raised = "none" /\ unwind_floor = 0 /\ HostVars \in Nat
      /\ cut = FALSE /\ ops = 0 /\ host = HostVars /\ fault = "none" /\ MaxOps \in Nat
  BY GrainAssumption DEF NotRun
<1>3. RunTypes
 <2>1. frames \in Seq(Frames) /\ handlers \in Seq(Handlers) BY <1>2
 <2>2. ops \in 0..(MaxOps + 1) /\ unwind_floor \in Nat BY <1>2
 <2>3. raised \in {"none", "catchable", "system"} /\ fault \in {"none", "underflow", "other"} /\ cut \in BOOLEAN
   BY <1>2
 <2> QED BY <1>2, <2>1, <2>2, <2>3 DEF RunTypes
<1>4. /\ g \in Frames /\ g.pc = 1 /\ g.handler_base = Len(handlers) /\ g.base = HostVars
      /\ g.mark = HostVars /\ Placed(G, g, 0) /\ G.at[g.pc].handlers = <<>>
 <2> HIDE DEF g
 <2>1. g = Frame(HostVars) BY DEF g
 <2> QED BY <1>2, <1>3, <2>1, NewFrame
<1> HIDE DEF g
<1>5. frames' \in Seq(Frames) /\ Len(frames') = 1 /\ frames'[1] = g /\ Len(handlers') = 0 /\ g.handler_base = 0
  BY <1>1, <1>2, <1>4
<1>6. BasesOK' BY <1>5 DEF BasesOK
<1>7. RunTypes' BY <1>1, <1>2, <1>3, <1>5 DEF RunTypes
<1>8. Running' = g /\ Lack' = 0 BY <1>1, <1>2, <1>5 DEF Running, Lack
<1>9. Placed(G, Running, Lack)' BY <1>4, <1>8 DEF Placed
<1>10. Guarded(G, 1)' BY <1>4, <1>5 DEF Up, Guarded
<1>11. Floors' BY <1>1, <1>4, <1>5 DEF Floors
<1>12. \A i \in 1..Len(frames') : i = 1 /\ ~(i < Len(frames')) BY <1>5
<1>13. ops' <= MaxOps /\ fault' = "none" /\ cut' = FALSE /\ Len(frames') > 0 BY <1>1, <1>2, <1>5
<1> QED BY <1>6, <1>7, <1>9, <1>10, <1>11, <1>12, <1>13 DEF MachineOK

\* The machine before it runs.
LEMMA NotRunIs ==
  ASSUME NEW G, NotRun', phase' # "run"
  PROVE  MachineOK(G)'
<1>1. /\ frames' = <<>> /\ handlers' = <<>> /\ unwind_floor' = 0 /\ raised' = "none" /\ ops' = 0
      /\ host' \in Nat /\ fault' = "none" /\ cut' = FALSE /\ MaxOps \in Nat
  BY GrainAssumption DEF NotRun
<1>2. Len(frames') = 0 /\ 1..0 = {} BY <1>1
<1>3. RunTypes'
 <2>1. frames' \in Seq(Frames) /\ handlers' \in Seq(Handlers) BY <1>1
 <2>2. ops' \in 0..(MaxOps + 1) /\ unwind_floor' \in Nat BY <1>1
 <2>3. raised' \in {"none", "catchable", "system"} /\ fault' \in {"none", "underflow", "other"} /\ cut' \in BOOLEAN
   BY <1>1
 <2> QED BY <1>1, <2>1, <2>2, <2>3 DEF RunTypes
<1>4. BasesOK' /\ Floors' /\ ops' <= MaxOps BY <1>1, <1>2 DEF BasesOK, Floors
<1> QED BY <1>1, <1>2, <1>3, <1>4 DEF MachineOK

\* Every arm.
LEMMA FrameArm ==
  ASSUME NEW G, Charted(G), MachineOK(G), code' = code, run_frame
  PROVE  MachineOK(G)'
<1>1. CASE malformed BY <1>1, NothingMalformed
<1>2. CASE PUSH BY <1>2, PushArm
<1>3. CASE POP BY <1>3, PopArm
<1>4. CASE DECLARE_LOCAL BY <1>4, DeclareArm
<1>5. CASE UNWIND_TO BY <1>5, UnwindArm
<1>6. CASE CHECKPOINT BY <1>6, CheckpointArm
<1>7. CASE PUSH_HANDLER BY <1>7, PushHandlerArm
<1>8. CASE POP_HANDLER BY <1>8, PopHandlerArm
<1>9. CASE ROTATE BY <1>9, RotateArm
<1>10. CASE ITER_INIT BY <1>10, IterInitArm
<1>11. CASE ITER_DROP \/ ITER_NEXT BY <1>11, IterArms
<1>12. CASE JUMP \/ JUMP_IF \/ SKIP_IF_NOT_UNIT BY <1>12, JumpArms
<1>13. CASE BIN_OP \/ THROW BY <1>13, BinThrowArms
<1>14. CASE CALL_native BY <1>14, CallNativeArm
<1>15. CASE call_compiled BY <1>15, CallCompiledArm
<1>16. CASE RETURN BY <1>16, ReturnArm
<1> QED BY <1>1, <1>2, <1>3, <1>4, <1>5, <1>6, <1>7, <1>8, <1>9, <1>10, <1>11, <1>12, <1>13, <1>14, <1>15,
<1>16 DEF run_frame

LEMMA ExecuteArm ==
  ASSUME NEW G, Charted(G), MachineOK(G), phase = "ready" => NotRun, code' = code, execute
  PROVE  MachineOK(G)'
BY MainArm, FrameArm, CatchArm, CatchUnpaidArm, LeaveArm DEF run_main, execute

\* Nothing happens.
LEMMA StaysOK ==
  ASSUME NEW G, MachineOK(G), UNCHANGED machine, phase' = phase, code' = code
  PROVE  MachineOK(G)'
<1>1. UNCHANGED <<frames, handlers, unwind_floor, raised, ops, host, fault, cut>> BY DEF machine
<1>2. RunTypes' /\ BasesOK' /\ (~cut' => Floors') BY <1>1 DEF MachineOK, RunTypes, BasesOK, Floors
<1>3. Running' = Running /\ Lack' = Lack BY <1>1 DEF Running, Lack, This
<1>5. Len(frames') > 0 => Placed(G, Running, Lack)' BY <1>1, <1>3 DEF MachineOK, Placed
<1>6. \A i \in 1..Len(frames') : i < Len(frames') => (Placed(G, frames[i], 0) /\ code[frames[i].pc].op = "Call")'
 <2>1. \A i \in 1..Len(frames) : i < Len(frames) => Placed(G, frames[i], 0) /\ code[frames[i].pc].op = "Call"
   BY DEF MachineOK
 <2> QED BY <2>1, <1>1 DEF Placed
<1>7. ASSUME ~cut', NEW i \in 1..Len(frames')
      PROVE  Guarded(G, i)'
 <2>1. Guarded(G, i) BY <1>1, <1>7 DEF MachineOK
 <2>2. Up(i)' = Up(i) BY <1>1 DEF Up
 <2> QED BY <2>1, <2>2, <1>1 DEF Guarded, Arms
<1>8. /\ phase' = "run" => Len(frames') > 0
      /\ fault' = "none" /\ (raised' # "system" => ops' <= MaxOps) /\ (cut' => raised' = "system")
  BY <1>1 DEF MachineOK
<1> QED BY <1>2, <1>5, <1>6, <1>7, <1>8 DEF MachineOK

(* A script from its first statement to its last instruction. *)

\* The chart that the verifier walks over, as far as it has gone.
Followed(G) ==
  Charts(G, code, declared) /\ (Walked(G, label, work, high_water) \/ Doomed(G, label))

\* The chart that the machine runs on.
Chosen(G) ==
  /\ Charted(G)
  /\ verdict = "accepted" => Walked(G, label, work, high_water)
  /\ verdict = "refused" => Charts(G, code, declared) /\ Doomed(G, label)

CInv ==
  origin = "compiled" =>
    /\ declared \in Nat
    /\ phase # "refused"
    /\ phase = "lower" => LowSound(low)
    /\ phase = "verify" => \E G : Followed(G)
    /\ phase \in {"ready", "run", "end"} => \E G : Chosen(G) /\ MachineOK(G)

LEMMA CInit ==
  ASSUME Init
  PROVE  CInv
BY NewSound DEF Init, CInv

LEMMA LoweringC ==
  ASSUME PhaseOK, CInv, ~LeaveOperand, Lowering, UNCHANGED <<verifier, machine>>
  PROVE  CInv'
<1>1. CASE lower_statement \/ resume_statement
 <2>1. phase = "lower" /\ UNCHANGED <<phase, chunk>>
   BY <1>1 DEF lower_statement, resume_statement, Lower, Stmt_Var, Stmt_Expr, Stmt_Return, Stmt_Break,
      Stmt_Continue, Stmt_Block, if_statement, Stmt_Loop, Stmt_While, Stmt_For, Stmt_TryCatch, Stmt_Operand,
      end_block, end_if, begin_else, end_else, end_while_true, end_while, end_do, end_for, begin_catch,
      end_catch, end_operand, At, Closing
 <2>2. origin = "compiled" /\ LowOK(low) BY <2>1 DEF PhaseOK
 <2>3. LowSound(low) /\ declared \in Nat BY <2>1, <2>2 DEF CInv
 <2>4. LowSound(low') BY <1>1, <2>2, <2>3, LoweringSound
 <2>5. phase' = "lower" /\ declared' = declared BY <2>1 DEF chunk
 <2>6. LowSound(low)' BY <2>4
 <2> QED BY <2>3, <2>5, <2>6 DEF CInv
<1>2. CASE program
 <2>1. phase = "lower" /\ phase' = "verify" BY <1>2 DEF program
 <2>2. origin = "compiled" /\ LowOK(low) /\ NotWalked BY <2>1 DEF PhaseOK
 <2>3. LowSound(low) BY <2>1, <2>2 DEF CInv
 <2>4. declared' \in Nat /\ \E G : Charts(G, code', declared') BY <1>2, <2>2, <2>3, ProgramSound
 <2>5. PICK G : Charts(G, code', declared') BY <2>4
 <2>6. Walked(G, <<>>, <<Edge(1, Zero)>>, 0) BY <2>5, WalkStarts
 <2>7. label' = <<>> /\ work' = <<Edge(1, Zero)>> /\ high_water' = 0 BY <2>2 DEF NotWalked, verifier
 <2>8. Walked(G, label', work', high_water') BY <2>6, <2>7
 <2>9. Followed(G)' BY <2>5, <2>8 DEF Followed
 <2> QED BY <2>1, <2>4, <2>9 DEF CInv
<1> QED BY <1>1, <1>2 DEF Lowering

LEMMA VerifyC ==
  ASSUME PhaseOK, PhaseOK', CInv, verify_chunk, UNCHANGED <<low, machine>>, origin = "compiled"
  PROVE  CInv'
<1>1. CodeOK(code) /\ WalkOK /\ NotRun
 <2>1. phase = "verify" BY DEF verify_chunk, visit, merge, accept, refuse
 <2> QED BY <2>1 DEF PhaseOK
<1>2. phase = "verify" BY DEF verify_chunk, visit, merge, accept, refuse
<1>3. PICK G : Followed(G) BY <1>2 DEF CInv
<1>4. Charts(G, code, declared) /\ declared \in Nat /\ (Walked(G, label, work, high_water) \/ Doomed(G, label))
  BY <1>2, <1>3 DEF CInv, Followed
<1>5. CASE visit \/ merge
  BY <1>5, <1>1, <1>4, VisitWalked, MergeWalked, VisitEdges, DoomedGrows, <1>2 DEF visit, merge, chunk,
     Followed, CInv
<1>6. ASSUME accept \/ refuse
      PROVE  NotRun' /\ phase' = "ready" /\ MachineOK(G)'
  BY <1>6, NotRunIs DEF accept, refuse, PhaseOK
<1>7. CASE accept BY <1>7, <1>1, <1>4, DoomedEnds, <1>6 DEF accept, WalkOK, Charted, Chosen, CInv
<1>8. CASE refuse
 <2>1. /\ IF work # <<>> THEN Refused(Top_of_work) ELSE high_water > declared
       /\ verdict' = "refused" /\ UNCHANGED <<origin, code, declared, label, work, high_water>>
   BY <1>8 DEF refuse, chunk
 <2>2. Doomed(G, label)
  <3>1. SUFFICES ASSUME Walked(G, label, work, high_water)
                 PROVE  FALSE
    BY <1>4
  <3>2. CASE work # <<>> BY <3>1, <3>2, <1>1, <1>4, <2>1, NotRefused
  <3>3. CASE work = <<>> BY <3>1, <1>4, <2>1, <3>3 DEF Walked, Charts, Good
  <3> QED BY <3>2, <3>3
 <2>3. Charts(G, code', declared') /\ Doomed(G, label') BY <1>4, <2>1, <2>2
 <2>4. Charted(G)' BY <2>3 DEF Charted
 <2>5. Chosen(G)' BY <2>1, <2>3, <2>4 DEF Chosen
 <2> QED BY <1>4, <1>6, <1>8, <2>1, <2>5 DEF CInv
<1> QED BY <1>5, <1>7, <1>8 DEF verify_chunk

LEMMA ExecuteC ==
  ASSUME PhaseOK, CInv, execute, UNCHANGED <<chunk, low, verifier>>
  PROVE  CInv'
<1> SUFFICES ASSUME origin = "compiled"
             PROVE  CInv'
  BY DEF CInv, chunk
<1>1. phase \in {"ready", "run"} /\ phase' \in {"run", "end"} BY ExecutePhases
<1>2. UNCHANGED <<origin, code, declared, label, work, high_water, verdict>> BY DEF chunk, verifier
<1>3. declared \in Nat BY DEF CInv
<1>4. PICK G : Chosen(G) /\ MachineOK(G) BY <1>1 DEF CInv
<1>5. phase = "ready" => NotRun BY DEF PhaseOK
<1>6. Charted(G) BY <1>4 DEF Chosen
<1>7. MachineOK(G)' BY <1>2, <1>4, <1>5, <1>6, ExecuteArm
<1>8. Charted(G)' BY <1>2, <1>6 DEF Charted
<1>9. Chosen(G)' BY <1>2, <1>4, <1>8 DEF Chosen
<1> QED BY <1>1, <1>2, <1>3, <1>7, <1>9 DEF CInv

LEMMA StutterC ==
  ASSUME CInv, UNCHANGED vars
  PROVE  CInv'
<1>1. UNCHANGED <<phase, origin, code, declared, low, label, work, high_water, verdict>> /\ UNCHANGED machine
  BY DEF vars, chunk, verifier
<1> SUFFICES ASSUME origin = "compiled"
             PROVE  CInv'
  BY <1>1 DEF CInv
<1>2. declared \in Nat /\ phase # "refused" BY DEF CInv
<1>3. CASE phase = "verify"
 <2>1. PICK G : Followed(G) BY <1>3 DEF CInv
 <2>2. Followed(G)' BY <1>1, <2>1 DEF Followed
 <2> QED BY <1>1, <1>2, <1>3, <2>2 DEF CInv
<1>4. CASE phase \in {"ready", "run", "end"}
 <2>1. PICK G : Chosen(G) /\ MachineOK(G) BY <1>4 DEF CInv
 <2>2. MachineOK(G)' BY <1>1, <2>1, StaysOK
 <2>3. Chosen(G)' BY <1>1, <2>1 DEF Chosen, Charted
 <2> QED BY <1>1, <1>2, <1>4, <2>2, <2>3 DEF CInv
<1>5. CASE phase \notin {"verify", "ready", "run", "end"} BY <1>1, <1>2, <1>5 DEF CInv
<1> QED BY <1>3, <1>4, <1>5

LEMMA CStep ==
  ASSUME PhaseOK, CInv, ~LeaveOperand, [Next]_vars
  PROVE  CInv'
<1>0. PhaseOK' BY PhaseStep
<1>1. origin' = origin BY OriginStays
<1>2. CASE Lowering /\ UNCHANGED <<verifier, machine>> BY <1>2, LoweringC
<1>3. CASE (read_instruction \/ read) /\ UNCHANGED <<low, verifier, machine>>
  BY <1>3, <1>1 DEF PhaseOK, read_instruction, read, CInv
<1>4. CASE verify_chunk /\ UNCHANGED <<low, machine>> BY <1>0, <1>4, VerifyC, <1>1 DEF CInv
<1>5. CASE execute /\ UNCHANGED <<chunk, low, verifier>> BY <1>5, ExecuteC
<1>6. CASE UNCHANGED vars BY <1>6, StutterC
<1> QED BY <1>2, <1>3, <1>4, <1>5, <1>6 DEF Next, Step, Finished

(* Frames unwind to where they began, in any code. *)

FloorsKept == (phase = "run" => Len(frames) > 0) /\ (~cut => Floors)

\* g is the frame that runs, but for its stack, scope and instruction.
Keeps(g) ==
  /\ g = [x \in DOMAIN g |-> g[x]]
  /\ "mark" \in DOMAIN g /\ "outer_floor" \in DOMAIN g
  /\ g.mark = Running.mark /\ g.outer_floor = Running.outer_floor

LEMMA KeepsExcept ==
  ASSUME NEW g, Keeps(g), NEW x
  PROVE  Keeps([g EXCEPT !.pc = x]) /\ Keeps([g EXCEPT !.stack = x]) /\ Keeps([g EXCEPT !.scope = x])
BY DEF Keeps

LEMMA KeepsMoves ==
  ASSUME NEW g, Keeps(g)
  PROVE  /\ Keeps(Next_pc(g))
         /\ \A x : Keeps(Pushed(g, x)) /\ Keeps(Popped(g, x)) /\ Keeps([g EXCEPT !.pc = x])
                   /\ Keeps([g EXCEPT !.scope = x]) /\ Keeps([g EXCEPT !.stack = x])
BY KeepsExcept DEF Next_pc, Pushed, Popped

\* The frame that runs is put back.
LEMMA FloorsPut ==
  ASSUME RunTypes, Len(frames) > 0, Floors, NEW g, g.outer_floor = Running.outer_floor, Put(g),
         unwind_floor' = g.mark
  PROVE  Floors' /\ Len(frames') > 0
<1> DEFINE k == Len(frames)
<1>1. k \in Nat \ {0} /\ frames \in Seq(Frames) /\ Running = frames[k] /\ k \in 1..k
  BY DEF RunTypes, Running
<1> HIDE DEF k
<1>2. Len(frames') = k /\ frames'[k] = g /\ \A i \in 1..k : i # k => frames'[i] = frames[i]
  BY <1>1 DEF Put, k
<1>3. \A i \in 1..k : i < k => frames[i + 1].outer_floor = frames[i].mark BY DEF Floors, k
<1>4. ASSUME NEW i \in 1..k, i < k
      PROVE  frames'[i + 1].outer_floor = frames'[i].mark
  BY <1>1, <1>2, <1>4, <1>3
<1> QED BY <1>1, <1>2, <1>4 DEF Floors

LEMMA FloorsKeep ==
  ASSUME RunTypes, Len(frames) > 0, FloorsKept, ~cut, NEW g, Keeps(g), Put(g), unwind_floor' = unwind_floor
  PROVE  FloorsKept'
BY FloorsPut DEF FloorsKept, Floors, Running, Keeps

LEMMA FloorsStay ==
  ASSUME FloorsKept, Len(frames) > 0, UNCHANGED <<frames, unwind_floor>>, cut => cut'
  PROVE  FloorsKept'
  BY DEF FloorsKept, Floors

LEMMA FloorsMove ==
  ASSUME RunTypes, Len(frames) > 0, FloorsKept, ~cut, NEW g, Keeps(g)
  PROVE  /\ Done(g) => FloorsKept'
         /\ \A e : Raise(g, e) => FloorsKept'
         /\ \A t : transfer(g, t) => FloorsKept'
BY KeepsMoves, FloorsKeep DEF Done, Raise, transfer

\* A frame goes.
LEMMA FloorsGone ==
  ASSUME RunTypes, phase = "run", FloorsKept, ~cut, NEW value \in BOOLEAN, NEW scope, Without(value, scope),
         unwind_floor' = Running.outer_floor
  PROVE  FloorsKept'
<1> DEFINE k == Len(frames)
           F(i) == IF value /\ i = k - 1 THEN Next_pc(Pushed(frames[i], "v")) ELSE frames[i]
<1>1. /\ k \in Nat \ {0} /\ frames \in Seq(Frames) /\ Running = frames[k] /\ Floors
      /\ \A i \in 1..k : frames[i] \in Frames
  BY DEF RunTypes, Running, FloorsKept
<1>2. frames' = [i \in 1..(k - 1) |-> F(i)] /\ (phase' = "run" => k # 1) BY DEF Without
<1>3. ASSUME NEW i \in 1..(k - 1)
      PROVE  F(i).mark = frames[i].mark /\ F(i).outer_floor = frames[i].outer_floor
 <2>1. frames[i] \in Frames BY <1>1
 <2> DEFINE f == frames[i]
 <2> HIDE DEF f
 <2>2. f \in Frames => Pushed(f, "v") \in Frames /\ Twin(Pushed(f, "v"), f) BY FrameMoves
 <2> DEFINE p == Pushed(f, "v")
 <2>3. f \in Frames => Next_pc(p).mark = p.mark /\ Next_pc(p).outer_floor = p.outer_floor
  <3> HIDE DEF p
  <3>1. p \in Frames => Next_pc(p).mark = p.mark /\ Next_pc(p).outer_floor = p.outer_floor
    BY DEF Next_pc, Frames
  <3> QED BY <2>2, <3>1 DEF p
 <2> QED BY <2>1, <2>2, <2>3 DEF f, Twin
<1> HIDE DEF k, F
<1>4. k - 1 \in Nat /\ Len(frames') = k - 1 /\ \A i \in 1..(k - 1) : frames'[i] = F(i)
 <2> DEFINE n == k - 1
 <2>1. n \in Nat BY <1>1
 <2>2. frames' = [i \in 1..n |-> F(i)] BY <1>2
 <2> HIDE DEF n
 <2>3. Len(frames') = n /\ \A i \in 1..n : frames'[i] = F(i) BY <2>1, <2>2
 <2> QED BY <2>1, <2>3 DEF n
<1>5. \A i \in 1..k : i < k => frames[i + 1].outer_floor = frames[i].mark BY <1>1 DEF Floors, k
<1>6. Len(frames') > 0 => unwind_floor' = frames'[Len(frames')].mark
 <2>1. SUFFICES ASSUME k - 1 > 0
                PROVE  unwind_floor' = frames'[k - 1].mark
   BY <1>4
 <2>2. k - 1 \in 1..(k - 1) /\ k - 1 \in 1..k /\ k - 1 < k /\ (k - 1) + 1 = k BY <1>1, <2>1
 <2>3. frames[k].outer_floor = frames[k - 1].mark BY <1>5, <2>2
 <2>4. frames'[k - 1].mark = frames[k - 1].mark BY <1>3, <1>4, <2>2
 <2> QED BY <1>1, <2>3, <2>4
<1>7. ASSUME NEW i \in 1..Len(frames'), i < Len(frames')
      PROVE  frames'[i + 1].outer_floor = frames'[i].mark
  BY <1>1, <1>4, <1>7, <1>3, <1>5
<1>8. phase' = "run" => Len(frames') > 0 BY <1>1, <1>2, <1>4
<1> QED BY <1>6, <1>7, <1>8 DEF FloorsKept, Floors

\* A frame comes.
LEMMA FloorsCalled ==
  ASSUME RunTypes, Len(frames) > 0, FloorsKept, ~cut, frames' = Append(frames, Frame(0)), unwind_floor' = 0
  PROVE  FloorsKept'
<1> DEFINE k == Len(frames)
           g == Frame(0)
<1>1. k \in Nat \ {0} /\ frames \in Seq(Frames) /\ Floors BY DEF RunTypes, FloorsKept
<1>2. g.mark = 0 /\ g.outer_floor = unwind_floor BY DEF Frame
<1> HIDE DEF g
<1>3. frames' = Append(frames, g) BY DEF g
<1>4. Len(frames') = k + 1 /\ frames'[k + 1] = g /\ \A i \in 1..k : frames'[i] = frames[i] BY <1>1, <1>3
<1> HIDE DEF k
<1>5. unwind_floor = frames[k].mark /\ \A i \in 1..k : i < k => frames[i + 1].outer_floor = frames[i].mark
  BY <1>1 DEF Floors, k
<1>6. ASSUME NEW i \in 1..(k + 1), i < k + 1
      PROVE  frames'[i + 1].outer_floor = frames'[i].mark
  BY <1>1, <1>2, <1>4, <1>5, <1>6
<1>7. unwind_floor' = frames'[Len(frames')].mark /\ Len(frames') > 0 BY <1>1, <1>2, <1>4
<1> QED BY <1>4, <1>6, <1>7 DEF FloorsKept, Floors

LEMMA KeepsRunning ==
  ASSUME RunTypes, Len(frames) > 0
  PROVE  Keeps(Running)
<1> DEFINE k == Len(frames)
           f == Running
<1>1. k \in 1..k /\ frames \in Seq(Frames) /\ f = frames[k] BY DEF RunTypes, Running
<1>2. f \in Frames BY <1>1
<1> HIDE DEF f
<1>3. f = [x \in DOMAIN f |-> f[x]] /\ "mark" \in DOMAIN f /\ "outer_floor" \in DOMAIN f
  BY <1>2 DEF Frames
<1> QED BY <1>3 DEF f, Keeps

\* Every arm, in any code.
LEMMA FloorsFrame ==
  ASSUME RunTypes, FloorsKept, cut => raised = "system", run_frame
  PROVE  FloorsKept'
<1>0. phase = "run" /\ raised = "none"
  BY DEF run_frame, malformed, PUSH, POP, DECLARE_LOCAL, UNWIND_TO, CHECKPOINT, PUSH_HANDLER, POP_HANDLER, ROTATE,
     ITER_INIT, ITER_DROP, ITER_NEXT, JUMP, JUMP_IF, SKIP_IF_NOT_UNIT, BIN_OP, THROW, CALL_native, call_compiled,
     RETURN, At_op
<1>1. Len(frames) > 0 /\ ~cut BY <1>0 DEF FloorsKept
<1>2. Keeps(Running) BY <1>1, KeepsRunning
<1>3. /\ Keeps(Next_pc(Running))
      /\ \A x : /\ Keeps(Pushed(Running, x)) /\ Keeps(Popped(Running, x))
                /\ Keeps([Running EXCEPT !.scope = x]) /\ Keeps([Running EXCEPT !.stack = x])
  BY <1>2, KeepsMoves
<1>4. \A g : Keeps(g) => /\ Done(g) => FloorsKept'
                         /\ \A e : Raise(g, e) => FloorsKept'
                         /\ \A t : transfer(g, t) => FloorsKept'
  BY <1>1, FloorsMove
<1>5. CASE malformed BY <1>1, <1>5, FloorsStay DEF malformed
<1>6. CASE PUSH BY <1>3, <1>4, <1>6 DEF PUSH
<1>7. CASE POP BY <1>3, <1>4, <1>7 DEF POP
<1>8. CASE DECLARE_LOCAL
 <2> DEFINE p == Popped(Running, 1)
 <2>1. Keeps(p) /\ Done([p EXCEPT !.scope = @ + 1]) BY <1>3, <1>8 DEF DECLARE_LOCAL
 <2> HIDE DEF p
 <2>2. Keeps([p EXCEPT !.scope = @ + 1]) BY <2>1, KeepsExcept
 <2> QED BY <1>4, <2>1, <2>2
<1>9. CASE UNWIND_TO BY <1>3, <1>4, <1>9 DEF UNWIND_TO
<1>10. CASE CHECKPOINT
 <2>1. CASE Done(Running) BY <1>2, <1>4, <2>1
 <2>2. CASE ~Done(Running)
  <3> DEFINE f == [Running EXCEPT !.mark = Running.scope]
             g == Next_pc(f)
  <3>1. unwind_floor' = Running.scope /\ Put(g) /\ cut' = cut BY <1>10, <2>2 DEF CHECKPOINT
  <3>2. /\ Running = [x \in DOMAIN Running |-> Running[x]]
        /\ "mark" \in DOMAIN Running /\ "outer_floor" \in DOMAIN Running
    BY <1>2 DEF Keeps
  <3>3. /\ f = [x \in DOMAIN f |-> f[x]] /\ "mark" \in DOMAIN f /\ "outer_floor" \in DOMAIN f
        /\ f.mark = Running.scope /\ f.outer_floor = Running.outer_floor
    BY <3>2
  <3> HIDE DEF f
  <3>4. g.mark = f.mark /\ g.outer_floor = f.outer_floor BY <3>3 DEF Next_pc
  <3> HIDE DEF g
  <3>5. g.outer_floor = Running.outer_floor /\ unwind_floor' = g.mark /\ Floors
    BY <1>1, <3>1, <3>3, <3>4 DEF FloorsKept
  <3> QED BY <1>1, <3>1, <3>5, FloorsPut DEF FloorsKept
 <2> QED BY <2>1, <2>2
<1>11. CASE PUSH_HANDLER \/ POP_HANDLER BY <1>11, <1>1, <1>3, FloorsKeep DEF PUSH_HANDLER, POP_HANDLER
<1>12. CASE ROTATE
 <2> DEFINE n == Len(Running.stack)
            s == SubSeq(Running.stack, 1, n - 2) \o <<Running.stack[n], Running.stack[n - 1]>>
 <2>1. Done([Running EXCEPT !.stack = s]) BY <1>12 DEF ROTATE
 <2> HIDE DEF s
 <2> QED BY <1>3, <1>4, <2>1
<1>13. CASE ITER_INIT
 <2> DEFINE p == Popped(Running, 1)
 <2>1. Keeps(p) /\ (Done(Pushed(p, "i")) \/ Raise(p, "catchable")) BY <1>3, <1>13 DEF ITER_INIT
 <2> HIDE DEF p
 <2>2. Keeps(Pushed(p, "i")) BY <2>1, KeepsMoves
 <2> QED BY <1>4, <2>1, <2>2
<1>14. CASE ITER_DROP BY <1>3, <1>4, <1>14 DEF ITER_DROP
<1>15. CASE ITER_NEXT BY <1>15, <1>2, <1>3, <1>4 DEF ITER_NEXT
<1>16. CASE JUMP \/ SKIP_IF_NOT_UNIT BY <1>2, <1>4, <1>16 DEF JUMP, SKIP_IF_NOT_UNIT
<1>17. CASE JUMP_IF BY <1>3, <1>4, <1>17 DEF JUMP_IF
<1>18. CASE BIN_OP
 <2> DEFINE p == Popped(Running, 2)
 <2>1. Keeps(p) /\ (Done(Pushed(p, "v")) \/ Raise(Running, "catchable")) BY <1>3, <1>18 DEF BIN_OP
 <2> HIDE DEF p
 <2>2. Keeps(Pushed(p, "v")) BY <2>1, KeepsMoves
 <2> QED BY <1>2, <1>4, <2>1, <2>2
<1>19. CASE THROW BY <1>3, <1>4, <1>19 DEF THROW
<1>20. CASE CALL_native
 <2> DEFINE p == Pushed(Running, "v")
 <2>1. Keeps(p) /\ unwind_floor' = unwind_floor /\ cut' = cut /\ (Put(Next_pc(p)) \/ UNCHANGED frames)
   BY <1>3, <1>20 DEF CALL_native
 <2> HIDE DEF p
 <2>2. Keeps(Next_pc(p)) BY <2>1, KeepsMoves
 <2> QED BY <1>1, <2>1, <2>2, FloorsKeep, FloorsStay
<1>21. CASE call_compiled BY <1>21, <1>1, FloorsStay, FloorsCalled DEF call_compiled
<1>22. CASE RETURN BY <1>0, <1>1, <1>22, FloorsGone DEF RETURN, Restored_floor
<1> QED BY <1>5, <1>6, <1>7, <1>8, <1>9, <1>10, <1>11, <1>12, <1>13, <1>14, <1>15, <1>16, <1>17, <1>18, <1>19, <1>20,
           <1>21, <1>22 DEF run_frame

LEMMA FloorsArm ==
  ASSUME RunTypes, FloorsKept, cut => raised = "system", phase = "ready" => NotRun, execute
  PROVE  FloorsKept'
<1>1. CASE run_main
 <2> DEFINE g == Frame(HostVars)
 <2>1. frames' = <<g>> /\ unwind_floor' = HostVars /\ g.mark = HostVars BY <1>1 DEF run_main, Frame
 <2> HIDE DEF g
 <2>2. Len(frames') = 1 /\ frames'[1] = g /\ \A i \in 1..1 : ~(i < 1) BY <2>1
 <2> QED BY <2>1, <2>2 DEF FloorsKept, Floors
<1>2. CASE run_frame BY <1>2, FloorsFrame
<1>3. CASE catch
 <2>1. phase = "run" /\ raised # "none" /\ is_catchable(raised) /\ Put(Resumed) /\ unwind_floor' = unwind_floor
   BY <1>3 DEF catch, Caught
 <2>2. Len(frames) > 0 /\ ~cut BY <2>1 DEF FloorsKept, is_catchable
 <2> DEFINE h == handlers[Innermost]
            s == SubSeq(Running.stack, 1, Lesser(Len(Running.stack), h.operands))
            c == Lesser(Running.scope, h.scope_len)
            p == [Running EXCEPT !.stack = s]
            q == [p EXCEPT !.scope = c]
            r == [q EXCEPT !.scope = @ + 1]
            t == h.target
            g == [r EXCEPT !.pc = t]
 <2>3. Resumed = g BY DEF Resumed, Cut_back
 <2>4. Keeps(Running) BY <2>2, KeepsRunning
 <2> HIDE DEF s, c, t
 <2>5. Keeps(p) BY <2>4, KeepsExcept
 <2> HIDE DEF p
 <2>6. Keeps(q) BY <2>5, KeepsExcept
 <2> HIDE DEF q
 <2>7. Keeps(r) BY <2>6, KeepsExcept
 <2> HIDE DEF r
 <2>8. Keeps(g) BY <2>7, KeepsExcept
 <2> HIDE DEF g
 <2> QED BY <2>1, <2>2, <2>3, <2>8, FloorsKeep
<1>4. ASSUME NEW value \in BOOLEAN, NEW scope, Without(value, scope), phase = "run"
      PROVE  phase' = "run" => Len(frames') > 0
 <2> DEFINE k == Len(frames)
            n == k - 1
            F(i) == IF value /\ i = n THEN Next_pc(Pushed(frames[i], "v")) ELSE frames[i]
 <2>1. k \in Nat \ {0} /\ n \in Nat BY <1>4 DEF FloorsKept, RunTypes
 <2>2. frames' = [i \in 1..n |-> F(i)] /\ (phase' = "run" => k # 1) BY <1>4 DEF Without
 <2> HIDE DEF F, k
 <2>3. (k # 1 => n > 0) BY <2>1
 <2> HIDE DEF n
 <2>4. Len(frames') = n BY <2>1, <2>2
 <2> QED BY <2>2, <2>3, <2>4
<1>5. CASE catch_unpaid BY <1>5, <1>4 DEF catch_unpaid, FloorsKept
<1>6. CASE leave_with_error
 <2> DEFINE e == Lesser(IF Caught THEN Cut_back.scope ELSE Running.scope, unwind_floor)
 <2>1. cut' = cut /\ phase = "run" /\ Without(FALSE, e) /\ unwind_floor' = Running.outer_floor
   BY <1>6 DEF leave_with_error, Restored_floor
 <2> HIDE DEF e
 <2>2. CASE cut BY <2>1, <2>2, <1>4 DEF FloorsKept
 <2>3. CASE ~cut BY <2>1, <2>3, FloorsGone
 <2> QED BY <2>2, <2>3
<1> QED BY <1>1, <1>2, <1>3, <1>5, <1>6 DEF execute

(* The whole, for scripts and for artifacts. *)

Whole == GInv /\ CInv /\ FloorsKept

\* What the machine's state looks like, whoever made the code.
LEMMA WholeTypes ==
  ASSUME GInv, CInv
  PROVE  RunTypes /\ (cut => raised = "system") /\ (phase = "ready" => NotRun)
<1>1. CASE phase \notin {"run", "end"}
 <2>1. NotRun BY <1>1 DEF GInv, PhaseOK
 <2>2. /\ frames = <<>> /\ handlers = <<>> /\ unwind_floor = 0 /\ raised = "none" /\ ops = 0
       /\ host \in Nat /\ fault = "none" /\ cut = FALSE /\ MaxOps \in Nat
   BY <2>1, GrainAssumption DEF NotRun
 <2>3. frames \in Seq(Frames) /\ handlers \in Seq(Handlers) BY <2>2
 <2>4. ops \in 0..(MaxOps + 1) /\ unwind_floor \in Nat BY <2>2
 <2>5. raised \in {"none", "catchable", "system"} /\ fault \in {"none", "underflow", "other"} /\ cut \in BOOLEAN
   BY <2>2
 <2> QED BY <2>1, <2>2, <2>3, <2>4, <2>5 DEF RunTypes
<1>2. CASE phase \in {"run", "end"}
 <2>1. CASE origin = "compiled"
  <3>1. PICK G : MachineOK(G) BY <1>2, <2>1 DEF CInv
  <3> QED BY <1>2, <3>1 DEF MachineOK
 <2>2. CASE origin # "compiled" BY <1>2, <2>2 DEF GInv, PhaseOK, RunOK
 <2> QED BY <2>1, <2>2
<1> QED BY <1>1, <1>2

LEMMA FloorsInit ==
  ASSUME Init
  PROVE  FloorsKept
BY DEF Init, InitVm, FloorsKept, Floors

LEMMA FloorsStep ==
  ASSUME Whole, [Next]_vars
  PROVE  FloorsKept'
<1>1. GInv /\ CInv /\ FloorsKept BY DEF Whole
<1>2. CASE execute BY <1>1, <1>2, WholeTypes, FloorsArm
<1>3. CASE ~execute
 <2>1. UNCHANGED machine BY <1>3 DEF Next, Step, Finished, vars
 <2>2. UNCHANGED <<frames, unwind_floor, cut>> BY <2>1 DEF machine
 <2>3. phase' = "run" => phase = "run"
   BY <1>1, <1>3 DEF Next, Step, Finished, vars, Lowering, lower_statement, resume_statement, program, read_instruction,
      read, Lower, Stmt_Var, Stmt_Expr, Stmt_Return, Stmt_Break, Stmt_Continue, Stmt_Block, if_statement, Stmt_Loop,
      Stmt_While, Stmt_For, Stmt_TryCatch, Stmt_Operand, end_block, end_if, begin_else, end_else, end_while_true,
      end_while, end_do, end_for, begin_catch, end_catch, end_operand, verify_chunk, visit, merge, accept, refuse
 <2> QED BY <1>1, <2>2, <2>3 DEF FloorsKept, Floors
<1> QED BY <1>2, <1>3

LEMMA WholeInit ==
  ASSUME Init
  PROVE  Whole
  BY GInit, CInit, FloorsInit DEF Whole

LEMMA WholeStep ==
  ASSUME Whole, ~LeaveOperand, [Next]_vars
  PROVE  Whole'
BY GStep, CStep, FloorsStep DEF Whole, GInv

\* Frames of compiled code agree with the chart, but for what the last arm has taken.
LEMMA FramesPlaced ==
  ASSUME NEW G, MachineOK(G), phase = "run", NEW i \in 1..Len(frames)
  PROVE  /\ frames[i].pc \in Starts(code)
         /\ Len(frames[i].stack) \in Nat
         /\ Len(frames[i].stack) <= Len(G.at[frames[i].pc].stack)
         /\ (raised = "none" /\ G.at[frames[i].pc] \in Layouts) =>
              Len(frames[i].stack) = Len(G.at[frames[i].pc].stack)
<1>1. frames[i] \in Frames /\ Len(frames) \in Nat BY DEF MachineOK, RunTypes
<1>2. Len(frames[i].stack) \in Nat BY <1>1, FrameMoves
<1>3. PICK n \in Nat : Placed(G, frames[i], n) /\ (raised = "none" => n = 0)
  BY <1>1, RunningIs DEF Lack, takes, MachineOK
<1>4. /\ frames[i].pc \in Starts(code) /\ Len(frames[i].stack) <= Len(G.at[frames[i].pc].stack)
      /\ Len(G.at[frames[i].pc].stack) <= Len(frames[i].stack) + n
  BY <1>3 DEF Placed
<1>5. ASSUME raised = "none", G.at[frames[i].pc] \in Layouts
      PROVE  Len(frames[i].stack) = Len(G.at[frames[i].pc].stack)
  BY <1>5, LayoutType, <1>2, <1>3, <1>4
<1> QED BY <1>2, <1>4, <1>5

LEMMA WholeIsTyped ==
  ASSUME Whole
  PROVE  TypeOK
<1>1. PhaseOK /\ RunTypes BY WholeTypes DEF Whole, GInv
<1>2. declared \in Nat BY <1>1 DEF Whole, CInv, PhaseOK
<1>3. code \in Seq(Cells) /\ high_water \in Nat /\ \A a \in DOMAIN label : label[a] \in States
  BY <1>1 DEF PhaseOK, CodeOK, WalkOK, LabelOK
<1> QED BY <1>1, <1>2, <1>3 DEF TypeOK, PhaseOK, RunTypes

LEMMA WholeFits ==
  ASSUME Whole
  PROVE  StackFits /\ OnInstruction
<1> SUFFICES ASSUME phase = "run"
             PROVE  StackFits /\ OnInstruction
  BY DEF StackFits, OnInstruction
<1>1. GInv /\ CInv /\ PhaseOK BY DEF Whole, GInv
<1>2. CASE verdict = "accepted" BY <1>1, <1>2, GRight DEF VerifierIsRight
<1>3. CASE verdict # "accepted"
 <2>1. verdict = "refused" /\ origin = "compiled" BY <1>1, <1>3 DEF PhaseOK
 <2>2. PICK G : Chosen(G) /\ MachineOK(G) BY <1>1, <2>1 DEF CInv
 <2>3. Charts(G, code, declared) /\ declared \in Nat BY <1>1, <2>1, <2>2 DEF Chosen, CInv
 <2>4. ASSUME NEW i \in 1..Len(frames)
       PROVE  Len(frames[i].stack) <= declared /\ IsStart(frames[i].pc)
  <3> DEFINE a == frames[i].pc
             s == G.at[a]
  <3>1. a \in Starts(code) /\ Len(frames[i].stack) \in Nat /\ Len(frames[i].stack) <= Len(s.stack)
    BY <2>2, FramesPlaced
  <3> HIDE DEF a
  <3>2. s \in Layouts /\ Size(s) \in Nat /\ Size(s) <= G.room /\ G.room \in Nat
    BY <2>3, <3>1, ChartedCode
  <3>3. G.room <= declared BY <2>3 DEF Charts
  <3>4. Len(s.stack) \in Nat /\ Len(s.stack) <= Size(s)
   <4>1. Len(s.stack) \in Nat /\ s.iters \in Nat BY <3>2, LayoutType
   <4> HIDE DEF s
   <4> QED BY <4>1 DEF Size
  <3>5. IsStart(a) BY <3>1 DEF Starts, IsStart
  <3> HIDE DEF s
  <3>6. Len(frames[i].stack) <= declared BY <2>3, <3>1, <3>2, <3>3, <3>4
  <3> QED BY <3>5, <3>6 DEF a
 <2> QED BY <2>4 DEF StackFits, OnInstruction
<1> QED BY <1>2, <1>3

LEMMA WholeIsExact ==
  ASSUME Whole
  PROVE  CompiledIsExact
<1> SUFFICES ASSUME Verified, origin = "compiled", raised = "none", NEW i \in 1..Len(frames)
             PROVE  Len(frames[i].stack) + label[frames[i].pc].iters = label[frames[i].pc].operands
  BY DEF CompiledIsExact
<1>1. phase = "run" /\ verdict = "accepted" /\ GInv /\ CInv /\ RunOK BY DEF Verified, Whole, GInv
<1>2. PICK G : Chosen(G) /\ MachineOK(G) BY <1>1 DEF CInv
<1>3. Walked(G, label, work, high_water) /\ Charted(G) BY <1>1, <1>2 DEF Chosen
<1>4. PICK room : Charts(G, code, room) BY <1>3 DEF Charted
<1> DEFINE a == frames[i].pc
           s == G.at[a]
<1>5. a \in DOMAIN label BY <1>1 DEF RunOK, Labelled
<1>6. a \in Starts(code) /\ s \in Layouts => Len(frames[i].stack) = Len(s.stack)
  BY <1>1, <1>2, FramesPlaced
<1>7. a \in Starts(code) BY <1>1, <1>2, FramesPlaced
<1> HIDE DEF a
<1>8. s \in Layouts BY <1>4, <1>7, ChartedCode
<1>9. label[a] = Image(s) BY <1>3, <1>5 DEF Walked
<1>10. Image(s).operands = Len(s.stack) + s.iters /\ Image(s).iters = s.iters BY <1>8, ImageType
<1> HIDE DEF s
<1> QED BY <1>6, <1>7, <1>8, <1>9, <1>10 DEF a

LEMMA WholeNeverFaults ==
  ASSUME Whole
  PROVE  CompiledNeverFaults
<1> SUFFICES ASSUME origin = "compiled"
             PROVE  fault = "none"
  BY DEF CompiledNeverFaults
<1>1. GInv /\ CInv BY DEF Whole
<1>2. CASE phase \notin {"run", "end"} BY <1>1, <1>2 DEF GInv, PhaseOK, NotRun
<1>3. CASE phase \in {"run", "end"}
 <2>1. PICK G : MachineOK(G) BY <1>1, <1>3 DEF CInv
 <2> QED BY <2>1 DEF MachineOK
<1> QED BY <1>2, <1>3

LEMMA WholeVerifies ==
  ASSUME Whole
  PROVE  CompiledVerifiesWithoutBreak
<1> SUFFICES ASSUME origin = "compiled", verdict = "refused"
             PROVE  Contains("IterDrop")
  BY DEF CompiledVerifiesWithoutBreak
<1>1. PhaseOK /\ CInv BY DEF Whole, GInv
<1>2. phase \in {"ready", "run", "end"} BY <1>1 DEF PhaseOK, NotWalked, CInv
<1>3. PICK G : Chosen(G) BY <1>1, <1>2 DEF CInv
<1>4. Charts(G, code, declared) /\ Doomed(G, label) BY <1>3 DEF Chosen
<1>5. G.code = code BY <1>4 DEF Charts
<1> QED BY <1>4, <1>5 DEF Doomed, Contains

LEMMA WholeRight ==
  ASSUME Whole
  PROVE  CompilerIsRight
<1>1. FloorIsOwnUnlessCut BY DEF Whole, FloorsKept, Floors, FloorIsOwnUnlessCut, FloorIsOwn, Running
<1> QED BY <1>1, WholeIsTyped, WholeFits, WholeIsExact, WholeNeverFaults, WholeVerifies DEF CompilerIsRight

(* Whatever script is lowered, its code fits into the slots that were declared for it, control
   stays on its instructions, the machine finds nothing malformed in it, be it accepted or not,
   the verifier counts its operands exactly and refuses it only for a break out of a `for`
   (Compiler, verify_chunk, execute), unless a break or continue leaves a block that is an
   operand and leaves the other operand behind. *)
THEOREM CompilerSound ==
  ASSUME ~LeaveOperand
  PROVE  Spec => []CompilerIsRight
<1>1. Init => Whole BY WholeInit
<1>2. Whole /\ [Next]_vars => Whole' BY WholeStep
<1>3. Whole => CompilerIsRight BY WholeRight
<1> QED BY <1>1, <1>2, <1>3, PTL DEF Spec

LEMMA CompiledResumesOwn ==
  ASSUME Whole, [Next]_vars, origin = "compiled", phase = "run", raised # "none", raised' = "none"
  PROVE  handlers'[Len(handlers')].owner = Len(frames)
<1>1. catch
 <2>1. execute BY DEF Next, Step, Finished, vars, machine
 <2>2. ~run_main BY DEF run_main
 <2>3. ~run_frame
   BY DEF run_frame, malformed, PUSH, POP, DECLARE_LOCAL, UNWIND_TO, CHECKPOINT, PUSH_HANDLER,
      POP_HANDLER, ROTATE, ITER_INIT, ITER_DROP, ITER_NEXT, JUMP, JUMP_IF, SKIP_IF_NOT_UNIT, BIN_OP, THROW,
      CALL_native, call_compiled, RETURN, At_op
 <2>4. ~catch_unpaid BY DEF catch_unpaid
 <2>5. ~leave_with_error BY DEF leave_with_error
 <2> QED BY <2>1, <2>2, <2>3, <2>4, <2>5 DEF execute
<1> DEFINE m == Innermost
           u == SubSeq(handlers, 1, m)
           h == handlers[m]
<1>2. PICK G : Charted(G) /\ MachineOK(G) BY DEF Whole, CInv, Chosen
<1>3. Caught /\ handlers' = [u EXCEPT ![m].caught = TRUE] BY <1>1 DEF catch
<1>4. /\ m \in (Running.handler_base + 1)..Len(handlers) /\ m \in Nat \ {0} /\ h \in Handlers
      /\ h.owner = Len(frames)
  BY <1>2, <1>3, CaughtBy DEF Arms
<1>5. handlers \in Seq(Handlers) /\ Running.handler_base \in Nat /\ Len(handlers) \in Nat
  BY <1>2, RunningIs
<1>6. m <= Len(handlers) BY <1>4, <1>5
<1>7. u \in Seq(Handlers) /\ Len(u) = m /\ u[m] = h BY <1>4, <1>5, <1>6, FirstN
<1> HIDE DEF u, m, h
<1>8. Len(handlers') = m /\ handlers'[m] = [h EXCEPT !.caught = TRUE] BY <1>3, <1>4, <1>7
<1> QED BY <1>4, <1>8 DEF Handlers

(* An error is resumed in the frame that armed the handler, never in the middle of another frame's
   code, be the code a script's, accepted or not, or an artifact's (catch). *)
THEOREM ErrorsResumeWhereTried ==
  ASSUME ~LeaveOperand
  PROVE  Spec => CatchIsOwn
<1>1. Init => Whole BY WholeInit
<1>2. Whole /\ [Next]_vars => Whole' BY WholeStep
<1>3. Whole /\ [Next]_vars =>
        [(phase = "run" /\ raised # "none" /\ raised' = "none") =>
           handlers'[Len(handlers')].owner = Len(frames)]_vars
  BY ResumesOwn, CompiledResumesOwn DEF Whole, GInv, PhaseOK
<1> QED BY <1>1, <1>2, <1>3, PTL DEF Spec, CatchIsOwn
=============================================================================
