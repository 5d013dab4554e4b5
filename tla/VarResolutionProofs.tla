------------------------- MODULE VarResolutionProofs -------------------------
(***************************************************************************)
(* The offsets that the parser computes are right for programs of any      *)
(* length, with blocks nested to any depth, skipped and run again.         *)
(*                                                                         *)
(* This is a proof about a compiler: what it knows of the scope before     *)
(* each statement is recorded in `seen`, and every way in which the        *)
(* evaluator can come to a statement has to lead to a scope like that.     *)
(* So there are two parts: what the parser's records say of one another    *)
(* (Coded), and how the state at run time follows them (Follows).          *)
(***************************************************************************)
EXTENDS VarResolution, SequenceTheorems, WellFoundedInduction, TLAPS

Plain == {"export", "var", "share", "mod", "eval let", "eval import"}

Lets == {"let", "export let"}

Opens == {"open", "arm"}

Block == [kind : {"block", "arm"}, at : Nat, stack : Nat, imports : Nat, frame_pointer : Nat]

PState == [stack : Seq(Entry), imports : Seq(Import), frame_pointer : Nat, blocks : Seq(Block)]

Stm == [op : Plain \cup Lets \cup Opens \cup {"import", "close"}, name : Names \cup {NoName},
        offset : Nat, to : Nat, seen : PState]

Saved == [at : Nat, outer : Nat, scope : Nat, imports : Nat, always_search_scope : BOOLEAN]

RState == [scope : Seq(Var), imports : Seq(Imported), blocks : Seq(Saved),
           always_search_scope : BOOLEAN]

-----------------------------------------------------------------------------
\* Stacks of named entries, compared by their names.

Begins(s, t) == Len(s) <= Len(t) /\ \A j \in 1..Len(s) : s[j].name = t[j].name

Match(s, t) == Len(s) = Len(t) /\ \A j \in 1..Len(s) : s[j].name = t[j].name

\* t is s with an entry of the name n on top.
Grows(s, n, t) == Len(t) = Len(s) + 1 /\ Begins(s, t) /\ t[Len(s) + 1].name = n

-----------------------------------------------------------------------------
\* What the parser knew, of a program c with the parser's state q at its end.

\* Before statement i.
At(c, q, i) == IF i <= Len(c) THEN c[i].seen ELSE q

\* The innermost block.
Inner(q) == q.blocks[Len(q.blocks)]

\* What the parser takes the scope for is the same.
Alike(s, t) ==
  /\ Match(s.stack, t.stack) /\ Match(s.imports, t.imports)
  /\ s.frame_pointer = t.frame_pointer

\* The parser goes from s to t over the statement x, which is the i-th.
Let(x, i, s, t) ==
  /\ x.name \in Names
  /\ t.blocks = s.blocks /\ t.imports = s.imports /\ t.frame_pointer = s.frame_pointer
  /\ \/ x.offset = 0 /\ Grows(s.stack, x.name, t.stack)
     \/ /\ Match(s.stack, t.stack)
        /\ x.offset \in 1..(Len(s.stack) - s.frame_pointer)
        /\ Slot(s.stack, x.offset) = Find(s.stack, x.name)
  /\ s.blocks # <<>> /\ Inner(s).kind = "arm" => Inner(s).at = i - 1
  /\ x.op = "export let" => \A k \in 1..Len(s.blocks) : s.blocks[k].kind = "arm"

Imports(x, i, s, t) ==
  /\ x.name \in Names
  /\ t.blocks = s.blocks /\ t.stack = s.stack /\ t.frame_pointer = s.frame_pointer
  /\ Grows(s.imports, x.name, t.imports)
  /\ s.blocks # <<>> /\ Inner(s).kind = "arm" => Inner(s).at = i - 1

Uses(x, s, t) ==
  /\ x.name \in Names
  /\ t.blocks = s.blocks /\ Alike(s, t)
  /\ x.op \in {"var", "share"} => x.offset = Offset(s.stack, Find(s.stack, x.name))
  /\ x.op = "mod" => x.offset = Offset(s.imports, FindFirst(s.imports, x.name))

Opening(x, i, s, t) ==
  /\ t.imports = s.imports
  /\ t.blocks = Append(s.blocks, [kind |-> IF x.op = "arm" THEN "arm" ELSE "block", at |-> i,
                                  stack |-> Len(s.stack), imports |-> Len(s.imports),
                                  frame_pointer |-> s.frame_pointer])
  /\ IF x.op = "arm" THEN x.name = NoName /\ t.stack = s.stack /\ t.frame_pointer = s.frame_pointer
     ELSE /\ IF x.name = NoName THEN t.stack = s.stack ELSE Grows(s.stack, x.name, t.stack)
          /\ t.frame_pointer = Len(t.stack)

Closing(s, t) ==
  s.blocks # <<>> /\ t = [Closed(s, Inner(s)) EXCEPT !.blocks = Cut(@, Len(@) - 1)]

Steps(x, i, s, t) ==
  /\ x.op \in Plain => Uses(x, s, t)
  /\ x.op \in Lets => Let(x, i, s, t)
  /\ x.op = "import" => Imports(x, i, s, t)
  /\ x.op \in Opens => Opening(x, i, s, t)
  /\ x.op = "close" => Closing(s, t)

\* The k-th block around statement i is that of an earlier statement, and what was there
\* before the block is still there in it.
Within(c, q, i, s, k) ==
  LET b == s.blocks[k]
      e == At(c, q, b.at)
  IN /\ b.at \in 1..(i - 1)
     /\ c[b.at].op = IF b.kind = "arm" THEN "arm" ELSE "open"
     /\ e.blocks = Cut(s.blocks, k - 1)
     /\ b.stack = Len(e.stack) /\ Begins(e.stack, s.stack)
     /\ b.imports = Len(e.imports) /\ Begins(e.imports, s.imports)
     /\ b.frame_pointer = e.frame_pointer

Around(c, q, i) ==
  LET s == At(c, q, i)
  IN /\ s.frame_pointer <= Len(s.stack)
     /\ \A k \in 1..Len(s.blocks) : Within(c, q, i, s, k)

\* The variables of the innermost block begin where frame_pointer says.
Pointed(c, q, i) ==
  LET s == At(c, q, i)
  IN s.blocks # <<>> =>
       IF Inner(s).kind = "arm" THEN s.frame_pointer = At(c, q, Inner(s).at).frame_pointer
       ELSE s.frame_pointer = Len(At(c, q, Inner(s).at + 1).stack)

\* An arm defines nothing.
InArm(c, q, i) ==
  LET s == At(c, q, i)
  IN s.blocks # <<>> /\ Inner(s).kind = "arm" => Alike(s, At(c, q, Inner(s).at))

\* Every block that was opened is still open or is closed by the statement it names.
Linked(c, q) ==
  /\ \A k \in 1..Len(q.blocks) : c[q.blocks[k].at].to = 0
  /\ \A i \in 1..Len(c) :
       c[i].op \in Opens =>
         \/ \E k \in 1..Len(q.blocks) : q.blocks[k].at = i
         \/ c[i].to \in (i + 1)..Len(c) /\ c[c[i].to].op = "close" /\ Inner(c[c[i].to].seen).at = i
  /\ \A j \in 1..Len(c) : c[j].op = "close" => c[Inner(c[j].seen).at].to = j

ArmDefines(c) ==
  \E i \in 2..Len(c) : c[i].op \in {"let", "export let", "import"} /\ c[i - 1].op = "arm"

Coded(c, q) ==
  /\ c \in Seq(Stm) /\ q \in PState
  /\ Len(c) + Len(q.blocks) <= 2 * MaxCode /\ Len(q.blocks) <= Len(c)
  /\ At(c, q, 1).stack = <<>> /\ At(c, q, 1).imports = <<>>
  /\ \A i \in 1..Len(c) : Steps(c[i], i, At(c, q, i), At(c, q, i + 1))
  /\ \A i \in 1..(Len(c) + 1) : Around(c, q, i) /\ Pointed(c, q, i)
  /\ ~ArmDefines(c) => \A i \in 1..(Len(c) + 1) : InArm(c, q, i)
  /\ Linked(c, q)

-----------------------------------------------------------------------------
\* The state at run time, a, before a statement where the parser's was s.

\* What blocks will restore is there, the outer ones' below the inner ones'.
Fits(a) ==
  \A k \in 1..Len(a.blocks) :
    LET b == a.blocks[k]
    IN /\ b.outer <= b.scope /\ b.scope <= Len(a.scope) /\ b.imports <= Len(a.imports)
       /\ \A l \in (k + 1)..Len(a.blocks) :
            b.scope <= a.blocks[l].outer /\ b.imports <= a.blocks[l].imports

\* The evaluator is inside the blocks that the parser was in.
SameBlocks(a, s) ==
  Len(a.blocks) = Len(s.blocks) /\ \A k \in 1..Len(a.blocks) : a.blocks[k].at = s.blocks[k].at

\* The state that b restores was mirrored by what the parser knew, or names were searched for.
Mirrors(c, q, a, b) ==
  LET e == At(c, q, b.at)
      t == At(c, q, b.at + 1)
  IN /\ b.scope - b.outer = Len(t.stack) - Len(e.stack)
     /\ ~b.always_search_scope =>
          /\ b.scope = Len(t.stack) /\ Begins(t.stack, a.scope)
          /\ b.imports = Len(e.imports) /\ Begins(e.imports, a.imports)

\* How many variables there are beyond those the parser knew, when b was entered.
Surplus(c, q, b) == b.outer - Len(At(c, q, b.at).stack)

Mirrored(c, q, a, s) ==
  /\ ~a.always_search_scope => Match(a.scope, s.stack) /\ Match(a.imports, s.imports)
  /\ Len(s.stack) <= Len(a.scope)
  /\ \A k \in 1..Len(a.blocks) :
       /\ Mirrors(c, q, a, a.blocks[k])
       /\ 0 <= Surplus(c, q, a.blocks[k])
       /\ Surplus(c, q, a.blocks[k]) <= Len(a.scope) - Len(s.stack)
       /\ \A l \in (k + 1)..Len(a.blocks) :
            Surplus(c, q, a.blocks[k]) <= Surplus(c, q, a.blocks[l])

Follows(c, q, a, s) ==
  /\ SameBlocks(a, s)
  /\ ~ArmDefines(c) => Mirrored(c, q, a, s)

VInv ==
  /\ phase \in {"parse", "run", "end", "error", "panic"}
  /\ r \in RState /\ ip \in 1..(Len(code) + 1)
  /\ Coded(code, p)
  /\ Fits(r)
  /\ phase = "parse" => /\ ip = 1 /\ r.scope = <<>> /\ r.imports = <<>> /\ r.blocks = <<>>
                        /\ ~r.always_search_scope
  /\ phase # "parse" => p.blocks = <<>>
  /\ phase = "run" => Follows(code, p, r, At(code, p, ip))
  /\ ~ArmDefines(code) => phase # "panic"

-----------------------------------------------------------------------------
\* Lemmas on stacks.

LEMMA CutFacts ==
  ASSUME NEW S, NEW s \in Seq(S), NEW n \in 0..Len(s)
  PROVE  /\ Cut(s, n) \in Seq(S) /\ Len(Cut(s, n)) = n
         /\ \A j \in 1..n : Cut(s, n)[j] = s[j]
<1>1. Len(s) \in Nat BY LenProperties
<1>2. 1 \in 1..(Len(s) + 1) /\ n \in (1 - 1)..Len(s) /\ n - 1 + 1 = n BY <1>1
<1>3. /\ SubSeq(s, 1, n) \in Seq(S) /\ Len(SubSeq(s, 1, n)) = n - 1 + 1
      /\ \A j \in 1..(n - 1 + 1) : SubSeq(s, 1, n)[j] = s[1 + j - 1]
  BY <1>2, SubSeqProperties
<1>4. \A j \in 1..n : 1 + j - 1 = j BY <1>1
<1> QED BY <1>2, <1>3, <1>4 DEF Cut

LEMMA CutWhole ==
  ASSUME NEW S, NEW s \in Seq(S)
  PROVE  Cut(s, Len(s)) = s
<1>1. Len(s) \in Nat /\ Len(s) \in 0..Len(s) BY LenProperties
<1>2. /\ Cut(s, Len(s)) \in Seq(S) /\ Len(Cut(s, Len(s))) = Len(s)
      /\ \A j \in 1..Len(s) : Cut(s, Len(s))[j] = s[j]
  BY <1>1, CutFacts
<1> QED BY <1>2, SeqEqual

LEMMA CutCut ==
  ASSUME NEW S, NEW s \in Seq(S), NEW n \in 0..Len(s), NEW m \in 0..n
  PROVE  Cut(Cut(s, n), m) = Cut(s, m)
<1>1. Len(s) \in Nat /\ m \in 0..Len(s) BY LenProperties
<1>2. /\ Cut(s, n) \in Seq(S) /\ Len(Cut(s, n)) = n /\ \A j \in 1..n : Cut(s, n)[j] = s[j] BY CutFacts
<1>3. /\ Cut(s, m) \in Seq(S) /\ Len(Cut(s, m)) = m /\ \A j \in 1..m : Cut(s, m)[j] = s[j]
  BY <1>1, CutFacts
<1>4. m \in 0..Len(Cut(s, n)) BY <1>2
<1>5. /\ Cut(Cut(s, n), m) \in Seq(S) /\ Len(Cut(Cut(s, n), m)) = m
      /\ \A j \in 1..m : Cut(Cut(s, n), m)[j] = Cut(s, n)[j]
  BY <1>2, <1>4, CutFacts
<1>6. \A j \in 1..m : j \in 1..n BY <1>1
<1>7. \A j \in 1..m : Cut(Cut(s, n), m)[j] = Cut(s, m)[j] BY <1>2, <1>3, <1>5, <1>6
<1> QED BY <1>3, <1>5, <1>7, SeqEqual

LEMMA CutAppend ==
  ASSUME NEW S, NEW s \in Seq(S), NEW x \in S, NEW n \in 0..Len(s)
  PROVE  Cut(Append(s, x), n) = Cut(s, n)
<1>1. Len(s) \in Nat BY LenProperties
<1>2. /\ Append(s, x) \in Seq(S) /\ Len(Append(s, x)) = Len(s) + 1
      /\ \A j \in 1..Len(s) : Append(s, x)[j] = s[j]
  BY AppendProperties
<1>3. n \in 0..Len(Append(s, x)) /\ \A j \in 1..n : j \in 1..Len(s) BY <1>1, <1>2
<1>4. /\ Cut(s, n) \in Seq(S) /\ Len(Cut(s, n)) = n /\ \A j \in 1..n : Cut(s, n)[j] = s[j] BY CutFacts
<1>5. /\ Cut(Append(s, x), n) \in Seq(S) /\ Len(Cut(Append(s, x), n)) = n
      /\ \A j \in 1..n : Cut(Append(s, x), n)[j] = Append(s, x)[j]
  BY <1>2, <1>3, CutFacts
<1>6. \A j \in 1..n : Cut(Append(s, x), n)[j] = Cut(s, n)[j] BY <1>2, <1>3, <1>4, <1>5
<1> QED BY <1>4, <1>5, <1>6, SeqEqual

LEMMA BeginsSelf == ASSUME NEW s, Len(s) \in Nat PROVE Begins(s, s) /\ Match(s, s)
BY DEF Begins, Match

LEMMA BeginsTrans ==
  ASSUME NEW s, NEW t, NEW u, Len(s) \in Nat, Len(t) \in Nat, Len(u) \in Nat, Begins(s, t), Begins(t, u)
  PROVE  Begins(s, u)
<1>1. Len(s) <= Len(u) /\ \A j \in 1..Len(s) : j \in 1..Len(t) BY DEF Begins
<1> QED BY <1>1 DEF Begins

LEMMA MatchBegins ==
  ASSUME NEW s, NEW t, Len(s) \in Nat, Match(s, t)
  PROVE  Match(t, s) /\ Begins(s, t) /\ Begins(t, s)
BY DEF Begins, Match

LEMMA MatchTrans ==
  ASSUME NEW s, NEW t, NEW u, Match(s, t), Match(t, u)
  PROVE  Match(s, u)
BY DEF Match

LEMMA GrowsBegins == ASSUME NEW s, NEW n, NEW t, Grows(s, n, t) PROVE Begins(s, t)
BY DEF Grows

\* Growing by the same name.
LEMMA GrowsMatch ==
  ASSUME NEW s, NEW t, NEW u, NEW v, NEW n, Len(s) \in Nat, Match(s, t), Grows(s, n, u), Grows(t, n, v)
  PROVE  Match(u, v)
<1>1. Len(t) = Len(s) /\ Len(u) = Len(s) + 1 /\ Len(v) = Len(s) + 1 BY DEF Match, Grows
<1>2. \A j \in 1..(Len(s) + 1) : j \in 1..Len(s) \/ j = Len(s) + 1 OBVIOUS
<1>3. \A j \in 1..Len(s) : u[j].name = s[j].name /\ v[j].name = t[j].name /\ s[j].name = t[j].name
  BY <1>1 DEF Match, Grows, Begins
<1>4. u[Len(s) + 1].name = n /\ v[Len(s) + 1].name = n BY <1>1 DEF Grows
<1> QED BY <1>1, <1>2, <1>3, <1>4 DEF Match

\* What begins a stack begins what is left of it.
LEMMA BeginsCut ==
  ASSUME NEW S, NEW s \in Seq(S), NEW t, Len(t) \in Nat, Begins(t, s), NEW n \in 0..Len(s), Len(t) <= n
  PROVE  Begins(t, Cut(s, n))
<1>1. Len(Cut(s, n)) = n /\ \A j \in 1..n : Cut(s, n)[j] = s[j] BY CutFacts
<1>2. \A j \in 1..Len(t) : j \in 1..n OBVIOUS
<1> QED BY <1>1, <1>2 DEF Begins

LEMMA CutMatch ==
  ASSUME NEW S, NEW s \in Seq(S), NEW t, Len(t) \in Nat, Begins(t, s)
  PROVE  Match(Cut(s, Len(t)), t)
<1>1. Len(s) \in Nat /\ Len(t) \in 0..Len(s) BY LenProperties DEF Begins
<1>2. Len(Cut(s, Len(t))) = Len(t) /\ \A j \in 1..Len(t) : Cut(s, Len(t))[j] = s[j] BY <1>1, CutFacts
<1> QED BY <1>2 DEF Begins, Match

LEMMA AppendGrows ==
  ASSUME NEW S, NEW s \in Seq(S), NEW x \in S
  PROVE  Grows(s, x.name, Append(s, x))
<1>1. Len(s) \in Nat BY LenProperties
<1>2. /\ Len(Append(s, x)) = Len(s) + 1 /\ Append(s, x)[Len(s) + 1] = x
      /\ \A j \in 1..Len(s) : Append(s, x)[j] = s[j]
  BY AppendProperties
<1> QED BY <1>1, <1>2 DEF Grows, Begins

LEMMA EmptyMatch == Match(<<>>, <<>>) /\ Len(<<>>) = 0
BY DEF Match

LEMMA MatchNames ==
  ASSUME NEW s, NEW t, Match(s, t)
  PROVE  NamesOf(s) = NamesOf(t)
BY DEF Match, NamesOf

-----------------------------------------------------------------------------
\* Searching for a name.

IsLast(s, n, i) ==
  i \in 0..Len(s) /\ (i > 0 => s[i].name = n) /\ \A j \in (i + 1)..Len(s) : s[j].name # n

LEMMA LastIsUnique ==
  ASSUME NEW s, Len(s) \in Nat, NEW n, NEW i, NEW k, IsLast(s, n, i), IsLast(s, n, k)
  PROVE  i = k
<1>1. i \in 0..Len(s) /\ k \in 0..Len(s) BY DEF IsLast
<1>2. CASE i < k
  <2>1. k \in (i + 1)..Len(s) /\ k > 0 BY <1>1, <1>2
  <2> QED BY <2>1 DEF IsLast
<1>3. CASE k < i
  <2>1. i \in (k + 1)..Len(s) /\ i > 0 BY <1>1, <1>3
  <2> QED BY <2>1 DEF IsLast
<1> QED BY <1>1, <1>2, <1>3

LEMMA NatHasMin ==
  ASSUME NEW S, S \subseteq Nat, S # {}
  PROVE  \E k \in S : \A j \in S : k <= j
<1>1. PICK k \in S : \A j \in S : ~(<<j, k>> \in OpToRel(<, Nat)) BY NatLessThanWellFounded, WFMin
<1>2. ASSUME NEW j \in S, ~(k <= j) PROVE FALSE
  <2>1. j \in Nat /\ k \in Nat /\ j < k BY <1>2
  <2>2. <<j, k>> \in Nat \X Nat /\ <<j, k>>[1] < <<j, k>>[2] BY <2>1
  <2>3. <<j, k>> \in OpToRel(<, Nat) BY <2>2, Zenon DEF OpToRel
  <2> QED BY <1>1, <2>3
<1> QED BY <1>2

LEMMA FindIsLast ==
  ASSUME NEW s, Len(s) \in Nat, NEW n
  PROVE  IsLast(s, n, Find(s, n))
<1> DEFINE S == {i \in 0..Len(s) : \A j \in (i + 1)..Len(s) : s[j].name # n}
<1>1. Len(s) \in S /\ S \subseteq Nat OBVIOUS
<1> HIDE DEF S
<1>2. PICK i \in S : \A j \in S : i <= j BY <1>1, NatHasMin
<1>3. i \in 0..Len(s) /\ \A j \in (i + 1)..Len(s) : s[j].name # n BY <1>2 DEF S
<1>4. ASSUME i > 0, s[i].name # n PROVE FALSE
  <2>1. i - 1 \in 0..Len(s) /\ \A j \in ((i - 1) + 1)..Len(s) : j = i \/ j \in (i + 1)..Len(s)
    BY <1>3, <1>4
  <2>2. i - 1 \in S BY <1>3, <1>4, <2>1 DEF S
  <2> QED BY <1>2, <1>3, <2>2
<1>5. \E k \in 0..Len(s) : /\ k > 0 => s[k].name = n
                           /\ \A j \in (k + 1)..Len(s) : s[j].name # n
  BY <1>3, <1>4
<1> QED BY <1>5, Zenon DEF Find, IsLast

LEMMA FindFirstIsNamed ==
  ASSUME NEW s, Len(s) \in Nat, NEW n
  PROVE  LET i == FindFirst(s, n) IN i \in 0..Len(s) /\ (i > 0 => s[i].name = n)
<1> DEFINE S == {i \in 1..Len(s) : s[i].name = n}
           P(i) == /\ i > 0 => s[i].name = n
                   /\ \A j \in 1..(IF i = 0 THEN Len(s) ELSE i - 1) : s[j].name # n
<1>1. \E i \in 0..Len(s) : P(i)
  <2>1. CASE S = {}
    <3>1. P(0) /\ 0 \in 0..Len(s) BY <2>1
    <3> QED BY <3>1
  <2>2. CASE S # {}
    <3>1. S \subseteq Nat OBVIOUS
    <3> HIDE DEF S
    <3>2. PICK i \in S : \A j \in S : i <= j BY <2>2, <3>1, NatHasMin
    <3>3. i \in 1..Len(s) /\ s[i].name = n BY <3>2 DEF S
    <3>4. \A j \in 1..(i - 1) : j \in 1..Len(s) /\ ~(i <= j) BY <3>3
    <3>5. \A j \in 1..(i - 1) : s[j].name # n BY <3>2, <3>4 DEF S
    <3>6. i \in 0..Len(s) /\ i # 0 BY <3>3
    <3> QED BY <3>3, <3>5, <3>6
  <2> QED BY <2>1, <2>2
<1>2. FindFirst(s, n) \in 0..Len(s) /\ P(FindFirst(s, n)) BY <1>1, Zenon DEF FindFirst
<1> QED BY <1>2

LEMMA FindMatch ==
  ASSUME NEW s, NEW t, NEW n, Len(s) \in Nat, Match(s, t)
  PROVE  Find(s, n) = Find(t, n)
<1>1. Len(t) \in Nat /\ Len(t) = Len(s) /\ \A j \in 1..Len(s) : s[j].name = t[j].name BY DEF Match
<1>2. IsLast(s, n, Find(s, n)) /\ IsLast(t, n, Find(t, n)) BY <1>1, FindIsLast
<1>3. \A i \in 0..Len(s) : (i > 0 => i \in 1..Len(s)) /\ \A j \in (i + 1)..Len(s) : j \in 1..Len(s)
  BY <1>1
<1>4. \A i : IsLast(t, n, i) => IsLast(s, n, i) BY <1>1, <1>3 DEF IsLast
<1> QED BY <1>2, <1>4, LastIsUnique

-----------------------------------------------------------------------------
\* Types.

LEMMA PStateFacts ==
  ASSUME NEW q \in PState
  PROVE  /\ q.stack \in Seq(Entry) /\ q.imports \in Seq(Import) /\ q.blocks \in Seq(Block)
         /\ q.frame_pointer \in Nat
         /\ Len(q.stack) \in Nat /\ Len(q.imports) \in Nat /\ Len(q.blocks) \in Nat
         /\ q.blocks # <<>> => Len(q.blocks) > 0 /\ Len(q.blocks) \in 1..Len(q.blocks)
<1>1. /\ q.stack \in Seq(Entry) /\ q.imports \in Seq(Import) /\ q.blocks \in Seq(Block)
      /\ q.frame_pointer \in Nat
  BY DEF PState
<1>2. Len(q.stack) \in Nat /\ Len(q.imports) \in Nat /\ Len(q.blocks) \in Nat BY <1>1, LenProperties
<1>3. q.blocks # <<>> => Len(q.blocks) # 0 BY <1>1, EmptySeq
<1> QED BY <1>1, <1>2, <1>3

LEMMA BlockFacts ==
  ASSUME NEW q \in PState, NEW k \in 1..Len(q.blocks)
  PROVE  /\ q.blocks[k] \in Block
         /\ q.blocks[k].at \in Nat /\ q.blocks[k].stack \in Nat /\ q.blocks[k].imports \in Nat
         /\ q.blocks[k].frame_pointer \in Nat /\ q.blocks[k].kind \in {"block", "arm"}
<1>1. q.blocks[k] \in Block BY PStateFacts, ElementOfSeq
<1> QED BY <1>1 DEF Block

LEMMA RStateFacts ==
  ASSUME NEW a \in RState
  PROVE  /\ a.scope \in Seq(Var) /\ a.imports \in Seq(Imported) /\ a.blocks \in Seq(Saved)
         /\ a.always_search_scope \in BOOLEAN
         /\ Len(a.scope) \in Nat /\ Len(a.imports) \in Nat /\ Len(a.blocks) \in Nat
<1>1. /\ a.scope \in Seq(Var) /\ a.imports \in Seq(Imported) /\ a.blocks \in Seq(Saved)
      /\ a.always_search_scope \in BOOLEAN
  BY DEF RState
<1> QED BY <1>1, LenProperties

LEMMA SavedFacts ==
  ASSUME NEW a \in RState, NEW k \in 1..Len(a.blocks)
  PROVE  /\ a.blocks[k] \in Saved
         /\ a.blocks[k].at \in Nat /\ a.blocks[k].outer \in Nat /\ a.blocks[k].scope \in Nat
         /\ a.blocks[k].imports \in Nat /\ a.blocks[k].always_search_scope \in BOOLEAN
<1>1. a.blocks[k] \in Saved BY RStateFacts, ElementOfSeq
<1> QED BY <1>1 DEF Saved

LEMMA StmFacts ==
  ASSUME NEW c \in Seq(Stm), NEW i \in 1..Len(c)
  PROVE  /\ c[i] \in Stm /\ c[i].op \in Plain \cup Lets \cup Opens \cup {"import", "close"}
         /\ c[i].name \in Names \cup {NoName} /\ c[i].offset \in Nat /\ c[i].to \in Nat
         /\ c[i].seen \in PState
<1>1. c[i] \in Stm BY ElementOfSeq
<1> QED BY <1>1 DEF Stm

LEMMA AtFacts ==
  ASSUME NEW c \in Seq(Stm), NEW q \in PState, NEW i \in 1..(Len(c) + 1)
  PROVE  /\ At(c, q, i) \in PState
         /\ i \in 1..Len(c) => At(c, q, i) = c[i].seen
         /\ i = Len(c) + 1 => At(c, q, i) = q
<1>1. Len(c) \in Nat BY LenProperties
<1>2. CASE i \in 1..Len(c)
  <2>1. i <= Len(c) /\ i # Len(c) + 1 BY <1>1, <1>2
  <2> QED BY <1>2, <2>1, StmFacts DEF At
<1>3. CASE i = Len(c) + 1
  <2>1. ~(i <= Len(c)) /\ i \notin 1..Len(c) BY <1>1, <1>3
  <2> QED BY <1>3, <2>1 DEF At
<1> QED BY <1>1, <1>2, <1>3

LEMMA OpsApart ==
  /\ \A op \in Plain : op \notin Lets /\ op \notin Opens /\ op # "import" /\ op # "close"
  /\ \A op \in Lets : op \notin Opens /\ op # "import" /\ op # "close"
  /\ \A op \in Opens : op # "import" /\ op # "close"
BY DEF Plain, Lets, Opens

-----------------------------------------------------------------------------
\* The parser adds a statement.

\* d is c with one more statement, before which the parser's state was q.
Grown(c, q, d) ==
  /\ d \in Seq(Stm) /\ Len(d) = Len(c) + 1 /\ d[Len(d)].seen = q
  /\ \A i \in 1..Len(c) : /\ d[i].op = c[i].op /\ d[i].name = c[i].name
                          /\ d[i].offset = c[i].offset /\ d[i].seen = c[i].seen

LEMMA AtGrown ==
  ASSUME NEW c \in Seq(Stm), NEW q \in PState, NEW d, NEW u \in PState, Grown(c, q, d)
  PROVE  /\ \A i \in 1..Len(d) : At(d, u, i) = At(c, q, i)
         /\ At(d, u, Len(d) + 1) = u /\ At(c, q, Len(d)) = q
<1>1. Len(c) \in Nat /\ d \in Seq(Stm) /\ Len(d) = Len(c) + 1 BY LenProperties DEF Grown
<1>2. At(d, u, Len(d) + 1) = u /\ At(c, q, Len(d)) = q BY <1>1, AtFacts
<1>3. ASSUME NEW i \in 1..Len(d) PROVE At(d, u, i) = At(c, q, i)
  <2>1. At(d, u, i) = d[i].seen BY SMTT(60), <1>1, AtFacts
  <2>2. CASE i \in 1..Len(c) BY SMTT(60), <1>1, <2>1, <2>2, AtFacts DEF Grown
  <2>3. CASE i = Len(d) BY <1>2, <2>1, <2>3 DEF Grown
  <2> QED BY <1>1, <2>2, <2>3
<1> QED BY <1>2, <1>3

LEMMA StepsSame ==
  ASSUME NEW x, NEW y, NEW i, NEW s, NEW t, Steps(x, i, s, t),
         x.op = y.op, x.name = y.name, x.offset = y.offset
  PROVE  Steps(y, i, s, t)
<1>1. x.op \in Plain => Uses(y, s, t) BY DEF Steps, Uses
<1>2. x.op \in Lets => Let(y, i, s, t) BY DEF Steps, Let
<1>3. x.op = "import" => Imports(y, i, s, t) BY DEF Steps, Imports
<1>4. x.op \in Opens => Opening(y, i, s, t) BY DEF Steps, Opening
<1> QED BY <1>1, <1>2, <1>3, <1>4 DEF Steps

LEMMA ArmDefinesGrows ==
  ASSUME NEW c, NEW q, NEW d, Len(c) \in Nat, Grown(c, q, d), ArmDefines(c)
  PROVE  ArmDefines(d)
<1>1. PICK i \in 2..Len(c) : c[i].op \in {"let", "export let", "import"} /\ c[i - 1].op = "arm"
  BY DEF ArmDefines
<1>2. i \in 1..Len(c) /\ i - 1 \in 1..Len(c) /\ i \in 2..Len(d) BY DEF Grown
<1>3. d[i].op = c[i].op /\ d[i - 1].op = c[i - 1].op BY <1>2 DEF Grown
<1> QED BY <1>1, <1>2, <1>3 DEF ArmDefines

LEMMA CodedGrows ==
  ASSUME NEW c, NEW q, Coded(c, q), NEW d, NEW u \in PState, Grown(c, q, d),
         Steps(d[Len(d)], Len(d), q, u), Linked(d, u),
         Len(d) + Len(u.blocks) <= 2 * MaxCode, Len(u.blocks) <= Len(d),
         Around(d, u, Len(d) + 1), Pointed(d, u, Len(d) + 1),
         ~ArmDefines(d) => InArm(d, u, Len(d) + 1)
  PROVE  Coded(d, u)
<1>1. /\ c \in Seq(Stm) /\ q \in PState /\ d \in Seq(Stm) /\ Len(c) \in Nat /\ Len(d) = Len(c) + 1
      /\ \A i \in 1..(Len(c) + 1) : Around(c, q, i) /\ Pointed(c, q, i)
  BY LenProperties DEF Coded, Grown
<1>2. /\ \A i \in 1..Len(d) : At(d, u, i) = At(c, q, i)
      /\ At(d, u, Len(d) + 1) = u /\ At(c, q, Len(d)) = q
  BY <1>1, AtGrown
<1>3. ASSUME NEW i \in 1..Len(d) PROVE Steps(d[i], i, At(d, u, i), At(d, u, i + 1))
  <2>1. CASE i \in 1..Len(c)
    <3>1. i + 1 \in 1..Len(d) BY <1>1, <2>1
    <3>2. Steps(c[i], i, At(d, u, i), At(d, u, i + 1)) BY <1>2, <2>1, <3>1 DEF Coded
    <3>3. c[i].op = d[i].op /\ c[i].name = d[i].name /\ c[i].offset = d[i].offset BY <2>1 DEF Grown
    <3> QED BY <3>2, <3>3, StepsSame
  <2>2. CASE i = Len(d) BY <1>2, <2>2
  <2> QED BY <1>1, <2>1, <2>2
<1>4. ASSUME NEW i \in 1..Len(d) PROVE Around(d, u, i)
  <2> DEFINE s == At(c, q, i)
  <2>1. At(d, u, i) = s /\ Around(c, q, i) BY <1>1, <1>2
  <2>2. ASSUME NEW k \in 1..Len(s.blocks) PROVE Within(d, u, i, s, k)
    <3>1. Within(c, q, i, s, k) BY <2>1 DEF Around
    <3>2. s.blocks[k].at \in 1..Len(c) /\ s.blocks[k].at \in 1..Len(d) BY SMTT(60), <1>1, <3>1 DEF Within
    <3>3. /\ At(d, u, s.blocks[k].at) = At(c, q, s.blocks[k].at)
          /\ d[s.blocks[k].at].op = c[s.blocks[k].at].op
      BY <1>2, <3>2 DEF Grown
    <3> QED BY <3>1, <3>3 DEF Within
  <2>3. s.frame_pointer <= Len(s.stack) BY <2>1 DEF Around
  <2> QED BY <2>1, <2>2, <2>3 DEF Around
<1>5. ASSUME NEW i \in 1..Len(d), At(c, q, i).blocks # <<>>
      PROVE  LET n == Inner(At(c, q, i)).at
             IN n \in 1..(i - 1) /\ At(d, u, n) = At(c, q, n) /\ At(d, u, n + 1) = At(c, q, n + 1)
  <2> DEFINE s == At(c, q, i)
             n == Inner(s).at
  <2>1. s \in PState /\ Around(c, q, i) BY <1>1, AtFacts
  <2>2. Len(s.blocks) \in 1..Len(s.blocks) BY <1>5, <2>1, PStateFacts
  <2>3. n \in 1..(i - 1) BY <2>1, <2>2 DEF Inner, Around, Within
  <2>4. n \in 1..Len(d) /\ n + 1 \in 1..Len(d) BY <1>1, <2>3
  <2> QED BY <1>2, <2>3, <2>4
<1>6. ASSUME NEW i \in 1..Len(d) PROVE Pointed(d, u, i)
  <2>1. Pointed(c, q, i) /\ At(d, u, i) = At(c, q, i) BY <1>1, <1>2
  <2> QED BY <1>5, <2>1 DEF Pointed
<1>7. ASSUME NEW i \in 1..Len(d), ~ArmDefines(d) PROVE InArm(d, u, i)
  <2>1. ~ArmDefines(c) BY <1>1, <1>7, ArmDefinesGrows
  <2>2. InArm(c, q, i) /\ At(d, u, i) = At(c, q, i) BY <1>1, <1>2, <2>1 DEF Coded
  <2> QED BY <1>5, <2>2 DEF InArm
<1>8. \A i \in 1..(Len(d) + 1) : i \in 1..Len(d) \/ i = Len(d) + 1 BY <1>1
<1>9. At(d, u, 1).stack = <<>> /\ At(d, u, 1).imports = <<>>
  <2>1. 1 \in 1..Len(d) BY <1>1
  <2> QED BY <1>2, <2>1 DEF Coded
<1> QED BY <1>1, <1>3, <1>4, <1>6, <1>7, <1>8, <1>9 DEF Coded

LEMMA AlikeTrans ==
  ASSUME NEW s, NEW t, NEW u, Alike(s, t), Alike(t, u)
  PROVE  Alike(s, u)
BY MatchTrans DEF Alike

\* The parser's state after the new statement is that before an earlier one, m, with more
\* on the stacks.
LEMMA Continues ==
  ASSUME NEW c, NEW q, Coded(c, q), NEW d, NEW u \in PState, Grown(c, q, d),
         NEW m \in 1..Len(d), NEW e, e = At(c, q, m),
         u.blocks = e.blocks, u.frame_pointer = e.frame_pointer,
         Begins(e.stack, u.stack), Begins(e.imports, u.imports),
         ~ArmDefines(d) /\ e.blocks # <<>> /\ Inner(e).kind = "arm" => Alike(u, e)
  PROVE  /\ Around(d, u, Len(d) + 1) /\ Pointed(d, u, Len(d) + 1)
         /\ ~ArmDefines(d) => InArm(d, u, Len(d) + 1)
<1>1. /\ c \in Seq(Stm) /\ q \in PState /\ d \in Seq(Stm) /\ Len(c) \in Nat /\ Len(d) = Len(c) + 1
      /\ Around(c, q, m) /\ Pointed(c, q, m)
  BY LenProperties DEF Coded, Grown
<1>2. /\ \A i \in 1..Len(d) : At(d, u, i) = At(c, q, i)
      /\ At(d, u, Len(d) + 1) = u
  BY <1>1, AtGrown
<1>3. e \in PState BY <1>1, AtFacts
<1>4. /\ Len(e.stack) \in Nat /\ Len(u.stack) \in Nat /\ Len(e.imports) \in Nat
      /\ Len(u.imports) \in Nat /\ e.frame_pointer \in Nat
  BY SMTT(60), <1>3, PStateFacts
<1>5. ASSUME NEW k \in 1..Len(u.blocks) PROVE Within(d, u, Len(d) + 1, u, k)
  <2> DEFINE n == u.blocks[k].at
             g == At(c, q, n)
  <2>1. Within(c, q, m, e, k) BY <1>1 DEF Around
  <2>2. n \in 1..Len(c) /\ n \in 1..((Len(d) + 1) - 1) /\ n \in 1..Len(d) /\ n \in 1..(Len(c) + 1)
    BY <1>1, <2>1 DEF Within
  <2>3. At(d, u, n) = g /\ d[n].op = c[n].op BY <1>2, <2>2 DEF Grown
  <2>4. g \in PState BY <1>1, <2>2, AtFacts
  <2>5. Len(g.stack) \in Nat /\ Len(g.imports) \in Nat BY <2>4, PStateFacts
  <2>6. Begins(g.stack, e.stack) /\ Begins(g.imports, e.imports) BY <2>1 DEF Within
  <2>7. Begins(g.stack, u.stack) /\ Begins(g.imports, u.imports) BY <1>4, <2>5, <2>6, BeginsTrans
  <2> HIDE DEF g
  <2> QED BY <2>1, <2>2, <2>3, <2>7 DEF Within, g
<1>6. u.frame_pointer <= Len(u.stack)
  <2>1. e.frame_pointer <= Len(e.stack) /\ Len(e.stack) <= Len(u.stack) BY <1>1 DEF Around, Begins
  <2> QED BY <1>4, <2>1
<1>7. Around(d, u, Len(d) + 1) BY <1>2, <1>5, <1>6 DEF Around
<1>8. ASSUME u.blocks # <<>>
      PROVE  LET n == Inner(u).at
             IN n \in 1..(m - 1) /\ At(d, u, n) = At(c, q, n) /\ At(d, u, n + 1) = At(c, q, n + 1)
  <2>1. Len(e.blocks) \in 1..Len(e.blocks) BY <1>3, <1>8, PStateFacts
  <2>2. Within(c, q, m, e, Len(e.blocks)) BY <1>1, <2>1 DEF Around
  <2>3. Inner(u).at \in 1..(m - 1) BY <2>2 DEF Inner, Within
  <2>4. Inner(u).at \in 1..Len(d) /\ Inner(u).at + 1 \in 1..Len(d) BY <1>1, <2>3
  <2> QED BY <1>2, <2>3, <2>4
<1>9. Inner(u) = Inner(e) BY DEF Inner
<1>10. Pointed(d, u, Len(d) + 1) BY <1>1, <1>2, <1>8, <1>9 DEF Pointed
<1>11. ASSUME ~ArmDefines(d) PROVE InArm(d, u, Len(d) + 1)
  <2>1. ~ArmDefines(c) BY <1>1, <1>11, ArmDefinesGrows
  <2>2. InArm(c, q, m) BY <1>1, <2>1 DEF Coded
  <2>3. ASSUME u.blocks # <<>>, Inner(u).kind = "arm"
        PROVE  Alike(u, At(d, u, Inner(u).at))
    <3>1. Alike(u, e) /\ Alike(e, At(c, q, Inner(e).at)) BY <1>9, <1>11, <2>2, <2>3 DEF InArm
    <3>2. Alike(u, At(c, q, Inner(e).at)) BY <3>1, AlikeTrans
    <3> QED BY <1>8, <1>9, <2>3, <3>2
  <2> QED BY <1>2, <2>3 DEF InArm
<1> QED BY <1>7, <1>10, <1>11

\* The new statement opens a block.
LEMMA OpensNew ==
  ASSUME NEW c, NEW q, Coded(c, q), NEW d, NEW u \in PState, Grown(c, q, d),
         d[Len(d)].op \in Opens, Opening(d[Len(d)], Len(d), q, u)
  PROVE  /\ Around(d, u, Len(d) + 1) /\ Pointed(d, u, Len(d) + 1)
         /\ ~ArmDefines(d) => InArm(d, u, Len(d) + 1)
<1> DEFINE x == d[Len(d)]
           b == [kind |-> IF x.op = "arm" THEN "arm" ELSE "block", at |-> Len(d),
                 stack |-> Len(q.stack), imports |-> Len(q.imports),
                 frame_pointer |-> q.frame_pointer]
           L == Len(q.blocks)
<1>1. /\ c \in Seq(Stm) /\ q \in PState /\ d \in Seq(Stm) /\ Len(c) \in Nat /\ Len(d) = Len(c) + 1
      /\ Len(d) \in 1..(Len(c) + 1)
  BY LenProperties DEF Coded, Grown
<1>2. /\ \A i \in 1..Len(d) : At(d, u, i) = At(c, q, i)
      /\ At(d, u, Len(d) + 1) = u /\ At(c, q, Len(d)) = q /\ At(d, u, Len(d)) = q
  BY <1>1, AtGrown
<1>3. Around(c, q, Len(d)) BY <1>1 DEF Coded
<1>4. /\ q.stack \in Seq(Entry) /\ q.blocks \in Seq(Block) /\ q.frame_pointer \in Nat
      /\ Len(q.stack) \in Nat /\ Len(u.stack) \in Nat /\ Len(q.imports) \in Nat /\ L \in Nat
  BY <1>1, PStateFacts
<1>5. b \in Block BY <1>1, <1>4 DEF Block
<1>6. /\ u.blocks = Append(q.blocks, b) /\ u.imports = q.imports
      /\ Begins(q.stack, u.stack) /\ u.frame_pointer <= Len(u.stack)
  <2>1. u.blocks = Append(q.blocks, b) /\ u.imports = q.imports BY DEF Opening
  <2>2. u.stack = q.stack => Begins(q.stack, u.stack) BY <1>4, BeginsSelf
  <2>3. ~(u.stack = q.stack) => Grows(q.stack, x.name, u.stack) BY DEF Opening
  <2>4. Begins(q.stack, u.stack) BY <2>2, <2>3, GrowsBegins
  <2>5. q.frame_pointer <= Len(q.stack) BY <1>2, <1>3 DEF Around
  <2>6. u.frame_pointer = Len(u.stack) \/ (u.frame_pointer = q.frame_pointer /\ u.stack = q.stack)
    BY DEF Opening
  <2> QED BY <1>4, <2>1, <2>4, <2>5, <2>6
<1> HIDE DEF b
<1>7. /\ Len(u.blocks) = L + 1 /\ u.blocks[L + 1] = b
      /\ \A k \in 1..L : u.blocks[k] = q.blocks[k]
  BY <1>4, <1>5, <1>6, AppendProperties
<1>8. \A k \in 0..L : Cut(u.blocks, k) = Cut(q.blocks, k)
  <2>1. ASSUME NEW k \in 0..L PROVE Cut(Append(q.blocks, b), k) = Cut(q.blocks, k)
    BY <1>4, <1>5, CutAppend
  <2> QED BY <1>6, <2>1
<1>9. ASSUME NEW k \in 1..Len(u.blocks) PROVE Within(d, u, Len(d) + 1, u, k)
  <2>1. CASE k \in 1..L
    <3> DEFINE n == q.blocks[k].at
               g == At(c, q, n)
    <3>1. Within(c, q, Len(d), q, k) BY <1>2, <1>3, <2>1 DEF Around
    <3>2. n \in 1..Len(c) /\ n \in 1..((Len(d) + 1) - 1) /\ n \in 1..Len(d) /\ n \in 1..(Len(c) + 1)
      BY <1>1, <3>1 DEF Within
    <3>3. At(d, u, n) = g /\ d[n].op = c[n].op BY <1>2, <3>2 DEF Grown
    <3>4. g \in PState BY <1>1, <3>2, AtFacts
    <3>5. Len(g.stack) \in Nat BY <3>4, PStateFacts
    <3>6. Begins(g.stack, q.stack) BY <3>1 DEF Within
    <3>7. Begins(g.stack, u.stack) BY <1>4, <1>6, <3>5, <3>6, BeginsTrans
    <3>8. u.blocks[k] = q.blocks[k] /\ Cut(u.blocks, k - 1) = Cut(q.blocks, k - 1)
      BY <1>4, <1>7, <1>8, <2>1
    <3> HIDE DEF g
    <3> QED BY <1>6, <3>1, <3>2, <3>3, <3>7, <3>8 DEF Within, g
  <2>2. CASE k = L + 1
    <3>1. u.blocks[k] = b /\ b.at = Len(d) /\ k - 1 = L BY <1>4, <1>7, <2>2 DEF b
    <3>2. q.blocks = Cut(u.blocks, k - 1) BY <1>4, <1>8, <3>1, CutWhole
    <3>3. /\ b.stack = Len(q.stack) /\ b.imports = Len(q.imports)
          /\ b.frame_pointer = q.frame_pointer
          /\ x.op = IF b.kind = "arm" THEN "arm" ELSE "open"
      BY DEF b, Opens
    <3>4. Begins(q.imports, u.imports) BY <1>4, <1>6, BeginsSelf
    <3>5. Len(d) \in 1..((Len(d) + 1) - 1) BY <1>1
    <3> QED BY <1>2, <1>6, <3>1, <3>2, <3>3, <3>4, <3>5 DEF Within
  <2> QED BY <1>4, <1>7, <2>1, <2>2
<1>10. Around(d, u, Len(d) + 1) BY <1>2, <1>6, <1>9 DEF Around
<1>11. Inner(u) = b /\ b.at = Len(d) /\ (b.kind = "arm" <=> x.op = "arm") BY <1>7 DEF Inner, b
<1>12. Pointed(d, u, Len(d) + 1)
  <2>1. IF b.kind = "arm" THEN u.frame_pointer = q.frame_pointer ELSE u.frame_pointer = Len(u.stack)
    BY <1>11 DEF Opening
  <2> QED BY <1>2, <1>11, <2>1 DEF Pointed
<1>13. InArm(d, u, Len(d) + 1)
  <2>1. b.kind = "arm" => u.stack = q.stack /\ u.imports = q.imports /\ u.frame_pointer = q.frame_pointer
    BY <1>11 DEF Opening
  <2>2. b.kind = "arm" => Alike(u, q) BY <1>4, <2>1, BeginsSelf DEF Alike
  <2> QED BY <1>2, <1>11, <2>2 DEF InArm
<1> QED BY <1>10, <1>12, <1>13

\* After the end of a block the parser is where it was before the block.
LEMMA ClosesFacts ==
  ASSUME NEW c, NEW q, Coded(c, q), NEW m \in 1..(Len(c) + 1), NEW s, s = At(c, q, m),
         NEW t, Closing(s, t), NEW n, n = Inner(s).at, NEW e, e = At(c, q, n)
  PROVE  /\ n \in 1..(m - 1) /\ c[n].op \in Opens /\ e \in PState /\ t \in PState
         /\ t.blocks = e.blocks /\ Len(s.blocks) = Len(e.blocks) + 1
         /\ t.frame_pointer = e.frame_pointer
         /\ Begins(e.stack, t.stack) /\ Begins(e.imports, t.imports)
         /\ ~ArmDefines(c) => Alike(t, e)
<1> DEFINE L == Len(s.blocks)
           b == Inner(s)
<1>1. c \in Seq(Stm) /\ q \in PState /\ Len(c) \in Nat /\ Around(c, q, m) /\ Pointed(c, q, m)
  BY LenProperties DEF Coded
<1>2. s \in PState /\ s.blocks # <<>> BY <1>1, AtFacts DEF Closing
<1>3. /\ L \in Nat /\ L \in 1..L /\ s.blocks \in Seq(Block) /\ s.stack \in Seq(Entry)
      /\ s.imports \in Seq(Import) /\ s.frame_pointer \in Nat
      /\ Len(s.stack) \in Nat /\ Len(s.imports) \in Nat
  BY <1>2, PStateFacts
<1>4. b.kind \in {"block", "arm"} /\ b.frame_pointer \in Nat BY <1>2, <1>3, BlockFacts DEF Inner
<1>5. Within(c, q, m, s, L) BY <1>1, <1>3 DEF Around
<1>6. /\ n \in 1..(m - 1) /\ c[n].op \in Opens /\ e.blocks = Cut(s.blocks, L - 1)
      /\ b.stack = Len(e.stack) /\ Begins(e.stack, s.stack)
      /\ b.imports = Len(e.imports) /\ Begins(e.imports, s.imports)
      /\ b.frame_pointer = e.frame_pointer
  BY <1>5 DEF Within, Inner, Opens
<1>7. e \in PState
  <2>1. n \in 1..(Len(c) + 1) BY <1>1, <1>6
  <2> QED BY <1>1, <2>1, AtFacts
<1>8. Len(e.stack) \in Nat /\ Len(e.imports) \in Nat BY <1>7, PStateFacts
<1>9. Cut(s.blocks, L - 1) \in Seq(Block) /\ Len(Cut(s.blocks, L - 1)) = L - 1
  <2>1. ASSUME NEW k \in 0..Len(s.blocks)
        PROVE  Cut(s.blocks, k) \in Seq(Block) /\ Len(Cut(s.blocks, k)) = k
    BY <1>3, CutFacts
  <2>2. L - 1 \in 0..Len(s.blocks) BY <1>3
  <2> QED BY <2>1, <2>2
<1>10. CASE b.kind = "arm"
  <2>1. t = [s EXCEPT !.blocks = Cut(@, Len(@) - 1)] BY <1>10 DEF Closing, Closed
  <2>2. /\ t.stack = s.stack /\ t.imports = s.imports /\ t.frame_pointer = s.frame_pointer
        /\ t.blocks = Cut(s.blocks, L - 1) /\ t \in PState
    BY <1>2, <1>9, <2>1 DEF PState
  <2>3. s.frame_pointer = e.frame_pointer BY <1>1, <1>2, <1>10 DEF Pointed
  <2>4. ~ArmDefines(c) => Alike(s, e) BY <1>2, <1>10 DEF Coded, InArm
  <2> QED BY <1>3, <1>6, <1>7, <1>9, <2>2, <2>3, <2>4 DEF Alike
<1>11. CASE b.kind = "block"
  <2>1. t = [[s EXCEPT !.stack = Cut(@, b.stack), !.imports = Cut(@, b.imports),
                       !.frame_pointer = b.frame_pointer]
             EXCEPT !.blocks = Cut(@, Len(@) - 1)]
    BY <1>11 DEF Closing, Closed
  <2>2. Len(e.stack) \in 0..Len(s.stack) /\ Len(e.imports) \in 0..Len(s.imports)
    BY <1>3, <1>6, <1>8 DEF Begins
  <2>3. Cut(s.stack, Len(e.stack)) \in Seq(Entry) /\ Cut(s.imports, Len(e.imports)) \in Seq(Import)
    BY <1>3, <2>2, CutFacts
  <2>4. /\ t.stack = Cut(s.stack, Len(e.stack)) /\ t.imports = Cut(s.imports, Len(e.imports))
        /\ t.frame_pointer = e.frame_pointer /\ t.blocks = Cut(s.blocks, L - 1) /\ t \in PState
    BY <1>2, <1>4, <1>6, <1>9, <2>1, <2>3 DEF PState
  <2>5. Match(t.stack, e.stack) /\ Match(t.imports, e.imports) BY <1>3, <1>6, <1>8, <2>4, CutMatch
  <2>6. Match(e.stack, t.stack) /\ Match(e.imports, t.imports) BY <2>5 DEF Match
  <2>7. Begins(e.stack, t.stack) /\ Begins(e.imports, t.imports) BY <1>8, <2>6, MatchBegins
  <2> QED BY <1>3, <1>6, <1>7, <1>9, <2>4, <2>5, <2>7 DEF Alike
<1> QED BY <1>4, <1>10, <1>11

\* The statements that define or use a name leave the blocks alone.
Straight == Plain \cup Lets \cup {"import"}

LEMMA StraightFacts ==
  ASSUME NEW x, NEW i, NEW s \in PState, NEW t \in PState, x.op \in Straight, Steps(x, i, s, t)
  PROVE  /\ x.name \in Names
         /\ t.blocks = s.blocks /\ t.frame_pointer = s.frame_pointer
         /\ Begins(s.stack, t.stack) /\ Begins(s.imports, t.imports)
         /\ x.op \in Plain => Alike(s, t)
         /\ x.op \notin Plain /\ s.blocks # <<>> /\ Inner(s).kind = "arm" => Inner(s).at = i - 1
<1>1. Len(s.stack) \in Nat /\ Len(s.imports) \in Nat BY PStateFacts
<1>2. CASE x.op \in Plain
  <2>1. Uses(x, s, t) BY <1>2 DEF Steps
  <2>2. x.name \in Names /\ t.blocks = s.blocks /\ Alike(s, t) BY <2>1 DEF Uses
  <2> QED BY <1>1, <1>2, <2>2, MatchBegins DEF Alike
<1>3. CASE x.op \in Lets
  <2>1. Let(x, i, s, t) BY <1>3 DEF Steps
  <2>2. Begins(s.stack, t.stack) BY <1>1, <2>1, MatchBegins, GrowsBegins DEF Let
  <2>3. Begins(s.imports, s.imports) BY <1>1, BeginsSelf
  <2> QED BY <1>3, <2>1, <2>2, <2>3, OpsApart DEF Let
<1>4. CASE x.op = "import"
  <2>1. Imports(x, i, s, t) BY <1>4 DEF Steps
  <2>2. Begins(s.stack, s.stack) BY <1>1, BeginsSelf
  <2>3. Begins(s.imports, t.imports) BY <2>1, GrowsBegins DEF Imports
  <2> QED BY <1>4, <2>1, <2>2, <2>3, OpsApart DEF Imports
<1> QED BY <1>2, <1>3, <1>4 DEF Straight

LEMMA OpenBlocks ==
  ASSUME NEW c, NEW q, Coded(c, q)
  PROVE  /\ \A k \in 1..Len(q.blocks) : q.blocks[k].at \in 1..Len(c)
         /\ \A j \in 1..Len(c) : c[j].op = "close" => Inner(c[j].seen).at \in 1..(j - 1)
<1>1. c \in Seq(Stm) /\ q \in PState /\ Len(c) \in Nat BY LenProperties DEF Coded
<1>2. ASSUME NEW k \in 1..Len(q.blocks) PROVE q.blocks[k].at \in 1..Len(c)
  <2>1. Around(c, q, Len(c) + 1) /\ At(c, q, Len(c) + 1) = q BY <1>1, AtFacts DEF Coded
  <2>2. Within(c, q, Len(c) + 1, q, k) BY <2>1 DEF Around
  <2>3. q.blocks[k].at \in 1..((Len(c) + 1) - 1) BY <2>2 DEF Within
  <2> QED BY <1>1, <2>3
<1>3. ASSUME NEW j \in 1..Len(c), c[j].op = "close" PROVE Inner(c[j].seen).at \in 1..(j - 1)
  <2>1. At(c, q, j) = c[j].seen BY <1>1, AtFacts
  <2>2. Steps(c[j], j, c[j].seen, At(c, q, j + 1)) BY <2>1 DEF Coded
  <2>3. Closing(c[j].seen, At(c, q, j + 1)) /\ j \in 1..(Len(c) + 1) BY <1>1, <1>3, <2>2 DEF Steps
  <2> QED BY <2>1, <2>3, ClosesFacts
<1> QED BY <1>2, <1>3

LEMMA LinkedStraight ==
  ASSUME NEW c, NEW q, Coded(c, q), NEW d, NEW u \in PState, Grown(c, q, d),
         \A i \in 1..Len(c) : d[i].to = c[i].to,
         d[Len(d)].op \in Straight, u.blocks = q.blocks
  PROVE  Linked(d, u)
<1>1. /\ \A k \in 1..Len(q.blocks) : q.blocks[k].at \in 1..Len(c)
      /\ \A j \in 1..Len(c) : c[j].op = "close" => Inner(c[j].seen).at \in 1..(j - 1)
  BY OpenBlocks
<1>2. Len(c) \in Nat /\ Len(d) = Len(c) + 1 /\ Linked(c, q) BY LenProperties DEF Coded, Grown
<1>3. \A i \in 1..Len(d) : i \in 1..Len(c) \/ i = Len(d) BY <1>2
<1>4. d[Len(d)].op \notin Opens /\ d[Len(d)].op # "close" BY OpsApart DEF Straight, Opens
<1>5. \A k \in 1..Len(u.blocks) : d[u.blocks[k].at].to = 0 BY SMTT(60), <1>1, <1>2 DEF Linked
<1>6. ASSUME NEW i \in 1..Len(d), d[i].op \in Opens
      PROVE  \/ \E k \in 1..Len(u.blocks) : u.blocks[k].at = i
             \/ /\ d[i].to \in (i + 1)..Len(d) /\ d[d[i].to].op = "close"
                /\ Inner(d[d[i].to].seen).at = i
  <2>1. i \in 1..Len(c) /\ c[i].op \in Opens /\ d[i].to = c[i].to BY <1>3, <1>4, <1>6 DEF Grown
  <2>2. CASE \E k \in 1..Len(q.blocks) : q.blocks[k].at = i BY <2>2
  <2>3. CASE /\ c[i].to \in (i + 1)..Len(c) /\ c[c[i].to].op = "close"
             /\ Inner(c[c[i].to].seen).at = i
    <3>1. c[i].to \in 1..Len(c) /\ c[i].to \in (i + 1)..Len(d) BY <1>2, <2>1, <2>3
    <3> QED BY <2>1, <2>3, <3>1 DEF Grown
  <2> QED BY <1>2, <2>1, <2>2, <2>3 DEF Linked
<1>7. ASSUME NEW j \in 1..Len(d), d[j].op = "close" PROVE d[Inner(d[j].seen).at].to = j
  <2>1. j \in 1..Len(c) /\ c[j].op = "close" /\ d[j].seen = c[j].seen BY <1>3, <1>4, <1>7 DEF Grown
  <2>2. Inner(c[j].seen).at \in 1..Len(c) BY <1>1, <1>2, <2>1
  <2> QED BY <1>2, <2>1, <2>2 DEF Linked
<1> QED BY <1>5, <1>6, <1>7 DEF Linked

LEMMA LinkedOpen ==
  ASSUME NEW c, NEW q, Coded(c, q), NEW d, NEW u \in PState, Grown(c, q, d),
         \A i \in 1..Len(c) : d[i].to = c[i].to, d[Len(d)].to = 0,
         d[Len(d)].op \in Opens, NEW b \in Block, u.blocks = Append(q.blocks, b), b.at = Len(d)
  PROVE  Linked(d, u)
<1>1. /\ \A k \in 1..Len(q.blocks) : q.blocks[k].at \in 1..Len(c)
      /\ \A j \in 1..Len(c) : c[j].op = "close" => Inner(c[j].seen).at \in 1..(j - 1)
  BY OpenBlocks
<1>2. /\ Len(c) \in Nat /\ Len(d) = Len(c) + 1 /\ Linked(c, q)
      /\ q.blocks \in Seq(Block) /\ Len(q.blocks) \in Nat
  BY LenProperties, PStateFacts DEF Coded, Grown
<1>3. /\ Len(u.blocks) = Len(q.blocks) + 1 /\ u.blocks[Len(q.blocks) + 1] = b
      /\ \A k \in 1..Len(q.blocks) : u.blocks[k] = q.blocks[k]
  BY <1>2, AppendProperties
<1>4. /\ \A i \in 1..Len(d) : i \in 1..Len(c) \/ i = Len(d)
      /\ \A k \in 1..Len(u.blocks) : k \in 1..Len(q.blocks) \/ k = Len(q.blocks) + 1
      /\ \A k \in 1..Len(q.blocks) : k \in 1..Len(u.blocks)
      /\ Len(q.blocks) + 1 \in 1..Len(u.blocks)
  BY <1>2, <1>3
<1>5. d[Len(d)].op # "close" BY OpsApart
<1>6. \A k \in 1..Len(u.blocks) : d[u.blocks[k].at].to = 0 BY SMTT(60), <1>1, <1>2, <1>3, <1>4 DEF Linked
<1>7. ASSUME NEW i \in 1..Len(d), d[i].op \in Opens
      PROVE  \/ \E k \in 1..Len(u.blocks) : u.blocks[k].at = i
             \/ /\ d[i].to \in (i + 1)..Len(d) /\ d[d[i].to].op = "close"
                /\ Inner(d[d[i].to].seen).at = i
  <2>1. CASE i = Len(d) BY <1>3, <1>4, <2>1
  <2>2. CASE i \in 1..Len(c)
    <3>1. c[i].op \in Opens /\ d[i].to = c[i].to BY <1>7, <2>2 DEF Grown
    <3>2. CASE \E k \in 1..Len(q.blocks) : q.blocks[k].at = i BY <1>3, <1>4, <3>2
    <3>3. CASE /\ c[i].to \in (i + 1)..Len(c) /\ c[c[i].to].op = "close"
               /\ Inner(c[c[i].to].seen).at = i
      <4>1. c[i].to \in 1..Len(c) /\ c[i].to \in (i + 1)..Len(d) BY <1>2, <2>2, <3>3
      <4> QED BY <3>1, <3>3, <4>1 DEF Grown
    <3> QED BY <1>2, <2>2, <3>1, <3>2, <3>3 DEF Linked
  <2> QED BY <1>4, <2>1, <2>2
<1>8. ASSUME NEW j \in 1..Len(d), d[j].op = "close" PROVE d[Inner(d[j].seen).at].to = j
  <2>1. j \in 1..Len(c) /\ c[j].op = "close" /\ d[j].seen = c[j].seen BY <1>4, <1>5, <1>8 DEF Grown
  <2>2. Inner(c[j].seen).at \in 1..Len(c) BY <1>1, <1>2, <2>1
  <2> QED BY <1>2, <2>1, <2>2 DEF Linked
<1> QED BY <1>6, <1>7, <1>8 DEF Linked

LEMMA LinkedClose ==
  ASSUME NEW c, NEW q, Coded(c, q), NEW d, NEW u, Grown(c, q, d),
         d[Len(d)].op = "close", Closing(q, u), NEW n, n = Inner(q).at, d[n].to = Len(d),
         \A i \in 1..Len(c) : i # n => d[i].to = c[i].to
  PROVE  Linked(d, u)
<1> DEFINE L == Len(q.blocks)
           e == At(c, q, n)
<1>1. /\ \A k \in 1..Len(q.blocks) : q.blocks[k].at \in 1..Len(c)
      /\ \A j \in 1..Len(c) : c[j].op = "close" => Inner(c[j].seen).at \in 1..(j - 1)
  BY OpenBlocks
<1>2. /\ c \in Seq(Stm) /\ q \in PState /\ Len(c) \in Nat /\ Len(d) = Len(c) + 1 /\ Linked(c, q)
      /\ At(c, q, Len(c) + 1) = q /\ Len(c) + 1 \in 1..(Len(c) + 1)
  BY LenProperties, AtFacts DEF Coded, Grown
<1>3. /\ n \in 1..((Len(c) + 1) - 1) /\ u.blocks = e.blocks /\ e \in PState
      /\ L = Len(e.blocks) + 1
  BY <1>2, ClosesFacts
<1>4. /\ L \in Nat /\ L \in 1..L /\ q.blocks \in Seq(Block) /\ n \in 1..Len(c)
      /\ n \in 1..(Len(c) + 1) /\ Len(u.blocks) = L - 1 /\ n = q.blocks[L].at
  <2>1. q.blocks # <<>> /\ n = q.blocks[L].at BY DEF Closing, Inner
  <2>2. L \in Nat /\ L \in 1..L /\ q.blocks \in Seq(Block) BY <1>2, <2>1, PStateFacts
  <2>3. Len(e.blocks) \in Nat BY <1>3, PStateFacts
  <2>4. n \in 1..Len(c) /\ n \in 1..(Len(c) + 1) BY <1>2, <1>3
  <2>5. Len(u.blocks) = L - 1 BY SMTT(60), <1>3, <2>2, <2>3
  <2> QED BY <2>1, <2>2, <2>4, <2>5
<1>5. ASSUME NEW k \in 1..(L - 1) PROVE u.blocks[k] = q.blocks[k] /\ u.blocks[k].at # n
  <2>1. Within(c, q, Len(c) + 1, q, L) BY <1>2, <1>4 DEF Coded, Around
  <2>2. e.blocks = Cut(q.blocks, L - 1) /\ L - 1 \in 0..Len(q.blocks) BY <1>4, <2>1 DEF Within
  <2>3. Around(c, q, n) BY <1>4 DEF Coded
  <2>4. Within(c, q, n, e, k) BY ZenonT(60), <1>3, <1>4, <2>3 DEF Around
  <2>5. u.blocks[k].at \in 1..(n - 1) BY <1>3, <2>4 DEF Within
  <2>6. ASSUME NEW l \in 0..Len(q.blocks) PROVE \A j \in 1..l : Cut(q.blocks, l)[j] = q.blocks[j]
    BY <1>4, CutFacts
  <2> QED BY SMTT(60), <1>3, <1>4, <2>2, <2>5, <2>6
<1>6. /\ \A i \in 1..Len(d) : i \in 1..Len(c) \/ i = Len(d)
      /\ \A k \in 1..Len(q.blocks) : k \in 1..(L - 1) \/ k = L
      /\ \A k \in 1..(L - 1) : k \in 1..L
  BY <1>2, <1>4
<1>7. c[n].to = 0 BY <1>2, <1>4 DEF Linked
<1>8. ASSUME NEW k \in 1..Len(u.blocks) PROVE d[u.blocks[k].at].to = 0
  <2>1. k \in 1..(L - 1) BY <1>4
  <2>2. u.blocks[k] = q.blocks[k] /\ u.blocks[k].at # n /\ k \in 1..L BY <1>5, <1>6, <2>1
  <2> QED BY <1>1, <1>2, <2>2 DEF Linked
<1>9. ASSUME NEW i \in 1..Len(d), d[i].op \in Opens
      PROVE  \/ \E k \in 1..Len(u.blocks) : u.blocks[k].at = i
             \/ /\ d[i].to \in (i + 1)..Len(d) /\ d[d[i].to].op = "close"
                /\ Inner(d[d[i].to].seen).at = i
  <2>1. i \in 1..Len(c) /\ c[i].op \in Opens BY <1>6, <1>9, OpsApart DEF Grown
  <2>2. CASE i = n
    <3>1. d[i].to = Len(d) /\ Len(d) \in (i + 1)..Len(d) BY <1>2, <1>4, <2>2
    <3> QED BY <2>2, <3>1 DEF Grown
  <2>3. CASE i # n
    <3>1. d[i].to = c[i].to BY <2>1, <2>3
    <3>2. CASE \E k \in 1..Len(q.blocks) : q.blocks[k].at = i
      <4>1. PICK k \in 1..Len(q.blocks) : q.blocks[k].at = i BY <3>2
      <4>2. k \in 1..(L - 1) BY <1>4, <1>6, <2>3, <4>1
      <4>3. u.blocks[k].at = i BY <1>5, <4>1, <4>2
      <4> QED BY <1>4, <4>2, <4>3
    <3>3. CASE /\ c[i].to \in (i + 1)..Len(c) /\ c[c[i].to].op = "close"
               /\ Inner(c[c[i].to].seen).at = i
      <4>1. c[i].to \in 1..Len(c) /\ c[i].to \in (i + 1)..Len(d) BY <1>2, <2>1, <3>3
      <4> QED BY <3>1, <3>3, <4>1 DEF Grown
    <3> QED BY <1>2, <2>1, <3>2, <3>3 DEF Linked
  <2> QED BY <2>2, <2>3
<1>10. ASSUME NEW j \in 1..Len(d), d[j].op = "close" PROVE d[Inner(d[j].seen).at].to = j
  <2>1. CASE j = Len(d) BY <2>1 DEF Grown
  <2>2. CASE j \in 1..Len(c)
    <3>1. c[j].op = "close" /\ d[j].seen = c[j].seen BY <1>10, <2>2 DEF Grown
    <3>2. Inner(c[j].seen).at \in 1..Len(c) /\ c[Inner(c[j].seen).at].to = j
      BY <1>1, <1>2, <2>2, <3>1 DEF Linked
    <3>3. Inner(c[j].seen).at # n BY <1>7, <2>2, <3>2
    <3> QED BY <3>1, <3>2, <3>3
  <2> QED BY <1>6, <2>1, <2>2
<1> QED BY <1>8, <1>9, <1>10 DEF Linked

LEMMA AppendGrown ==
  ASSUME NEW c \in Seq(Stm), NEW x \in Stm
  PROVE  /\ Grown(c, x.seen, Append(c, x)) /\ Len(Append(c, x)) = Len(c) + 1
         /\ Append(c, x)[Len(c) + 1] = x
         /\ \A i \in 1..Len(c) : Append(c, x)[i] = c[i]
<1> DEFINE d == Append(c, x)
<1>1. /\ d \in Seq(Stm) /\ Len(d) = Len(c) + 1 /\ d[Len(c) + 1] = x
      /\ \A i \in 1..Len(c) : d[i] = c[i]
  BY AppendProperties
<1> HIDE DEF d
<1>2. Grown(c, x.seen, d) BY <1>1 DEF Grown
<1> QED BY <1>1, <1>2 DEF d

LEMMA AlikeSym ==
  ASSUME NEW s, NEW t, Alike(s, t)
  PROVE  Alike(t, s)
BY DEF Alike, Match

LEMMA CodedStraight ==
  ASSUME NEW c, NEW q, Coded(c, q), Len(c) < MaxCode, NEW x \in Stm, x.seen = q,
         x.op \in Straight, NEW u \in PState, Steps(x, Len(c) + 1, q, u)
  PROVE  Coded(Append(c, x), u)
<1> DEFINE d == Append(c, x)
<1>1. c \in Seq(Stm) /\ q \in PState /\ Len(c) \in Nat BY LenProperties DEF Coded
<1>2. /\ Grown(c, q, d) /\ Len(d) = Len(c) + 1 /\ d[Len(d)] = x /\ \A i \in 1..Len(c) : d[i] = c[i]
  <2>1. /\ Grown(c, x.seen, d) /\ Len(d) = Len(c) + 1 /\ d[Len(c) + 1] = x
        /\ \A i \in 1..Len(c) : d[i] = c[i]
    BY <1>1, AppendGrown
  <2> QED BY <2>1
<1> HIDE DEF d
<1>3. At(c, q, Len(d)) = q /\ Len(d) \in 1..Len(d) BY <1>1, <1>2, AtGrown
<1>4. /\ u.blocks = q.blocks /\ u.frame_pointer = q.frame_pointer
      /\ Begins(q.stack, u.stack) /\ Begins(q.imports, u.imports)
      /\ x.op \in Plain => Alike(q, u)
      /\ x.op \notin Plain /\ q.blocks # <<>> /\ Inner(q).kind = "arm" => Inner(q).at = Len(d) - 1
  <2>1. Steps(x, Len(d), q, u) BY <1>2
  <2> QED BY <1>1, <2>1, StraightFacts
<1>5. ASSUME ~ArmDefines(d), q.blocks # <<>>, Inner(q).kind = "arm" PROVE Alike(u, q)
  <2>1. CASE x.op \in Plain BY <1>4, <2>1, AlikeSym
  <2>2. CASE x.op \notin Plain
    <3>0. Inner(q).at = Len(c) BY <1>1, <1>2, <1>4, <1>5, <2>2
    <3>1. x.op \in {"let", "export let", "import"} BY <2>2 DEF Straight, Lets
    <3>2. Len(q.blocks) \in 1..Len(q.blocks) BY <1>1, <1>5, PStateFacts
    <3>3. Around(c, q, Len(d)) BY <1>1, <1>2, <1>3 DEF Coded
    <3>4. Within(c, q, Len(d), q, Len(q.blocks)) BY <1>3, <3>2, <3>3 DEF Around
    <3>5. c[Len(c)].op = "arm" /\ Len(c) \in 1..(Len(d) - 1) BY <1>5, <3>0, <3>4 DEF Within, Inner
    <3>6. d[Len(d) - 1].op = "arm" /\ Len(d) \in 2..Len(d) BY <1>1, <1>2, <3>5
    <3> QED BY <1>2, <1>5, <3>1, <3>6 DEF ArmDefines
  <2> QED BY <2>1, <2>2
<1>6. /\ Around(d, u, Len(d) + 1) /\ Pointed(d, u, Len(d) + 1)
      /\ ~ArmDefines(d) => InArm(d, u, Len(d) + 1)
  BY <1>2, <1>3, <1>4, <1>5, Continues
<1>7. Linked(d, u) BY <1>2, <1>4, LinkedStraight
<1>8. Len(d) + Len(u.blocks) <= 2 * MaxCode /\ Len(u.blocks) <= Len(d)
  <2> DEFINE Q == Len(q.blocks)
             U == Len(u.blocks)
  <2>1. /\ Q <= Len(c) /\ Q \in Nat /\ U = Q
        /\ Len(d) = Len(c) + 1 /\ Len(c) \in Nat /\ MaxCode \in Nat
    BY <1>1, <1>2, <1>4, PStateFacts, VarAssumption DEF Coded
  <2> HIDE DEF Q, U
  <2>2. Len(d) + U <= 2 * MaxCode /\ U <= Len(d) BY <2>1
  <2> QED BY <2>2 DEF U
<1>9. Coded(d, u) BY <1>2, <1>6, <1>7, <1>8, CodedGrows
<1> QED BY <1>9 DEF d

LEMMA CodedOpen ==
  ASSUME NEW c, NEW q, Coded(c, q), Len(c) < MaxCode, NEW x \in Stm, x.seen = q, x.to = 0,
         x.op \in Opens, NEW u \in PState, Opening(x, Len(c) + 1, q, u)
  PROVE  Coded(Append(c, x), u)
<1> DEFINE d == Append(c, x)
           b == [kind |-> IF x.op = "arm" THEN "arm" ELSE "block", at |-> Len(c) + 1,
                 stack |-> Len(q.stack), imports |-> Len(q.imports),
                 frame_pointer |-> q.frame_pointer]
<1>1. /\ c \in Seq(Stm) /\ q \in PState /\ Len(c) \in Nat BY LenProperties DEF Coded
<1>2. /\ Grown(c, q, d) /\ Len(d) = Len(c) + 1 /\ d[Len(d)] = x /\ \A i \in 1..Len(c) : d[i] = c[i]
  <2>1. /\ Grown(c, x.seen, d) /\ Len(d) = Len(c) + 1 /\ d[Len(c) + 1] = x
        /\ \A i \in 1..Len(c) : d[i] = c[i]
    BY <1>1, AppendGrown
  <2> QED BY <2>1
<1> HIDE DEF d
<1>3. /\ Len(q.stack) \in Nat /\ Len(q.imports) \in Nat /\ q.frame_pointer \in Nat
      /\ q.blocks \in Seq(Block) /\ Len(q.blocks) \in Nat
  BY <1>1, PStateFacts
<1>4. b \in Block /\ b.at = Len(d) BY <1>1, <1>2, <1>3 DEF Block
<1>5. u.blocks = Append(q.blocks, b) BY DEF Opening
<1> HIDE DEF b
<1>6. Linked(d, u) BY <1>2, <1>4, <1>5, LinkedOpen
<1>7. /\ Around(d, u, Len(d) + 1) /\ Pointed(d, u, Len(d) + 1)
      /\ ~ArmDefines(d) => InArm(d, u, Len(d) + 1)
  BY <1>2, OpensNew
<1>8. Len(d) + Len(u.blocks) <= 2 * MaxCode /\ Len(u.blocks) <= Len(d)
  <2> DEFINE Q == Len(q.blocks)
             U == Len(u.blocks)
  <2>1. U = Q + 1 BY <1>3, <1>4, <1>5, AppendProperties
  <2>2. /\ Q <= Len(c) /\ Q \in Nat
        /\ Len(d) = Len(c) + 1 /\ Len(c) \in Nat /\ MaxCode \in Nat
    BY <1>1, <1>2, <1>3, VarAssumption DEF Coded
  <2> HIDE DEF Q, U
  <2>3. Len(d) + U <= 2 * MaxCode /\ U <= Len(d) BY <2>1, <2>2
  <2> QED BY <2>3 DEF U
<1>9. Steps(d[Len(d)], Len(d), q, u) BY <1>2, OpsApart DEF Steps
<1>10. Coded(d, u) BY <1>2, <1>6, <1>7, <1>8, <1>9, CodedGrows
<1> QED BY <1>10 DEF d

LEMMA StmWithTo == ASSUME NEW z \in Stm, NEW k \in Nat PROVE [z EXCEPT !.to = k + 1] \in Stm
BY DEF Stm

LEMMA CloseGrown ==
  ASSUME NEW c \in Seq(Stm), NEW x \in Stm, NEW n \in 1..Len(c), NEW f,
         f = [c EXCEPT ![n].to = Len(c) + 1]
  PROVE  /\ Grown(c, x.seen, Append(f, x)) /\ Append(f, x)[Len(Append(f, x))] = x
         /\ Append(f, x)[n].to = Len(Append(f, x))
         /\ \A i \in 1..Len(c) : i # n => Append(f, x)[i].to = c[i].to
<1>0. Len(c) \in Nat BY LenProperties
<1>1. /\ f \in Seq(Stm) /\ Len(f) = Len(c)
      /\ \A i \in 1..Len(c) : /\ f[i].op = c[i].op /\ f[i].name = c[i].name
                              /\ f[i].offset = c[i].offset /\ f[i].seen = c[i].seen
                              /\ i # n => f[i] = c[i]
      /\ f[n].to = Len(c) + 1
  <2> DEFINE y == [c[n] EXCEPT !.to = Len(c) + 1]
  <2>1. c[n] \in Stm BY StmFacts
  <2>2. /\ y.op = c[n].op /\ y.name = c[n].name /\ y.offset = c[n].offset
        /\ y.seen = c[n].seen /\ y.to = Len(c) + 1
    BY <2>1 DEF Stm
  <2>3. y \in Stm BY <1>0, <2>1, StmWithTo
  <2>4. f = [c EXCEPT ![n] = y] OBVIOUS
  <2> HIDE DEF y
  <2>5. /\ f \in Seq(Stm) /\ Len(f) = Len(c) /\ \A i \in 1..Len(c) : f[i] = IF i = n THEN y ELSE c[i]
    BY <2>3, <2>4, ExceptSeq
  <2> QED BY <2>2, <2>5
<1>2. /\ Append(f, x) \in Seq(Stm) /\ Len(Append(f, x)) = Len(c) + 1 /\ Append(f, x)[Len(c) + 1] = x
      /\ \A i \in 1..Len(c) : Append(f, x)[i] = f[i]
  BY <1>1, AppendProperties
<1>3. Grown(c, x.seen, Append(f, x)) BY <1>1, <1>2 DEF Grown
<1> QED BY <1>1, <1>2, <1>3

LEMMA CodedClose ==
  ASSUME NEW c, NEW q, Coded(c, q), NEW d, Grown(c, q, d), d[Len(d)].op = "close",
         NEW u, Closing(q, u), NEW n, n = Inner(q).at, d[n].to = Len(d),
         \A i \in 1..Len(c) : i # n => d[i].to = c[i].to
  PROVE  Coded(d, u) /\ u \in PState
<1> DEFINE e == At(c, q, n)
<1>1. /\ c \in Seq(Stm) /\ q \in PState /\ Len(c) \in Nat /\ Len(c) + 1 \in 1..(Len(c) + 1)
      /\ At(c, q, Len(c) + 1) = q /\ Len(d) = Len(c) + 1
  BY LenProperties, AtFacts DEF Coded, Grown
<1>2. /\ n \in 1..((Len(c) + 1) - 1) /\ u.blocks = e.blocks /\ e \in PState /\ u \in PState
      /\ Len(q.blocks) = Len(e.blocks) + 1
      /\ u.frame_pointer = e.frame_pointer
      /\ Begins(e.stack, u.stack) /\ Begins(e.imports, u.imports)
      /\ ~ArmDefines(c) => Alike(u, e)
  BY <1>1, ClosesFacts
<1>3. Linked(d, u) BY LinkedClose
<1>4. /\ Around(d, u, Len(d) + 1) /\ Pointed(d, u, Len(d) + 1)
      /\ ~ArmDefines(d) => InArm(d, u, Len(d) + 1)
  <2>1. n \in 1..Len(d) BY <1>1, <1>2
  <2>2. ~ArmDefines(d) => Alike(u, e) BY <1>1, <1>2, ArmDefinesGrows
  <2> QED BY <1>2, <2>1, <2>2, Continues
<1>5. Len(d) + Len(u.blocks) <= 2 * MaxCode /\ Len(u.blocks) <= Len(d)
  <2> DEFINE Q == Len(q.blocks)
             U == Len(u.blocks)
  <2>1. Q <= Len(c) /\ Len(c) + Q <= 2 * MaxCode BY DEF Coded
  <2>2. /\ U \in Nat /\ Q = U + 1
        /\ Len(d) = Len(c) + 1 /\ Len(c) \in Nat /\ MaxCode \in Nat
    BY <1>1, <1>2, PStateFacts, VarAssumption
  <2> HIDE DEF Q, U
  <2>3. Len(d) + U <= 2 * MaxCode /\ U <= Len(d) BY <2>1, <2>2
  <2> QED BY <2>3 DEF U
<1>6. Steps(d[Len(d)], Len(d), q, u) BY OpsApart DEF Steps
<1>7. Coded(d, u) BY <1>2, <1>3, <1>4, <1>5, <1>6, CodedGrows
<1> QED BY <1>2, <1>7

-----------------------------------------------------------------------------
\* The steps of the parser.

LEMMA ParseKeeps ==
  ASSUME VInv, phase = "parse", Coded(code', p'), UNCHANGED <<phase, r, ip>>
  PROVE  VInv'
<1>1. code' \in Seq(Stm) /\ ip = 1 /\ r \in RState /\ Fits(r) BY DEF VInv, Coded
<1>2. ip' \in 1..(Len(code') + 1) BY <1>1, LenProperties
<1>3. r' \in RState /\ Fits(r)' /\ phase' = "parse" /\ ip' = 1 BY <1>1 DEF Fits
<1>4. r'.scope = <<>> /\ r'.imports = <<>> /\ r'.blocks = <<>> /\ ~r'.always_search_scope
  BY SMTT(60) DEF VInv
<1>5. Coded(code, p)'
  BY ZenonT(60) DEF Coded, At, Around, Within, Pointed, InArm, Linked, ArmDefines, Steps, Let, Imports, Uses,
         Opening, Closing, Inner, Begins, Match, Grows, Alike
<1> QED BY <1>2, <1>3, <1>4, <1>5 DEF VInv

LEMMA StatementFacts ==
  ASSUME p \in PState, NEW op \in Plain \cup Lets \cup Opens \cup {"import", "close"},
         NEW n \in Names \cup {NoName}, NEW offset \in Nat, NEW x, x = Statement(op, n, offset)
  PROVE  /\ x \in Stm /\ x.op = op /\ x.name = n /\ x.offset = offset /\ x.to = 0 /\ x.seen = p
BY DEF Statement, Stm

LEMMA ParsingFacts ==
  ASSUME VInv, NEW op, Parsing(op)
  PROVE  /\ phase = "parse" /\ Coded(code, p) /\ p \in PState /\ code \in Seq(Stm)
         /\ Len(code) \in Nat /\ Len(code) < MaxCode
         /\ p.blocks # <<>> /\ Inner(p).kind = "arm" => Inner(p).at = (Len(code) + 1) - 1
<1>1. /\ phase = "parse" /\ Coded(code, p) /\ p \in PState /\ code \in Seq(Stm)
      /\ Len(code) \in Nat /\ Len(code) < MaxCode
  BY LenProperties DEF VInv, Coded, Parsing
<1>2. ASSUME p.blocks # <<>>, Inner(p).kind = "arm" PROVE Inner(p).at = (Len(code) + 1) - 1
  <2>1. Len(p.blocks) \in 1..Len(p.blocks) BY <1>1, <1>2, PStateFacts
  <2>2. Inner(p).at \in 1..Len(code) BY <1>1, <2>1, OpenBlocks DEF Inner
  <2>3. ~(Len(code) > Inner(p).at) BY <1>2 DEF Parsing, ArmIsFull, Inner
  <2> QED BY <1>1, <2>2, <2>3
<1> QED BY <1>1, <1>2

LEMMA GlobalLevelFacts ==
  ASSUME GlobalLevel
  PROVE  \A k \in 1..Len(p.blocks) : p.blocks[k].kind = "arm"
BY DEF GlobalLevel

\* Marking an entry as exported changes no name.
LEMMA MarkFacts ==
  ASSUME NEW s \in Seq(Entry), NEW k \in 1..Len(s)
  PROVE  [s EXCEPT ![k].alias = TRUE] \in Seq(Entry) /\ Match(s, [s EXCEPT ![k].alias = TRUE])
<1> DEFINE y == [s[k] EXCEPT !.alias = TRUE]
           t == [s EXCEPT ![k] = y]
<1>1. s[k] \in Entry BY ElementOfSeq
<1>2. y \in Entry /\ y.name = s[k].name BY <1>1 DEF Entry
<1>3. [s EXCEPT ![k].alias = TRUE] = t OBVIOUS
<1> HIDE DEF y
<1>4. t \in Seq(Entry) /\ Len(t) = Len(s) /\ \A j \in 1..Len(s) : t[j] = IF j = k THEN y ELSE s[j]
  BY <1>2, ExceptSeq
<1> HIDE DEF t
<1>5. Match(s, t) BY <1>2, <1>4 DEF Match
<1> QED BY <1>3, <1>4, <1>5

LEMMA WithStack ==
  ASSUME NEW q \in PState, NEW t \in Seq(Entry), NEW u, u = [q EXCEPT !.stack = t]
  PROVE  /\ u \in PState /\ u.stack = t /\ u.imports = q.imports /\ u.blocks = q.blocks
         /\ u.frame_pointer = q.frame_pointer
BY DEF PState

LEMMA NewEntry ==
  ASSUME NEW n \in Names
  PROVE  [name |-> n, alias |-> FALSE] \in Entry /\ [name |-> n, alias |-> FALSE].name = n
BY DEF Entry

LEMMA MatchGrows ==
  ASSUME NEW s, NEW n, NEW t, NEW u, Len(s) \in Nat, Grows(s, n, t), Match(t, u)
  PROVE  Grows(s, n, u)
<1>1. Len(t) = Len(s) + 1 /\ Len(u) = Len(t) /\ t[Len(s) + 1].name = n BY DEF Grows, Match
<1>2. \A j \in 1..Len(s) : j \in 1..Len(t) BY <1>1
<1>3. Len(s) + 1 \in 1..Len(t) BY <1>1
<1>4. \A j \in 1..Len(t) : t[j].name = u[j].name BY DEF Match
<1>5. Begins(s, u) BY <1>1, <1>2, <1>4 DEF Grows, Begins
<1> QED BY <1>1, <1>3, <1>4, <1>5 DEF Grows

LEMMA LetStep ==
  ASSUME VInv, NEW n \in Names, NEW e \in BOOLEAN, parse_let(n, e)
  PROVE  VInv'
<1> DEFINE i   == Find(p.stack, n)
           ne  == [name |-> n, alias |-> FALSE]
           stk == IF Reusable(i) THEN p.stack ELSE Append(p.stack, ne)
           t   == IF e THEN [stk EXCEPT ![Len(stk)].alias = TRUE] ELSE stk
           off == IF Reusable(i) THEN Offset(p.stack, i) ELSE 0
           op  == IF e THEN "export let" ELSE "let"
           x   == Statement(op, n, off)
<1>1. /\ Parsing(op) /\ (e => GlobalLevel) /\ p' = [p EXCEPT !.stack = t]
      /\ code' = Append(code, x) /\ UNCHANGED <<phase, r, ip>>
  BY DEF parse_let, Emit
<1>2. /\ phase = "parse" /\ Coded(code, p) /\ p \in PState /\ code \in Seq(Stm)
      /\ Len(code) \in Nat /\ Len(code) < MaxCode
      /\ p.blocks # <<>> /\ Inner(p).kind = "arm" => Inner(p).at = (Len(code) + 1) - 1
  BY <1>1, ParsingFacts
<1>3. /\ p.stack \in Seq(Entry) /\ Len(p.stack) \in Nat /\ p.frame_pointer \in Nat BY <1>2, PStateFacts
<1>4. i \in 0..Len(p.stack) BY <1>3, FindIsLast DEF IsLast
<1>5. off \in Nat BY <1>3, <1>4 DEF Reusable, Offset
<1>6. op \in Lets /\ op \in Plain \cup Lets \cup Opens \cup {"import", "close"} BY DEF Lets
<1> HIDE DEF i, off, op, x
<1>7. x \in Stm /\ x.op = op /\ x.name = n /\ x.offset = off /\ x.to = 0 /\ x.seen = p
  BY <1>2, <1>5, <1>6, StatementFacts DEF x
<1>8. /\ stk \in Seq(Entry) /\ Len(stk) \in 1..Len(stk)
      /\ Reusable(i) => Match(p.stack, stk)
      /\ ~Reusable(i) => Grows(p.stack, n, stk)
  <2>1. CASE Reusable(i)
    <3>1. stk = p.stack /\ i > 0 BY <2>1 DEF Reusable
    <3> HIDE DEF stk
    <3>2. Len(stk) \in 1..Len(stk) BY <1>3, <1>4, <3>1
    <3> QED BY <1>3, <2>1, <3>1, <3>2, BeginsSelf
  <2>2. CASE ~Reusable(i)
    <3>1. stk = Append(p.stack, ne) BY <2>2
    <3>2. ne \in Entry /\ ne.name = n BY NewEntry
    <3> HIDE DEF stk, ne
    <3>3. Grows(p.stack, n, stk) /\ stk \in Seq(Entry) /\ Len(stk) = Len(p.stack) + 1
      BY <1>3, <3>1, <3>2, AppendGrows, AppendProperties
    <3> QED BY <1>3, <2>2, <3>3
  <2> QED BY <2>1, <2>2
<1> HIDE DEF stk
<1>9. t \in Seq(Entry) /\ Match(stk, t)
  <2>1. CASE e BY <1>8, <2>1, MarkFacts
  <2>2. CASE ~e BY <1>8, <2>2, BeginsSelf, LenProperties
  <2> QED BY <2>1, <2>2
<1> HIDE DEF t
<1>10. /\ p' \in PState /\ p'.stack = t /\ p'.imports = p.imports /\ p'.blocks = p.blocks
       /\ p'.frame_pointer = p.frame_pointer
  BY <1>1, <1>2, <1>9, WithStack
<1>11. Let(x, Len(code) + 1, p, p')
  <2>1. \/ x.offset = 0 /\ Grows(p.stack, x.name, p'.stack)
        \/ /\ Match(p.stack, p'.stack)
           /\ x.offset \in 1..(Len(p.stack) - p.frame_pointer)
           /\ Slot(p.stack, x.offset) = Find(p.stack, x.name)
    <3>1. CASE Reusable(i)
      <4>1. i > p.frame_pointer /\ i > 0 /\ off = Len(p.stack) - i + 1 BY <3>1 DEF Reusable, off, Offset
      <4>2. off \in 1..(Len(p.stack) - p.frame_pointer) /\ Slot(p.stack, off) = i
        BY <1>3, <1>4, <4>1 DEF Slot
      <4>3. Match(p.stack, t) BY <1>8, <1>9, <3>1, MatchTrans
      <4> QED BY <1>7, <1>10, <4>2, <4>3 DEF i
    <3>2. CASE ~Reusable(i)
      <4>1. off = 0 BY <3>2 DEF off
      <4>2. Grows(p.stack, n, t) BY <1>3, <1>8, <1>9, <3>2, MatchGrows
      <4> QED BY <1>7, <1>10, <4>1, <4>2
    <3> QED BY <3>1, <3>2
  <2>2. x.op = "export let" => \A k \in 1..Len(p.blocks) : p.blocks[k].kind = "arm"
    BY <1>1, <1>7, GlobalLevelFacts DEF op
  <2> QED BY <1>2, <1>7, <1>10, <2>1, <2>2 DEF Let
<1>12. Steps(x, Len(code) + 1, p, p') /\ x.op \in Straight
  BY <1>6, <1>7, <1>11, OpsApart DEF Steps, Straight
<1>13. Coded(code', p') BY <1>1, <1>2, <1>7, <1>10, <1>12, CodedStraight
<1> QED BY <1>1, <1>2, <1>13, ParseKeeps

\* A statement that uses a name.
LEMMA UseStep ==
  ASSUME VInv, NEW op \in Plain, NEW kind, Parsing(kind), NEW n \in Names, NEW off \in Nat,
         code' = Append(code, Statement(op, n, off)), UNCHANGED <<phase, r, ip>>,
         p' \in PState, p'.blocks = p.blocks, Alike(p, p'),
         op \in {"var", "share"} => off = Offset(p.stack, Find(p.stack, n)),
         op = "mod" => off = Offset(p.imports, FindFirst(p.imports, n))
  PROVE  VInv'
<1> DEFINE x == Statement(op, n, off)
<1>1. /\ phase = "parse" /\ Coded(code, p) /\ p \in PState /\ code \in Seq(Stm)
      /\ Len(code) \in Nat /\ Len(code) < MaxCode
  BY ParsingFacts
<1> HIDE DEF x
<1>2. x \in Stm /\ x.op = op /\ x.name = n /\ x.offset = off /\ x.seen = p BY <1>1, StatementFacts DEF x
<1>3. Uses(x, p, p') BY <1>2 DEF Uses
<1>4. Steps(x, Len(code) + 1, p, p') /\ x.op \in Straight BY <1>2, <1>3, OpsApart DEF Steps, Straight
<1>5. Coded(code', p') BY <1>1, <1>2, <1>4, CodedStraight DEF x
<1> QED BY <1>1, <1>5, ParseKeeps

LEMMA AlikeSelf == ASSUME NEW q \in PState PROVE Alike(q, q)
BY PStateFacts, BeginsSelf DEF Alike

LEMMA AccessStep ==
  ASSUME VInv, NEW n \in Names, NEW op \in {"var", "share"}, access_var(op, n)
  PROVE  VInv'
<1>1. /\ Parsing(op) /\ code' = Append(code, Statement(op, n, find_var(n)))
      /\ UNCHANGED <<phase, r, ip>> /\ p' = p
  BY DEF access_var, Emit
<1>2. p \in PState BY <1>1, ParsingFacts
<1>3. find_var(n) = Offset(p.stack, Find(p.stack, n)) /\ find_var(n) \in Nat
  <2>1. Len(p.stack) \in Nat BY <1>2, PStateFacts
  <2>2. Find(p.stack, n) \in 0..Len(p.stack) BY <2>1, FindIsLast DEF IsLast
  <2> QED BY <2>1, <2>2 DEF find_var, Offset
<1>4. op \in Plain /\ op # "mod" BY DEF Plain
<1>5. Alike(p, p') BY <1>1, <1>2, AlikeSelf
<1> QED BY <1>1, <1>2, <1>3, <1>4, <1>5, UseStep

LEMMA NamespaceStep ==
  ASSUME VInv, NEW n \in Names, parse_namespace(n)
  PROVE  VInv'
<1>1. /\ Parsing("mod") /\ code' = Append(code, Statement("mod", n, find_module(n)))
      /\ UNCHANGED <<phase, r, ip>> /\ p' = p
  BY DEF parse_namespace, Emit
<1>2. p \in PState BY <1>1, ParsingFacts
<1>3. find_module(n) = Offset(p.imports, FindFirst(p.imports, n)) /\ find_module(n) \in Nat
  <2>1. Len(p.imports) \in Nat BY <1>2, PStateFacts
  <2>2. FindFirst(p.imports, n) \in 0..Len(p.imports) BY <2>1, FindFirstIsNamed
  <2> QED BY <2>1, <2>2 DEF find_module, Offset
<1>4. "mod" \in Plain /\ "mod" \notin {"var", "share"} BY DEF Plain
<1>5. Alike(p, p') BY <1>1, <1>2, AlikeSelf
<1> QED BY <1>1, <1>2, <1>3, <1>4, <1>5, UseStep

LEMMA ParseEvalStep ==
  ASSUME VInv, NEW n \in Names, NEW op \in {"eval let", "eval import"}, parse_eval(op, n)
  PROVE  VInv'
<1>1. /\ Parsing("eval") /\ code' = Append(code, Statement(op, n, 0))
      /\ UNCHANGED <<phase, r, ip>> /\ p' = p
  BY DEF parse_eval, Emit
<1>2. p \in PState BY <1>1, ParsingFacts
<1>3. op \in Plain /\ op # "mod" /\ op \notin {"var", "share"} /\ 0 \in Nat BY DEF Plain
<1>4. Alike(p, p') BY <1>1, <1>2, AlikeSelf
<1> QED BY <1>1, <1>2, <1>3, <1>4, UseStep

LEMMA ExportStep ==
  ASSUME VInv, NEW n \in Names, parse_export(n)
  PROVE  VInv'
<1> DEFINE i == Find(p.stack, n)
<1>1. /\ Parsing("export") /\ code' = Append(code, Statement("export", n, 0))
      /\ UNCHANGED <<phase, r, ip>>
      /\ p' = IF i > 0 THEN [p EXCEPT !.stack[i].alias = TRUE] ELSE p
  BY DEF parse_export, Emit
<1>2. p \in PState BY <1>1, ParsingFacts
<1>3. "export" \in Plain /\ "export" # "mod" /\ "export" \notin {"var", "share"} /\ 0 \in Nat
  BY DEF Plain
<1>4. p' \in PState /\ p'.blocks = p.blocks /\ Alike(p, p')
  <2>1. CASE i > 0
    <3> DEFINE t == [p.stack EXCEPT ![i].alias = TRUE]
    <3>1. p.stack \in Seq(Entry) /\ Len(p.stack) \in Nat BY <1>2, PStateFacts
    <3>2. i \in 1..Len(p.stack) BY <2>1, <3>1, FindIsLast DEF IsLast
    <3>3. p' = [p EXCEPT !.stack = t] BY <1>1, <1>2, <2>1
    <3> HIDE DEF i
    <3>4. t \in Seq(Entry) /\ Match(p.stack, t) BY <3>1, <3>2, MarkFacts
    <3> HIDE DEF t
    <3>5. /\ p' \in PState /\ p'.stack = t /\ p'.imports = p.imports /\ p'.blocks = p.blocks
          /\ p'.frame_pointer = p.frame_pointer
      BY <1>2, <3>3, <3>4, WithStack
    <3>6. Match(p.imports, p'.imports) BY <1>2, <3>5, PStateFacts, BeginsSelf
    <3> QED BY <3>4, <3>5, <3>6 DEF Alike
  <2>2. CASE ~(i > 0) BY <1>1, <1>2, <2>2, AlikeSelf
  <2> QED BY <2>1, <2>2
<1> QED BY <1>1, <1>3, <1>4, UseStep

LEMMA ParseImportStep ==
  ASSUME VInv, NEW n \in Names, parse_import(n)
  PROVE  VInv'
<1> DEFINE x == Statement("import", n, 0)
           m == [name |-> n]
<1>1. /\ Parsing("import") /\ code' = Append(code, x) /\ UNCHANGED <<phase, r, ip>>
      /\ p' = [p EXCEPT !.imports = Append(@, m)]
  BY DEF parse_import, Emit
<1>2. /\ phase = "parse" /\ Coded(code, p) /\ p \in PState /\ code \in Seq(Stm)
      /\ Len(code) \in Nat /\ Len(code) < MaxCode
      /\ p.blocks # <<>> /\ Inner(p).kind = "arm" => Inner(p).at = (Len(code) + 1) - 1
  BY <1>1, ParsingFacts
<1>3. m \in Import /\ m.name = n BY DEF Import
<1> HIDE DEF x, m
<1>4. x \in Stm /\ x.op = "import" /\ x.name = n /\ x.seen = p BY <1>2, StatementFacts DEF x
<1>5. p.imports \in Seq(Import) BY <1>2, PStateFacts
<1>6. Append(p.imports, m) \in Seq(Import) /\ Grows(p.imports, n, Append(p.imports, m))
  BY <1>3, <1>5, AppendGrows, AppendProperties
<1>7. /\ p' \in PState /\ p'.stack = p.stack /\ p'.imports = Append(p.imports, m)
      /\ p'.blocks = p.blocks /\ p'.frame_pointer = p.frame_pointer
  BY <1>1, <1>2, <1>6 DEF PState
<1>8. Imports(x, Len(code) + 1, p, p') BY <1>2, <1>4, <1>6, <1>7 DEF Imports
<1>9. Steps(x, Len(code) + 1, p, p') /\ x.op \in Straight BY <1>4, <1>8, OpsApart DEF Steps, Straight
<1>10. Coded(code', p') BY <1>1, <1>2, <1>4, <1>7, <1>9, CodedStraight
<1> QED BY <1>1, <1>2, <1>10, ParseKeeps

\* A statement that opens a block.
LEMMA OpenStep ==
  ASSUME VInv, NEW kind, Parsing(kind), NEW n \in Names \cup {NoName}, NEW op \in Opens,
         code' = Append(code, Statement(op, n, 0)), UNCHANGED <<phase, r, ip>>,
         NEW t \in Seq(Entry), NEW f \in Nat,
         p' = [p EXCEPT !.stack = t, !.frame_pointer = f,
                        !.blocks = Append(@, Opened(IF op = "arm" THEN "arm" ELSE "block"))],
         IF op = "arm" THEN n = NoName /\ t = p.stack /\ f = p.frame_pointer
         ELSE (IF n = NoName THEN t = p.stack ELSE Grows(p.stack, n, t)) /\ f = Len(t)
  PROVE  VInv'
<1> DEFINE x == Statement(op, n, 0)
           b == [kind |-> IF op = "arm" THEN "arm" ELSE "block", at |-> Len(code) + 1,
                 stack |-> Len(p.stack), imports |-> Len(p.imports),
                 frame_pointer |-> p.frame_pointer]
<1>1. /\ phase = "parse" /\ Coded(code, p) /\ p \in PState /\ code \in Seq(Stm)
      /\ Len(code) \in Nat /\ Len(code) < MaxCode
  BY ParsingFacts
<1>2. b = Opened(IF op = "arm" THEN "arm" ELSE "block") BY DEF Opened
<1>3. /\ p.stack \in Seq(Entry) /\ Len(p.stack) \in Nat /\ Len(p.imports) \in Nat
      /\ p.frame_pointer \in Nat /\ p.blocks \in Seq(Block)
  BY <1>1, PStateFacts
<1>4. b \in Block BY <1>1, <1>3 DEF Block
<1> HIDE DEF x
<1>5. x \in Stm /\ x.op = op /\ x.name = n /\ x.to = 0 /\ x.seen = p
  <2>1. op \in Plain \cup Lets \cup Opens \cup {"import", "close"} /\ 0 \in Nat OBVIOUS
  <2> QED BY <1>1, <2>1 DEF x, Statement, Stm
<1>6. /\ p' \in PState /\ p'.stack = t /\ p'.frame_pointer = f /\ p'.imports = p.imports
      /\ p'.blocks = Append(p.blocks, b)
  <2> HIDE DEF b
  <2>1. Append(p.blocks, b) \in Seq(Block) BY <1>3, <1>4, AppendProperties
  <2> QED BY <1>1, <1>2, <2>1 DEF PState
<1>7. Opening(x, Len(code) + 1, p, p') BY <1>5, <1>6 DEF Opening
<1>8. Coded(code', p') BY <1>1, <1>5, <1>6, <1>7, CodedOpen DEF x
<1> QED BY <1>1, <1>8, ParseKeeps

LEMMA BlockStep ==
  ASSUME VInv, NEW n \in Names \cup {NoName}, parse_block(n)
  PROVE  VInv'
<1> DEFINE ne == [name |-> n, alias |-> FALSE]
           t  == IF n = NoName THEN p.stack ELSE Append(p.stack, ne)
<1>1. /\ Parsing(IF n = NoName THEN "block" ELSE "for")
      /\ code' = Append(code, Statement("open", n, 0)) /\ UNCHANGED <<phase, r, ip>>
      /\ p' = [p EXCEPT !.stack = t, !.frame_pointer = Len(t),
                        !.blocks = Append(@, Opened("block"))]
  BY DEF parse_block, Emit
<1>2. p \in PState BY <1>1, ParsingFacts
<1>3. p.stack \in Seq(Entry) BY <1>2, PStateFacts
<1>4. t \in Seq(Entry) /\ IF n = NoName THEN t = p.stack ELSE Grows(p.stack, n, t)
  <2>1. CASE n = NoName BY <1>3, <2>1
  <2>2. CASE n # NoName
    <3>1. ne \in Entry /\ ne.name = n /\ t = Append(p.stack, ne) BY <2>2, NewEntry
    <3> HIDE DEF ne, t
    <3> QED BY <1>3, <2>2, <3>1, AppendGrows, AppendProperties
  <2> QED BY <2>1, <2>2
<1> HIDE DEF t
<1>5. Len(t) \in Nat /\ "open" \in Opens /\ "open" # "arm" BY <1>4, LenProperties DEF Opens
<1> QED BY <1>1, <1>4, <1>5, OpenStep

LEMMA ArmStep ==
  ASSUME VInv, parse_arm
  PROVE  VInv'
<1>1. /\ Parsing("arm")
      /\ code' = Append(code, Statement("arm", NoName, 0)) /\ UNCHANGED <<phase, r, ip>>
      /\ p' = [p EXCEPT !.blocks = Append(@, Opened("arm"))]
  BY DEF parse_arm, Emit
<1>2. p \in PState BY <1>1, ParsingFacts
<1>3. p.stack \in Seq(Entry) /\ p.frame_pointer \in Nat BY <1>2, PStateFacts
<1>4. p' = [p EXCEPT !.stack = p.stack, !.frame_pointer = p.frame_pointer,
                     !.blocks = Append(@, Opened("arm"))]
  BY <1>1, <1>2 DEF PState
<1>5. "arm" \in Opens /\ NoName \in Names \cup {NoName} BY DEF Opens
<1> QED BY <1>1, <1>3, <1>4, <1>5, OpenStep

LEMMA CloseStep ==
  ASSUME VInv, parse_close
  PROVE  VInv'
<1> DEFINE b == Inner(p)
           f == [code EXCEPT ![b.at].to = Len(code) + 1]
           x == Statement("close", NoName, 0)
<1>1. /\ phase = "parse" /\ p.blocks # <<>> /\ UNCHANGED <<phase, r, ip>>
      /\ p' = [Closed(p, b) EXCEPT !.blocks = Cut(@, Len(@) - 1)]
      /\ code' = Append(f, x)
  BY DEF parse_close, Inner
<1>2. /\ Coded(code, p) /\ p \in PState /\ code \in Seq(Stm) /\ Len(code) \in Nat
  BY LenProperties DEF VInv, Coded
<1>3. b.at \in 1..Len(code)
  <2>1. Len(p.blocks) \in 1..Len(p.blocks) BY <1>1, <1>2, PStateFacts
  <2> QED BY <1>2, <2>1, OpenBlocks DEF Inner
<1> HIDE DEF x
<1>4. x \in Stm /\ x.op = "close" /\ x.seen = p
  <2>1. /\ "close" \in Plain \cup Lets \cup Opens \cup {"import", "close"}
        /\ NoName \in Names \cup {NoName} /\ 0 \in Nat
    OBVIOUS
  <2> QED BY <1>2, <2>1 DEF x, Statement, Stm
<1>5. /\ Grown(code, p, code') /\ code'[Len(code')] = x /\ code'[b.at].to = Len(code')
      /\ \A i \in 1..Len(code) : i # b.at => code'[i].to = code[i].to
  BY SMTT(60), <1>1, <1>2, <1>3, <1>4, CloseGrown
<1>6. Closing(p, p') BY <1>1 DEF Closing
<1>7. Coded(code', p') BY <1>2, <1>4, <1>5, <1>6, CodedClose
<1> QED BY <1>1, <1>7, ParseKeeps

-----------------------------------------------------------------------------
\* The evaluator follows the parser.

\* t has a block more than s, which statement i opened.
Nests(i, s, t) ==
  /\ t.imports = s.imports
  /\ Len(t.blocks) = Len(s.blocks) + 1 /\ t.blocks[Len(s.blocks) + 1].at = i
  /\ \A k \in 1..Len(s.blocks) : t.blocks[k] = s.blocks[k]

LEMMA OpeningFacts ==
  ASSUME NEW x, NEW i \in Nat, NEW s \in PState, NEW t \in PState, Opening(x, i, s, t)
  PROVE  /\ Begins(s.stack, t.stack) /\ Nests(i, s, t)
         /\ IF x.name = NoName \/ x.op = "arm" THEN t.stack = s.stack
            ELSE Grows(s.stack, x.name, t.stack)
         /\ x.op = "arm" => x.name = NoName
<1> DEFINE b == [kind |-> IF x.op = "arm" THEN "arm" ELSE "block", at |-> i,
                 stack |-> Len(s.stack), imports |-> Len(s.imports),
                 frame_pointer |-> s.frame_pointer]
<1>1. /\ Len(s.stack) \in Nat /\ Len(s.imports) \in Nat /\ s.frame_pointer \in Nat
      /\ s.blocks \in Seq(Block)
  BY PStateFacts
<1>2. b \in Block /\ b.at = i BY <1>1 DEF Block
<1>3. t.blocks = Append(s.blocks, b) BY DEF Opening
<1>4. /\ t.imports = s.imports
      /\ IF x.name = NoName \/ x.op = "arm" THEN t.stack = s.stack
         ELSE Grows(s.stack, x.name, t.stack)
      /\ x.op = "arm" => x.name = NoName
  BY DEF Opening
<1> HIDE DEF b
<1>5. /\ Len(t.blocks) = Len(s.blocks) + 1 /\ t.blocks[Len(s.blocks) + 1] = b
      /\ \A k \in 1..Len(s.blocks) : t.blocks[k] = s.blocks[k]
  BY <1>1, <1>2, <1>3, AppendProperties
<1>6. Begins(s.stack, t.stack) BY <1>1, <1>4, BeginsSelf, GrowsBegins
<1>7. Nests(i, s, t) BY <1>2, <1>4, <1>5 DEF Nests
<1> QED BY <1>4, <1>6, <1>7

\* The k-th block that the evaluator is in, before statement m.
LEMMA EnteredFacts ==
  ASSUME NEW c, NEW q, Coded(c, q), NEW m \in 1..(Len(c) + 1), NEW s, s = At(c, q, m),
         NEW a \in RState, SameBlocks(a, s), NEW k \in 1..Len(a.blocks),
         NEW n, n = a.blocks[k].at
  PROVE  /\ n = s.blocks[k].at /\ n \in 1..(m - 1) /\ n \in 1..Len(c) /\ n + 1 \in 1..(Len(c) + 1)
         /\ At(c, q, n) \in PState /\ At(c, q, n + 1) \in PState
         /\ Len(At(c, q, n).stack) \in Nat /\ Len(At(c, q, n + 1).stack) \in Nat
         /\ Len(At(c, q, n).imports) \in Nat
         /\ At(c, q, n).blocks = Cut(s.blocks, k - 1)
         /\ c[n].op \in Opens /\ Opening(c[n], n, At(c, q, n), At(c, q, n + 1))
         /\ Surplus(c, q, a.blocks[k]) \in Int
<1>1. c \in Seq(Stm) /\ q \in PState /\ Len(c) \in Nat /\ Around(c, q, m) BY LenProperties DEF Coded
<1>2. n = s.blocks[k].at /\ k \in 1..Len(s.blocks) BY DEF SameBlocks
<1>3. Within(c, q, m, s, k) BY <1>1, <1>2 DEF Around
<1>4. n \in 1..(m - 1) /\ At(c, q, n).blocks = Cut(s.blocks, k - 1) /\ c[n].op \in Opens
  BY <1>2, <1>3 DEF Within, Opens
<1>5. n \in 1..Len(c) /\ n + 1 \in 1..(Len(c) + 1) /\ n \in 1..(Len(c) + 1) BY SMTT(60), <1>1, <1>4
<1>6. At(c, q, n) \in PState /\ At(c, q, n + 1) \in PState BY <1>1, <1>5, AtFacts
<1>7. /\ Len(At(c, q, n).stack) \in Nat /\ Len(At(c, q, n + 1).stack) \in Nat
      /\ Len(At(c, q, n).imports) \in Nat
  BY <1>6, PStateFacts
<1>8. Opening(c[n], n, At(c, q, n), At(c, q, n + 1)) BY <1>4, <1>5 DEF Coded, Steps
<1>9. Surplus(c, q, a.blocks[k]) \in Int
  <2>1. a.blocks[k].outer \in Nat BY SavedFacts
  <2> QED BY <1>7, <2>1 DEF Surplus
<1> QED BY <1>2, <1>4, <1>5, <1>6, <1>7, <1>8, <1>9

\* The stacks may grow, and nothing that a block restores changes.
LEMMA FollowOn ==
  ASSUME NEW c, NEW q, Coded(c, q), NEW m \in 1..(Len(c) + 1), NEW s, s = At(c, q, m),
         NEW t \in PState, NEW a \in RState, NEW z \in RState, Fits(a), Follows(c, q, a, s),
         z.blocks = a.blocks, t.blocks = s.blocks,
         Begins(a.scope, z.scope), Begins(a.imports, z.imports),
         ~ArmDefines(c) =>
           /\ Len(a.scope) - Len(s.stack) <= Len(z.scope) - Len(t.stack)
           /\ ~z.always_search_scope => /\ ~a.always_search_scope
                                        /\ Match(a.scope, s.stack) => Match(z.scope, t.stack)
                                        /\ Match(a.imports, s.imports) => Match(z.imports, t.imports)
  PROVE  Fits(z) /\ Follows(c, q, z, t)
<1> DEFINE S == Len(s.stack)
           T == Len(t.stack)
           A == Len(a.scope)
           Z == Len(z.scope)
<1>1. c \in Seq(Stm) /\ q \in PState /\ Len(c) \in Nat /\ s \in PState
  BY LenProperties, AtFacts DEF Coded
<1>2. /\ S \in Nat /\ T \in Nat /\ A \in Nat /\ Z \in Nat
      /\ Len(a.imports) \in Nat /\ Len(z.imports) \in Nat
  BY <1>1, PStateFacts, RStateFacts
<1>3. SameBlocks(a, s) /\ SameBlocks(z, t) BY DEF Follows, SameBlocks
<1>4. Len(a.scope) <= Len(z.scope) /\ Len(a.imports) <= Len(z.imports) BY DEF Begins
<1>5. Fits(z)
  <2>1. ASSUME NEW k \in 1..Len(a.blocks)
        PROVE  a.blocks[k].scope <= Len(z.scope) /\ a.blocks[k].imports <= Len(z.imports)
    <3>1. a.blocks[k].scope <= Len(a.scope) /\ a.blocks[k].imports <= Len(a.imports) BY DEF Fits
    <3>2. a.blocks[k].scope \in Nat /\ a.blocks[k].imports \in Nat BY SavedFacts
    <3> QED BY SMTT(60), <1>2, <1>4, <3>1, <3>2
  <2> QED BY <2>1 DEF Fits
<1>6. ASSUME ~ArmDefines(c) PROVE Mirrored(c, q, z, t)
  <2>1. Mirrored(c, q, a, s) BY <1>6 DEF Follows
  <2>2. /\ A - S <= Z - T
        /\ ~z.always_search_scope => Match(z.scope, t.stack) /\ Match(z.imports, t.imports)
    BY <1>6, <2>1 DEF Mirrored
  <2>3. T <= Z
    <3>1. S <= A BY <2>1 DEF Mirrored
    <3> HIDE DEF S, T, A, Z
    <3> QED BY <1>2, <2>2, <3>1
  <2>4. ASSUME NEW k \in 1..Len(z.blocks)
        PROVE  /\ Mirrors(c, q, z, z.blocks[k])
               /\ 0 <= Surplus(c, q, z.blocks[k])
               /\ Surplus(c, q, z.blocks[k]) <= Len(z.scope) - Len(t.stack)
               /\ \A l \in (k + 1)..Len(z.blocks) :
                    Surplus(c, q, z.blocks[k]) <= Surplus(c, q, z.blocks[l])
    <3> DEFINE b == a.blocks[k]
               e == At(c, q, b.at)
               u == At(c, q, b.at + 1)
               w == Surplus(c, q, b)
    <3>1. /\ Mirrors(c, q, a, b) /\ 0 <= w /\ w <= A - S
          /\ \A l \in (k + 1)..Len(z.blocks) : w <= Surplus(c, q, a.blocks[l])
      BY <2>1 DEF Mirrored
    <3>2. w \in Int /\ Len(e.imports) \in Nat /\ Len(u.stack) \in Nat BY <1>3, EnteredFacts
    <3>3. w <= Z - T
      <4> HIDE DEF w, S, T, A, Z
      <4> QED BY <1>2, <2>2, <3>1, <3>2
    <3>4. ASSUME ~b.always_search_scope
          PROVE  /\ b.scope = Len(u.stack) /\ Begins(u.stack, z.scope)
                 /\ b.imports = Len(e.imports) /\ Begins(e.imports, z.imports)
      <4>1. /\ b.scope = Len(u.stack) /\ Begins(u.stack, a.scope)
            /\ b.imports = Len(e.imports) /\ Begins(e.imports, a.imports)
        BY <3>1, <3>4 DEF Mirrors
      <4>2. Begins(u.stack, z.scope) /\ Begins(e.imports, z.imports)
        <5> HIDE DEF u, e
        <5> QED BY <1>2, <3>2, <4>1, BeginsTrans
      <4> QED BY <4>1, <4>2
    <3>5. Mirrors(c, q, z, b) BY <3>1, <3>4 DEF Mirrors
    <3> QED BY <3>1, <3>3, <3>5
  <2> QED BY <2>2, <2>3, <2>4 DEF Mirrored
<1> QED BY <1>3, <1>5, <1>6 DEF Follows

LEMMA RunFacts ==
  ASSUME VInv, phase = "run", ip <= Len(code)
  PROVE  /\ Coded(code, p) /\ code \in Seq(Stm) /\ p \in PState /\ Len(code) \in Nat /\ p.blocks = <<>>
         /\ ip \in 1..Len(code) /\ ip \in 1..(Len(code) + 1) /\ ip + 1 \in 1..(Len(code) + 1)
         /\ At(code, p, ip) = Now.seen /\ At(code, p, ip) \in PState /\ At(code, p, ip + 1) \in PState
         /\ Steps(Now, ip, At(code, p, ip), At(code, p, ip + 1))
         /\ Now.op \in Plain \cup Lets \cup Opens \cup {"import", "close"}
         /\ Now.name \in Names \cup {NoName} /\ Now.offset \in Nat
         /\ r \in RState /\ Fits(r) /\ Follows(code, p, r, At(code, p, ip))
         /\ ip \in 1..(2 * MaxCode)
<1>1. /\ Coded(code, p) /\ code \in Seq(Stm) /\ p \in PState /\ ip \in 1..(Len(code) + 1)
      /\ r \in RState /\ Fits(r) /\ Follows(code, p, r, At(code, p, ip)) /\ p.blocks = <<>>
  BY DEF VInv, Coded
<1>2. Len(code) \in Nat BY <1>1, LenProperties
<1>3. ip \in 1..Len(code) /\ ip + 1 \in 1..(Len(code) + 1) BY <1>1, <1>2
<1>4. /\ At(code, p, ip) = Now.seen /\ At(code, p, ip) \in PState /\ At(code, p, ip + 1) \in PState
  BY <1>1, <1>3, AtFacts DEF Now
<1>5. Steps(Now, ip, At(code, p, ip), At(code, p, ip + 1)) BY <1>1, <1>3 DEF Coded, Now
<1>6. /\ Now.op \in Plain \cup Lets \cup Opens \cup {"import", "close"}
      /\ Now.name \in Names \cup {NoName} /\ Now.offset \in Nat
  BY <1>1, <1>3, StmFacts DEF Now
<1>7. ip \in 1..(2 * MaxCode)
  <2> DEFINE Q == Len(p.blocks)
  <2>1. Len(code) + Q <= 2 * MaxCode /\ Q \in Nat /\ MaxCode \in Nat
    BY ZenonT(60), <1>1, PStateFacts, VarAssumption DEF Coded
  <2> HIDE DEF Q
  <2> QED BY <1>2, <1>3, <2>1
<1> QED BY <1>1, <1>2, <1>3, <1>4, <1>5, <1>6, <1>7

LEMMA CodedAgain ==
  ASSUME Coded(code, p), UNCHANGED <<code, p>>
  PROVE  Coded(code, p)'
<1>1. Coded(code', p') OBVIOUS
<1> QED
  BY ZenonT(60), <1>1 DEF Coded, At, Around, Within, Pointed, InArm, Linked, ArmDefines, Steps, Let, Imports,
              Uses, Opening, Closing, Inner, Begins, Match, Grows, Alike

LEMMA RunKeeps ==
  ASSUME VInv, phase = "run", UNCHANGED <<phase, code, p>>, r' \in RState,
         ip' \in 1..(Len(code) + 1), Fits(r'), Follows(code, p, r', At(code, p, ip'))
  PROVE  VInv'
<1>1. Coded(code, p)' BY CodedAgain DEF VInv
<1>2. Fits(r)' BY SMTT(60) DEF Fits
<1>3. Follows(code, p, r, At(code, p, ip))'
  BY ZenonT(60) DEF Follows, SameBlocks, Mirrored, Mirrors, Surplus, At, ArmDefines, Match, Begins
<1>4. /\ phase' = "run" /\ p'.blocks = <<>> /\ ip' \in 1..(Len(code') + 1) BY DEF VInv
<1> QED BY <1>1, <1>2, <1>3, <1>4 DEF VInv

LEMMA StopKeeps ==
  ASSUME VInv, phase = "run", NEW how \in {"end", "error", "panic"}, Stop(how),
         ~ArmDefines(code) => how # "panic"
  PROVE  VInv'
<1>1. UNCHANGED <<code, p, r, ip>> /\ phase' = how BY DEF Stop
<1>2. Coded(code, p)' BY <1>1, CodedAgain DEF VInv
<1>3. Fits(r)' /\ (ArmDefines(code)' <=> ArmDefines(code)) BY ZenonT(60), <1>1 DEF VInv, Fits, ArmDefines
<1>4. phase' \in {"end", "error", "panic"} /\ r' \in RState /\ ip' \in 1..(Len(code') + 1)
      /\ p'.blocks = <<>>
  BY <1>1 DEF VInv
<1> QED BY <1>1, <1>2, <1>3, <1>4 DEF VInv

LEMMA StartStep ==
  ASSUME VInv, parse_end
  PROVE  VInv'
<1>1. phase = "parse" /\ p.blocks = <<>> /\ phase' = "run" /\ UNCHANGED <<code, p, r, ip>>
  BY DEF parse_end
<1>2. /\ Coded(code, p) /\ code \in Seq(Stm) /\ p \in PState /\ Len(code) \in Nat /\ r \in RState
      /\ Fits(r) /\ ip = 1 /\ ip \in 1..(Len(code) + 1) /\ r.scope = <<>> /\ r.imports = <<>>
      /\ r.blocks = <<>> /\ ~r.always_search_scope
  BY <1>1, LenProperties DEF VInv, Coded
<1> DEFINE s == At(code, p, 1)
<1>3. s \in PState /\ s.stack = <<>> /\ s.imports = <<>> /\ Around(code, p, 1) BY <1>2, AtFacts DEF Coded
<1>4. Len(s.blocks) = 0
  <2>1. Len(s.blocks) \in Nat BY <1>3, PStateFacts
  <2>2. ASSUME Len(s.blocks) # 0 PROVE FALSE
    <3>1. 1 \in 1..Len(s.blocks) BY <2>1, <2>2
    <3>2. Within(code, p, 1, s, 1) BY <1>3, <3>1 DEF Around
    <3> QED BY <3>2 DEF Within
  <2> QED BY <2>2
<1>5. Follows(code, p, r, s)
  <2>1. SameBlocks(r, s) BY <1>2, <1>4 DEF SameBlocks
  <2>2. Mirrored(code, p, r, s) BY <1>2, <1>3, EmptyMatch DEF Mirrored
  <2> QED BY <2>1, <2>2 DEF Follows
<1>6. Coded(code, p)' BY <1>1, <1>2, CodedAgain
<1>7. Fits(r)' BY <1>1, <1>2 DEF Fits
<1>8. Follows(code, p, r, At(code, p, ip))'
  <2>1. Follows(code', p', r', At(code', p', ip')) BY <1>1, <1>2, <1>5
  <2> QED BY <2>1 DEF Follows, SameBlocks, Mirrored, Mirrors, Surplus, At, ArmDefines, Match, Begins
<1> QED BY <1>1, <1>2, <1>6, <1>7, <1>8 DEF VInv

\* A statement that leaves the blocks alone, run.
LEMMA AdvanceKeeps ==
  ASSUME VInv, phase = "run", ip <= Len(code), Now.op \in Straight,
         UNCHANGED <<phase, code, p>>, ip' = ip + 1, r' \in RState, r'.blocks = r.blocks,
         Begins(r.scope, r'.scope), Begins(r.imports, r'.imports),
         NEW s, s = At(code, p, ip), NEW t, t = At(code, p, ip + 1),
         ~ArmDefines(code) =>
           /\ Len(r.scope) - Len(s.stack) <= Len(r'.scope) - Len(t.stack)
           /\ ~r'.always_search_scope =>
                /\ ~r.always_search_scope
                /\ Match(r.scope, s.stack) => Match(r'.scope, t.stack)
                /\ Match(r.imports, s.imports) => Match(r'.imports, t.imports)
  PROVE  VInv'
<1>1. /\ Coded(code, p) /\ ip \in 1..(Len(code) + 1) /\ ip + 1 \in 1..(Len(code) + 1)
      /\ s \in PState /\ t \in PState /\ Steps(Now, ip, s, t)
      /\ r \in RState /\ Fits(r) /\ Follows(code, p, r, s)
  BY RunFacts
<1>2. t.blocks = s.blocks BY <1>1, StraightFacts
<1>3. Fits(r') /\ Follows(code, p, r', t) BY ZenonT(60), <1>1, <1>2, FollowOn
<1> QED BY <1>1, <1>3, RunKeeps

LEMMA SlotFacts ==
  ASSUME NEW s, NEW t, Len(s) \in Nat, Len(t) \in Nat, NEW i \in 0..Len(s), NEW off,
         off = Offset(s, i), off # 0, Len(s) <= Len(t)
  PROVE  /\ i \in 1..Len(s) /\ off \in 1..Len(s) /\ Slot(t, off) >= 1 /\ Slot(t, off) \in 1..Len(t)
         /\ Len(s) = Len(t) => Slot(t, off) = i
BY DEF Offset, Slot

LEMMA StayKeeps ==
  ASSUME VInv, phase = "run", ip <= Len(code), Now.op \in Plain,
         UNCHANGED <<phase, code, p, r>>, ip' = ip + 1
  PROVE  VInv'
<1> DEFINE s == At(code, p, ip)
           t == At(code, p, ip + 1)
<1>1. s \in PState /\ t \in PState /\ Steps(Now, ip, s, t) /\ r \in RState BY RunFacts
<1>2. Now.op \in Straight BY DEF Straight
<1> HIDE DEF s, t
<1>3. Alike(s, t) BY <1>1, <1>2, StraightFacts
<1>4. Len(r.scope) \in Nat /\ Len(r.imports) \in Nat /\ Len(s.stack) \in Nat
  BY <1>1, PStateFacts, RStateFacts
<1>5. Begins(r.scope, r'.scope) /\ Begins(r.imports, r'.imports) BY <1>4, BeginsSelf
<1>6. /\ Match(r.scope, s.stack) => Match(r'.scope, t.stack)
      /\ Match(r.imports, s.imports) => Match(r'.imports, t.imports)
  BY <1>3, MatchTrans DEF Alike
<1>7. Len(t.stack) = Len(s.stack) BY <1>3 DEF Alike, Match
<1>8. Len(r.scope) - Len(s.stack) <= Len(r'.scope) - Len(t.stack)
  <2> DEFINE S == Len(s.stack)
             A == Len(r.scope)
  <2>1. S \in Nat /\ A \in Nat /\ Len(r'.scope) = A /\ Len(t.stack) = S BY <1>4, <1>7
  <2> HIDE DEF S, A
  <2>2. A - S <= A - S BY <2>1
  <2> QED BY <2>1, <2>2 DEF S, A
<1> QED BY <1>1, <1>2, <1>5, <1>6, <1>8, AdvanceKeeps DEF s, t

\* What the parser found is where it says.
LEMMA AccessFacts ==
  ASSUME VInv, phase = "run", ip <= Len(code), Now.op \in {"var", "share"}, Now.offset # 0,
         ~ArmDefines(code)
  PROVE  /\ Slot(r.scope, Now.offset) \in 1..Len(r.scope) /\ Slot(r.scope, Now.offset) >= 1
         /\ ~r.always_search_scope => Slot(r.scope, Now.offset) = Find(r.scope, Now.name)
<1> DEFINE s == At(code, p, ip)
           t == At(code, p, ip + 1)
           i == Find(s.stack, Now.name)
<1>1. s \in PState /\ Steps(Now, ip, s, t) /\ r \in RState /\ Follows(code, p, r, s) BY RunFacts
<1>2. Uses(Now, s, t) BY <1>1 DEF Steps, Plain
<1>3. Now.offset = Offset(s.stack, i) BY <1>2 DEF Uses
<1>4. Mirrored(code, p, r, s) BY <1>1 DEF Follows
<1> HIDE DEF s, t
<1>5. Len(s.stack) \in Nat /\ Len(r.scope) \in Nat /\ Len(s.stack) <= Len(r.scope)
  BY <1>1, <1>4, PStateFacts, RStateFacts DEF Mirrored
<1>6. i \in 0..Len(s.stack) BY <1>5, FindIsLast DEF IsLast
<1> HIDE DEF i
<1>7. /\ Slot(r.scope, Now.offset) \in 1..Len(r.scope) /\ Slot(r.scope, Now.offset) >= 1
      /\ Len(s.stack) = Len(r.scope) => Slot(r.scope, Now.offset) = i
  BY <1>3, <1>5, <1>6, SlotFacts
<1>8. ASSUME ~r.always_search_scope PROVE Slot(r.scope, Now.offset) = Find(r.scope, Now.name)
  <2>1. Match(r.scope, s.stack) BY <1>4, <1>8 DEF Mirrored
  <2>2. Len(s.stack) = Len(r.scope) /\ Find(r.scope, Now.name) = i BY <1>5, <2>1, FindMatch DEF Match, i
  <2> QED BY <1>7, <2>2
<1> QED BY <1>7, <1>8

LEMMA ModuleFacts ==
  ASSUME VInv, phase = "run", ip <= Len(code), Now.op = "mod", Now.offset # 0,
         ~ArmDefines(code), ~r.always_search_scope, NEW i, i = Slot(r.imports, Now.offset)
  PROVE  i \in 1..Len(r.imports) /\ i >= 1 /\ r.imports[i].name = Now.name
<1> DEFINE s == At(code, p, ip)
           t == At(code, p, ip + 1)
           k == FindFirst(s.imports, Now.name)
<1>1. s \in PState /\ Steps(Now, ip, s, t) /\ r \in RState /\ Follows(code, p, r, s) BY RunFacts
<1>2. Uses(Now, s, t) BY <1>1 DEF Steps, Plain
<1>3. Now.offset = Offset(s.imports, k) BY <1>2 DEF Uses
<1>4. Match(r.imports, s.imports) BY <1>1 DEF Follows, Mirrored
<1> HIDE DEF s, t
<1>5. /\ Len(s.imports) \in Nat /\ Len(r.imports) \in Nat /\ Len(s.imports) = Len(r.imports)
      /\ Len(s.imports) <= Len(r.imports)
  BY <1>1, <1>4, PStateFacts, RStateFacts DEF Match
<1>6. k \in 0..Len(s.imports) /\ (k > 0 => s.imports[k].name = Now.name) BY <1>5, FindFirstIsNamed
<1> HIDE DEF k
<1>7. k \in 1..Len(s.imports) /\ i = k /\ i \in 1..Len(r.imports) BY <1>3, <1>5, <1>6, SlotFacts
<1>8. i \in 1..Len(r.imports) /\ i >= 1 BY <1>5, <1>7
<1>9. s.imports[k].name = Now.name BY <1>6, <1>7
<1> QED BY <1>4, <1>7, <1>8, <1>9 DEF Match

LEMMA NotThereFacts ==
  ASSUME NEW search
  PROVE  /\ NotThere(search) \in {"end", "error", "panic"}
         /\ NotThere(search) = "panic" => ~search /\ Now.offset # 0
BY DEF NotThere

LEMMA SearchStep ==
  ASSUME VInv, search_scope_only
  PROVE  VInv'
<1>1. phase = "run" /\ ip <= Len(code) /\ Now.op = "var" BY DEF search_scope_only, Running, Now
<1>2. CASE Resolved(r.scope, Now) >= 1
  <2>1. UNCHANGED <<phase, code, p, r>> /\ ip' = ip + 1 BY <1>2 DEF search_scope_only, Advance
  <2> QED BY <1>1, <2>1, StayKeeps DEF Plain
<1>3. CASE ~(Resolved(r.scope, Now) >= 1)
  <2>1. Stop(NotThere(r.always_search_scope)) BY <1>3 DEF search_scope_only
  <2>2. ASSUME NotThere(r.always_search_scope) = "panic", ~ArmDefines(code) PROVE FALSE
    <3>1. ~r.always_search_scope /\ Now.offset # 0 BY <2>2, NotThereFacts
    <3>2. Resolved(r.scope, Now) = Slot(r.scope, Now.offset) BY <3>1 DEF Resolved
    <3>3. Slot(r.scope, Now.offset) >= 1 BY <1>1, <2>2, <3>1, AccessFacts
    <3> QED BY <1>3, <3>2, <3>3
  <2> QED BY <1>1, <2>1, <2>2, NotThereFacts, StopKeeps
<1> QED BY <1>2, <1>3

LEMMA ShareStep ==
  ASSUME VInv, Stmt_Share
  PROVE  VInv'
<1>1. phase = "run" /\ ip <= Len(code) /\ Now.op = "share" BY DEF Stmt_Share, Running, Now
<1>2. CASE Shared(r.scope, Now) >= 1
  <2>1. UNCHANGED <<phase, code, p, r>> /\ ip' = ip + 1 BY <1>2 DEF Stmt_Share, Advance
  <2> QED BY <1>1, <2>1, StayKeeps DEF Plain
<1>3. CASE ~(Shared(r.scope, Now) >= 1)
  <2>1. Stop(NotThere(FALSE)) BY <1>3 DEF Stmt_Share
  <2>2. ASSUME NotThere(FALSE) = "panic", ~ArmDefines(code) PROVE FALSE
    <3>1. Now.offset # 0 BY <2>2, NotThereFacts
    <3>2. Shared(r.scope, Now) = Slot(r.scope, Now.offset) BY <3>1 DEF Shared
    <3>3. Slot(r.scope, Now.offset) >= 1 BY <1>1, <2>2, <3>1, AccessFacts
    <3> QED BY <1>3, <3>2, <3>3
  <2> QED BY <1>1, <2>1, <2>2, NotThereFacts, StopKeeps
<1> QED BY <1>2, <1>3

LEMMA ModuleStep ==
  ASSUME VInv, search_imports
  PROVE  VInv'
<1>1. phase = "run" /\ ip <= Len(code) /\ Now.op = "mod" BY DEF search_imports, Running, Now
<1>2. CASE Resolved(r.imports, Now) >= 1
  <2>1. UNCHANGED <<phase, code, p, r>> /\ ip' = ip + 1 BY <1>2 DEF search_imports, Advance
  <2> QED BY <1>1, <2>1, StayKeeps DEF Plain
<1>3. CASE ~(Resolved(r.imports, Now) >= 1)
  <2>1. Stop(NotThere(r.always_search_scope)) BY <1>3 DEF search_imports
  <2>2. ASSUME NotThere(r.always_search_scope) = "panic", ~ArmDefines(code) PROVE FALSE
    <3>1. ~r.always_search_scope /\ Now.offset # 0 BY <2>2, NotThereFacts
    <3>2. Resolved(r.imports, Now) = Slot(r.imports, Now.offset) BY <3>1 DEF Resolved
    <3>3. Slot(r.imports, Now.offset) >= 1 BY <1>1, <2>2, <3>1, ModuleFacts
    <3> QED BY <1>3, <3>2, <3>3
  <2> QED BY <1>1, <2>1, <2>2, NotThereFacts, StopKeeps
<1> QED BY <1>2, <1>3

LEMMA CutSame ==
  ASSUME NEW S, NEW s \in Seq(S), NEW z \in Seq(S), NEW n \in 0..Len(s), n \in 0..Len(z),
         \A j \in 1..n : z[j] = s[j]
  PROVE  Cut(z, n) = Cut(s, n)
<1>1. Cut(s, n) \in Seq(S) /\ Len(Cut(s, n)) = n /\ \A j \in 1..n : Cut(s, n)[j] = s[j] BY CutFacts
<1>2. Cut(z, n) \in Seq(S) /\ Len(Cut(z, n)) = n /\ \A j \in 1..n : Cut(z, n)[j] = z[j] BY CutFacts
<1>3. \A j \in 1..n : Cut(z, n)[j] = Cut(s, n)[j] BY <1>1, <1>2
<1> QED BY <1>1, <1>2, <1>3, SeqEqual

\* An entry of the scope changed in place, other than in its name.
LEMMA SetEntry ==
  ASSUME NEW s \in Seq(Var), NEW k \in 1..Len(s), NEW y, y.name = s[k].name,
         NEW z \in Seq(Var), Len(z) = Len(s),
         \A j \in 1..Len(s) : z[j] = IF j = k THEN y ELSE s[j]
  PROVE  /\ Match(s, z) /\ \A n \in 0..(k - 1) : Cut(z, n) = Cut(s, n)
<1>1. \A j \in 1..Len(s) : z[j] = IF j = k THEN y ELSE s[j] OBVIOUS
<1>2. Match(s, z) BY <1>1 DEF Match
<1>3. ASSUME NEW n \in 0..(k - 1) PROVE Cut(z, n) = Cut(s, n)
  <2>1. Len(s) \in Nat BY LenProperties
  <2>2. n \in 0..Len(s) /\ n \in 0..Len(z) /\ \A j \in 1..n : j \in 1..Len(s) /\ j # k BY <1>1, <2>1
  <2>3. \A j \in 1..n : z[j] = s[j] BY <1>1, <2>2
  <2> QED BY <1>1, <2>2, <2>3, CutSame
<1> QED BY <1>1, <1>2, <1>3

LEMMA VariableFacts ==
  ASSUME NEW n \in Names, ip \in 1..(2 * MaxCode)
  PROVE  Variable(n) \in Var /\ Variable(n).name = n /\ Variable(n).def = ip
BY DEF Variable, Var

LEMMA StoredFacts ==
  ASSUME NEW s \in Seq(Var), Now.name \in Names, Now.offset \in Nat, ip \in 1..(2 * MaxCode),
         Slot(s, Now.offset) >= 1, NEW z, z = Stored(s)
  PROVE  /\ z \in Seq(Var) /\ Len(z) \in Nat /\ Len(z) \in 1..Len(z)
         /\ Now.offset = 0 => /\ Grows(s, Now.name, z) /\ z[Len(z)].def = ip
                              /\ \A n \in 0..Len(s) : Cut(z, n) = Cut(s, n)
         /\ Now.offset # 0 => /\ Match(s, z) /\ z[Slot(s, Now.offset)].def = ip
                              /\ \A n \in 0..(Slot(s, Now.offset) - 1) :
                                   Cut(z, n) = Cut(s, n)
<1>1. s \in Seq(Var) /\ Len(s) \in Nat BY LenProperties
<1>2. CASE Now.offset = 0
  <2> DEFINE v == Variable(Now.name)
  <2>1. z = Append(s, v) BY <1>2 DEF Stored
  <2>2. v \in Var /\ v.name = Now.name /\ v.def = ip BY VariableFacts
  <2> HIDE DEF v
  <2>3. /\ z \in Seq(Var) /\ Len(z) = Len(s) + 1 /\ z[Len(s) + 1] = v
        /\ Grows(s, Now.name, z)
    BY <1>1, <2>1, <2>2, AppendProperties, AppendGrows
  <2>4. ASSUME NEW n \in 0..Len(s) PROVE Cut(z, n) = Cut(s, n) BY <1>1, <2>1, <2>2, CutAppend
  <2>5. Len(z) \in Nat /\ Len(z) \in 1..Len(z) BY <1>1, <2>3
  <2> QED BY <1>2, <2>2, <2>3, <2>4, <2>5
<1>3. CASE Now.offset # 0
  <2> DEFINE k == Slot(s, Now.offset)
             y == [s[k] EXCEPT !.def = ip]
  <2>1. k \in 1..Len(s) BY <1>1, <1>3 DEF Slot
  <2>2. s[k] \in Var BY <1>1, <2>1, ElementOfSeq
  <2>3. y \in Var /\ y.name = s[k].name /\ y.def = ip BY <2>2 DEF Var
  <2>4. z = [s EXCEPT ![k] = y] BY <1>3 DEF Stored
  <2> HIDE DEF k, y
  <2>5. /\ z \in Seq(Var) /\ Len(z) = Len(s)
        /\ \A j \in 1..Len(s) : z[j] = IF j = k THEN y ELSE s[j]
    BY <1>1, <2>1, <2>3, <2>4, ExceptSeq
  <2>6. Match(s, z) /\ \A n \in 0..(k - 1) : Cut(z, n) = Cut(s, n) BY <1>1, <2>1, <2>3, <2>5, SetEntry
  <2>7. Len(z) \in Nat /\ Len(z) \in 1..Len(z) /\ z[k] = y BY <1>1, <2>1, <2>5
  <2> QED BY <1>3, <2>3, <2>5, <2>6, <2>7 DEF k
<1> QED BY <1>2, <1>3

\* The alias of an exported variable.
LEMMA AliasFacts ==
  ASSUME NEW s \in Seq(Var), NEW k \in 1..Len(s), NEW n \in Names
  PROVE  LET z == [s EXCEPT ![k].alias = @ \cup {n}] IN
         /\ z \in Seq(Var) /\ Match(s, z) /\ Len(z) = Len(s)
         /\ \A j \in 1..Len(s) : z[j].def = s[j].def
<1> DEFINE y == [s[k] EXCEPT !.alias = @ \cup {n}]
           z == [s EXCEPT ![k] = y]
<1>1. s[k] \in Var BY ElementOfSeq
<1>2. y \in Var /\ y.name = s[k].name /\ y.def = s[k].def
  <2>1. s[k].alias \cup {n} \in SUBSET Names BY <1>1 DEF Var
  <2> QED BY <1>1, <2>1 DEF Var
<1>3. [s EXCEPT ![k].alias = @ \cup {n}] = z OBVIOUS
<1> HIDE DEF y
<1>4. z = [s EXCEPT ![k] = y] OBVIOUS
<1> HIDE DEF z
<1>5. z \in Seq(Var) /\ Len(z) = Len(s) /\ \A j \in 1..Len(s) : z[j] = IF j = k THEN y ELSE s[j]
  BY <1>2, <1>4, ExceptSeq
<1>6. Match(s, z) BY <1>2, <1>5, SetEntry
<1>7. \A j \in 1..Len(s) : z[j].def = s[j].def BY <1>2, <1>5
<1> QED BY <1>3, <1>5, <1>6, <1>7

LEMMA WithScope ==
  ASSUME NEW a \in RState, NEW z \in Seq(Var), NEW u, u = [a EXCEPT !.scope = z]
  PROVE  /\ u \in RState /\ u.scope = z /\ u.imports = a.imports /\ u.blocks = a.blocks
         /\ u.always_search_scope = a.always_search_scope
BY DEF RState

LEMMA LetFacts ==
  ASSUME VInv, phase = "run", ip <= Len(code), Now.op \in Lets,
         NEW s, s = At(code, p, ip), NEW t, t = At(code, p, ip + 1)
  PROVE  /\ Let(Now, ip, s, t) /\ Now.name \in Names /\ Now.offset \in Nat
         /\ s \in PState /\ t \in PState /\ r \in RState /\ ip \in 1..(2 * MaxCode)
         /\ ~ArmDefines(code) => /\ Slot(r.scope, Now.offset) >= 1
                                 /\ Now.op = "export let" => r.blocks = <<>>
<1>1. /\ s \in PState /\ t \in PState /\ r \in RState /\ ip \in 1..(2 * MaxCode)
      /\ Steps(Now, ip, s, t) /\ Now.offset \in Nat /\ Follows(code, p, r, s)
      /\ Coded(code, p) /\ ip \in 1..Len(code) /\ ip \in 1..(Len(code) + 1) /\ Len(code) \in Nat
  BY RunFacts
<1>2. Let(Now, ip, s, t) BY <1>1 DEF Steps
<1>3. Now.name \in Names BY <1>2 DEF Let
<1>4. ASSUME ~ArmDefines(code) PROVE Slot(r.scope, Now.offset) >= 1
  <2> DEFINE S == Len(s.stack)
             A == Len(r.scope)
             F == s.frame_pointer
  <2>1. S \in Nat /\ A \in Nat /\ S <= A /\ F \in Nat
    BY <1>1, <1>4, PStateFacts, RStateFacts DEF Follows, Mirrored
  <2>2. Now.offset = 0 \/ Now.offset \in 1..(S - F) BY <1>2 DEF Let
  <2> HIDE DEF S, A, F
  <2>3. (A + 1) - Now.offset >= 1 BY <1>1, <2>1, <2>2
  <2> QED BY <2>3, Zenon DEF A, Slot
<1>5. ASSUME ~ArmDefines(code), Now.op = "export let", r.blocks # <<>> PROVE FALSE
  <2>1. SameBlocks(r, s) /\ r.blocks \in Seq(Saved) /\ s.blocks \in Seq(Block)
    BY <1>1, PStateFacts, RStateFacts DEF Follows
  <2>2. s.blocks # <<>> BY <1>5, <2>1, EmptySeq DEF SameBlocks
  <2>3. Len(s.blocks) \in 1..Len(s.blocks) BY <1>1, <2>2, PStateFacts
  <2>4. Inner(s).kind = "arm" BY <1>2, <1>5, <2>3 DEF Let, Inner
  <2>5. Inner(s).at = ip - 1 BY <1>2, <2>2, <2>4 DEF Let
  <2>6. Around(code, p, ip) BY <1>1 DEF Coded
  <2>7. Within(code, p, ip, s, Len(s.blocks)) BY <2>3, <2>6 DEF Around
  <2>8. code[ip - 1].op = "arm" /\ ip - 1 \in 1..(ip - 1) BY <2>4, <2>5, <2>7 DEF Within, Inner
  <2>9. ip \in 2..Len(code) BY <1>1, <2>8
  <2> QED BY <1>5, <2>8, <2>9 DEF ArmDefines, Now
<1> QED BY <1>1, <1>2, <1>3, <1>4, <1>5

LEMMA LetKeeps ==
  ASSUME VInv, phase = "run", ip <= Len(code), Now.op \in Lets, NEW z \in Seq(Var),
         Now.offset = 0 => Grows(r.scope, Now.name, z), Now.offset # 0 => Match(r.scope, z),
         UNCHANGED <<phase, code, p>>, ip' = ip + 1, r' = [r EXCEPT !.scope = z]
  PROVE  VInv'
<1> DEFINE s == At(code, p, ip)
           t == At(code, p, ip + 1)
<1>1. Let(Now, ip, s, t) /\ s \in PState /\ t \in PState /\ r \in RState BY LetFacts
<1> HIDE DEF s, t
<1>2. /\ r' \in RState /\ r'.scope = z /\ r'.imports = r.imports /\ r'.blocks = r.blocks
      /\ r'.always_search_scope = r.always_search_scope
  BY <1>1, WithScope
<1>3. Len(r.scope) \in Nat /\ Len(r.imports) \in Nat /\ Len(s.stack) \in Nat
  BY <1>1, PStateFacts, RStateFacts
<1>4. Begins(r.scope, z) /\ Begins(r.imports, r'.imports)
  BY <1>2, <1>3, BeginsSelf, GrowsBegins, MatchBegins
<1>5. /\ Match(r.scope, s.stack) => Match(z, t.stack)
      /\ Len(r.scope) - Len(s.stack) <= Len(z) - Len(t.stack)
  <2> DEFINE S == Len(s.stack)
             T == Len(t.stack)
             A == Len(r.scope)
             Z == Len(z)
  <2>1. CASE Now.offset = 0
    <3>0. \A k \in Int : 0 \notin 1..k OBVIOUS
    <3>01. S - s.frame_pointer \in Int BY <1>1, <1>3, PStateFacts
    <3>1. Grows(s.stack, Now.name, t.stack) /\ Grows(r.scope, Now.name, z)
      BY <1>1, <2>1, <3>0, <3>01, Zenon DEF Let, S
    <3>2. Match(r.scope, s.stack) => Match(z, t.stack) BY <1>3, <3>1, GrowsMatch
    <3>3. T = S + 1 /\ Z = A + 1 /\ S \in Nat /\ A \in Nat BY <1>3, <3>1 DEF Grows
    <3> HIDE DEF S, T, A, Z
    <3>4. A - S <= Z - T BY <3>3
    <3> QED BY <3>2, <3>4 DEF S, T, A, Z
  <2>2. CASE Now.offset # 0
    <3>1. Match(s.stack, t.stack) /\ Match(r.scope, z) BY <1>1, <2>2 DEF Let
    <3>2. Match(r.scope, s.stack) => Match(z, t.stack) BY <1>3, <3>1, MatchTrans, MatchBegins
    <3>3. T = S /\ Z = A /\ S \in Nat /\ A \in Nat BY <1>3, <3>1 DEF Match
    <3> HIDE DEF S, T, A, Z
    <3>4. A - S <= Z - T BY <3>3
    <3> QED BY <3>2, <3>4 DEF S, T, A, Z
  <2> QED BY <2>1, <2>2
<1>6. t.imports = s.imports /\ Now.op \in Straight BY <1>1 DEF Let, Straight
<1> QED BY <1>2, <1>4, <1>5, <1>6, AdvanceKeeps DEF s, t

LEMMA VarStep ==
  ASSUME VInv, Stmt_Var
  PROVE  VInv'
<1> DEFINE z == Stored(r.scope)
<1>1. phase = "run" /\ ip <= Len(code) /\ Now.op = "let" BY DEF Stmt_Var, Running, Now
<1>2. Now.op \in Lets BY <1>1 DEF Lets
<1>3. /\ Now.name \in Names /\ Now.offset \in Nat /\ r \in RState /\ ip \in 1..(2 * MaxCode)
      /\ ~ArmDefines(code) => Slot(r.scope, Now.offset) >= 1
  BY <1>1, <1>2, LetFacts
<1>4. r.scope \in Seq(Var) /\ Len(r.scope) \in Nat BY <1>3, RStateFacts
<1>5. CASE Slot(r.scope, Now.offset) < 1
  <2>1. Stop("panic") BY <1>5 DEF Stmt_Var
  <2>2. ArmDefines(code) BY <1>3, <1>4, <1>5 DEF Slot
  <2> QED BY <1>1, <2>1, <2>2, StopKeeps
<1>6. CASE ~(Slot(r.scope, Now.offset) < 1)
  <2>1. r' = [r EXCEPT !.scope = z] /\ ip' = ip + 1 /\ UNCHANGED <<phase, code, p>>
    BY <1>6 DEF Stmt_Var, Advance
  <2>2. Slot(r.scope, Now.offset) >= 1 BY <1>3, <1>4, <1>6 DEF Slot
  <2> HIDE DEF z
  <2>3. /\ z \in Seq(Var) /\ (Now.offset = 0 => Grows(r.scope, Now.name, z))
        /\ Now.offset # 0 => Match(r.scope, z)
    BY <1>3, <1>4, <2>2, StoredFacts DEF z
  <2> QED BY <1>1, <1>2, <2>1, <2>3, LetKeeps
<1> QED BY <1>5, <1>6

LEMMA VarExportedStep ==
  ASSUME VInv, Stmt_Var_exported
  PROVE  VInv'
<1> DEFINE s == Stored(r.scope)
           z == [s EXCEPT ![Len(s)].alias = @ \cup {Now.name}]
<1>1. phase = "run" /\ ip <= Len(code) /\ Now.op = "export let" BY DEF Stmt_Var_exported, Running, Now
<1>2. Now.op \in Lets BY <1>1 DEF Lets
<1>3. /\ Now.name \in Names /\ Now.offset \in Nat /\ r \in RState /\ ip \in 1..(2 * MaxCode)
      /\ ~ArmDefines(code) => Slot(r.scope, Now.offset) >= 1 /\ r.blocks = <<>>
  BY <1>1, <1>2, LetFacts
<1>4. r.scope \in Seq(Var) /\ Len(r.scope) \in Nat BY <1>3, RStateFacts
<1>5. CASE r.blocks # <<>> \/ Slot(r.scope, Now.offset) < 1
  <2>1. Stop("panic") BY <1>5 DEF Stmt_Var_exported
  <2>2. ArmDefines(code) BY <1>3, <1>4, <1>5 DEF Slot
  <2> QED BY <1>1, <2>1, <2>2, StopKeeps
<1>6. CASE ~(r.blocks # <<>> \/ Slot(r.scope, Now.offset) < 1)
  <2>1. r' = [r EXCEPT !.scope = z] /\ ip' = ip + 1 /\ UNCHANGED <<phase, code, p>>
    BY <1>6 DEF Stmt_Var_exported, Advance
  <2>2. Slot(r.scope, Now.offset) >= 1 BY <1>3, <1>4, <1>6 DEF Slot
  <2> HIDE DEF s
  <2>3. /\ s \in Seq(Var) /\ (Now.offset = 0 => Grows(r.scope, Now.name, s))
        /\ (Now.offset # 0 => Match(r.scope, s)) /\ Len(s) \in 1..Len(s)
    BY <1>3, <1>4, <2>2, StoredFacts DEF s
  <2>4. z \in Seq(Var) /\ Match(s, z) BY <1>3, <2>3, AliasFacts
  <2> HIDE DEF z
  <2>5. /\ Now.offset = 0 => Grows(r.scope, Now.name, z)
        /\ Now.offset # 0 => Match(r.scope, z)
    BY <1>4, <2>3, <2>4, MatchGrows, MatchTrans
  <2> QED BY <1>1, <1>2, <2>1, <2>4, <2>5, LetKeeps
<1> QED BY <1>5, <1>6

\* A statement of those that the parser does not see the effect of.
LEMMA UnseenKeeps ==
  ASSUME VInv, phase = "run", ip <= Len(code), Now.op \in Plain, NEW z \in Seq(Var),
         NEW i \in Seq(Imported), NEW b \in BOOLEAN,
         Begins(r.scope, z), Begins(r.imports, i),
         b \/ (Match(r.scope, z) /\ Match(r.imports, i) /\ b = r.always_search_scope),
         UNCHANGED <<phase, code, p>>, ip' = ip + 1,
         r' = [r EXCEPT !.scope = z, !.imports = i, !.always_search_scope = b]
  PROVE  VInv'
<1> DEFINE s == At(code, p, ip)
           t == At(code, p, ip + 1)
<1>1. s \in PState /\ t \in PState /\ Steps(Now, ip, s, t) /\ r \in RState BY RunFacts
<1>2. Now.op \in Straight BY DEF Straight
<1> HIDE DEF s, t
<1>3. Alike(s, t) BY <1>1, <1>2, StraightFacts
<1>4. /\ r' \in RState /\ r'.scope = z /\ r'.imports = i /\ r'.blocks = r.blocks
      /\ r'.always_search_scope = b
  BY <1>1 DEF RState
<1>5. Len(r.scope) \in Nat /\ Len(r.imports) \in Nat /\ Len(s.stack) \in Nat /\ Len(z) \in Nat
  BY <1>1, PStateFacts, RStateFacts, LenProperties
<1>6. ASSUME ~b
      PROVE  /\ ~r.always_search_scope
             /\ Match(r.scope, s.stack) => Match(z, t.stack)
             /\ Match(r.imports, s.imports) => Match(i, t.imports)
  <2>1. Match(z, r.scope) /\ Match(i, r.imports) BY <1>5, <1>6, MatchBegins
  <2>2. Match(s.stack, t.stack) /\ Match(s.imports, t.imports) BY <1>3 DEF Alike
  <2>3. Match(r.scope, s.stack) => Match(z, t.stack) BY <2>1, <2>2, MatchTrans
  <2>4. Match(r.imports, s.imports) => Match(i, t.imports) BY <2>1, <2>2, MatchTrans
  <2> QED BY <1>6, <2>3, <2>4
<1>7. Len(r.scope) - Len(s.stack) <= Len(r'.scope) - Len(t.stack)
  <2> DEFINE S == Len(s.stack)
             A == Len(r.scope)
             Z == Len(z)
  <2>1. S \in Nat /\ A \in Nat /\ Z \in Nat /\ A <= Z /\ Len(r'.scope) = Z /\ Len(t.stack) = S
    BY <1>3, <1>4, <1>5 DEF Begins, Alike, Match
  <2> HIDE DEF S, A, Z
  <2>2. A - S <= Z - S BY <2>1
  <2> QED BY <2>1, <2>2 DEF S, A
<1> QED BY <1>2, <1>4, <1>6, <1>7, AdvanceKeeps DEF s, t

LEMMA ImportedFacts ==
  ASSUME NEW n \in Names, ip \in 1..(2 * MaxCode)
  PROVE  [name |-> n, def |-> ip] \in Imported /\ [name |-> n, def |-> ip].name = n
BY DEF Imported

LEMMA PlainNamed ==
  ASSUME VInv, phase = "run", ip <= Len(code), Now.op \in Straight
  PROVE  /\ Now.name \in Names /\ r \in RState /\ ip \in 1..(2 * MaxCode)
         /\ r.scope \in Seq(Var) /\ r.imports \in Seq(Imported) /\ Len(r.scope) \in Nat
         /\ Len(r.imports) \in Nat /\ r.always_search_scope \in BOOLEAN
<1> DEFINE s == At(code, p, ip)
           t == At(code, p, ip + 1)
<1>1. /\ s \in PState /\ t \in PState /\ Steps(Now, ip, s, t) /\ r \in RState /\ ip \in 1..(2 * MaxCode)
  BY RunFacts
<1> HIDE DEF s, t
<1>2. Now.name \in Names BY <1>1, StraightFacts
<1> QED BY <1>1, <1>2, RStateFacts

LEMMA EvalStep ==
  ASSUME VInv, eval
  PROVE  VInv'
<1>1. phase = "run" /\ ip <= Len(code) /\ Now.op \in {"eval let", "eval import"}
  BY DEF eval, Running, Now
<1>2. Now.op \in Plain /\ Now.op \in Straight BY <1>1 DEF Plain, Straight
<1>3. /\ Now.name \in Names /\ r \in RState /\ ip \in 1..(2 * MaxCode)
      /\ r.scope \in Seq(Var) /\ r.imports \in Seq(Imported) /\ Len(r.scope) \in Nat
      /\ Len(r.imports) \in Nat
  BY <1>1, <1>2, PlainNamed
<1>4. Begins(r.scope, r.scope) /\ Begins(r.imports, r.imports) BY <1>3, BeginsSelf
<1>5. CASE Now.op = "eval let"
  <2> DEFINE v == Variable(Now.name)
             z == Append(r.scope, v)
  <2>1. /\ r' = [r EXCEPT !.scope = z, !.always_search_scope = TRUE]
        /\ ip' = ip + 1 /\ UNCHANGED <<phase, code, p>>
    BY <1>5 DEF eval, Running, Now, Advance
  <2>2. v \in Var BY <1>3, VariableFacts
  <2> HIDE DEF v
  <2>3. z \in Seq(Var) /\ Begins(r.scope, z) BY <1>3, <2>2, AppendProperties, AppendGrows, GrowsBegins
  <2> HIDE DEF z
  <2>4. r' = [r EXCEPT !.scope = z, !.imports = r.imports, !.always_search_scope = TRUE]
    BY <1>3, <2>1 DEF RState
  <2> QED BY <1>1, <1>2, <1>3, <1>4, <2>1, <2>3, <2>4, UnseenKeeps
<1>6. CASE Now.op = "eval import"
  <2> DEFINE m == [name |-> Now.name, def |-> ip]
             i == Append(r.imports, m)
  <2>1. /\ r' = [r EXCEPT !.imports = i, !.always_search_scope = TRUE]
        /\ ip' = ip + 1 /\ UNCHANGED <<phase, code, p>>
    BY <1>6 DEF eval, Running, Now, Advance
  <2>2. m \in Imported BY <1>3, ImportedFacts
  <2> HIDE DEF m
  <2>3. i \in Seq(Imported) /\ Begins(r.imports, i)
    BY <1>3, <2>2, AppendProperties, AppendGrows, GrowsBegins
  <2> HIDE DEF i
  <2>4. r' = [r EXCEPT !.scope = r.scope, !.imports = i, !.always_search_scope = TRUE]
    BY <1>3, <2>1 DEF RState
  <2> QED BY <1>1, <1>2, <1>3, <1>4, <2>1, <2>3, <2>4, UnseenKeeps
<1> QED BY <1>1, <1>5, <1>6

LEMMA RunExportStep ==
  ASSUME VInv, Stmt_Export
  PROVE  VInv'
<1> DEFINE i == Find(r.scope, Now.name)
           z == [r.scope EXCEPT ![i].alias = @ \cup {Now.name}]
<1>1. phase = "run" /\ ip <= Len(code) /\ Now.op = "export" BY DEF Stmt_Export, Running, Now
<1>2. Now.op \in Plain /\ Now.op \in Straight BY <1>1 DEF Plain, Straight
<1>3. /\ Now.name \in Names /\ r \in RState /\ r.scope \in Seq(Var) /\ r.imports \in Seq(Imported)
      /\ Len(r.scope) \in Nat /\ Len(r.imports) \in Nat /\ r.always_search_scope \in BOOLEAN
  BY <1>1, <1>2, PlainNamed
<1>4. i \in 0..Len(r.scope) BY <1>3, FindIsLast DEF IsLast
<1>5. CASE i = 0
  <2>1. Stop("error") BY <1>5 DEF Stmt_Export
  <2> QED BY <1>1, <2>1, StopKeeps
<1>6. CASE i # 0
  <2>1. r' = [r EXCEPT !.scope[i].alias = @ \cup {Now.name}] /\ ip' = ip + 1
        /\ UNCHANGED <<phase, code, p>>
    BY <1>6 DEF Stmt_Export, Advance
  <2>2. r' = [r EXCEPT !.scope = z, !.imports = r.imports,
                       !.always_search_scope = r.always_search_scope]
    BY <1>3, <2>1 DEF RState
  <2>3. i \in 1..Len(r.scope) BY <1>3, <1>4, <1>6
  <2> HIDE DEF i
  <2>4. z \in Seq(Var) /\ Match(r.scope, z) BY <1>3, <2>3, AliasFacts
  <2> HIDE DEF z
  <2>5. Begins(r.scope, z) /\ Begins(r.imports, r.imports) /\ Match(r.imports, r.imports)
    BY <1>3, <2>4, MatchBegins, BeginsSelf
  <2> QED BY <1>1, <1>2, <1>3, <2>1, <2>2, <2>4, <2>5, UnseenKeeps
<1> QED BY <1>5, <1>6

LEMMA RunImportStep ==
  ASSUME VInv, Stmt_Import
  PROVE  VInv'
<1> DEFINE m == [name |-> Now.name, def |-> ip]
           i == Append(r.imports, m)
           s == At(code, p, ip)
           t == At(code, p, ip + 1)
<1>1. /\ phase = "run" /\ ip <= Len(code) /\ Now.op = "import"
      /\ r' = [r EXCEPT !.imports = i] /\ ip' = ip + 1 /\ UNCHANGED <<phase, code, p>>
  BY DEF Stmt_Import, Running, Now, Advance
<1>2. Now.op \in Straight BY <1>1 DEF Straight
<1>3. /\ Now.name \in Names /\ r \in RState /\ ip \in 1..(2 * MaxCode)
      /\ r.imports \in Seq(Imported) /\ Len(r.scope) \in Nat /\ Len(r.imports) \in Nat
  BY <1>1, <1>2, PlainNamed
<1>4. m \in Imported /\ m.name = Now.name BY <1>3, ImportedFacts
<1> HIDE DEF m
<1>5. i \in Seq(Imported) /\ Grows(r.imports, Now.name, i) BY <1>3, <1>4, AppendProperties, AppendGrows
<1> HIDE DEF i
<1>6. /\ r' \in RState /\ r'.scope = r.scope /\ r'.imports = i /\ r'.blocks = r.blocks
      /\ r'.always_search_scope = r.always_search_scope
  BY <1>1, <1>3, <1>5 DEF RState
<1>7. s \in PState /\ t \in PState /\ Steps(Now, ip, s, t) BY <1>1, RunFacts
<1> HIDE DEF s, t
<1>8. t.stack = s.stack /\ Grows(s.imports, Now.name, t.imports) BY <1>1, <1>7 DEF Steps, Imports
<1>9. Begins(r.scope, r'.scope) /\ Begins(r.imports, r'.imports)
  BY <1>3, <1>5, <1>6, BeginsSelf, GrowsBegins
<1>10. Match(r.imports, s.imports) => Match(i, t.imports) BY <1>3, <1>5, <1>8, GrowsMatch
<1>11. Len(r.scope) - Len(s.stack) <= Len(r'.scope) - Len(t.stack)
  <2> DEFINE S == Len(s.stack)
             A == Len(r.scope)
  <2>1. S \in Nat /\ A \in Nat /\ Len(r'.scope) = A /\ Len(t.stack) = S
    BY <1>3, <1>6, <1>7, <1>8, PStateFacts
  <2> HIDE DEF S, A
  <2>2. A - S <= A - S BY <2>1
  <2> QED BY <2>1, <2>2 DEF S, A
<1> QED BY <1>1, <1>2, <1>6, <1>8, <1>9, <1>10, <1>11, AdvanceKeeps DEF s, t

\* A block is entered.
LEMMA Enters ==
  ASSUME NEW c, NEW q, Coded(c, q), NEW m \in 1..Len(c), NEW s, s = At(c, q, m),
         NEW t, t = At(c, q, m + 1), Opening(c[m], m, s, t),
         NEW a \in RState, Fits(a), Follows(c, q, a, s),
         NEW g \in Saved, NEW u \in RState, u.blocks = Append(a.blocks, g),
         u.imports = a.imports, u.always_search_scope = a.always_search_scope,
         g.at = m, g.outer = Len(a.scope), g.scope = Len(u.scope), g.imports = Len(a.imports),
         g.always_search_scope = a.always_search_scope,
         NEW n, \/ t.stack = s.stack /\ u.scope = a.scope
                \/ Grows(s.stack, n, t.stack) /\ Grows(a.scope, n, u.scope)
  PROVE  Fits(u) /\ Follows(c, q, u, t)
<1> DEFINE S == Len(s.stack)
           T == Len(t.stack)
           A == Len(a.scope)
           U == Len(u.scope)
           I == Len(a.imports)
           N == Len(a.blocks)
<1>1. /\ c \in Seq(Stm) /\ q \in PState /\ Len(c) \in Nat /\ m \in 1..(Len(c) + 1)
      /\ m + 1 \in 1..(Len(c) + 1) /\ m \in Nat
  BY LenProperties DEF Coded
<1>2. s \in PState /\ t \in PState BY <1>1, AtFacts
<1>3. S \in Nat /\ T \in Nat /\ A \in Nat /\ U \in Nat /\ I \in Nat /\ N \in Nat
      /\ Len(s.imports) \in Nat /\ a.blocks \in Seq(Saved)
  BY <1>2, PStateFacts, RStateFacts
<1>4. /\ t.imports = s.imports /\ Len(t.blocks) = Len(s.blocks) + 1
      /\ t.blocks[Len(s.blocks) + 1].at = m
      /\ \A k \in 1..Len(s.blocks) : t.blocks[k] = s.blocks[k]
  <2>1. Nests(m, s, t) BY <1>1, <1>2, OpeningFacts
  <2> QED BY <2>1 DEF Nests
<1>5. SameBlocks(a, s) BY DEF Follows
<1>6. /\ Len(u.blocks) = N + 1 /\ u.blocks[N + 1] = g /\ \A k \in 1..N : u.blocks[k] = a.blocks[k]
  <2>1. ASSUME NEW v \in Seq(Saved)
        PROVE  /\ Len(Append(v, g)) = Len(v) + 1 /\ Append(v, g)[Len(v) + 1] = g
               /\ \A k \in 1..Len(v) : Append(v, g)[k] = v[k]
    BY AppendProperties
  <2> QED BY <1>3, <2>1
<1>7. \A k \in 1..(N + 1) : k \in 1..N \/ k = N + 1 BY <1>3
<1>8. /\ Begins(a.scope, u.scope) /\ (Match(a.scope, s.stack) => Match(u.scope, t.stack))
      /\ U - A = T - S /\ A <= U
  <2>1. CASE t.stack = s.stack /\ u.scope = a.scope
    <3>1. Begins(a.scope, u.scope) /\ (Match(a.scope, s.stack) => Match(u.scope, t.stack))
      BY <1>3, <2>1, BeginsSelf
    <3>2. U = A /\ T = S BY <2>1
    <3> HIDE DEF S, T, A, U
    <3>3. U - A = T - S /\ A <= U BY <1>3, <3>2
    <3> QED BY <3>1, <3>3
  <2>2. CASE Grows(s.stack, n, t.stack) /\ Grows(a.scope, n, u.scope)
    <3>1. Begins(a.scope, u.scope) /\ (Match(a.scope, s.stack) => Match(u.scope, t.stack))
      BY <1>3, <2>2, GrowsBegins, GrowsMatch
    <3>2. U = A + 1 /\ T = S + 1 BY <2>2 DEF Grows
    <3> HIDE DEF S, T, A, U
    <3>3. U - A = T - S /\ A <= U BY <1>3, <3>2
    <3> QED BY <3>1, <3>3
  <2> QED BY <2>1, <2>2
<1>9. SameBlocks(u, t)
  <2>1. N = Len(s.blocks) /\ \A k \in 1..N : a.blocks[k].at = s.blocks[k].at BY <1>5 DEF SameBlocks
  <2>2. Len(u.blocks) = Len(t.blocks) BY <1>4, <1>6, <2>1
  <2>3. ASSUME NEW k \in 1..(N + 1) PROVE u.blocks[k].at = t.blocks[k].at
    <3>1. CASE k \in 1..N BY SMTT(60), <1>4, <1>6, <2>1, <3>1
    <3>2. CASE k = N + 1 BY <1>4, <1>6, <2>1, <3>2
    <3> QED BY <1>7, <3>1, <3>2
  <2> QED BY <1>6, <2>2, <2>3 DEF SameBlocks
<1>10. ASSUME NEW k \in 1..N
       PROVE  LET b == a.blocks[k]
              IN /\ b.outer <= b.scope /\ b.scope <= A /\ b.imports <= I
                 /\ b.outer \in Nat /\ b.scope \in Nat /\ b.imports \in Nat
                 /\ \A l \in (k + 1)..N : b.scope <= a.blocks[l].outer /\ b.imports <= a.blocks[l].imports
  BY SavedFacts DEF Fits
<1>11. Fits(u)
  <2>1. ASSUME NEW k \in 1..N
        PROVE  LET b == u.blocks[k]
               IN /\ b.outer <= b.scope /\ b.scope <= Len(u.scope) /\ b.imports <= Len(u.imports)
                  /\ \A l \in (k + 1)..(N + 1) :
                       b.scope <= u.blocks[l].outer /\ b.imports <= u.blocks[l].imports
    <3> DEFINE b == a.blocks[k]
    <3>1. u.blocks[k] = b BY <1>6
    <3>2. b.outer <= b.scope /\ b.scope <= A /\ b.imports <= I /\ b.scope \in Nat BY <1>10
    <3>3. b.scope <= U
      <4> HIDE DEF A, U, b
      <4> QED BY <1>3, <1>8, <3>2
    <3>4. ASSUME NEW l \in (k + 1)..(N + 1)
          PROVE  b.scope <= u.blocks[l].outer /\ b.imports <= u.blocks[l].imports
      <4>1. CASE l = N + 1 BY <1>6, <3>2, <4>1
      <4>2. CASE l # N + 1
        <5>1. l \in (k + 1)..N /\ l \in 1..N BY SMTT(60), <1>3, <4>2
        <5> QED BY <1>6, <1>10, <5>1
      <4> QED BY <4>1, <4>2
    <3> QED BY <3>1, <3>2, <3>3, <3>4
  <2>2. /\ g.outer <= g.scope /\ g.scope <= U /\ g.imports <= Len(u.imports)
        /\ \A l \in ((N + 1) + 1)..(N + 1) : FALSE
    <3>1. g.outer = A /\ g.scope = U /\ g.imports = I /\ Len(u.imports) = I OBVIOUS
    <3> HIDE DEF A, U, I, N
    <3> QED BY <1>3, <1>8, <3>1
  <2>3. ASSUME NEW k \in 1..(N + 1)
        PROVE  LET b == u.blocks[k]
               IN /\ b.outer <= b.scope /\ b.scope <= Len(u.scope) /\ b.imports <= Len(u.imports)
                  /\ \A l \in (k + 1)..(N + 1) :
                       b.scope <= u.blocks[l].outer /\ b.imports <= u.blocks[l].imports
    BY <1>6, <1>7, <2>1, <2>2
  <2> QED BY <1>6, <2>3 DEF Fits
<1>12. ASSUME ~ArmDefines(c) PROVE Mirrored(c, q, u, t)
  <2> DEFINE W(b) == Surplus(c, q, b)
  <2>1. Mirrored(c, q, a, s) BY <1>12 DEF Follows
  <2>2. /\ ~a.always_search_scope => Match(a.scope, s.stack) /\ Match(a.imports, s.imports)
        /\ S <= A
    BY <2>1 DEF Mirrored
  <2>3. ~u.always_search_scope => Match(u.scope, t.stack) /\ Match(u.imports, t.imports)
    BY <1>4, <1>8, <2>2
  <2>4. T <= U /\ A - S = U - T /\ 0 <= A - S
    <3> HIDE DEF S, T, A, U
    <3> QED BY <1>3, <1>8, <2>2
  <2>5. W(g) = A - S BY DEF Surplus
  <2>6. ASSUME NEW k \in 1..N
        PROVE  /\ Mirrors(c, q, a, a.blocks[k]) /\ 0 <= W(a.blocks[k]) /\ W(a.blocks[k]) <= A - S
               /\ W(a.blocks[k]) \in Int
               /\ \A l \in (k + 1)..N : W(a.blocks[k]) <= W(a.blocks[l])
    <3>1. W(a.blocks[k]) \in Int BY <1>1, <1>5, EnteredFacts
    <3> QED BY <2>1, <3>1 DEF Mirrored
  <2>7. ASSUME NEW k \in 1..N PROVE Mirrors(c, q, u, a.blocks[k])
    <3> DEFINE b == a.blocks[k]
               e == At(c, q, b.at)
               v == At(c, q, b.at + 1)
    <3>1. Mirrors(c, q, a, b) BY <2>6
    <3>2. Len(v.stack) \in Nat BY <1>1, <1>5, EnteredFacts
    <3>3. ~b.always_search_scope => Begins(v.stack, a.scope) BY <3>1 DEF Mirrors
    <3>4. ~b.always_search_scope => Begins(v.stack, u.scope)
      <4> HIDE DEF v
      <4> QED BY <1>3, <1>8, <3>2, <3>3, BeginsTrans
    <3> QED BY <3>1, <3>4 DEF Mirrors
  <2>8. Mirrors(c, q, u, g)
    <3>1. g.scope = U /\ g.outer = A /\ U - A = T - S BY <1>8
    <3>2. ASSUME ~g.always_search_scope
          PROVE  /\ U = T /\ Begins(t.stack, u.scope)
                 /\ I = Len(s.imports) /\ Begins(s.imports, u.imports)
      <4>1. Match(u.scope, t.stack) /\ Match(a.imports, s.imports) BY <2>2, <2>3, <3>2
      <4>2. Begins(t.stack, u.scope) /\ Begins(s.imports, u.imports) BY <1>3, <4>1, MatchBegins
      <4> QED BY <4>1, <4>2 DEF Match
    <3> QED BY <3>1, <3>2 DEF Mirrors
  <2>9. ASSUME NEW k \in 1..(N + 1)
        PROVE  /\ Mirrors(c, q, u, u.blocks[k])
               /\ 0 <= W(u.blocks[k])
               /\ W(u.blocks[k]) <= U - T
               /\ \A l \in (k + 1)..(N + 1) : W(u.blocks[k]) <= W(u.blocks[l])
    <3>1. CASE k \in 1..N
      <4>1. u.blocks[k] = a.blocks[k] BY <1>6, <3>1
      <4>2. ASSUME NEW l \in (k + 1)..(N + 1) PROVE W(a.blocks[k]) <= W(u.blocks[l])
        <5>1. CASE l = N + 1 BY <1>6, <2>5, <2>6, <3>1, <5>1
        <5>2. CASE l # N + 1
          <6>1. l \in (k + 1)..N /\ l \in 1..N BY SMTT(60), <1>3, <3>1, <5>2
          <6> QED BY <1>6, <2>6, <3>1, <6>1
        <5> QED BY <5>1, <5>2
      <4>3. W(a.blocks[k]) <= U - T BY <2>4, <2>6, <3>1
      <4> QED BY <2>6, <2>7, <3>1, <4>1, <4>2, <4>3
    <3>2. CASE k = N + 1
      <4>1. u.blocks[k] = g BY <1>6, <3>2
      <4>2. W(g) = U - T /\ 0 <= W(g) BY <2>4, <2>5
      <4>3. W(g) <= U - T
        <5> HIDE DEF U, T, W
        <5> QED BY <1>3, <4>2
      <4>4. \A l \in (k + 1)..(N + 1) : FALSE
        <5> HIDE DEF N
        <5> QED BY <1>3, <3>2
      <4> QED BY <2>8, <4>1, <4>2, <4>3, <4>4
    <3> QED BY <1>7, <3>1, <3>2
  <2> QED BY <1>6, <2>3, <2>4, <2>9 DEF Mirrored
<1> QED BY <1>9, <1>11, <1>12 DEF Follows

\* The first K blocks restore no more than what is there below X and Y.
Below(a, K, X, Y) == \A k \in 1..K : a.blocks[k].scope <= X /\ a.blocks[k].imports <= Y

\* u, a with a scope of X variables and K blocks left, is like t.
Regains(c, q, a, K, X, u, t) ==
  /\ ~u.always_search_scope => Match(u.scope, t.stack) /\ Match(u.imports, t.imports)
  /\ Len(t.stack) <= X
  /\ \A k \in 1..K : Surplus(c, q, a.blocks[k]) <= X - Len(t.stack)

\* The scope is cut back, to no less than what the blocks still entered restore.
LEMMA CutsBack ==
  ASSUME NEW c, NEW q, Coded(c, q), NEW m \in 1..(Len(c) + 1), NEW s, s = At(c, q, m),
         NEW a \in RState, Fits(a), Follows(c, q, a, s),
         NEW K \in 0..Len(a.blocks), NEW X \in 0..Len(a.scope), NEW Y \in 0..Len(a.imports),
         Below(a, K, X, Y),
         NEW u \in RState, u.scope = Cut(a.scope, X), u.imports = Cut(a.imports, Y),
         u.blocks = Cut(a.blocks, K),
         NEW t \in PState, SameBlocks(u, t),
         ~ArmDefines(c) => Regains(c, q, a, K, X, u, t)
  PROVE  Fits(u) /\ Follows(c, q, u, t)
<1>1. /\ a.scope \in Seq(Var) /\ a.imports \in Seq(Imported) /\ a.blocks \in Seq(Saved)
      /\ Len(a.scope) \in Nat /\ Len(a.imports) \in Nat /\ Len(a.blocks) \in Nat
  BY RStateFacts
<1>2. /\ Len(u.scope) = X /\ Len(u.imports) = Y /\ Len(u.blocks) = K
      /\ \A k \in 1..K : u.blocks[k] = a.blocks[k]
  <2>1. Len(u.scope) = X BY <1>1, CutFacts
  <2>2. Len(u.imports) = Y
    <3>1. ASSUME NEW w \in Seq(Imported), NEW n \in 0..Len(w) PROVE Len(Cut(w, n)) = n BY <3>1, CutFacts
    <3> QED BY <1>1, <3>1
  <2>3. Len(u.blocks) = K /\ \A k \in 1..K : u.blocks[k] = a.blocks[k]
    <3>1. ASSUME NEW w \in Seq(Saved), NEW n \in 0..Len(w)
          PROVE  Len(Cut(w, n)) = n /\ \A k \in 1..n : Cut(w, n)[k] = w[k]
      BY <3>1, CutFacts
    <3> QED BY <1>1, <3>1
  <2> QED BY <2>1, <2>2, <2>3
<1>3. X \in Nat /\ Y \in Nat /\ K \in Nat /\ \A k \in 1..K : k \in 1..Len(a.blocks) BY <1>1
<1>4. SameBlocks(a, s) BY DEF Follows
<1>5. Fits(u)
  <2>1. ASSUME NEW k \in 1..K
        PROVE  LET b == u.blocks[k]
               IN /\ b.outer <= b.scope /\ b.scope <= Len(u.scope) /\ b.imports <= Len(u.imports)
                  /\ \A l \in (k + 1)..K : b.scope <= u.blocks[l].outer /\ b.imports <= u.blocks[l].imports
    <3>1. /\ a.blocks[k].outer <= a.blocks[k].scope
          /\ a.blocks[k].scope <= X /\ a.blocks[k].imports <= Y
          /\ \A l \in (k + 1)..Len(a.blocks) : /\ a.blocks[k].scope <= a.blocks[l].outer
                                               /\ a.blocks[k].imports <= a.blocks[l].imports
      BY <1>3 DEF Fits, Below
    <3>2. \A l \in (k + 1)..K : l \in (k + 1)..Len(a.blocks) /\ l \in 1..K BY <1>1, <1>3
    <3> QED BY <1>2, <3>1, <3>2
  <2> QED BY <1>2, <2>1 DEF Fits
<1>6. ASSUME ~ArmDefines(c) PROVE Mirrored(c, q, u, t)
  <2>1. /\ ~u.always_search_scope => Match(u.scope, t.stack) /\ Match(u.imports, t.imports)
        /\ Len(t.stack) <= X
        /\ \A k \in 1..K : Surplus(c, q, a.blocks[k]) <= X - Len(t.stack)
    BY <1>6 DEF Regains
  <2>2. Mirrored(c, q, a, s) BY <1>6 DEF Follows
  <2>3. ASSUME NEW k \in 1..K
        PROVE  /\ Mirrors(c, q, u, u.blocks[k]) /\ 0 <= Surplus(c, q, u.blocks[k])
               /\ \A l \in (k + 1)..K : Surplus(c, q, u.blocks[k]) <= Surplus(c, q, u.blocks[l])
    <3> DEFINE b == a.blocks[k]
               e == At(c, q, b.at)
               v == At(c, q, b.at + 1)
    <3>1. /\ Mirrors(c, q, a, b) /\ 0 <= Surplus(c, q, b)
          /\ \A l \in (k + 1)..Len(a.blocks) : Surplus(c, q, b) <= Surplus(c, q, a.blocks[l])
      BY <1>3, <2>2 DEF Mirrored
    <3>2. \A l \in (k + 1)..K : l \in (k + 1)..Len(a.blocks) /\ l \in 1..K BY <1>1, <1>3
    <3>3. Len(v.stack) \in Nat /\ Len(e.imports) \in Nat BY <1>3, <1>4, EnteredFacts
    <3>4. ASSUME ~b.always_search_scope
          PROVE  /\ b.scope = Len(v.stack) /\ Begins(v.stack, u.scope)
                 /\ b.imports = Len(e.imports) /\ Begins(e.imports, u.imports)
      <4>1. /\ b.scope = Len(v.stack) /\ Begins(v.stack, a.scope)
            /\ b.imports = Len(e.imports) /\ Begins(e.imports, a.imports)
        BY <3>1, <3>4 DEF Mirrors
      <4>2. Len(v.stack) <= X /\ Len(e.imports) <= Y BY <4>1 DEF Below
      <4> HIDE DEF v, e
      <4>3. Begins(v.stack, u.scope) /\ Begins(e.imports, u.imports) BY <1>1, <3>3, <4>1, <4>2, BeginsCut
      <4> QED BY <4>1, <4>3
    <3>5. Mirrors(c, q, u, b) BY ZenonT(60), <3>1, <3>4 DEF Mirrors
    <3> QED BY <1>2, <3>1, <3>2, <3>5
  <2> QED BY <1>2, <2>1, <2>3 DEF Mirrored
<1> QED BY <1>5, <1>6 DEF Follows

\* e is in the blocks that s is in, but for the L-th.
Outside(e, s, L) == Len(e.blocks) = L - 1 /\ e.blocks = Cut(s.blocks, L - 1)

\* At the end of a block: the parser's records of the block and the evaluator's.
LEMMA LeaveFacts ==
  ASSUME NEW c, NEW q, Coded(c, q), NEW m \in 1..Len(c), NEW s, s = At(c, q, m),
         c[m].op = "close", NEW a \in RState, Fits(a), Follows(c, q, a, s),
         NEW L, L = Len(a.blocks), NEW b, b = a.blocks[L], NEW n, n = b.at,
         NEW e, e = At(c, q, n), NEW t, t = At(c, q, m + 1), NEW v, v = At(c, q, n + 1)
  PROVE  /\ L \in Nat /\ L \in 1..L /\ b \in Saved /\ n \in 1..Len(c)
         /\ b.outer \in Nat /\ b.scope \in Nat /\ b.imports \in Nat
         /\ b.outer <= b.scope /\ b.scope <= Len(a.scope) /\ b.imports <= Len(a.imports)
         /\ e \in PState /\ t \in PState /\ v \in PState
         /\ t.blocks = e.blocks /\ (~ArmDefines(c) => Alike(t, e))
         /\ Nests(n, e, v) /\ Begins(e.stack, v.stack)
         /\ Outside(e, s, L)
<1>1. /\ c \in Seq(Stm) /\ q \in PState /\ Len(c) \in Nat /\ m \in 1..(Len(c) + 1)
      /\ m + 1 \in 1..(Len(c) + 1)
  BY LenProperties DEF Coded
<1>2. s \in PState /\ t \in PState /\ Closing(s, t) BY <1>1, AtFacts DEF Coded, Steps
<1>3. SameBlocks(a, s) /\ s.blocks # <<>> BY <1>2 DEF Follows, Closing
<1>4. L = Len(s.blocks) /\ L \in Nat /\ L \in 1..L BY <1>2, <1>3, PStateFacts DEF SameBlocks
<1>5. n = Inner(s).at BY <1>3, <1>4 DEF SameBlocks, Inner
<1>6. /\ n \in 1..(m - 1) /\ e \in PState /\ t.blocks = e.blocks
      /\ Len(s.blocks) = Len(e.blocks) + 1 /\ (~ArmDefines(c) => Alike(t, e))
  BY <1>1, <1>2, <1>5, ClosesFacts
<1>7. /\ b \in Saved /\ b.outer \in Nat /\ b.scope \in Nat /\ b.imports \in Nat
      /\ b.outer <= b.scope /\ b.scope <= Len(a.scope) /\ b.imports <= Len(a.imports)
  BY <1>4, SavedFacts DEF Fits
<1>8. /\ n \in 1..Len(c) /\ v \in PState /\ e.blocks = Cut(s.blocks, L - 1)
      /\ Opening(c[n], n, e, v)
  <2>1. ASSUME NEW k \in 1..Len(a.blocks), NEW l, l = a.blocks[k].at
        PROVE  /\ l \in 1..Len(c) /\ At(c, q, l + 1) \in PState
               /\ At(c, q, l).blocks = Cut(s.blocks, k - 1)
               /\ Opening(c[l], l, At(c, q, l), At(c, q, l + 1))
    <3>1. l \in 1..Len(c) /\ At(c, q, l + 1) \in PState BY <1>1, <1>3, <2>1, EnteredFacts
    <3>2. At(c, q, l).blocks = Cut(s.blocks, k - 1) BY <1>1, <1>3, <2>1, EnteredFacts
    <3>3. Opening(c[l], l, At(c, q, l), At(c, q, l + 1)) BY <1>1, <1>3, <2>1, EnteredFacts
    <3> QED BY <3>1, <3>2, <3>3
  <2>2. L \in 1..Len(a.blocks) BY <1>4
  <2> QED BY <2>1, <2>2
<1>9. n \in Nat BY <1>6
<1>10. Nests(n, e, v) /\ Begins(e.stack, v.stack) BY <1>6, <1>8, <1>9, OpeningFacts
<1>11. Len(e.blocks) = L - 1
  <2> DEFINE E == Len(e.blocks)
  <2>1. E \in Nat /\ L = E + 1 BY ZenonT(60), <1>4, <1>6, PStateFacts
  <2> HIDE DEF E
  <2>2. E = L - 1 BY <2>1
  <2> QED BY SMTT(60), <2>2 DEF E
<1>12. Outside(e, s, L) BY <1>8, <1>11 DEF Outside
<1> QED BY ZenonT(60), <1>2, <1>4, <1>6, <1>7, <1>8, <1>10, <1>12

\* What the block that ends restores, in a program where no arm defines anything.
LEMMA RestoreFacts ==
  ASSUME NEW c, NEW q, Coded(c, q), NEW m \in 1..Len(c), NEW s, s = At(c, q, m),
         c[m].op = "close", NEW a \in RState, Fits(a), Follows(c, q, a, s), ~ArmDefines(c),
         NEW L, L = Len(a.blocks), NEW b, b = a.blocks[L],
         NEW e, e = At(c, q, b.at), NEW v, v = At(c, q, b.at + 1)
  PROVE  /\ Len(v.stack) <= b.scope /\ Len(e.stack) <= b.outer
         /\ \A k \in 1..L : /\ Surplus(c, q, a.blocks[k]) <= b.scope - Len(v.stack)
                            /\ Surplus(c, q, a.blocks[k]) <= b.outer - Len(e.stack)
         /\ ~b.always_search_scope => /\ Match(Cut(a.scope, b.scope), v.stack)
                                      /\ Match(Cut(a.scope, b.outer), e.stack)
                                      /\ Match(Cut(a.imports, b.imports), e.imports)
<1>1. /\ L \in Nat /\ L \in 1..L /\ b.outer \in Nat /\ b.scope \in Nat
      /\ e \in PState /\ v \in PState /\ Begins(e.stack, v.stack)
  BY LeaveFacts
<1>2. /\ a.scope \in Seq(Var) /\ a.imports \in Seq(Imported) /\ Len(a.scope) \in Nat BY RStateFacts
<1> DEFINE E == Len(e.stack)
           V == Len(v.stack)
           W(k) == Surplus(c, q, a.blocks[k])
<1>3. E \in Nat /\ V \in Nat /\ Len(e.imports) \in Nat BY <1>1, PStateFacts
<1>4. Mirrored(c, q, a, s) /\ SameBlocks(a, s) BY DEF Follows
<1>5. Mirrors(c, q, a, b) /\ 0 <= W(L) BY <1>1, <1>4 DEF Mirrored
<1>6. W(L) = b.outer - E /\ b.scope - b.outer = V - E BY <1>5 DEF Mirrors, Surplus
<1>7. ASSUME NEW k \in 1..L PROVE W(k) \in Int /\ W(k) <= W(L)
  <2>1. W(k) \in Int
    <3>1. m \in 1..(Len(c) + 1) BY LenProperties DEF Coded
    <3>2. ASSUME NEW l \in 1..Len(a.blocks) PROVE Surplus(c, q, a.blocks[l]) \in Int
      BY <1>4, <3>1, EnteredFacts
    <3> QED BY <3>2
  <2>2. CASE k = L
    <3> HIDE DEF W
    <3> QED BY <2>1, <2>2
  <2>3. CASE k # L
    <3>1. L \in (k + 1)..L BY <1>1, <2>3
    <3> QED BY <1>4, <2>1, <3>1 DEF Mirrored
  <2> QED BY <2>2, <2>3
<1>8. /\ V <= b.scope /\ E <= b.outer
      /\ \A k \in 1..L : W(k) <= b.scope - V /\ W(k) <= b.outer - E
  <2> DEFINE B == b.scope
             O == b.outer
  <2>1. B \in Nat /\ O \in Nat /\ 0 <= W(L) /\ W(L) = O - E /\ B - O = V - E BY <1>1, <1>5, <1>6
  <2>2. ASSUME NEW k \in 1..L PROVE W(k) \in Int /\ W(k) <= W(L) BY <1>7
  <2> HIDE DEF B, O, E, V, W
  <2>3. V <= B /\ E <= O /\ B - V = W(L) /\ O - E = W(L) BY <1>3, <2>1
  <2>4. \A k \in 1..L : W(k) <= B - V /\ W(k) <= O - E BY <2>2, <2>3
  <2> QED BY <2>3, <2>4 DEF B, O
<1>9. ASSUME ~b.always_search_scope
      PROVE  /\ Match(Cut(a.scope, b.scope), v.stack)
             /\ Match(Cut(a.scope, b.outer), e.stack)
             /\ Match(Cut(a.imports, b.imports), e.imports)
  <2>1. /\ b.scope = V /\ Begins(v.stack, a.scope)
        /\ b.imports = Len(e.imports) /\ Begins(e.imports, a.imports)
    BY <1>5, <1>9 DEF Mirrors
  <2>2. b.outer = E
    <3> HIDE DEF E, V
    <3> QED BY SMTT(60), <1>1, <1>3, <1>6, <2>1
  <2>3. Begins(e.stack, a.scope) BY <1>1, <1>2, <1>3, <2>1, BeginsTrans
  <2>4. Match(Cut(a.scope, Len(v.stack)), v.stack) BY <1>2, <1>3, <2>1, CutMatch
  <2>5. Match(Cut(a.scope, Len(e.stack)), e.stack) BY <1>2, <1>3, <2>3, CutMatch
  <2>6. Match(Cut(a.imports, Len(e.imports)), e.imports) BY <1>2, <1>3, <2>1, CutMatch
  <2> QED BY <2>1, <2>2, <2>4, <2>5, <2>6
<1> QED BY <1>8, <1>9

\* The block runs once more: the blocks around its first statement, and what is restored.
LEMMA AgainFacts ==
  ASSUME NEW c, NEW q, Coded(c, q), NEW m \in 1..Len(c), NEW s, s = At(c, q, m),
         c[m].op = "close", NEW a \in RState, Fits(a), Follows(c, q, a, s),
         NEW L, L = Len(a.blocks), NEW b, b = a.blocks[L],
         NEW n, n = b.at, NEW e, e = At(c, q, n), NEW v, v = At(c, q, n + 1)
  PROVE  /\ L \in 0..Len(a.blocks) /\ b.scope \in 0..Len(a.scope)
         /\ b.imports \in 0..Len(a.imports) /\ Below(a, L, b.scope, b.imports)
         /\ Cut(a.blocks, L) = a.blocks /\ v \in PState /\ v.imports = e.imports /\ SameBlocks(a, v)
<1>1. /\ L \in Nat /\ L \in 1..L /\ n \in 1..Len(c)
      /\ b.outer \in Nat /\ b.scope \in Nat /\ b.imports \in Nat
      /\ b.outer <= b.scope /\ b.scope <= Len(a.scope) /\ b.imports <= Len(a.imports)
      /\ e \in PState /\ v \in PState /\ Nests(n, e, v)
      /\ Len(e.blocks) = L - 1 /\ e.blocks = Cut(s.blocks, L - 1)
  <2>1. L \in Nat /\ L \in 1..L /\ n \in 1..Len(c) BY SMTT(60), LeaveFacts
  <2>2. b.outer \in Nat /\ b.scope \in Nat /\ b.imports \in Nat BY LeaveFacts
  <2>3. b.outer <= b.scope /\ b.scope <= Len(a.scope) /\ b.imports <= Len(a.imports)
    BY SMTT(60), LeaveFacts
  <2>4. e \in PState /\ v \in PState /\ Nests(n, e, v) BY LeaveFacts
  <2>5. Outside(e, s, L) BY LeaveFacts
  <2> QED BY <2>1, <2>2, <2>3, <2>4, <2>5 DEF Outside
<1>2. /\ a.blocks \in Seq(Saved) /\ Len(a.scope) \in Nat /\ Len(a.imports) \in Nat BY RStateFacts
<1>3. SameBlocks(a, s) /\ s \in PState
  <2>1. c \in Seq(Stm) /\ q \in PState /\ m \in 1..(Len(c) + 1) BY LenProperties DEF Coded
  <2> QED BY <2>1, AtFacts DEF Follows
<1>4. L \in 0..Len(a.blocks) /\ b.scope \in 0..Len(a.scope) /\ b.imports \in 0..Len(a.imports)
  BY <1>1, <1>2
<1>5. Cut(a.blocks, L) = a.blocks BY <1>2, CutWhole
<1>6. ASSUME NEW k \in 1..L PROVE a.blocks[k].scope <= b.scope /\ a.blocks[k].imports <= b.imports
  <2>1. a.blocks[k].scope \in Nat /\ a.blocks[k].imports \in Nat BY SavedFacts
  <2>2. CASE k = L BY <2>1, <2>2
  <2>3. CASE k # L
    <3>1. L \in (k + 1)..L BY <1>1, <2>3
    <3>2. a.blocks[k].scope <= b.outer /\ a.blocks[k].imports <= b.imports BY <3>1 DEF Fits
    <3> QED BY SMTT(60), <1>1, <2>1, <3>2
  <2> QED BY <2>2, <2>3
<1>7. SameBlocks(a, v)
  <2>1. Len(v.blocks) = L /\ v.blocks[L].at = n /\ \A k \in 1..(L - 1) : v.blocks[k] = e.blocks[k]
    <3>1. (L - 1) + 1 = L BY <1>1
    <3> QED BY <1>1, <3>1 DEF Nests
  <2>2. ASSUME NEW k \in 1..(L - 1) PROVE e.blocks[k] = s.blocks[k]
    <3>1. s.blocks \in Seq(Block) /\ Len(s.blocks) = L BY <1>3, PStateFacts DEF SameBlocks
    <3>2. L - 1 \in 0..Len(s.blocks) BY <1>1, <3>1
    <3>3. \A i \in 1..(L - 1) : Cut(s.blocks, L - 1)[i] = s.blocks[i] BY <3>1, <3>2, CutFacts
    <3> QED BY <1>1, <3>3
  <2>3. ASSUME NEW k \in 1..L PROVE a.blocks[k].at = v.blocks[k].at
    <3>1. CASE k = L BY <2>1, <3>1
    <3>2. CASE k # L
      <4>1. k \in 1..(L - 1) BY <1>1, <3>2
      <4>2. a.blocks[k].at = s.blocks[k].at BY <1>3 DEF SameBlocks
      <4> QED BY <2>1, <2>2, <4>1, <4>2
    <3> QED BY <3>1, <3>2
  <2> QED BY <2>1, <2>3 DEF SameBlocks
<1>8. v.imports = e.imports BY <1>1 DEF Nests
<1>9. Below(a, L, b.scope, b.imports) BY <1>6 DEF Below
<1> QED BY <1>1, <1>4, <1>5, <1>7, <1>8, <1>9

LEMMA LeaveAgain ==
  ASSUME NEW c, NEW q, Coded(c, q), NEW m \in 1..Len(c), NEW s, s = At(c, q, m),
         c[m].op = "close", NEW a \in RState, Fits(a), Follows(c, q, a, s),
         NEW L, L = Len(a.blocks), NEW b, b = a.blocks[L], NEW v, v = At(c, q, b.at + 1)
  PROVE  \A u \in RState :
           /\ u.scope = Cut(a.scope, b.scope) /\ u.imports = Cut(a.imports, b.imports)
           /\ u.blocks = a.blocks /\ u.always_search_scope = b.always_search_scope
           => Fits(u) /\ Follows(c, q, u, v)
<1> DEFINE e == At(c, q, b.at)
<1>1. /\ L \in 0..Len(a.blocks) /\ b.scope \in 0..Len(a.scope)
      /\ b.imports \in 0..Len(a.imports) /\ Below(a, L, b.scope, b.imports)
      /\ Cut(a.blocks, L) = a.blocks /\ v \in PState /\ v.imports = e.imports /\ SameBlocks(a, v)
  BY AgainFacts
<1>2. ~ArmDefines(c) =>
        /\ Len(v.stack) <= b.scope
        /\ \A k \in 1..L : Surplus(c, q, a.blocks[k]) <= b.scope - Len(v.stack)
        /\ ~b.always_search_scope => /\ Match(Cut(a.scope, b.scope), v.stack)
                                     /\ Match(Cut(a.imports, b.imports), e.imports)
  BY RestoreFacts
<1>3. m \in 1..(Len(c) + 1) BY LenProperties DEF Coded
<1>4. ASSUME NEW K \in 0..Len(a.blocks), NEW X \in 0..Len(a.scope), NEW Y \in 0..Len(a.imports),
             Below(a, K, X, Y),
             NEW u \in RState, u.scope = Cut(a.scope, X), u.imports = Cut(a.imports, Y),
             u.blocks = Cut(a.blocks, K),
             SameBlocks(u, v), ~ArmDefines(c) => Regains(c, q, a, K, X, u, v)
      PROVE  Fits(u) /\ Follows(c, q, u, v)
  BY SMTT(60), <1>1, <1>3, <1>4, CutsBack
<1> HIDE DEF e
<1> SUFFICES ASSUME NEW u \in RState,
                    u.scope = Cut(a.scope, b.scope), u.imports = Cut(a.imports, b.imports),
                    u.blocks = a.blocks, u.always_search_scope = b.always_search_scope
             PROVE  Fits(u) /\ Follows(c, q, u, v)
  OBVIOUS
<1>5. ASSUME ~ArmDefines(c) PROVE Regains(c, q, a, L, b.scope, u, v)
  BY SMTT(60), <1>1, <1>2, <1>5 DEF Regains
<1>6. SameBlocks(u, v) BY ZenonT(60), <1>1 DEF SameBlocks
<1> QED BY ZenonT(60), <1>1, <1>4, <1>5, <1>6

\* t is in the blocks that a is in, but for the L-th.
Leaving(a, t, L) ==
  /\ Len(t.blocks) = L - 1 /\ Len(Cut(a.blocks, L - 1)) = L - 1
  /\ \A k \in 1..(L - 1) : Cut(a.blocks, L - 1)[k].at = t.blocks[k].at

\* The block is left: the blocks around the statement after it, and what is restored.
LEMMA OnFacts ==
  ASSUME NEW c, NEW q, Coded(c, q), NEW m \in 1..Len(c), NEW s, s = At(c, q, m),
         c[m].op = "close", NEW a \in RState, Fits(a), Follows(c, q, a, s),
         NEW L, L = Len(a.blocks), NEW b, b = a.blocks[L],
         NEW n, n = b.at, NEW e, e = At(c, q, n), NEW t, t = At(c, q, m + 1)
  PROVE  /\ L - 1 \in 0..Len(a.blocks) /\ b.scope \in 0..Len(a.scope) /\ b.outer \in 0..b.scope
         /\ b.outer \in 0..Len(a.scope)
         /\ b.imports \in 0..Len(a.imports) /\ Below(a, L - 1, b.outer, b.imports)
         /\ t \in PState /\ Leaving(a, t, L)
         /\ ~ArmDefines(c) => Match(e.stack, t.stack) /\ Match(e.imports, t.imports)
<1>1. /\ L \in Nat /\ L \in 1..L /\ n \in 1..Len(c)
      /\ b.outer \in Nat /\ b.scope \in Nat /\ b.imports \in Nat
      /\ b.outer <= b.scope /\ b.scope <= Len(a.scope) /\ b.imports <= Len(a.imports)
      /\ e \in PState /\ t \in PState
      /\ t.blocks = e.blocks /\ (~ArmDefines(c) => Alike(t, e))
      /\ Len(e.blocks) = L - 1 /\ e.blocks = Cut(s.blocks, L - 1)
  <2>1. L \in Nat /\ L \in 1..L /\ n \in 1..Len(c) BY LeaveFacts
  <2>2. b.outer \in Nat /\ b.scope \in Nat /\ b.imports \in Nat BY SMTT(60), LeaveFacts
  <2>3. b.outer <= b.scope /\ b.scope <= Len(a.scope) /\ b.imports <= Len(a.imports)
    BY SMTT(60), LeaveFacts
  <2>4. e \in PState /\ t \in PState /\ t.blocks = e.blocks BY LeaveFacts
  <2>5. ~ArmDefines(c) => Alike(t, e) BY LeaveFacts
  <2>6. Outside(e, s, L) BY LeaveFacts
  <2> QED BY <2>1, <2>2, <2>3, <2>4, <2>5, <2>6 DEF Outside
<1>2. /\ a.blocks \in Seq(Saved) /\ Len(a.scope) \in Nat /\ Len(a.imports) \in Nat BY RStateFacts
<1>3. SameBlocks(a, s) /\ s \in PState
  <2>1. c \in Seq(Stm) /\ q \in PState /\ m \in 1..(Len(c) + 1) BY LenProperties DEF Coded
  <2> QED BY <2>1, AtFacts DEF Follows
<1>4. /\ L - 1 \in 0..Len(a.blocks) /\ b.scope \in 0..Len(a.scope) /\ b.outer \in 0..b.scope
      /\ b.outer \in 0..Len(a.scope) /\ b.imports \in 0..Len(a.imports)
  BY SMTT(60), <1>1, <1>2
<1>5. Below(a, L - 1, b.outer, b.imports)
  <2>1. ASSUME NEW k \in 1..(L - 1)
        PROVE  a.blocks[k].scope <= b.outer /\ a.blocks[k].imports <= b.imports
    <3>1. L \in (k + 1)..L /\ k \in 1..L BY <1>1
    <3> QED BY <3>1 DEF Fits
  <2> QED BY <2>1 DEF Below
<1>6. Leaving(a, t, L)
  <2>1. s.blocks \in Seq(Block) /\ Len(s.blocks) = L BY <1>3, PStateFacts DEF SameBlocks
  <2>2. L - 1 \in 0..Len(s.blocks) BY <1>1, <2>1
  <2>3. Len(t.blocks) = L - 1 /\ \A k \in 1..(L - 1) : t.blocks[k] = s.blocks[k]
    <3>1. \A k \in 1..(L - 1) : Cut(s.blocks, L - 1)[k] = s.blocks[k] BY <2>1, <2>2, CutFacts
    <3> QED BY <1>1, <3>1
  <2>4. /\ Len(Cut(a.blocks, L - 1)) = L - 1
        /\ \A k \in 1..(L - 1) : Cut(a.blocks, L - 1)[k] = a.blocks[k]
    BY ZenonT(60), <1>2, <1>4, CutFacts
  <2>5. \A k \in 1..(L - 1) : a.blocks[k].at = s.blocks[k].at
    <3>1. \A k \in 1..(L - 1) : k \in 1..Len(a.blocks) BY <1>1
    <3> QED BY <1>3, <3>1 DEF SameBlocks
  <2> QED BY <2>3, <2>4, <2>5 DEF Leaving
<1>7. ASSUME ~ArmDefines(c) PROVE Match(e.stack, t.stack) /\ Match(e.imports, t.imports)
  <2>1. Match(t.stack, e.stack) /\ Match(t.imports, e.imports) BY <1>1, <1>7 DEF Alike
  <2> QED BY <1>1, <2>1, PStateFacts, MatchBegins
<1> QED BY <1>1, <1>4, <1>5, <1>6, <1>7

LEMMA LeaveOn ==
  ASSUME NEW c, NEW q, Coded(c, q), NEW m \in 1..Len(c), NEW s, s = At(c, q, m),
         c[m].op = "close", NEW a \in RState, Fits(a), Follows(c, q, a, s),
         NEW L, L = Len(a.blocks), NEW b, b = a.blocks[L], NEW t, t = At(c, q, m + 1)
  PROVE  \A u \in RState :
           /\ u.scope = Cut(Cut(a.scope, b.scope), b.outer) /\ u.imports = Cut(a.imports, b.imports)
           /\ u.blocks = Cut(a.blocks, L - 1) /\ u.always_search_scope = b.always_search_scope
           => Fits(u) /\ Follows(c, q, u, t)
<1> DEFINE e == At(c, q, b.at)
           B == Cut(a.blocks, L - 1)
<1>1. /\ L - 1 \in 0..Len(a.blocks) /\ b.scope \in 0..Len(a.scope) /\ b.outer \in 0..b.scope
      /\ b.outer \in 0..Len(a.scope)
      /\ b.imports \in 0..Len(a.imports) /\ Below(a, L - 1, b.outer, b.imports)
      /\ t \in PState /\ Len(t.blocks) = L - 1 /\ Len(B) = L - 1
      /\ \A k \in 1..(L - 1) : B[k].at = t.blocks[k].at
      /\ ~ArmDefines(c) => Match(e.stack, t.stack) /\ Match(e.imports, t.imports)
  <2>1. /\ L - 1 \in 0..Len(a.blocks) /\ b.scope \in 0..Len(a.scope) /\ b.outer \in 0..b.scope
        /\ b.outer \in 0..Len(a.scope) /\ b.imports \in 0..Len(a.imports)
    BY OnFacts
  <2>2. Below(a, L - 1, b.outer, b.imports) /\ t \in PState BY OnFacts
  <2>3. Leaving(a, t, L) BY OnFacts
  <2>4. ~ArmDefines(c) => Match(e.stack, t.stack) /\ Match(e.imports, t.imports) BY OnFacts
  <2> QED BY <2>1, <2>2, <2>3, <2>4 DEF Leaving
<1>2. ~ArmDefines(c) =>
        /\ Len(e.stack) <= b.outer
        /\ \A k \in 1..L : Surplus(c, q, a.blocks[k]) <= b.outer - Len(e.stack)
        /\ ~b.always_search_scope => /\ Match(Cut(a.scope, b.outer), e.stack)
                                     /\ Match(Cut(a.imports, b.imports), e.imports)
  BY ZenonT(60), RestoreFacts
<1>3. m \in 1..(Len(c) + 1) /\ a.scope \in Seq(Var) /\ t \in PState
  BY <1>1, LenProperties, RStateFacts DEF Coded
<1>4. Cut(Cut(a.scope, b.scope), b.outer) = Cut(a.scope, b.outer) BY <1>1, <1>3, CutCut
<1>5. ASSUME NEW K \in 0..Len(a.blocks), NEW X \in 0..Len(a.scope), NEW Y \in 0..Len(a.imports),
             Below(a, K, X, Y),
             NEW u \in RState, u.scope = Cut(a.scope, X), u.imports = Cut(a.imports, Y),
             u.blocks = Cut(a.blocks, K),
             SameBlocks(u, t), ~ArmDefines(c) => Regains(c, q, a, K, X, u, t)
      PROVE  Fits(u) /\ Follows(c, q, u, t)
  BY SMTT(60), <1>3, <1>5, CutsBack
<1>6. ASSUME NEW u \in RState, u.blocks = B PROVE SameBlocks(u, t)
  <2> HIDE DEF B
  <2> QED BY <1>1, <1>6 DEF SameBlocks
<1>7. ASSUME ~ArmDefines(c), NEW u \in RState, u.scope = Cut(a.scope, b.outer),
             u.imports = Cut(a.imports, b.imports), u.always_search_scope = b.always_search_scope
      PROVE  Regains(c, q, a, L - 1, b.outer, u, t)
  <2> HIDE DEF e
  <2>1. Len(t.stack) = Len(e.stack) /\ \A k \in 1..(L - 1) : k \in 1..L BY <1>1, <1>7 DEF Match
  <2>2. ~b.always_search_scope => Match(u.scope, t.stack) /\ Match(u.imports, t.imports)
    BY <1>1, <1>2, <1>7, MatchTrans
  <2> QED BY <1>2, <1>7, <2>1, <2>2 DEF Regains
<1> QED BY ZenonT(60), <1>1, <1>4, <1>5, <1>6, <1>7

LEMMA EnterStep ==
  ASSUME VInv, phase = "run", ip <= Len(code), Now.op \in Opens,
         NEW z, z = IF Now.name = NoName THEN r.scope ELSE Append(r.scope, Variable(Now.name)),
         Advance([r EXCEPT !.scope = z, !.blocks = Append(@, Entered(z))])
  PROVE  VInv'
<1> DEFINE s == At(code, p, ip)
           t == At(code, p, ip + 1)
           g == Entered(z)
<1>1. /\ Coded(code, p) /\ ip \in 1..Len(code) /\ ip \in Nat /\ ip + 1 \in 1..(Len(code) + 1)
      /\ s \in PState /\ t \in PState /\ Steps(Now, ip, s, t) /\ Now.name \in Names \cup {NoName}
      /\ r \in RState /\ Fits(r) /\ Follows(code, p, r, s) /\ ip \in 1..(2 * MaxCode)
  BY RunFacts
<1>2. /\ r.scope \in Seq(Var) /\ r.imports \in Seq(Imported) /\ r.blocks \in Seq(Saved)
      /\ r.always_search_scope \in BOOLEAN /\ Len(r.scope) \in Nat /\ Len(r.imports) \in Nat
  BY <1>1, RStateFacts
<1>3. Opening(Now, ip, s, t) BY <1>1 DEF Steps
<1>4. \/ t.stack = s.stack /\ z = r.scope
      \/ Grows(s.stack, Now.name, t.stack) /\ z = Append(r.scope, Variable(Now.name)) /\ Now.name \in Names
  <2>1. /\ IF Now.name = NoName \/ Now.op = "arm" THEN t.stack = s.stack
           ELSE Grows(s.stack, Now.name, t.stack)
        /\ Now.op = "arm" => Now.name = NoName
    BY <1>1, <1>3, OpeningFacts
  <2> QED BY <1>1, <2>1
<1>5. /\ z \in Seq(Var)
      /\ \/ t.stack = s.stack /\ z = r.scope
         \/ Grows(s.stack, Now.name, t.stack) /\ Grows(r.scope, Now.name, z)
  <2>1. CASE t.stack = s.stack /\ z = r.scope BY <1>2, <2>1
  <2>2. CASE /\ Grows(s.stack, Now.name, t.stack) /\ z = Append(r.scope, Variable(Now.name))
             /\ Now.name \in Names
    <3>1. Variable(Now.name) \in Var /\ Variable(Now.name).name = Now.name
      BY <1>1, <2>2 DEF Variable, Var
    <3>2. Append(r.scope, Variable(Now.name)) \in Seq(Var) BY <1>2, <3>1, AppendProperties
    <3>3. Grows(r.scope, Variable(Now.name).name, Append(r.scope, Variable(Now.name)))
      BY <1>2, <3>1, AppendGrows
    <3> QED BY <2>2, <3>1, <3>2, <3>3
  <2> QED BY <1>4, <2>1, <2>2
<1>6. Len(z) \in Nat BY <1>5, LenProperties
<1>7. /\ g \in Saved /\ g.at = ip /\ g.outer = Len(r.scope) /\ g.scope = Len(z)
      /\ g.imports = Len(r.imports) /\ g.always_search_scope = r.always_search_scope
  BY <1>1, <1>2, <1>6 DEF Entered, Saved
<1> HIDE DEF g
<1>8. /\ r' = [r EXCEPT !.scope = z, !.blocks = Append(@, g)]
      /\ ip' = ip + 1 /\ UNCHANGED <<phase, code, p>>
  BY DEF Advance, g
<1>9. /\ r'.scope = z /\ r'.blocks = Append(r.blocks, g) /\ r'.imports = r.imports
      /\ r'.always_search_scope = r.always_search_scope /\ r' \in RState
  <2>1. Append(r.blocks, g) \in Seq(Saved) BY <1>2, <1>7, AppendProperties
  <2> QED BY <1>1, <1>5, <1>8, <2>1 DEF RState
<1>10. Fits(r') /\ Follows(code, p, r', t)
  <2>1. code[ip] = Now BY DEF Now
  <2>2. Opening(code[ip], ip, s, t) BY <1>3, <2>1
  <2>3. \/ t.stack = s.stack /\ r'.scope = r.scope
        \/ Grows(s.stack, Now.name, t.stack) /\ Grows(r.scope, Now.name, r'.scope)
    BY <1>5, <1>9
  <2>4. g.scope = Len(r'.scope) BY <1>7, <1>9
  <2> QED BY <1>1, <1>7, <1>9, <2>2, <2>3, <2>4, Enters
<1> QED BY <1>1, <1>8, <1>9, <1>10, RunKeeps

\* The block is skipped: the parser is after its end as it was before it.
LEMMA SkipStep ==
  ASSUME VInv, phase = "run", ip <= Len(code), Now.op \in Opens,
         ip' = Now.to + 1, UNCHANGED <<phase, code, p, r>>
  PROVE  VInv'
<1> DEFINE s == At(code, p, ip)
           m == Now.to
           t == At(code, p, m + 1)
<1>1. /\ Coded(code, p) /\ code \in Seq(Stm) /\ p \in PState /\ Len(code) \in Nat /\ p.blocks = <<>>
      /\ ip \in 1..Len(code) /\ ip \in 1..(Len(code) + 1) /\ s \in PState
      /\ r \in RState /\ Fits(r) /\ Follows(code, p, r, s)
  BY RunFacts
<1>2. m \in (ip + 1)..Len(code) /\ code[m].op = "close" /\ Inner(code[m].seen).at = ip
  <2>1. Len(p.blocks) = 0 BY <1>1
  <2>2. ~\E k \in 1..Len(p.blocks) : p.blocks[k].at = ip BY <2>1
  <2>3. Linked(code, p) BY <1>1 DEF Coded
  <2> QED BY <1>1, <2>2, <2>3 DEF Linked, Now
<1>3. m \in 1..Len(code) /\ m \in 1..(Len(code) + 1) /\ m + 1 \in 1..(Len(code) + 1) BY <1>1, <1>2
<1> DEFINE w == At(code, p, m)
<1>4. w = code[m].seen /\ t \in PState BY <1>1, <1>3, AtFacts
<1>5. Closing(w, t) BY <1>1, <1>2, <1>3 DEF Coded, Steps
<1>6. t.blocks = s.blocks /\ (~ArmDefines(code) => Alike(t, s))
  <2>1. ASSUME NEW n, n = Inner(w).at
        PROVE  t.blocks = At(code, p, n).blocks /\ (~ArmDefines(code) => Alike(t, At(code, p, n)))
    BY <1>1, <1>3, <1>5, <2>1, ClosesFacts
  <2>2. Inner(w).at = ip BY <1>2, <1>4
  <2> QED BY <2>1, <2>2
<1>7. Begins(r.scope, r.scope) /\ Begins(r.imports, r.imports) BY <1>1, RStateFacts, BeginsSelf
<1>8. ASSUME ~ArmDefines(code)
      PROVE  /\ Len(r.scope) - Len(s.stack) <= Len(r.scope) - Len(t.stack)
             /\ Match(r.scope, s.stack) => Match(r.scope, t.stack)
             /\ Match(r.imports, s.imports) => Match(r.imports, t.imports)
  <2>1. Match(t.stack, s.stack) /\ Match(t.imports, s.imports) BY <1>6, <1>8 DEF Alike
  <2>2. Match(s.stack, t.stack) /\ Match(s.imports, t.imports) BY <1>4, <2>1, PStateFacts, MatchBegins
  <2>3. Len(s.stack) = Len(t.stack) BY <2>2 DEF Match
  <2>4. Len(r.scope) \in Nat /\ Len(s.stack) \in Nat BY <1>1, RStateFacts, PStateFacts
  <2>5. Len(r.scope) - Len(s.stack) <= Len(r.scope) - Len(t.stack) BY <2>3, <2>4
  <2> QED BY <2>2, <2>5, MatchTrans
<1>9. Fits(r) /\ Follows(code, p, r, t) BY <1>1, <1>4, <1>6, <1>7, <1>8, FollowOn
<1>10. r' \in RState /\ Fits(r') /\ Follows(code, p, r', At(code, p, ip')) /\ ip' \in 1..(Len(code) + 1)
  BY <1>1, <1>3, <1>9
<1> QED BY <1>10, RunKeeps

LEMMA EnterBlockStep == ASSUME VInv, eval_stmt_block PROVE VInv'
<1>1. phase = "run" /\ ip <= Len(code) /\ Now.op \in Opens BY DEF eval_stmt_block, Running, Now, Opens
<1> DEFINE z == IF Now.name = NoName THEN r.scope ELSE Append(r.scope, Variable(Now.name))
<1>2. CASE Advance([r EXCEPT !.scope = z, !.blocks = Append(@, Entered(z))]) BY <1>1, <1>2, EnterStep
<1>3. CASE ip' = Now.to + 1 /\ UNCHANGED <<phase, code, p, r>> BY <1>1, <1>3, SkipStep
<1> QED BY <1>2, <1>3 DEF eval_stmt_block

LEMMA LeaveStep == ASSUME VInv, leave_block PROVE VInv'
<1> DEFINE L == Len(r.blocks)
           b == r.blocks[L]
           s == At(code, p, ip)
           v == At(code, p, b.at + 1)
           t == At(code, p, ip + 1)
           S == Cut(r.scope, b.scope)
           I == Cut(r.imports, b.imports)
<1>1. phase = "run" /\ ip <= Len(code) /\ Now.op = "close" BY DEF leave_block, Running, Now
<1>2. /\ Coded(code, p) /\ ip \in 1..Len(code) /\ ip + 1 \in 1..(Len(code) + 1)
      /\ Len(code) \in Nat /\ r \in RState /\ Fits(r) /\ Follows(code, p, r, s)
  BY <1>1, RunFacts
<1>3. code[ip].op = "close" BY <1>1 DEF Now
<1>4. b \in Saved /\ b.at \in 1..Len(code) BY <1>2, <1>3, LeaveFacts
<1>5. /\ L - 1 \in 0..Len(r.blocks) /\ b.scope \in 0..Len(r.scope) /\ b.outer \in 0..b.scope
      /\ b.imports \in 0..Len(r.imports)
  BY <1>2, <1>3, OnFacts
<1>6. /\ r.scope \in Seq(Var) /\ r.imports \in Seq(Imported) /\ r.blocks \in Seq(Saved)
  BY <1>2, RStateFacts
<1>7. S \in Seq(Var) /\ Len(S) = b.scope /\ I \in Seq(Imported)
  <2>1. ASSUME NEW T, NEW x \in Seq(T), NEW n \in 0..Len(x)
        PROVE  Cut(x, n) \in Seq(T) /\ Len(Cut(x, n)) = n
    BY <2>1, CutFacts
  <2> QED BY ZenonT(60), <1>5, <1>6, <2>1
<1>8. Cut(S, b.outer) \in Seq(Var)
  <2> HIDE DEF S
  <2> QED BY <1>5, <1>7, CutFacts
<1>9. Cut(r.blocks, L - 1) \in Seq(Saved) BY <1>5, <1>6, CutFacts
<1>10. Restored(b) = [r EXCEPT !.scope = S, !.imports = I,
                               !.always_search_scope = b.always_search_scope]
  BY DEF Restored
<1>11. b.always_search_scope \in BOOLEAN BY <1>4 DEF Saved
<1>12. CASE ip' = b.at + 1 /\ r' = Restored(b) /\ UNCHANGED <<phase, code, p>>
  <2>1. /\ r'.scope = S /\ r'.imports = I /\ r'.blocks = r.blocks /\ r' \in RState
        /\ r'.always_search_scope = b.always_search_scope
    <3> HIDE DEF S, I, b
    <3> QED BY <1>2, <1>7, <1>10, <1>11, <1>12 DEF RState
  <2>2. Fits(r') /\ Follows(code, p, r', v)
    <3>1. \A u \in RState :
            /\ u.scope = S /\ u.imports = I
            /\ u.blocks = r.blocks /\ u.always_search_scope = b.always_search_scope
            => Fits(u) /\ Follows(code, p, u, v)
      BY <1>2, <1>3, LeaveAgain
    <3> HIDE DEF S, I, b, v
    <3> QED BY <2>1, <3>1
  <2>3. ip' \in 1..(Len(code) + 1) BY SMTT(60), <1>2, <1>4, <1>12
  <2> QED BY <1>1, <1>12, <2>1, <2>2, <2>3, RunKeeps
<1>13. CASE Advance([Restored(b) EXCEPT !.scope = Cut(@, b.outer), !.blocks = Cut(@, Len(@) - 1)])
  <2>1. /\ ip' = ip + 1 /\ UNCHANGED <<phase, code, p>>
        /\ r' = [Restored(b) EXCEPT !.scope = Cut(@, b.outer), !.blocks = Cut(@, Len(@) - 1)]
    BY <1>13 DEF Advance
  <2>2. /\ r'.scope = Cut(S, b.outer) /\ r'.imports = I /\ r'.blocks = Cut(r.blocks, L - 1)
        /\ r' \in RState /\ r'.always_search_scope = b.always_search_scope
    <3> HIDE DEF S, I, b
    <3> QED BY <1>2, <1>7, <1>8, <1>9, <1>10, <1>11, <2>1 DEF RState
  <2>3. Fits(r') /\ Follows(code, p, r', t)
    <3>1. \A u \in RState :
            /\ u.scope = Cut(S, b.outer) /\ u.imports = I
            /\ u.blocks = Cut(r.blocks, L - 1) /\ u.always_search_scope = b.always_search_scope
            => Fits(u) /\ Follows(code, p, u, t)
      BY ZenonT(60), <1>2, <1>3, LeaveOn
    <3> HIDE DEF S, I, b, t
    <3> QED BY <2>2, <3>1
  <2> QED BY <1>1, <1>2, <2>1, <2>2, <2>3, RunKeeps
<1> QED BY <1>12, <1>13 DEF leave_block

-----------------------------------------------------------------------------
\* The invariant.

LEMMA InitHolds == Init => VInv
<1> SUFFICES ASSUME Init PROVE VInv OBVIOUS
<1>1. /\ phase = "parse" /\ code = <<>> /\ ip = 1
      /\ p = [stack |-> <<>>, imports |-> <<>>, frame_pointer |-> 0, blocks |-> <<>>]
      /\ r = [scope |-> <<>>, imports |-> <<>>, blocks |-> <<>>, always_search_scope |-> FALSE]
  BY DEF Init
<1>2. /\ p.stack = <<>> /\ p.imports = <<>> /\ p.frame_pointer = 0 /\ p.blocks = <<>>
      /\ r.scope = <<>> /\ r.imports = <<>> /\ r.blocks = <<>> /\ ~r.always_search_scope
  BY <1>1
<1>3. code \in Seq(Stm) /\ Len(code) = 0 /\ Len(p.blocks) = 0 /\ Len(p.stack) = 0 /\ Len(r.blocks) = 0
  BY <1>1, <1>2
<1>4. p \in PState /\ r \in RState
  <2>1. <<>> \in Seq(Entry) /\ <<>> \in Seq(Import) /\ <<>> \in Seq(Block) OBVIOUS
  <2>2. <<>> \in Seq(Var) /\ <<>> \in Seq(Imported) /\ <<>> \in Seq(Saved) OBVIOUS
  <2>3. p \in PState BY <1>1, <2>1 DEF PState
  <2>4. r \in RState BY <1>1, <2>2 DEF RState
  <2> QED BY <2>3, <2>4
<1>5. \A i : At(code, p, i) \in {p, code[i].seen} /\ At(code, p, 1) = p BY <1>3 DEF At
<1>6. \A i \in 1..(Len(code) + 1) : i = 1 BY <1>3
<1>7. Coded(code, p)
  <2>1. Len(code) + Len(p.blocks) <= 2 * MaxCode /\ Len(p.blocks) <= Len(code)
    <3>1. Len(code) + Len(p.blocks) = 0 /\ Len(p.blocks) <= Len(code) BY <1>3
    <3>2. MaxCode \in Nat BY VarAssumption
    <3>3. 0 <= 2 * MaxCode BY <3>2
    <3> QED BY <3>1, <3>3
  <2>2. \A i \in 1..Len(code) : FALSE BY <1>3
  <2>3. Around(code, p, 1) /\ Pointed(code, p, 1) /\ InArm(code, p, 1)
    BY <1>2, <1>3, <1>5 DEF Around, Pointed, InArm
  <2>4. Linked(code, p) BY <1>3, <2>2 DEF Linked
  <2> QED BY <1>2, <1>3, <1>4, <1>5, <1>6, <2>1, <2>2, <2>3, <2>4 DEF Coded
<1>8. Fits(r) BY <1>3 DEF Fits
<1>9. ip \in 1..(Len(code) + 1) BY <1>1, <1>3
<1> QED BY <1>1, <1>2, <1>4, <1>7, <1>8, <1>9 DEF VInv

LEMMA SameKeeps == ASSUME VInv, UNCHANGED vars PROVE VInv'
<1>1. UNCHANGED <<code, p>> /\ r' = r /\ ip' = ip /\ phase' = phase BY DEF vars
<1>2. Coded(code, p)' BY <1>1, CodedAgain DEF VInv
<1>3. Fits(r)' /\ (ArmDefines(code)' <=> ArmDefines(code)) BY ZenonT(60), <1>1 DEF VInv, Fits, ArmDefines
<1>4. ASSUME phase' = "run" PROVE Follows(code, p, r, At(code, p, ip))'
  <2>1. Follows(code', p', r', At(code', p', ip')) BY <1>1, <1>4 DEF VInv
  <2> QED BY <2>1 DEF Follows, SameBlocks, Mirrored, Mirrors, Surplus, At, ArmDefines, Match, Begins
<1>5. r' \in RState /\ ip' \in 1..(Len(code') + 1) BY <1>1 DEF VInv
<1>6. /\ phase' \in {"parse", "run", "end", "error", "panic"}
      /\ phase' = "parse" => /\ ip' = 1 /\ r'.scope = <<>> /\ r'.imports = <<>> /\ r'.blocks = <<>>
                             /\ ~r'.always_search_scope
      /\ phase' # "parse" => p'.blocks = <<>>
  BY <1>1 DEF VInv
<1>7. ~ArmDefines(code)' => phase' # "panic" BY <1>1, <1>3 DEF VInv
<1> QED BY <1>2, <1>3, <1>4, <1>5, <1>6, <1>7 DEF VInv

LEMMA ParseAllKeeps == ASSUME VInv, Parse PROVE VInv'
<1>1. CASE \E n \in Names, e \in BOOLEAN : parse_let(n, e) BY <1>1, LetStep
<1>2. CASE \E n \in Names : parse_export(n) \/ parse_import(n) \/ parse_namespace(n)
  BY <1>2, ExportStep, ParseImportStep, NamespaceStep
<1>3. CASE \E n \in Names, op \in {"var", "share"} : access_var(op, n) BY <1>3, AccessStep
<1>4. CASE \E n \in Names, op \in {"eval let", "eval import"} : parse_eval(op, n) BY <1>4, ParseEvalStep
<1>5. CASE \E n \in Names \cup {NoName} : parse_block(n) BY <1>5, BlockStep
<1>6. CASE parse_arm \/ parse_close \/ parse_end BY <1>6, ArmStep, CloseStep, StartStep
<1> QED BY <1>1, <1>2, <1>3, <1>4, <1>5, <1>6 DEF Parse

LEMMA RunAllKeeps == ASSUME VInv, Run PROVE VInv'
<1>1. CASE Stmt_Var \/ Stmt_Var_exported \/ Stmt_Export BY <1>1, VarStep, VarExportedStep, RunExportStep
<1>2. CASE search_scope_only \/ Stmt_Share \/ search_imports BY <1>2, SearchStep, ShareStep, ModuleStep
<1>3. CASE Stmt_Import \/ eval BY <1>3, RunImportStep, EvalStep
<1>4. CASE eval_stmt_block \/ leave_block BY <1>4, EnterBlockStep, LeaveStep
<1>5. CASE end
  <2>1. phase = "run" /\ Stop("end") BY <1>5 DEF end
  <2> QED BY <2>1, StopKeeps
<1> QED BY <1>1, <1>2, <1>3, <1>4, <1>5 DEF Run

LEMMA NextKeeps == ASSUME VInv, [Next]_vars PROVE VInv'
<1>1. CASE Parse BY <1>1, ParseAllKeeps
<1>2. CASE Run BY <1>2, RunAllKeeps
<1>3. CASE Finished \/ UNCHANGED vars BY <1>3, SameKeeps DEF Finished
<1> QED BY <1>1, <1>2, <1>3 DEF Next

-----------------------------------------------------------------------------
\* What it says of a state.

LEMMA InvTypes == ASSUME VInv PROVE TypeOK
<1>1. /\ phase \in {"parse", "run", "end", "error", "panic"} /\ r \in RState
      /\ ip \in 1..(Len(code) + 1) /\ Coded(code, p) /\ Fits(r)
  BY DEF VInv
<1>2. code \in Seq(Stm) /\ p \in PState /\ Len(code) \in Nat BY <1>1, LenProperties DEF Coded
<1>3. /\ p.stack \in Seq(Entry) /\ p.imports \in Seq(Import) /\ p.frame_pointer \in Nat
      /\ Len(p.stack) \in Nat
  BY <1>2, PStateFacts
<1>4. /\ r.scope \in Seq(Var) /\ r.imports \in Seq(Imported) /\ r.always_search_scope \in BOOLEAN
      /\ Len(r.scope) \in Nat
  BY <1>1, RStateFacts
<1>5. \A i \in 1..Len(p.stack) : p.stack[i] \in Entry BY <1>3, ElementOfSeq
<1>6. \A i \in 1..Len(p.imports) : p.imports[i] \in Import BY <1>3, ElementOfSeq
<1>7. \A i \in 1..Len(r.scope) : r.scope[i] \in Var BY <1>4, ElementOfSeq
<1>8. \A i \in 1..Len(r.imports) : r.imports[i] \in Imported BY <1>4, ElementOfSeq
<1>9. p.frame_pointer \in 0..Len(p.stack)
  <2>1. Len(code) + 1 \in 1..(Len(code) + 1) BY <1>2
  <2>2. At(code, p, Len(code) + 1) = p /\ Around(code, p, Len(code) + 1)
    BY <1>1, <1>2, <2>1, AtFacts DEF Coded
  <2>3. p.frame_pointer <= Len(p.stack) BY <2>2 DEF Around
  <2> QED BY <1>3, <2>3
<1>10. ASSUME NEW i \in 1..Len(r.blocks) PROVE r.blocks[i].outer \in 0..Len(r.scope)
  <2>1. r.blocks[i].outer \in Nat /\ r.blocks[i].scope \in Nat BY <1>1, SavedFacts
  <2>2. r.blocks[i].outer <= r.blocks[i].scope /\ r.blocks[i].scope <= Len(r.scope) BY <1>1 DEF Fits
  <2> QED BY <1>4, <2>1, <2>2
<1> QED BY <1>1, <1>4, <1>5, <1>6, <1>7, <1>8, <1>9, <1>10 DEF TypeOK

LEMMA SameArms == DefinesInArm <=> ArmDefines(code)
BY DEF DefinesInArm, ArmDefines

LEMMA InvResolves == ASSUME VInv PROVE NamesResolve
<1>1. TypeOK BY InvTypes
<1>2. AlignedWithParser
  <2>1. ASSUME ~ArmDefines(code), phase = "run", ip <= Len(code), ~r.always_search_scope
        PROVE  NamesOf(r.scope) = NamesOf(Now.seen.stack) /\ NamesOf(r.imports) = NamesOf(Now.seen.imports)
    <3>1. At(code, p, ip) = Now.seen /\ Follows(code, p, r, At(code, p, ip)) BY <2>1, RunFacts
    <3>2. Match(r.scope, Now.seen.stack) /\ Match(r.imports, Now.seen.imports)
      BY <2>1, <3>1 DEF Follows, Mirrored
    <3> QED BY <3>2, MatchNames
  <2> QED BY <2>1, SameArms DEF AlignedWithParser, MirrorsScope
<1>3. AccessIsRight
  <2>1. ASSUME ~ArmDefines(code), phase = "run", ip <= Len(code), Now.op = "var"
        PROVE  Resolved(r.scope, Now) = Find(r.scope, Now.name)
    <3>1. CASE r.always_search_scope \/ Now.offset = 0 BY <3>1 DEF Resolved
    <3>2. CASE ~r.always_search_scope /\ Now.offset # 0
      <4>1. Slot(r.scope, Now.offset) = Find(r.scope, Now.name) BY <2>1, <3>2, AccessFacts
      <4> QED BY <3>2, <4>1 DEF Resolved
    <3> QED BY <3>1, <3>2
  <2> QED BY <2>1, SameArms DEF AccessIsRight, Running, Now
<1>4. ShareIsRight
  <2>1. ASSUME ~ArmDefines(code), phase = "run", ip <= Len(code), Now.op = "share",
               ~r.always_search_scope
        PROVE  Shared(r.scope, Now) = Find(r.scope, Now.name)
    <3>1. CASE Now.offset = 0 BY <3>1 DEF Shared
    <3>2. CASE Now.offset # 0
      <4>1. Slot(r.scope, Now.offset) = Find(r.scope, Now.name) BY <2>1, <3>2, AccessFacts
      <4> QED BY <3>2, <4>1 DEF Shared
    <3> QED BY <3>1, <3>2
  <2> QED BY <2>1, SameArms DEF ShareIsRight, Running, Now
<1>5. NamespaceIsNamed
  <2> DEFINE i == Resolved(r.imports, Now)
  <2>1. ASSUME ~ArmDefines(code), phase = "run", ip <= Len(code), Now.op = "mod", i # 0
        PROVE  i \in 1..Len(r.imports) /\ r.imports[i].name = Now.name
    <3>1. CASE r.always_search_scope \/ Now.offset = 0
      <4>1. i = Find(r.imports, Now.name) BY <3>1 DEF Resolved
      <4>2. Len(r.imports) \in Nat BY RStateFacts DEF VInv
      <4>3. IsLast(r.imports, Now.name, Find(r.imports, Now.name)) BY <4>2, FindIsLast
      <4> HIDE DEF i
      <4>4. i \in 0..Len(r.imports) /\ (i > 0 => r.imports[i].name = Now.name) BY <4>1, <4>3 DEF IsLast
      <4> QED BY <2>1, <4>2, <4>4
    <3>2. CASE ~r.always_search_scope /\ Now.offset # 0
      <4>1. i = Slot(r.imports, Now.offset) BY <3>2 DEF Resolved
      <4> HIDE DEF i
      <4> QED BY <2>1, <3>2, <4>1, ModuleFacts
    <3> QED BY <3>1, <3>2
  <2> QED BY <2>1, SameArms DEF NamespaceIsNamed, Running, Now
<1>6. NoPanic BY SameArms DEF VInv, NoPanic
<1> QED BY <1>1, <1>2, <1>3, <1>4, <1>5, <1>6 DEF NamesResolve

-----------------------------------------------------------------------------
\* What it says of a step.

\* z is the scope s after the definition at hand.
Defines(s, z) ==
  /\ z \in Seq(Var)
  /\ Now.offset = 0 => /\ Grows(s, Now.name, z) /\ z[Len(z)].def = ip
                       /\ \A n \in 0..Len(s) : Cut(z, n) = Cut(s, n)
  /\ Now.offset # 0 => /\ Match(s, z) /\ z[Slot(s, Now.offset)].def = ip
                       /\ \A n \in 0..(Slot(s, Now.offset) - 1) : Cut(z, n) = Cut(s, n)

LEMMA DefiningStep ==
  ASSUME VInv, Next, Defining
  PROVE  /\ phase = "run" /\ ip <= Len(code) /\ Now.op \in Lets /\ ~ArmDefines(code)
         /\ Defines(r.scope, r'.scope)
<1>1. phase = "run" /\ ip' = ip + 1 /\ Now.op \in Lets /\ ~ArmDefines(code)
  BY SameArms DEF Defining, Lets
<1>2. ip \in Nat
  <2>1. Len(code) \in Nat BY LenProperties DEF VInv, Coded
  <2> QED BY <2>1 DEF VInv
<1>3. ip' # ip BY <1>1, <1>2
<1>4. ~Parse
  BY <1>1 DEF Parse, parse_let, parse_export, parse_import, parse_namespace, access_var, parse_eval,
              parse_block, parse_arm, parse_close, parse_end, Parsing
<1>5. ~Finished /\ ~end BY <1>3 DEF Finished, vars, end, Stop
<1>6. Now.op \in {"let", "export let"} BY <1>1 DEF Lets
<1>7. Stmt_Var \/ Stmt_Var_exported
  <2>1. ~Stmt_Export /\ ~search_scope_only /\ ~Stmt_Share
    BY <1>6 DEF Stmt_Export, search_scope_only, Stmt_Share, Running, Now
  <2>2. ~Stmt_Import /\ ~search_imports /\ ~eval
    BY <1>6 DEF Stmt_Import, search_imports, eval, Running, Now
  <2>3. ~eval_stmt_block /\ ~leave_block BY <1>6 DEF eval_stmt_block, leave_block, Running, Now
  <2> QED BY <1>4, <1>5, <2>1, <2>2, <2>3 DEF Next, Run
<1>8. ip <= Len(code) BY <1>7 DEF Stmt_Var, Stmt_Var_exported, Running
<1>9. /\ Now.name \in Names /\ Now.offset \in Nat /\ r \in RState /\ ip \in 1..(2 * MaxCode)
      /\ Slot(r.scope, Now.offset) >= 1
  BY <1>1, <1>8, LetFacts
<1>10. r.scope \in Seq(Var) /\ Len(r.scope) \in Nat BY <1>9, RStateFacts
<1> DEFINE s == Stored(r.scope)
<1>11. /\ s \in Seq(Var) /\ Len(s) \in Nat /\ Len(s) \in 1..Len(s)
       /\ Now.offset = 0 => /\ Grows(r.scope, Now.name, s) /\ s[Len(s)].def = ip
                            /\ \A n \in 0..Len(r.scope) : Cut(s, n) = Cut(r.scope, n)
       /\ Now.offset # 0 => /\ Match(r.scope, s) /\ s[Slot(r.scope, Now.offset)].def = ip
                            /\ \A n \in 0..(Slot(r.scope, Now.offset) - 1) :
                                 Cut(s, n) = Cut(r.scope, n)
  BY <1>9, <1>10, StoredFacts
<1>12. CASE Stmt_Var
  <2>1. r' = [r EXCEPT !.scope = s]
    <3>1. ~Stop("panic") BY <1>3 DEF Stop
    <3> QED BY <1>12, <3>1 DEF Stmt_Var, Advance
  <2> HIDE DEF s
  <2>2. r'.scope = s BY <1>9, <1>11, <2>1, WithScope
  <2> QED BY <1>1, <1>8, <1>11, <2>2 DEF Defines
<1>13. CASE Stmt_Var_exported
  <2> DEFINE z == [s EXCEPT ![Len(s)].alias = @ \cup {Now.name}]
  <2>1. r' = [r EXCEPT !.scope = z]
    <3>1. ~Stop("panic") BY <1>3 DEF Stop
    <3> QED BY <1>13, <3>1 DEF Stmt_Var_exported, Advance
  <2> HIDE DEF s
  <2>2. /\ z \in Seq(Var) /\ Match(s, z) /\ Len(z) = Len(s)
        /\ \A j \in 1..Len(s) : z[j].def = s[j].def
        /\ \A m \in 0..(Len(s) - 1) : Cut(z, m) = Cut(s, m)
    <3>1. s \in Seq(Var) /\ Len(s) \in 1..Len(s) /\ Now.name \in Names BY <1>9, <1>11
    <3>2. z \in Seq(Var) /\ Match(s, z) /\ Len(z) = Len(s) BY ZenonT(60), <3>1, AliasFacts
    <3>3. \A j \in 1..Len(s) : z[j].def = s[j].def BY <3>1, AliasFacts
    <3>4. \A m \in 0..(Len(s) - 1) : Cut(z, m) = Cut(s, m)
      <4>1. \A j \in 1..(Len(s) - 1) : z[j] = s[j] BY <3>1
      <4> HIDE DEF z
      <4>2. ASSUME NEW m \in 0..(Len(s) - 1) PROVE Cut(z, m) = Cut(s, m)
        <5>1. m \in 0..Len(s) /\ m \in 0..Len(z) /\ \A j \in 1..m : j \in 1..(Len(s) - 1) BY <3>1, <3>2
        <5> QED BY <3>1, <3>2, <4>1, <5>1, CutSame
      <4> QED BY <4>2
    <3> QED BY <3>2, <3>3, <3>4
  <2> HIDE DEF z
  <2>3. r'.scope = z BY <1>9, <2>1, <2>2, WithScope
  <2>4. CASE Now.offset = 0
    <3>1. Grows(r.scope, Now.name, z) /\ z[Len(z)].def = ip BY <1>10, <1>11, <2>2, <2>4, MatchGrows
    <3>2. Len(s) = Len(r.scope) + 1 BY <1>11, <2>4 DEF Grows
    <3>3. ASSUME NEW n \in 0..Len(r.scope) PROVE Cut(z, n) = Cut(r.scope, n)
      <4>1. n \in 0..(Len(s) - 1) BY <1>10, <3>2
      <4> QED BY <1>11, <2>2, <2>4, <4>1
    <3> QED BY <1>1, <1>8, <2>2, <2>3, <2>4, <3>1, <3>3 DEF Defines
  <2>5. CASE Now.offset # 0
    <3> DEFINE k == Slot(r.scope, Now.offset)
    <3>1. Len(s) = Len(r.scope) BY <1>11, <2>5 DEF Match
    <3>2. k \in 1..Len(s) BY <1>9, <1>10, <2>5, <3>1 DEF Slot
    <3>3. Match(r.scope, z) BY <1>11, <2>2, <2>5, MatchTrans
    <3>4. s[k].def = ip /\ \A n \in 0..(k - 1) : Cut(s, n) = Cut(r.scope, n) BY <1>11, <2>5
    <3> HIDE DEF k
    <3>5. \A n \in 0..(k - 1) : n \in 0..(Len(s) - 1) BY <1>11, <3>2
    <3>6. z[k].def = ip /\ \A n \in 0..(k - 1) : Cut(z, n) = Cut(r.scope, n) BY <2>2, <3>2, <3>4, <3>5
    <3> QED BY <1>1, <1>8, <2>2, <2>3, <2>5, <3>3, <3>6 DEF Defines, k
  <2> QED BY <1>1, <1>8, <2>3, <2>4, <2>5
<1> QED BY <1>7, <1>12, <1>13

LEMMA FoundStep ==
  ASSUME VInv, Next, Defining, ~r.always_search_scope
  PROVE  r'.scope[Find(r'.scope, Now.name)].def = ip
<1> DEFINE z == r'.scope
           s == At(code, p, ip)
           t == At(code, p, ip + 1)
<1>1. /\ phase = "run" /\ ip <= Len(code) /\ Now.op \in Lets /\ ~ArmDefines(code)
      /\ Defines(r.scope, z)
  BY DefiningStep
<1> HIDE DEF z
<1>2. /\ Let(Now, ip, s, t) /\ Now.name \in Names /\ Now.offset \in Nat
      /\ s \in PState /\ r \in RState
  BY <1>1, LetFacts
<1>3. Follows(code, p, r, s) BY <1>1, RunFacts
<1> HIDE DEF s, t
<1>4. Match(r.scope, s.stack) BY <1>1, <1>3 DEF Follows, Mirrored
<1>5. Len(r.scope) \in Nat /\ Len(s.stack) \in Nat /\ Len(z) \in Nat
  BY <1>1, <1>2, RStateFacts, PStateFacts, LenProperties DEF Defines
<1>6. CASE Now.offset = 0
  <2>1. Grows(r.scope, Now.name, z) /\ z[Len(z)].def = ip BY <1>1, <1>6 DEF Defines
  <2>2. Len(z) = Len(r.scope) + 1 /\ z[Len(z)].name = Now.name BY <2>1 DEF Grows
  <2>3. IsLast(z, Now.name, Len(z)) BY <1>5, <2>2 DEF IsLast
  <2>4. Find(z, Now.name) = Len(z) BY <1>5, <2>3, FindIsLast, LastIsUnique
  <2> QED BY <2>1, <2>4 DEF z
<1>7. CASE Now.offset # 0
  <2>1. Match(r.scope, z) /\ z[Slot(r.scope, Now.offset)].def = ip BY <1>1, <1>7 DEF Defines
  <2>2. Slot(s.stack, Now.offset) = Find(s.stack, Now.name) BY <1>2, <1>7 DEF Let
  <2>3. Slot(r.scope, Now.offset) = Slot(s.stack, Now.offset) BY <1>4 DEF Match, Slot
  <2>4. Find(z, Now.name) = Find(r.scope, Now.name) /\ Find(r.scope, Now.name) = Find(s.stack, Now.name)
    BY <1>4, <1>5, <2>1, FindMatch
  <2> QED BY <2>1, <2>2, <2>3, <2>4 DEF z
<1> QED BY <1>2, <1>6, <1>7

\* What is defined anew is in the innermost block.
LEMMA SlotIsInside ==
  ASSUME VInv, phase = "run", ip <= Len(code), Now.op \in Lets, ~ArmDefines(code),
         r.blocks # <<>>, NEW b, b = r.blocks[Len(r.blocks)]
  PROVE  /\ b.scope \in 0..Len(r.scope)
         /\ Now.offset # 0 => b.scope \in 0..(Slot(r.scope, Now.offset) - 1)
<1> DEFINE s == At(code, p, ip)
           t == At(code, p, ip + 1)
           L == Len(r.blocks)
           e == At(code, p, b.at)
           v == At(code, p, b.at + 1)
           A == Len(r.scope)
           S == Len(s.stack)
           F == s.frame_pointer
           V == Len(v.stack)
           E == Len(e.stack)
           B == b.scope
           O == b.outer
<1>1. /\ Let(Now, ip, s, t) /\ Now.name \in Names /\ Now.offset \in Nat
      /\ s \in PState /\ r \in RState
  BY LetFacts
<1>2. /\ Coded(code, p) /\ ip \in 1..Len(code) /\ ip \in 1..(Len(code) + 1) /\ Len(code) \in Nat
      /\ Fits(r) /\ Follows(code, p, r, s)
  BY RunFacts
<1>3. r.blocks \in Seq(Saved) /\ A \in Nat /\ L \in Nat /\ S \in Nat /\ F \in Nat
  BY <1>1, RStateFacts, PStateFacts
<1>4. SameBlocks(r, s) /\ Mirrored(code, p, r, s) BY <1>2 DEF Follows
<1>5. L \in 1..L
  <2>1. L # 0 BY <1>3, EmptySeq
  <2> HIDE DEF L
  <2> QED BY <1>3, <2>1
<1>6. B \in Nat /\ O \in Nat /\ B <= A
  <2>1. ASSUME NEW k \in 1..L
        PROVE  r.blocks[k].scope \in Nat /\ r.blocks[k].outer \in Nat /\ r.blocks[k].scope <= A
    BY <1>1, <1>2, SavedFacts DEF Fits
  <2> QED BY <1>5, <2>1
<1>7. s.blocks # <<>> /\ L = Len(s.blocks) /\ Inner(s).at = b.at
  <2>1. L = Len(s.blocks) /\ r.blocks[L].at = s.blocks[L].at BY <1>4, <1>5 DEF SameBlocks
  <2>2. s.blocks # <<>>
    <3>1. ASSUME s.blocks = <<>> PROVE FALSE
      <4>1. L = 0 BY <2>1, <3>1
      <4> HIDE DEF L
      <4> QED BY <1>5, <4>1
    <3> QED BY <3>1
  <2> QED BY <2>1, <2>2 DEF Inner
<1>8. Inner(s).kind # "arm"
  <2> SUFFICES ASSUME Inner(s).kind = "arm" PROVE FALSE OBVIOUS
  <2>1. Inner(s).at = ip - 1 BY <1>1, <1>7 DEF Let
  <2>2. Around(code, p, ip) /\ Len(s.blocks) \in 1..Len(s.blocks) BY <1>2, <1>5, <1>7 DEF Coded
  <2>3. Within(code, p, ip, s, Len(s.blocks)) BY <2>2 DEF Around
  <2>4. code[ip - 1].op = "arm" /\ ip - 1 \in 1..(ip - 1) BY <2>1, <2>3 DEF Within, Inner
  <2>5. ip \in 2..Len(code) BY <1>2, <2>4
  <2> QED BY <2>4, <2>5 DEF ArmDefines, Now, Lets
<1>9. F = V
  <2>1. Pointed(code, p, ip) BY <1>2 DEF Coded
  <2> QED BY <1>7, <1>8, <2>1 DEF Pointed
<1>10. Mirrors(code, p, r, b) /\ Surplus(code, p, b) <= A - S BY <1>4, <1>5 DEF Mirrored
<1>11. B - O = V - E /\ O - E <= A - S BY <1>10 DEF Mirrors, Surplus
<1>12. E \in Nat /\ V \in Nat
  <2>1. ASSUME NEW k \in 1..L
        PROVE  /\ Len(At(code, p, r.blocks[k].at).stack) \in Nat
               /\ Len(At(code, p, r.blocks[k].at + 1).stack) \in Nat
    BY <1>1, <1>2, <1>4, EnteredFacts
  <2> QED BY <1>5, <2>1
<1>13. ASSUME Now.offset # 0 PROVE Now.offset \in 1..(S - F) BY <1>1, <1>13 DEF Let
<1>14. ASSUME Now.offset # 0 PROVE B \in 0..(((A + 1) - Now.offset) - 1)
  <2>1. Now.offset \in 1..(S - F) BY <1>13, <1>14
  <2> HIDE DEF A, S, F, V, E, B, O
  <2> QED BY SMTT(60), <1>1, <1>3, <1>6, <1>9, <1>11, <1>12, <2>1
<1>15. Slot(r.scope, Now.offset) = (A + 1) - Now.offset BY DEF Slot
<1>16. B \in 0..A
  <2> HIDE DEF A, B
  <2> QED BY <1>3, <1>6
<1> QED BY <1>14, <1>15, <1>16

LEMMA InsideStep ==
  ASSUME VInv, Next, Defining, r.blocks # <<>>, NEW n, n = r.blocks[Len(r.blocks)].scope
  PROVE  Cut(r'.scope, n) = Cut(r.scope, n)
<1>1. /\ phase = "run" /\ ip <= Len(code) /\ Now.op \in Lets /\ ~ArmDefines(code)
      /\ Defines(r.scope, r'.scope)
  BY DefiningStep
<1>2. n \in 0..Len(r.scope) /\ (Now.offset # 0 => n \in 0..(Slot(r.scope, Now.offset) - 1))
  BY <1>1, SlotIsInside
<1> QED BY <1>1, <1>2 DEF Defines

-----------------------------------------------------------------------------
\* The invariant of every program: the parser's records of the scope, one following from
\* another by the statement between them, and the scope at run time following the record of
\* the statement that runs next.
THEOREM VarInvariant == Spec => []VInv
<1>1. Init => VInv BY InitHolds
<1>2. VInv /\ [Next]_vars => VInv' BY NextKeeps
<1> QED BY <1>1, <1>2, PTL DEF Spec

\* A name that the parser resolved to an offset is found there, or is searched for: variables,
\* variables that closures capture and modules, and no offset leads out of the scope
\* (search_scope_only, Stmt::Share, search_imports), whatever the program, if it defines
\* nothing in an arm of a switch.
THEOREM AllNamesResolve == Spec => []NamesResolve
<1>1. VInv => NamesResolve BY InvResolves
<1> QED BY <1>1, VarInvariant, PTL

\* After a definition (Stmt::Var) its name stands for it, also where it took over the place of
\* an earlier variable, and the variables outside the block are what they were.
THEOREM AllDefinitionsHold == Spec => DefinitionsHold
<1>1. VInv /\ [Next]_vars =>
        [Defining /\ ~r.always_search_scope =>
           LET s == r'.scope IN s[Find(s, Now.name)].def = ip]_vars
  BY FoundStep
<1>2. VInv /\ [Next]_vars =>
        [Defining /\ r.blocks # <<>> =>
           LET n == r.blocks[Len(r.blocks)].scope IN Cut(r'.scope, n) = Cut(r.scope, n)]_vars
  BY InsideStep
<1>3. Spec => DefinedIsFound BY <1>1, VarInvariant, PTL DEF Spec, DefinedIsFound
<1>4. Spec => LetStaysInBlock BY <1>2, VarInvariant, PTL DEF Spec, LetStaysInBlock
<1> QED BY <1>3, <1>4 DEF DefinitionsHold
=============================================================================
