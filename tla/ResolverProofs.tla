--------------------------- MODULE ResolverProofs ---------------------------
(***************************************************************************)
(* Proofs about Resolver: what the cache serves and the lock around it     *)
(* (CacheServes), and what a module is made of (ModulesAreOwn), for any    *)
(* threads, scripts, files and limits.                                     *)
(***************************************************************************)
EXTENDS Resolver, SequenceTheorems, WellFoundedInduction, TLAPS

\* The levels of evaluation of a thread: frames fs with the scope sc and the
\* imports im; fd is the path a thread that compiles its script looks for.

IsSeq(s) == \E S : s \in Seq(S)

IsFrame(f) ==
  /\ DOMAIN f = {"file", "script", "at", "source", "embedded", "scopeLen", "importsLen"}
  /\ f.script \in Seq(Statement)
  /\ f.at \in Nat \ {0} /\ f.scopeLen \in Nat /\ f.importsLen \in Nat

\* The current statement of a level is an import.
AtImport(f) == f.at <= Len(f.script) /\ f.script[f.at].op = "import"

\* The file that level n is looking for; level 0 is the compilation of a script.
Sought(fs, fd, n) ==
  IF n = 0 THEN GetFilePath(CHOOSE p \in fd : TRUE, NoPath)
  ELSE GetFilePath(fs[n].script[fs[n].at].path, fs[n].source)

\* Level n is the script of the thread, or the file that the level below imports.
Linked(fs, fd, n) ==
  \/ n = 1 /\ fs[n].file = NoPath
  \/ /\ fs[n].file = Sought(fs, fd, n - 1)
     /\ fs[n].file \in DOMAIN Files
     /\ fs[n].script = Files[fs[n].file]

\* How far the scope and the imports of level n go.
ScopeEnd(fs, sc, n)   == IF n = Len(fs) THEN Len(sc) ELSE fs[n + 1].scopeLen
ImportsEnd(fs, im, n) == IF n = Len(fs) THEN Len(im) ELSE fs[n + 1].importsLen

\* No level saved a length beyond the ends, or beyond what a level above it saved.
Ordered(fs, sc, im) ==
  \A n \in 1..Len(fs) :
    /\ fs[n].scopeLen <= Len(sc) /\ fs[n].importsLen <= Len(im)
    /\ \A k \in 1..n : /\ fs[k].scopeLen <= fs[n].scopeLen
                       /\ fs[k].importsLen <= fs[n].importsLen

\* Level n has in the scope the variables of its own that it has exported so far, and
\* nothing but its own; so with the imports.
Owned(fs, sc, im, n) ==
  /\ \A i \in (fs[n].scopeLen + 1)..ScopeEnd(fs, sc, n) : sc[i].by = fs[n].file
  /\ \A i \in (fs[n].importsLen + 1)..ImportsEnd(fs, im, n) : im[i].by = fs[n].file
  /\ \A j \in 1..(fs[n].at - 1) :
       fs[n].script[j].op = "let" /\ fs[n].script[j].alias # "" /\ j <= Len(fs[n].script) =>
         \E i \in (fs[n].scopeLen + 1)..ScopeEnd(fs, sc, n) : sc[i].alias = fs[n].script[j].alias

Levels(fs, sc, im, fd) ==
  /\ IsSeq(fs) /\ IsSeq(sc) /\ IsSeq(im)
  /\ \A n \in 1..Len(fs) : IsFrame(fs[n])
  /\ \A n \in 1..Len(fs) : Linked(fs, fd, n)
  /\ \A n \in 1..(Len(fs) - 1) : AtImport(fs[n])
  /\ Ordered(fs, sc, im)
  /\ \A n \in 1..Len(fs) : Owned(fs, sc, im, n)

-----------------------------------------------------------------------------
\* Sequences whose members may be anything.
LEMMA SeqFacts ==
  ASSUME NEW s, IsSeq(s)
  PROVE  /\ Len(s) \in Nat /\ DOMAIN s = 1..Len(s)
         /\ s = <<>> <=> Len(s) = 0
BY DEF IsSeq

LEMMA AppendFacts ==
  ASSUME NEW s, IsSeq(s), NEW x
  PROVE  /\ IsSeq(Append(s, x)) /\ Len(Append(s, x)) = Len(s) + 1
         /\ \A i \in 1..Len(s) : Append(s, x)[i] = s[i]
         /\ Append(s, x)[Len(s) + 1] = x
<1>1. PICK S : s \in Seq(S) BY DEF IsSeq
<1>2. s \in Seq(S \cup {x}) /\ x \in S \cup {x} BY <1>1
<1> QED BY <1>2 DEF IsSeq

LEMMA CutFacts ==
  ASSUME NEW s, IsSeq(s), NEW n \in 0..Len(s)
  PROVE  /\ IsSeq(SubSeq(s, 1, n)) /\ Len(SubSeq(s, 1, n)) = n
         /\ \A i \in 1..n : SubSeq(s, 1, n)[i] = s[i]
<1>1. PICK S : s \in Seq(S) BY DEF IsSeq
<1>2. SubSeq(s, 1, n) \in Seq(S) BY <1>1
<1> QED BY <1>1, <1>2 DEF IsSeq

\* The last level goes on to its next statement; nothing else of it changes.
LEMMA AdvanceFacts ==
  ASSUME NEW fs, IsSeq(fs), fs # <<>>, \A n \in 1..Len(fs) : IsFrame(fs[n])
  PROVE  LET gs == Advance(fs)
             k  == Len(fs)
         IN /\ IsSeq(gs) /\ Len(gs) = Len(fs) /\ k \in 1..Len(fs)
            /\ \A n \in 1..Len(fs) : n # k => gs[n] = fs[n]
            /\ IsFrame(gs[k]) /\ gs[k].at = fs[k].at + 1
            /\ gs[k].file = fs[k].file /\ gs[k].script = fs[k].script
            /\ gs[k].source = fs[k].source /\ gs[k].embedded = fs[k].embedded
            /\ gs[k].scopeLen = fs[k].scopeLen /\ gs[k].importsLen = fs[k].importsLen
<1> DEFINE k == Len(fs)
           g == [fs[k] EXCEPT !.at = @ + 1]
<1>1. k \in 1..Len(fs) /\ DOMAIN fs = 1..Len(fs) BY SeqFacts
<1>2. Advance(fs) = [fs EXCEPT ![k] = g] BY DEF Advance
<1>3. /\ IsFrame(g) /\ g.at = fs[k].at + 1
      /\ g.file = fs[k].file /\ g.script = fs[k].script
      /\ g.source = fs[k].source /\ g.embedded = fs[k].embedded
      /\ g.scopeLen = fs[k].scopeLen /\ g.importsLen = fs[k].importsLen
  <2>1. IsFrame(fs[k]) BY <1>1
  <2>2. PICK f : f = fs[k] OBVIOUS
  <2> QED BY <2>1, <2>2 DEF IsFrame
<1> HIDE DEF g, k
<1>4. PICK S : fs \in Seq(S) BY DEF IsSeq
<1>5. Advance(fs) \in Seq(S \cup {g}) /\ Len(Advance(fs)) = Len(fs) BY <1>1, <1>2, <1>4
<1>6. Advance(fs)[k] = g /\ \A n \in 1..Len(fs) : n # k => Advance(fs)[n] = fs[n] BY <1>1, <1>2
<1> QED BY <1>1, <1>3, <1>5, <1>6 DEF IsSeq, k

-----------------------------------------------------------------------------
\* What happens to the levels.

\* The file that the last level imports is run as a new level.
LEMMA PushLevels ==
  ASSUME NEW fs, NEW sc, NEW im, NEW fd, Levels(fs, sc, im, fd),
         fs # <<>> => AtImport(fs[Len(fs)]),
         NEW f, IsFrame(f), f.at = 1, f.scopeLen = Len(sc), f.importsLen = Len(im),
         \/ fs = <<>> /\ f.file = NoPath
         \/ /\ f.file = Sought(fs, fd, Len(fs)) /\ f.file \in DOMAIN Files
            /\ f.script = Files[f.file]
  PROVE  Levels(Append(fs, f), sc, im, fd)
<1> DEFINE gs == Append(fs, f)
           k  == Len(fs)
<1>1. IsSeq(fs) /\ IsSeq(sc) /\ IsSeq(im) BY DEF Levels
<1>2. /\ k \in Nat /\ IsSeq(gs) /\ Len(gs) = k + 1 /\ gs[k + 1] = f
      /\ \A n \in 1..k : gs[n] = fs[n]
  BY <1>1, SeqFacts, AppendFacts
<1>3. Len(sc) \in Nat /\ Len(im) \in Nat BY <1>1, SeqFacts
<1> HIDE DEF gs
<1>4. \A n \in 1..Len(gs) : IsFrame(gs[n]) BY <1>2 DEF Levels
<1>5. ASSUME NEW n \in 1..Len(gs) PROVE Linked(gs, fd, n)
  <2>1. CASE n = k + 1
    <3>1. CASE k = 0 BY <1>1, <1>2, <2>1, <3>1, SeqFacts DEF Linked, Sought
    <3>2. CASE k # 0 BY <1>1, <1>2, <2>1, <3>2, SeqFacts DEF Linked, Sought
    <3> QED BY <3>1, <3>2
  <2>2. CASE n \in 1..k
    <3>1. Linked(fs, fd, n) /\ gs[n] = fs[n] BY <1>2, <2>2 DEF Levels
    <3>2. n - 1 = 0 \/ (n - 1 \in 1..k /\ gs[n - 1] = fs[n - 1]) BY <1>2, <2>2
    <3> QED BY <3>1, <3>2 DEF Linked, Sought
  <2> QED BY <1>2, <2>1, <2>2
<1>6. \A n \in 1..(Len(gs) - 1) : AtImport(gs[n]) BY <1>1, <1>2, SeqFacts DEF Levels
<1>7. Ordered(gs, sc, im)
  <2> SUFFICES ASSUME NEW n \in 1..(k + 1), NEW m \in 1..n
               PROVE  /\ gs[n].scopeLen <= Len(sc) /\ gs[n].importsLen <= Len(im)
                      /\ gs[m].scopeLen <= gs[n].scopeLen /\ gs[m].importsLen <= gs[n].importsLen
    BY <1>2 DEF Ordered
  <2>1. CASE n \in 1..k
    <3>1. m \in 1..k /\ gs[m] = fs[m] /\ gs[n] = fs[n] BY <1>2, <2>1
    <3> QED BY <2>1, <3>1 DEF Ordered, Levels
  <2>2. CASE n = k + 1
    <3>1. gs[n] = f BY <1>2, <2>2
    <3>2. m = n \/ (m \in 1..k /\ gs[m] = fs[m]) BY <1>2, <2>2
    <3>3. m \in 1..k => fs[m].scopeLen <= Len(sc) /\ fs[m].importsLen <= Len(im) BY DEF Ordered, Levels
    <3> QED BY <1>3, <3>1, <3>2, <3>3
  <2> QED BY <1>2, <2>1, <2>2
<1>8. ASSUME NEW n \in 1..Len(gs) PROVE Owned(gs, sc, im, n)
  <2>1. CASE n = k + 1
    <3>1. /\ gs[n] = f /\ ScopeEnd(gs, sc, n) = Len(sc) /\ ImportsEnd(gs, im, n) = Len(im)
          /\ 1..(f.at - 1) = {}
      BY <1>2, <2>1 DEF ScopeEnd, ImportsEnd
    <3>2. (f.scopeLen + 1)..Len(sc) = {} /\ (f.importsLen + 1)..Len(im) = {} BY <1>3
    <3> QED BY <3>1, <3>2, Zenon DEF Owned
  <2>2. CASE n \in 1..k
    <3>1. Owned(fs, sc, im, n) /\ gs[n] = fs[n] BY <1>2, <2>2 DEF Levels
    <3>2. ScopeEnd(gs, sc, n) = ScopeEnd(fs, sc, n) /\ ImportsEnd(gs, im, n) = ImportsEnd(fs, im, n)
      BY <1>2, <2>2 DEF ScopeEnd, ImportsEnd
    <3> QED BY <3>1, <3>2 DEF Owned
  <2> QED BY <1>2, <2>1, <2>2
<1> QED BY <1>1, <1>2, <1>4, <1>5, <1>6, <1>7, <1>8 DEF Levels, gs

\* The levels above the n-th one end, and with them what they had in the scope and
\* among the imports.
LEMMA CutLevels ==
  ASSUME NEW fs, NEW sc, NEW im, NEW fd, Levels(fs, sc, im, fd), NEW k \in 0..Len(fs)
  PROVE  /\ ScopeEnd(fs, sc, k) \in 0..Len(sc) /\ ImportsEnd(fs, im, k) \in 0..Len(im)
         /\ Levels(SubSeq(fs, 1, k), SubSeq(sc, 1, ScopeEnd(fs, sc, k)),
                   SubSeq(im, 1, ImportsEnd(fs, im, k)), fd)
<1> DEFINE a  == ScopeEnd(fs, sc, k)
           b  == ImportsEnd(fs, im, k)
           gs == SubSeq(fs, 1, k)
           ss == SubSeq(sc, 1, a)
           is == SubSeq(im, 1, b)
<1>1. IsSeq(fs) /\ IsSeq(sc) /\ IsSeq(im) BY DEF Levels
<1>2. Len(fs) \in Nat /\ Len(sc) \in Nat /\ Len(im) \in Nat BY <1>1, SeqFacts
<1>3. a \in 0..Len(sc) /\ b \in 0..Len(im)
  <2>1. CASE k = Len(fs) BY <1>2, <2>1 DEF ScopeEnd, ImportsEnd
  <2>2. CASE k # Len(fs)
    <3>1. k + 1 \in 1..Len(fs) BY <1>2, <2>2
    <3>2. IsFrame(fs[k + 1]) /\ fs[k + 1].scopeLen <= Len(sc) /\ fs[k + 1].importsLen <= Len(im)
      BY <3>1 DEF Levels, Ordered
    <3> QED BY <1>2, <2>2, <3>2 DEF ScopeEnd, ImportsEnd, IsFrame
  <2> QED BY <2>1, <2>2
<1>4. IsSeq(gs) /\ Len(gs) = k /\ \A n \in 1..k : gs[n] = fs[n] BY <1>1, CutFacts
<1> HIDE DEF a, b
<1>5. IsSeq(ss) /\ Len(ss) = a /\ \A i \in 1..a : ss[i] = sc[i] BY <1>1, <1>3, CutFacts
<1>6. IsSeq(is) /\ Len(is) = b /\ \A i \in 1..b : is[i] = im[i] BY <1>1, <1>3, CutFacts
<1> HIDE DEF gs, ss, is
<1>7. \A n \in 1..k : n \in 1..Len(fs) /\ gs[n] = fs[n] BY <1>2, <1>4
<1>8. ASSUME NEW n \in 1..k
      PROVE  /\ ScopeEnd(gs, ss, n) = ScopeEnd(fs, sc, n) /\ ScopeEnd(fs, sc, n) \in 0..a
             /\ ImportsEnd(gs, is, n) = ImportsEnd(fs, im, n) /\ ImportsEnd(fs, im, n) \in 0..b
             /\ fs[n].scopeLen \in 0..a /\ fs[n].importsLen \in 0..b
  <2>1. IsFrame(fs[n]) /\ fs[n].scopeLen <= Len(sc) /\ fs[n].importsLen <= Len(im)
    BY <1>7 DEF Levels, Ordered
  <2>2. CASE k = Len(fs)
    <3>1. a = Len(sc) /\ b = Len(im) BY <2>2 DEF a, b, ScopeEnd, ImportsEnd
    <3>2. CASE n = k BY <1>2, <1>4, <1>5, <1>6, <2>1, <2>2, <3>1, <3>2 DEF ScopeEnd, ImportsEnd, IsFrame
    <3>3. CASE n # k
      <4>1. n + 1 \in 1..k /\ n # Len(fs) /\ n # Len(gs) BY <1>4, <2>2, <3>3
      <4>2. IsFrame(fs[n + 1]) /\ fs[n + 1].scopeLen <= Len(sc) /\ fs[n + 1].importsLen <= Len(im)
        BY <1>7, <4>1 DEF Levels, Ordered
      <4>3. gs[n + 1] = fs[n + 1] BY <1>7, <4>1
      <4> QED BY <1>2, <2>1, <3>1, <4>1, <4>2, <4>3 DEF ScopeEnd, ImportsEnd, IsFrame
    <3> QED BY <3>2, <3>3
  <2>3. CASE k # Len(fs)
    <3>1. k + 1 \in 1..Len(fs) /\ n \in 1..(k + 1) /\ n # Len(fs) BY <1>2, <2>3
    <3>2. IsFrame(fs[k + 1]) /\ a = fs[k + 1].scopeLen /\ b = fs[k + 1].importsLen
      BY <2>3, <3>1 DEF a, b, ScopeEnd, ImportsEnd, Levels
    <3>3. fs[n].scopeLen <= a /\ fs[n].importsLen <= b BY <3>1, <3>2 DEF Levels, Ordered
    <3>4. CASE n = k BY <1>4, <1>5, <1>6, <2>1, <3>1, <3>2, <3>3, <3>4 DEF ScopeEnd, ImportsEnd, IsFrame
    <3>5. CASE n # k
      <4>1. n + 1 \in 1..k /\ n + 1 \in 1..Len(fs) /\ n + 1 \in 1..(k + 1) /\ n # Len(gs)
        BY <1>4, <3>1, <3>5
      <4>2. IsFrame(fs[n + 1]) /\ fs[n + 1].scopeLen <= a /\ fs[n + 1].importsLen <= b
        BY <3>1, <3>2, <4>1 DEF Levels, Ordered
      <4>3. gs[n + 1] = fs[n + 1] BY <1>7, <4>1
      <4> QED BY <1>3, <2>1, <3>1, <3>3, <4>1, <4>2, <4>3 DEF ScopeEnd, ImportsEnd, IsFrame
    <3> QED BY <3>4, <3>5
  <2> QED BY <2>2, <2>3
<1>9. ASSUME NEW n \in 1..k PROVE Linked(gs, fd, n)
  <2>1. Linked(fs, fd, n) /\ gs[n] = fs[n] BY <1>7 DEF Levels
  <2>2. n - 1 = 0 \/ (n - 1 \in 1..k /\ gs[n - 1] = fs[n - 1]) BY <1>7
  <2> QED BY <2>1, <2>2 DEF Linked, Sought
<1>10. \A n \in 1..(k - 1) : AtImport(gs[n])
  <2>1. \A n \in 1..(k - 1) : n \in 1..k /\ n \in 1..(Len(fs) - 1) BY <1>2
  <2> QED BY <1>7, <2>1 DEF Levels
<1>11. Ordered(gs, ss, is)
  <2> SUFFICES ASSUME NEW n \in 1..k, NEW m \in 1..n
               PROVE  /\ gs[n].scopeLen <= a /\ gs[n].importsLen <= b
                      /\ gs[m].scopeLen <= gs[n].scopeLen /\ gs[m].importsLen <= gs[n].importsLen
    BY <1>4, <1>5, <1>6 DEF Ordered
  <2>1. m \in 1..k OBVIOUS
  <2>2. fs[m].scopeLen <= fs[n].scopeLen /\ fs[m].importsLen <= fs[n].importsLen
    BY <1>7 DEF Levels, Ordered
  <2>3. fs[n].scopeLen <= a /\ fs[n].importsLen <= b BY <1>3, <1>8
  <2> QED BY <1>7, <2>1, <2>2, <2>3
<1>12. ASSUME NEW n \in 1..k PROVE Owned(gs, ss, is, n)
  <2>1. Owned(fs, sc, im, n) /\ gs[n] = fs[n] /\ IsFrame(fs[n]) BY <1>7 DEF Levels
  <2>2. \A i \in (fs[n].scopeLen + 1)..ScopeEnd(fs, sc, n) : ss[i] = sc[i] BY <1>3, <1>5, <1>8, SMTT(30)
  <2>3. \A i \in (fs[n].importsLen + 1)..ImportsEnd(fs, im, n) : is[i] = im[i]
    BY <1>3, <1>6, <1>8, SMTT(30)
  <2>4. ScopeEnd(gs, ss, n) = ScopeEnd(fs, sc, n) /\ ImportsEnd(gs, is, n) = ImportsEnd(fs, im, n)
    BY <1>8
  <2> QED BY <2>1, <2>2, <2>3, <2>4 DEF Owned
<1>13. Levels(gs, ss, is, fd) BY <1>4, <1>5, <1>6, <1>7, <1>9, <1>10, <1>11, <1>12 DEF Levels
<1> QED BY <1>3, <1>13 DEF a, b, gs, ss, is

\* z is s with more at its end, all of it put there by file f.
Grown(s, z, f) ==
  /\ IsSeq(z) /\ Len(s) <= Len(z)
  /\ \A i \in 1..Len(s) : z[i] = s[i]
  /\ \A i \in (Len(s) + 1)..Len(z) : z[i].by = f

\* If the current statement of level f exports a variable, it is the last one of z.
Exported(f, s, z) ==
  f.at <= Len(f.script) /\ f.script[f.at].op = "let" /\ f.script[f.at].alias # "" =>
    Len(s) < Len(z) /\ z[Len(z)].alias = f.script[f.at].alias

\* The last level goes on to its next statement, having put its own variables at the end
\* of the scope (the one of the statement, if that exports one) and its own imports at the
\* end of the imports.
LEMMA ExtendLevels ==
  ASSUME NEW fs, NEW sc, NEW im, NEW fd, Levels(fs, sc, im, fd), fs # <<>>,
         NEW ss, Grown(sc, ss, fs[Len(fs)].file), Exported(fs[Len(fs)], sc, ss),
         NEW is, Grown(im, is, fs[Len(fs)].file)
  PROVE  Levels(Advance(fs), ss, is, fd)
<1> DEFINE gs == Advance(fs)
           k  == Len(fs)
           f  == fs[k]
           g  == gs[k]
<1>1. IsSeq(fs) /\ IsSeq(sc) /\ IsSeq(im) /\ \A n \in 1..Len(fs) : IsFrame(fs[n]) BY DEF Levels
<1>2. k \in Nat /\ Len(sc) \in Nat /\ Len(im) \in Nat /\ Len(ss) \in Nat /\ Len(is) \in Nat
  BY <1>1, SeqFacts DEF Grown
<1>3. /\ IsSeq(gs) /\ Len(gs) = k /\ k \in 1..k
      /\ \A n \in 1..k : n # k => gs[n] = fs[n]
      /\ IsFrame(g) /\ g.at = f.at + 1 /\ g.file = f.file /\ g.script = f.script
      /\ g.scopeLen = f.scopeLen /\ g.importsLen = f.importsLen
  BY <1>1, AdvanceFacts
<1>4. IsFrame(f) BY <1>1, <1>3
<1>5. k = Len(fs) /\ k \in Nat BY <1>2
<1>6. Grown(sc, ss, f.file) /\ Exported(f, sc, ss) /\ Grown(im, is, f.file) OBVIOUS
<1>7. /\ Len(sc) <= Len(ss) /\ \A i \in 1..Len(sc) : ss[i] = sc[i]
      /\ \A i \in (Len(sc) + 1)..Len(ss) : ss[i].by = f.file
  BY <1>6 DEF Grown
<1>8. /\ Len(im) <= Len(is) /\ \A i \in 1..Len(im) : is[i] = im[i]
      /\ \A i \in (Len(im) + 1)..Len(is) : is[i].by = f.file
  BY <1>6 DEF Grown
<1>9. f = fs[k] /\ g = gs[k] OBVIOUS
<1> HIDE DEF gs, k, f, g
<1>10. \A n \in 1..k : /\ gs[n].file = fs[n].file /\ gs[n].script = fs[n].script
                       /\ gs[n].scopeLen = fs[n].scopeLen /\ gs[n].importsLen = fs[n].importsLen
                       /\ IsFrame(gs[n])
  BY <1>1, <1>3, <1>5, <1>9
<1>11. ASSUME NEW n \in 1..k PROVE Linked(gs, fd, n)
  <2>1. Linked(fs, fd, n) BY <1>5 DEF Levels
  <2>2. n - 1 = 0 \/ (n - 1 \in 1..k /\ gs[n - 1] = fs[n - 1]) BY <1>3, <1>5, <1>9
  <2>3. Sought(gs, fd, n - 1) = Sought(fs, fd, n - 1) BY <1>5, <1>9, <2>2 DEF Sought
  <2> QED BY <1>5, <1>9, <1>10, <2>1, <2>3 DEF Linked
<1>12. \A n \in 1..(k - 1) : AtImport(gs[n])
  <2>1. \A n \in 1..(k - 1) : n \in 1..k /\ n # k BY <1>2, <1>5, <1>9
  <2> QED BY <1>3, <1>5, <1>9, <2>1 DEF Levels
<1>13. Ordered(gs, ss, is)
  <2> SUFFICES ASSUME NEW n \in 1..k, NEW m \in 1..n
               PROVE  /\ gs[n].scopeLen <= Len(ss) /\ gs[n].importsLen <= Len(is)
                      /\ gs[m].scopeLen <= gs[n].scopeLen /\ gs[m].importsLen <= gs[n].importsLen
    BY <1>3, <1>5, <1>9 DEF Ordered
  <2>1. m \in 1..k BY <1>5
  <2>2. /\ fs[n].scopeLen <= Len(sc) /\ fs[n].importsLen <= Len(im)
        /\ fs[m].scopeLen <= fs[n].scopeLen /\ fs[m].importsLen <= fs[n].importsLen
    BY <1>5 DEF Levels, Ordered
  <2>3. fs[n].scopeLen \in Nat /\ fs[n].importsLen \in Nat BY <1>1, <1>5, <1>9 DEF IsFrame
  <2>4. fs[n].scopeLen <= Len(ss) /\ fs[n].importsLen <= Len(is) BY <1>2, <1>7, <1>8, <2>2, <2>3
  <2> QED BY <1>5, <1>9, <1>10, <2>1, <2>2, <2>4
<1>14. ASSUME NEW n \in 1..k, n # k PROVE Owned(gs, ss, is, n)
  <2>1. Owned(fs, sc, im, n) /\ gs[n] = fs[n] BY <1>3, <1>5, <1>9, <1>14 DEF Levels
  <2>2. n + 1 \in 1..k /\ n # Len(fs) /\ n # Len(gs) BY <1>3, <1>5, <1>9, <1>14
  <2>3. /\ IsFrame(fs[n + 1])
        /\ fs[n + 1].scopeLen <= Len(sc) /\ fs[n + 1].importsLen <= Len(im)
    BY <1>5, <1>9, <2>2 DEF Levels, Ordered
  <2>4. /\ ScopeEnd(gs, ss, n) = ScopeEnd(fs, sc, n) /\ ScopeEnd(fs, sc, n) = fs[n + 1].scopeLen
        /\ ImportsEnd(gs, is, n) = ImportsEnd(fs, im, n)
        /\ ImportsEnd(fs, im, n) = fs[n + 1].importsLen
    BY <1>5, <1>9, <1>10, <2>2 DEF ScopeEnd, ImportsEnd
  <2>5. IsFrame(fs[n]) BY <1>1, <1>5, <1>9
  <2>6. \A i \in (fs[n].scopeLen + 1)..ScopeEnd(fs, sc, n) : ss[i] = sc[i]
    <3> TAKE i \in (fs[n].scopeLen + 1)..ScopeEnd(fs, sc, n)
    <3>1. fs[n].scopeLen \in Nat /\ fs[n + 1].scopeLen \in Nat BY <2>3, <2>5 DEF IsFrame
    <3>2. ScopeEnd(fs, sc, n) \in Nat /\ ScopeEnd(fs, sc, n) <= Len(sc) BY <2>3, <2>4, <3>1
    <3>3. i \in 1..Len(sc) BY <1>2, <3>1, <3>2
    <3> QED BY <1>7, <3>3
  <2>7. \A i \in (fs[n].importsLen + 1)..ImportsEnd(fs, im, n) : is[i] = im[i]
    <3> TAKE i \in (fs[n].importsLen + 1)..ImportsEnd(fs, im, n)
    <3>1. fs[n].importsLen \in Nat /\ fs[n + 1].importsLen \in Nat BY <2>3, <2>5 DEF IsFrame
    <3>2. ImportsEnd(fs, im, n) \in Nat /\ ImportsEnd(fs, im, n) <= Len(im) BY <2>3, <2>4, <3>1
    <3>3. i \in 1..Len(im) BY <1>2, <3>1, <3>2
    <3> QED BY <1>8, <3>3
  <2> QED BY <1>5, <1>9, <2>1, <2>4, <2>6, <2>7 DEF Owned
<1>15. Owned(gs, ss, is, k)
  <2> DEFINE a == f.scopeLen + 1
             b == f.importsLen + 1
  <2>1. Owned(fs, sc, im, k) BY <1>3, <1>5, <1>9 DEF Levels
  <2>2. /\ ScopeEnd(gs, ss, k) = Len(ss) /\ ScopeEnd(fs, sc, k) = Len(sc)
        /\ ImportsEnd(gs, is, k) = Len(is) /\ ImportsEnd(fs, im, k) = Len(im)
    BY <1>3, <1>5, <1>9 DEF ScopeEnd, ImportsEnd
  <2>3. f.scopeLen <= Len(sc) /\ f.importsLen <= Len(im) BY <1>3, <1>5, <1>9 DEF Levels, Ordered
  <2>4. a \in Nat \ {0} /\ b \in Nat \ {0} /\ f.at \in Nat \ {0} /\ a <= Len(sc) + 1 /\ b <= Len(im) + 1
    BY <1>2, <1>4, <1>5, <1>9, <2>3 DEF IsFrame
  <2>5. /\ \A i \in a..Len(sc) : sc[i].by = f.file
        /\ \A i \in b..Len(im) : im[i].by = f.file
        /\ \A j \in 1..(f.at - 1) :
             f.script[j].op = "let" /\ f.script[j].alias # "" /\ j <= Len(f.script) =>
               \E i \in a..Len(sc) : sc[i].alias = f.script[j].alias
    BY <1>5, <1>9, <2>1, <2>2, Zenon DEF Owned
  <2> HIDE DEF a, b
  <2>6. ASSUME NEW i \in a..Len(ss) PROVE ss[i].by = f.file
    <3>1. (i \in a..Len(sc) /\ i \in 1..Len(sc)) \/ i \in (Len(sc) + 1)..Len(ss) BY <1>2, <2>4
    <3> QED BY <1>7, <2>5, <3>1
  <2>7. ASSUME NEW i \in b..Len(is) PROVE is[i].by = f.file
    <3>1. (i \in b..Len(im) /\ i \in 1..Len(im)) \/ i \in (Len(im) + 1)..Len(is) BY <1>2, <2>4
    <3> QED BY <1>8, <2>5, <3>1
  <2>8. ASSUME NEW j \in 1..f.at,
               f.script[j].op = "let", f.script[j].alias # "", j <= Len(f.script)
        PROVE  \E i \in a..Len(ss) : ss[i].alias = f.script[j].alias
    <3>1. CASE j \in 1..(f.at - 1)
      <4>1. PICK i \in a..Len(sc) : sc[i].alias = f.script[j].alias BY <1>5, <1>9, <2>5, <2>8, <3>1
      <4>2. i \in 1..Len(sc) /\ i \in a..Len(ss) BY <1>2, <1>7, <2>4
      <4> QED BY <1>7, <4>1, <4>2
    <3>2. CASE j = f.at
      <4>1. Len(sc) < Len(ss) /\ ss[Len(ss)].alias = f.script[f.at].alias
        BY <1>6, <2>8, <3>2 DEF Exported
      <4>2. Len(ss) \in a..Len(ss) BY <1>2, <2>4, <4>1
      <4> QED BY <3>2, <4>1, <4>2
    <3>3. j \in 1..(f.at - 1) \/ j = f.at BY <2>4
    <3> QED BY <3>1, <3>2, <3>3
  <2>9. g.at - 1 = f.at BY <1>3, <1>5, <1>9, <2>4
  <2> QED
    <3>1. /\ g.scopeLen + 1 = a /\ g.importsLen + 1 = b
          /\ g.script = f.script /\ g.file = f.file /\ g = gs[k]
      BY <1>3, <1>9 DEF a, b
    <3>2. /\ \A i \in (g.scopeLen + 1)..Len(ss) : ss[i].by = g.file
          /\ \A i \in (g.importsLen + 1)..Len(is) : is[i].by = g.file
      BY <2>6, <2>7, <3>1
    <3>3. \A j \in 1..(g.at - 1) :
            g.script[j].op = "let" /\ g.script[j].alias # "" /\ j <= Len(g.script) =>
              \E i \in (g.scopeLen + 1)..Len(ss) : ss[i].alias = g.script[j].alias
      <4> SUFFICES ASSUME NEW j \in 1..(g.at - 1), g.script[j].op = "let",
                          g.script[j].alias # "", j <= Len(g.script)
                   PROVE  \E i \in (g.scopeLen + 1)..Len(ss) : ss[i].alias = g.script[j].alias
        OBVIOUS
      <4>1. j \in 1..f.at BY <2>9
      <4>2. f.script[j].op = "let" /\ f.script[j].alias # "" /\ j <= Len(f.script) BY <3>1
      <4>3. PICK i \in a..Len(ss) : ss[i].alias = f.script[j].alias BY <2>8, <4>1, <4>2
      <4>4. i \in (g.scopeLen + 1)..Len(ss) /\ ss[i].alias = g.script[j].alias BY <3>1, <4>3
      <4> QED BY <4>4
    <3> QED BY <2>2, <3>1, <3>2, <3>3, Zenon DEF Owned
<1>16. IsSeq(ss) /\ IsSeq(is) BY DEF Grown
<1> QED BY <1>3, <1>10, <1>11, <1>12, <1>13, <1>14, <1>15, <1>16 DEF Levels, gs

\* The last level goes on from an import.
LEMMA StayLevels ==
  ASSUME NEW fs, NEW sc, NEW im, NEW fd, Levels(fs, sc, im, fd), fs # <<>>, AtImport(fs[Len(fs)])
  PROVE  Levels(Advance(fs), sc, im, fd)
<1> DEFINE f == fs[Len(fs)]
<1>1. IsSeq(sc) /\ IsSeq(im) BY DEF Levels
<1>2. Len(sc) \in Nat /\ Len(im) \in Nat BY <1>1, SeqFacts
<1>3. f.script[f.at].op = "import" BY DEF AtImport
<1>4. Exported(f, sc, sc) BY <1>3 DEF Exported
<1>5. /\ (Len(sc) + 1)..Len(sc) = {} /\ Len(sc) <= Len(sc)
      /\ (Len(im) + 1)..Len(im) = {} /\ Len(im) <= Len(im)
  BY <1>2
<1>6. Grown(sc, sc, f.file) /\ Grown(im, im, f.file) BY <1>1, <1>5 DEF Grown
<1> QED BY <1>4, <1>6, ExtendLevels

-----------------------------------------------------------------------------
\* What a module is made of.

\* A module made from a file has every variable that the script of the file exports.
GoodModule(m) ==
  m.file \in DOMAIN Files =>
    \A s \in Range(Files[m.file]) : s.op = "let" /\ s.alias # "" => <<s.alias, m.file>> \in m.vars

\* A set of positions that is not empty has a last one.
LEMMA LastPosition ==
  ASSUME NEW L \in Nat, NEW S, S \subseteq 1..L, NEW i \in S
  PROVE  \E k \in S : i <= k /\ \A j \in S : j <= k
<1> DEFINE T == {x \in Nat : \E k \in S : x = L - k}
<1>1. L - i \in T OBVIOUS
<1>2. T \subseteq Nat /\ T # {} BY <1>1
<1> HIDE DEF T
<1>3. PICK x \in T : \A y \in T : ~(<<y, x>> \in OpToRel(<, Nat)) BY <1>2, NatLessThanWellFounded, WFMin
<1>4. PICK k \in S : x = L - k BY <1>3 DEF T
<1>5. ASSUME NEW j \in S, ~(j <= k) PROVE FALSE
  <2>1. L - j \in T BY DEF T
  <2>2. L - j \in Nat /\ x \in Nat /\ L - j < x BY <1>4, <1>5
  <2>3. <<L - j, x>> \in OpToRel(<, Nat)
    <3>1. PICK y, z : y = L - j /\ z = x OBVIOUS
    <3>2. <<y, z>> \in Nat \X Nat /\ <<y, z>>[1] < <<y, z>>[2] BY <2>2, <3>1
    <3> QED BY <3>1, <3>2, Zenon DEF OpToRel
  <2> QED BY <1>3, <2>1, <2>3
<1> QED BY <1>5

\* Of the variables with an alias there is a last one.
LEMMA LastWithAlias ==
  ASSUME NEW sc, IsSeq(sc), NEW i \in 1..Len(sc)
  PROVE  \E k \in i..Len(sc) :
           /\ sc[k].alias = sc[i].alias
           /\ \A j \in (k + 1)..Len(sc) : sc[j].alias # sc[i].alias
<1> DEFINE S == {k \in 1..Len(sc) : sc[k].alias = sc[i].alias}
<1>1. Len(sc) \in Nat /\ S \subseteq 1..Len(sc) /\ i \in S BY SeqFacts
<1> HIDE DEF S
<1>2. PICK k \in S : i <= k /\ \A j \in S : j <= k BY <1>1, LastPosition
<1>3. k \in i..Len(sc) /\ sc[k].alias = sc[i].alias BY <1>1, <1>2 DEF S
<1>4. ASSUME NEW j \in (k + 1)..Len(sc), sc[j].alias = sc[i].alias PROVE FALSE
  <2>1. j \in 1..Len(sc) /\ ~(j <= k) BY <1>1, <1>3
  <2> QED BY <1>2, <1>4, <2>1 DEF S
<1> QED BY <1>3, <1>4

\* The script of a module has come to its end.
AtEnd(f) == f.file # NoPath /\ f.at > Len(f.script)

\* eval_ast_as_new_raw makes such a module of a script that has come to its end.
LEMMA ScriptModule ==
  ASSUME NEW r, Levels(r.frames, r.scope, r.imports, r.found), r.frames # <<>>,
         AtEnd(r.frames[Len(r.frames)])
  PROVE  GoodModule(ScriptAsModule(r))
<1> DEFINE fs == r.frames
           sc == r.scope
           k  == Len(fs)
           f  == fs[k]
<1>1. IsSeq(fs) /\ IsSeq(sc) BY DEF Levels
<1>2. k \in 1..Len(fs) /\ Len(sc) \in Nat BY <1>1, SeqFacts
<1>3. IsFrame(f) /\ Linked(fs, r.found, k) /\ Owned(fs, sc, r.imports, k) /\ f.scopeLen <= Len(sc)
  BY <1>2 DEF Levels, Ordered
<1>4. f.file \in DOMAIN Files /\ f.script = Files[f.file] /\ f.at > Len(f.script)
  BY <1>3 DEF Linked, AtEnd
<1>5. f.scopeLen \in Nat /\ f.at \in Nat /\ f.script \in Seq(Statement) BY <1>3 DEF IsFrame
<1>6. /\ \A i \in (f.scopeLen + 1)..Len(sc) : sc[i].by = f.file
      /\ \A j \in 1..(f.at - 1) :
           f.script[j].op = "let" /\ f.script[j].alias # "" /\ j <= Len(f.script) =>
             \E i \in (f.scopeLen + 1)..Len(sc) : sc[i].alias = f.script[j].alias
  <2>1. ScopeEnd(fs, sc, k) = Len(sc) BY DEF ScopeEnd
  <2> QED BY <1>3, <2>1, Zenon DEF Owned
<1>7. /\ ScriptAsModule(r).file = f.file
      /\ ScriptAsModule(r).vars = ModuleVars(sc)
  BY DEF ScriptAsModule, Module
<1> HIDE DEF fs, sc, k, f
<1>8. ASSUME NEW s \in Range(f.script), s.op = "let", s.alias # ""
      PROVE  <<s.alias, f.file>> \in ModuleVars(sc)
  <2>1. PICK j \in 1..Len(f.script) : s = f.script[j] BY <1>5 DEF Range
  <2>2. j \in 1..(f.at - 1) /\ j <= Len(f.script) BY <1>4, <1>5
  <2>3. PICK i \in (f.scopeLen + 1)..Len(sc) : sc[i].alias = s.alias BY <1>6, <1>8, <2>1, <2>2
  <2>4. i \in 1..Len(sc) BY <1>2, <1>5
  <2>5. PICK n \in i..Len(sc) : sc[n].alias = s.alias /\ \A m \in (n + 1)..Len(sc) : sc[m].alias # s.alias
    <3>1. \E n \in i..Len(sc) : /\ sc[n].alias = sc[i].alias
                                /\ \A m \in (n + 1)..Len(sc) : sc[m].alias # sc[i].alias
      BY <1>1, <2>4, LastWithAlias
    <3> QED BY <2>3, <3>1, Zenon
  <2>6. n \in 1..Len(sc) /\ n \in (f.scopeLen + 1)..Len(sc) BY <1>2, <1>5
  <2>7. sc[n].by = f.file BY <1>6, <2>6
  <2> QED
    <3> DEFINE N == {m \in 1..Len(sc) : /\ sc[m].alias # ""
                                        /\ \A l \in (m + 1)..Len(sc) : sc[l].alias # sc[m].alias}
    <3>1. n \in N BY <1>8, <2>5, <2>6
    <3>2. <<sc[n].alias, sc[n].by>> \in ModuleVars(sc) BY <3>1, Zenon DEF ModuleVars
    <3> QED BY <2>5, <2>7, <3>2
<1> QED BY <1>4, <1>7, <1>8 DEF GoodModule

-----------------------------------------------------------------------------
\* A thread.

IsThread(r) ==
  /\ DOMAIN r = {"phase", "frames", "scope", "imports", "loaded", "idx", "tries", "late", "made",
                 "found", "pending", "embedded", "runs"}
  /\ r.phase \in Phases /\ r.loaded \in Nat /\ r.tries \in 0..MaxTries /\ r.runs \in 0..MaxRuns

\* Every module the thread knows is good.
GoodModules(im, emb, fs, made) ==
  /\ \A i \in 1..Len(im) : GoodModule(im[i].module)
  /\ \A p \in DOMAIN emb : GoodModule(emb[p])
  /\ \A n \in 1..Len(fs) : \A p \in DOMAIN fs[n].embedded : GoodModule(fs[n].embedded[p])
  /\ \A m \in made : GoodModule(m)

\* A thread that looks for a module is at an import; one that has a module to store has
\* made it of the file it was looking for.
Seeking == {"resolve", "try_read", "read", "load", "try_write", "write"}

Phased(r) ==
  /\ r.phase \in Seeking /\ r.frames # <<>> => AtImport(r.frames[Len(r.frames)])
  /\ r.phase \in {"try_write", "write"} =>
       Sought(r.frames, r.found, Len(r.frames)) \in DOMAIN Files /\ r.made # {}
  /\ r.phase = "run" => r.frames # <<>>
  /\ r.phase = "embed" => r.frames = <<>> /\ r.scope = <<>> /\ r.imports = <<>>

Sound(r) ==
  /\ IsThread(r)
  /\ Levels(r.frames, r.scope, r.imports, r.found) /\ Len(r.frames) <= MaxDepth
  /\ GoodModules(r.imports, r.embedded, r.frames, r.made)

GoodThread(r) == Sound(r) /\ Phased(r)

\* The import under way found its module in the cache if it was there when it began.
Late(r, st) ==
  /\ r.phase \in {"try_read", "read"} /\ r.late => Sought(r.frames, r.found, Len(r.frames)) \in st
  /\ r.phase = "load" /\ CacheEnabled => ~r.late

RInv ==
  /\ DOMAIN th = Threads
  /\ \A t \in Threads : GoodThread(th[t])
  /\ \A t \in Threads : Late(th[t], stored)
  /\ stored = DOMAIN cache /\ stored \subseteq DOMAIN Files
  /\ \A p \in DOMAIN cache : GoodModule(cache[p])
  /\ readers = {t \in Threads : th[t].phase = "read"}
  /\ writer = {t \in Threads : th[t].phase = "write"}
  /\ \A t \in writer : writer = {t} /\ readers = {}

LEMMA TargetIsSought ==
  ASSUME NEW t, IsSeq(th[t].frames)
  PROVE  /\ Target(t) = Sought(th[t].frames, th[t].found, Len(th[t].frames))
         /\ th[t].frames # <<>> => Target(t) = GetFilePath(Stmt(t).path, Top(t).source)
<1>1. th[t].frames = <<>> <=> Len(th[t].frames) = 0 BY SeqFacts
<1> QED BY <1>1 DEF Target, Wanted, Source, Sought, Stmt, Top

\* A thread that goes on to another phase of the same import, with the same levels.
LEMMA SamePlace ==
  ASSUME NEW r, GoodThread(r), NEW s, IsThread(s), Phased(s),
         s.frames = r.frames, s.scope = r.scope, s.imports = r.imports,
         s.embedded = r.embedded, s.made = r.made, s.found = r.found \/ r.frames = <<>>
  PROVE  GoodThread(s)
<1>1. CASE s.found = r.found BY <1>1 DEF GoodThread, Sound
<1>2. CASE r.frames = <<>>
  <2>1. Len(r.frames) = 0 BY <1>2
  <2>2. Levels(s.frames, s.scope, s.imports, s.found) BY <2>1 DEF GoodThread, Sound, Levels
  <2> QED BY <2>2 DEF GoodThread, Sound
<1> QED BY <1>1, <1>2

\* The import ends with the module m.
LEMMA DeliverGood ==
  ASSUME NEW r, Sound(r), NEW m, GoodModule(m),
         r.frames # <<>> => AtImport(r.frames[Len(r.frames)])
  PROVE  /\ GoodThread(Deliver(r, m))
         /\ Deliver(r, m).phase \in {"embed", "run"} /\ Deliver(r, m).late = r.late
<1> DEFINE s == Deliver(r, m)
<1>1. CASE r.frames = <<>>
  <2> DEFINE p == CHOOSE q \in r.found : TRUE
             e == [q \in DOMAIN r.embedded \cup {p} |-> IF q = p THEN m ELSE r.embedded[q]]
  <2>1. s = [r EXCEPT !.phase = "embed", !.found = {}, !.scope = <<>>, !.imports = <<>>,
                      !.loaded = 0, !.embedded = e]
    BY <1>1 DEF Deliver
  <2>2. \A q \in DOMAIN e : GoodModule(e[q]) BY DEF GoodThread, Sound, GoodModules
  <2> HIDE DEF e
  <2>3. /\ IsThread(s) /\ s.phase = "embed" /\ s.frames = <<>> /\ s.scope = <<>> /\ s.imports = <<>>
        /\ s.embedded = e /\ s.made = r.made /\ s.late = r.late
    BY <1>1, <2>1 DEF GoodThread, Sound, IsThread, Phases
  <2> HIDE DEF s
  <2>4. <<>> \in Seq({}) /\ Len(<<>>) = 0 OBVIOUS
  <2>5. Levels(s.frames, s.scope, s.imports, s.found) BY <2>3, <2>4 DEF Levels, IsSeq, Ordered
  <2>6. GoodModules(s.imports, s.embedded, s.frames, s.made)
    BY <2>2, <2>3, <2>4 DEF GoodModules, GoodThread, Sound
  <2>7. Phased(s) BY <2>3 DEF Phased, Seeking
  <2>8. Len(s.frames) <= MaxDepth BY <2>3, <2>4, ResolverAssumption
  <2> QED BY <2>3, <2>5, <2>6, <2>7, <2>8 DEF GoodThread, Sound, s
<1>2. CASE r.frames # <<>>
  <2> DEFINE fs == r.frames
             f  == fs[Len(fs)]
             i  == [module |-> m, by |-> f.file]
             is == IF f.script[f.at].tried THEN r.imports ELSE Append(r.imports, i)
  <2>1. s = [r EXCEPT !.phase = "run", !.loaded = @ + 1, !.imports = is, !.frames = Advance(fs)]
    BY <1>2 DEF Deliver
  <2>2. /\ IsSeq(fs) /\ IsSeq(r.scope) /\ IsSeq(r.imports)
        /\ \A n \in 1..Len(fs) : IsFrame(fs[n])
    BY DEF GoodThread, Sound, Levels
  <2>3. Len(r.imports) \in Nat /\ Len(r.scope) \in Nat BY <2>2, SeqFacts
  <2>4. Grown(r.imports, is, f.file)
    <3>1. is = r.imports \/ is = Append(r.imports, i) OBVIOUS
    <3>2. i.by = f.file OBVIOUS
    <3> HIDE DEF is, i
    <3>3. CASE is = r.imports BY <2>2, <2>3, <3>3 DEF Grown
    <3>4. CASE is = Append(r.imports, i)
      <4>1. /\ IsSeq(is) /\ Len(is) = Len(r.imports) + 1 /\ is[Len(r.imports) + 1] = i
            /\ \A n \in 1..Len(r.imports) : is[n] = r.imports[n]
        BY <2>2, <3>4, AppendFacts
      <4>2. (Len(r.imports) + 1)..Len(is) = {Len(r.imports) + 1} BY <2>3, <4>1
      <4> QED BY <2>3, <3>2, <4>1, <4>2 DEF Grown
    <3> QED BY <3>1, <3>3, <3>4
  <2>5. Grown(r.scope, r.scope, f.file) /\ Exported(f, r.scope, r.scope)
    <3>1. f.script[f.at].op = "import" BY <1>2 DEF AtImport
    <3>2. Exported(f, r.scope, r.scope) BY <3>1 DEF Exported
    <3>3. (Len(r.scope) + 1)..Len(r.scope) = {} /\ Len(r.scope) <= Len(r.scope) BY <2>3
    <3> QED BY <2>2, <3>2, <3>3 DEF Grown
  <2>6. Levels(Advance(fs), r.scope, is, r.found) BY <1>2, <2>4, <2>5, ExtendLevels DEF GoodThread, Sound
  <2>7. /\ Len(Advance(fs)) = Len(fs) /\ IsSeq(Advance(fs))
        /\ \A n \in 1..Len(fs) : Advance(fs)[n].embedded = fs[n].embedded
    BY <1>2, <2>2, AdvanceFacts
  <2>8. \A n \in 1..Len(is) : GoodModule(is[n].module)
    <3>1. i.module = m OBVIOUS
    <3>2. is = r.imports \/ is = Append(r.imports, i) OBVIOUS
    <3> HIDE DEF is, i
    <3>3. \A n \in 1..Len(r.imports) : GoodModule(r.imports[n].module)
      BY DEF GoodThread, Sound, GoodModules
    <3>4. CASE is = Append(r.imports, i)
      <4>1. /\ Len(is) = Len(r.imports) + 1 /\ is[Len(r.imports) + 1] = i
            /\ \A n \in 1..Len(r.imports) : is[n] = r.imports[n]
        BY <2>2, <3>4, AppendFacts
      <4> QED BY <2>3, <3>1, <3>3, <4>1
    <3> QED BY <3>2, <3>3, <3>4
  <2>9. GoodModules(is, r.embedded, Advance(fs), r.made) BY <2>7, <2>8 DEF GoodThread, Sound, GoodModules
  <2>10. Len(Advance(fs)) <= MaxDepth /\ Advance(fs) # <<>>
    BY <1>2, <2>2, <2>7, SeqFacts DEF GoodThread, Sound
  <2> HIDE DEF is
  <2>11. /\ IsThread(s) /\ s.phase = "run" /\ s.frames = Advance(fs) /\ s.scope = r.scope
         /\ s.imports = is /\ s.found = r.found /\ s.embedded = r.embedded /\ s.made = r.made
         /\ s.late = r.late
    BY <2>1 DEF GoodThread, Sound, IsThread, Phases
  <2> HIDE DEF s
  <2>12. Phased(s) BY <2>10, <2>11 DEF Phased, Seeking
  <2> QED BY <2>6, <2>9, <2>10, <2>11, <2>12 DEF GoodThread, Sound, s
<1> QED BY <1>1, <1>2

\* An error ends the levels above the one that catches it.
LEMMA FailGood ==
  ASSUME NEW r, Sound(r), NEW c
  PROVE  /\ GoodThread(Fail(r, c))
         /\ Fail(r, c).phase \in {"failed", "run"} /\ Fail(r, c).late = r.late
<1> DEFINE s  == Fail(r, c)
           fs == r.frames
           ns == {n \in Catching(r) : c \/ n < Len(r.frames)}
           k  == CHOOSE n \in ns : \A j \in ns : j <= n
<1>1. IsSeq(fs) /\ IsSeq(r.scope) /\ IsSeq(r.imports) /\ \A n \in 1..Len(fs) : IsFrame(fs[n])
  BY DEF GoodThread, Sound, Levels
<1>2. Len(fs) \in Nat /\ Len(r.scope) \in Nat /\ Len(r.imports) \in Nat BY <1>1, SeqFacts
<1>3. CASE ns = {}
  <2>1. s = [r EXCEPT !.phase = "failed", !.frames = <<>>, !.imports = <<>>] BY <1>3 DEF Fail
  <2>2. /\ IsThread(s) /\ s.phase = "failed" /\ s.frames = <<>> /\ s.scope = r.scope
        /\ s.imports = <<>> /\ s.embedded = r.embedded /\ s.made = r.made /\ s.late = r.late
    BY <2>1 DEF GoodThread, Sound, IsThread, Phases
  <2> HIDE DEF s
  <2>3. <<>> \in Seq({}) /\ Len(<<>>) = 0 OBVIOUS
  <2>4. Levels(s.frames, s.scope, s.imports, s.found) BY <1>1, <2>2, <2>3 DEF Levels, IsSeq, Ordered
  <2>5. GoodModules(s.imports, s.embedded, s.frames, s.made)
    BY <2>2, <2>3 DEF GoodModules, GoodThread, Sound
  <2>6. Phased(s) /\ Len(s.frames) <= MaxDepth BY <2>2, <2>3, ResolverAssumption DEF Phased, Seeking
  <2> QED BY <2>2, <2>4, <2>5, <2>6 DEF GoodThread, Sound, s
<1>4. CASE ns # {}
  <2> DEFINE gs == SubSeq(fs, 1, k)
             ss == SubSeq(r.scope, 1, ScopeEnd(fs, r.scope, k))
             is == SubSeq(r.imports, 1, ImportsEnd(fs, r.imports, k))
  <2>1. k \in ns
    <3>1. ns \subseteq 1..Len(fs) BY DEF Catching
    <3>2. PICK i : i \in ns BY <1>4
    <3> HIDE DEF ns
    <3>3. \E n \in ns : \A j \in ns : j <= n BY <1>2, <3>1, <3>2, LastPosition
    <3> QED BY <3>3
  <2>2. s = [r EXCEPT !.phase = "run", !.scope = ss, !.imports = is, !.frames = Advance(gs)]
    BY <1>4 DEF Fail, ScopeAt, ImportsAt, ScopeEnd, ImportsEnd
  <2>3. /\ k \in 1..Len(fs) /\ fs[k].at <= Len(fs[k].script)
        /\ fs[k].script[fs[k].at].op = "import"
    BY <2>1 DEF Catching
  <2> HIDE DEF k, ns
  <2>4. /\ Levels(gs, ss, is, r.found)
        /\ ScopeEnd(fs, r.scope, k) \in 0..Len(r.scope)
        /\ ImportsEnd(fs, r.imports, k) \in 0..Len(r.imports)
    BY <1>2, <2>3, CutLevels DEF GoodThread, Sound
  <2>5. IsSeq(gs) /\ Len(gs) = k /\ \A n \in 1..k : gs[n] = fs[n] BY <1>1, <1>2, <2>3, CutFacts
  <2>6. \A n \in 1..Len(is) : n \in 1..Len(r.imports) /\ is[n] = r.imports[n]
    BY <1>1, <1>2, <2>4, CutFacts
  <2> HIDE DEF gs, ss, is
  <2>7. gs # <<>> /\ AtImport(gs[Len(gs)]) BY <2>3, <2>5, SeqFacts DEF AtImport
  <2>8. Levels(Advance(gs), ss, is, r.found) BY <2>4, <2>7, StayLevels
  <2>9. /\ IsSeq(Advance(gs)) /\ Len(Advance(gs)) = k
        /\ \A n \in 1..k : Advance(gs)[n].embedded = fs[n].embedded
    BY <2>4, <2>5, <2>7, AdvanceFacts DEF Levels
  <2>10. GoodModules(is, r.embedded, Advance(gs), r.made)
    <3>1. \A n \in 1..k : n \in 1..Len(fs) BY <1>2, <2>3
    <3> QED BY <2>6, <2>9, <3>1 DEF GoodThread, Sound, GoodModules
  <2>11. Len(Advance(gs)) <= MaxDepth /\ Advance(gs) # <<>>
    BY <1>2, <2>3, <2>9, SeqFacts, ResolverAssumption DEF GoodThread, Sound
  <2>12. /\ IsThread(s) /\ s.phase = "run" /\ s.frames = Advance(gs) /\ s.scope = ss
         /\ s.imports = is /\ s.found = r.found /\ s.embedded = r.embedded /\ s.made = r.made
         /\ s.late = r.late
    BY <2>2 DEF GoodThread, Sound, IsThread, Phases
  <2> HIDE DEF s
  <2>13. Phased(s) BY <2>11, <2>12 DEF Phased, Seeking
  <2> QED BY <2>8, <2>10, <2>11, <2>12, <2>13 DEF GoodThread, Sound, s
<1> QED BY <1>3, <1>4

\* The script of a module has come to its end, and the level is left.
LEMMA LeaveGood ==
  ASSUME NEW r, GoodThread(r), r.frames # <<>>, AtEnd(r.frames[Len(r.frames)]), NEW m, GoodModule(m)
  PROVE  LET s == Leave(r)
         IN /\ GoodThread([s EXCEPT !.phase = "try_write", !.tries = 0, !.made = {m}])
            /\ [s EXCEPT !.phase = "try_write", !.tries = 0, !.made = {m}].phase = "try_write"
            /\ Sound(s)
            /\ s.frames # <<>> => AtImport(s.frames[Len(s.frames)])
<1> DEFINE fs == r.frames
           k  == Len(fs) - 1
           f  == fs[Len(fs)]
           gs == SubSeq(fs, 1, k)
           ss == SubSeq(r.scope, 1, f.scopeLen)
           is == SubSeq(r.imports, 1, f.importsLen)
           s  == Leave(r)
           u  == [s EXCEPT !.phase = "try_write", !.tries = 0, !.made = {m}]
<1>1. IsSeq(fs) /\ IsSeq(r.scope) /\ IsSeq(r.imports) /\ \A n \in 1..Len(fs) : IsFrame(fs[n])
  BY DEF GoodThread, Sound, Levels
<1>2. Len(fs) \in Nat \ {0} /\ Len(r.scope) \in Nat /\ Len(r.imports) \in Nat BY <1>1, SeqFacts
<1>3. k \in 0..Len(fs) /\ k # Len(fs) /\ k + 1 = Len(fs) /\ Len(fs) \in 1..Len(fs) BY <1>2
<1>4. f.scopeLen = ScopeEnd(fs, r.scope, k) /\ f.importsLen = ImportsEnd(fs, r.imports, k)
  BY <1>3 DEF ScopeEnd, ImportsEnd
<1>5. s = [r EXCEPT !.scope = ss, !.imports = is, !.frames = gs] BY DEF Leave, Front
<1>6. Linked(fs, r.found, Len(fs)) /\ (k # 0 => AtImport(fs[k]))
  <2>1. k # 0 => k \in 1..(Len(fs) - 1)
    <3>1. k = Len(fs) - 1 OBVIOUS
    <3> HIDE DEF k
    <3>2. k \in Nat BY <1>2, <1>3
    <3>3. k # 0 => k \in 1..k BY <3>2
    <3> QED BY <3>1, <3>3
  <2> QED BY <1>3, <2>1 DEF GoodThread, Sound, Levels
<1>7. Sought(fs, r.found, k) \in DOMAIN Files BY <1>6 DEF Linked, AtEnd
<1> HIDE DEF k, f
<1>8. /\ Levels(gs, ss, is, r.found)
      /\ f.scopeLen \in 0..Len(r.scope) /\ f.importsLen \in 0..Len(r.imports)
  BY <1>3, <1>4, CutLevels DEF GoodThread, Sound
<1>9. IsSeq(gs) /\ Len(gs) = k /\ \A n \in 1..k : gs[n] = fs[n] BY <1>1, <1>3, CutFacts
<1>10. \A n \in 1..Len(is) : n \in 1..Len(r.imports) /\ is[n] = r.imports[n]
  BY <1>1, <1>2, <1>8, CutFacts
<1> HIDE DEF gs, ss, is, s
<1>11. /\ DOMAIN s = DOMAIN r /\ s.frames = gs /\ s.scope = ss /\ s.imports = is
       /\ s.found = r.found /\ s.embedded = r.embedded /\ s.made = r.made /\ s.late = r.late
       /\ s.phase = r.phase /\ s.loaded \in Nat /\ s.runs \in 0..MaxRuns /\ s.tries \in 0..MaxTries
  BY <1>5 DEF GoodThread, Sound, IsThread
<1>12. gs # <<>> => AtImport(gs[Len(gs)])
  <2>1. gs # <<>> => k # 0 /\ k \in 1..k BY <1>3, <1>9, SeqFacts
  <2> QED BY <1>6, <1>9, <2>1
<1>13. Sought(gs, r.found, Len(gs)) = Sought(fs, r.found, k)
  <2>1. k = 0 \/ k \in 1..k BY <1>3
  <2> QED BY <1>9, <2>1 DEF Sought
<1>14. /\ GoodModules(is, r.embedded, gs, {m}) /\ GoodModules(is, r.embedded, gs, r.made)
       /\ Len(gs) <= MaxDepth
  <2>1. \A n \in 1..k : n \in 1..Len(fs) BY <1>2, <1>3
  <2>2. Len(gs) <= MaxDepth BY <1>2, <1>3, <1>9, ResolverAssumption DEF GoodThread, Sound
  <2> QED BY <1>9, <1>10, <2>1, <2>2 DEF GoodThread, Sound, GoodModules
<1>15. GoodThread(u) /\ u.phase = "try_write"
  <2>1. /\ IsThread(u) /\ u.phase = "try_write" /\ u.frames = gs /\ u.scope = ss /\ u.imports = is
        /\ u.found = r.found /\ u.embedded = r.embedded /\ u.made = {m}
    BY <1>11, ResolverAssumption DEF GoodThread, Sound, IsThread, Phases
  <2> HIDE DEF u
  <2>2. Phased(u) BY <1>7, <1>12, <1>13, <2>1 DEF Phased
  <2> QED BY <1>8, <1>14, <2>1, <2>2 DEF GoodThread, Sound
<1>16. Sound(s) BY <1>8, <1>11, <1>14 DEF GoodThread, Sound, IsThread
<1> QED BY <1>11, <1>12, <1>15, <1>16 DEF s

\* The file that the import is looking for is run as a new level.
LEMMA LoadGood ==
  ASSUME NEW r, GoodThread(r), r.phase = "load", NEW f, NEW src,
         f = Sought(r.frames, r.found, Len(r.frames)), f \in DOMAIN Files, Len(r.frames) < MaxDepth
  PROVE  LET s == [r EXCEPT !.phase = "run",
                            !.frames = Append(@, Frame(f, Files[f], src, NoModules, r.scope, r.imports))]
         IN GoodThread(s) /\ s.phase = "run"
<1> DEFINE fs == r.frames
           g  == Frame(f, Files[f], src, NoModules, r.scope, r.imports)
           gs == Append(fs, g)
           s  == [r EXCEPT !.phase = "run", !.frames = gs]
<1>1. IsSeq(fs) /\ IsSeq(r.scope) /\ IsSeq(r.imports) BY DEF GoodThread, Sound, Levels
<1>2. Len(fs) \in Nat /\ Len(r.scope) \in Nat /\ Len(r.imports) \in Nat BY <1>1, SeqFacts
<1>3. Files[f] \in Seq(Statement) BY ResolverAssumption
<1>4. /\ IsFrame(g) /\ g.file = f /\ g.script = Files[f] /\ g.at = 1 /\ g.embedded = NoModules
      /\ g.scopeLen = Len(r.scope) /\ g.importsLen = Len(r.imports)
  BY <1>2, <1>3 DEF Frame, IsFrame
<1> HIDE DEF g
<1>5. IsSeq(gs) /\ Len(gs) = Len(fs) + 1 /\ gs[Len(fs) + 1] = g /\ \A n \in 1..Len(fs) : gs[n] = fs[n]
  BY <1>1, AppendFacts
<1> HIDE DEF gs
<1>6. Levels(gs, r.scope, r.imports, r.found)
  BY <1>4, PushLevels DEF GoodThread, Sound, Phased, Seeking, gs
<1>7. GoodModules(r.imports, r.embedded, gs, r.made)
  <2>1. \A n \in 1..Len(gs) : gs[n] = g \/ (n \in 1..Len(fs) /\ gs[n] = fs[n]) BY <1>2, <1>5
  <2>2. DOMAIN NoModules = {} BY DEF NoModules
  <2> QED BY <1>4, <2>1, <2>2 DEF GoodModules, GoodThread, Sound
<1>8. Len(gs) <= MaxDepth /\ gs # <<>> BY <1>2, <1>5, SeqFacts, ResolverAssumption
<1>9. /\ IsThread(s) /\ s.phase = "run" /\ s.frames = gs /\ s.scope = r.scope
      /\ s.imports = r.imports /\ s.found = r.found /\ s.embedded = r.embedded /\ s.made = r.made
  BY DEF GoodThread, Sound, IsThread, Phases
<1> HIDE DEF s
<1>10. Phased(s) BY <1>8, <1>9 DEF Phased, Seeking
<1>11. GoodThread(s) /\ s.phase = "run" BY <1>6, <1>7, <1>8, <1>9, <1>10 DEF GoodThread, Sound
<1> QED BY <1>11 DEF s, gs, g

\* `let` puts a variable of its script at the end of the scope.
LEMMA LetGood ==
  ASSUME NEW r, GoodThread(r), r.phase = "run", NEW f, f = r.frames[Len(r.frames)],
         f.script[f.at].op = "let"
  PROVE  LET s == [r EXCEPT !.scope = Append(@, [alias |-> f.script[f.at].alias, by |-> f.file]),
                            !.frames = Advance(@)]
         IN GoodThread(s) /\ s.phase = "run"
<1> DEFINE fs == r.frames
           e  == [alias |-> f.script[f.at].alias, by |-> f.file]
           ss == Append(r.scope, e)
           s  == [r EXCEPT !.scope = ss, !.frames = Advance(fs)]
<1>1. /\ IsSeq(fs) /\ IsSeq(r.scope) /\ IsSeq(r.imports) /\ fs # <<>>
      /\ \A n \in 1..Len(fs) : IsFrame(fs[n])
  BY DEF GoodThread, Sound, Levels, Phased
<1>2. Len(fs) \in Nat /\ Len(r.scope) \in Nat /\ Len(r.imports) \in Nat BY <1>1, SeqFacts
<1>3. e.alias = f.script[f.at].alias /\ e.by = f.file OBVIOUS
<1> HIDE DEF e
<1>4. /\ IsSeq(ss) /\ Len(ss) = Len(r.scope) + 1 /\ ss[Len(r.scope) + 1] = e
      /\ \A n \in 1..Len(r.scope) : ss[n] = r.scope[n]
  BY <1>1, AppendFacts
<1> HIDE DEF ss
<1>5. Len(r.scope) <= Len(ss) /\ Len(r.scope) < Len(ss)
      /\ (Len(r.scope) + 1)..Len(ss) = {Len(r.scope) + 1}
  BY <1>2, <1>4
<1>6. Grown(r.scope, ss, f.file) BY <1>3, <1>4, <1>5 DEF Grown
<1>7. Exported(f, r.scope, ss) BY <1>3, <1>4, <1>5 DEF Exported
<1>8. Grown(r.imports, r.imports, f.file)
  <2>1. (Len(r.imports) + 1)..Len(r.imports) = {} /\ Len(r.imports) <= Len(r.imports) BY <1>2
  <2> QED BY <1>1, <2>1 DEF Grown
<1>9. Levels(Advance(fs), ss, r.imports, r.found)
  BY <1>1, <1>6, <1>7, <1>8, ExtendLevels DEF GoodThread, Sound
<1>10. /\ IsSeq(Advance(fs)) /\ Len(Advance(fs)) = Len(fs)
       /\ \A n \in 1..Len(fs) : Advance(fs)[n].embedded = fs[n].embedded
  BY <1>1, AdvanceFacts
<1>11. GoodModules(r.imports, r.embedded, Advance(fs), r.made)
  BY <1>10 DEF GoodThread, Sound, GoodModules
<1>12. Len(Advance(fs)) <= MaxDepth /\ Advance(fs) # <<>> BY <1>1, <1>10, SeqFacts DEF GoodThread, Sound
<1>13. /\ IsThread(s) /\ s.phase = "run" /\ s.frames = Advance(fs) /\ s.scope = ss
       /\ s.imports = r.imports /\ s.found = r.found /\ s.embedded = r.embedded /\ s.made = r.made
  BY DEF GoodThread, Sound, IsThread, Phases
<1> HIDE DEF s
<1>14. Phased(s) BY <1>12, <1>13 DEF Phased, Seeking
<1>15. GoodThread(s) /\ s.phase = "run" BY <1>9, <1>11, <1>12, <1>13, <1>14 DEF GoodThread, Sound
<1> QED BY <1>15 DEF s, ss, e

\* A thread without levels: nothing can be wrong with them.
LEMMA EmptyLevels ==
  ASSUME NEW fd PROVE Levels(<<>>, <<>>, <<>>, fd) /\ IsSeq(<<>>) /\ Len(<<>>) = 0
<1>1. <<>> \in Seq({}) /\ Len(<<>>) = 0 OBVIOUS
<1> QED BY <1>1 DEF Levels, IsSeq, Ordered

\* A thread enters its script with the modules embedded in it.
LEMMA EnterGood ==
  ASSUME NEW t \in Threads, NEW r, Sound(r), r.frames = <<>>, r.scope = <<>>, r.imports = <<>>
  PROVE  GoodThread(Enter(r, t)) /\ Enter(r, t).phase = "run"
<1> DEFINE f  == Frame(NoPath, Program[t], NoPath, r.embedded, <<>>, <<>>)
           gs == Append(<<>>, f)
           s  == [r EXCEPT !.phase = "run", !.frames = gs]
<1>1. Program[t] \in Seq(Statement) /\ Len(<<>>) = 0 BY ResolverAssumption
<1>2. /\ IsFrame(f) /\ f.file = NoPath /\ f.at = 1 /\ f.scopeLen = Len(<<>>)
      /\ f.importsLen = Len(<<>>) /\ f.embedded = r.embedded
  BY <1>1 DEF Frame, IsFrame
<1>3. Enter(r, t) = s BY DEF Enter
<1> HIDE DEF f
<1>4. IsSeq(gs) /\ Len(gs) = 1 /\ gs[1] = f
  <2>1. <<>> \in Seq({f}) /\ f \in {f} OBVIOUS
  <2>2. gs \in Seq({f}) /\ Len(gs) = 1 /\ gs[1] = f BY <2>1
  <2> QED BY <2>2 DEF IsSeq
<1> HIDE DEF gs
<1>5. Levels(gs, r.scope, r.imports, r.found) BY <1>2, EmptyLevels, PushLevels DEF gs
<1>6. GoodModules(r.imports, r.embedded, gs, r.made) BY <1>2, <1>4 DEF GoodModules, Sound
<1>7. Len(gs) <= MaxDepth /\ gs # <<>>
  <2>1. gs # <<>>
    <3>1. gs = <<>> => Len(gs) = 0 BY <1>1, Zenon
    <3> QED BY <1>4, <3>1
  <2> QED BY <1>4, <2>1, ResolverAssumption
<1>8. /\ IsThread(s) /\ s.phase = "run" /\ s.frames = gs /\ s.scope = r.scope
      /\ s.imports = r.imports /\ s.found = r.found /\ s.embedded = r.embedded /\ s.made = r.made
  BY DEF Sound, IsThread, Phases
<1> HIDE DEF s
<1>9. Phased(s) BY <1>7, <1>8 DEF Phased, Seeking
<1> QED BY <1>3, <1>5, <1>6, <1>7, <1>8, <1>9 DEF GoodThread, Sound

LEMMA IdleGood ==
  ASSUME NEW s, IsThread(s), s.phase \in {"idle", "embed"},
         s.frames = <<>>, s.scope = <<>>, s.imports = <<>>, s.made = {}, s.embedded = NoModules
  PROVE  GoodThread(s)
<1>2. DOMAIN NoModules = {} BY DEF NoModules
<1>3. Levels(s.frames, s.scope, s.imports, s.found) /\ Len(s.frames) = 0 /\ Len(s.imports) = 0
  BY EmptyLevels
<1>4. GoodModules(s.imports, s.embedded, s.frames, s.made) BY <1>2, <1>3 DEF GoodModules
<1>5. Phased(s) BY DEF Phased, Seeking
<1>6. Len(s.frames) <= MaxDepth BY <1>3, ResolverAssumption
<1> QED BY <1>3, <1>4, <1>5, <1>6 DEF GoodThread, Sound

-----------------------------------------------------------------------------
\* The steps of a thread.

Locking == {"read", "write"}

LEMMA ThreadMoves ==
  ASSUME RInv, NEW t \in Threads, NEW r, Go(t, r), GoodThread(r), Late(r, stored),
         r.phase \notin Locking, th[t].phase \notin Locking,
         UNCHANGED <<cache, readers, writer, stored>>
  PROVE  RInv'
<1>1. DOMAIN th' = Threads /\ th'[t] = r /\ \A u \in Threads : u # t => th'[u] = th[u] BY DEF RInv, Go
<1>2. \A u \in Threads : GoodThread(th'[u]) /\ Late(th'[u], stored) BY <1>1 DEF RInv
<1>3. \A u \in Threads : /\ th'[u].phase = "read" <=> th[u].phase = "read"
                         /\ th'[u].phase = "write" <=> th[u].phase = "write"
  BY <1>1 DEF Locking
<1>4. /\ {u \in Threads : th'[u].phase = "read"} = {u \in Threads : th[u].phase = "read"}
      /\ {u \in Threads : th'[u].phase = "write"} = {u \in Threads : th[u].phase = "write"}
  BY <1>3
<1> QED BY <1>1, <1>2, <1>4 DEF RInv

LEMMA StartStep ==
  ASSUME RInv, NEW t \in Threads, Start(t) PROVE RInv'
<1> DEFINE n == th[t].runs + 1
           r == [Idle EXCEPT !.runs = n]
           a == [r EXCEPT !.phase = "embed", !.pending = Paths(Program[t])]
<1>1. n \in 0..MaxRuns
  <2>1. th[t].runs \in 0..MaxRuns /\ th[t].runs < MaxRuns BY DEF Start, RInv, GoodThread, Sound, IsThread
  <2> QED BY <2>1, ResolverAssumption
<1>2. th[t].phase \notin Locking BY DEF Start, Locking
<1>3. Go(t, IF t \in SelfContained THEN a ELSE Enter(r, t))
      /\ UNCHANGED <<cache, readers, writer, stored>>
  BY DEF Start
<1> HIDE DEF n
<1>4. /\ IsThread(r) /\ r.phase = "idle" /\ r.frames = <<>> /\ r.scope = <<>>
      /\ r.imports = <<>> /\ r.made = {} /\ r.embedded = NoModules
  BY <1>1, ResolverAssumption DEF Idle, IsThread, Phases
<1> HIDE DEF r
<1>5. CASE t \in SelfContained
  <2>1. /\ IsThread(a) /\ a.phase = "embed" /\ a.frames = <<>> /\ a.scope = <<>>
        /\ a.imports = <<>> /\ a.made = {} /\ a.embedded = NoModules
    BY <1>4 DEF IsThread, Phases
  <2> HIDE DEF a
  <2>2. GoodThread(a) /\ Late(a, stored) /\ a.phase \notin Locking BY <2>1, IdleGood DEF Late, Locking
  <2> QED BY <1>2, <1>3, <1>5, <2>1, <2>2, ThreadMoves
<1>6. CASE t \notin SelfContained
  <2>1. Sound(r) BY <1>4, IdleGood DEF GoodThread
  <2>2. GoodThread(Enter(r, t)) /\ Enter(r, t).phase = "run" BY <1>4, <2>1, EnterGood
  <2>3. Late(Enter(r, t), stored) /\ Enter(r, t).phase \notin Locking BY <2>2 DEF Late, Locking
  <2>4. Go(t, Enter(r, t)) BY <1>3, <1>6
  <2> QED BY <1>2, <1>3, <2>2, <2>3, <2>4, ThreadMoves
<1> QED BY <1>5, <1>6

\* While the cache is cleared no thread looks anything up.
LEMMA ClearStep ==
  ASSUME RInv, ClearCache \/ ClearCacheForPath PROVE RInv'
<1>1. /\ UNCHANGED <<th, readers, writer>>
      /\ \A t \in Threads : ~Busy(t)
  BY DEF ClearCache, ClearCacheForPath
<1>2. \A t \in Threads : Late(th[t], stored')
  <2>1. \A t \in Threads : th[t].phase \in {"idle", "done", "failed", "panic"} BY <1>1 DEF Busy
  <2> QED BY <2>1 DEF Late
<1>3. /\ stored' = DOMAIN cache' /\ stored' \subseteq DOMAIN Files
      /\ \A p \in DOMAIN cache' : GoodModule(cache'[p])
  <2>1. CASE ClearCache BY <2>1 DEF ClearCache, NoModules
  <2>2. CASE ClearCacheForPath BY <2>2 DEF ClearCacheForPath, RInv
  <2> QED BY <2>1, <2>2
<1> QED BY <1>1, <1>2, <1>3 DEF RInv

LEMMA EmbedStep ==
  ASSUME RInv, NEW t \in Threads, EmbedNext(t) \/ EmbedDone(t) PROVE RInv'
<1> DEFINE r == th[t]
<1>1. GoodThread(r) /\ r.phase = "embed" /\ UNCHANGED <<cache, readers, writer, stored>>
  BY DEF RInv, EmbedNext, EmbedDone
<1>2. r.frames = <<>> /\ r.scope = <<>> /\ r.imports = <<>> /\ r.phase \notin Locking
  BY <1>1 DEF GoodThread, Phased, Locking
<1>3. CASE EmbedNext(t)
  <2>1. \/ Go(t, [r EXCEPT !.phase = "panic"])
        \/ \E p, q : Go(t, [r EXCEPT !.phase = "resolve", !.idx = 1, !.found = {p}, !.pending = q])
    BY <1>3 DEF EmbedNext
  <2>2. CASE Go(t, [r EXCEPT !.phase = "panic"])
    <3> DEFINE s == [r EXCEPT !.phase = "panic"]
    <3>1. /\ IsThread(s) /\ s.phase = "panic" /\ s.frames = r.frames /\ s.scope = r.scope
          /\ s.imports = r.imports /\ s.embedded = r.embedded /\ s.made = r.made
      BY <1>1 DEF GoodThread, Sound, IsThread, Phases
    <3> HIDE DEF s
    <3>2. Phased(s) /\ Late(s, stored) /\ s.phase \notin Locking
      BY <3>1 DEF Phased, Seeking, Late, Locking
    <3>3. GoodThread(s) BY <1>1, <1>2, <3>1, <3>2, SamePlace
    <3> QED BY <1>1, <1>2, <2>2, <3>2, <3>3, ThreadMoves DEF s
  <2>3. ASSUME NEW p, NEW q,
               Go(t, [r EXCEPT !.phase = "resolve", !.idx = 1, !.found = {p}, !.pending = q])
        PROVE  RInv'
    <3> DEFINE s == [r EXCEPT !.phase = "resolve", !.idx = 1, !.found = {p}, !.pending = q]
    <3>1. /\ IsThread(s) /\ s.phase = "resolve" /\ s.frames = r.frames /\ s.scope = r.scope
          /\ s.imports = r.imports /\ s.embedded = r.embedded /\ s.made = r.made
      BY <1>1 DEF GoodThread, Sound, IsThread, Phases
    <3> HIDE DEF s
    <3>2. Phased(s) /\ Late(s, stored) /\ s.phase \notin Locking
      BY <1>2, <3>1 DEF Phased, Seeking, Late, Locking
    <3>3. GoodThread(s) BY <1>1, <1>2, <3>1, <3>2, SamePlace
    <3> QED BY <1>1, <1>2, <2>3, <3>2, <3>3, ThreadMoves DEF s
  <2> QED BY <2>1, <2>2, <2>3
<1>4. CASE EmbedDone(t)
  <2>1. GoodThread(Enter(r, t)) /\ Enter(r, t).phase = "run" BY <1>1, <1>2, EnterGood DEF GoodThread
  <2>2. Late(Enter(r, t), stored) /\ Enter(r, t).phase \notin Locking BY <2>1 DEF Late, Locking
  <2> QED BY <1>1, <1>2, <1>4, <2>1, <2>2, ThreadMoves DEF EmbedDone
<1> QED BY <1>3, <1>4

LEMMA DeliverStep ==
  ASSUME RInv, NEW t \in Threads, NEW r, Sound(r), NEW m, GoodModule(m),
         r.frames # <<>> => AtImport(r.frames[Len(r.frames)]),
         Go(t, Deliver(r, m)), th[t].phase \notin Locking,
         UNCHANGED <<cache, readers, writer, stored>>
  PROVE  RInv'
<1>1. GoodThread(Deliver(r, m)) /\ Deliver(r, m).phase \in {"embed", "run"} BY DeliverGood
<1>2. Late(Deliver(r, m), stored) /\ Deliver(r, m).phase \notin Locking BY <1>1 DEF Late, Locking
<1> QED BY <1>1, <1>2, ThreadMoves

LEMMA FailStep ==
  ASSUME RInv, NEW t \in Threads, NEW c, Go(t, Fail(th[t], c)), th[t].phase \notin Locking,
         UNCHANGED <<cache, readers, writer, stored>>
  PROVE  RInv'
<1>1. GoodThread(Fail(th[t], c)) /\ Fail(th[t], c).phase \in {"failed", "run"}
  BY FailGood DEF RInv, GoodThread
<1>2. Late(Fail(th[t], c), stored) /\ Fail(th[t], c).phase \notin Locking BY <1>1 DEF Late, Locking
<1> QED BY <1>1, <1>2, ThreadMoves

\* The thread goes on with the same import: only its phase and its counters change.
LEMMA PhaseStep ==
  ASSUME RInv, NEW t \in Threads, NEW s, IsThread(s), Go(t, s),
         s.frames = th[t].frames, s.scope = th[t].scope, s.imports = th[t].imports,
         s.embedded = th[t].embedded, s.made = th[t].made, s.found = th[t].found,
         Phased(s), Late(s, stored), s.phase \notin Locking, th[t].phase \notin Locking,
         UNCHANGED <<cache, readers, writer, stored>>
  PROVE  RInv'
<1>1. GoodThread(s) BY SamePlace DEF RInv
<1> QED BY <1>1, ThreadMoves

LEMMA StmtStep ==
  ASSUME RInv, NEW t \in Threads, LetStmt(t) \/ ThrowStmt(t) \/ ImportStmt(t) PROVE RInv'
<1> DEFINE r == th[t]
           f == r.frames[Len(r.frames)]
<1>1. /\ GoodThread(r) /\ r.phase = "run" /\ r.phase \notin Locking
      /\ UNCHANGED <<cache, readers, writer, stored>>
  BY DEF RInv, LetStmt, ThrowStmt, ImportStmt, Locking
<1>2. Top(t) = f /\ Stmt(t) = f.script[f.at] BY DEF Top, Stmt
<1>3. CASE LetStmt(t)
  <2> DEFINE s == [r EXCEPT !.scope = Append(@, [alias |-> f.script[f.at].alias, by |-> f.file]),
                            !.frames = Advance(@)]
  <2>1. Go(t, s) /\ f.script[f.at].op = "let" BY <1>2, <1>3 DEF LetStmt
  <2>2. PICK g : g = f OBVIOUS
  <2>3. GoodThread(s) /\ s.phase = "run" BY <1>1, <2>1, <2>2, LetGood
  <2> HIDE DEF s
  <2>4. Late(s, stored) /\ s.phase \notin Locking BY <2>3 DEF Late, Locking
  <2> QED BY <1>1, <2>1, <2>3, <2>4, ThreadMoves
<1>4. CASE ThrowStmt(t) BY <1>1, <1>4, FailStep DEF ThrowStmt
<1>5. CASE ImportStmt(t)
  <2>1. AtImport(f) /\ r.frames # <<>> BY <1>1, <1>2, <1>5 DEF ImportStmt, AtImport, GoodThread, Phased
  <2>2. CASE Go(t, Fail(r, FALSE)) BY <1>1, <2>2, FailStep
  <2>3. CASE Stmt(t).path \in DOMAIN f.embedded /\ Go(t, Deliver(r, f.embedded[Stmt(t).path]))
    <3>1. Len(r.frames) \in 1..Len(r.frames) BY <1>1, <2>1, SeqFacts DEF GoodThread, Sound, Levels
    <3>2. GoodModule(f.embedded[Stmt(t).path]) BY <1>1, <2>3, <3>1 DEF GoodThread, Sound, GoodModules
    <3> QED BY <1>1, <2>1, <2>3, <3>2, DeliverStep DEF GoodThread
  <2>4. CASE Go(t, [r EXCEPT !.phase = "resolve", !.idx = 1])
    <3> DEFINE s == [r EXCEPT !.phase = "resolve", !.idx = 1]
    <3>1. /\ IsThread(s) /\ s.phase = "resolve" /\ s.frames = r.frames /\ s.scope = r.scope
          /\ s.imports = r.imports /\ s.embedded = r.embedded /\ s.made = r.made
          /\ s.found = r.found
      BY <1>1 DEF GoodThread, Sound, IsThread, Phases
    <3>2. Go(t, s) BY <2>4
    <3> HIDE DEF s
    <3>3. Phased(s) /\ Late(s, stored) /\ s.phase \notin Locking BY <2>1, <3>1 DEF Phased, Late, Locking
    <3> QED BY <1>1, <3>1, <3>2, <3>3, PhaseStep
  <2> QED BY <1>2, <1>5, <2>2, <2>3, <2>4 DEF ImportStmt
<1> QED BY <1>3, <1>4, <1>5

LEMMA ResolveStep ==
  ASSUME RInv, NEW t \in Threads, ResolveNext(t) PROVE RInv'
<1> DEFINE r == th[t]
<1>1. /\ GoodThread(r) /\ r.phase = "resolve" /\ r.phase \notin Locking
      /\ UNCHANGED <<cache, readers, writer, stored>>
  BY DEF RInv, ResolveNext, Locking
<1>2. r.frames # <<>> => AtImport(r.frames[Len(r.frames)]) BY <1>1 DEF GoodThread, Phased, Seeking
<1>3. CASE Go(t, Fail(r, TRUE)) BY <1>1, <1>3, FailStep
<1>4. CASE Wanted(t) \in Static /\ Go(t, Deliver(r, StaticModule(Wanted(t))))
  <2>1. GoodModule(StaticModule(Wanted(t)))
    BY <1>4, ResolverAssumption DEF GoodModule, StaticModule, Module
  <2> QED BY <1>1, <1>2, <1>4, <2>1, DeliverStep DEF GoodThread
<1>5. CASE Go(t, [r EXCEPT !.idx = @ + 1])
  <2> DEFINE s == [r EXCEPT !.idx = @ + 1]
  <2>1. /\ IsThread(s) /\ s.phase = "resolve" /\ s.frames = r.frames /\ s.scope = r.scope
        /\ s.imports = r.imports /\ s.embedded = r.embedded /\ s.made = r.made
        /\ s.found = r.found
    BY <1>1 DEF GoodThread, Sound, IsThread, Phases
  <2>2. Go(t, s) BY <1>5
  <2> HIDE DEF s
  <2>3. Phased(s) /\ Late(s, stored) /\ s.phase \notin Locking BY <1>2, <2>1 DEF Phased, Late, Locking
  <2> QED BY <1>1, <2>1, <2>2, <2>3, PhaseStep
<1>6. CASE Go(t, [r EXCEPT !.phase = IF CacheEnabled THEN "try_read" ELSE "load",
                           !.tries = 0, !.late = Target(t) \in stored])
  <2> DEFINE p == IF CacheEnabled THEN "try_read" ELSE "load"
             l == Target(t) \in stored
             s == [r EXCEPT !.phase = p, !.tries = 0, !.late = l]
  <2>1. p \in {"try_read", "load"} /\ (p = "load" => ~CacheEnabled) OBVIOUS
  <2>2. Go(t, s) BY <1>6
  <2>3. Target(t) = Sought(r.frames, r.found, Len(r.frames))
    BY <1>1, TargetIsSought DEF GoodThread, Sound, Levels
  <2>4. l = (Sought(r.frames, r.found, Len(r.frames)) \in stored) BY <2>3
  <2> HIDE DEF p, l
  <2>5. /\ IsThread(s) /\ s.phase = p /\ s.frames = r.frames /\ s.scope = r.scope
        /\ s.imports = r.imports /\ s.embedded = r.embedded /\ s.made = r.made
        /\ s.found = r.found /\ s.late = l
    BY <1>1, <2>1, ResolverAssumption DEF GoodThread, Sound, IsThread, Phases
  <2> HIDE DEF s
  <2>6. Phased(s) /\ s.phase \notin Locking BY <1>2, <2>1, <2>5 DEF Phased, Locking
  <2>7. Late(s, stored) BY <2>1, <2>4, <2>5 DEF Late
  <2> QED BY <1>1, <2>2, <2>5, <2>6, <2>7, PhaseStep
<1> QED BY <1>3, <1>4, <1>5, <1>6 DEF ResolveNext

\* A lock that is not free is tried again, or the thread panics.
LEMMA TryStep ==
  ASSUME RInv, NEW t \in Threads, Go(t, TryAgain(th[t])), th[t].phase \in {"try_read", "try_write"},
         UNCHANGED <<cache, readers, writer, stored>>
  PROVE  RInv'
<1> DEFINE r == th[t]
           s == TryAgain(r)
<1>1. GoodThread(r) /\ Late(r, stored) /\ r.phase \notin Locking BY DEF RInv, Locking
<1>2. /\ IsThread(s) /\ s.phase \in {r.phase, "panic"} /\ s.frames = r.frames /\ s.scope = r.scope
      /\ s.imports = r.imports /\ s.embedded = r.embedded /\ s.made = r.made
      /\ s.found = r.found /\ s.late = r.late
  <2>1. CASE r.tries + 1 < MaxTries
    <3>1. s = [r EXCEPT !.tries = @ + 1] BY <2>1 DEF TryAgain
    <3>2. PICK n \in 0..MaxTries : n = r.tries + 1
      BY <1>1, <2>1, ResolverAssumption DEF GoodThread, Sound, IsThread
    <3>3. s = [r EXCEPT !.tries = n] BY <3>1, <3>2
    <3> QED BY <1>1, <3>3 DEF GoodThread, Sound, IsThread
  <2>2. CASE ~(r.tries + 1 < MaxTries) BY <1>1, <2>2 DEF TryAgain, GoodThread, Sound, IsThread, Phases
  <2> QED BY <2>1, <2>2
<1> HIDE DEF s
<1>3. Phased(s) /\ s.phase \notin Locking BY <1>1, <1>2 DEF GoodThread, Phased, Seeking, Locking
<1>4. Late(s, stored) BY <1>1, <1>2 DEF Late
<1> QED BY <1>1, <1>2, <1>3, <1>4, PhaseStep DEF s

\* The thread takes a lock; the others stay as they are.
LEMMA LockStep ==
  ASSUME RInv, NEW t \in Threads, LockedRead(t) \/ LockedWrite(t) PROVE RInv'
<1> DEFINE r == th[t]
<1>1. GoodThread(r) /\ Late(r, stored) /\ r.phase \in {"try_read", "try_write"}
  BY DEF RInv, LockedRead, LockedWrite
<1>2. CASE Go(t, TryAgain(r)) /\ UNCHANGED <<cache, readers, writer, stored>> BY <1>1, <1>2, TryStep
<1>3. ASSUME NEW p \in Locking, Go(t, [r EXCEPT !.phase = p]), UNCHANGED <<cache, stored>>,
             p = "read" => /\ r.phase = "try_read" /\ writer = {}
                          /\ readers' = readers \cup {t} /\ UNCHANGED writer,
             p = "write" => /\ r.phase = "try_write" /\ writer = {} /\ readers = {}
                           /\ writer' = {t} /\ UNCHANGED readers
      PROVE  RInv'
  <2> DEFINE s == [r EXCEPT !.phase = p]
  <2>1. /\ IsThread(s) /\ s.phase = p /\ s.frames = r.frames /\ s.scope = r.scope
        /\ s.imports = r.imports /\ s.embedded = r.embedded /\ s.made = r.made
        /\ s.found = r.found /\ s.late = r.late
    BY <1>1 DEF GoodThread, Sound, IsThread, Phases, Locking
  <2>2. Go(t, s) BY <1>3
  <2> HIDE DEF s
  <2>3. Phased(s) /\ Late(s, stored) BY <1>1, <1>3, <2>1 DEF GoodThread, Phased, Seeking, Late, Locking
  <2>4. GoodThread(s) BY <1>1, <2>1, <2>3, SamePlace
  <2>5. DOMAIN th' = Threads /\ th'[t] = s /\ \A u \in Threads : u # t => th'[u] = th[u]
    BY <2>2 DEF RInv, Go
  <2>6. \A u \in Threads : GoodThread(th'[u]) /\ Late(th'[u], stored) BY <2>3, <2>4, <2>5 DEF RInv
  <2>7. /\ readers' = {u \in Threads : th'[u].phase = "read"}
        /\ writer' = {u \in Threads : th'[u].phase = "write"}
    BY <1>1, <1>3, <2>1, <2>5 DEF RInv, Locking
  <2>8. \A u \in writer' : writer' = {u} /\ readers' = {} BY <1>3 DEF Locking
  <2> QED BY <1>3, <2>5, <2>6, <2>7, <2>8 DEF RInv
<1> QED BY <1>2, <1>3 DEF LockedRead, LockedWrite, Locking

\* The thread gives a lock back, and what it stored is in the cache.
LEMMA UnlockStep ==
  ASSUME RInv, NEW t \in Threads, NEW s, Go(t, s), GoodThread(s), Late(s, stored'),
         th[t].phase \in Locking, s.phase \notin Locking,
         readers' = readers \ {t}, writer' = writer \ {t},
         stored \subseteq stored', stored' = DOMAIN cache', stored' \subseteq DOMAIN Files,
         \A p \in DOMAIN cache' : GoodModule(cache'[p])
  PROVE  RInv'
<1>1. DOMAIN th' = Threads /\ th'[t] = s /\ \A u \in Threads : u # t => th'[u] = th[u] BY DEF RInv, Go
<1>2. \A u \in Threads : GoodThread(th'[u]) /\ Late(th'[u], stored') BY <1>1 DEF RInv, Late
<1>3. /\ readers' = {u \in Threads : th'[u].phase = "read"}
      /\ writer' = {u \in Threads : th'[u].phase = "write"}
  BY <1>1 DEF RInv, Locking
<1> QED BY <1>1, <1>2, <1>3 DEF RInv

LEMMA CacheGetStep ==
  ASSUME RInv, NEW t \in Threads, CacheGet(t) PROVE RInv'
<1> DEFINE r == th[t]
<1>1. /\ GoodThread(r) /\ Late(r, stored) /\ r.phase = "read" /\ r.phase \in Locking
      /\ readers' = readers \ {t} /\ UNCHANGED <<cache, writer, stored>>
  BY DEF RInv, CacheGet, Locking
<1>2. r.frames # <<>> => AtImport(r.frames[Len(r.frames)]) BY <1>1 DEF GoodThread, Phased, Seeking
<1>3. writer' = writer \ {t} BY <1>1 DEF RInv
<1>4. Target(t) = Sought(r.frames, r.found, Len(r.frames))
  BY <1>1, TargetIsSought DEF GoodThread, Sound, Levels
<1>5. CASE Target(t) \in DOMAIN cache /\ Go(t, Deliver(r, cache[Target(t)]))
  <2> DEFINE s == Deliver(r, cache[Target(t)])
  <2>1. GoodModule(cache[Target(t)]) BY <1>5 DEF RInv
  <2>2. GoodThread(s) /\ s.phase \in {"embed", "run"} BY <1>1, <1>2, <2>1, DeliverGood DEF GoodThread
  <2>3. Go(t, s) BY <1>5
  <2> HIDE DEF s
  <2>4. Late(s, stored') /\ s.phase \notin Locking BY <2>2 DEF Late, Locking
  <2> QED BY <1>1, <1>3, <2>2, <2>3, <2>4, UnlockStep DEF RInv
<1>6. CASE Target(t) \notin DOMAIN cache /\ Go(t, [r EXCEPT !.phase = "load"])
  <2> DEFINE s == [r EXCEPT !.phase = "load"]
  <2>1. /\ IsThread(s) /\ s.phase = "load" /\ s.frames = r.frames /\ s.scope = r.scope
        /\ s.imports = r.imports /\ s.embedded = r.embedded /\ s.made = r.made
        /\ s.found = r.found /\ s.late = r.late
    BY <1>1 DEF GoodThread, Sound, IsThread, Phases
  <2>2. Go(t, s) BY <1>6
  <2> HIDE DEF s
  <2>3. Phased(s) /\ s.phase \notin Locking BY <1>2, <2>1 DEF Phased, Locking
  <2>4. Late(s, stored') BY <1>1, <1>4, <1>6, <2>1 DEF Late, RInv
  <2>5. GoodThread(s) BY <1>1, <2>1, <2>3, SamePlace
  <2> QED BY <1>1, <1>3, <2>2, <2>3, <2>4, <2>5, UnlockStep DEF RInv
<1> QED BY <1>5, <1>6 DEF CacheGet

LEMMA CacheInsertStep ==
  ASSUME RInv, NEW t \in Threads, CacheInsert(t) PROVE RInv'
<1> DEFINE r == th[t]
           m == CHOOSE m \in r.made : TRUE
           f == Target(t)
           q == [r EXCEPT !.made = {}]
           s == Deliver(q, m)
<1>1. /\ GoodThread(r) /\ r.phase = "write" /\ r.phase \in Locking /\ Go(t, s)
      /\ cache' = [p \in DOMAIN cache \cup {f} |-> IF p = f THEN m ELSE cache[p]]
      /\ stored' = stored \cup {f} /\ writer' = {} /\ UNCHANGED readers
  BY DEF RInv, CacheInsert, Locking
<1>2. r.frames # <<>> => AtImport(r.frames[Len(r.frames)]) BY <1>1 DEF GoodThread, Phased, Seeking
<1>3. f = Sought(r.frames, r.found, Len(r.frames)) BY <1>1, TargetIsSought DEF GoodThread, Sound, Levels
<1>4. f \in DOMAIN Files /\ m \in r.made BY <1>1, <1>3 DEF GoodThread, Phased
<1>5. GoodModule(m) BY <1>1, <1>4 DEF GoodThread, Sound, GoodModules
<1> HIDE DEF m, f
<1>6. /\ IsThread(q) /\ q.frames = r.frames /\ q.scope = r.scope /\ q.imports = r.imports
      /\ q.embedded = r.embedded /\ q.found = r.found /\ q.made = {}
  BY <1>1 DEF GoodThread, Sound, IsThread
<1> HIDE DEF q
<1>7. Sound(q) BY <1>1, <1>6 DEF GoodThread, Sound, GoodModules
<1>8. GoodThread(s) /\ s.phase \in {"embed", "run"} BY <1>2, <1>5, <1>6, <1>7, DeliverGood
<1> HIDE DEF s
<1>9. Late(s, stored') /\ s.phase \notin Locking BY <1>8 DEF Late, Locking
<1>10. writer' = writer \ {t} /\ readers' = readers \ {t}
  <2>1. t \in writer BY <1>1 DEF RInv
  <2> QED BY <1>1, <2>1 DEF RInv
<1>11. /\ stored \subseteq stored' /\ stored' = DOMAIN cache' /\ stored' \subseteq DOMAIN Files
       /\ \A p \in DOMAIN cache' : GoodModule(cache'[p])
  BY <1>1, <1>4, <1>5 DEF RInv
<1> QED BY <1>1, <1>8, <1>9, <1>10, <1>11, UnlockStep

LEMMA LoadStep ==
  ASSUME RInv, NEW t \in Threads, LoadFile(t) PROVE RInv'
<1> DEFINE r == th[t]
           f == Target(t)
<1>1. /\ GoodThread(r) /\ r.phase = "load" /\ r.phase \notin Locking
      /\ UNCHANGED <<cache, readers, writer, stored>>
  BY DEF RInv, LoadFile, Locking
<1>2. r.frames # <<>> => AtImport(r.frames[Len(r.frames)]) BY <1>1 DEF GoodThread, Phased, Seeking
<1>3. f = Sought(r.frames, r.found, Len(r.frames)) BY <1>1, TargetIsSought DEF GoodThread, Sound, Levels
<1>4. CASE Go(t, Fail(r, TRUE)) BY <1>1, <1>4, FailStep
<1>5. CASE Go(t, [r EXCEPT !.phase = "resolve", !.idx = @ + 1])
  <2> DEFINE s == [r EXCEPT !.phase = "resolve", !.idx = @ + 1]
  <2>1. /\ IsThread(s) /\ s.phase = "resolve" /\ s.frames = r.frames /\ s.scope = r.scope
        /\ s.imports = r.imports /\ s.embedded = r.embedded /\ s.made = r.made
        /\ s.found = r.found
    BY <1>1 DEF GoodThread, Sound, IsThread, Phases
  <2>2. Go(t, s) BY <1>5
  <2> HIDE DEF s
  <2>3. Phased(s) /\ Late(s, stored) /\ s.phase \notin Locking BY <1>2, <2>1 DEF Phased, Late, Locking
  <2> QED BY <1>1, <2>1, <2>2, <2>3, PhaseStep
<1>6. CASE /\ f \in DOMAIN Files
           /\ Go(t, [r EXCEPT !.phase = "run",
                              !.frames = Append(@, Frame(f, Files[f], Wanted(t), NoModules,
                                                         r.scope, r.imports))])
  <2> DEFINE s == [r EXCEPT !.phase = "run",
                            !.frames = Append(@, Frame(f, Files[f], Wanted(t), NoModules,
                                                       r.scope, r.imports))]
  <2>1. Len(r.frames) < MaxDepth BY <1>6 DEF LoadFile
  <2>2. GoodThread(s) /\ s.phase = "run" BY <1>1, <1>3, <1>6, <2>1, LoadGood
  <2>3. Go(t, s) BY <1>6
  <2> HIDE DEF s
  <2>4. Late(s, stored) /\ s.phase \notin Locking BY <2>2 DEF Late, Locking
  <2> QED BY <1>1, <2>2, <2>3, <2>4, ThreadMoves
<1> QED BY <1>4, <1>5, <1>6 DEF LoadFile

LEMMA EndStep ==
  ASSUME RInv, NEW t \in Threads, EndScript(t) PROVE RInv'
<1> DEFINE r == th[t]
           f == r.frames[Len(r.frames)]
           m == ScriptAsModule(r)
<1>1. /\ GoodThread(r) /\ r.phase = "run" /\ r.phase \notin Locking
      /\ UNCHANGED <<cache, readers, writer, stored>>
  BY DEF RInv, EndScript, Locking
<1>2. Top(t) = f /\ r.frames # <<>> BY <1>1 DEF Top, GoodThread, Phased
<1>3. CASE Go(t, [r EXCEPT !.phase = "done", !.frames = <<>>])
  <2> DEFINE s == [r EXCEPT !.phase = "done", !.frames = <<>>]
  <2>1. /\ IsThread(s) /\ s.phase = "done" /\ s.frames = <<>> /\ s.scope = r.scope
        /\ s.imports = r.imports /\ s.embedded = r.embedded /\ s.made = r.made
    BY <1>1 DEF GoodThread, Sound, IsThread, Phases
  <2>2. Go(t, s) BY <1>3
  <2> HIDE DEF s
  <2>3. IsSeq(s.frames) /\ Len(s.frames) = 0 BY <2>1, EmptyLevels
  <2>4. Levels(s.frames, s.scope, s.imports, s.found)
    BY <1>1, <2>1, <2>3 DEF Levels, Ordered, GoodThread, Sound
  <2>5. GoodModules(s.imports, s.embedded, s.frames, s.made)
    BY <1>1, <2>1, <2>3 DEF GoodModules, GoodThread, Sound
  <2>6. Phased(s) /\ Late(s, stored) /\ s.phase \notin Locking BY <2>1 DEF Phased, Seeking, Late, Locking
  <2>7. Len(s.frames) <= MaxDepth BY <2>3, ResolverAssumption
  <2>8. GoodThread(s) BY <2>1, <2>4, <2>5, <2>6, <2>7 DEF GoodThread, Sound
  <2> QED BY <1>1, <2>2, <2>6, <2>8, ThreadMoves
<1>4. ASSUME f.file # NoPath,
             \/ Go(t, [Leave(r) EXCEPT !.phase = "try_write", !.tries = 0, !.made = {m}])
             \/ Go(t, Deliver(Leave(r), m))
      PROVE  RInv'
  <2>1. AtEnd(f) BY <1>2, <1>4 DEF EndScript, AtEnd
  <2>2. GoodModule(m) BY <1>1, <1>2, <2>1, ScriptModule DEF GoodThread, Sound
  <2> HIDE DEF m
  <2> DEFINE l == Leave(r)
             s == [l EXCEPT !.phase = "try_write", !.tries = 0, !.made = {m}]
  <2>3. /\ GoodThread(s) /\ s.phase = "try_write" /\ Sound(l)
        /\ l.frames # <<>> => AtImport(l.frames[Len(l.frames)])
    BY <1>1, <1>2, <2>1, <2>2, LeaveGood
  <2>4. CASE Go(t, s)
    <3> HIDE DEF s
    <3>1. Late(s, stored) /\ s.phase \notin Locking BY <2>3 DEF Late, Locking
    <3> QED BY <1>1, <2>3, <2>4, <3>1, ThreadMoves
  <2>5. CASE Go(t, Deliver(l, m))
    <3> HIDE DEF l
    <3> QED BY <1>1, <2>2, <2>3, <2>5, DeliverStep
  <2> QED BY <1>4, <2>4, <2>5
<1> QED BY <1>2, <1>3, <1>4 DEF EndScript

-----------------------------------------------------------------------------
LEMMA InitRInv == Init => RInv
<1> SUFFICES ASSUME Init PROVE RInv OBVIOUS
<1>1. /\ IsThread(Idle) /\ Idle.phase = "idle" /\ Idle.frames = <<>> /\ Idle.scope = <<>>
      /\ Idle.imports = <<>> /\ Idle.made = {} /\ Idle.embedded = NoModules
  BY ResolverAssumption DEF Idle, IsThread, Phases
<1>2. GoodThread(Idle) BY <1>1, IdleGood
<1>3. Late(Idle, stored) BY <1>1 DEF Late
<1>4. DOMAIN th = Threads /\ \A t \in Threads : th[t] = Idle BY DEF Init
<1> HIDE DEF Idle
<1> QED BY <1>1, <1>2, <1>3, <1>4 DEF Init, RInv, NoModules

LEMMA NextRInv == RInv /\ [Next]_vars => RInv'
<1> SUFFICES ASSUME RInv, [Next]_vars PROVE RInv' OBVIOUS
<1>1. ASSUME NEW t \in Threads, ThreadStep(t) PROVE RInv'
  BY <1>1, EmbedStep, StmtStep, ResolveStep, LockStep, CacheGetStep, LoadStep, EndStep,
     CacheInsertStep DEF ThreadStep
<1>2. CASE UNCHANGED vars BY <1>2 DEF vars, RInv
<1> QED BY <1>1, <1>2, StartStep, ClearStep DEF Next

\* The inductive invariant: every level of evaluation runs the file that the level below it
\* imports and owns its part of the scope and of the imports, every module known anywhere
\* is complete, and the lock is held by the threads whose phase says so.
THEOREM RInvInvariant == Spec => []RInv
BY InitRInv, NextRInv, PTL DEF Spec

LEMMA RInvServes == RInv => CacheServes
<1> SUFFICES ASSUME RInv PROVE CacheServes OBVIOUS
<1>1. TypeOK
  <2>1. ASSUME NEW t \in Threads
        PROVE  /\ th[t].phase \in Phases /\ th[t].loaded \in Nat /\ th[t].tries \in 0..MaxTries
               /\ th[t].runs \in 0..MaxRuns /\ Len(th[t].frames) \in 0..MaxDepth
    <3>1. GoodThread(th[t]) BY DEF RInv
    <3>2. Len(th[t].frames) \in Nat /\ Len(th[t].frames) <= MaxDepth
      BY <3>1, SeqFacts DEF GoodThread, Sound, Levels
    <3> QED BY <3>1, <3>2, ResolverAssumption DEF GoodThread, Sound, IsThread
  <2>2. readers \subseteq Threads /\ writer \subseteq Threads BY DEF RInv
  <2>3. DOMAIN cache \subseteq DOMAIN Files /\ stored \subseteq DOMAIN Files BY DEF RInv
  <2> QED BY <2>1, <2>2, <2>3 DEF TypeOK
<1>2. NotReloaded BY DEF RInv, Late, NotReloaded
<1>3. SelfNeverBlocks BY DEF RInv, SelfNeverBlocks
<1> QED BY <1>1, <1>2, <1>3 DEF CacheServes

LEMMA RInvOwn == RInv => ModulesAreOwn
<1> SUFFICES ASSUME RInv PROVE ModulesAreOwn OBVIOUS
<1>1. \A m \in KnownModules : GoodModule(m)
  <2> SUFFICES ASSUME NEW m \in KnownModules PROVE GoodModule(m) OBVIOUS
  <2>1. \A p \in DOMAIN cache : GoodModule(cache[p]) BY DEF RInv
  <2>2. \A t \in Threads : \A i \in 1..Len(th[t].imports) : GoodModule(th[t].imports[i].module)
    BY DEF RInv, GoodThread, Sound, GoodModules
  <2>3. \A t \in Threads : \A p \in DOMAIN th[t].embedded : GoodModule(th[t].embedded[p])
    BY DEF RInv, GoodThread, Sound, GoodModules
  <2>4. \/ m \in {cache[p] : p \in DOMAIN cache}
        \/ \E t \in Threads : m \in {th[t].imports[i].module : i \in 1..Len(th[t].imports)}
        \/ \E t \in Threads : m \in {th[t].embedded[p] : p \in DOMAIN th[t].embedded}
    BY Zenon DEF KnownModules
  <2> QED BY <2>1, <2>2, <2>3, <2>4, Zenon
<1>2. OwnExportsWin BY <1>1 DEF OwnExportsWin, GoodModule
<1>3. ASSUME NEW t \in Threads, NEW n \in 1..Len(th[t].frames)
      PROVE  LET r == th[t]
             IN /\ \A i \in (r.frames[n].scopeLen + 1)..ScopeAt(r, n) : r.scope[i].by = r.frames[n].file
                /\ \A i \in (r.frames[n].importsLen + 1)..ImportsAt(r, n) :
                     r.imports[i].by = r.frames[n].file
  <2>1. Owned(th[t].frames, th[t].scope, th[t].imports, n) BY DEF RInv, GoodThread, Sound, Levels
  <2>2. /\ ScopeAt(th[t], n) = ScopeEnd(th[t].frames, th[t].scope, n)
        /\ ImportsAt(th[t], n) = ImportsEnd(th[t].frames, th[t].imports, n)
    BY DEF ScopeAt, ImportsAt, ScopeEnd, ImportsEnd
  <2> QED BY <2>1, <2>2, Zenon DEF Owned
<1>4. EnvIsOwn BY <1>3 DEF EnvIsOwn
<1> QED BY <1>2, <1>4 DEF ModulesAreOwn

\* A module that is in the cache when an import of it begins is not loaded again, what the
\* cache holds are files, and no thread waits for a lock that it holds (FileModuleResolver).
THEOREM CacheIsRight == Spec => []CacheServes
BY RInvInvariant, RInvServes, PTL

\* A module has every variable that its own script exports, and a script finds in its scope
\* and among its imports nothing that a module has left there (eval_ast_as_new_raw).
THEOREM ModulesKeepApart == Spec => []ModulesAreOwn
BY RInvInvariant, RInvOwn, PTL
=============================================================================
