------------------------- MODULE FnResolutionProofs -------------------------
(***************************************************************************)
(* A cached function is the one that the search would find, for any        *)
(* functions, modules and environments and any nesting of blocks, calls    *)
(* and evals.                                                              *)
(*                                                                         *)
(* A cache outlives the blocks that use it: it is used again when they     *)
(* end, with the imports there were when they began.  So every cache of    *)
(* the stack has to be right for the imports that there will be when it is *)
(* at the top again, and what a block puts into the cache of an outer one  *)
(* has to be right for both.  It is, since a block gets a cache of its own *)
(* as soon as it imports something that exports functions.                 *)
(***************************************************************************)
EXTENDS FnResolution, SequenceTheorems, WellFoundedInduction, TLAPS

Frame == [kind : {"block", "call", "eval"}, lib : Nat, imports : Nat, caches : Nat]

-----------------------------------------------------------------------------
\* What the search finds, as a relation.

\* r is the last of the first p modules of im that is one of ms.
IsLast(im, p, ms, h, r) ==
  \/ r = NotFound /\ \A i \in 1..p : im[i] \notin ms
  \/ \E i \in 1..p : /\ im[i] \in ms
                     /\ \A j \in (i + 1)..p : im[j] \notin ms
                     /\ r = <<im[i], h>>

\* r is what there is for the hash c itself, in a script that is not a module's.
IsExact(im, p, c, r) ==
  \/ c \in Main /\ r = <<"main", c>>
  \/ c \notin Main /\ c \in Engine /\ r = <<"engine", c>>
  \/ c \notin Main /\ c \notin Engine /\ IsLast(im, p, Exporting(c), c, r)

\* r is what there is for the first candidate for h that there is something for.
IsFound(im, p, h, r) ==
  LET cs == Candidates(h)
  IN \/ \E k \in 1..Len(cs) : /\ r # NotFound /\ IsExact(im, p, cs[k], r)
                              /\ \A j \in 1..(k - 1) : IsExact(im, p, cs[j], NotFound)
     \/ r = NotFound /\ \A j \in 1..Len(cs) : IsExact(im, p, cs[j], NotFound)

-----------------------------------------------------------------------------
\* The inductive invariant, of frames fs, caches cs, imports im and unseen modules us.

\* How many caches there are when the frames from the j-th on have ended.
Height(fs, cs, j) == IF j <= Len(fs) THEN fs[j].caches ELSE Len(cs)

\* There are p imports when the frames from the j-th on have ended.
Remain(fs, im, j, p) ==
  \/ p = Len(im) /\ \A i \in j..Len(fs) : fs[i].kind = "eval"
  \/ \E i \in j..Len(fs) : /\ fs[i].kind # "eval" /\ fs[i].imports = p
                           /\ \A l \in j..(i - 1) : fs[l].kind = "eval"

Nested(fs, cs, im, lb) ==
  \A i \in 1..Len(fs) :
    /\ fs[i].lib \in 1..Len(lb) /\ fs[i].imports \in 0..Len(im) /\ fs[i].caches \in 0..Len(cs)
    /\ \A j \in i..Len(fs) : /\ fs[i].lib <= fs[j].lib /\ fs[i].imports <= fs[j].imports
                             /\ fs[i].caches <= fs[j].caches

\* But for the script itself, only functions of modules are in the way of its functions.
Libraries(lb, us) ==
  lb # <<>> /\ lb[1] = "main" /\ \A i \in 2..Len(lb) : lb[i] \in us

\* The imports from p on up to q do not matter.
Harmless(im, us, p, q) == \A i \in (p + 1)..q : Exports[im[i]] = {} \/ im[i] \in us

\* The cache c is right for the first p imports.
Right(c, im, us, p) ==
  \A h \in Hashes :
    c.dict[h] # Absent /\ Knowing(h) \cap us = {} => IsFound(im, p, h, c.dict[h])

AllRight(fs, cs, im, us) ==
  \A j \in 1..(Len(fs) + 1) : \A p \in 0..Len(im) :
    Height(fs, cs, j) > 0 /\ Remain(fs, im, j, p) => Right(cs[Height(fs, cs, j)], im, us, p)

\* Frames that use the same cache have imports in common, as far as these matter.
Shared(fs, cs, im, us) ==
  \A t \in 1..(Len(fs) + 1) : \A j \in 1..t : \A p, q \in 0..Len(im) :
    /\ Height(fs, cs, j) > 0 /\ Height(fs, cs, j) = Height(fs, cs, t)
    /\ Remain(fs, im, j, p) /\ Remain(fs, im, t, q)
    => Harmless(im, us, p, q)

\* Outside of all blocks and calls there is one cache.
OneOutside(fs, cs) ==
  \A j \in 1..(Len(fs) + 1) :
    (\A i \in 1..(j - 1) : fs[i].kind = "eval") => Height(fs, cs, j) <= 1

Typed(fs, cs, im, lb, us) ==
  /\ fs \in Seq(Frame) /\ cs \in Seq(Cache) /\ im \in Seq(Modules)
  /\ lb \in Seq({"main"} \cup Modules)
  /\ us \subseteq Modules

Coherent(fs, cs, im, lb, us) ==
  /\ Typed(fs, cs, im, lb, us)
  /\ Nested(fs, cs, im, lb)
  /\ Libraries(lb, us)
  /\ AllRight(fs, cs, im, us)
  /\ Shared(fs, cs, im, us)
  /\ OneOutside(fs, cs)

FTyped == Typed(frames, caches, imports, lib, unseen)

FInv == Coherent(frames, caches, imports, lib, unseen)

-----------------------------------------------------------------------------
\* Lemmas on positions and on the search.

LEMMA FirstPosition ==
  ASSUME NEW L \in Nat, NEW S, S \subseteq 1..L, S # {}
  PROVE  \E k \in S : \A j \in S : k <= j
<1>1. S \subseteq Nat OBVIOUS
<1>2. PICK k \in S : \A j \in S : ~(<<j, k>> \in OpToRel(<, Nat)) BY <1>1, NatLessThanWellFounded, WFMin
<1>3. ASSUME NEW j \in S, ~(k <= j) PROVE FALSE
  <2>1. j \in Nat /\ k \in Nat /\ j < k BY <1>1, <1>3
  <2>2. <<j, k>> \in Nat \X Nat /\ <<j, k>>[1] < <<j, k>>[2] BY <2>1
  <2>3. <<j, k>> \in OpToRel(<, Nat) BY <2>2, Zenon DEF OpToRel
  <2> QED BY <1>2, <2>3
<1> QED BY <1>3

LEMMA LastPosition ==
  ASSUME NEW L \in Nat, NEW S, S \subseteq 1..L, S # {}
  PROVE  \E k \in S : \A j \in S : j <= k
<1> DEFINE T == {x \in 1..L : L + 1 - x \in S}
<1>1. T \subseteq 1..L /\ T # {}
  <2>1. PICK i \in S : TRUE OBVIOUS
  <2>2. L + 1 - i \in 1..L /\ L + 1 - (L + 1 - i) = i BY <2>1
  <2> QED BY <2>2
<1> HIDE DEF T
<1>2. PICK x \in T : \A y \in T : x <= y BY <1>1, FirstPosition
<1>3. L + 1 - x \in S BY <1>2 DEF T
<1>4. ASSUME NEW j \in S PROVE j <= L + 1 - x
  <2>1. L + 1 - j \in 1..L /\ L + 1 - (L + 1 - j) = j OBVIOUS
  <2>2. L + 1 - j \in T BY <2>1 DEF T
  <2>3. x <= L + 1 - j /\ x \in 1..L BY <1>1, <1>2, <2>2
  <2> QED BY <2>1, <2>3
<1> QED BY <1>3, <1>4

LEMMA LastOfIsLast ==
  ASSUME NEW S, NEW s \in Seq(S), NEW ms, NEW h
  PROVE  /\ IsLast(s, Len(s), ms, h, LastOf(s, ms, h))
         /\ LastOf(s, ms, h) = NotFound \/ \E i \in 1..Len(s) : LastOf(s, ms, h) = <<s[i], h>>
<1> DEFINE is == {i \in 1..Len(s) : s[i] \in ms}
           k  == CHOOSE i \in is : \A j \in is : j <= i
<1>0. Len(s) \in Nat /\ is \subseteq 1..Len(s) BY LenProperties
<1>1. CASE is = {}
  <2>1. LastOf(s, ms, h) = NotFound /\ \A i \in 1..Len(s) : s[i] \notin ms BY <1>1 DEF LastOf
  <2> QED BY <2>1 DEF IsLast
<1>2. CASE is # {}
  <2>1. LastOf(s, ms, h) = <<s[k], h>> BY <1>2, Zenon DEF LastOf
  <2> HIDE DEF is
  <2>2. \E i \in is : \A j \in is : j <= i BY <1>0, <1>2, LastPosition
  <2>3. k \in is /\ \A j \in is : j <= k BY <2>2, Zenon
  <2> HIDE DEF k
  <2>4. k \in 1..Len(s) /\ s[k] \in ms BY <2>3 DEF is
  <2>5. ASSUME NEW j \in (k + 1)..Len(s), s[j] \in ms PROVE FALSE
    <3>1. j \in is BY <2>4, <2>5 DEF is
    <3>2. j <= k BY <2>3, <3>1
    <3> QED BY <1>0, <2>4, <3>2
  <2> QED BY <2>1, <2>4, <2>5, Zenon DEF IsLast
<1> QED BY <1>1, <1>2

\* A pair is neither of the two values that are no function.
LEMMA PairIsResult ==
  ASSUME NEW x, NEW h PROVE <<x, h>> # NotFound /\ <<x, h>> # Absent
BY DEF NotFound, Absent

LEMMA CandidateFacts ==
  ASSUME NEW h \in Hashes
  PROVE  /\ Candidates(h) \in Seq(Hashes) /\ Len(Candidates(h)) \in Nat \ {0}
         /\ \A k \in 1..Len(Candidates(h)) : /\ Candidates(h)[k] \in Hashes
                                             /\ Candidates(h)[k] \in Range(Candidates(h))
         /\ h \in Scripted => Candidates(h) = <<h>>
<1>1. Wildcards[h] \in Seq(Hashes) /\ (h \in Scripted => Wildcards[h] = <<>>) BY FnAssumption
<1>2. <<h>> \in Seq(Hashes) /\ Len(<<h>>) = 1 OBVIOUS
<1>3. Candidates(h) \in Seq(Hashes) /\ Len(Candidates(h)) = 1 + Len(Wildcards[h])
  BY <1>1, <1>2, ConcatProperties DEF Candidates
<1>4. Len(Wildcards[h]) \in Nat BY <1>1, LenProperties
<1>5. h \in Scripted => Candidates(h) = <<h>> BY <1>1, <1>2, ConcatEmptySeq DEF Candidates
<1>6. DOMAIN Candidates(h) = 1..Len(Candidates(h)) BY <1>3, LenProperties
<1>7. \A k \in 1..Len(Candidates(h)) : Candidates(h)[k] \in Hashes BY <1>3, ElementOfSeq
<1> QED BY <1>3, <1>4, <1>5, <1>6, <1>7 DEF Range

\* The modules that decide on a candidate for h know h.
LEMMA KnownOf ==
  ASSUME NEW h, NEW c \in Range(Candidates(h))
  PROVE  Defining(c) \subseteq Knowing(h) /\ Exporting(c) \subseteq Knowing(h)
BY DEF Knowing

LEMMA ExactType ==
  ASSUME FTyped, NEW c \in Hashes
  PROVE  FindExact(imports, c) \in Results /\ FindExact(imports, c) # Absent
<1> DEFINE r == FindExact(imports, c)
           a == LastOf(lib, Defining(c), c)
           b == LastOf(imports, Exporting(c), c)
<1>1. a = NotFound \/ \E i \in 1..Len(lib) : a = <<lib[i], c>> BY LastOfIsLast DEF FTyped, Typed
<1>2. b = NotFound \/ \E i \in 1..Len(imports) : b = <<imports[i], c>> BY LastOfIsLast DEF FTyped, Typed
<1>3. \A i \in 1..Len(lib) : lib[i] \in {"main"} \cup Modules BY ElementOfSeq DEF FTyped, Typed
<1>4. \A i \in 1..Len(imports) : imports[i] \in Modules BY ElementOfSeq DEF FTyped, Typed
<1>5. r = a \/ r = <<"engine", c>> \/ r = b BY DEF FindExact
<1> HIDE DEF r, a, b
<1>6. r = NotFound \/ \E x \in {"main", "engine"} \cup Modules : r = <<x, c>>
  BY <1>1, <1>2, <1>3, <1>4, <1>5
<1>7. NotFound # Absent BY DEF NotFound, Absent
<1>8. r \in Results /\ r # Absent BY <1>6, <1>7, PairIsResult DEF Results
<1> QED BY <1>8 DEF r

\* FindExact finds what it should, as far as no module is in the way.
LEMMA ExactIsExact ==
  ASSUME FTyped, Libraries(lib, unseen), NEW h \in Hashes, Knowing(h) \cap unseen = {},
         NEW c \in Range(Candidates(h))
  PROVE  IsExact(imports, Len(imports), c, FindExact(imports, c))
<1> DEFINE a == LastOf(lib, Defining(c), c)
           b == LastOf(imports, Exporting(c), c)
<1>1. IsLast(lib, Len(lib), Defining(c), c, a) BY LastOfIsLast DEF FTyped, Typed
<1>2. IsLast(imports, Len(imports), Exporting(c), c, b) BY LastOfIsLast DEF FTyped, Typed
<1>3. FindExact(imports, c) =
        IF a # NotFound THEN a ELSE IF c \in Engine THEN <<"engine", c>> ELSE b
  BY DEF FindExact
<1>4. Len(lib) \in Nat \ {0} /\ lib[1] = "main" BY EmptySeq, LenProperties DEF Libraries, FTyped, Typed
<1>5. \A i \in 2..Len(lib) : lib[i] \notin Defining(c) BY KnownOf DEF Libraries
<1>6. "main" \in Defining(c) <=> c \in Main BY FnAssumption DEF Defining
<1> HIDE DEF a, b
<1>7. CASE c \in Main
  <2>1. 1 \in 1..Len(lib) /\ lib[1] \in Defining(c) BY <1>4, <1>6, <1>7
  <2>2. a # NotFound \/ FALSE BY <1>1, <2>1, PairIsResult DEF IsLast
  <2>3. PICK i \in 1..Len(lib) : lib[i] \in Defining(c) /\ a = <<lib[i], c>> BY <1>1, <2>2 DEF IsLast
  <2>4. i = 1 BY <1>4, <1>5, <2>3
  <2> QED BY <1>3, <1>4, <1>7, <2>2, <2>3, <2>4 DEF IsExact
<1>8. CASE c \notin Main
  <2>1. \A i \in 1..Len(lib) : lib[i] \notin Defining(c)
    <3>1. \A i \in 1..Len(lib) : i = 1 \/ i \in 2..Len(lib) BY <1>4
    <3> QED BY <1>4, <1>5, <1>6, <1>8, <3>1
  <2>2. a = NotFound BY <1>1, <2>1 DEF IsLast
  <2> QED BY <1>2, <1>3, <1>8, <2>2, Zenon DEF IsExact
<1> QED BY <1>7, <1>8

LEMMA FirstFoundFacts ==
  ASSUME NEW im, NEW h \in Hashes
  PROVE  LET k == FirstFound(im, h)
             cs == Candidates(h)
         IN /\ k \in 1..(Len(cs) + 1)
            /\ k <= Len(cs) => FindExact(im, cs[k]) # NotFound
            /\ \A j \in 1..(k - 1) : FindExact(im, cs[j]) = NotFound
<1> DEFINE cs == Candidates(h)
           S  == {j \in 1..Len(cs) : FindExact(im, cs[j]) # NotFound}
           P(k) == /\ k <= Len(cs) => FindExact(im, cs[k]) # NotFound
                   /\ \A j \in 1..(k - 1) : FindExact(im, cs[j]) = NotFound
<1>1. Len(cs) \in Nat /\ S \subseteq 1..Len(cs) BY CandidateFacts
<1>2. \E k \in 1..(Len(cs) + 1) : P(k)
  <2>1. CASE S = {}
    <3>1. Len(cs) + 1 \in 1..(Len(cs) + 1) /\ ~(Len(cs) + 1 <= Len(cs)) /\ Len(cs) + 1 - 1 = Len(cs)
      BY <1>1
    <3>2. \A j \in 1..Len(cs) : FindExact(im, cs[j]) = NotFound BY <2>1
    <3> QED BY <3>1, <3>2
  <2>2. CASE S # {}
    <3> HIDE DEF S
    <3>1. PICK k \in S : \A j \in S : k <= j BY <1>1, <2>2, FirstPosition
    <3>2. k \in 1..Len(cs) /\ FindExact(im, cs[k]) # NotFound BY <3>1 DEF S
    <3>3. ASSUME NEW j \in 1..(k - 1), FindExact(im, cs[j]) # NotFound PROVE FALSE
      <4>1. j \in S BY <1>1, <3>2, <3>3 DEF S
      <4> QED BY <3>1, <3>2, <4>1
    <3>4. k \in 1..(Len(cs) + 1) BY <1>1, <3>2
    <3> QED BY <3>2, <3>3, <3>4
  <2> QED BY <2>1, <2>2
<1>3. FirstFound(im, h) = CHOOSE k \in 1..(Len(cs) + 1) : P(k) BY Zenon DEF FirstFound
<1> HIDE DEF P
<1>4. FirstFound(im, h) \in 1..(Len(cs) + 1) /\ P(FirstFound(im, h)) BY <1>2, <1>3, Zenon
<1> QED BY <1>4 DEF P

LEMMA SearchType ==
  ASSUME FTyped, NEW h \in Hashes
  PROVE  Search(h) \in Results /\ Search(h) # Absent
<1> DEFINE k == FirstFound(imports, h)
           cs == Candidates(h)
<1>1. k \in 1..(Len(cs) + 1) BY FirstFoundFacts
<1>2. Len(cs) \in Nat /\ \A j \in 1..Len(cs) : cs[j] \in Hashes BY CandidateFacts
<1>3. Search(h) = IF k > Len(cs) THEN NotFound ELSE FindExact(imports, cs[k]) BY DEF Search, SearchIn
<1>4. NotFound \in Results /\ NotFound # Absent BY DEF Results, NotFound, Absent
<1> HIDE DEF k, cs
<1>5. k > Len(cs) \/ k \in 1..Len(cs) BY <1>1, <1>2
<1> QED BY <1>2, <1>3, <1>4, <1>5, ExactType

LEMMA SearchIsFound ==
  ASSUME FTyped, Libraries(lib, unseen), NEW h \in Hashes, Knowing(h) \cap unseen = {}
  PROVE  IsFound(imports, Len(imports), h, Search(h))
<1> DEFINE k == FirstFound(imports, h)
           cs == Candidates(h)
<1>1. /\ k \in 1..(Len(cs) + 1)
      /\ k <= Len(cs) => FindExact(imports, cs[k]) # NotFound
      /\ \A j \in 1..(k - 1) : FindExact(imports, cs[j]) = NotFound
  BY FirstFoundFacts
<1>2. Len(cs) \in Nat /\ \A j \in 1..Len(cs) : cs[j] \in Range(cs) BY CandidateFacts
<1>3. Search(h) = IF k > Len(cs) THEN NotFound ELSE FindExact(imports, cs[k]) BY DEF Search, SearchIn
<1>4. \A j \in 1..Len(cs) : IsExact(imports, Len(imports), cs[j], FindExact(imports, cs[j]))
  BY <1>2, ExactIsExact
<1>5. \A r : IsFound(imports, Len(imports), h, r) <=>
        \/ \E i \in 1..Len(cs) :
             /\ r # NotFound /\ IsExact(imports, Len(imports), cs[i], r)
             /\ \A j \in 1..(i - 1) : IsExact(imports, Len(imports), cs[j], NotFound)
        \/ r = NotFound /\ \A j \in 1..Len(cs) : IsExact(imports, Len(imports), cs[j], NotFound)
  BY Zenon DEF IsFound
<1> HIDE DEF k, cs
<1>6. \A j \in 1..(k - 1) : j \in 1..Len(cs) /\ IsExact(imports, Len(imports), cs[j], NotFound)
  <2>1. \A j \in 1..(k - 1) : j \in 1..Len(cs) BY <1>1, <1>2
  <2> QED BY <1>1, <1>4, <2>1
<1>7. CASE k > Len(cs)
  <2>1. \A j \in 1..Len(cs) : j \in 1..(k - 1) BY <1>1, <1>2, <1>7
  <2> QED BY <1>3, <1>5, <1>6, <1>7, <2>1
<1>8. CASE ~(k > Len(cs))
  <2>1. k \in 1..Len(cs) /\ FindExact(imports, cs[k]) # NotFound BY <1>1, <1>2, <1>8
  <2> QED BY <1>3, <1>4, <1>5, <1>6, <1>8, <2>1
<1> QED BY <1>7, <1>8

LEMMA LastIsUnique ==
  ASSUME NEW im, NEW p \in Nat, NEW ms, NEW h, NEW r, NEW s,
         IsLast(im, p, ms, h, r), IsLast(im, p, ms, h, s)
  PROVE  r = s
<1>1. CASE \A i \in 1..p : im[i] \notin ms BY <1>1 DEF IsLast
<1>2. CASE \E i \in 1..p : im[i] \in ms
  <2>1. PICK i \in 1..p : /\ im[i] \in ms /\ r = <<im[i], h>>
                          /\ \A l \in (i + 1)..p : im[l] \notin ms
    BY <1>2, Zenon DEF IsLast
  <2>2. PICK j \in 1..p : /\ im[j] \in ms /\ s = <<im[j], h>>
                          /\ \A l \in (j + 1)..p : im[l] \notin ms
    BY <1>2, Zenon DEF IsLast
  <2>3. i = j
    <3>1. i \notin (j + 1)..p /\ j \notin (i + 1)..p BY <2>1, <2>2
    <3> QED BY <3>1
  <2> QED BY <2>1, <2>2, <2>3
<1> QED BY <1>1, <1>2

LEMMA ExactIsUnique ==
  ASSUME NEW im, NEW p \in Nat, NEW c, NEW r, NEW s, IsExact(im, p, c, r), IsExact(im, p, c, s)
  PROVE  r = s
<1>1. CASE c \in Main \/ c \in Engine BY <1>1 DEF IsExact
<1>2. CASE c \notin Main /\ c \notin Engine
  <2>1. IsLast(im, p, Exporting(c), c, r) /\ IsLast(im, p, Exporting(c), c, s) BY <1>2, Zenon DEF IsExact
  <2> QED BY <2>1, LastIsUnique
<1> QED BY <1>1, <1>2

LEMMA FoundIsUnique ==
  ASSUME NEW im, NEW p \in Nat, NEW h \in Hashes, NEW r, NEW s,
         IsFound(im, p, h, r), IsFound(im, p, h, s)
  PROVE  r = s
<1> DEFINE cs == Candidates(h)
           First(x, k) == /\ x # NotFound /\ IsExact(im, p, cs[k], x)
                          /\ \A j \in 1..(k - 1) : IsExact(im, p, cs[j], NotFound)
<1>1. Len(cs) \in Nat BY CandidateFacts
<1>2. /\ (\E k \in 1..Len(cs) : First(r, k))
           \/ (r = NotFound /\ \A j \in 1..Len(cs) : IsExact(im, p, cs[j], NotFound))
      /\ (\E k \in 1..Len(cs) : First(s, k))
           \/ (s = NotFound /\ \A j \in 1..Len(cs) : IsExact(im, p, cs[j], NotFound))
  BY Zenon DEF IsFound
<1>3. ASSUME NEW x, NEW k \in 1..Len(cs), First(x, k), IsExact(im, p, cs[k], NotFound) PROVE FALSE
  BY <1>3, ExactIsUnique
<1>4. CASE r # NotFound /\ s # NotFound
  <2>1. PICK k \in 1..Len(cs) : First(r, k) BY <1>2, <1>4, Zenon
  <2>2. PICK l \in 1..Len(cs) : First(s, l) BY <1>2, <1>4, Zenon
  <2>3. ~(k < l)
    <3>1. SUFFICES ASSUME k < l PROVE FALSE OBVIOUS
    <3>2. k \in 1..(l - 1) BY <1>1, <3>1
    <3> QED BY <1>3, <2>1, <2>2, <3>2
  <2>4. ~(l < k)
    <3>1. SUFFICES ASSUME l < k PROVE FALSE OBVIOUS
    <3>2. l \in 1..(k - 1) BY <1>1, <3>1
    <3> QED BY <1>3, <2>1, <2>2, <3>2
  <2>5. k = l BY <1>1, <2>3, <2>4
  <2> QED BY <2>1, <2>2, <2>5, ExactIsUnique
<1>5. CASE r = NotFound /\ s # NotFound
  <2>1. PICK l \in 1..Len(cs) : First(s, l) BY <1>2, <1>5, Zenon
  <2>2. \A j \in 1..Len(cs) : IsExact(im, p, cs[j], NotFound) BY <1>2, <1>5, Zenon
  <2> QED BY <1>3, <2>1, <2>2
<1>6. CASE r # NotFound /\ s = NotFound
  <2>1. PICK l \in 1..Len(cs) : First(r, l) BY <1>2, <1>6, Zenon
  <2>2. \A j \in 1..Len(cs) : IsExact(im, p, cs[j], NotFound) BY <1>2, <1>6, Zenon
  <2> QED BY <1>3, <2>1, <2>2
<1> QED BY <1>4, <1>5, <1>6

\* Two stacks of imports, the first p of im and the first q of jm, in which the modules of
\* ms are at the same places.
Alike(im, p, jm, q, ms) ==
  /\ \A i \in 1..p : im[i] \in ms => i \in 1..q /\ jm[i] = im[i]
  /\ \A i \in 1..q : jm[i] \in ms => i \in 1..p /\ jm[i] = im[i]

LEMMA LastAlike ==
  ASSUME NEW im, NEW jm, NEW p \in Nat, NEW q \in Nat, NEW ms, Alike(im, p, jm, q, ms),
         NEW h, NEW r, IsLast(im, p, ms, h, r)
  PROVE  IsLast(jm, q, ms, h, r)
<1>1. CASE r = NotFound /\ \A i \in 1..p : im[i] \notin ms
  <2>1. \A i \in 1..q : jm[i] \notin ms BY <1>1, Zenon DEF Alike
  <2> QED BY <1>1, <2>1 DEF IsLast
<1>2. CASE \E i \in 1..p : /\ im[i] \in ms
                           /\ \A j \in (i + 1)..p : im[j] \notin ms
                           /\ r = <<im[i], h>>
  <2>1. PICK i \in 1..p : /\ im[i] \in ms
                          /\ \A j \in (i + 1)..p : im[j] \notin ms
                          /\ r = <<im[i], h>>
    BY <1>2
  <2>2. i \in 1..q /\ jm[i] = im[i] BY <2>1 DEF Alike
  <2>3. ASSUME NEW j \in (i + 1)..q, jm[j] \in ms PROVE FALSE
    <3>1. j \in 1..q OBVIOUS
    <3>2. j \in 1..p /\ jm[j] = im[j] BY <2>3, <3>1 DEF Alike
    <3>3. j \in (i + 1)..p BY <3>2
    <3> QED BY <2>1, <2>3, <3>2, <3>3
  <2> QED BY <2>1, <2>2, <2>3, Zenon DEF IsLast
<1> QED BY <1>1, <1>2, Zenon DEF IsLast

LEMMA FoundAlike ==
  ASSUME NEW im, NEW jm, NEW p \in Nat, NEW q \in Nat, NEW h \in Hashes,
         \A c \in Range(Candidates(h)) : Alike(im, p, jm, q, Exporting(c)),
         NEW r, IsFound(im, p, h, r)
  PROVE  IsFound(jm, q, h, r)
<1> DEFINE cs == Candidates(h)
<1>1. \A j \in 1..Len(cs) : \A x : IsExact(im, p, cs[j], x) => IsExact(jm, q, cs[j], x)
  <2> SUFFICES ASSUME NEW j \in 1..Len(cs), NEW x, IsExact(im, p, cs[j], x)
               PROVE  IsExact(jm, q, cs[j], x)
    OBVIOUS
  <2>1. Alike(im, p, jm, q, Exporting(cs[j])) BY CandidateFacts
  <2>2. IsLast(im, p, Exporting(cs[j]), cs[j], x) => IsLast(jm, q, Exporting(cs[j]), cs[j], x)
    BY <2>1, LastAlike
  <2> QED BY <2>2, Zenon DEF IsExact
<1>2. \A k \in 1..Len(cs) : \A j \in 1..(k - 1) : j \in 1..Len(cs) BY CandidateFacts
<1> QED BY <1>1, <1>2, Zenon DEF IsFound

\* Imports that do not matter may come and go.
LEMMA FoundHarmless ==
  ASSUME NEW im \in Seq(Modules), NEW us, NEW p \in 0..Len(im), NEW q \in 0..Len(im), p <= q,
         Harmless(im, us, p, q), NEW h \in Hashes, Knowing(h) \cap us = {}, NEW r
  PROVE  IsFound(im, p, h, r) <=> IsFound(im, q, h, r)
<1>1. Len(im) \in Nat /\ p \in Nat /\ q \in Nat BY LenProperties
<1>2. ASSUME NEW c \in Range(Candidates(h)), NEW i \in (p + 1)..q PROVE im[i] \notin Exporting(c)
  <2>1. Exports[im[i]] = {} \/ im[i] \in us BY DEF Harmless
  <2> QED BY <2>1, KnownOf DEF Exporting
<1>3. ASSUME NEW c \in Range(Candidates(h))
      PROVE  Alike(im, p, im, q, Exporting(c)) /\ Alike(im, q, im, p, Exporting(c))
  <2>1. \A i \in 1..p : i \in 1..q BY <1>1
  <2>2. \A i \in 1..q : i \in 1..p \/ i \in (p + 1)..q BY <1>1
  <2> QED BY <1>2, <2>1, <2>2 DEF Alike
<1> QED BY <1>1, <1>3, FoundAlike

LEMMA FoundPrefix ==
  ASSUME NEW im, NEW jm, NEW p \in Nat, \A i \in 1..p : jm[i] = im[i],
         NEW h \in Hashes, NEW r, IsFound(im, p, h, r)
  PROVE  IsFound(jm, p, h, r)
<1>1. \A c \in Range(Candidates(h)) : Alike(im, p, jm, p, Exporting(c)) BY DEF Alike
<1> QED BY <1>1, FoundAlike

LEMMA RightGrows ==
  ASSUME NEW c, NEW im, NEW jm, NEW us, NEW vs, us \subseteq vs, NEW p \in Nat,
         \A i \in 1..p : jm[i] = im[i], Right(c, im, us, p)
  PROVE  Right(c, jm, vs, p)
<1> SUFFICES ASSUME NEW h \in Hashes, c.dict[h] # Absent, Knowing(h) \cap vs = {}
             PROVE  IsFound(jm, p, h, c.dict[h])
  BY DEF Right
<1>1. IsFound(im, p, h, c.dict[h]) BY DEF Right
<1> QED BY <1>1, FoundPrefix

LEMMA RightHarmless ==
  ASSUME NEW im \in Seq(Modules), NEW us, NEW p \in 0..Len(im), NEW q \in 0..Len(im), p <= q,
         Harmless(im, us, p, q), NEW c
  PROVE  Right(c, im, us, p) <=> Right(c, im, us, q)
BY FoundHarmless DEF Right

-----------------------------------------------------------------------------
\* Lemmas on frames and the caches they use.

LEMMA TypedFacts ==
  ASSUME NEW fs, NEW cs, NEW im, NEW lb, NEW us, Typed(fs, cs, im, lb, us)
  PROVE  /\ Len(fs) \in Nat /\ Len(cs) \in Nat /\ Len(im) \in Nat /\ Len(lb) \in Nat
         /\ \A i \in 1..Len(fs) : fs[i] \in Frame
         /\ \A i \in 1..Len(cs) : cs[i] \in Cache
         /\ fs # <<>> => Len(fs) \in 1..Len(fs)
         /\ cs # <<>> => Len(cs) \in 1..Len(cs)
<1>1. Len(fs) \in Nat /\ Len(cs) \in Nat /\ Len(im) \in Nat /\ Len(lb) \in Nat BY LenProperties DEF Typed
<1>2. \A i \in 1..Len(fs) : fs[i] \in Frame BY ElementOfSeq DEF Typed
<1>3. \A i \in 1..Len(cs) : cs[i] \in Cache BY ElementOfSeq DEF Typed
<1>4. (fs # <<>> => Len(fs) # 0) /\ (cs # <<>> => Len(cs) # 0) BY EmptySeq DEF Typed
<1> QED BY <1>1, <1>2, <1>3, <1>4

LEMMA FrameFacts ==
  ASSUME NEW f \in Frame
  PROVE  /\ f.lib \in Nat /\ f.imports \in Nat /\ f.caches \in Nat
         /\ f.kind \in {"block", "call", "eval"}
BY DEF Frame

\* When no frame is left to end, all imports remain.
LEMMA RemainNow ==
  ASSUME NEW fs, Len(fs) \in Nat, NEW im, NEW p
  PROVE  Remain(fs, im, Len(fs) + 1, p) <=> p = Len(im)
<1>1. \A i \in (Len(fs) + 1)..Len(fs) : FALSE OBVIOUS
<1> QED BY <1>1, Zenon DEF Remain

LEMMA HeightRange ==
  ASSUME NEW fs, NEW cs, NEW im, NEW lb, NEW us, Coherent(fs, cs, im, lb, us),
         NEW j \in 1..(Len(fs) + 1)
  PROVE  /\ Height(fs, cs, j) \in 0..Len(cs)
         /\ j \in 1..Len(fs) => Height(fs, cs, j) = fs[j].caches
         /\ j = Len(fs) + 1 => Height(fs, cs, j) = Len(cs)
<1>1. Len(fs) \in Nat /\ Len(cs) \in Nat BY TypedFacts DEF Coherent
<1>2. j \in 1..Len(fs) \/ j = Len(fs) + 1 BY <1>1
<1>3. \A i \in 1..Len(fs) : fs[i].caches \in 0..Len(cs) BY DEF Coherent, Nested
<1> QED BY <1>1, <1>2, <1>3 DEF Height

LEMMA RightEmpty ==
  ASSUME NEW im, NEW us, NEW p PROVE Right(EmptyCache, im, us, p)
BY DEF Right, EmptyCache

LEMMA EmptyIsCache == EmptyCache \in Cache
BY DEF EmptyCache, Cache, Results

LEMMA HarmlessGrows ==
  ASSUME NEW im, NEW jm, NEW us, NEW vs, us \subseteq vs, NEW p \in Nat, NEW q \in Nat, NEW l \in Nat,
         q <= l, \A i \in 1..l : jm[i] = im[i], Harmless(im, us, p, q)
  PROVE  Harmless(jm, vs, p, q)
<1>1. \A i \in (p + 1)..q : i \in 1..l OBVIOUS
<1> QED BY <1>1 DEF Harmless

\* The cache at the top may be changed as long as it is right: it is then right for the
\* frames that share it.
LEMMA TopChanges ==
  ASSUME NEW fs, NEW cs, NEW im, NEW lb, NEW us, Coherent(fs, cs, im, lb, us),
         NEW ds \in Seq(Cache), Len(ds) = Len(Current(cs)),
         \A i \in 1..(Len(ds) - 1) : ds[i] = cs[i],
         Right(ds[Len(ds)], im, us, Len(im))
  PROVE  Coherent(fs, ds, im, lb, us)
<1> DEFINE n == Len(fs)
<1>1. n \in Nat /\ Len(cs) \in Nat /\ Len(im) \in Nat BY TypedFacts DEF Coherent
<1>2. /\ cs # <<>> => Len(ds) = Len(cs) /\ Len(ds) # 0
      /\ cs = <<>> => Len(ds) = 1 /\ Len(cs) = 0
  BY EmptySeq DEF Coherent, Typed, Current
<1>3. Typed(fs, ds, im, lb, us) BY DEF Coherent, Typed
<1>4. Nested(fs, ds, im, lb)
  <2>1. \A i \in 0..Len(cs) : i \in 0..Len(ds) BY <1>1, <1>2
  <2> QED BY <2>1 DEF Coherent, Nested
<1>5. ASSUME NEW j \in 1..(n + 1)
      PROVE  /\ Height(fs, ds, j) = Height(fs, cs, j) \/ (cs = <<>> /\ j = n + 1 /\ Height(fs, ds, j) = 1)
             /\ cs = <<>> /\ Height(fs, ds, j) > 0 => j = n + 1
             /\ Height(fs, ds, j) \in 0..Len(ds)
  <2>1. CASE j \in 1..n
    <3>1. Height(fs, ds, j) = fs[j].caches /\ Height(fs, cs, j) = fs[j].caches BY <1>1, <2>1 DEF Height
    <3>2. fs[j].caches \in 0..Len(cs) BY <2>1 DEF Coherent, Nested
    <3> QED BY <1>1, <1>2, <3>1, <3>2
  <2>2. CASE j = n + 1
    <3>1. Height(fs, ds, j) = Len(ds) /\ Height(fs, cs, j) = Len(cs) BY <1>1, <2>2 DEF Height
    <3> QED BY <1>1, <1>2, <2>2, <3>1
  <2>3. j \in 1..n \/ j = n + 1 BY <1>1
  <2> QED BY <2>1, <2>2, <2>3, Zenon
<1>6. Remain(fs, im, n + 1, Len(im)) BY <1>1, RemainNow
<1>7. n + 1 \in 1..(n + 1) /\ Len(im) \in 0..Len(im) BY <1>1
<1>8. AllRight(fs, ds, im, us)
  <2> SUFFICES ASSUME NEW j \in 1..(n + 1), NEW p \in 0..Len(im),
                      Height(fs, ds, j) > 0, Remain(fs, im, j, p)
               PROVE  Right(ds[Height(fs, ds, j)], im, us, p)
    BY DEF AllRight
  <2>1. CASE cs = <<>>
    <3>1. j = n + 1 /\ Height(fs, ds, j) = Len(ds) BY <1>1, <1>2, <1>5, <2>1 DEF Height
    <3>2. p = Len(im) BY <1>1, <3>1, RemainNow
    <3> QED BY <3>1, <3>2
  <2>2. CASE cs # <<>> /\ Height(fs, ds, j) # Len(ds)
    <3>1. Height(fs, ds, j) = Height(fs, cs, j) /\ Height(fs, ds, j) \in 1..(Len(ds) - 1)
      BY <1>1, <1>2, <1>5, <2>2
    <3>2. Right(cs[Height(fs, cs, j)], im, us, p) BY <3>1 DEF Coherent, AllRight
    <3> QED BY <3>1, <3>2
  <2>3. CASE cs # <<>> /\ Height(fs, ds, j) = Len(ds)
    <3>1. /\ Height(fs, cs, j) = Height(fs, cs, n + 1) /\ Height(fs, cs, j) > 0
          /\ j \in 1..(n + 1)
      BY <1>1, <1>2, <1>5, <1>7, <2>3, HeightRange
    <3>2. Harmless(im, us, p, Len(im)) BY <1>6, <1>7, <3>1 DEF Coherent, Shared
    <3>3. p <= Len(im) /\ im \in Seq(Modules) BY <1>1 DEF Coherent, Typed
    <3> QED BY <1>7, <2>3, <3>2, <3>3, RightHarmless
  <2> QED BY <2>1, <2>2, <2>3
<1>9. Shared(fs, ds, im, us)
  <2> SUFFICES ASSUME NEW t \in 1..(n + 1), NEW j \in 1..t, NEW p \in 0..Len(im), NEW q \in 0..Len(im),
                      Height(fs, ds, j) > 0, Height(fs, ds, j) = Height(fs, ds, t),
                      Remain(fs, im, j, p), Remain(fs, im, t, q)
               PROVE  Harmless(im, us, p, q)
    BY DEF Shared
  <2>1. j \in 1..(n + 1) BY <1>1
  <2>2. CASE cs = <<>>
    <3>1. j = n + 1 /\ t = n + 1 BY <1>5, <2>1, <2>2
    <3>2. p = Len(im) /\ q = Len(im) BY <1>1, <3>1, RemainNow
    <3>3. \A i \in (p + 1)..q : FALSE BY <1>1, <3>2
    <3> QED BY <3>3 DEF Harmless
  <2>3. CASE cs # <<>>
    <3>1. Height(fs, ds, j) = Height(fs, cs, j) /\ Height(fs, ds, t) = Height(fs, cs, t)
      BY <1>5, <2>1, <2>3
    <3> QED BY <3>1 DEF Coherent, Shared
  <2> QED BY <2>2, <2>3
<1>10. OneOutside(fs, ds)
  <2> SUFFICES ASSUME NEW j \in 1..(n + 1), \A i \in 1..(j - 1) : fs[i].kind = "eval"
               PROVE  Height(fs, ds, j) <= 1
    BY DEF OneOutside
  <2>1. Height(fs, cs, j) <= 1 BY DEF Coherent, OneOutside
  <2> QED BY <1>5, <2>1
<1>11. Libraries(lb, us) BY DEF Coherent
<1> QED BY <1>3, <1>4, <1>8, <1>9, <1>10, <1>11 DEF Coherent

\* A frame is entered, perhaps with imports that do not matter.
LEMMA Enters ==
  ASSUME NEW fs, NEW cs, NEW im, NEW lb, NEW us, Coherent(fs, cs, im, lb, us),
         NEW f \in Frame, f.lib = Len(lb), f.imports = Len(im), f.caches = Len(cs),
         NEW jm \in Seq(Modules), Len(im) <= Len(jm), \A i \in 1..Len(im) : jm[i] = im[i],
         f.kind = "eval" => Len(jm) = Len(im),
         NEW kb \in Seq({"main"} \cup Modules), Len(lb) <= Len(kb),
         NEW vs, us \subseteq vs, vs \subseteq Modules, Libraries(kb, vs),
         Harmless(jm, vs, Len(im), Len(jm))
  PROVE  Coherent(Append(fs, f), cs, jm, kb, vs)
<1> DEFINE n  == Len(fs)
           gs == Append(fs, f)
<1>1. /\ n \in Nat /\ Len(cs) \in Nat /\ Len(im) \in Nat /\ Len(lb) \in Nat
      /\ fs \in Seq(Frame) /\ cs \in Seq(Cache) /\ im \in Seq(Modules)
  BY TypedFacts DEF Coherent, Typed
<1>2. Len(jm) \in Nat /\ Len(kb) \in Nat BY LenProperties
<1>3. /\ gs \in Seq(Frame) /\ Len(gs) = n + 1 /\ gs[n + 1] = f
      /\ \A i \in 1..n : gs[i] = fs[i]
  BY <1>1, AppendProperties
<1> HIDE DEF gs
<1>4. Typed(gs, cs, jm, kb, vs) BY <1>1, <1>3 DEF Typed
<1>5. \A i \in 1..(n + 1) : i \in 1..n \/ i = n + 1 BY <1>1
<1>6. Nested(gs, cs, jm, kb)
  <2>1. \A i \in 1..n : /\ fs[i].lib \in 1..Len(lb) /\ fs[i].imports \in 0..Len(im)
                        /\ fs[i].caches \in 0..Len(cs)
                        /\ \A j \in i..n : /\ fs[i].lib <= fs[j].lib /\ fs[i].imports <= fs[j].imports
                                           /\ fs[i].caches <= fs[j].caches
    BY DEF Coherent, Nested
  <2>2. Len(lb) # 0 BY EmptySeq DEF Coherent, Libraries, Typed
  <2>3. ASSUME NEW i \in 1..(n + 1)
        PROVE  /\ gs[i].lib \in 1..Len(kb) /\ gs[i].imports \in 0..Len(jm)
               /\ gs[i].caches \in 0..Len(cs)
    <3>1. CASE i \in 1..n
      <4>1. gs[i] = fs[i] BY <1>3, <3>1
      <4>2. fs[i].lib \in 1..Len(lb) /\ fs[i].imports \in 0..Len(im) /\ fs[i].caches \in 0..Len(cs)
        BY <2>1, <3>1
      <4>3. fs[i].lib \in 1..Len(kb) /\ fs[i].imports \in 0..Len(jm) BY <4>2, SMTT(30)
      <4> QED BY <4>1, <4>2, <4>3
    <3>2. CASE i = n + 1 BY <1>1, <1>2, <1>3, <2>2, <3>2
    <3> QED BY <1>5, <3>1, <3>2
  <2>4. ASSUME NEW i \in 1..(n + 1), NEW j \in i..(n + 1)
        PROVE  /\ gs[i].lib <= gs[j].lib /\ gs[i].imports <= gs[j].imports
               /\ gs[i].caches <= gs[j].caches
    <3>1. CASE j \in 1..n
      <4>1. i \in 1..n /\ j \in i..n BY <1>1, <3>1
      <4>2. gs[i] = fs[i] /\ gs[j] = fs[j] BY <1>3, <3>1, <4>1
      <4> QED BY <2>1, <4>1, <4>2
    <3>2. CASE j = n + 1 /\ i \in 1..n
      <4>1. gs[i] = fs[i] /\ gs[j] = f BY <1>3, <3>2
      <4>2. fs[i].lib \in 1..Len(lb) /\ fs[i].imports \in 0..Len(im) /\ fs[i].caches \in 0..Len(cs)
        BY <2>1, <3>2
      <4>3. Len(lb) \in Nat /\ Len(im) \in Nat /\ Len(cs) \in Nat BY <1>1
      <4>4. fs[i].lib <= f.lib /\ fs[i].imports <= f.imports /\ fs[i].caches <= f.caches BY <4>2, <4>3
      <4> QED BY <4>1, <4>4
    <3>3. CASE j = n + 1 /\ i = n + 1 BY <1>1, <1>3, <3>3
    <3>4. j \in 1..n \/ j = n + 1 BY <1>1
    <3> QED BY <1>5, <3>1, <3>2, <3>3, <3>4
  <2> QED BY <1>3, <2>3, <2>4 DEF Nested
<1>7. ASSUME NEW j \in 1..(n + 1) PROVE Height(gs, cs, j) = Height(fs, cs, j)
  <2>1. CASE j \in 1..n BY <1>1, <1>3, <2>1 DEF Height
  <2>2. CASE j = n + 1 BY <1>1, <1>3, <2>2 DEF Height
  <2> QED BY <1>5, <2>1, <2>2
<1>8. Height(gs, cs, n + 2) = Len(cs) /\ Height(fs, cs, n + 1) = Len(cs) BY <1>1, <1>3 DEF Height
<1>9. ASSUME NEW j \in 1..(n + 1), NEW p \in 0..Len(jm), Remain(gs, jm, j, p)
      PROVE  Remain(fs, im, j, p) /\ p \in 0..Len(im)
  <2>1. CASE p = Len(jm) /\ \A i \in j..(n + 1) : gs[i].kind = "eval"
    <3>1. n + 1 \in j..(n + 1) /\ \A i \in j..n : i \in j..(n + 1) /\ i \in 1..n BY <1>1
    <3>2. f.kind = "eval" /\ \A i \in j..n : fs[i].kind = "eval" BY <1>3, <2>1, <3>1
    <3>3. p = Len(im) BY <2>1, <3>2
    <3> QED BY <1>1, <3>2, <3>3 DEF Remain
  <2>2. CASE \E i \in j..(n + 1) : /\ gs[i].kind # "eval" /\ gs[i].imports = p
                                   /\ \A l \in j..(i - 1) : gs[l].kind = "eval"
    <3>1. PICK i \in j..(n + 1) : /\ gs[i].kind # "eval" /\ gs[i].imports = p
                                  /\ \A l \in j..(i - 1) : gs[l].kind = "eval"
      BY <2>2
    <3>2. \A l \in j..(i - 1) : fs[l].kind = "eval"
      <4>1. \A l \in j..(i - 1) : l \in 1..n BY <1>1
      <4> QED BY <1>3, <3>1, <4>1
    <3>3. CASE i = n + 1
      <4>1. p = Len(im) /\ \A l \in j..n : fs[l].kind = "eval" BY <1>1, <1>3, <3>1, <3>2, <3>3
      <4> QED BY <1>1, <4>1 DEF Remain
    <3>4. CASE i # n + 1
      <4>1. i \in j..n /\ i \in 1..n BY <1>1, <3>4
      <4>2. fs[i].kind # "eval" /\ fs[i].imports = p BY <1>3, <3>1, <4>1
      <4>3. fs[i].imports \in 0..Len(im) BY <4>1 DEF Coherent, Nested
      <4> QED BY <3>2, <4>1, <4>2, <4>3 DEF Remain
    <3> QED BY <3>3, <3>4
  <2> QED BY <1>3, <1>9, <2>1, <2>2, Zenon DEF Remain
<1>10. \A p : Remain(gs, jm, n + 2, p) => p = Len(jm)
  <2>1. Len(gs) + 1 = n + 2 /\ Len(gs) \in Nat BY <1>1, <1>3
  <2> QED BY <2>1, RemainNow
<1>11. Remain(fs, im, n + 1, Len(im)) /\ n + 1 \in 1..(n + 1) /\ Len(im) \in 0..Len(im)
  BY <1>1, RemainNow
<1>12. \A j \in 1..(n + 2) : j \in 1..(n + 1) \/ j = n + 2 BY <1>1
<1>13. AllRight(gs, cs, jm, vs)
  <2> SUFFICES ASSUME NEW j \in 1..(n + 2), NEW p \in 0..Len(jm),
                      Height(gs, cs, j) > 0, Remain(gs, jm, j, p)
               PROVE  Right(cs[Height(gs, cs, j)], jm, vs, p)
    BY <1>1, <1>3 DEF AllRight
  <2>1. CASE j \in 1..(n + 1)
    <3>1. Remain(fs, im, j, p) /\ p \in 0..Len(im) /\ Height(gs, cs, j) = Height(fs, cs, j)
      BY <1>7, <1>9, <2>1
    <3>2. Right(cs[Height(gs, cs, j)], im, us, p) BY <2>1, <3>1 DEF Coherent, AllRight
    <3>3. p \in Nat /\ \A i \in 1..p : jm[i] = im[i] BY <1>1, <3>1
    <3> QED BY <3>2, <3>3, RightGrows
  <2>2. CASE j = n + 2
    <3>1. p = Len(jm) /\ Height(gs, cs, j) = Len(cs) /\ Height(fs, cs, n + 1) = Len(cs)
      BY <1>8, <1>10, <2>2
    <3>2. Right(cs[Len(cs)], im, us, Len(im)) BY <1>11, <3>1 DEF Coherent, AllRight
    <3>3. Right(cs[Len(cs)], jm, vs, Len(im)) BY <1>1, <3>2, RightGrows
    <3>4. Len(im) \in 0..Len(jm) /\ Len(jm) \in 0..Len(jm) BY <1>1, <1>2
    <3> QED BY <3>1, <3>3, <3>4, RightHarmless
  <2> QED BY <1>12, <2>1, <2>2
<1>14. Shared(gs, cs, jm, vs)
  <2>0. Len(gs) + 1 = n + 2 BY <1>1, <1>3
  <2> SUFFICES ASSUME NEW t \in 1..(n + 2), NEW j \in 1..t, NEW p \in 0..Len(jm), NEW q \in 0..Len(jm),
                      Height(gs, cs, j) > 0, Height(gs, cs, j) = Height(gs, cs, t),
                      Remain(gs, jm, j, p), Remain(gs, jm, t, q)
               PROVE  Harmless(jm, vs, p, q)
    BY <2>0, Zenon DEF Shared
  <2>1. CASE t \in 1..(n + 1)
    <3>1. j \in 1..(n + 1) BY <1>1, <2>1
    <3>2. /\ Remain(fs, im, j, p) /\ p \in 0..Len(im) /\ Height(gs, cs, j) = Height(fs, cs, j)
          /\ Remain(fs, im, t, q) /\ q \in 0..Len(im) /\ Height(gs, cs, t) = Height(fs, cs, t)
      BY <1>7, <1>9, <2>1, <3>1
    <3>3. Harmless(im, us, p, q) BY <2>1, <3>2 DEF Coherent, Shared
    <3>4. p \in Nat /\ q \in Nat /\ q <= Len(im) BY <1>1, <3>2
    <3> QED BY <1>1, <3>3, <3>4, HarmlessGrows
  <2>2. CASE t = n + 2 /\ j \in 1..(n + 1)
    <3>1. /\ Remain(fs, im, j, p) /\ p \in 0..Len(im) /\ Height(gs, cs, j) = Height(fs, cs, j)
          /\ Height(fs, cs, j) = Height(fs, cs, n + 1) /\ q = Len(jm)
      BY <1>7, <1>8, <1>9, <1>10, <2>2
    <3>2. Harmless(im, us, p, Len(im)) BY <1>11, <2>2, <3>1 DEF Coherent, Shared
    <3>3. Harmless(jm, vs, p, Len(im))
      <4>1. p \in Nat /\ Len(im) <= Len(im) BY <1>1, <3>1
      <4> QED BY <1>1, <3>2, <4>1, HarmlessGrows
    <3>4. \A i \in (p + 1)..q : i \in (p + 1)..Len(im) \/ i \in (Len(im) + 1)..Len(jm)
      BY <1>1, <1>2, <3>1
    <3> QED BY <3>3, <3>4 DEF Harmless
  <2>3. CASE t = n + 2 /\ j = n + 2
    <3>1. p = q BY <1>10, <2>3
    <3>2. \A i \in (p + 1)..q : FALSE BY <1>2, <3>1
    <3> QED BY <3>2 DEF Harmless
  <2>4. j \in 1..(n + 1) \/ j = n + 2 BY <1>1
  <2> QED BY <1>12, <2>1, <2>2, <2>3, <2>4
<1>15. OneOutside(gs, cs)
  <2> SUFFICES ASSUME NEW j \in 1..(n + 2), \A i \in 1..(j - 1) : gs[i].kind = "eval"
               PROVE  Height(gs, cs, j) <= 1
    BY <1>1, <1>3 DEF OneOutside
  <2>1. CASE j \in 1..(n + 1)
    <3>1. \A i \in 1..(j - 1) : i \in 1..n BY <1>1, <2>1
    <3>2. \A i \in 1..(j - 1) : fs[i].kind = "eval" BY <1>3, <3>1
    <3> QED BY <1>7, <2>1, <3>2 DEF Coherent, OneOutside
  <2>2. CASE j = n + 2
    <3>1. \A i \in 1..(n + 1 - 1) : i \in 1..(j - 1) /\ i \in 1..n BY <1>1, <2>2
    <3>2. \A i \in 1..(n + 1 - 1) : fs[i].kind = "eval" BY <1>3, <3>1
    <3>3. Height(fs, cs, n + 1) <= 1 BY <1>11, <3>2 DEF Coherent, OneOutside
    <3> QED BY <1>8, <2>2, <3>3
  <2> QED BY <1>12, <2>1, <2>2
<1> QED BY <1>4, <1>6, <1>13, <1>14, <1>15 DEF Coherent, gs

\* The first k elements of a sequence.
LEMMA Cut ==
  ASSUME NEW S, NEW s \in Seq(S), NEW k \in 0..Len(s)
  PROVE  /\ SubSeq(s, 1, k) \in Seq(S) /\ Len(SubSeq(s, 1, k)) = k
         /\ \A i \in 1..k : SubSeq(s, 1, k)[i] = s[i]
<1>1. Len(s) \in Nat BY LenProperties
<1>2. \A i \in 1..k : s[i] \in S BY <1>1, ElementOfSeq
<1>3. k \in Int /\ 1 \in Int BY <1>1
<1>4. /\ SubSeq(s, 1, k) \in Seq(S)
      /\ Len(SubSeq(s, 1, k)) = IF 1 <= k THEN k - 1 + 1 ELSE 0
      /\ \A i \in 1..(k - 1 + 1) : SubSeq(s, 1, k)[i] = s[1 + i - 1]
  BY <1>2, <1>3, SubSeqProperties
<1>5. k - 1 + 1 = k /\ \A i \in 1..k : 1 + i - 1 = i BY <1>3
<1> QED BY <1>1, <1>4, <1>5

\* The imports jm are what the frame f leaves of im.
Kept(f, im, jm) == jm = IF f.kind = "eval" THEN im ELSE SubSeq(im, 1, f.imports)

\* The innermost frame ends.
LEMMA Leaves ==
  ASSUME NEW fs, NEW cs, NEW im, NEW lb, NEW us, Coherent(fs, cs, im, lb, us),
         fs # <<>>, NEW f, f = fs[Len(fs)],
         NEW jm, Kept(f, im, jm)
  PROVE  Coherent(SubSeq(fs, 1, Len(fs) - 1), SubSeq(cs, 1, f.caches), jm, SubSeq(lb, 1, f.lib), us)
<1> DEFINE n  == Len(fs)
           gs == SubSeq(fs, 1, n - 1)
           ds == SubSeq(cs, 1, f.caches)
           kb == SubSeq(lb, 1, f.lib)
<1>1. /\ n \in Nat \ {0} /\ n \in 1..n /\ Len(cs) \in Nat /\ Len(im) \in Nat /\ Len(lb) \in Nat
      /\ fs \in Seq(Frame) /\ cs \in Seq(Cache) /\ im \in Seq(Modules)
      /\ lb \in Seq({"main"} \cup Modules) /\ us \subseteq Modules
  BY TypedFacts DEF Coherent, Typed
<1>2. \A i \in 1..n : /\ fs[i].lib \in 1..Len(lb) /\ fs[i].imports \in 0..Len(im)
                      /\ fs[i].caches \in 0..Len(cs)
                      /\ \A j \in i..n : /\ fs[i].lib <= fs[j].lib /\ fs[i].imports <= fs[j].imports
                                         /\ fs[i].caches <= fs[j].caches
  BY DEF Coherent, Nested
<1>3. f.lib \in 1..Len(lb) /\ f.imports \in 0..Len(im) /\ f.caches \in 0..Len(cs) BY <1>1, <1>2
<1>4. gs \in Seq(Frame) /\ Len(gs) = n - 1 /\ \A i \in 1..(n - 1) : gs[i] = fs[i]
  <2>1. n - 1 \in 0..Len(fs) BY <1>1
  <2> QED BY <1>1, <2>1, Cut
<1>5. ds \in Seq(Cache) /\ Len(ds) = f.caches /\ \A i \in 1..f.caches : ds[i] = cs[i] BY <1>1, <1>3, Cut
<1>6. /\ kb \in Seq({"main"} \cup Modules) /\ Len(kb) = f.lib
      /\ \A i \in 1..f.lib : kb[i] = lb[i]
  <2>1. f.lib \in 0..Len(lb) BY <1>1, <1>3
  <2> QED BY <1>1, <2>1, Cut
<1>7. /\ jm \in Seq(Modules) /\ Len(jm) \in 0..Len(im) /\ f.imports <= Len(jm)
      /\ \A i \in 1..Len(jm) : jm[i] = im[i]
      /\ f.kind = "eval" => Len(jm) = Len(im)
      /\ f.kind # "eval" => Len(jm) = f.imports
  <2>1. /\ SubSeq(im, 1, f.imports) \in Seq(Modules) /\ Len(SubSeq(im, 1, f.imports)) = f.imports
        /\ \A i \in 1..f.imports : SubSeq(im, 1, f.imports)[i] = im[i]
    BY <1>1, <1>3, Cut
  <2>2. CASE f.kind = "eval" BY <1>1, <1>3, <2>2 DEF Kept
  <2>3. CASE f.kind # "eval"
    <3>1. jm = SubSeq(im, 1, f.imports) BY <2>3 DEF Kept
    <3> QED BY <1>3, <2>1, <2>3, <3>1
  <2> QED BY <2>2, <2>3
<1> HIDE DEF gs, ds, kb
<1>8. Typed(gs, ds, jm, kb, us) BY <1>1, <1>4, <1>5, <1>6, <1>7 DEF Typed
<1>9. Nested(gs, ds, jm, kb)
  <2>1. ASSUME NEW i \in 1..(n - 1)
        PROVE  /\ gs[i].lib \in 1..Len(kb) /\ gs[i].imports \in 0..Len(jm)
               /\ gs[i].caches \in 0..Len(ds)
    <3>1. i \in 1..n /\ n \in i..n /\ gs[i] = fs[i] BY <1>1, <1>4
    <3>2. /\ fs[i].lib \in 1..Len(lb) /\ fs[i].imports \in 0..Len(im) /\ fs[i].caches \in 0..Len(cs)
          /\ fs[i].lib <= f.lib /\ fs[i].imports <= f.imports /\ fs[i].caches <= f.caches
      BY <1>2, <3>1
    <3> QED BY <1>1, <1>3, <1>5, <1>6, <1>7, <3>1, <3>2
  <2>2. ASSUME NEW i \in 1..(n - 1), NEW j \in i..(n - 1)
        PROVE  /\ gs[i].lib <= gs[j].lib /\ gs[i].imports <= gs[j].imports
               /\ gs[i].caches <= gs[j].caches
    <3>1. i \in 1..n /\ j \in i..n /\ j \in 1..(n - 1) BY <1>1
    <3>2. gs[i] = fs[i] /\ gs[j] = fs[j] BY <1>4, <3>1
    <3> QED BY <1>2, <3>1, <3>2
  <2> QED BY <1>4, <2>1, <2>2 DEF Nested
<1>10. Libraries(kb, us)
  <2>1. lb[1] = "main" /\ \A i \in 2..Len(lb) : lb[i] \in us BY DEF Coherent, Libraries
  <2>2. 1 \in 1..f.lib /\ \A i \in 2..f.lib : i \in 1..f.lib /\ i \in 2..Len(lb) BY <1>1, <1>3
  <2>3. kb # <<>> BY <1>3, <1>6, EmptySeq
  <2> QED BY <1>6, <2>1, <2>2, <2>3 DEF Libraries
<1>11. Len(gs) + 1 = n BY <1>1, <1>4
<1>12. ASSUME NEW j \in 1..n PROVE Height(gs, ds, j) = Height(fs, cs, j) /\ Height(fs, cs, j) \in 0..f.caches
  <2>1. j \in 1..n /\ n \in j..n BY <1>1
  <2>2. Height(fs, cs, j) = fs[j].caches /\ fs[j].caches \in 0..f.caches
    BY <1>1, <1>2, <1>3, <2>1 DEF Height
  <2>3. CASE j = n BY <1>1, <1>4, <1>5, <2>2, <2>3 DEF Height
  <2>4. CASE j # n
    <3>1. j \in 1..(n - 1) BY <1>1, <2>4
    <3>2. gs[j] = fs[j] BY <1>4, <3>1
    <3>3. j <= Len(gs) BY <1>4, <3>1
    <3> QED BY <2>2, <3>2, <3>3 DEF Height
  <2> QED BY <2>3, <2>4
<1>13. ASSUME NEW j \in 1..n, NEW p \in 0..Len(jm), Remain(gs, jm, j, p)
       PROVE  Remain(fs, im, j, p) /\ p \in 0..Len(im)
  <2>1. p \in 0..Len(im) BY <1>1, <1>7
  <2>2. CASE p = Len(jm) /\ \A i \in j..(n - 1) : gs[i].kind = "eval"
    <3>1. \A i \in j..(n - 1) : i \in 1..(n - 1) BY <1>1
    <3>2. \A i \in j..(n - 1) : fs[i].kind = "eval" BY <1>4, <2>2, <3>1
    <3>3. CASE f.kind = "eval"
      <4>1. \A i \in j..n : i \in j..(n - 1) \/ i = n BY <1>1
      <4>2. \A i \in j..n : fs[i].kind = "eval" BY <3>2, <3>3, <4>1
      <4> QED BY <1>7, <2>1, <2>2, <3>3, <4>2 DEF Remain
    <3>4. CASE f.kind # "eval"
      <4>1. n \in j..n /\ fs[n].kind # "eval" /\ fs[n].imports = p BY <1>1, <1>7, <2>2, <3>4
      <4> QED BY <2>1, <3>2, <4>1 DEF Remain
    <3> QED BY <3>3, <3>4
  <2>3. CASE \E i \in j..(n - 1) : /\ gs[i].kind # "eval" /\ gs[i].imports = p
                                   /\ \A l \in j..(i - 1) : gs[l].kind = "eval"
    <3>1. PICK i \in j..(n - 1) : /\ gs[i].kind # "eval" /\ gs[i].imports = p
                                  /\ \A l \in j..(i - 1) : gs[l].kind = "eval"
      BY <2>3
    <3>2. i \in 1..(n - 1) /\ i \in j..n /\ \A l \in j..(i - 1) : l \in 1..(n - 1) BY <1>1
    <3>3. fs[i].kind # "eval" /\ fs[i].imports = p /\ \A l \in j..(i - 1) : fs[l].kind = "eval"
      BY <1>4, <3>1, <3>2
    <3> QED BY <2>1, <3>2, <3>3 DEF Remain
  <2> QED BY <1>4, <1>13, <2>2, <2>3, Zenon DEF Remain
<1>14. AllRight(gs, ds, jm, us)
  <2> SUFFICES ASSUME NEW j \in 1..n, NEW p \in 0..Len(jm),
                      Height(gs, ds, j) > 0, Remain(gs, jm, j, p)
               PROVE  Right(ds[Height(gs, ds, j)], jm, us, p)
    BY <1>11, Zenon DEF AllRight
  <2>1. /\ Remain(fs, im, j, p) /\ p \in 0..Len(im)
        /\ Height(gs, ds, j) = Height(fs, cs, j) /\ Height(fs, cs, j) \in 1..f.caches
    BY <1>3, <1>12, <1>13
  <2>2. j \in 1..(Len(fs) + 1) BY <1>1
  <2>3. Right(cs[Height(fs, cs, j)], im, us, p) BY <2>1, <2>2 DEF Coherent, AllRight
  <2>4. ds[Height(gs, ds, j)] = cs[Height(fs, cs, j)] BY <1>5, <2>1
  <2>5. p \in Nat /\ \A i \in 1..p : jm[i] = im[i] BY <1>1, <1>7
  <2>6. us \subseteq us OBVIOUS
  <2>7. Right(cs[Height(fs, cs, j)], jm, us, p) BY <2>3, <2>5, <2>6, RightGrows
  <2> QED BY <2>4, <2>7
<1>15. Shared(gs, ds, jm, us)
  <2> SUFFICES ASSUME NEW t \in 1..n, NEW j \in 1..t, NEW p \in 0..Len(jm), NEW q \in 0..Len(jm),
                      Height(gs, ds, j) > 0, Height(gs, ds, j) = Height(gs, ds, t),
                      Remain(gs, jm, j, p), Remain(gs, jm, t, q)
               PROVE  Harmless(jm, us, p, q)
    BY <1>11, Zenon DEF Shared
  <2>1. j \in 1..n /\ t \in 1..(Len(fs) + 1) BY <1>1
  <2>2. /\ Remain(fs, im, j, p) /\ p \in 0..Len(im) /\ Height(gs, ds, j) = Height(fs, cs, j)
        /\ Remain(fs, im, t, q) /\ q \in 0..Len(im) /\ Height(gs, ds, t) = Height(fs, cs, t)
    BY <1>12, <1>13, <2>1
  <2>3. Harmless(im, us, p, q) BY <2>1, <2>2 DEF Coherent, Shared
  <2>4. p \in Nat /\ q \in Nat /\ q <= Len(jm) /\ Len(jm) \in Nat BY <1>1, <1>7
  <2>5. us \subseteq us OBVIOUS
  <2> QED BY <1>7, <2>3, <2>4, <2>5, HarmlessGrows
<1>16. OneOutside(gs, ds)
  <2> SUFFICES ASSUME NEW j \in 1..n, \A i \in 1..(j - 1) : gs[i].kind = "eval"
               PROVE  Height(gs, ds, j) <= 1
    BY <1>11, Zenon DEF OneOutside
  <2>1. j \in 1..(Len(fs) + 1) /\ \A i \in 1..(j - 1) : i \in 1..(n - 1) BY <1>1
  <2>2. \A i \in 1..(j - 1) : fs[i].kind = "eval" BY <1>4, <2>1
  <2> QED BY <1>12, <2>1, <2>2 DEF Coherent, OneOutside
<1> QED BY <1>8, <1>9, <1>10, <1>14, <1>15, <1>16 DEF Coherent, gs, ds, kb

\* The frames from the j-th on are all evals, whose imports stay when they end.
AllEvals(fs, j) == \A i \in j..Len(fs) : fs[i].kind = "eval"

\* The import of m changes nothing for functions that are not in doubt.
Neutral(m, us) == Exports[m] = {} \/ m \in us

LEMMA ImportRemains ==
  ASSUME NEW fs, NEW cs, NEW im, NEW lb, NEW us, Coherent(fs, cs, im, lb, us), NEW m,
         NEW j \in 1..(Len(fs) + 1), NEW p, Remain(fs, Append(im, m), j, p)
  PROVE  \/ p = Len(im) + 1 /\ AllEvals(fs, j) /\ Remain(fs, im, j, Len(im))
         \/ p \in 0..Len(im) /\ ~AllEvals(fs, j) /\ Remain(fs, im, j, p)
<1>1. Len(Append(im, m)) = Len(im) + 1
  <2>1. im \in Seq(Modules \cup {m}) /\ m \in Modules \cup {m} BY SeqMonotonic DEF Coherent, Typed
  <2> QED BY <2>1, AppendProperties
<1>2. CASE p = Len(im) + 1 /\ \A i \in j..Len(fs) : fs[i].kind = "eval" BY <1>2 DEF AllEvals, Remain
<1>3. CASE \E i \in j..Len(fs) : /\ fs[i].kind # "eval" /\ fs[i].imports = p
                                 /\ \A l \in j..(i - 1) : fs[l].kind = "eval"
  <2>1. PICK i \in j..Len(fs) : fs[i].kind # "eval" /\ fs[i].imports = p BY <1>3
  <2>2. i \in 1..Len(fs) BY TypedFacts DEF Coherent
  <2>3. p \in 0..Len(im) BY <2>1, <2>2 DEF Coherent, Nested
  <2>4. ~AllEvals(fs, j) BY <2>1 DEF AllEvals
  <2>5. Remain(fs, im, j, p) BY <1>3, Zenon DEF Remain
  <2> QED BY <2>3, <2>4, <2>5
<1> QED BY <1>1, <1>2, <1>3, Zenon DEF Remain

LEMMA Imports ==
  ASSUME NEW fs, NEW cs, NEW im, NEW lb, NEW us, Coherent(fs, cs, im, lb, us),
         NEW m \in Modules, NEW vs, us \subseteq vs, vs \subseteq Modules,
         NEW ds \in Seq(Cache), Len(cs) <= Len(ds),
         \A i \in 1..Len(ds) : ds[i] = EmptyCache \/ (i \in 1..Len(cs) /\ ds[i] = cs[i]),
         \A j \in 1..(Len(fs) + 1) :
           Height(fs, ds, j) > 0 /\ AllEvals(fs, j) =>
             ds[Height(fs, ds, j)] = EmptyCache \/ Neutral(m, vs),
         \A t \in 1..(Len(fs) + 1) : \A j \in 1..t :
           /\ AllEvals(fs, t) /\ ~AllEvals(fs, j)
           /\ Height(fs, ds, j) > 0 /\ Height(fs, ds, j) = Height(fs, ds, t)
           => Neutral(m, vs) /\ Height(fs, cs, t) = Height(fs, ds, t),
         AllEvals(fs, 1) => Len(ds) <= 1
  PROVE  Coherent(fs, ds, Append(im, m), lb, vs)
<1> DEFINE n  == Len(fs)
           jm == Append(im, m)
<1>1. /\ n \in Nat /\ Len(cs) \in Nat /\ Len(im) \in Nat /\ Len(lb) \in Nat /\ Len(ds) \in Nat
      /\ fs \in Seq(Frame) /\ cs \in Seq(Cache) /\ im \in Seq(Modules)
      /\ lb \in Seq({"main"} \cup Modules)
  BY TypedFacts, LenProperties DEF Coherent, Typed
<1>2. /\ jm \in Seq(Modules) /\ Len(jm) = Len(im) + 1 /\ jm[Len(im) + 1] = m
      /\ \A i \in 1..Len(im) : jm[i] = im[i]
  BY <1>1, AppendProperties
<1>3. ASSUME NEW j \in 1..(n + 1), NEW p, Remain(fs, jm, j, p)
      PROVE  \/ p = Len(im) + 1 /\ AllEvals(fs, j) /\ Remain(fs, im, j, Len(im))
             \/ p \in 0..Len(im) /\ ~AllEvals(fs, j) /\ Remain(fs, im, j, p)
  BY <1>3, ImportRemains, Zenon
<1> HIDE DEF jm
<1>4. Typed(fs, ds, jm, lb, vs) BY <1>1, <1>2 DEF Typed
<1>5. Nested(fs, ds, jm, lb)
  <2>1. /\ \A i \in 0..Len(cs) : i \in 0..Len(ds)
        /\ \A i \in 0..Len(im) : i \in 0..Len(jm)
    BY <1>1, <1>2
  <2> QED BY <2>1 DEF Coherent, Nested
<1>6. Libraries(lb, vs) BY DEF Coherent, Libraries
<1>7. \A j \in 1..n : Height(fs, ds, j) = Height(fs, cs, j) BY <1>1 DEF Height
<1>8. Height(fs, ds, n + 1) = Len(ds) /\ Height(fs, cs, n + 1) = Len(cs) BY <1>1 DEF Height
<1>9. ASSUME NEW j \in 1..(n + 1) PROVE Height(fs, ds, j) \in 0..Len(ds)
  <2>1. CASE j \in 1..n BY <1>1, <1>7, <2>1, HeightRange
  <2>2. CASE j = n + 1 BY <1>1, <1>8, <2>2
  <2> QED BY <1>1, <2>1, <2>2
<1>10. ASSUME Neutral(m, vs), NEW p \in 0..Len(im), Harmless(jm, vs, p, Len(im))
       PROVE  Harmless(jm, vs, p, Len(im) + 1)
  <2>1. \A i \in (p + 1)..(Len(im) + 1) : i \in (p + 1)..Len(im) \/ i = Len(im) + 1 BY <1>1
  <2> QED BY <1>2, <1>10, <2>1 DEF Harmless, Neutral
<1>11. AllRight(fs, ds, jm, vs)
  <2> SUFFICES ASSUME NEW j \in 1..(n + 1), NEW p \in 0..Len(jm),
                      Height(fs, ds, j) > 0, Remain(fs, jm, j, p)
               PROVE  Right(ds[Height(fs, ds, j)], jm, vs, p)
    BY DEF AllRight
  <2> DEFINE H == Height(fs, ds, j)
  <2>1. H \in 1..Len(ds) BY <1>1, <1>9
  <2>2. CASE ds[H] = EmptyCache BY <2>2, RightEmpty
  <2>3. CASE ds[H] # EmptyCache
    <3>1. H \in 1..Len(cs) /\ ds[H] = cs[H] BY <2>1, <2>3
    <3>2. H = Height(fs, cs, j)
      <4>1. CASE j \in 1..n BY <1>7, <4>1
      <4>2. CASE j = n + 1 BY <1>1, <1>8, <3>1, <4>2
      <4> QED BY <1>1, <4>1, <4>2
    <3>3. \A q \in 0..Len(im) : Remain(fs, im, j, q) => Right(cs[H], im, us, q)
      BY <3>1, <3>2 DEF Coherent, AllRight
    <3> HIDE DEF H
    <3>4. \A q \in 0..Len(im) : Right(cs[H], im, us, q) => Right(cs[H], jm, vs, q)
      <4> TAKE q \in 0..Len(im)
      <4>1. q \in Nat /\ \A i \in 1..q : jm[i] = im[i] BY <1>1, <1>2
      <4> QED BY <4>1, RightGrows
    <3>5. CASE p \in 0..Len(im) /\ ~AllEvals(fs, j) /\ Remain(fs, im, j, p)
      BY <3>1, <3>3, <3>4, <3>5 DEF H
    <3>6. CASE p = Len(im) + 1 /\ AllEvals(fs, j) /\ Remain(fs, im, j, Len(im))
      <4>1. Neutral(m, vs) BY <2>3, <3>6 DEF H
      <4>2. Len(im) \in 0..Len(im) /\ \A i \in (Len(im) + 1)..Len(im) : FALSE BY <1>1
      <4>3. Harmless(jm, vs, Len(im), Len(im) + 1) BY <1>10, <4>1, <4>2 DEF Harmless
      <4>4. Right(cs[H], jm, vs, Len(im)) BY <3>3, <3>4, <3>6, <4>2
      <4>5. Len(im) \in 0..Len(jm) /\ Len(im) + 1 \in 0..Len(jm) /\ Len(im) <= Len(im) + 1 BY <1>1, <1>2
      <4>6. Right(cs[H], jm, vs, Len(im) + 1) BY <1>2, <4>3, <4>4, <4>5, RightHarmless
      <4> QED BY <3>1, <3>6, <4>6 DEF H
    <3> QED BY <1>3, <3>5, <3>6
  <2> QED BY <2>2, <2>3
<1>12. Shared(fs, ds, jm, vs)
  <2> SUFFICES ASSUME NEW t \in 1..(n + 1), NEW j \in 1..t, NEW p \in 0..Len(jm), NEW q \in 0..Len(jm),
                      Height(fs, ds, j) > 0, Height(fs, ds, j) = Height(fs, ds, t),
                      Remain(fs, jm, j, p), Remain(fs, jm, t, q)
               PROVE  Harmless(jm, vs, p, q)
    BY DEF Shared
  <2>1. j \in 1..(n + 1) /\ (AllEvals(fs, j) => AllEvals(fs, t))
    <3>1. \A i \in t..n : i \in j..n BY <1>1
    <3> QED BY <1>1, <3>1 DEF AllEvals
  <2>2. \A i \in 1..(n + 1) : ~AllEvals(fs, i) => i \in 1..n BY <1>1 DEF AllEvals
  <2>3. ASSUME NEW x \in 0..Len(im), NEW y \in 0..Len(im), Harmless(im, us, x, y)
        PROVE  Harmless(jm, vs, x, y)
    <3>1. x \in Nat /\ y \in Nat /\ y <= Len(im) BY <1>1
    <3> QED BY <1>1, <1>2, <2>3, <3>1, HarmlessGrows
  <2>4. CASE AllEvals(fs, j)
    <3>1. p = Len(im) + 1 /\ q = Len(im) + 1 BY <1>3, <2>1, <2>4
    <3>2. \A i \in (p + 1)..q : FALSE BY <1>1, <3>1
    <3> QED BY <3>2 DEF Harmless
  <2>5. CASE ~AllEvals(fs, j) /\ AllEvals(fs, t)
    <3>1. /\ p \in 0..Len(im) /\ Remain(fs, im, j, p)
          /\ q = Len(im) + 1 /\ Remain(fs, im, t, Len(im))
      BY <1>3, <2>1, <2>5
    <3>2. Neutral(m, vs) /\ Height(fs, cs, t) = Height(fs, ds, t) /\ Height(fs, cs, j) = Height(fs, ds, j)
      BY <1>7, <2>1, <2>2, <2>5
    <3>3. Len(im) \in 0..Len(im) BY <1>1
    <3>4. Harmless(im, us, p, Len(im)) BY <3>1, <3>2, <3>3 DEF Coherent, Shared
    <3> QED BY <1>10, <2>3, <3>1, <3>2, <3>3, <3>4
  <2>6. CASE ~AllEvals(fs, j) /\ ~AllEvals(fs, t)
    <3>1. /\ p \in 0..Len(im) /\ Remain(fs, im, j, p)
          /\ q \in 0..Len(im) /\ Remain(fs, im, t, q)
      BY <1>3, <2>1, <2>6
    <3>2. Height(fs, cs, t) = Height(fs, ds, t) /\ Height(fs, cs, j) = Height(fs, ds, j)
      BY <1>7, <2>1, <2>2, <2>6
    <3>3. Harmless(im, us, p, q) BY <3>1, <3>2 DEF Coherent, Shared
    <3> QED BY <2>3, <3>1, <3>3
  <2> QED BY <2>4, <2>5, <2>6
<1>13. OneOutside(fs, ds)
  <2> SUFFICES ASSUME NEW j \in 1..(n + 1), \A i \in 1..(j - 1) : fs[i].kind = "eval"
               PROVE  Height(fs, ds, j) <= 1
    BY DEF OneOutside
  <2>1. CASE j \in 1..n BY <1>7, <2>1 DEF Coherent, OneOutside
  <2>2. CASE j = n + 1
    <3>1. AllEvals(fs, 1) BY <1>1, <2>2 DEF AllEvals
    <3> QED BY <1>8, <2>2, <3>1
  <2> QED BY <1>1, <2>1, <2>2
<1> QED BY <1>4, <1>5, <1>6, <1>11, <1>12, <1>13 DEF Coherent, jm

-----------------------------------------------------------------------------
\* The steps.

LEMMA CurrentFacts ==
  ASSUME FInv
  PROVE  /\ Current(caches) \in Seq(Cache) /\ Len(Current(caches)) \in Nat \ {0}
         /\ \A i \in 1..Len(Current(caches)) : Current(caches)[i] \in Cache
         /\ \A i \in 1..(Len(Current(caches)) - 1) : Current(caches)[i] = caches[i]
         /\ Right(Current(caches)[Len(Current(caches))], imports, unseen, Len(imports))
<1> DEFINE cs == Current(caches)
<1>1. caches \in Seq(Cache) /\ Len(caches) \in Nat /\ Len(frames) \in Nat /\ Len(imports) \in Nat
  BY TypedFacts DEF FInv, Coherent, Typed
<1>2. CASE caches = <<>>
  <2>1. cs = <<EmptyCache>> BY <1>2 DEF Current
  <2>2. cs \in Seq(Cache) /\ Len(cs) = 1 /\ cs[1] = EmptyCache BY <2>1, EmptyIsCache
  <2>3. \A i \in 1..Len(cs) : i = 1 BY <2>2
  <2>4. \A i \in 1..(Len(cs) - 1) : FALSE BY <2>2
  <2> QED BY <2>2, <2>3, <2>4, EmptyIsCache, RightEmpty
<1>3. CASE caches # <<>>
  <2>1. cs = caches /\ Len(caches) # 0 BY <1>1, <1>3, EmptySeq DEF Current
  <2>2. \A i \in 1..Len(cs) : cs[i] \in Cache BY <1>1, <2>1, ElementOfSeq
  <2>3. Height(frames, caches, Len(frames) + 1) = Len(caches) BY <1>1 DEF Height
  <2>4. Remain(frames, imports, Len(frames) + 1, Len(imports)) BY <1>1, RemainNow, Zenon
  <2>5. /\ Len(frames) + 1 \in 1..(Len(frames) + 1) /\ Len(imports) \in 0..Len(imports)
        /\ Len(caches) > 0
    BY <1>1, <2>1
  <2>6. Right(caches[Len(caches)], imports, unseen, Len(imports))
    BY <2>3, <2>4, <2>5 DEF FInv, Coherent, AllRight
  <2> QED BY <1>1, <2>1, <2>2, <2>6
<1> QED BY <1>2, <1>3

LEMMA Looks == FInv => Coherent(frames, Current(caches), imports, lib, unseen)
<1> SUFFICES ASSUME FInv PROVE Coherent(frames, Current(caches), imports, lib, unseen) OBVIOUS
<1> QED BY CurrentFacts, TopChanges DEF FInv

LEMMA Remembers ==
  ASSUME FInv, NEW h \in Hashes, NEW b \in Hashes, NEW r \in Results,
         Knowing(h) \cap unseen = {} => IsFound(imports, Len(imports), h, r)
  PROVE  Coherent(frames, Remember(h, b, r), imports, lib, unseen)
<1> DEFINE cs == Current(caches)
           n  == Len(cs)
           ds == Remember(h, b, r)
<1>1. /\ cs \in Seq(Cache) /\ n \in Nat \ {0} /\ n \in 1..n
      /\ \A i \in 1..(n - 1) : cs[i] = caches[i] /\ i \in 1..n /\ i # n
      /\ Right(cs[n], imports, unseen, Len(imports))
      /\ DOMAIN cs = 1..n
  BY CurrentFacts, LenProperties
<1>2. cs[n] \in Cache BY <1>1, CurrentFacts
<1> DEFINE d == IF Slot[b] \in cs[n].bloom
                THEN [cs[n] EXCEPT !.dict = [cs[n].dict EXCEPT ![h] = r]]
                ELSE [cs[n] EXCEPT !.bloom = cs[n].bloom \cup {Slot[b]}]
<1>3. d \in Cache BY <1>2 DEF Cache
<1>4. /\ d.dict[h] = cs[n].dict[h] \/ d.dict[h] = r
      /\ \A g \in Hashes : g # h => d.dict[g] = cs[n].dict[g]
  BY <1>2 DEF Cache
<1>5. ds = [cs EXCEPT ![n] = d] BY DEF Remember
<1> HIDE DEF cs, n, d, ds
<1>6. Right(d, imports, unseen, Len(imports))
  <2> SUFFICES ASSUME NEW g \in Hashes, d.dict[g] # Absent, Knowing(g) \cap unseen = {}
               PROVE  IsFound(imports, Len(imports), g, d.dict[g])
    BY DEF Right
  <2>1. \A x \in Hashes : cs[n].dict[x] # Absent /\ Knowing(x) \cap unseen = {} =>
                            IsFound(imports, Len(imports), x, cs[n].dict[x])
    BY <1>1 DEF Right
  <2>2. CASE g # h BY <1>4, <2>1, <2>2
  <2>3. CASE g = h BY <1>4, <2>1, <2>3
  <2> QED BY <2>2, <2>3
<1>7. /\ ds \in Seq(Cache) /\ Len(ds) = n /\ ds[n] = d
      /\ \A i \in 1..n : i # n => ds[i] = cs[i]
  BY <1>1, <1>3, <1>5, ExceptSeq
<1>8. /\ Len(ds) = Len(Current(caches)) /\ \A i \in 1..(Len(ds) - 1) : ds[i] = caches[i]
      /\ Right(ds[Len(ds)], imports, unseen, Len(imports))
  BY <1>1, <1>6, <1>7 DEF n, cs
<1> QED BY <1>7, <1>8, TopChanges DEF FInv, ds

LEMMA ResolveStep ==
  ASSUME FInv, NEW h \in Hashes, resolve_fn(h)
  PROVE  FInv'
<1> DEFINE cs == Candidates(h)
           k  == FirstFound(imports, h)
<1>1. FTyped /\ Libraries(lib, unseen) BY DEF FInv, Coherent, FTyped
<1>2. Len(cs) \in Nat \ {0} /\ Len(cs) \in 1..Len(cs) /\ \A i \in 1..Len(cs) : cs[i] \in Hashes
  BY CandidateFacts
<1>3. k \in 1..(Len(cs) + 1) BY FirstFoundFacts
<1>4. Search(h) = IF k > Len(cs) THEN NotFound ELSE FindExact(imports, cs[k]) BY DEF Search, SearchIn
<1>5. Search(h) \in Results BY <1>1, SearchType
<1>6. Knowing(h) \cap unseen = {} => IsFound(imports, Len(imports), h, Search(h)) BY <1>1, SearchIsFound
<1>7. /\ \/ caches' = Current(caches)
         \/ k <= Len(cs) /\ caches' = Remember(h, cs[k], Search(h))
         \/ ~(k <= Len(cs)) /\ caches' = Remember(h, cs[Len(cs)], NotFound)
      /\ UNCHANGED <<lib, imports, frames, unseen>>
  BY DEF resolve_fn
<1> HIDE DEF k, cs
<1>8. CASE caches' = Current(caches) BY <1>7, <1>8, Looks DEF FInv
<1>9. CASE k <= Len(cs) /\ caches' = Remember(h, cs[k], Search(h))
  <2>1. cs[k] \in Hashes BY <1>2, <1>3, <1>9
  <2>2. Coherent(frames, Remember(h, cs[k], Search(h)), imports, lib, unseen)
    BY <1>5, <1>6, <2>1, Remembers
  <2> QED BY <1>7, <1>9, <2>2 DEF FInv
<1>10. CASE ~(k <= Len(cs)) /\ caches' = Remember(h, cs[Len(cs)], NotFound)
  <2>1. Search(h) = NotFound BY <1>2, <1>3, <1>4, <1>10
  <2>2. Coherent(frames, Remember(h, cs[Len(cs)], NotFound), imports, lib, unseen)
    BY <1>2, <1>5, <1>6, <2>1, Remembers
  <2> QED BY <1>7, <1>10, <2>2 DEF FInv
<1> QED BY <1>7, <1>8, <1>9, <1>10

LEMMA HasScriptStep ==
  ASSUME FInv, NEW h \in Hashes, has_script_fn(h)
  PROVE  FInv'
<1>1. FTyped /\ Libraries(lib, unseen) BY DEF FInv, Coherent, FTyped
<1>2. /\ \/ caches' = Current(caches)
         \/ FindExact(imports, h) = NotFound /\ caches' = Remember(h, h, NotFound)
      /\ UNCHANGED <<lib, imports, frames, unseen>> /\ h \in Scripted
  BY DEF has_script_fn
<1>3. CASE caches' = Current(caches) BY <1>2, <1>3, Looks DEF FInv
<1>4. CASE FindExact(imports, h) = NotFound /\ caches' = Remember(h, h, NotFound)
  <2>1. Candidates(h) = <<h>> /\ h \in Range(Candidates(h))
    <3>1. Candidates(h) = <<h>> BY <1>2, CandidateFacts
    <3>2. Len(Candidates(h)) = 1 /\ Candidates(h)[1] = h /\ 1 \in 1..1 BY <3>1
    <3> QED BY <3>1, <3>2, CandidateFacts
  <2>2. ASSUME Knowing(h) \cap unseen = {} PROVE IsFound(imports, Len(imports), h, NotFound)
    <3>1. IsExact(imports, Len(imports), h, NotFound) BY <1>1, <1>4, <2>1, <2>2, ExactIsExact
    <3>2. Len(Candidates(h)) = 1 /\ Candidates(h)[1] = h /\ \A j \in 1..1 : j = 1 BY <2>1
    <3>3. \A j \in 1..Len(Candidates(h)) : IsExact(imports, Len(imports), Candidates(h)[j], NotFound)
      BY <3>1, <3>2
    <3> QED BY <3>3, Zenon DEF IsFound
  <2>3. NotFound \in Results BY DEF Results
  <2>4. Coherent(frames, Remember(h, h, NotFound), imports, lib, unseen) BY <2>2, <2>3, Remembers
  <2> QED BY <1>2, <1>4, <2>4 DEF FInv
<1> QED BY <1>2, <1>3, <1>4

LEMMA EnterStep ==
  ASSUME FInv, NEW kind \in {"block", "call", "eval"}, frames' = Append(frames, NewFrame(kind)),
         UNCHANGED <<lib, imports, caches, unseen>>
  PROVE  FInv'
<1> DEFINE f == NewFrame(kind)
<1>1. /\ Len(lib) \in Nat /\ Len(imports) \in Nat /\ Len(caches) \in Nat
      /\ imports \in Seq(Modules) /\ lib \in Seq({"main"} \cup Modules) /\ unseen \subseteq Modules
      /\ Libraries(lib, unseen)
  BY TypedFacts DEF FInv, Coherent, Typed
<1>2. /\ f \in Frame /\ f.lib = Len(lib) /\ f.imports = Len(imports) /\ f.caches = Len(caches)
      /\ f.kind = kind
  BY <1>1 DEF NewFrame, Frame
<1>3. Harmless(imports, unseen, Len(imports), Len(imports)) BY <1>1 DEF Harmless
<1>4. Len(imports) <= Len(imports) /\ Len(lib) <= Len(lib) /\ unseen \subseteq unseen BY <1>1
<1> HIDE DEF f
<1>5. Coherent(Append(frames, f), caches, imports, lib, unseen)
  BY <1>1, <1>2, <1>3, <1>4, Enters DEF FInv
<1> QED BY <1>5 DEF FInv, f

LEMMA EnvStep ==
  ASSUME FInv, NEW m \in Modules, call_script_fn_env(m)
  PROVE  FInv'
<1> DEFINE f  == NewFrame("call")
           jm == imports \o EnvImports[m]
           kb == Append(lib, m)
           vs == unseen \cup {m} \cup Range(EnvImports[m])
<1>1. /\ Len(lib) \in Nat /\ Len(imports) \in Nat /\ Len(caches) \in Nat
      /\ imports \in Seq(Modules) /\ lib \in Seq({"main"} \cup Modules) /\ unseen \subseteq Modules
      /\ Libraries(lib, unseen)
  BY TypedFacts DEF FInv, Coherent, Typed
<1>2. /\ f \in Frame /\ f.lib = Len(lib) /\ f.imports = Len(imports) /\ f.caches = Len(caches)
      /\ f.kind = "call"
  BY <1>1 DEF NewFrame, Frame
<1>3. EnvImports[m] \in Seq(Modules) /\ Len(EnvImports[m]) \in Nat BY FnAssumption, LenProperties
<1>4. /\ jm \in Seq(Modules) /\ Len(jm) = Len(imports) + Len(EnvImports[m])
      /\ \A i \in 1..(Len(imports) + Len(EnvImports[m])) :
           jm[i] = IF i <= Len(imports) THEN imports[i] ELSE EnvImports[m][i - Len(imports)]
  BY <1>1, <1>3, ConcatProperties
<1>5. /\ kb \in Seq({"main"} \cup Modules) /\ Len(kb) = Len(lib) + 1 /\ kb[Len(lib) + 1] = m
      /\ \A i \in 1..Len(lib) : kb[i] = lib[i]
  BY <1>1, AppendProperties
<1>6. /\ \A i \in 1..Len(EnvImports[m]) : EnvImports[m][i] \in Range(EnvImports[m])
      /\ Range(EnvImports[m]) \subseteq Modules
  <2>1. DOMAIN EnvImports[m] = 1..Len(EnvImports[m]) BY <1>3, LenProperties
  <2>2. \A i \in 1..Len(EnvImports[m]) : EnvImports[m][i] \in Modules BY <1>3, ElementOfSeq
  <2> QED BY <2>1, <2>2 DEF Range
<1>7. unseen \subseteq vs /\ vs \subseteq Modules /\ m \in vs BY <1>1, <1>6
<1> HIDE DEF f, jm, kb
<1>8. Len(imports) <= Len(jm) /\ Len(lib) <= Len(kb) /\ \A i \in 1..Len(imports) : jm[i] = imports[i]
  <2>1. Len(imports) <= Len(jm) /\ Len(lib) <= Len(kb) BY <1>1, <1>3, <1>4, <1>5
  <2>2. \A i \in 1..Len(imports) : i \in 1..(Len(imports) + Len(EnvImports[m])) /\ i <= Len(imports)
    BY <1>1, <1>3
  <2> QED BY <1>4, <2>1, <2>2
<1>9. Harmless(jm, vs, Len(imports), Len(jm))
  <2> SUFFICES ASSUME NEW i \in (Len(imports) + 1)..Len(jm) PROVE jm[i] \in vs BY DEF Harmless
  <2>1. /\ i \in 1..(Len(imports) + Len(EnvImports[m])) /\ ~(i <= Len(imports))
        /\ i - Len(imports) \in 1..Len(EnvImports[m])
    BY <1>1, <1>3, <1>4
  <2>2. jm[i] = EnvImports[m][i - Len(imports)] BY <1>4, <2>1
  <2> QED BY <1>6, <2>1, <2>2
<1> HIDE DEF vs
<1>10. Libraries(kb, vs)
  <2>1. lib # <<>> /\ lib[1] = "main" /\ \A i \in 2..Len(lib) : lib[i] \in unseen BY <1>1 DEF Libraries
  <2>2. Len(lib) # 0 BY <1>1, <2>1, EmptySeq
  <2>3. 1 \in 1..Len(lib) /\ \A i \in 2..Len(kb) : (i \in 2..Len(lib) /\ i \in 1..Len(lib)) \/ i = Len(lib) + 1
    BY <1>1, <1>5, <2>2
  <2>4. kb[1] = "main" /\ \A i \in 2..Len(kb) : kb[i] \in vs BY <1>5, <1>7, <2>1, <2>3
  <2>5. kb # <<>> BY <1>1, <1>5, EmptySeq
  <2> QED BY <2>4, <2>5 DEF Libraries
<1>11. Coherent(Append(frames, f), caches, jm, kb, vs)
  BY <1>2, <1>4, <1>5, <1>7, <1>8, <1>9, <1>10, Enters DEF FInv
<1>12. frames' = Append(frames, f) /\ caches' = caches /\ imports' = jm /\ lib' = kb /\ unseen' = vs
  BY DEF call_script_fn_env, Enter, f, jm, kb, vs
<1> QED BY <1>11, <1>12 DEF FInv

LEMMA LeaveStep == FInv /\ Leave => FInv'
<1> SUFFICES ASSUME FInv, Leave PROVE FInv' OBVIOUS
<1> DEFINE f == frames[Len(frames)]
<1>1. /\ frames # <<>> /\ frames' = SubSeq(frames, 1, Len(frames) - 1)
      /\ caches' = SubSeq(caches, 1, f.caches) /\ lib' = SubSeq(lib, 1, f.lib)
      /\ Kept(f, imports, imports') /\ unseen' = unseen
  BY DEF Leave, Top, Rewound, Kept
<1> HIDE DEF f
<1>2. PICK jm : jm = imports' OBVIOUS
<1>3. f = frames[Len(frames)] /\ Kept(f, imports, jm) BY <1>1, <1>2 DEF f
<1>4. Coherent(SubSeq(frames, 1, Len(frames) - 1), SubSeq(caches, 1, f.caches), jm,
               SubSeq(lib, 1, f.lib), unseen)
  BY <1>1, <1>3, Leaves DEF FInv
<1> QED BY <1>1, <1>2, <1>4 DEF FInv

\* Clearing the current cache, or giving a frame a cache of its own.
LEMMA ClearFacts ==
  ASSUME FInv
  PROVE  LET cs == Current(caches)
             ds == [cs EXCEPT ![Len(cs)] = EmptyCache]
         IN /\ ds \in Seq(Cache) /\ Len(ds) = Len(cs) /\ ds[Len(ds)] = EmptyCache
            /\ \A i \in 1..Len(ds) : ds[i] = EmptyCache \/ (i \in 1..Len(caches) /\ ds[i] = caches[i])
            /\ caches = <<>> => Len(caches) = 0 /\ Len(ds) = 1
            /\ caches # <<>> => Len(caches) = Len(ds)
<1> DEFINE cs == Current(caches)
           ds == [cs EXCEPT ![Len(cs)] = EmptyCache]
<1>1. /\ cs \in Seq(Cache) /\ Len(cs) \in Nat \ {0} /\ Len(cs) \in 1..Len(cs)
      /\ \A i \in 1..(Len(cs) - 1) : cs[i] = caches[i]
  BY CurrentFacts
<1>2. caches \in Seq(Cache) /\ Len(caches) \in Nat BY TypedFacts DEF FInv, Coherent, Typed
<1>3. (caches = <<>> => Len(caches) = 0 /\ Len(cs) = 1) /\ (caches # <<>> => cs = caches)
  BY <1>2, EmptySeq DEF Current
<1> HIDE DEF cs
<1>4. /\ ds \in Seq(Cache) /\ Len(ds) = Len(cs)
      /\ \A i \in 1..Len(cs) : ds[i] = IF i = Len(cs) THEN EmptyCache ELSE cs[i]
  BY <1>1, ExceptSeq, EmptyIsCache
<1> HIDE DEF ds
<1>5. ds[Len(ds)] = EmptyCache BY <1>1, <1>4
<1>6. ASSUME NEW i \in 1..Len(ds) PROVE ds[i] = EmptyCache \/ (i \in 1..Len(caches) /\ ds[i] = caches[i])
  <2>1. CASE i = Len(ds) BY <1>5, <2>1
  <2>2. CASE i # Len(ds)
    <3>1. i \in 1..(Len(cs) - 1) /\ i \in 1..Len(cs) /\ i # Len(cs) BY <1>1, <1>4, <2>2
    <3>2. ds[i] = caches[i] BY <1>1, <1>4, <3>1
    <3>3. Len(cs) # 1
      <4>1. \A l \in Nat : i \in 1..(l - 1) => l # 1 OBVIOUS
      <4>2. Len(cs) \in Nat BY <1>1
      <4> QED BY <3>1, <4>1, <4>2
    <3>4. caches # <<>> BY <1>3, <3>3, Zenon
    <3>5. Len(cs) = Len(caches) BY <1>3, <3>4
    <3> QED BY <3>1, <3>2, <3>5
  <2> QED BY <2>1, <2>2
<1>7. ds = [Current(caches) EXCEPT ![Len(Current(caches))] = EmptyCache] BY DEF ds, cs
<1> QED BY <1>3, <1>4, <1>5, <1>6, <1>7 DEF cs

LEMMA OutsideFacts == FInv /\ AllEvals(frames, 1) => Len(caches) <= 1
<1> SUFFICES ASSUME FInv, AllEvals(frames, 1) PROVE Len(caches) <= 1 OBVIOUS
<1>1. Len(frames) \in Nat BY TypedFacts DEF FInv, Coherent
<1>2. Len(frames) + 1 \in 1..(Len(frames) + 1) /\ Len(frames) + 1 - 1 = Len(frames) BY <1>1
<1>3. Height(frames, caches, Len(frames) + 1) = Len(caches) BY <1>1 DEF Height
<1> QED BY <1>2, <1>3 DEF FInv, Coherent, OneOutside, AllEvals

LEMMA ImportStep ==
  ASSUME FInv, NEW m \in Modules, Stmt_Import(m)
  PROVE  FInv'
<1> DEFINE n  == Len(frames)
           f  == frames[n]
           vs == unseen'
           ds == caches'
<1>1. /\ n \in Nat \ {0} /\ n \in 1..n /\ Len(caches) \in Nat
      /\ caches \in Seq(Cache) /\ unseen \subseteq Modules
  BY TypedFacts DEF FInv, Coherent, Typed, Stmt_Import
<1>2. /\ imports' = Append(imports, m) /\ lib' = lib /\ frames' = frames
      /\ vs = IF f.kind = "eval" /\ InBlock THEN unseen \cup {m} ELSE unseen
      /\ ds = IF Exports[m] # {} THEN AfterImport(caches, f) ELSE caches
  BY DEF Stmt_Import, Top
<1>3. unseen \subseteq vs /\ vs \subseteq Modules BY <1>1, <1>2
<1>4. \A j \in 1..n : frames[j].caches \in 0..Len(caches) /\ frames[j].caches <= f.caches
  <2>1. \A j \in 1..n : n \in j..n BY <1>1
  <2> QED BY <2>1 DEF FInv, Coherent, Nested
<1>5. \A cs : /\ \A j \in 1..n : Height(frames, cs, j) = frames[j].caches
              /\ Height(frames, cs, n + 1) = Len(cs)
  BY <1>1 DEF Height
<1>6. \A j \in 1..(n + 1) : j \in 1..n \/ j = n + 1 BY <1>1
<1>7. \A t \in 1..(n + 1) : \A j \in 1..t : j \in 1..(n + 1) BY <1>1
<1>8. AllEvals(frames, n + 1) BY <1>1 DEF AllEvals
<1>9. InBlock <=> ~AllEvals(frames, 1) BY DEF InBlock, AllEvals
<1> HIDE DEF f
<1>10. CASE Exports[m] = {}
  <2>1. Neutral(m, vs) /\ ds = caches BY <1>2, <1>10 DEF Neutral
  <2>2. \A i \in 1..Len(ds) : ds[i] = EmptyCache \/ (i \in 1..Len(caches) /\ ds[i] = caches[i]) BY <2>1
  <2>3. Len(caches) <= Len(ds) /\ (AllEvals(frames, 1) => Len(ds) <= 1) BY <1>1, <2>1, OutsideFacts
  <2> HIDE DEF ds, vs
  <2>4. Coherent(frames, ds, Append(imports, m), lib, vs)
    BY <1>1, <1>3, <2>1, <2>2, <2>3, Imports DEF FInv
  <2> QED BY <1>2, <2>4 DEF FInv, ds, vs
<1>11. CASE Exports[m] # {} /\ f.kind # "eval"
  <2>1. \A j \in 1..(n + 1) : AllEvals(frames, j) <=> j = n + 1
    <3>1. \A j \in 1..n : n \in j..n BY <1>1
    <3>2. \A j \in 1..n : ~AllEvals(frames, j) BY <1>11, <3>1 DEF AllEvals, f
    <3> QED BY <1>1, <1>6, <1>8, <3>2
  <2>2. f \in Frame BY <1>1, TypedFacts DEF FInv, Coherent, f
  <2>3. f.kind \in {"block", "call"} /\ f.caches \in Nat BY <1>11, <2>2, FrameFacts
  <2>4. /\ ds \in Seq(Cache) /\ Len(ds) \in Nat /\ Len(caches) <= Len(ds) /\ ds[Len(ds)] = EmptyCache
        /\ \A i \in 1..Len(ds) : ds[i] = EmptyCache \/ (i \in 1..Len(caches) /\ ds[i] = caches[i])
        /\ f.caches < Len(ds)
    <3>1. CASE Len(caches) <= f.caches
      <4>1. ds = Append(caches, EmptyCache) BY <1>2, <1>11, <2>3, <3>1 DEF AfterImport
      <4>2. /\ ds \in Seq(Cache) /\ Len(ds) = Len(caches) + 1 /\ ds[Len(caches) + 1] = EmptyCache
            /\ \A i \in 1..Len(caches) : ds[i] = caches[i]
        BY <1>1, <4>1, AppendProperties, EmptyIsCache
      <4>3. f.caches \in 0..Len(caches) BY <1>1, <1>4 DEF f
      <4>4. \A i \in 1..(Len(caches) + 1) : i \in 1..Len(caches) \/ i = Len(caches) + 1 BY <1>1
      <4>5. \A i \in 1..Len(ds) : ds[i] = EmptyCache \/ (i \in 1..Len(caches) /\ ds[i] = caches[i])
        BY <4>2, <4>4
      <4> QED BY <1>1, <4>2, <4>3, <4>5
    <3>2. CASE ~(Len(caches) <= f.caches)
      <4>1. ds = [Current(caches) EXCEPT ![Len(Current(caches))] = EmptyCache]
        BY <1>2, <1>11, <3>2 DEF AfterImport
      <4>2. caches # <<>> BY <1>1, <2>3, <3>2, EmptySeq
      <4>3. /\ ds \in Seq(Cache) /\ Len(ds) = Len(caches) /\ ds[Len(ds)] = EmptyCache
            /\ \A i \in 1..Len(ds) : ds[i] = EmptyCache \/ (i \in 1..Len(caches) /\ ds[i] = caches[i])
        BY <4>1, <4>2, ClearFacts, Zenon
      <4> HIDE DEF ds
      <4>4. Len(ds) \in Nat /\ Len(caches) <= Len(ds) /\ f.caches < Len(ds) BY <1>1, <2>3, <3>2, <4>3
      <4> QED BY <4>3, <4>4
    <3> QED BY <3>1, <3>2
  <2>5. vs = unseen BY <1>2, <1>11
  <2> HIDE DEF ds, vs
  <2>6. \A j \in 1..(n + 1) : Height(frames, ds, j) > 0 /\ AllEvals(frames, j) =>
                                ds[Height(frames, ds, j)] = EmptyCache \/ Neutral(m, vs)
    BY <1>5, <2>1, <2>4
  <2>7. ASSUME NEW t \in 1..(n + 1), NEW j \in 1..t, AllEvals(frames, t), ~AllEvals(frames, j),
               Height(frames, ds, j) = Height(frames, ds, t)
        PROVE  FALSE
    <3>1. t = n + 1 /\ j \in 1..n BY <1>6, <1>7, <2>1, <2>7
    <3>2. Height(frames, ds, t) = Len(ds) /\ Height(frames, ds, j) = frames[j].caches BY <1>5, <3>1
    <3>3. frames[j].caches <= f.caches /\ frames[j].caches \in 0..Len(caches) BY <1>4, <3>1
    <3> QED BY <1>1, <2>3, <2>4, <2>7, <3>2, <3>3
  <2>8. ~AllEvals(frames, 1) BY <1>1, <2>1
  <2>9. Coherent(frames, ds, Append(imports, m), lib, vs)
    BY <1>3, <2>4, <2>6, <2>7, <2>8, Imports DEF FInv
  <2> QED BY <1>2, <2>9 DEF FInv, ds, vs
<1>12. CASE Exports[m] # {} /\ f.kind = "eval"
  <2>1. ds = [Current(caches) EXCEPT ![Len(Current(caches))] = EmptyCache] BY <1>2, <1>12 DEF AfterImport
  <2>2. /\ ds \in Seq(Cache) /\ ds[Len(ds)] = EmptyCache
        /\ \A i \in 1..Len(ds) : ds[i] = EmptyCache \/ (i \in 1..Len(caches) /\ ds[i] = caches[i])
        /\ caches = <<>> => Len(caches) = 0 /\ Len(ds) = 1
        /\ caches # <<>> => Len(caches) = Len(ds)
    BY <2>1, ClearFacts
  <2>3. Len(ds) \in Nat /\ Len(caches) <= Len(ds) BY <1>1, <2>2, LenProperties
  <2>4. InBlock => Neutral(m, vs) BY <1>2, <1>12 DEF Neutral
  <2> HIDE DEF ds, vs
  <2>5. CASE InBlock
    <3>1. Neutral(m, vs) /\ ~AllEvals(frames, 1) BY <1>9, <2>4, <2>5
    <3>2. ASSUME NEW t \in 1..(n + 1), NEW j \in 1..t, ~AllEvals(frames, j),
                 Height(frames, ds, j) > 0, Height(frames, ds, j) = Height(frames, ds, t)
          PROVE  Height(frames, caches, t) = Height(frames, ds, t)
      <4>1. j \in 1..n BY <1>6, <1>7, <1>8, <3>2
      <4>2. Height(frames, ds, j) = frames[j].caches /\ frames[j].caches \in 0..Len(caches)
        BY <1>4, <1>5, <4>1
      <4>3. Len(caches) = Len(ds) BY <1>1, <2>2, <3>2, <4>2
      <4> QED BY <1>5, <1>6, <4>3
    <3>3. Coherent(frames, ds, Append(imports, m), lib, vs)
      BY <1>3, <2>2, <2>3, <3>1, <3>2, Imports DEF FInv
    <3> QED BY <1>2, <3>3 DEF FInv, ds, vs
  <2>6. CASE ~InBlock
    <3>0. AllEvals(frames, 1) /\ Len(caches) <= 1 BY <1>9, <2>6, OutsideFacts
    <3>1. Len(ds) = 1
      <4>1. CASE caches = <<>> BY <2>2, <4>1
      <4>2. CASE caches # <<>>
        <5>1. Len(caches) # 0 /\ Len(caches) = Len(ds) BY <1>1, <2>2, <4>2, EmptySeq
        <5> QED BY <1>1, <3>0, <5>1
      <4> QED BY <4>1, <4>2
    <3>2. \A j \in 1..(n + 1) : AllEvals(frames, j) BY <1>1, <1>9, <2>6 DEF AllEvals
    <3>3. \A j \in 1..(n + 1) : Height(frames, ds, j) > 0 => ds[Height(frames, ds, j)] = EmptyCache
      <4> TAKE j \in 1..(n + 1)
      <4>1. Height(frames, ds, j) \in 0..1
        <5>1. CASE j \in 1..n
          <6>1. Height(frames, ds, j) = frames[j].caches /\ frames[j].caches \in 0..Len(caches)
            BY <1>4, <1>5, <5>1
          <6> QED BY <1>1, <3>0, <6>1
        <5>2. CASE j = n + 1
          <6>1. Height(frames, ds, j) = Len(ds) BY <1>5, <5>2
          <6> QED BY <3>1, <6>1
        <5> QED BY <1>6, <5>1, <5>2
      <4> QED BY <2>2, <3>1, <4>1
    <3>4. /\ Coherent(frames, caches, imports, lib, unseen)
          /\ ds \in Seq(Cache) /\ Len(caches) <= Len(ds) /\ Len(ds) <= 1
          /\ \A i \in 1..Len(ds) : ds[i] = EmptyCache \/ (i \in 1..Len(caches) /\ ds[i] = caches[i])
      BY <2>2, <2>3, <3>1 DEF FInv
    <3>5. \A j \in 1..(n + 1) : Height(frames, ds, j) > 0 /\ AllEvals(frames, j) =>
                                  ds[Height(frames, ds, j)] = EmptyCache \/ Neutral(m, vs)
      BY <3>3
    <3>6. \A t \in 1..(n + 1) : \A j \in 1..t :
            /\ AllEvals(frames, t) /\ ~AllEvals(frames, j)
            /\ Height(frames, ds, j) > 0 /\ Height(frames, ds, j) = Height(frames, ds, t)
            => Neutral(m, vs) /\ Height(frames, caches, t) = Height(frames, ds, t)
      BY <1>7, <3>2
    <3>7. Coherent(frames, ds, Append(imports, m), lib, vs) BY <1>3, <3>4, <3>5, <3>6, Imports
    <3> QED BY <1>2, <3>7 DEF FInv, ds, vs
  <2> QED BY <2>5, <2>6
<1> QED BY <1>10, <1>11, <1>12

-----------------------------------------------------------------------------
\* A script begins with no cache and nothing imported.
LEMMA InitHolds == Init => FInv
<1> SUFFICES ASSUME Init PROVE FInv OBVIOUS
<1> DEFINE f == NewFrame("eval")
<1>1. /\ lib = <<"main">> /\ imports = <<>> /\ caches = <<>> /\ unseen = {}
      /\ frames = <<f>> /\ f = [kind |-> "eval", lib |-> 1, imports |-> 0, caches |-> 0]
  BY DEF Init, NewFrame
<1>2. f \in Frame BY <1>1 DEF Frame
<1> HIDE DEF f
<1>3. /\ Len(frames) = 1 /\ frames[1] = f /\ Len(lib) = 1 /\ lib[1] = "main"
      /\ Len(imports) = 0 /\ Len(caches) = 0 /\ f.lib = 1 /\ f.imports = 0 /\ f.caches = 0
  BY <1>1
<1>4. Typed(frames, caches, imports, lib, unseen) BY <1>1, <1>2 DEF Typed
<1>5. Nested(frames, caches, imports, lib)
  <2>1. \A i \in 1..1 : i = 1 /\ \A j \in i..1 : j = 1 OBVIOUS
  <2> QED BY <1>3, <2>1 DEF Nested
<1>6. Libraries(lib, unseen) BY <1>1, <1>3 DEF Libraries
<1>7. \A j \in 1..(Len(frames) + 1) : Height(frames, caches, j) = 0
  <2>1. \A j \in 1..2 : j <= 1 => j = 1 OBVIOUS
  <2> QED BY <1>3, <2>1 DEF Height
<1>8. AllRight(frames, caches, imports, unseen) /\ OneOutside(frames, caches)
  BY <1>7 DEF AllRight, OneOutside
<1>9. Shared(frames, caches, imports, unseen)
  <2>1. \A t \in 1..(Len(frames) + 1) : \A j \in 1..t : j \in 1..(Len(frames) + 1) BY <1>3
  <2> QED BY <1>7, <2>1 DEF Shared
<1> QED BY <1>4, <1>5, <1>6, <1>8, <1>9 DEF FInv, Coherent

LEMMA NextKeeps == FInv /\ [Next]_vars => FInv'
<1> SUFFICES ASSUME FInv, [Next]_vars PROVE FInv' OBVIOUS
<1>1. CASE \E h \in Hashes : resolve_fn(h) \/ has_script_fn(h) BY <1>1, ResolveStep, HasScriptStep
<1>2. CASE \E kind \in {"block", "eval"} : eval_stmt_block(kind)
  <2>1. PICK kind \in {"block", "eval"} : eval_stmt_block(kind) BY <1>2
  <2>2. /\ kind \in {"block", "call", "eval"} /\ frames' = Append(frames, NewFrame(kind))
        /\ UNCHANGED <<lib, imports, caches, unseen>>
    BY <2>1 DEF eval_stmt_block, Enter
  <2> QED BY <2>2, EnterStep
<1>3. CASE \E m \in Modules : Stmt_Import(m) \/ call_script_fn_env(m) BY <1>3, ImportStep, EnvStep
<1>4. CASE call_script_fn
  <2>1. frames' = Append(frames, NewFrame("call")) /\ UNCHANGED <<lib, imports, caches, unseen>>
    BY <1>4 DEF call_script_fn, Enter
  <2> QED BY <2>1, EnterStep
<1>5. CASE Leave BY <1>5, LeaveStep
<1>6. CASE UNCHANGED vars BY <1>6 DEF vars, FInv
<1> QED BY <1>1, <1>2, <1>3, <1>4, <1>5, <1>6 DEF Next

\* What a cache that is right has for a hash is what the search finds.
LEMMA InvServes == FInv => CachesHold
<1> SUFFICES ASSUME FInv PROVE CachesHold OBVIOUS
<1>1. FTyped /\ Libraries(lib, unseen) /\ Nested(frames, caches, imports, lib) /\ Len(imports) \in Nat
  BY TypedFacts DEF FInv, Coherent, FTyped
<1>2. TypeOK
  <2>1. Len(lib) \in Nat BY <1>1, TypedFacts DEF FTyped
  <2>2. \A i \in 1..Len(lib) : i \in 0..Len(lib) BY <2>1
  <2> QED BY <1>1, <2>2 DEF TypeOK, FTyped, Typed, Nested
<1>3. ASSUME NEW h \in Hashes, Cached(h) # Absent, Knowing(h) \cap unseen = {}
      PROVE  Cached(h) = Search(h)
  <2> DEFINE c == Current(caches)[Len(Current(caches))]
  <2>1. Right(c, imports, unseen, Len(imports)) /\ Cached(h) = c.dict[h] BY CurrentFacts DEF Cached
  <2>2. IsFound(imports, Len(imports), h, Cached(h)) BY <1>3, <2>1 DEF Right
  <2>3. IsFound(imports, Len(imports), h, Search(h)) BY <1>1, <1>3, SearchIsFound
  <2> QED BY <1>1, <2>2, <2>3, FoundIsUnique
<1> QED BY <1>2, <1>3 DEF CachesHold, ServedIsCurrent

-----------------------------------------------------------------------------
\* Every cache of the stack is right for the imports that there will be when the blocks and
\* calls above it have ended (the rewinds of eval_stmt_block and call_script_fn), and those
\* that share one differ only in imports that export nothing.
THEOREM CachesStayCoherent == Spec => []FInv
<1>1. Init => FInv BY InitHolds
<1>2. FInv /\ [Next]_vars => FInv' BY NextKeeps
<1> QED BY <1>1, <1>2, PTL DEF Spec

\* The lengths that a block or call saved fit the stacks they rewind, and the function that a
\* cache of resolve_fn serves is the one that its search would find now, for any modules,
\* wildcard hashes and bloom slots, and any nesting of blocks, calls, evals and imports.
THEOREM CachesServeTheSearch == Spec => []CachesHold
<1>1. FInv => CachesHold BY InvServes
<1> QED BY <1>1, CachesStayCoherent, PTL
=============================================================================
