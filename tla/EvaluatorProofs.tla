--------------------------- MODULE EvaluatorProofs ---------------------------
(***************************************************************************)
(* Proofs about Evaluator in three parts.  The first, for every script,    *)
(* every limit and every depth of nesting, as long as no debugger is       *)
(* registered: each frame is left clean, `break` stays in its loop, and no *)
(* variable that the parser of the running code could not count is in      *)
(* scope unless names are searched for.                                    *)
(*                                                                         *)
(* Each frame restores only part of the state.  That this is enough needs  *)
(* an invariant on the whole stack: Within(f, s) says what may differ from *)
(* the state f.orig that the frame was entered in when the state is s.  It *)
(* holds between each frame and the state the frame above was entered in,  *)
(* and between the top frame and the current state.                        *)
(***************************************************************************)
EXTENDS Evaluator, SequenceTheorems, FiniteSetTheorems, TLAPS

\* What a statement or expression that has not entered a block or call may leave behind.
Carries(s, o) ==
  /\ s.scope >= o.scope
  /\ s.imports >= o.imports
  /\ s.scope_level = o.scope_level
  /\ o.always_search_scope => s.always_search_scope
  /\ o.scope_level > 0 => s.constants = o.constants
  /\ s.lib = o.lib
  /\ s.source = o.source
  /\ s.call_stack = o.call_stack

Same(s, o) == Carries(s, o) /\ s.level = o.level

WithinBlock(s, o) ==
  /\ s.scope_level = o.scope_level + 1
  /\ s.declared = o.declared
  /\ s.constants = o.constants
  /\ s.lib = o.lib
  /\ s.level = o.level
  /\ s.source = o.source
  /\ s.call_stack = o.call_stack

WithinCall(s, o, i) ==
  /\ s.scope_level = o.scope_level
  /\ s.always_search_scope = o.always_search_scope
  /\ s.declared = o.declared
  /\ i # "env" => s.constants = o.constants

WithinEval(s, o) ==
  /\ s.declared = o.declared
  /\ s.level = o.level + 1
  /\ Carries(s, o)

WithinModule(s, o) ==
  /\ s.scope >= o.scope
  /\ s.imports >= o.imports
  /\ s.scope_level = o.scope_level
  /\ o.always_search_scope => s.always_search_scope
  /\ s.level = o.level
  /\ s.call_stack = o.call_stack

Within(f, s) ==
  LET o == f.orig
  IN /\ f.kind = "block" => WithinBlock(s, o)
     /\ f.kind = "inplace" => Same(s, o) /\ (f.info # "whole" => s.declared = o.declared)
     /\ f.kind \in Waits \cup {"body"} => Same(s, o) /\ s.declared = o.declared
     /\ f.kind = "try" => s = o
     /\ f.kind \in {"catch", "forbody"} => s = [o EXCEPT !.scope = s.scope]
     /\ f.kind = "call" => WithinCall(s, o, f.info)
     /\ f.kind = "eval" => WithinEval(s, o)
     /\ f.kind = "module" => WithinModule(s, o)

\* Which frame may be above which.
Loops == {"body", "forbody"}
Units == {"call", "eval", "module"}

Above(f, g) ==
  /\ f.kind \in Loops \cup {"try", "catch", "call"} => g.kind = "block"
  /\ f.kind \in {"eval", "module"} => g.kind = "inplace"
  /\ f.kind \in Codes \cup Waits => g.kind # "inplace"
  /\ f.kind \notin Codes => g.kind \notin Waits \cup Loops \cup {"try", "catch", "module"}
  /\ f.kind = "eval" => g.info = "eval"
  /\ f.kind = "module" => g.info = "whole"
  /\ g.kind = "catch" => g.info \in Errors
  /\ f.kind \in Units => ~g.brk
  /\ f.kind \notin Loops /\ g.brk => f.brk

\* Offsets into the state s are right, or not used.
Aligned(s) == s.hidden > 0 => s.always_search_scope

\* The stack fs with the current state s on top of it.
Stacked(fs, s) ==
  /\ fs[1].kind = "inplace"
  /\ \A i \in 1..(Len(fs) - 1) :
       Above(fs[i], fs[i+1]) /\ Within(fs[i], fs[i+1].orig)
  /\ \A i \in 1..Len(fs) :
       Aligned(fs[i].orig) /\ (fs[i].kind = "inplace" => ~fs[i].brk)
  /\ Within(fs[Len(fs)], s)

\* The outcome on its way to the frame f in the state s.
Travels(o, f, s) ==
  /\ o = "Run" => f.kind \in Codes \cup Waits
  /\ o \in {"Break", "Continue"} => f.kind \in Loops \/ (f.brk /\ f.kind \notin Units)
  /\ f.kind = "module" => o \in {"Ok"} \cup Errors
  /\ o \notin Errors => Aligned(s)

\* The stack fs with the state s can stand there between two steps.
Rests(fs, s) == fs \in Seq(Frame) /\ fs # <<>> /\ s \in State /\ Stacked(fs, s)

IInv ==
  /\ TypeOK
  /\ frames # <<>> => Stacked(frames, st) /\ Travels(out, Top, st)
  /\ frames = <<>> => out \notin {"Run", "Break", "Continue"}

-----------------------------------------------------------------------------
\* Lemmas on stacks.
LEMMA PushStacked ==
  ASSUME NEW fs \in Seq(Frame), fs # <<>>, NEW s, Stacked(fs, s), Aligned(s),
         NEW f \in Frame, f.orig = s, Above(fs[Len(fs)], f),
         f.kind = "inplace" => ~f.brk,
         NEW t, Within(f, t)
  PROVE  /\ Append(fs, f) \in Seq(Frame)
         /\ Len(Append(fs, f)) = Len(fs) + 1
         /\ Append(fs, f) # <<>>
         /\ Append(fs, f)[Len(fs) + 1] = f
         /\ Stacked(Append(fs, f), t)
<1> DEFINE gs == Append(fs, f)
<1>1. /\ gs \in Seq(Frame)
      /\ Len(gs) = Len(fs) + 1
      /\ gs[Len(fs) + 1] = f
      /\ \A i \in 1..Len(fs) : gs[i] = fs[i]
      /\ Len(fs) \in Nat \ {0}
  BY EmptySeq
<1>2. gs[1] = fs[1] BY <1>1
<1>3. ASSUME NEW i \in 1..(Len(gs) - 1)
      PROVE  Above(gs[i], gs[i+1]) /\ Within(gs[i], gs[i+1].orig)
  <2>1. CASE i = Len(fs) BY <1>1, <2>1 DEF Stacked
  <2>2. CASE i # Len(fs)
    <3>1. i \in 1..(Len(fs) - 1) /\ gs[i] = fs[i] /\ gs[i+1] = fs[i+1] BY <1>1, <2>2
    <3> QED BY <3>1 DEF Stacked
  <2> QED BY <2>1, <2>2
<1>4. ASSUME NEW i \in 1..Len(gs)
      PROVE  Aligned(gs[i].orig) /\ (gs[i].kind = "inplace" => ~gs[i].brk)
  BY <1>1 DEF Stacked
<1> QED BY <1>1, <1>2, <1>3, <1>4 DEF Stacked

LEMMA PopStacked ==
  ASSUME NEW fs \in Seq(Frame), Len(fs) > 1, NEW s, Stacked(fs, s),
         NEW t, Within(fs[Len(fs) - 1], t)
  PROVE  LET gs == SubSeq(fs, 1, Len(fs) - 1)
         IN /\ gs \in Seq(Frame)
            /\ Len(gs) = Len(fs) - 1
            /\ gs # <<>>
            /\ gs[Len(gs)] = fs[Len(fs) - 1]
            /\ Stacked(gs, t)
<1> DEFINE gs == SubSeq(fs, 1, Len(fs) - 1)
<1>1. Len(fs) \in Nat /\ \A i \in 1..(Len(fs) - 1) : fs[i] \in Frame BY LenProperties, ElementOfSeq
<1>2. /\ gs \in Seq(Frame)
      /\ Len(gs) = Len(fs) - 1
      /\ \A i \in 1..(Len(fs) - 1) : gs[i] = fs[i]
  BY <1>1, SubSeqProperties
<1>3. gs # <<>>
  <2> HIDE DEF gs
  <2>1. Len(gs) # 0 BY <1>1, <1>2
  <2> QED BY <2>1, EmptySeq
<1>4. gs[1] = fs[1] /\ gs[Len(gs)] = fs[Len(fs) - 1] BY <1>1, <1>2
<1>5. ASSUME NEW i \in 1..(Len(gs) - 1)
      PROVE  Above(gs[i], gs[i+1]) /\ Within(gs[i], gs[i+1].orig)
  <2>1. i \in 1..(Len(fs) - 1) /\ gs[i] = fs[i] /\ gs[i+1] = fs[i+1] BY <1>1, <1>2
  <2> QED BY <2>1 DEF Stacked
<1>6. ASSUME NEW i \in 1..Len(gs)
      PROVE  Aligned(gs[i].orig) /\ (gs[i].kind = "inplace" => ~gs[i].brk)
  <2>1. i \in 1..Len(fs) /\ gs[i] = fs[i] BY <1>1, <1>2
  <2> QED BY <2>1 DEF Stacked
<1> HIDE DEF gs
<1>7. Stacked(gs, t) BY <1>4, <1>5, <1>6 DEF Stacked
<1> QED BY <1>2, <1>3, <1>4, <1>7 DEF gs

LEMMA ReplaceStacked ==
  ASSUME NEW fs \in Seq(Frame), Len(fs) > 1, NEW s, Stacked(fs, s),
         NEW f \in Frame, f.kind # "inplace", Above(fs[Len(fs) - 1], f),
         Within(fs[Len(fs) - 1], f.orig), Aligned(f.orig), NEW t, Within(f, t)
  PROVE  LET gs == [fs EXCEPT ![Len(fs)] = f]
         IN /\ gs \in Seq(Frame)
            /\ Len(gs) = Len(fs)
            /\ gs # <<>>
            /\ gs[Len(gs)] = f
            /\ Stacked(gs, t)
<1> DEFINE n  == Len(fs)
           gs == [fs EXCEPT ![n] = f]
<1>1. n \in Nat /\ n > 1 BY LenProperties
<1>2. /\ gs \in Seq(Frame)
      /\ Len(gs) = n
      /\ \A i \in 1..n : gs[i] = IF i = n THEN f ELSE fs[i]
  BY <1>1, ExceptSeq
<1>3. gs # <<>> BY <1>1, <1>2, EmptySeq
<1>4. gs[1] = fs[1] /\ gs[n] = f BY <1>1, <1>2
<1>5. ASSUME NEW i \in 1..(n - 1)
      PROVE  Above(gs[i], gs[i+1]) /\ Within(gs[i], gs[i+1].orig)
  <2>1. i \in 1..n /\ i+1 \in 1..n /\ i # n /\ (i+1 = n <=> i = n - 1) BY <1>1
  <2> HIDE DEF gs
  <2>2. gs[i] = fs[i] /\ gs[i+1] = IF i = n - 1 THEN f ELSE fs[i+1] BY <2>1, <1>2
  <2> QED BY <2>2 DEF Stacked
<1>6. ASSUME NEW i \in 1..n
      PROVE  Aligned(gs[i].orig) /\ (gs[i].kind = "inplace" => ~gs[i].brk)
  BY <1>2 DEF Stacked
<1> HIDE DEF gs
<1>7. Stacked(gs, t) BY <1>2, <1>4, <1>5, <1>6 DEF Stacked
<1> QED BY <1>2, <1>3, <1>4, <1>7 DEF gs

-----------------------------------------------------------------------------
\* Lemmas on states and single frames.
LEMMA StartState == Start \in State
BY DEF Start, State

\* What one more statement leaves behind, code that runs statements bears.
LEMMA StillWithin ==
  ASSUME NEW f \in Frame, f.kind \in Codes \cup Waits,
         NEW s \in State, Within(f, s), NEW t \in State, Same(t, s),
         t.declared = s.declared \/ (f.kind = "inplace" /\ f.info = "whole")
  PROVE  Within(f, t)
<1>1. f.orig \in State BY DEF Frame
<1>2. CASE f.kind = "block" BY <1>1, <1>2 DEF Within, WithinBlock, Same, Carries, State, Waits, Codes
<1>3. CASE f.kind = "inplace" BY <1>1, <1>3 DEF Within, Same, Carries, State, Waits, Codes
<1>4. CASE f.kind \in Waits BY <1>1, <1>4 DEF Within, Same, Carries, State, Waits, Codes
<1> QED BY <1>2, <1>3, <1>4 DEF Codes

LEMMA SameReflexive ==
  ASSUME NEW s \in State PROVE Same(s, s)
BY DEF Same, Carries, State

LEMMA TopFacts ==
  ASSUME IInv, frames # <<>>
  PROVE  /\ Len(frames) \in Nat \ {0}
         /\ Top \in Frame
         /\ Top.orig \in State
         /\ Within(Top, st)
         /\ Aligned(Top.orig)
         /\ Top.kind = "inplace" => ~Top.brk
         /\ Travels(out, Top, st)
         /\ Top.kind # "inplace" => Len(frames) > 1
<1>1. Len(frames) \in Nat \ {0} /\ frames[Len(frames)] \in Frame BY EmptySeq DEF IInv, TypeOK
<1>2. Len(frames) \in 1..Len(frames) BY <1>1
<1>3. Stacked(frames, st) /\ Travels(out, Top, st) BY DEF IInv
<1>4. Within(Top, st) /\ Aligned(Top.orig) /\ (Top.kind = "inplace" => ~Top.brk)
  BY <1>2, <1>3 DEF Stacked, Top
<1>5. Top.kind # "inplace" => Len(frames) > 1
  <2>1. Top.kind # "inplace" => Len(frames) # 1 BY <1>3 DEF Stacked, Top
  <2>2. \A n \in Nat \ {0} : n # 1 => n > 1 OBVIOUS
  <2> QED BY <1>1, <2>1, <2>2, Zenon
<1>6. Top \in Frame /\ Top.orig \in State BY <1>1 DEF Top, Frame
<1> QED BY <1>1, <1>3, <1>4, <1>5, <1>6

LEMMA UnderFacts ==
  ASSUME IInv, frames # <<>>, Len(frames) > 1
  PROVE  /\ Under \in Frame
         /\ Under.orig \in State
         /\ Above(Under, Top)
         /\ Within(Under, Top.orig)
<1>1. Len(frames) \in Nat /\ frames[Len(frames) - 1] \in Frame
  BY ElementOfSeq, LenProperties DEF IInv, TypeOK
<1>2. Len(frames) - 1 \in 1..(Len(frames) - 1) /\ (Len(frames) - 1) + 1 = Len(frames) BY <1>1
<1> QED BY <1>1, <1>2 DEF IInv, Stacked, Top, Under, Frame

-----------------------------------------------------------------------------
\* How the actions change stack, state and outcome.
LEMMA NowRests ==
  ASSUME IInv, frames # <<>> PROVE Rests(frames, st)
BY DEF IInv, TypeOK, Rests

LEMMA Arrives ==
  ASSUME Rests(frames', st'), Travels(out', frames'[Len(frames')], st'),
         out' \in Outcomes, ops' \in Nat, mods' \in Nat
  PROVE  IInv'
BY DEF Rests, IInv, TypeOK, Top

LEMMA RaiseKeeps ==
  ASSUME IInv, frames # <<>>, out = "Run", NEW e \in Outcomes \ {"Run"},
         e \in {"Break", "Continue"} => Top.brk /\ Top.kind \in Codes,
         Raise(e), ops' \in Nat, mods' \in Nat
  PROVE  IInv'
<1>1. Rests(frames', st') /\ out' = e BY NowRests DEF Raise
<1>2. Aligned(st) BY TopFacts DEF Travels, Errors
<1>3. Travels(e, Top, st)
  <2>1. Top.kind \in Codes \cup Waits BY TopFacts DEF Travels
  <2> QED BY <1>2, <2>1 DEF Travels, Codes, Waits, Units
<1> QED BY <1>1, <1>3, Arrives DEF Raise, Top

LEMMA PushWaitKeeps ==
  ASSUME IInv, frames # <<>>, InCode,
         NEW k \in Waits, NEW i, NewFrame(k, i, Top.brk) \in Frame,
         frames' = Append(frames, NewFrame(k, i, Top.brk)),
         st' = st, out' = out, ops' \in Nat, mods' \in Nat
  PROVE  IInv'
<1> DEFINE f == NewFrame(k, i, Top.brk)
<1>1. f.kind = k /\ f.orig = st /\ f.brk = Top.brk /\ f.info = i BY DEF NewFrame
<1>2. st \in State /\ Aligned(st) BY TopFacts DEF IInv, TypeOK, InCode, Travels, Errors
<1>3. Above(Top, f) BY <1>1 DEF Above, InCode, Codes, Waits, Loops, Units
<1>4. Within(f, st) BY <1>1, <1>2, SameReflexive DEF Within, Waits
<1>5. Rests(frames', st')
  <2> HIDE DEF f
  <2>1. f.kind # "inplace" BY <1>1 DEF Waits
  <2> QED BY <1>1, <1>2, <1>3, <1>4, <2>1, NowRests, PushStacked DEF Rests, Top, f
<1>6. frames'[Len(frames')] = f BY <1>1, AppendProperties DEF IInv, TypeOK
<1>7. Travels(out', f, st') BY <1>1, <1>2 DEF Travels, InCode, Waits
<1> QED BY <1>5, <1>6, <1>7, Arrives DEF IInv, TypeOK

LEMMA BlockKeeps ==
  ASSUME NEW fs, NEW s, Rests(fs, s), Aligned(s), NEW b \in BOOLEAN,
         fs[Len(fs)].kind \notin {"eval", "module"},
         fs[Len(fs)].kind \in Units => ~b,
         b => fs[Len(fs)].brk \/ fs[Len(fs)].kind \in Loops,
         RunBlock(fs, s, b), ops' \in Nat, mods' \in Nat
  PROVE  IInv'
<1> DEFINE f == Block(s, b)
           t == [s EXCEPT !.scope_level = @ + 1]
<1>1. f.kind = "block" /\ f.orig = s /\ f.brk = b /\ f \in Frame BY DEF Block, Frame, Kinds, Codes, Rests
<1>2. t \in State /\ Within(f, t) BY <1>1, SMTT(30) DEF Within, WithinBlock, State, Rests, Codes, Waits
<1>3. Aligned(t) BY DEF Aligned, State, Rests
<1>4. Above(fs[Len(fs)], f) BY <1>1 DEF Above, Codes, Waits, Loops, Units
<1> HIDE DEF f, t
<1>5. /\ Rests(Append(fs, f), t)
      /\ Len(Append(fs, f)) = Len(fs) + 1
      /\ Append(fs, f)[Len(fs) + 1] = f
  BY <1>1, <1>2, <1>4, PushStacked DEF Rests
<1>6. frames' = Append(fs, f) /\ st' = t /\ out' = "Run" BY DEF RunBlock, f, t
<1>7. Travels("Run", f, t) BY <1>1, <1>3 DEF Travels, Codes
<1> QED BY <1>5, <1>6, <1>7, Arrives DEF Outcomes

LEMMA PopKeeps ==
  ASSUME IInv, frames # <<>>, Len(frames) > 1, frames' = Popped,
         st' \in State, Within(Under, st'), Travels(out', Under, st'),
         out' \in Outcomes, ops' \in Nat, mods' \in Nat
  PROVE  IInv'
<1>1. Rests(frames', st') /\ frames'[Len(frames')] = Under
  BY NowRests, PopStacked DEF Rests, Popped, Under
<1> QED BY <1>1, Arrives

LEMMA ResumeTravels ==
  ASSUME NEW o \in Outcomes \ {"Run"}, NEW s, Travels(o, Under, s)
  PROVE  Travels(Resume(o), Under, s) /\ Resume(o) \in Outcomes
BY DEF Travels, Resume, Outcomes, Errors, Pseudo, Codes, Waits

\* A jump that leaves a frame other than a loop reaches a loop, or code inside one.
LEMMA JumpTravels ==
  ASSUME IInv, frames # <<>>, Len(frames) > 1, out # "Run",
         Top.kind \notin Loops \cup {"inplace"}, NEW s, Aligned(s)
  PROVE  Travels(out, Under, s)
<1>1. Travels(out, Top, st) /\ Above(Under, Top) BY TopFacts, UnderFacts
<1> QED BY <1>1 DEF Travels, Above

LEMMA PushRests ==
  ASSUME IInv, InExpr, NEW f \in Frame, f.orig = st, Above(Top, f), f.kind # "inplace",
         NEW t \in State, Within(f, t)
  PROVE  /\ Rests(Append(frames, f), t)
         /\ Append(frames, f)[Len(Append(frames, f))] = f
<1>1. frames # <<>> /\ Rests(frames, st) BY NowRests DEF InExpr
<1>2. Aligned(st) BY TopFacts DEF InExpr, Travels, Errors
<1> QED BY <1>1, <1>2, PushStacked DEF Rests, Top

LEMMA ReplaceRests ==
  ASSUME IInv, frames # <<>>, Len(frames) > 1,
         NEW f \in Frame, f.kind # "inplace", Above(Under, f),
         Within(Under, f.orig), Aligned(f.orig), NEW t \in State, Within(f, t)
  PROVE  /\ Rests([frames EXCEPT ![Len(frames)] = f], t)
         /\ LET gs == [frames EXCEPT ![Len(frames)] = f] IN gs[Len(gs)] = f
<1>1. Rests(frames, st) BY NowRests
<1> QED BY <1>1, ReplaceStacked DEF Rests, Under

\* The frame under a statement runs statements; under a call or eval, maybe an expression.
LEMMA UnderCode ==
  ASSUME IInv, frames # <<>>,
         Top.kind \in Waits \cup Loops \cup {"try", "catch"} \cup Units
  PROVE  /\ Len(frames) > 1
         /\ Under.kind \in Codes \cup Waits
         /\ Top.kind \notin {"call", "eval"} => Under.kind \in Codes
<1>1. Len(frames) > 1 /\ Above(Under, Top) /\ Under \in Frame
  BY TopFacts, UnderFacts DEF Waits, Loops, Units
<1> QED BY <1>1 DEF Above, Frame, Kinds, Codes, Waits, Loops, Units

\* What a statement that waits for a value has done so far, the code around it bears.
LEMMA UnderWait ==
  ASSUME IInv, frames # <<>>, Top.kind \in Waits \cup {"body"}
  PROVE  Within(Under, st) /\ Same(st, Top.orig)
<1>1. Len(frames) > 1 /\ Under.kind \in Codes BY UnderCode DEF Waits, Loops
<1>2. Within(Under, Top.orig) /\ Under \in Frame /\ Top.orig \in State /\ st \in State
  BY <1>1, UnderFacts, TopFacts DEF IInv, TypeOK
<1>3. Same(st, Top.orig) /\ st.declared = Top.orig.declared BY TopFacts DEF Within
<1> QED BY <1>1, <1>2, <1>3, StillWithin

LEMMA TickNat ==
  ASSUME TypeOK, Tick PROVE ops' \in Nat
BY EvaluatorAssumption DEF TypeOK, Tick

\* A block, a catch clause, a for loop and a call are left in the state they were entered in.
LEMMA LeftClean ==
  ASSUME IInv, frames # <<>>, Top.kind \in {"block", "catch", "forbody", "call"}
  PROVE  /\ Top.kind = "block" => RestoredBlock(st, Top.orig) = Top.orig
         /\ Top.kind \in {"catch", "forbody"} => Rewound(st, Top.orig) = Top.orig
         /\ Top.kind = "call" => RestoredCall(st, Top) = Top.orig
<1> DEFINE o == Top.orig
<1>1. Within(Top, st) /\ st \in State /\ o \in State BY TopFacts DEF IInv, TypeOK
<1> HIDE DEF o
<1>2. CASE Top.kind = "block"
  <2>1. WithinBlock(st, o) BY <1>1, <1>2 DEF Within, o
  <2>2. st.scope_level - 1 = o.scope_level BY <1>1, <2>1 DEF WithinBlock, State
  <2>3. RestoredBlock(st, o) = o BY <1>1, <2>1, <2>2 DEF WithinBlock, RestoredBlock, State
  <2> QED BY <1>2, <2>3 DEF o
<1>3. CASE Top.kind \in {"catch", "forbody"} BY <1>1, <1>3 DEF Within, Rewound, State, o
<1>4. CASE Top.kind = "call" BY <1>1, <1>4 DEF Within, WithinCall, RestoredCall, State, o
<1> QED BY <1>2, <1>3, <1>4 DEF o

-----------------------------------------------------------------------------
\* One lemma for the actions of each statement.
LEMMA RunFacts ==
  ASSUME IInv, InExpr
  PROVE  /\ frames # <<>> /\ out = "Run"
         /\ st \in State /\ Aligned(st)
         /\ Top \in Frame /\ Top.brk \in BOOLEAN
         /\ Top.kind \in Codes \cup Waits
         /\ ops \in Nat /\ mods \in Nat
<1>1. frames # <<>> /\ out = "Run" /\ Top.kind \in Codes \cup Waits BY DEF InExpr
<1>2. Top \in Frame /\ Travels(out, Top, st) BY <1>1, TopFacts
<1>3. Aligned(st) BY <1>1, <1>2 DEF Travels, Errors
<1>4. Top.brk \in BOOLEAN BY <1>2 DEF Frame
<1> QED BY <1>1, <1>2, <1>3, <1>4 DEF IInv, TypeOK

LEMMA CodeRuns ==
  ASSUME InCode PROVE InExpr
BY DEF InCode, InExpr

LEMMA PlainSteps ==
  ASSUME IInv,
         \/ track_operation \/ Simple \/ Throw \/ Stmt_Return \/ exit
         \/ Stmt_BreakLoop \/ EndOfStatements
  PROVE  IInv'
<1>1. InExpr
  BY CodeRuns DEF track_operation, Simple, Throw, Stmt_Return, exit, Stmt_BreakLoop,
                  EndOfStatements
<1>2. ops' \in Nat /\ mods' \in Nat
  BY <1>1, RunFacts, TickNat DEF IInv, track_operation, Simple, Throw, Stmt_Return, exit,
                                 Stmt_BreakLoop, EndOfStatements
<1>3. CASE Simple
  <2>1. Rests(frames', st') /\ out' = out /\ out \in Outcomes
    BY <1>1, <1>3, NowRests DEF Simple, InExpr, IInv, TypeOK
  <2>2. Travels(out', frames'[Len(frames')], st') BY <1>1, <1>3, TopFacts DEF Simple, InExpr, Top
  <2> QED BY <1>2, <2>1, <2>2, Arrives
<1>4. CASE \/ track_operation \/ Throw \/ Stmt_Return \/ exit
           \/ Stmt_BreakLoop \/ EndOfStatements
  <2>1. PICK e \in {"System", "Runtime", "Return", "Exit", "Break", "Continue", "Ok"} :
          Raise(e) /\ (e \in {"Break", "Continue"} => Top.brk /\ Top.kind \in Codes)
    BY <1>4 DEF track_operation, Throw, Stmt_Return, exit, Stmt_BreakLoop, EndOfStatements,
                InCode
  <2>2. e \in Outcomes \ {"Run"} BY DEF Outcomes, Errors, Pseudo
  <2> QED BY <1>1, <1>2, <2>1, <2>2, RunFacts, RaiseKeeps
<1> QED BY <1>3, <1>4

LEMMA BlockStep ==
  ASSUME IInv, Stmt_Block PROVE IInv'
<1>1. InExpr /\ RunBlock(frames, st, Top.brk) /\ ops' \in Nat /\ mods' \in Nat
  BY RunFacts, TickNat DEF IInv, Stmt_Block
<1>2. frames[Len(frames)].kind \notin Units BY <1>1, RunFacts DEF Top, Codes, Waits, Units
<1> QED BY <1>1, <1>2, RunFacts, NowRests, BlockKeeps DEF Top, Units

LEMMA LeaveBlockStep ==
  ASSUME IInv, LeaveBlock PROVE IInv'
<1>1. frames # <<>> /\ Top.kind = "block" /\ out # "Run" BY DEF LeaveBlock, At
<1>2. Len(frames) > 1 /\ Top.orig \in State /\ Aligned(Top.orig) BY <1>1, TopFacts
<1>3. st' = Top.orig BY <1>1, LeftClean DEF LeaveBlock, Leave
<1>4. Within(Under, st') BY <1>1, <1>2, <1>3, UnderFacts
<1>5. Travels(out', Under, st') /\ out' \in Outcomes
  <2>1. Travels(out, Under, st') BY <1>1, <1>2, <1>3, JumpTravels DEF Loops
  <2>2. out \in Outcomes \ {"Run"} BY <1>1 DEF IInv, TypeOK
  <2> QED BY <2>1, <2>2, ResumeTravels DEF LeaveBlock, Leave
<1>6. frames' = Popped /\ ops' \in Nat /\ mods' \in Nat BY DEF LeaveBlock, Leave, IInv, TypeOK
<1> QED BY <1>1, <1>2, <1>3, <1>4, <1>5, <1>6, PopKeeps

LEMMA PropagateStep ==
  ASSUME IInv, Propagate PROVE IInv'
<1>1. frames # <<>> /\ Top.kind \in Waits /\ out \notin {"Run", "Ok"} BY DEF Propagate, At
<1>2. Len(frames) > 1 /\ Within(Under, st) BY <1>1, UnderCode, UnderWait
<1>3. frames' = Popped /\ st' = st /\ out' = out /\ ops' \in Nat /\ mods' \in Nat
      /\ st \in State /\ out \in Outcomes
  BY DEF Propagate, Leave, IInv, TypeOK
<1>4. Travels(out, Under, st) BY <1>1, <1>2, TopFacts, UnderFacts DEF Travels, Above, Waits, Loops
<1> QED BY <1>1, <1>2, <1>3, <1>4, PopKeeps

LEMMA LeaveInPlaceStep ==
  ASSUME IInv, LeaveInPlace PROVE IInv'
<1>1. frames # <<>> /\ Top.kind = "inplace" /\ out # "Run" BY DEF LeaveInPlace, At
<1>2. frames' = Popped /\ st' = st /\ ops' \in Nat /\ mods' \in Nat /\ st \in State
  BY DEF LeaveInPlace, Leave, IInv, TypeOK
<1>3. out \notin {"Break", "Continue"} BY <1>1, TopFacts DEF Travels, Loops
<1>4. out' \in Outcomes \ {"Run", "Break", "Continue"}
  BY <1>1, <1>3 DEF LeaveInPlace, Leave, IInv, TypeOK, Outcomes
<1>5. CASE Len(frames) = 1
  <2>1. frames' = <<>> BY <1>2, <1>5 DEF Popped, IInv, TypeOK
  <2> QED BY <1>2, <1>4, <2>1 DEF IInv, TypeOK
<1>6. CASE Len(frames) > 1
  <2>1. Above(Under, Top) /\ Within(Under, Top.orig) /\ Under \in Frame
        /\ Under.orig \in State /\ Top.orig \in State
    BY <1>1, <1>6, UnderFacts, TopFacts
  <2>2. Under.kind \in {"eval", "module"} /\ (Under.kind = "eval" => Top.info = "eval")
    BY <1>1, <2>1 DEF Above, Frame, Kinds, Codes, Waits, Loops
  <2>3. Same(st, Top.orig) /\ (Top.info # "whole" => st.declared = Top.orig.declared)
    BY <1>1, TopFacts DEF Within
  <2>4. ASSUME Under.kind = "module" PROVE Within(Under, st)
    <3>1. WithinModule(Top.orig, Under.orig) BY <2>1, <2>4 DEF Within
    <3>2. WithinModule(st, Under.orig) BY <1>2, <2>1, <2>3, <3>1 DEF WithinModule, Same, Carries, State
    <3> QED BY <2>4, <3>2 DEF Within, Waits
  <2>5. ASSUME Under.kind = "eval" PROVE Within(Under, st)
    <3>1. WithinEval(Top.orig, Under.orig) /\ st.declared = Top.orig.declared
      BY <2>1, <2>2, <2>3, <2>5 DEF Within
    <3>2. WithinEval(st, Under.orig) BY <1>2, <2>1, <2>3, <3>1 DEF WithinEval, Same, Carries, State
    <3> QED BY <2>5, <3>2 DEF Within, Waits
  <2>6. out' \notin Errors => Aligned(st) BY <1>1, TopFacts DEF Travels, LeaveInPlace, Leave, Errors
  <2>7. Under.kind = "module" => out' \in {"Ok"} \cup Errors
    BY <1>1, <1>3, <2>1 DEF Above, LeaveInPlace, Leave, IInv, TypeOK, Outcomes, Pseudo
  <2>8. Travels(out', Under, st') BY <1>2, <1>4, <2>6, <2>7 DEF Travels
  <2> QED BY <1>1, <1>2, <1>4, <1>6, <2>2, <2>4, <2>5, <2>8, PopKeeps
<1>7. Len(frames) = 1 \/ Len(frames) > 1
  <2>1. \A n \in Nat \ {0} : n = 1 \/ n > 1 OBVIOUS
  <2> QED BY <1>1, <2>1, TopFacts, Zenon
<1> QED BY <1>5, <1>6, <1>7

LEMMA VarStep ==
  ASSUME IInv, Stmt_Var PROVE IInv'
<1>1. InCode /\ InExpr BY CodeRuns DEF Stmt_Var
<1>2. ops' \in Nat /\ mods' \in Nat BY <1>1, RunFacts, TickNat DEF IInv, Stmt_Var
<1>3. CASE Raise("System") BY <1>1, <1>2, <1>3, RunFacts, RaiseKeeps DEF Outcomes, Errors
<1>4. ASSUME NEW i \in {"let", "const", "reuse", "reconst"},
             frames' = Append(frames, NewFrame("let", i, Top.brk)),
             UNCHANGED <<st, out>>
      PROVE  IInv'
  <2>1. NewFrame("let", i, Top.brk) \in Frame BY <1>1, RunFacts DEF NewFrame, Frame, Kinds, Waits
  <2> QED BY <1>1, <1>2, <1>4, <2>1, RunFacts, PushWaitKeeps DEF Waits
<1> QED BY <1>3, <1>4 DEF Stmt_Var

LEMMA DefineStep ==
  ASSUME IInv, DefineVar PROVE IInv' /\ Same(st', st)
<1>1. frames # <<>> /\ Top.kind = "let" /\ out = "Run" /\ InExpr BY DEF DefineVar, At, InExpr, Waits
<1>2. Len(frames) > 1 /\ Under.kind \in Codes /\ Within(Under, st) /\ Under \in Frame
  BY <1>1, UnderCode, UnderWait, UnderFacts DEF Waits
<1>3. st \in State /\ Aligned(st) BY <1>1, RunFacts
<1>4. frames' = Popped /\ out' = "Run" /\ ops' \in Nat /\ mods' \in Nat
  BY DEF DefineVar, Leave, IInv, TypeOK
<1> DEFINE whole == Top.info \in Constants /\ Under.kind = "inplace" /\ Under.info = "whole"
<1>5. PICK n \in Nat, c \in {"none", "own", "env"} :
        /\ n >= st.scope
        /\ st.scope_level > 0 => c = st.constants
        /\ st' = [st EXCEPT !.scope = n, !.constants = c,
                            !.declared = st.declared \/ whole]
  <2> DEFINE n == IF Top.info \in Reuses THEN st.scope ELSE st.scope + 1
             c == IF /\ Top.info \in Constants /\ Under.kind = "inplace" /\ st.scope_level = 0
                     /\ st.constants = "none"
                  THEN "own" ELSE st.constants
  <2>1. n \in Nat /\ n >= st.scope BY <1>3 DEF State
  <2>2. c \in {"none", "own", "env"} /\ (st.scope_level > 0 => c = st.constants) BY <1>3 DEF State
  <2>3. st' = [st EXCEPT !.scope = n, !.constants = c, !.declared = st.declared \/ whole]
    BY DEF DefineVar, Leave
  <2> QED BY <2>1, <2>2, <2>3
<1>6. st' \in State /\ Same(st', st) /\ (st'.declared = st.declared \/ whole)
  <2>1. (st.declared \/ whole) \in BOOLEAN /\ (whole \/ (st.declared \/ whole) = st.declared)
    BY <1>3 DEF State
  <2>2. PICK d \in BOOLEAN :
          (d = st.declared \/ whole)
          /\ st' = [st EXCEPT !.scope = n, !.constants = c, !.declared = d]
    BY <1>5, <2>1
  <2> HIDE DEF whole
  <2>3. st' \in State /\ st'.declared = d BY <1>3, <2>2 DEF State
  <2>4. Same(st', st) BY <1>3, <1>5, <2>2 DEF State, Same, Carries
  <2> QED BY <2>2, <2>3, <2>4
<1>7. Within(Under, st') BY <1>2, <1>3, <1>6, StillWithin
<1>8. Travels(out', Under, st')
  <2>1. Aligned(st') BY <1>3, <1>5 DEF Aligned, State
  <2> QED BY <1>2, <1>4, <2>1 DEF Travels, Codes
<1> QED BY <1>1, <1>2, <1>4, <1>6, <1>7, <1>8, PopKeeps DEF Outcomes

\* Leaving a loop or a statement by any way that is not a jump.
LEMMA LeaveStatement ==
  ASSUME IInv, frames # <<>>, Len(frames) > 1, Under.kind \in Codes \cup Waits,
         NEW o \in Outcomes, o \notin {"Break", "Continue"}, NEW s \in State,
         Within(Under, s), o \notin Errors => Aligned(s),
         Leave(o, s), ops' \in Nat, mods' \in Nat
  PROVE  IInv'
<1>1. Travels(out', Under, st') /\ frames' = Popped /\ st' = s /\ out' = o
  BY DEF Travels, Leave, Codes, Waits
<1> QED BY <1>1, PopKeeps

LEMMA LoopStep ==
  ASSUME IInv, Stmt_Loop PROVE IInv'
<1>1. InCode /\ InExpr BY CodeRuns DEF Stmt_Loop
<1>2. ops' \in Nat /\ mods' \in Nat BY <1>1, RunFacts, TickNat DEF IInv, Stmt_Loop
<1>3. CASE frames' = Append(frames, NewFrame("cond", "while", Top.brk)) /\ UNCHANGED <<st, out>>
  <2>1. NewFrame("cond", "while", Top.brk) \in Frame BY <1>1, RunFacts DEF NewFrame, Frame, Kinds, Waits
  <2> QED BY <1>1, <1>2, <1>3, <2>1, RunFacts, PushWaitKeeps DEF Waits
<1>4. ASSUME NEW i \in {"do", "loop"},
             RunBlock(Append(frames, NewFrame("body", i, Top.brk)), st, TRUE)
      PROVE  IInv'
  <2> DEFINE f == NewFrame("body", i, Top.brk)
  <2>1. f \in Frame /\ f.kind = "body" /\ f.orig = st /\ f.brk = Top.brk
    BY <1>1, RunFacts DEF NewFrame, Frame, Kinds
  <2>2. Above(Top, f) BY <1>1, <2>1 DEF Above, InCode, Codes, Waits, Loops, Units
  <2>3. Within(f, st) BY <1>1, <2>1, RunFacts, SameReflexive DEF Within, Waits
  <2> HIDE DEF f
  <2>4. Rests(Append(frames, f), st) /\ Append(frames, f)[Len(Append(frames, f))] = f
    BY <1>1, <2>1, <2>2, <2>3, RunFacts, PushRests
  <2> QED BY <1>1, <1>2, <1>4, <2>1, <2>4, RunFacts, BlockKeeps DEF Loops, Units, f
<1> QED BY <1>3, <1>4 DEF Stmt_Loop

\* A loop goes from its condition to its body and back.
LEMMA TurnLoop ==
  ASSUME IInv, frames # <<>>, NEW k \in {"cond", "body"}, Top.kind \in {"cond", "body"}
  PROVE  LET gs == [frames EXCEPT ![Len(frames)].kind = k]
         IN /\ Rests(gs, st)
            /\ gs[Len(gs)].kind = k
<1> DEFINE f == [Top EXCEPT !.kind = k]
<1>1. Len(frames) > 1 /\ Under.kind \in Codes BY UnderCode DEF Waits, Loops
<1>2. Top \in Frame /\ Aligned(Top.orig) /\ Within(Top, st) /\ Above(Under, Top)
      /\ Within(Under, Top.orig)
  BY <1>1, TopFacts, UnderFacts
<1>3. f \in Frame /\ f.kind = k /\ f.orig = Top.orig /\ f.brk = Top.brk BY <1>2 DEF Frame, Kinds, Waits
<1>4. Above(Under, f) BY <1>1, <1>2, <1>3 DEF Above, Codes, Waits, Loops, Units
<1>5. Within(f, st)
  <2>1. Same(st, f.orig) /\ st.declared = f.orig.declared BY <1>2, <1>3 DEF Within, Waits
  <2> HIDE DEF f
  <2> QED BY <2>1, <1>3 DEF Within, Waits
<1>6. [frames EXCEPT ![Len(frames)].kind = k] = [frames EXCEPT ![Len(frames)] = f] BY DEF Top
<1>7. st \in State /\ f.kind # "inplace" BY <1>3 DEF IInv, TypeOK
<1> HIDE DEF f
<1> QED BY <1>1, <1>2, <1>3, <1>4, <1>5, <1>6, <1>7, ReplaceRests

LEMMA ConditionStep ==
  ASSUME IInv, Condition PROVE IInv'
<1>1. frames # <<>> /\ Top.kind = "cond" /\ out = "Run" /\ InExpr BY DEF Condition, At, InExpr, Waits
<1>2. ops' \in Nat /\ mods' \in Nat BY <1>1, RunFacts, TickNat DEF IInv, Condition
<1>3. CASE Leave("Run", st)
  BY <1>1, <1>2, <1>3, RunFacts, UnderCode, UnderWait, LeaveStatement DEF Waits, Outcomes
<1>4. CASE RunBlock([frames EXCEPT ![Len(frames)].kind = "body"], st, TRUE)
  BY <1>1, <1>2, <1>4, RunFacts, TurnLoop, BlockKeeps DEF Loops, Units
<1> QED BY <1>3, <1>4 DEF Condition

LEMMA LoopBodyStep ==
  ASSUME IInv, LoopBody PROVE IInv'
<1>1. frames # <<>> /\ Top.kind = "body" /\ out # "Run" BY DEF LoopBody, At
<1>2. ops' \in Nat /\ mods' \in Nat /\ out \in Outcomes /\ st \in State
      /\ (out \notin Errors => Aligned(st))
  BY <1>1, TopFacts DEF IInv, TypeOK, LoopBody, Travels
<1>3. CASE /\ out \in {"Ok", "Continue"}
           /\ frames' = [frames EXCEPT ![Len(frames)].kind = "cond"]
           /\ out' = "Run" /\ UNCHANGED st
  <2>1. Rests(frames', st') /\ frames'[Len(frames')].kind = "cond" BY <1>1, <1>3, TurnLoop
  <2>2. Aligned(st') BY <1>2, <1>3 DEF Errors
  <2>3. Travels(out', frames'[Len(frames')], st') BY <1>3, <2>1, <2>2 DEF Travels, Waits
  <2> QED BY <1>2, <1>3, <2>1, <2>3, Arrives DEF Outcomes
<1>4. CASE out \in {"Ok", "Continue"} /\ RunBlock(frames, st, TRUE)
  <2>1. frames[Len(frames)].kind = "body" BY <1>1 DEF Top
  <2>2. Aligned(st) BY <1>2, <1>4 DEF Errors
  <2> QED BY <1>1, <1>2, <1>4, <2>1, <2>2, NowRests, BlockKeeps DEF Loops, Units
<1>5. CASE /\ out \notin {"Ok", "Continue"}
           /\ Leave(IF out = "Break" THEN Resume("Ok") ELSE out, st)
  <2> DEFINE o == IF out = "Break" THEN Resume("Ok") ELSE out
  <2>1. o \in Outcomes /\ o \notin {"Break", "Continue"} /\ (o \notin Errors => Aligned(st))
    BY <1>2, <1>5 DEF Resume, Outcomes, Errors
  <2> HIDE DEF o
  <2>2. Leave(o, st) BY <1>5 DEF o
  <2> QED BY <1>1, <1>2, <2>1, <2>2, UnderCode, UnderWait, LeaveStatement DEF Loops, Waits
<1> QED BY <1>3, <1>4, <1>5 DEF LoopBody

LEMMA ForStep ==
  ASSUME IInv, Stmt_For PROVE IInv'
<1>1. InCode /\ InExpr BY CodeRuns DEF Stmt_For
<1>2. ops' \in Nat /\ mods' \in Nat BY <1>1, RunFacts, TickNat DEF IInv, Stmt_For
<1>3. CASE Raise("System") BY <1>1, <1>2, <1>3, RunFacts, RaiseKeeps DEF Outcomes, Errors
<1>4. ASSUME NEW i \in {"counter", ""},
             frames' = Append(frames, NewFrame("iter", i, Top.brk)),
             UNCHANGED <<st, out>>
      PROVE  IInv'
  <2>1. NewFrame("iter", i, Top.brk) \in Frame BY <1>1, RunFacts DEF NewFrame, Frame, Kinds, Waits
  <2> QED BY <1>1, <1>2, <1>4, <2>1, RunFacts, PushWaitKeeps DEF Waits
<1> QED BY <1>3, <1>4 DEF Stmt_For

\* A statement turns into a frame that is entered in the current state.
LEMMA TurnRests ==
  ASSUME IInv, frames # <<>>, Top.kind \in Waits \cup Loops \cup {"try"},
         Within(Under, st), Aligned(st),
         NEW k \in {"forbody", "catch", "module"}, NEW i,
         NewFrame(k, i, Top.brk) \in Frame, k = "catch" => i \in Errors,
         NEW t \in State, Within(NewFrame(k, i, Top.brk), t)
  PROVE  LET gs == [frames EXCEPT ![Len(frames)] = NewFrame(k, i, Top.brk)]
         IN Rests(gs, t) /\ gs[Len(gs)] = NewFrame(k, i, Top.brk)
<1> DEFINE f == NewFrame(k, i, Top.brk)
<1>1. f.kind = k /\ f.info = i /\ f.brk = Top.brk /\ f.orig = st BY DEF NewFrame
<1>2. Len(frames) > 1 /\ Under.kind \in Codes /\ Above(Under, Top)
  BY UnderCode, UnderFacts DEF Waits, Loops
<1> HIDE DEF f
<1>3. Above(Under, f) BY <1>1, <1>2 DEF Above, Codes, Waits, Loops, Units
<1>4. f.kind # "inplace" BY <1>1
<1> QED BY <1>1, <1>2, <1>3, <1>4, ReplaceRests DEF f

LEMMA IterableStep ==
  ASSUME IInv, Iterable PROVE IInv'
<1>1. frames # <<>> /\ Top.kind = "iter" /\ InExpr BY DEF Iterable, At, InExpr, Waits
<1>2. Within(Under, st) /\ st \in State /\ Aligned(st) BY <1>1, UnderWait, RunFacts DEF Waits
<1>3. ops' \in Nat /\ mods' \in Nat /\ out' = "Ok" BY DEF Iterable, IInv, TypeOK
<1> DEFINE f == NewFrame("forbody", "", Top.brk)
<1>4. f \in Frame /\ f.kind = "forbody" /\ f.orig = st BY <1>1, RunFacts DEF NewFrame, Frame, Kinds
<1>5. PICK n \in Nat : st' = [st EXCEPT !.scope = n]
  <2>1. st.scope + (IF Top.info = "counter" THEN 2 ELSE 1) \in Nat BY <1>2 DEF State
  <2> QED BY <2>1 DEF Iterable
<1>6. st' \in State /\ st' = [st EXCEPT !.scope = st'.scope] /\ Aligned(st')
  BY <1>2, <1>5 DEF State, Aligned
<1>7. Within(f, st')
  <2> HIDE DEF f
  <2> QED BY <1>4, <1>6 DEF Within, Waits
<1>8. frames' = [frames EXCEPT ![Len(frames)] = f] BY DEF Iterable
<1>9. Rests(frames', st') /\ frames'[Len(frames')] = f
  BY <1>1, <1>2, <1>4, <1>6, <1>7, <1>8, TurnRests DEF Waits
<1>10. Travels(out', f, st') BY <1>3, <1>6 DEF Travels
<1> QED BY <1>3, <1>9, <1>10, Arrives DEF Outcomes

LEMMA ForBodyStep ==
  ASSUME IInv, ForBody PROVE IInv'
<1>1. frames # <<>> /\ Top.kind = "forbody" /\ out # "Run" BY DEF ForBody, At
<1>2. ops' \in Nat /\ mods' \in Nat /\ out \in Outcomes /\ st \in State
      /\ (out \notin Errors => Aligned(st))
  BY <1>1, TopFacts DEF IInv, TypeOK, ForBody, Travels
<1>3. CASE out \in {"Ok", "Continue"} /\ RunBlock(frames, st, TRUE)
  <2>1. frames[Len(frames)].kind = "forbody" BY <1>1 DEF Top
  <2>2. Aligned(st) BY <1>2, <1>3 DEF Errors
  <2> QED BY <1>1, <1>2, <1>3, <2>1, <2>2, NowRests, BlockKeeps DEF Loops, Units
<1>4. CASE ~ (out \in {"Ok", "Continue"} /\ RunBlock(frames, st, TRUE))
  <2>1. PICK o \in Outcomes : o \notin {"Break", "Continue"} /\ Leave(o, Rewound(st, Top.orig))
    <3>1. Resume("Ok") \in Outcomes \ {"Break", "Continue"} BY DEF Resume, Outcomes
    <3> QED BY <1>2, <1>4, <3>1 DEF ForBody, Outcomes, Errors
  <2>2. Rewound(st, Top.orig) = Top.orig /\ Top.orig \in State /\ Aligned(Top.orig)
    BY <1>1, LeftClean, TopFacts
  <2>3. Len(frames) > 1 /\ Under.kind \in Codes /\ Within(Under, Top.orig)
    BY <1>1, UnderCode, UnderFacts DEF Loops
  <2> QED BY <1>1, <1>2, <2>1, <2>2, <2>3, LeaveStatement
<1> QED BY <1>3, <1>4

LEMMA TryCatchStep ==
  ASSUME IInv, Stmt_TryCatch PROVE IInv'
<1>1. InCode /\ InExpr BY CodeRuns DEF Stmt_TryCatch
<1>2. ops' \in Nat /\ mods' \in Nat BY <1>1, RunFacts, TickNat DEF IInv, Stmt_TryCatch
<1> DEFINE f == NewFrame("try", "", Top.brk)
<1>3. f \in Frame /\ f.kind = "try" /\ f.orig = st /\ f.brk = Top.brk
  BY <1>1, RunFacts DEF NewFrame, Frame, Kinds
<1>4. Above(Top, f) BY <1>1, <1>3 DEF Above, InCode, Codes, Waits, Loops, Units
<1>5. RunBlock(Append(frames, f), st, Top.brk) BY DEF Stmt_TryCatch
<1> HIDE DEF f
<1>6. Within(f, st) BY <1>3 DEF Within, Waits
<1>7. Rests(Append(frames, f), st) /\ Append(frames, f)[Len(Append(frames, f))] = f
  BY <1>1, <1>3, <1>4, <1>6, RunFacts, PushRests
<1> QED BY <1>1, <1>2, <1>3, <1>5, <1>7, RunFacts, BlockKeeps DEF Units

LEMMA TryBodyStep ==
  ASSUME IInv, TryBody PROVE IInv'
<1>1. frames # <<>> /\ Top.kind = "try" /\ out # "Run" /\ Top \in Frame BY TopFacts DEF TryBody, At
<1>2. ops' \in Nat /\ mods' \in Nat /\ out \in Outcomes /\ st \in State BY DEF IInv, TypeOK, TryBody
<1>3. st = Top.orig /\ Aligned(st) BY <1>1, TopFacts DEF Within
<1>4. Len(frames) > 1 /\ Under.kind \in Codes /\ Within(Under, st) BY <1>1, <1>3, UnderCode, UnderFacts
<1>5. CASE Leave(Resume(out), st)
  <2>1. Travels(out, Under, st) BY <1>1, <1>3, <1>4, JumpTravels DEF Loops
  <2>2. Travels(Resume(out), Under, st) /\ Resume(out) \in Outcomes BY <1>1, <1>2, <2>1, ResumeTravels
  <2> QED BY <1>1, <1>2, <1>4, <1>5, <2>2, PopKeeps DEF Leave
<1>6. CASE Leave("System", st) BY <1>1, <1>2, <1>3, <1>4, <1>6, LeaveStatement DEF Outcomes, Errors
<1>7. ASSUME is_catchable(out), NEW v \in {0, 1},
             RunBlock([frames EXCEPT ![Len(frames)] = NewFrame("catch", out, Top.brk)],
                      [st EXCEPT !.scope = @ + v], Top.brk)
      PROVE  IInv'
  <2> DEFINE f == NewFrame("catch", out, Top.brk)
             t == [st EXCEPT !.scope = @ + v]
             gs == [frames EXCEPT ![Len(frames)] = f]
  <2>1. out \in Errors /\ Top.brk \in BOOLEAN BY <1>1, <1>7 DEF is_catchable, Errors, Frame
  <2>2. f \in Frame /\ f.kind = "catch" /\ f.orig = st /\ f.brk = Top.brk
    BY <1>2, <2>1 DEF NewFrame, Frame, Kinds
  <2>3. t \in State /\ t = [st EXCEPT !.scope = t.scope] /\ Aligned(t) BY <1>2, <1>3 DEF State, Aligned
  <2>4. RunBlock(gs, t, Top.brk) BY <1>7
  <2> HIDE DEF t
  <2>5. Within(f, t)
    <3> HIDE DEF f
    <3> QED BY <2>2, <2>3 DEF Within, Waits
  <2>6. Rests(gs, t) /\ gs[Len(gs)] = f BY <1>1, <1>3, <1>4, <2>1, <2>2, <2>3, <2>5, TurnRests
  <2> HIDE DEF f, gs
  <2> QED BY <1>2, <2>1, <2>2, <2>3, <2>4, <2>6, BlockKeeps DEF Units
<1> QED BY <1>5, <1>6, <1>7 DEF TryBody

LEMMA CatchBodyStep ==
  ASSUME IInv, CatchBody PROVE IInv'
<1>1. frames # <<>> /\ Top.kind = "catch" /\ out # "Run" BY DEF CatchBody, At
<1>2. ops' \in Nat /\ mods' \in Nat /\ out \in Outcomes BY DEF IInv, TypeOK, CatchBody
<1>3. Rewound(st, Top.orig) = Top.orig /\ Top.orig \in State /\ Aligned(Top.orig)
  BY <1>1, LeftClean, TopFacts
<1>4. Len(frames) > 1 /\ Under.kind \in Codes /\ Within(Under, Top.orig) BY <1>1, UnderCode, UnderFacts
<1>5. CASE Leave(Resume(out), Top.orig)
  <2>1. Travels(out, Under, Top.orig) BY <1>1, <1>3, <1>4, JumpTravels DEF Loops
  <2>2. Travels(Resume(out), Under, Top.orig) /\ Resume(out) \in Outcomes
    BY <1>1, <1>2, <2>1, ResumeTravels
  <2> QED BY <1>1, <1>2, <1>3, <1>4, <1>5, <2>2, PopKeeps DEF Leave
<1>6. CASE Leave(Top.info, Top.orig)
  <2>1. Top.info \in Errors BY <1>1, <1>4, UnderFacts DEF Above
  <2> QED BY <1>1, <1>2, <1>3, <1>4, <1>6, <2>1, LeaveStatement DEF Outcomes, Errors
<1> QED BY <1>3, <1>5, <1>6 DEF CatchBody

LEMMA CallStep ==
  ASSUME "debugger" \notin Features, IInv, call_script_fn PROVE IInv'
<1>1. InExpr BY DEF call_script_fn
<1>2. ops' \in Nat /\ mods' \in Nat BY <1>1, RunFacts, TickNat DEF IInv, call_script_fn
<1>3. CASE Raise("System") BY <1>1, <1>2, <1>3, RunFacts, RaiseKeeps DEF Outcomes, Errors
<1>4. ASSUME NEW p \in 0..MaxParams, NEW env \in BOOLEAN,
             RunBlock(Append(frames, NewFrame("call", IF env THEN "env" ELSE "", Top.brk)),
                      [Merged(Debugged(st), env) EXCEPT
                         !.scope = p, !.hidden = 0, !.level = @ + 1,
                         !.source = IF env THEN "module" ELSE @],
                      FnBreakable(Top.brk))
      PROVE  IInv'
  <2> DEFINE i == IF env THEN "env" ELSE ""
             f == NewFrame("call", i, Top.brk)
             t == [Merged(Debugged(st), env) EXCEPT
                     !.scope = p, !.hidden = 0, !.level = @ + 1,
                     !.source = IF env THEN "module" ELSE @]
  <2>1. f \in Frame /\ f.kind = "call" /\ f.orig = st /\ f.info = i
    BY <1>1, RunFacts DEF NewFrame, Frame, Kinds
  <2>s. st \in State BY <1>1, RunFacts
  <2>2. Above(Top, f) BY <1>1, <2>1, RunFacts DEF Above, Codes, Waits, Loops, Units, NewFrame
  <2>3. Debugged(st) = st /\ p \in Nat BY EvaluatorAssumption DEF Debugged
  <2> DEFINE m == Merged(st, env)
  <2>4. m \in State /\ WithinCall(m, st, i)
    <3>1. CASE env
      <4>1. PICK a \in Nat, b \in Nat :
              m = [st EXCEPT !.imports = a, !.lib = b, !.constants = "env"]
        <5>1. st.imports + 1 \in Nat /\ st.lib + 1 \in Nat BY <2>s DEF State
        <5> QED BY <3>1, <5>1 DEF Merged
      <4> HIDE DEF m
      <4>2. m \in State BY <2>s, <4>1 DEF State
      <4>3. WithinCall(m, st, "env") BY <2>s, <4>1 DEF State, WithinCall
      <4> QED BY <3>1, <4>2, <4>3
    <3>2. CASE ~env BY <2>s, <3>2 DEF Merged, WithinCall
    <3> QED BY <3>1, <3>2
  <2>5. t \in State /\ t.hidden = 0 /\ WithinCall(t, st, i)
    <3>1. PICK c \in {"main", "module"}, n \in Nat :
            t = [m EXCEPT !.scope = p, !.hidden = 0, !.level = n, !.source = c]
      <4>1. m \in State BY <2>4
      <4>2. (IF env THEN "module" ELSE m.source) \in {"main", "module"} /\ m.level + 1 \in Nat
        <5> HIDE DEF m
        <5> QED BY <4>1 DEF State
      <4> QED BY <2>3, <4>2
    <3> HIDE DEF m, t, i
    <3>2. t \in State /\ t.hidden = 0
      <4>1. m \in State /\ p \in Nat BY <2>3, <2>4
      <4> QED BY <3>1, <4>1 DEF State
    <3>3. /\ t.scope_level = m.scope_level /\ t.declared = m.declared
          /\ t.always_search_scope = m.always_search_scope
          /\ t.constants = m.constants
      BY <2>4, <3>1 DEF State
    <3> QED BY <2>4, <3>2, <3>3 DEF WithinCall
  <2>6. RunBlock(Append(frames, f), t, FALSE) BY <1>4 DEF FnBreakable
  <2> HIDE DEF i, f, t
  <2>7. Within(f, t) /\ Aligned(t) BY <2>1, <2>5 DEF Within, Waits, Aligned
  <2>8. Rests(Append(frames, f), t) /\ Append(frames, f)[Len(Append(frames, f))] = f
    BY <1>1, <2>1, <2>2, <2>5, <2>7, PushRests
  <2> QED BY <1>2, <2>1, <2>6, <2>7, <2>8, BlockKeeps DEF Units
<1>5. \A env \in {FALSE} \cup {"import" \in Features} : env \in BOOLEAN
  <2>1. ("import" \in Features) \in BOOLEAN OBVIOUS
  <2> QED BY <2>1, Zenon
<1> QED BY <1>3, <1>4, <1>5 DEF call_script_fn

LEMMA ReturnStep ==
  ASSUME "debugger" \notin Features, IInv, ReturnFromCall PROVE IInv'
<1>1. frames # <<>> /\ Top.kind = "call" /\ out # "Run" BY DEF ReturnFromCall, At
<1>2. ops' \in Nat /\ mods' \in Nat /\ out \in Outcomes BY DEF IInv, TypeOK, ReturnFromCall
<1>3. RestoredCall(st, Top) = Top.orig /\ Top.orig \in State /\ Aligned(Top.orig)
  BY <1>1, LeftClean, TopFacts
<1>4. Len(frames) > 1 /\ Under.kind \in Codes \cup Waits /\ Within(Under, Top.orig)
  BY <1>1, UnderCode, UnderFacts DEF Units
<1>5. Leave(Resume(FromCall(out)), Top.orig) BY <1>3 DEF ReturnFromCall
<1>6. FromCall(out) \in Outcomes \ {"Break", "Continue"} BY <1>2 DEF FromCall, Outcomes, Errors, Pseudo
<1>7. Resume(FromCall(out)) \in Outcomes \ {"Break", "Continue"} BY <1>6 DEF Resume, Outcomes
<1> QED BY <1>1, <1>2, <1>3, <1>4, <1>5, <1>7, LeaveStatement

\* The text of an eval, or a module, starts on top of the frames fs.
LEMMA InPlaceKeeps ==
  ASSUME NEW fs, NEW s, Rests(fs, s), Aligned(s), NEW i \in {"eval", "whole"},
         \/ fs[Len(fs)].kind = "eval" /\ i = "eval"
         \/ fs[Len(fs)].kind = "module" /\ i = "whole",
         frames' = Append(fs, InPlace(s, i)), st' = s, out' = "Run",
         ops' \in Nat, mods' \in Nat
  PROVE  IInv'
<1> DEFINE f == InPlace(s, i)
<1>1. f \in Frame /\ f.kind = "inplace" /\ f.orig = s /\ f.brk = FALSE /\ f.info = i
  BY DEF InPlace, Frame, Kinds, Codes, Rests
<1> HIDE DEF f
<1>2. Within(f, s) BY <1>1, SameReflexive DEF Within, Waits, Rests
<1>3. Above(fs[Len(fs)], f) BY <1>1 DEF Above, Codes, Waits, Loops, Units
<1>4. /\ Rests(Append(fs, f), s)
      /\ Len(Append(fs, f)) = Len(fs) + 1
      /\ Append(fs, f)[Len(fs) + 1] = f
  BY <1>1, <1>2, <1>3, PushStacked DEF Rests
<1>5. Travels("Run", f, s) BY <1>1 DEF Travels, Codes
<1> QED BY <1>4, <1>5, Arrives DEF Outcomes, f

LEMMA EvalStep ==
  ASSUME IInv, eval PROVE IInv'
<1>1. InExpr BY DEF eval
<1>2. ops' \in Nat /\ mods' \in Nat BY <1>1, RunFacts, TickNat DEF IInv, eval
<1>3. CASE Raise("Runtime") BY <1>1, <1>2, <1>3, RunFacts, RaiseKeeps DEF Outcomes, Errors
<1> DEFINE s == [st EXCEPT !.level = @ + 1, !.hidden = 0]
           f == NewFrame("eval", "", Top.brk)
<1>4. CASE frames' = Append(Append(frames, f), InPlace(s, "eval")) /\ st' = s /\ UNCHANGED out
  <2>1. f \in Frame /\ f.kind = "eval" /\ f.orig = st BY <1>1, RunFacts DEF NewFrame, Frame, Kinds
  <2>s. st \in State BY <1>1, RunFacts
  <2>2. Above(Top, f) BY <1>1, <2>1, RunFacts DEF Above, Codes, Waits, Loops, Units, NewFrame
  <2>3. s \in State /\ WithinEval(s, st) /\ Aligned(s)
    <3>1. PICK n \in Nat : n = st.level + 1 /\ s = [st EXCEPT !.level = n, !.hidden = 0]
      <4>1. st.level + 1 \in Nat BY <2>s DEF State
      <4> QED BY <4>1
    <3>2. s \in State /\ s.hidden = 0 BY <2>s, <3>1 DEF State
    <3>3. /\ s.scope = st.scope /\ s.imports = st.imports /\ s.scope_level = st.scope_level
          /\ s.always_search_scope = st.always_search_scope /\ s.constants = st.constants
          /\ s.declared = st.declared /\ s.lib = st.lib /\ s.level = st.level + 1
          /\ s.source = st.source /\ s.call_stack = st.call_stack
      BY <2>s, <3>1 DEF State
    <3> HIDE DEF s
    <3>4. Carries(s, st) BY <2>s, <3>3 DEF State, Carries
    <3> QED BY <3>2, <3>3, <3>4 DEF WithinEval, Aligned
  <2> HIDE DEF s, f
  <2>4. Within(f, s) BY <2>1, <2>3 DEF Within, Waits
  <2>5. Rests(Append(frames, f), s) /\ Append(frames, f)[Len(Append(frames, f))] = f
    BY <1>1, <2>1, <2>2, <2>3, <2>4, PushRests
  <2> QED BY <1>1, <1>2, <1>4, <2>1, <2>3, <2>5, RunFacts, InPlaceKeeps
<1> QED BY <1>3, <1>4 DEF eval

LEMMA ReturnFromEvalStep ==
  ASSUME IInv, ReturnFromEval PROVE IInv' /\ Same(st', Top.orig)
<1> DEFINE o == Top.orig
<1>1. frames # <<>> /\ Top.kind = "eval" /\ out # "Run" BY DEF ReturnFromEval, At
<1>2. ops' \in Nat /\ mods' \in Nat /\ out \in Outcomes BY DEF IInv, TypeOK, ReturnFromEval
<1>3. Len(frames) > 1 /\ Under.kind \in Codes \cup Waits /\ Within(Under, o) /\ Under \in Frame
  BY <1>1, UnderCode, UnderFacts DEF Units
<1>4. out \notin {"Break", "Continue"} BY <1>1, TopFacts DEF Travels, Loops, Units
<1>5. st \in State /\ o \in State BY <1>1, TopFacts DEF IInv, TypeOK
<1>6. WithinEval(st, o) /\ Aligned(o) BY <1>1, TopFacts DEF Within
<1>7. st' = RestoredEval(st, o) BY DEF ReturnFromEval, Leave
<1> HIDE DEF o
<1>8. PICK n \in Nat, a \in BOOLEAN :
        /\ n > 0 => a
        /\ o.always_search_scope => a
        /\ st' = [st EXCEPT !.level = o.level, !.hidden = n, !.always_search_scope = a]
  <2> DEFINE n == o.hidden + Left(st, o)
             a == st.always_search_scope \/ st.scope # o.scope \/ st.imports # o.imports
  <2>1. n \in Nat /\ (n > 0 => o.hidden > 0 \/ st.scope # o.scope \/ st.imports # o.imports)
    BY <1>5, <1>6 DEF WithinEval, Carries, Left, State
  <2>2. o.hidden > 0 \/ o.always_search_scope => st.always_search_scope
    BY <1>6 DEF WithinEval, Carries, Aligned
  <2>3. st' = [st EXCEPT !.level = o.level, !.hidden = n, !.always_search_scope = a]
    BY <1>7 DEF RestoredEval
  <2>4. a \in BOOLEAN OBVIOUS
  <2> QED BY <2>1, <2>2, <2>3, <2>4
<1>9. st' \in State /\ Aligned(st') BY <1>5, <1>8 DEF State, Aligned
<1>10. Same(st', o) /\ st'.declared = o.declared
  <2>1. /\ st'.scope = st.scope /\ st'.imports = st.imports
        /\ st'.scope_level = st.scope_level /\ st'.constants = st.constants
        /\ st'.lib = st.lib /\ st'.source = st.source /\ st'.call_stack = st.call_stack
        /\ st'.level = o.level /\ st'.declared = st.declared
    BY <1>5, <1>8 DEF State
  <2>2. o.always_search_scope => st'.always_search_scope BY <1>5, <1>8 DEF State
  <2> QED BY <1>6, <2>1, <2>2 DEF WithinEval, Same, Carries
<1>11. Within(Under, st') BY <1>3, <1>5, <1>9, <1>10, StillWithin
<1>12. Resume(FromEval(out)) \in Outcomes \ {"Break", "Continue"}
  BY <1>2, <1>4 DEF Resume, FromEval, Outcomes, Errors
<1>13. Leave(Resume(FromEval(out)), st') BY <1>7 DEF ReturnFromEval, Leave, o
<1> QED BY <1>1, <1>2, <1>3, <1>9, <1>10, <1>11, <1>12, <1>13, LeaveStatement DEF o

LEMMA ImportStep ==
  ASSUME IInv, Stmt_Import PROVE IInv'
<1>1. InCode /\ InExpr BY CodeRuns DEF Stmt_Import
<1>2. ops' \in Nat /\ mods' \in Nat BY <1>1, RunFacts, TickNat DEF IInv, Stmt_Import
<1>3. CASE Raise("System") BY <1>1, <1>2, <1>3, RunFacts, RaiseKeeps DEF Outcomes, Errors
<1>4. CASE frames' = Append(frames, NewFrame("path", "", Top.brk)) /\ UNCHANGED <<st, out>>
  <2>1. NewFrame("path", "", Top.brk) \in Frame BY <1>1, RunFacts DEF NewFrame, Frame, Kinds, Waits
  <2> QED BY <1>1, <1>2, <1>4, <2>1, RunFacts, PushWaitKeeps DEF Waits
<1> QED BY <1>3, <1>4 DEF Stmt_Import

LEMMA LoadedStep ==
  ASSUME IInv, LoadedModule PROVE IInv' /\ Same(st', st)
<1>1. frames # <<>> /\ Top.kind = "path" /\ out = "Run" /\ InExpr BY DEF LoadedModule, At, InExpr, Waits
<1>2. Len(frames) > 1 /\ Under.kind \in Codes /\ Within(Under, st) /\ Under \in Frame
  BY <1>1, UnderCode, UnderWait, UnderFacts DEF Waits
<1>3. st \in State /\ Aligned(st) /\ mods \in Nat BY <1>1, RunFacts
<1>4. ops' \in Nat /\ mods' \in Nat BY <1>3 DEF LoadedModule, IInv, TypeOK
<1>5. PICK n \in Nat : n >= st.imports /\ st' = [st EXCEPT !.imports = n]
  <2>1. st.imports + 1 \in Nat /\ st.imports + 1 >= st.imports BY <1>3 DEF State
  <2> QED BY <2>1 DEF LoadedModule, Leave
<1>6. st' \in State /\ Same(st', st) /\ st'.declared = st.declared /\ Aligned(st')
  <2>1. st' \in State /\ st'.declared = st.declared BY <1>3, <1>5 DEF State
  <2>2. Same(st', st) /\ Aligned(st') BY <1>3, <1>5 DEF State, Same, Carries, Aligned
  <2> QED BY <2>1, <2>2
<1>7. Within(Under, st') BY <1>2, <1>3, <1>6, StillWithin
<1>8. Leave("Run", st') BY DEF LoadedModule, Leave
<1> QED BY <1>1, <1>2, <1>4, <1>6, <1>7, <1>8, LeaveStatement DEF Outcomes

LEMMA EvalModuleStep ==
  ASSUME IInv, EvalModule PROVE IInv'
<1>1. frames # <<>> /\ Top.kind = "path" /\ out = "Run" /\ InExpr BY DEF EvalModule, At, InExpr, Waits
<1>2. Len(frames) > 1 /\ Under.kind \in Codes /\ Within(Under, st)
  BY <1>1, UnderCode, UnderWait DEF Waits
<1>3. ops' \in Nat /\ mods' \in Nat BY DEF EvalModule, IInv, TypeOK
<1>4. st \in State BY <1>1, RunFacts
<1>5. CASE Leave("Runtime", st) BY <1>1, <1>2, <1>3, <1>4, <1>5, LeaveStatement DEF Outcomes, Errors
<1> DEFINE s == [st EXCEPT !.constants = "none", !.lib = @ + 1, !.source = "module",
                           !.hidden = 0, !.declared = FALSE]
           f == NewFrame("module", "", Top.brk)
           gs == [frames EXCEPT ![Len(frames)] = f]
<1>6. CASE frames' = Append(gs, InPlace(s, "whole")) /\ st' = s /\ UNCHANGED out
  <2>1. f \in Frame /\ f.kind = "module" /\ f.orig = st BY <1>1, RunFacts DEF NewFrame, Frame, Kinds
  <2>2. PICK n \in Nat : s = [st EXCEPT !.constants = "none", !.lib = n, !.source = "module",
                                        !.hidden = 0, !.declared = FALSE]
    <3>1. st.lib + 1 \in Nat BY <1>4 DEF State
    <3> QED BY <3>1
  <2> HIDE DEF s
  <2>3. s \in State /\ Aligned(s)
    <3>1. s \in State /\ s.hidden = 0 BY <1>4, <2>2 DEF State
    <3> QED BY <3>1 DEF Aligned
  <2>4. WithinModule(s, st) BY <1>4, <2>2 DEF State, WithinModule
  <2>5. Within(f, s)
    <3> HIDE DEF f
    <3> QED BY <2>1, <2>4 DEF Within, Waits
  <2>6. Rests(gs, s) /\ gs[Len(gs)] = f BY <1>1, <1>2, <2>1, <2>3, <2>5, RunFacts, TurnRests DEF Waits
  <2> HIDE DEF f, gs
  <2> QED BY <1>1, <1>3, <1>6, <2>1, <2>3, <2>6, InPlaceKeeps
<1> QED BY <1>5, <1>6 DEF EvalModule

LEMMA ReturnFromModuleStep ==
  ASSUME IInv, ReturnFromModule PROVE IInv' /\ Same(st', Top.orig)
<1> DEFINE o == Top.orig
<1>1. frames # <<>> /\ Top.kind = "module" /\ out # "Run" BY DEF ReturnFromModule, At
<1>2. ops' \in Nat /\ mods' \in Nat BY DEF IInv, TypeOK, ReturnFromModule
<1>3. Len(frames) > 1 /\ Under.kind \in Codes \cup Waits /\ Within(Under, o) /\ Under \in Frame
  BY <1>1, UnderCode, UnderFacts DEF Units
<1>4. out \in {"Ok"} \cup Errors BY <1>1, TopFacts DEF Travels
<1>5. st \in State /\ o \in State BY <1>1, TopFacts DEF IInv, TypeOK
<1>6. WithinModule(st, o) /\ Aligned(o) BY <1>1, TopFacts DEF Within
<1>7. st' = RestoredModule(st, o, out = "Ok") BY DEF ReturnFromModule, Leave
<1> HIDE DEF o
<1>8. PICK m \in Nat, n \in Nat, i \in Nat :
        /\ m >= o.scope
        /\ i >= o.imports
        /\ out = "Ok" => n = o.hidden
        /\ st' = [st EXCEPT !.scope = m, !.hidden = n, !.imports = i,
                            !.constants = o.constants, !.declared = o.declared,
                            !.lib = o.lib, !.source = o.source]
  <2> DEFINE m == IF out = "Ok" THEN o.scope ELSE st.scope
             n == IF out = "Ok" THEN o.hidden ELSE o.hidden + (st.scope - o.scope)
             i == IF out = "Ok" THEN o.imports + 1 ELSE o.imports
  <2>1. m \in Nat /\ m >= o.scope /\ n \in Nat /\ i \in Nat /\ i >= o.imports
    BY <1>5, <1>6 DEF WithinModule, State
  <2>2. out = "Ok" => n = o.hidden OBVIOUS
  <2>3. st' = [st EXCEPT !.scope = m, !.hidden = n, !.imports = i,
                         !.constants = o.constants, !.declared = o.declared,
                         !.lib = o.lib, !.source = o.source]
    BY <1>7 DEF RestoredModule
  <2> HIDE DEF m, n, i
  <2> QED BY <2>1, <2>2, <2>3
<1>9. st' \in State BY <1>5, <1>8 DEF State
<1>10. /\ st'.scope = m /\ st'.imports = i /\ st'.hidden = n
       /\ st'.scope_level = st.scope_level /\ st'.constants = o.constants
       /\ st'.lib = o.lib /\ st'.source = o.source /\ st'.call_stack = st.call_stack
       /\ st'.level = st.level /\ st'.declared = o.declared
       /\ st'.always_search_scope = st.always_search_scope
  BY <1>5, <1>8 DEF State
<1>11. Same(st', o) BY <1>6, <1>8, <1>10 DEF WithinModule, Same, Carries
<1>12. out = "Ok" => Aligned(st') BY <1>6, <1>8, <1>10 DEF WithinModule, Aligned
<1>13. Within(Under, st') BY <1>3, <1>5, <1>9, <1>10, <1>11, StillWithin
<1>14. /\ Resume(FromModule(out)) \in Outcomes \ {"Break", "Continue"}
       /\ Resume(FromModule(out)) \notin Errors => out = "Ok"
  BY <1>4 DEF Resume, FromModule, is_system_exception, Outcomes, Errors
<1>15. Leave(Resume(FromModule(out)), st') BY <1>7 DEF ReturnFromModule, Leave, o
<1> QED BY <1>1, <1>2, <1>3, <1>9, <1>11, <1>12, <1>13, <1>14, <1>15, LeaveStatement DEF o

-----------------------------------------------------------------------------
\* The whole next-state relation.
LEMMA NextKeeps ==
  ASSUME "debugger" \notin Features, IInv, [Next]_vars PROVE IInv'
<1>1. CASE UNCHANGED vars BY <1>1 DEF vars, IInv, TypeOK, Top
<1>2. CASE Step
  BY <1>2, PlainSteps, BlockStep, LeaveBlockStep, LeaveInPlaceStep, PropagateStep, VarStep,
     DefineStep, LoopStep, ConditionStep, LoopBodyStep, ForStep, IterableStep, ForBodyStep,
     TryCatchStep, TryBodyStep, CatchBodyStep, CallStep, ReturnStep, EvalStep,
     ReturnFromEvalStep, ImportStep, LoadedStep, EvalModuleStep, ReturnFromModuleStep
  DEF Step
<1> QED BY <1>1, <1>2 DEF Next, Done

LEMMA InitHolds ==
  ASSUME Init PROVE IInv
<1> DEFINE f == InPlace(Start, "whole")
<1>1. f \in Frame /\ f.kind = "inplace" /\ f.orig = Start /\ f.brk = FALSE
  BY StartState DEF InPlace, Frame, Kinds, Codes
<1>2. Aligned(Start) BY DEF Aligned, Start
<1> HIDE DEF f
<1>3. Within(f, Start) BY <1>1, StartState, SameReflexive DEF Within, Waits, InPlace, f
<1>4. frames = <<f>> /\ st = Start /\ out = "Run" /\ ops = 0 /\ mods = 0 BY DEF Init, f
<1>5. frames \in Seq(Frame) /\ Len(frames) = 1 /\ frames[1] = f BY <1>1, <1>4
<1>6. Stacked(frames, st) BY <1>1, <1>2, <1>3, <1>4, <1>5 DEF Stacked
<1>7. Travels(out, Top, st) /\ frames # <<>> BY <1>1, <1>2, <1>4, <1>5 DEF Travels, Top, Codes
<1> QED BY <1>4, <1>5, <1>6, <1>7, StartState DEF IInv, TypeOK, Outcomes

\* In every state the stack is as each of its frames, the state and the outcome expect.
THEOREM StackIsCoherent ==
  ASSUME "debugger" \notin Features PROVE Spec => []IInv
<1>1. Init => IInv BY InitHolds
<1>2. IInv /\ [Next]_vars => IInv' BY NextKeeps
<1> QED BY <1>1, <1>2, PTL DEF Spec

\* State, frames and outcome have their types (Scope, GlobalRuntimeState, RhaiResult).
THEOREM TypeCorrect ==
  ASSUME "debugger" \notin Features PROVE Spec => []TypeOK
<1>1. IInv => TypeOK BY DEF IInv
<1> QED BY <1>1, StackIsCoherent, PTL

\* `break` and `continue` never leave a function, an eval, a module or a script.
THEOREM BreakStaysInside ==
  ASSUME "debugger" \notin Features PROVE Spec => []LoopBreakStaysInside
<1>1. IInv => LoopBreakStaysInside
  <2>1. ASSUME IInv, out \in {"Break", "Continue"}
        PROVE  frames # <<>> /\ Top.kind \notin {"call", "eval", "module", "inplace"}
    <3>1. frames # <<>> BY <2>1 DEF IInv
    <3> QED BY <2>1, <3>1, TopFacts DEF Travels, Loops, Units
  <2> QED BY <2>1 DEF LoopBreakStaysInside
<1> QED BY <1>1, StackIsCoherent, PTL

\* Running code never has a variable or import in scope that its parser could not count,
\* unless names are searched for.
THEOREM NoHiddenVariables ==
  ASSUME "debugger" \notin Features PROVE Spec => []AlignedOrSearched
<1>1. IInv => AlignedOrSearched
  <2>1. ASSUME IInv, out = "Run" PROVE Aligned(st)
    <3>1. frames # <<>> BY <2>1 DEF IInv
    <3> QED BY <2>1, <3>1, TopFacts DEF Travels, Errors
  <2> QED BY <2>1 DEF AlignedOrSearched, Aligned
<1> QED BY <1>1, StackIsCoherent, PTL

-----------------------------------------------------------------------------
\* Leaving a frame.
LEMMA SameTransitive ==
  ASSUME NEW s \in State, NEW t \in State, NEW u \in State, Same(s, t), Same(t, u)
  PROVE  Same(s, u)
BY DEF Same, Carries, State

LEMMA SameIsClean ==
  ASSUME NEW s \in State, NEW o \in State, Same(s, o) PROVE SameBut(s, o)
BY DEF Same, Carries, SameBut, State

\* A step that puts something on the stack does not make it shorter.
LEMMA PushIsLonger ==
  ASSUME frames \in Seq(Frame), frames # <<>>, NEW f, NEW g, NEW h
  PROVE  /\ ~ (Len(Append(frames, f)) < Len(frames))
         /\ ~ (Len(Append(Append(frames, f), g)) < Len(frames))
         /\ ~ (Len([frames EXCEPT ![Len(frames)] = h]) < Len(frames))
         /\ ~ (Len(Append([frames EXCEPT ![Len(frames)] = h], f)) < Len(frames))
<1> DEFINE T == Frame \cup {f, g, h}
           hs == [frames EXCEPT ![Len(frames)] = h]
<1>1. frames \in Seq(T) /\ Len(frames) \in Nat BY SeqMonotonic, LenProperties
<1>2. hs \in Seq(T) /\ Len(hs) = Len(frames)
  <2>1. Len(frames) \in 1..Len(frames) /\ h \in T BY <1>1, EmptySeq
  <2> QED BY <1>1, <2>1, ExceptSeq
<1> HIDE DEF hs
<1>3. Append(frames, f) \in Seq(T) /\ Len(Append(frames, f)) = Len(frames) + 1 BY <1>1, AppendProperties
<1>4. Len(Append(Append(frames, f), g)) = Len(frames) + 2 BY <1>1, <1>3, AppendProperties
<1>5. Len(Append(hs, f)) = Len(frames) + 1 BY <1>1, <1>2, AppendProperties
<1> QED BY <1>1, <1>2, <1>3, <1>4, <1>5 DEF hs

LEMMA PushesAreLonger ==
  ASSUME IInv,
         \/ track_operation \/ Simple \/ Throw \/ Stmt_Return \/ exit \/ Stmt_BreakLoop
         \/ EndOfStatements \/ Stmt_Block \/ Stmt_Var \/ Stmt_Loop \/ Stmt_For \/ Iterable
         \/ Stmt_TryCatch \/ call_script_fn \/ eval \/ Stmt_Import
  PROVE  ~ (Len(frames') < Len(frames))
<1>1. frames \in Seq(Frame) /\ Len(frames) \in Nat BY LenProperties DEF IInv, TypeOK
<1>2. CASE UNCHANGED frames BY <1>1, <1>2
<1>3. CASE ~ UNCHANGED frames
  <2>1. frames # <<>>
    BY <1>3 DEF track_operation, Simple, Throw, Stmt_Return, exit, Stmt_BreakLoop,
           EndOfStatements, Stmt_Block, Stmt_Var, Stmt_Loop, Stmt_For, Iterable, Stmt_TryCatch,
           call_script_fn, eval, Stmt_Import, InCode, InExpr, At
  <2>2. \/ \E f : frames' = Append(frames, f)
        \/ \E f, g : frames' = Append(Append(frames, f), g)
        \/ \E h : frames' = [frames EXCEPT ![Len(frames)] = h]
    BY <1>3, Zenon
    DEF track_operation, Simple, Throw, Stmt_Return, exit, Stmt_BreakLoop, EndOfStatements,
        Raise, Stmt_Block, Stmt_Var, Stmt_Loop, Stmt_For, Iterable, Stmt_TryCatch,
        call_script_fn, eval, Stmt_Import, RunBlock
  <2> QED BY <1>1, <2>1, <2>2, PushIsLonger
<1> QED BY <1>2, <1>3

LEMMA TurnsAreLonger ==
  ASSUME IInv, frames # <<>>, Condition \/ LoopBody \/ ForBody \/ TryBody \/ EvalModule,
         Len(frames') < Len(frames)
  PROVE  \E o, s : Leave(o, s) /\ (Top.kind # "forbody" => s = st)
                               /\ (Top.kind = "forbody" => s = Rewound(st, Top.orig))
<1>1. frames \in Seq(Frame) BY DEF IInv, TypeOK
<1>2. /\ ~ \E f : frames' = Append(frames, f)
      /\ ~ \E h : frames' = [frames EXCEPT ![Len(frames)] = h]
      /\ ~ \E h, f : frames' = Append([frames EXCEPT ![Len(frames)] = h], f)
  BY <1>1, PushIsLonger
<1>3. ASSUME NEW k PROVE frames' # [frames EXCEPT ![Len(frames)].kind = k]
  <2>1. [frames EXCEPT ![Len(frames)].kind = k]
          = [frames EXCEPT ![Len(frames)] = [frames[Len(frames)] EXCEPT !.kind = k]]
    OBVIOUS
  <2> QED BY <1>2, <2>1, Zenon
<1>4. ASSUME NEW k, NEW f PROVE frames' # Append([frames EXCEPT ![Len(frames)].kind = k], f)
  <2>1. [frames EXCEPT ![Len(frames)].kind = k]
          = [frames EXCEPT ![Len(frames)] = [frames[Len(frames)] EXCEPT !.kind = k]]
    OBVIOUS
  <2> QED BY <1>2, <2>1, Zenon
<1>5. CASE Condition BY <1>4, <1>5, Zenon DEF Condition, RunBlock, At
<1>6. CASE LoopBody BY <1>2, <1>3, <1>6, Zenon DEF LoopBody, RunBlock, At
<1>7. CASE ForBody BY <1>2, <1>7, Zenon DEF ForBody, RunBlock, At
<1>8. CASE TryBody BY <1>2, <1>8, Zenon DEF TryBody, RunBlock, At
<1>9. CASE EvalModule BY <1>2, <1>9, Zenon DEF EvalModule, At
<1> QED BY <1>5, <1>6, <1>7, <1>8, <1>9

LEMMA LeavingIsClean ==
  ASSUME "debugger" \notin Features, IInv, Step, Len(frames') < Len(frames), frames' # <<>>
  PROVE  IF Top.kind \in Traceless THEN st' = Top.orig ELSE SameBut(st', Top.orig)
<1>1. frames # <<>>
  <2>1. Len(frames) # 0 BY LenProperties, NextKeeps DEF IInv, TypeOK, Next
  <2> QED BY <2>1, EmptySeq
<1>2. st \in State /\ Top.orig \in State /\ st' \in State
  BY <1>1, TopFacts, NextKeeps DEF IInv, TypeOK, Next
<1>3. ASSUME Top.kind \notin Traceless, Same(st', Top.orig)
      PROVE  IF Top.kind \in Traceless THEN st' = Top.orig ELSE SameBut(st', Top.orig)
  BY <1>2, <1>3, SameIsClean
<1>4. CASE LeaveBlock BY <1>1, <1>4, LeftClean DEF LeaveBlock, Leave, At, Traceless
<1>5. CASE ReturnFromCall BY <1>1, <1>5, LeftClean DEF ReturnFromCall, Leave, At, Traceless
<1>6. CASE CatchBody BY <1>1, <1>6, LeftClean DEF CatchBody, Leave, At, Traceless
<1>7. CASE LeaveInPlace BY <1>1, <1>3, <1>7, TopFacts DEF LeaveInPlace, Leave, At, Traceless, Within
<1>8. CASE Propagate BY <1>1, <1>3, <1>8, UnderWait DEF Propagate, Leave, At, Traceless, Waits
<1>9. CASE DefineVar \/ LoadedModule
  <2>1. Same(st', st) /\ Top.kind \in {"let", "path"}
    BY <1>9, DefineStep, LoadedStep DEF DefineVar, LoadedModule, At
  <2>2. Same(st, Top.orig) BY <1>1, <2>1, UnderWait DEF Waits
  <2>3. Same(st', Top.orig) BY <1>2, <2>1, <2>2, SameTransitive
  <2> QED BY <1>3, <2>1, <2>3 DEF Traceless
<1>10. CASE ReturnFromEval \/ ReturnFromModule
  BY <1>3, <1>10, ReturnFromEvalStep, ReturnFromModuleStep
  DEF ReturnFromEval, ReturnFromModule, At, Traceless
<1>11. CASE ForBody
  <2>1. Top.kind = "forbody" /\ st' = Rewound(st, Top.orig)
    BY <1>1, <1>11, TurnsAreLonger DEF ForBody, At, Leave
  <2> QED BY <1>1, <2>1, LeftClean DEF Traceless
<1>12. CASE Condition \/ LoopBody \/ TryBody \/ EvalModule
  <2>1. Top.kind \in {"cond", "body", "try", "path"}
    BY <1>12 DEF Condition, LoopBody, TryBody, EvalModule, At
  <2>2. st' = st BY <1>1, <1>12, <2>1, TurnsAreLonger DEF Leave
  <2>3. Same(st, Top.orig) BY <1>1, <1>2, <2>1, UnderWait, TopFacts, SameReflexive DEF Waits, Within
  <2> QED BY <1>3, <2>1, <2>2, <2>3 DEF Traceless
<1> QED BY <1>4, <1>5, <1>6, <1>7, <1>8, <1>9, <1>10, <1>11, <1>12, PushesAreLonger DEF Step

\* However a frame is left, the code outside it finds the state it knew.
THEOREM FramesAreLeftClean ==
  ASSUME "debugger" \notin Features PROVE Spec => ExitsAreClean
<1> DEFINE Clean == Len(frames') < Len(frames) /\ frames' # <<>> =>
                      IF Top.kind \in Traceless THEN st' = Top.orig
                                                ELSE SameBut(st', Top.orig)
<1>1. IInv /\ [Next]_vars => [Clean]_vars BY LeavingIsClean DEF Next, Done
<1>2. Spec => [][Clean]_vars BY <1>1, StackIsCoherent, PTL DEF Spec
<1> QED BY <1>2 DEF ExitsAreClean

-----------------------------------------------------------------------------
(* The second part: what GlobalRuntimeState counts and keeps, for every script, every limit and
   every depth of nesting, as long as no debugger is registered.

   A counter is restored from what a frame saved, or counted down.  Both give the right number
   only if every frame on the stack was entered with the right one: the invariant says of each
   frame that the state it saved counts the frames below it. *)

\* How many of the first n frames are of the kinds ks.
Depth(fs, ks, n) == Cardinality({i \in 1..n : fs[i].kind \in ks})

Leveled == {"call", "eval"}

\* The state s records what the first n frames of fs say.
Recorded(fs, n, s) ==
  /\ s.level = Depth(fs, Leveled, n)
  /\ s.scope_level = Depth(fs, {"block"}, n)
  /\ s.declared /\ s.scope_level = 0 => s.constants # "none"

Books(fs, s) ==
  /\ \A i \in 1..Len(fs) : Recorded(fs, i - 1, fs[i].orig)
  /\ Recorded(fs, Len(fs), s)
  /\ Depth(fs, {"call"}, Len(fs)) <= MaxLevels

SInv == IInv /\ Books(frames, st)

-----------------------------------------------------------------------------
\* Lemmas on counting frames.
LEMMA DepthNat ==
  ASSUME NEW fs, NEW ks, NEW n \in Nat
  PROVE  /\ Depth(fs, ks, n) \in Nat
         /\ IsFiniteSet({i \in 1..n : fs[i].kind \in ks})
<1>1. IsFiniteSet(1..n) BY FS_Interval
<1>2. {i \in 1..n : fs[i].kind \in ks} \in SUBSET (1..n) OBVIOUS
<1>3. IsFiniteSet({i \in 1..n : fs[i].kind \in ks}) BY <1>1, <1>2, FS_Subset
<1> QED BY <1>3, FS_CardinalityType DEF Depth

LEMMA DepthStep ==
  ASSUME NEW fs, NEW ks, NEW n \in Nat
  PROVE  Depth(fs, ks, n + 1) = Depth(fs, ks, n) + IF fs[n + 1].kind \in ks THEN 1 ELSE 0
<1> DEFINE S == {i \in 1..n : fs[i].kind \in ks}
           T == {i \in 1..(n + 1) : fs[i].kind \in ks}
<1>1. IsFiniteSet(S) /\ Cardinality(S) \in Nat BY DepthNat DEF Depth
<1>2. 1..(n + 1) = (1..n) \cup {n + 1} /\ n + 1 \notin 1..n OBVIOUS
<1>3. CASE fs[n + 1].kind \in ks
  <2>1. T = S \cup {n + 1} /\ n + 1 \notin S BY <1>2, <1>3
  <2> HIDE DEF S, T
  <2>2. Cardinality(T) = Cardinality(S) + 1 BY <1>1, <2>1, FS_AddElement
  <2> QED BY <1>3, <2>2 DEF Depth, S, T
<1>4. CASE fs[n + 1].kind \notin ks
  <2>1. T = S BY <1>2, <1>4
  <2> HIDE DEF S, T
  <2>2. Cardinality(T) = Cardinality(S) + 0 BY <1>1, <2>1
  <2> QED BY <1>4, <2>2 DEF Depth, S, T
<1> QED BY <1>3, <1>4

LEMMA DepthSkips ==
  ASSUME NEW fs, NEW ks, NEW n \in Nat, fs[n + 1].kind \notin ks
  PROVE  Depth(fs, ks, n + 1) = Depth(fs, ks, n)
<1>1. Depth(fs, ks, n) \in Nat BY DepthNat
<1>2. Depth(fs, ks, n + 1) = Depth(fs, ks, n) + 0 BY DepthStep
<1> QED BY <1>1, <1>2

LEMMA DepthGrows ==
  ASSUME NEW fs, NEW ks, NEW n \in Nat
  PROVE  /\ Depth(fs, ks, n) \in Nat
         /\ Depth(fs, ks, n + 1) \in Nat
         /\ Depth(fs, ks, n) <= Depth(fs, ks, n + 1)
<1>1. Depth(fs, ks, n) \in Nat /\ Depth(fs, ks, n + 1) \in Nat
  <2>1. n + 1 \in Nat OBVIOUS
  <2> QED BY <2>1, DepthNat
<1>2. \/ Depth(fs, ks, n + 1) = Depth(fs, ks, n) + 1
      \/ Depth(fs, ks, n + 1) = Depth(fs, ks, n) + 0
  BY DepthStep
<1> QED BY <1>1, <1>2

LEMMA DepthSame ==
  ASSUME NEW fs, NEW gs, NEW ks, NEW n \in Nat,
         \A i \in 1..n : fs[i].kind \in ks <=> gs[i].kind \in ks
  PROVE  Depth(fs, ks, n) = Depth(gs, ks, n)
<1>1. {i \in 1..n : fs[i].kind \in ks} = {i \in 1..n : gs[i].kind \in ks} OBVIOUS
<1> QED BY <1>1 DEF Depth

\* There are at least as many calls and evals as there are calls.
LEMMA CallsAreLeveled ==
  ASSUME NEW fs, NEW n \in Nat
  PROVE  Depth(fs, {"call"}, n) <= Depth(fs, Leveled, n)
<1> DEFINE S == {i \in 1..n : fs[i].kind \in {"call"}}
           T == {i \in 1..n : fs[i].kind \in Leveled}
<1>1. S \in SUBSET T BY DEF Leveled
<1>2. IsFiniteSet(T) BY DepthNat
<1> HIDE DEF S, T
<1>3. Cardinality(S) <= Cardinality(T) BY <1>1, <1>2, FS_Subset
<1> QED BY <1>3 DEF Depth, S, T

LEMMA RecordedSame ==
  ASSUME NEW fs, NEW gs, NEW n \in Nat, NEW s, Recorded(fs, n, s),
         \A i \in 1..n : /\ fs[i].kind \in Leveled <=> gs[i].kind \in Leveled
                         /\ fs[i].kind = "block" <=> gs[i].kind = "block"
  PROVE  Recorded(gs, n, s)
<1>1. Depth(fs, Leveled, n) = Depth(gs, Leveled, n) BY DepthSame
<1>2. Depth(fs, {"block"}, n) = Depth(gs, {"block"}, n) BY DepthSame
<1> QED BY <1>1, <1>2 DEF Recorded

\* The state t that the frame f, entered in the state s, leads to.
Moves(f, s, t) ==
  /\ t.level = s.level + IF f.kind \in Leveled THEN 1 ELSE 0
  /\ t.scope_level = s.scope_level + IF f.kind = "block" THEN 1 ELSE 0
  /\ t.declared /\ t.scope_level = 0 => t.constants # "none"

LEMMA PushBooks ==
  ASSUME NEW fs \in Seq(Frame), NEW s, Books(fs, s), NEW f \in Frame, f.orig = s,
         NEW t, Moves(f, s, t),
         f.kind = "call" => s.level + 1 <= MaxLevels
  PROVE  Books(Append(fs, f), t)
<1> DEFINE gs == Append(fs, f)
           n  == Len(fs)
<1>1. /\ n \in Nat /\ Len(gs) = n + 1
      /\ gs[n + 1] = f /\ \A i \in 1..n : gs[i] = fs[i]
  BY AppendProperties, LenProperties
<1> HIDE DEF gs
<1>2. ASSUME NEW i \in 1..n PROVE Recorded(gs, i - 1, gs[i].orig)
  <2>1. i - 1 \in Nat /\ \A j \in 1..(i - 1) : gs[j] = fs[j] BY <1>1
  <2>2. Recorded(fs, i - 1, fs[i].orig) BY DEF Books
  <2> QED BY <1>1, <2>1, <2>2, RecordedSame
<1>3. Recorded(gs, n, s) BY <1>1, RecordedSame DEF Books
<1>4. Recorded(gs, n + 1, t)
  <2>1. /\ Depth(gs, Leveled, n + 1) = s.level + IF f.kind \in Leveled THEN 1 ELSE 0
        /\ Depth(gs, {"block"}, n + 1) = s.scope_level + IF f.kind = "block" THEN 1 ELSE 0
    BY <1>1, <1>3, DepthStep DEF Recorded
  <2> QED BY <2>1 DEF Recorded, Moves
<1>5. Depth(gs, {"call"}, n + 1) <= MaxLevels
  <2>1. Depth(gs, {"call"}, n) = Depth(fs, {"call"}, n) BY <1>1, DepthSame
  <2>2. Depth(gs, {"call"}, n) <= s.level /\ s.level \in Nat /\ Depth(gs, {"call"}, n) \in Nat
    BY <1>1, <1>3, CallsAreLeveled, DepthNat DEF Recorded
  <2>3. Depth(gs, {"call"}, n) <= MaxLevels BY <2>1 DEF Books
  <2>4. Depth(gs, {"call"}, n + 1)
          = Depth(gs, {"call"}, n) + IF f.kind = "call" THEN 1 ELSE 0
    BY <1>1, DepthStep
  <2> QED BY <2>2, <2>3, <2>4, EvaluatorAssumption
<1>6. ASSUME NEW i \in 1..Len(gs) PROVE Recorded(gs, i - 1, gs[i].orig)
  <2>1. CASE i \in 1..n BY <1>2, <2>1
  <2>2. CASE i = n + 1 BY <1>1, <1>3, <2>2
  <2> QED BY <1>1, <2>1, <2>2
<1>7. Books(gs, t) BY <1>1, <1>4, <1>5, <1>6 DEF Books
<1> QED BY <1>7 DEF gs

LEMMA PopBooks ==
  ASSUME NEW fs \in Seq(Frame), fs # <<>>, NEW s, Books(fs, s),
         NEW t, Recorded(fs, Len(fs) - 1, t)
  PROVE  Books(SubSeq(fs, 1, Len(fs) - 1), t)
<1> DEFINE gs == SubSeq(fs, 1, Len(fs) - 1)
           n  == Len(fs) - 1
<1>1. n \in Nat /\ Len(fs) = n + 1 /\ \A i \in 1..n : fs[i] \in Frame
  BY EmptySeq, LenProperties, ElementOfSeq
<1>2. Len(gs) = n /\ \A i \in 1..n : gs[i] = fs[i] BY <1>1, SubSeqProperties
<1> HIDE DEF gs, n
<1>3. ASSUME NEW i \in 1..n PROVE Recorded(gs, i - 1, gs[i].orig)
  <2>1. i - 1 \in Nat /\ \A j \in 1..(i - 1) : gs[j] = fs[j] BY <1>1, <1>2
  <2>2. Recorded(fs, i - 1, fs[i].orig) BY <1>1 DEF Books
  <2> QED BY <1>2, <2>1, <2>2, RecordedSame
<1>4. Recorded(gs, n, t) BY <1>1, <1>2, RecordedSame DEF n
<1>5. Depth(gs, {"call"}, n) <= MaxLevels
  <2>1. Depth(gs, {"call"}, n) = Depth(fs, {"call"}, n) BY <1>1, <1>2, DepthSame
  <2>2. Depth(fs, {"call"}, n) <= Depth(fs, {"call"}, n + 1)
        /\ Depth(fs, {"call"}, n) \in Nat /\ Depth(fs, {"call"}, n + 1) \in Nat
    BY <1>1, DepthGrows
  <2>3. Depth(fs, {"call"}, n + 1) <= MaxLevels BY <1>1 DEF Books
  <2> QED BY <2>1, <2>2, <2>3, EvaluatorAssumption
<1>6. Books(gs, t) BY <1>2, <1>3, <1>4, <1>5 DEF Books
<1> QED BY <1>6 DEF gs, n

\* The state that the frame on top was entered in is recorded without it.
LEMMA OrigRecorded ==
  ASSUME NEW fs \in Seq(Frame), fs # <<>>, NEW s, Books(fs, s)
  PROVE  Recorded(fs, Len(fs) - 1, fs[Len(fs)].orig)
<1>1. Len(fs) \in 1..Len(fs) BY EmptySeq, LenProperties
<1> QED BY <1>1 DEF Books

\* A frame that is not counted may go, as far as the counters are concerned.
LEMMA StateRecorded ==
  ASSUME NEW fs \in Seq(Frame), fs # <<>>, NEW s, Books(fs, s),
         fs[Len(fs)].kind \notin Leveled \cup {"block"}
  PROVE  Recorded(fs, Len(fs) - 1, s)
<1> DEFINE n == Len(fs) - 1
<1>1. n \in Nat /\ Len(fs) = n + 1 BY EmptySeq, LenProperties
<1>2. Recorded(fs, n + 1, s) /\ fs[n + 1].kind \notin Leveled \cup {"block"} BY <1>1 DEF Books
<1>3. /\ Depth(fs, Leveled, n + 1) = Depth(fs, Leveled, n)
      /\ Depth(fs, {"block"}, n + 1) = Depth(fs, {"block"}, n)
  BY <1>1, <1>2, DepthSkips
<1> QED BY <1>2, <1>3 DEF Recorded

LEMMA ReplaceBooks ==
  ASSUME NEW fs \in Seq(Frame), fs # <<>>, NEW s, Books(fs, s),
         NEW f \in Frame, {f.kind, fs[Len(fs)].kind} \cap (Leveled \cup {"block"}) = {},
         f.orig \in {fs[Len(fs)].orig, s},
         NEW t, Recorded(fs, Len(fs) - 1, t)
  PROVE  Books([fs EXCEPT ![Len(fs)] = f], t)
<1> DEFINE gs == [fs EXCEPT ![Len(fs)] = f]
           n  == Len(fs) - 1
<1>1. n \in Nat /\ Len(fs) = n + 1 BY EmptySeq, LenProperties
<1>2. /\ Len(gs) = n + 1
      /\ gs[n + 1] = f
      /\ \A i \in 1..n : gs[i] = fs[i]
  <2>1. Len(fs) \in 1..Len(fs) BY <1>1
  <2>2. Len(gs) = Len(fs) /\ \A i \in 1..Len(fs) : gs[i] = IF i = Len(fs) THEN f ELSE fs[i]
    BY <2>1, ExceptSeq
  <2> HIDE DEF gs, n
  <2> QED BY <1>1, <2>2
<1>3. Recorded(fs, n, f.orig) BY OrigRecorded, StateRecorded
<1>k. f.kind \notin Leveled \cup {"block"} /\ fs[n + 1].kind \notin Leveled \cup {"block"} BY <1>1
<1> HIDE DEF gs, n
<1>4. ASSUME NEW i \in 1..n PROVE Recorded(gs, i - 1, gs[i].orig)
  <2>1. i - 1 \in Nat /\ \A j \in 1..(i - 1) : gs[j] = fs[j] BY <1>1, <1>2
  <2>2. Recorded(fs, i - 1, fs[i].orig) BY <1>1 DEF Books
  <2> QED BY <1>2, <2>1, <2>2, RecordedSame
<1>5. Recorded(gs, n, f.orig) /\ Recorded(gs, n, t) BY <1>1, <1>2, <1>3, RecordedSame DEF n
<1>6. Recorded(gs, n + 1, t)
  <2>1. /\ Depth(gs, Leveled, n + 1) = Depth(gs, Leveled, n)
        /\ Depth(gs, {"block"}, n + 1) = Depth(gs, {"block"}, n)
    BY <1>1, <1>2, <1>k, DepthSkips
  <2> QED BY <1>5, <2>1 DEF Recorded
<1>7. Depth(gs, {"call"}, n + 1) <= MaxLevels
  <2>1. \A i \in 1..(n + 1) : gs[i].kind \in {"call"} <=> fs[i].kind \in {"call"}
    <3>1. gs[n + 1].kind # "call" /\ fs[n + 1].kind # "call" BY <1>2, <1>k DEF Leveled
    <3>2. \A i \in 1..(n + 1) : i \in 1..n \/ i = n + 1 BY <1>1
    <3> QED BY <1>2, <3>1, <3>2
  <2>2. Depth(gs, {"call"}, n + 1) = Depth(fs, {"call"}, n + 1) BY <1>1, <2>1, DepthSame
  <2> QED BY <1>1, <2>2 DEF Books
<1>8. ASSUME NEW i \in 1..Len(gs) PROVE Recorded(gs, i - 1, gs[i].orig)
  <2>1. CASE i \in 1..n BY <1>4, <2>1
  <2>2. CASE i = n + 1 BY <1>1, <1>2, <1>5, <2>2
  <2> QED BY <1>1, <1>2, <2>1, <2>2
<1>9. Books(gs, t) BY <1>2, <1>6, <1>7, <1>8 DEF Books
<1> QED BY <1>9 DEF gs

-----------------------------------------------------------------------------
\* How the actions change what is recorded.
LEMMA SFacts ==
  ASSUME SInv
  PROVE  /\ IInv /\ Books(frames, st)
         /\ frames \in Seq(Frame) /\ st \in State
         /\ Recorded(frames, Len(frames), st)
BY DEF SInv, IInv, TypeOK, Books

LEMMA SameRecord ==
  ASSUME NEW fs, NEW n, NEW s, Recorded(fs, n, s),
         NEW t, t.level = s.level, t.scope_level = s.scope_level,
         t.declared /\ t.scope_level = 0 => t.constants # "none"
  PROVE  Recorded(fs, n, t)
BY DEF Recorded

\* A frame that is not counted is entered in the state s and changes nothing.
LEMMA PlainPush ==
  ASSUME NEW fs \in Seq(Frame), NEW s \in State, Books(fs, s), NEW f \in Frame, f.orig = s,
         f.kind \notin Leveled \cup {"block"}
  PROVE  Books(Append(fs, f), s)
<1>1. s.level + 0 = s.level /\ s.scope_level + 0 = s.scope_level BY DEF State
<1>2. s.declared /\ s.scope_level = 0 => s.constants # "none" BY DEF Books, Recorded
<1>3. Moves(f, s, s) BY <1>1, <1>2 DEF Moves
<1> QED BY <1>3, PushBooks DEF Leveled

LEMMA BlockBooks ==
  ASSUME NEW fs \in Seq(Frame), NEW s \in State, Books(fs, s), NEW b \in BOOLEAN,
         RunBlock(fs, s, b)
  PROVE  Books(frames, st)'
<1> DEFINE f == Block(s, b)
           t == [s EXCEPT !.scope_level = @ + 1]
<1>1. f \in Frame /\ f.orig = s /\ f.kind = "block" BY DEF Block, Frame, Kinds, Codes
<1>2. t.level = s.level + 0 /\ t.scope_level = s.scope_level + 1 /\ t.scope_level # 0 BY DEF State
<1>3. Moves(f, s, t) BY <1>1, <1>2 DEF Moves, Leveled
<1> HIDE DEF f, t
<1>4. Books(Append(fs, f), t) BY <1>1, <1>3, PushBooks
<1> QED BY <1>4 DEF RunBlock, f, t

LEMMA LeaveBooks ==
  ASSUME SInv, frames # <<>>, frames' = Popped, Recorded(frames, Len(frames) - 1, st')
  PROVE  Books(frames, st)'
BY SFacts, PopBooks DEF Popped

\* The frame on top goes, with what it did to variables, imports and the search flag.
LEMMA LeavePlain ==
  ASSUME SInv, frames # <<>>, Top.kind \notin Leveled \cup {"block"}, frames' = Popped,
         st'.level = st.level, st'.scope_level = st.scope_level,
         st'.declared /\ st'.scope_level = 0 => st'.constants # "none"
  PROVE  Books(frames, st)'
<1>1. Recorded(frames, Len(frames) - 1, st) BY SFacts, StateRecorded DEF Top
<1> QED BY <1>1, SameRecord, LeaveBooks

LEMMA LeaveAsWas ==
  ASSUME SInv, frames # <<>>, Top.kind \notin Leveled \cup {"block"}, frames' = Popped, st' = st
  PROVE  Books(frames, st)'
BY LeavePlain, SFacts DEF Recorded

LEMMA LeaveToOrig ==
  ASSUME SInv, frames # <<>>, frames' = Popped, st' = Top.orig
  PROVE  Books(frames, st)'
BY SFacts, OrigRecorded, LeaveBooks DEF Top

LEMMA PlainBooks ==
  ASSUME SInv, UNCHANGED <<frames, st>>
  PROVE  Books(frames, st)'
BY SFacts

-----------------------------------------------------------------------------
\* One lemma for the actions of each statement.
LEMMA PlainStepBooks ==
  ASSUME SInv,
         \/ track_operation \/ Simple \/ Throw \/ Stmt_Return \/ exit
         \/ Stmt_BreakLoop \/ EndOfStatements \/ Done
  PROVE  Books(frames, st)'
<1>1. UNCHANGED <<frames, st>>
  BY DEF track_operation, Simple, Throw, Stmt_Return, exit, Stmt_BreakLoop, EndOfStatements,
         Done, Raise, vars
<1> QED BY <1>1, PlainBooks

LEMMA BlockStepBooks ==
  ASSUME SInv, Stmt_Block \/ LeaveBlock
  PROVE  Books(frames, st)'
<1>1. CASE Stmt_Block BY <1>1, SFacts, RunFacts, BlockBooks DEF Stmt_Block
<1>2. CASE LeaveBlock BY <1>2, SFacts, LeftClean, LeaveToOrig DEF LeaveBlock, Leave, At
<1> QED BY <1>1, <1>2

LEMMA OutStepBooks ==
  ASSUME SInv, LeaveInPlace \/ Propagate
  PROVE  Books(frames, st)'
<1>1. frames # <<>> /\ Top.kind \in Waits \cup {"inplace"} /\ frames' = Popped /\ st' = st
  BY DEF LeaveInPlace, Propagate, Leave, At
<1> QED BY <1>1, LeaveAsWas DEF Leveled, Waits

\* A wait for the value of an expression begins.
LEMMA PushWaitBooks ==
  ASSUME SInv, InExpr, NEW k \in Waits \cup Loops \cup {"try"}, NEW i,
         NewFrame(k, i, Top.brk) \in Frame
  PROVE  Books(Append(frames, NewFrame(k, i, Top.brk)), st)
<1> DEFINE f == NewFrame(k, i, Top.brk)
<1>1. f \in Frame /\ f.kind = k /\ f.orig = st BY DEF NewFrame
<1>2. f.kind \notin Leveled \cup {"block"} BY <1>1 DEF Leveled, Waits, Loops
<1> HIDE DEF f
<1>3. Books(Append(frames, f), st) BY <1>1, <1>2, SFacts, PlainPush
<1> QED BY <1>3 DEF f

LEMMA VarStepBooks ==
  ASSUME SInv, Stmt_Var PROVE Books(frames, st)'
<1>1. InExpr /\ Top.brk \in BOOLEAN /\ st \in State BY CodeRuns, SFacts, RunFacts DEF Stmt_Var
<1>2. CASE Raise("System") BY <1>2, PlainBooks DEF Raise
<1>3. ASSUME NEW i \in {"let", "const", "reuse", "reconst"},
             frames' = Append(frames, NewFrame("let", i, Top.brk)),
             UNCHANGED <<st, out>>
      PROVE  Books(frames, st)'
  <2>1. NewFrame("let", i, Top.brk) \in Frame BY <1>1 DEF NewFrame, Frame, Kinds, Waits
  <2> QED BY <1>1, <1>3, <2>1, PushWaitBooks DEF Waits
<1> QED BY <1>2, <1>3 DEF Stmt_Var

LEMMA DefineStepBooks ==
  ASSUME SInv, DefineVar PROVE Books(frames, st)'
<1>1. frames # <<>> /\ Top.kind = "let" /\ frames' = Popped BY DEF DefineVar, At, Leave
<1>2. st \in State /\ (st.declared /\ st.scope_level = 0 => st.constants # "none") BY SFacts DEF Recorded
<1> DEFINE global == Top.info \in Constants /\ Under.kind = "inplace"
           n == IF Top.info \in Reuses THEN st.scope ELSE st.scope + 1
           c == IF global /\ st.scope_level = 0 /\ st.constants = "none"
                THEN "own" ELSE st.constants
           d == st.declared \/ (global /\ Under.info = "whole")
<1>3. st' = [st EXCEPT !.scope = n, !.constants = c, !.declared = d] BY DEF DefineVar, Leave
<1>4. d /\ st.scope_level = 0 => c # "none" BY <1>2
<1> HIDE DEF n, c, d
<1>5. st'.level = st.level /\ st'.scope_level = st.scope_level
      /\ st'.constants = c /\ st'.declared = d
  BY <1>2, <1>3 DEF State
<1> QED BY <1>1, <1>4, <1>5, LeavePlain DEF Leveled

LEMMA LoopStepBooks ==
  ASSUME SInv, Stmt_Loop PROVE Books(frames, st)'
<1>1. InExpr /\ Top.brk \in BOOLEAN /\ st \in State /\ frames \in Seq(Frame)
  BY CodeRuns, SFacts, RunFacts DEF Stmt_Loop
<1>2. CASE frames' = Append(frames, NewFrame("cond", "while", Top.brk)) /\ UNCHANGED <<st, out>>
  <2>1. NewFrame("cond", "while", Top.brk) \in Frame BY <1>1 DEF NewFrame, Frame, Kinds, Waits
  <2> QED BY <1>1, <1>2, <2>1, PushWaitBooks DEF Waits
<1>3. ASSUME NEW i \in {"do", "loop"},
             RunBlock(Append(frames, NewFrame("body", i, Top.brk)), st, TRUE)
      PROVE  Books(frames, st)'
  <2> DEFINE f == NewFrame("body", i, Top.brk)
  <2>1. f \in Frame BY <1>1 DEF NewFrame, Frame, Kinds
  <2>2. Books(Append(frames, f), st) BY <1>1, <2>1, PushWaitBooks DEF Loops
  <2>3. Append(frames, f) \in Seq(Frame) BY <1>1, <2>1, AppendProperties
  <2> HIDE DEF f
  <2> QED BY <1>1, <1>3, <2>2, <2>3, BlockBooks DEF f
<1> QED BY <1>2, <1>3 DEF Stmt_Loop

\* A loop goes from its condition to its body and back.
LEMMA TurnBooks ==
  ASSUME SInv, frames # <<>>, NEW k \in {"cond", "body"}, Top.kind \in {"cond", "body"}
  PROVE  LET gs == [frames EXCEPT ![Len(frames)].kind = k]
         IN gs \in Seq(Frame) /\ Books(gs, st)
<1> DEFINE f == [Top EXCEPT !.kind = k]
<1>1. Top \in Frame BY SFacts, TopFacts
<1>2. f \in Frame /\ f.kind = k /\ f.orig = Top.orig BY <1>1 DEF Frame, Kinds, Waits
<1>3. [frames EXCEPT ![Len(frames)].kind = k] = [frames EXCEPT ![Len(frames)] = f] BY DEF Top
<1>4. {f.kind, Top.kind} \cap (Leveled \cup {"block"}) = {} BY <1>2 DEF Leveled
<1>5. Recorded(frames, Len(frames) - 1, st)
  <2>1. Top.kind \notin Leveled \cup {"block"} BY DEF Leveled
  <2> QED BY <2>1, SFacts, StateRecorded DEF Top
<1> HIDE DEF f
<1>6. Books([frames EXCEPT ![Len(frames)] = f], st) BY <1>2, <1>4, <1>5, SFacts, ReplaceBooks DEF Top
<1>7. [frames EXCEPT ![Len(frames)] = f] \in Seq(Frame)
  <2>1. Len(frames) \in 1..Len(frames) BY SFacts, TopFacts
  <2> QED BY <1>2, <2>1, SFacts, ExceptSeq
<1> QED BY <1>3, <1>6, <1>7

LEMMA TurnStepBooks ==
  ASSUME SInv, Condition \/ LoopBody PROVE Books(frames, st)'
<1>1. frames # <<>> /\ Top.kind \in {"cond", "body"} /\ st \in State /\ frames \in Seq(Frame)
  BY SFacts DEF Condition, LoopBody, At
<1>2. ASSUME frames' = Popped, st' = st PROVE Books(frames, st)' BY <1>1, <1>2, LeaveAsWas DEF Leveled
<1>3. CASE Condition
  <2>1. CASE Leave("Run", st) BY <1>2, <2>1 DEF Leave
  <2>2. CASE RunBlock([frames EXCEPT ![Len(frames)].kind = "body"], st, TRUE)
    BY <1>1, <2>2, TurnBooks, BlockBooks
  <2> QED BY <1>3, <2>1, <2>2 DEF Condition
<1>4. CASE LoopBody
  <2>1. CASE frames' = [frames EXCEPT ![Len(frames)].kind = "cond"] /\ UNCHANGED st
    BY <1>1, <2>1, TurnBooks
  <2>2. CASE RunBlock(frames, st, TRUE) BY <1>1, <2>2, SFacts, BlockBooks
  <2>3. CASE Leave(IF out = "Break" THEN Resume("Ok") ELSE out, st) BY <1>2, <2>3 DEF Leave
  <2> QED BY <1>4, <2>1, <2>2, <2>3 DEF LoopBody
<1> QED BY <1>3, <1>4

\* The frame on top becomes another that is not counted, entered now.
LEMMA BecomesBooks ==
  ASSUME SInv, frames # <<>>, NEW k \in Kinds, NEW i, NewFrame(k, i, Top.brk) \in Frame,
         Top.kind \notin Leveled \cup {"block"}, k \notin Leveled \cup {"block"},
         NEW t, t.level = st.level, t.scope_level = st.scope_level,
         t.declared /\ t.scope_level = 0 => t.constants # "none"
  PROVE  LET gs == [frames EXCEPT ![Len(frames)] = NewFrame(k, i, Top.brk)]
         IN gs \in Seq(Frame) /\ Books(gs, t)
<1> DEFINE f == NewFrame(k, i, Top.brk)
<1>1. f \in Frame /\ f.kind = k /\ f.orig = st BY DEF NewFrame
<1> HIDE DEF f
<1>2. Recorded(frames, Len(frames) - 1, st) BY SFacts, StateRecorded DEF Top
<1>3. Recorded(frames, Len(frames) - 1, t) BY <1>2, SameRecord
<1>4. Books([frames EXCEPT ![Len(frames)] = f], t) BY <1>1, <1>3, SFacts, ReplaceBooks DEF Top
<1>5. [frames EXCEPT ![Len(frames)] = f] \in Seq(Frame)
  <2>1. Len(frames) \in 1..Len(frames) BY SFacts, TopFacts
  <2> QED BY <1>1, <2>1, SFacts, ExceptSeq
<1> QED BY <1>4, <1>5 DEF f

LEMMA ForStepBooks ==
  ASSUME SInv, Stmt_For \/ Iterable \/ ForBody PROVE Books(frames, st)'
<1>1. st \in State /\ frames \in Seq(Frame) /\ (st.declared /\ st.scope_level = 0 => st.constants # "none")
  BY SFacts DEF Recorded
<1>2. CASE Stmt_For
  <2>1. InExpr /\ Top.brk \in BOOLEAN BY <1>2, CodeRuns, SFacts, RunFacts DEF Stmt_For
  <2>2. CASE Raise("System") BY <2>2, PlainBooks DEF Raise
  <2>3. ASSUME NEW i \in {"counter", ""},
               frames' = Append(frames, NewFrame("iter", i, Top.brk)), UNCHANGED st
        PROVE  Books(frames, st)'
    <3>1. NewFrame("iter", i, Top.brk) \in Frame BY <1>1, <2>1 DEF NewFrame, Frame, Kinds, Waits
    <3> QED BY <2>1, <2>3, <3>1, PushWaitBooks DEF Waits
  <2> QED BY <1>2, <2>2, <2>3 DEF Stmt_For
<1>3. CASE Iterable
  <2>1. frames # <<>> /\ Top.kind = "iter" BY <1>3 DEF Iterable, At
  <2>2. NewFrame("forbody", "", Top.brk) \in Frame
    BY <1>1, <2>1, SFacts, TopFacts DEF NewFrame, Frame, Kinds
  <2>3. st'.level = st.level /\ st'.scope_level = st.scope_level
        /\ st'.constants = st.constants /\ st'.declared = st.declared
    BY <1>1, <1>3 DEF Iterable, State
  <2> QED BY <1>1, <1>3, <2>1, <2>2, <2>3, BecomesBooks DEF Iterable, Kinds, Leveled
<1>4. CASE ForBody
  <2>1. frames # <<>> /\ Top.kind = "forbody" BY <1>4 DEF ForBody, At
  <2>2. CASE RunBlock(frames, st, TRUE) BY <1>1, <2>2, SFacts, BlockBooks
  <2>3. CASE frames' = Popped /\ st' = Rewound(st, Top.orig)
    BY <2>1, <2>3, SFacts, LeftClean, LeaveToOrig
  <2> QED BY <1>4, <2>2, <2>3 DEF ForBody, Leave
<1> QED BY <1>2, <1>3, <1>4

LEMMA TryStepBooks ==
  ASSUME SInv, Stmt_TryCatch \/ TryBody \/ CatchBody PROVE Books(frames, st)'
<1>1. st \in State /\ frames \in Seq(Frame) /\ (st.declared /\ st.scope_level = 0 => st.constants # "none")
  BY SFacts DEF Recorded
<1>2. CASE Stmt_TryCatch
  <2> DEFINE f == NewFrame("try", "", Top.brk)
  <2>1. InExpr /\ Top.brk \in BOOLEAN BY <1>2, CodeRuns, SFacts, RunFacts DEF Stmt_TryCatch
  <2>2. f \in Frame BY <1>1, <2>1 DEF NewFrame, Frame, Kinds
  <2>3. Books(Append(frames, f), st) BY <2>1, <2>2, PushWaitBooks
  <2>4. Append(frames, f) \in Seq(Frame) BY <1>1, <2>2, AppendProperties
  <2> HIDE DEF f
  <2> QED BY <1>1, <1>2, <2>1, <2>3, <2>4, BlockBooks DEF Stmt_TryCatch, f
<1>3. CASE TryBody
  <2>1. frames # <<>> /\ Top.kind = "try" /\ Top.brk \in BOOLEAN
    BY <1>3, SFacts, TopFacts DEF TryBody, At, Frame
  <2>2. CASE frames' = Popped /\ st' = st BY <2>1, <2>2, LeaveAsWas DEF Leveled
  <2>3. ASSUME NEW v \in {0, 1}, is_catchable(out),
               RunBlock([frames EXCEPT ![Len(frames)] = NewFrame("catch", out, Top.brk)],
                        [st EXCEPT !.scope = @ + v], Top.brk)
        PROVE  Books(frames, st)'
    <3> DEFINE t == [st EXCEPT !.scope = @ + v]
    <3>1. NewFrame("catch", out, Top.brk) \in Frame
      BY <1>1, <2>1, <2>3 DEF NewFrame, Frame, Kinds, is_catchable, Errors
    <3>2. t \in State /\ t.level = st.level /\ t.scope_level = st.scope_level
          /\ t.constants = st.constants /\ t.declared = st.declared
      BY <1>1 DEF State
    <3> HIDE DEF t
    <3>3. LET gs == [frames EXCEPT ![Len(frames)] = NewFrame("catch", out, Top.brk)]
          IN gs \in Seq(Frame) /\ Books(gs, t)
      BY <1>1, <2>1, <3>1, <3>2, BecomesBooks DEF Kinds, Leveled
    <3> QED BY <2>1, <2>3, <3>2, <3>3, BlockBooks DEF t
  <2> QED BY <1>3, <2>2, <2>3 DEF TryBody, Leave
<1>4. CASE CatchBody
  <2>1. frames # <<>> /\ Top.kind = "catch" /\ frames' = Popped /\ st' = Rewound(st, Top.orig)
    BY <1>4 DEF CatchBody, At, Leave
  <2> QED BY <2>1, SFacts, LeftClean, LeaveToOrig
<1> QED BY <1>2, <1>3, <1>4

LEMMA CallStepBooks ==
  ASSUME "debugger" \notin Features, SInv, call_script_fn \/ ReturnFromCall
  PROVE  Books(frames, st)'
<1>1. st \in State /\ frames \in Seq(Frame) /\ (st.declared /\ st.scope_level = 0 => st.constants # "none")
  BY SFacts DEF Recorded
<1>2. CASE call_script_fn
  <2>1. InExpr /\ Top.brk \in BOOLEAN BY <1>2, SFacts, RunFacts DEF call_script_fn
  <2>2. CASE Raise("System") BY <2>2, PlainBooks DEF Raise
  <2>3. ASSUME NEW p \in 0..MaxParams, NEW env \in BOOLEAN, ~StackOverflow(st.level + 1),
               RunBlock(Append(frames, NewFrame("call", IF env THEN "env" ELSE "", Top.brk)),
                        [Merged(Debugged(st), env) EXCEPT
                           !.scope = p, !.hidden = 0, !.level = @ + 1,
                           !.source = IF env THEN "module" ELSE @],
                        FnBreakable(Top.brk))
        PROVE  Books(frames, st)'
    <3> DEFINE f == NewFrame("call", IF env THEN "env" ELSE "", Top.brk)
               t == [Merged(Debugged(st), env) EXCEPT
                       !.scope = p, !.hidden = 0, !.level = @ + 1,
                       !.source = IF env THEN "module" ELSE @]
    <3>1. f \in Frame /\ f.kind = "call" /\ f.orig = st BY <1>1, <2>1 DEF NewFrame, Frame, Kinds
    <3>2. t \in State /\ t.level = st.level + 1 /\ t.scope_level = st.scope_level
          /\ t.declared = st.declared /\ (t.constants = st.constants \/ t.constants = "env")
      <4> DEFINE m == Merged(st, env)
      <4>1. Debugged(st) = st /\ p \in Nat BY EvaluatorAssumption DEF Debugged
      <4>2. m \in State /\ m.level = st.level /\ m.scope_level = st.scope_level
            /\ m.declared = st.declared /\ (m.constants = st.constants \/ m.constants = "env")
        <5>1. CASE env
          <6>1. PICK a \in Nat, b \in Nat :
                  m = [st EXCEPT !.imports = a, !.lib = b, !.constants = "env"]
            <7>1. st.imports + 1 \in Nat /\ st.lib + 1 \in Nat BY <1>1 DEF State
            <7> QED BY <5>1, <7>1 DEF Merged
          <6> HIDE DEF m
          <6> QED BY <1>1, <6>1 DEF State
        <5>2. CASE ~env BY <1>1, <5>2 DEF Merged
        <5> QED BY <5>1, <5>2
      <4> HIDE DEF m
      <4>3. PICK c \in {"main", "module"}, n \in Nat :
              n = m.level + 1 /\ t = [m EXCEPT !.scope = p, !.hidden = 0, !.level = n, !.source = c]
        <5>1. (IF env THEN "module" ELSE m.source) \in {"main", "module"} /\ m.level + 1 \in Nat
          BY <4>2 DEF State
        <5> QED BY <4>1, <5>1 DEF m
      <4> HIDE DEF t
      <4> QED BY <4>1, <4>2, <4>3 DEF State
    <3> HIDE DEF f, t
    <3>3. Moves(f, st, t)
      <4>1. st.scope_level + 0 = st.scope_level BY <1>1 DEF State
      <4> QED BY <1>1, <3>1, <3>2, <4>1 DEF Moves, Leveled
    <3>4. st.level + 1 <= MaxLevels
      <4>1. st.level \in Nat BY <1>1 DEF State
      <4>2. ~(st.level + 1 > MaxLevels) BY <2>3, Zenon DEF StackOverflow
      <4> QED BY <4>1, <4>2, EvaluatorAssumption
    <3>5. Books(Append(frames, f), t) BY <1>1, <3>1, <3>3, <3>4, SFacts, PushBooks
    <3>6. Append(frames, f) \in Seq(Frame) /\ FnBreakable(Top.brk) \in BOOLEAN
      BY <1>1, <3>1, AppendProperties DEF FnBreakable
    <3> QED BY <2>3, <3>2, <3>5, <3>6, BlockBooks DEF f, t
  <2>4. \A env \in {FALSE} \cup {"import" \in Features} : env \in BOOLEAN
    <3>1. ("import" \in Features) \in BOOLEAN OBVIOUS
    <3> QED BY <3>1, Zenon
  <2> QED BY <1>2, <2>2, <2>3, <2>4 DEF call_script_fn
<1>3. CASE ReturnFromCall
  <2>1. frames # <<>> /\ Top.kind = "call" /\ frames' = Popped /\ st' = RestoredCall(st, Top)
    BY <1>3 DEF ReturnFromCall, At, Leave
  <2> QED BY <2>1, SFacts, LeftClean, LeaveToOrig
<1> QED BY <1>2, <1>3

LEMMA EvalStepBooks ==
  ASSUME SInv, eval \/ ReturnFromEval PROVE Books(frames, st)'
<1>1. st \in State /\ frames \in Seq(Frame) /\ (st.declared /\ st.scope_level = 0 => st.constants # "none")
  BY SFacts DEF Recorded
<1>2. CASE eval
  <2>1. InExpr /\ Top.brk \in BOOLEAN BY <1>2, SFacts, RunFacts DEF eval
  <2>2. CASE Raise("Runtime") BY <2>2, PlainBooks DEF Raise
  <2> DEFINE f == NewFrame("eval", "", Top.brk)
             t == [st EXCEPT !.level = @ + 1, !.hidden = 0]
             g == InPlace(t, "eval")
  <2>3. CASE frames' = Append(Append(frames, f), g) /\ st' = t
    <3>1. f \in Frame /\ f.kind = "eval" /\ f.orig = st BY <1>1, <2>1 DEF NewFrame, Frame, Kinds
    <3>2. t \in State /\ t.level = st.level + 1 /\ t.scope_level = st.scope_level
          /\ t.declared = st.declared /\ t.constants = st.constants
      <4>1. PICK n \in Nat : n = st.level + 1 /\ t = [st EXCEPT !.level = n, !.hidden = 0]
        <5>1. st.level + 1 \in Nat BY <1>1 DEF State
        <5> QED BY <5>1
      <4> HIDE DEF t
      <4> QED BY <1>1, <4>1 DEF State
    <3>3. g \in Frame /\ g.kind = "inplace" /\ g.orig = t BY <3>2 DEF InPlace, Frame, Kinds, Codes
    <3> HIDE DEF f, t, g
    <3>4. Moves(f, st, t)
      <4>1. st.scope_level + 0 = st.scope_level BY <1>1 DEF State
      <4> QED BY <1>1, <3>1, <3>2, <4>1 DEF Moves, Leveled
    <3>5. Books(Append(frames, f), t) BY <1>1, <3>1, <3>4, SFacts, PushBooks
    <3>6. Append(frames, f) \in Seq(Frame) BY <1>1, <3>1, AppendProperties
    <3>7. Books(Append(Append(frames, f), g), t) BY <3>2, <3>3, <3>5, <3>6, PlainPush DEF Leveled
    <3> QED BY <2>3, <3>7
  <2> QED BY <1>2, <2>2, <2>3 DEF eval
<1>3. CASE ReturnFromEval
  <2>1. frames # <<>> /\ Top.kind = "eval" /\ frames' = Popped /\ st' = RestoredEval(st, Top.orig)
    BY <1>3 DEF ReturnFromEval, At, Leave
  <2>2. Top.orig \in State /\ st.scope_level = Top.orig.scope_level
    BY <2>1, SFacts, TopFacts DEF Within, WithinEval, Carries
  <2>3. st'.level = Top.orig.level /\ st'.scope_level = Top.orig.scope_level
        /\ st'.declared = st.declared /\ st'.constants = st.constants
    BY <1>1, <2>1, <2>2 DEF RestoredEval, State
  <2>4. Recorded(frames, Len(frames) - 1, Top.orig) BY <2>1, SFacts, OrigRecorded DEF Top
  <2> QED BY <1>1, <2>1, <2>2, <2>3, <2>4, SameRecord, LeaveBooks
<1> QED BY <1>2, <1>3

LEMMA ImportStepBooks ==
  ASSUME SInv, Stmt_Import \/ LoadedModule \/ EvalModule \/ ReturnFromModule
  PROVE  Books(frames, st)'
<1>1. st \in State /\ frames \in Seq(Frame) /\ (st.declared /\ st.scope_level = 0 => st.constants # "none")
  BY SFacts DEF Recorded
<1>2. CASE Stmt_Import
  <2>1. InExpr /\ Top.brk \in BOOLEAN BY <1>2, CodeRuns, SFacts, RunFacts DEF Stmt_Import
  <2>2. CASE Raise("System") BY <2>2, PlainBooks DEF Raise
  <2>3. CASE frames' = Append(frames, NewFrame("path", "", Top.brk)) /\ UNCHANGED st
    <3>1. NewFrame("path", "", Top.brk) \in Frame BY <1>1, <2>1 DEF NewFrame, Frame, Kinds, Waits
    <3> QED BY <2>1, <2>3, <3>1, PushWaitBooks DEF Waits
  <2> QED BY <1>2, <2>2, <2>3 DEF Stmt_Import
<1>3. CASE LoadedModule
  <2>1. frames # <<>> /\ Top.kind = "path" /\ frames' = Popped /\ st' = [st EXCEPT !.imports = @ + 1]
    BY <1>3 DEF LoadedModule, At, Leave
  <2>2. st'.level = st.level /\ st'.scope_level = st.scope_level
        /\ st'.declared = st.declared /\ st'.constants = st.constants
    BY <1>1, <2>1 DEF State
  <2> QED BY <1>1, <2>1, <2>2, LeavePlain DEF Leveled
<1>4. CASE EvalModule
  <2>1. frames # <<>> /\ Top.kind = "path" BY <1>4 DEF EvalModule, At
  <2>2. CASE Leave("Runtime", st) BY <2>1, <2>2, LeaveAsWas DEF Leveled, Leave
  <2> DEFINE f == NewFrame("module", "", Top.brk)
             t == [st EXCEPT !.constants = "none", !.lib = @ + 1, !.source = "module",
                             !.hidden = 0, !.declared = FALSE]
             g == InPlace(t, "whole")
  <2>3. CASE frames' = Append([frames EXCEPT ![Len(frames)] = f], g) /\ st' = t
    <3>1. f \in Frame BY <1>1, <2>1, SFacts, TopFacts DEF NewFrame, Frame, Kinds
    <3>2. t \in State /\ t.level = st.level /\ t.scope_level = st.scope_level /\ ~t.declared
      <4>1. PICK n \in Nat : t = [st EXCEPT !.constants = "none", !.lib = n, !.source = "module",
                                            !.hidden = 0, !.declared = FALSE]
        <5>1. st.lib + 1 \in Nat BY <1>1 DEF State
        <5> QED BY <5>1
      <4> HIDE DEF t
      <4> QED BY <1>1, <4>1 DEF State
    <3>3. g \in Frame /\ g.kind = "inplace" /\ g.orig = t BY <3>2 DEF InPlace, Frame, Kinds, Codes
    <3> HIDE DEF t, g
    <3>4. LET gs == [frames EXCEPT ![Len(frames)] = f] IN gs \in Seq(Frame) /\ Books(gs, t)
      BY <2>1, <3>1, <3>2, BecomesBooks DEF Kinds, Leveled
    <3> HIDE DEF f
    <3>5. Books(Append([frames EXCEPT ![Len(frames)] = f], g), t)
      BY <3>2, <3>3, <3>4, PlainPush DEF Leveled
    <3> QED BY <2>3, <3>5
  <2> QED BY <1>4, <2>2, <2>3 DEF EvalModule
<1>5. CASE ReturnFromModule
  <2>1. frames # <<>> /\ Top.kind = "module" /\ frames' = Popped
        /\ st' = RestoredModule(st, Top.orig, out = "Ok")
    BY <1>5 DEF ReturnFromModule, At, Leave
  <2>2. /\ Top.orig \in State
        /\ st.scope_level = Top.orig.scope_level
        /\ st.level = Top.orig.level
    BY <2>1, SFacts, TopFacts DEF Within, WithinModule
  <2>3. st'.level = Top.orig.level /\ st'.scope_level = Top.orig.scope_level
        /\ st'.declared = Top.orig.declared /\ st'.constants = Top.orig.constants
    BY <1>1, <2>1, <2>2 DEF RestoredModule, State
  <2>4. Recorded(frames, Len(frames) - 1, Top.orig) BY <2>1, SFacts, OrigRecorded DEF Top
  <2>5. Top.orig.declared /\ Top.orig.scope_level = 0 => Top.orig.constants # "none" BY <2>4 DEF Recorded
  <2> QED BY <2>1, <2>3, <2>4, <2>5, SameRecord, LeaveBooks
<1> QED BY <1>2, <1>3, <1>4, <1>5

LEMMA NextBooks ==
  ASSUME "debugger" \notin Features PROVE SInv /\ [Next]_vars => SInv'
<1> SUFFICES ASSUME SInv, [Next]_vars PROVE SInv' OBVIOUS
<1>1. IInv' BY SFacts, NextKeeps
<1>2. CASE UNCHANGED vars BY <1>2, PlainBooks, <1>1 DEF SInv, vars
<1>3. CASE Next
  <2>1. Books(frames, st)'
    BY <1>3, PlainStepBooks, BlockStepBooks, OutStepBooks, VarStepBooks, DefineStepBooks,
       LoopStepBooks, TurnStepBooks, ForStepBooks, TryStepBooks, CallStepBooks,
       EvalStepBooks, ImportStepBooks
    DEF Next, Step
  <2> QED BY <1>1, <2>1 DEF SInv
<1> QED BY <1>2, <1>3

LEMMA InitBooks == ASSUME Init PROVE SInv
<1>1. Len(frames) = 1 /\ frames[1].orig = Start /\ frames[1].kind = "inplace" /\ st = Start
  BY DEF Init, InPlace
<1>2. ASSUME NEW ks, NEW n \in {0, 1}, "inplace" \notin ks PROVE Depth(frames, ks, n) = 0
  <2>1. {i \in 1..n : frames[i].kind \in ks} = {} BY <1>1, <1>2
  <2> QED BY <2>1, FS_EmptySet DEF Depth
<1>3. ASSUME NEW n \in {0, 1} PROVE Recorded(frames, n, Start) BY <1>2 DEF Recorded, Start, Leveled
<1>4. Books(frames, st) BY <1>1, <1>2, <1>3, EvaluatorAssumption DEF Books
<1> QED BY <1>4, InitHolds DEF SInv

\* At every statement, and after every way out of the calls, evals, blocks and modules before
\* it: level is the number of calls and evals under way and calls of script functions nest no
\* deeper than max_call_levels, scope_level is the number of blocks, and a module that is done
\* has the constants it defined.
THEOREM RuntimeStateIsRight ==
  ASSUME "debugger" \notin Features PROVE Spec => []RuntimeStateHolds
<1>1. Init => SInv BY InitBooks
<1>2. SInv /\ [Next]_vars => SInv' BY NextBooks
<1>3. SInv => RuntimeStateHolds
  <2> SUFFICES ASSUME SInv PROVE RuntimeStateHolds OBVIOUS
  <2>1. /\ st.level = Depth(frames, Leveled, Len(frames))
        /\ st.scope_level = Depth(frames, {"block"}, Len(frames))
        /\ st.declared /\ st.scope_level = 0 => st.constants # "none"
        /\ Depth(frames, {"call"}, Len(frames)) <= MaxLevels
    BY DEF SInv, Books, Recorded
  <2>2. CallLevels /\ ScopeLevels BY <2>1 DEF CallLevels, ScopeLevels, Count, Depth, Leveled
  <2>3. At("module") => st.scope_level = Top.orig.scope_level
    BY SFacts, TopFacts DEF At, Within, WithinModule
  <2> QED BY <2>1, <2>2, <2>3 DEF RuntimeStateHolds, ModuleConstantsCaptured
<1> QED BY <1>1, <1>2, <1>3, PTL DEF Spec

-----------------------------------------------------------------------------
(* The third part, with or without a debugger and a progress callback: `exit` ends a script that
   imports nothing, and a script that neither evaluates text nor imports never has more
   variables than allowed nor catches an exceeded limit.

   A debugger that fails leaves imports, constants and its own call stack in disorder, so nothing
   is said here of most of the state: a state is whatever has a field scope, and a frame whatever
   has the four fields of a frame. *)

IsFrame(f) == DOMAIN f = {"kind", "info", "brk", "orig"}

IsStack(fs) == (\E S : fs \in Seq(S)) /\ \A i \in 1..Len(fs) : IsFrame(fs[i])

-----------------------------------------------------------------------------
\* Lemmas on stacks.
LEMMA StackLen ==
  ASSUME NEW fs, IsStack(fs)
  PROVE  Len(fs) \in Nat /\ (fs # <<>> => Len(fs) \in 1..Len(fs) /\ Len(fs) # 0)
<1>1. PICK S : fs \in Seq(S) BY DEF IsStack
<1>2. Len(fs) \in Nat /\ (fs # <<>> => Len(fs) # 0) BY <1>1, EmptySeq, LenProperties
<1> QED BY <1>2

LEMMA PushStack ==
  ASSUME NEW fs, IsStack(fs), NEW f, IsFrame(f)
  PROVE  LET gs == Append(fs, f)
         IN /\ IsStack(gs)
            /\ gs # <<>>
            /\ Len(gs) = Len(fs) + 1
            /\ gs[Len(fs) + 1] = f
            /\ \A i \in 1..Len(fs) : gs[i] = fs[i]
<1>1. PICK S : fs \in Seq(S) BY DEF IsStack
<1> DEFINE T == S \cup {f}
           gs == Append(fs, f)
<1>2. fs \in Seq(T) /\ f \in T /\ Len(fs) \in Nat BY <1>1, SeqMonotonic, StackLen
<1> HIDE DEF T
<1>3. /\ gs \in Seq(T)
      /\ Len(gs) = Len(fs) + 1
      /\ gs[Len(fs) + 1] = f
      /\ \A i \in 1..Len(fs) : gs[i] = fs[i]
      /\ gs # <<>>
  BY <1>2, AppendProperties
<1> HIDE DEF gs
<1>4. ASSUME NEW i \in 1..Len(gs) PROVE IsFrame(gs[i])
  <2>1. i \in 1..Len(fs) \/ i = Len(fs) + 1 BY <1>2, <1>3
  <2> QED BY <1>3, <2>1 DEF IsStack
<1>5. IsStack(gs) BY <1>3, <1>4 DEF IsStack
<1> QED BY <1>3, <1>5 DEF gs

LEMMA PopStack ==
  ASSUME NEW fs, IsStack(fs), fs # <<>>
  PROVE  LET gs == SubSeq(fs, 1, Len(fs) - 1)
         IN /\ IsStack(gs)
            /\ Len(gs) = Len(fs) - 1
            /\ \A i \in 1..(Len(fs) - 1) : gs[i] = fs[i]
            /\ (gs = <<>> <=> Len(fs) = 1)
<1>1. PICK S : fs \in Seq(S) BY DEF IsStack
<1> DEFINE n  == Len(fs) - 1
           gs == SubSeq(fs, 1, n)
<1>2. n \in Nat /\ Len(fs) = n + 1 BY StackLen
<1>3. \A i \in 1..n : fs[i] \in S BY <1>1, <1>2, ElementOfSeq
<1>4. gs \in Seq(S) /\ Len(gs) = n /\ \A i \in 1..n : gs[i] = fs[i] BY <1>1, <1>2, <1>3, SubSeqProperties
<1> HIDE DEF gs, n
<1>5. gs = <<>> <=> n = 0 BY <1>4, EmptySeq
<1>6. IsStack(gs) BY <1>2, <1>4 DEF IsStack
<1> QED BY <1>2, <1>4, <1>5, <1>6 DEF gs, n

LEMMA ReplaceStack ==
  ASSUME NEW fs, IsStack(fs), fs # <<>>, NEW f, IsFrame(f)
  PROVE  LET gs == [fs EXCEPT ![Len(fs)] = f]
         IN /\ IsStack(gs)
            /\ gs # <<>>
            /\ Len(gs) = Len(fs)
            /\ gs[Len(fs)] = f
            /\ \A i \in 1..(Len(fs) - 1) : gs[i] = fs[i]
<1>1. PICK S : fs \in Seq(S) BY DEF IsStack
<1> DEFINE T == S \cup {f}
           gs == [fs EXCEPT ![Len(fs)] = f]
<1>2. fs \in Seq(T) /\ f \in T /\ Len(fs) \in 1..Len(fs) /\ Len(fs) \in Nat
  BY <1>1, SeqMonotonic, StackLen
<1> HIDE DEF T
<1>3. /\ gs \in Seq(T) /\ Len(gs) = Len(fs)
      /\ \A i \in 1..Len(fs) : gs[i] = IF i = Len(fs) THEN f ELSE fs[i]
  BY <1>2, ExceptSeq
<1> HIDE DEF gs
<1>4. gs # <<>> BY <1>2, <1>3, EmptySeq
<1>5. \A i \in 1..Len(gs) : IsFrame(gs[i]) BY <1>3 DEF IsStack
<1>6. IsStack(gs) BY <1>3, <1>5 DEF IsStack
<1>7. gs[Len(fs)] = f /\ \A i \in 1..(Len(fs) - 1) : gs[i] = fs[i] BY <1>2, <1>3
<1> QED BY <1>3, <1>4, <1>6, <1>7 DEF gs

LEMMA NewFrames ==
  ASSUME NEW k, NEW i, NEW b, NEW s
  PROVE  /\ IsFrame(NewFrame(k, i, b)) /\ NewFrame(k, i, b).kind = k
         /\ NewFrame(k, i, b).info = i /\ NewFrame(k, i, b).orig = st
         /\ IsFrame(Block(s, b)) /\ Block(s, b).kind = "block" /\ Block(s, b).orig = s
         /\ IsFrame(InPlace(s, i)) /\ InPlace(s, i).kind = "inplace" /\ InPlace(s, i).info = i
BY DEF IsFrame, NewFrame, Block, InPlace

\* A loop goes from its condition to its body and back: its frame changes its kind only.
LEMMA TurnFrame ==
  ASSUME NEW fs, NEW k, IsFrame(fs[Len(fs)])
  PROVE  LET f == [fs[Len(fs)] EXCEPT !.kind = k]
         IN /\ [fs EXCEPT ![Len(fs)].kind = k] = [fs EXCEPT ![Len(fs)] = f]
            /\ IsFrame(f) /\ f.kind = k /\ f.info = fs[Len(fs)].info /\ f.orig = fs[Len(fs)].orig
BY DEF IsFrame

-----------------------------------------------------------------------------
\* Nothing is imported: the script itself is the only one that is run as a whole.
Sole(f) == f.kind \notin {"module", "path"} /\ ~(f.kind = "inplace" /\ f.info = "whole")

Alone(fs) == IsStack(fs) /\ \A i \in 1..Len(fs) : Sole(fs[i]) \/ (i = 1 /\ fs[i].kind = "inplace")

LEMMA PushAlone ==
  ASSUME NEW fs, Alone(fs), NEW f, IsFrame(f), Sole(f)
  PROVE  Alone(Append(fs, f))
<1> DEFINE gs == Append(fs, f)
<1>1. /\ IsStack(gs) /\ Len(gs) = Len(fs) + 1 /\ gs[Len(fs) + 1] = f
      /\ \A i \in 1..Len(fs) : gs[i] = fs[i]
      /\ Len(fs) \in Nat
  BY PushStack, StackLen DEF Alone
<1> HIDE DEF gs
<1>2. ASSUME NEW i \in 1..Len(gs) PROVE Sole(gs[i]) \/ (i = 1 /\ gs[i].kind = "inplace")
  <2>1. i \in 1..Len(fs) \/ i = Len(fs) + 1 BY <1>1
  <2> QED BY <1>1, <2>1 DEF Alone
<1>3. Alone(gs) BY <1>1, <1>2 DEF Alone
<1> QED BY <1>3 DEF gs

LEMMA PopAlone ==
  ASSUME NEW fs, Alone(fs), fs # <<>>
  PROVE  Alone(SubSeq(fs, 1, Len(fs) - 1))
<1> DEFINE gs == SubSeq(fs, 1, Len(fs) - 1)
<1>1. /\ IsStack(gs) /\ Len(gs) = Len(fs) - 1
      /\ \A i \in 1..(Len(fs) - 1) : gs[i] = fs[i]
      /\ Len(fs) \in Nat
  BY PopStack, StackLen DEF Alone
<1> HIDE DEF gs
<1>2. Alone(gs) BY <1>1 DEF Alone
<1> QED BY <1>2 DEF gs

LEMMA ReplaceAlone ==
  ASSUME NEW fs, Alone(fs), fs # <<>>, NEW f, IsFrame(f), Sole(f)
  PROVE  Alone([fs EXCEPT ![Len(fs)] = f])
<1> DEFINE gs == [fs EXCEPT ![Len(fs)] = f]
<1>1. /\ IsStack(gs) /\ Len(gs) = Len(fs) /\ gs[Len(fs)] = f
      /\ \A i \in 1..(Len(fs) - 1) : gs[i] = fs[i]
      /\ Len(fs) \in Nat
  BY ReplaceStack, StackLen DEF Alone
<1> HIDE DEF gs
<1>2. ASSUME NEW i \in 1..Len(gs) PROVE Sole(gs[i]) \/ (i = 1 /\ gs[i].kind = "inplace")
  <2>1. i \in 1..(Len(fs) - 1) \/ i = Len(fs) BY <1>1
  <2> QED BY <1>1, <2>1 DEF Alone
<1>3. Alone(gs) BY <1>1, <1>2 DEF Alone
<1> QED BY <1>3 DEF gs

LEMMA BlockAlone ==
  ASSUME NEW fs, Alone(fs), NEW s, NEW b, RunBlock(fs, s, b)
  PROVE  Alone(frames')
<1>1. IsFrame(Block(s, b)) /\ Sole(Block(s, b)) BY NewFrames DEF Sole
<1> QED BY <1>1, PushAlone DEF RunBlock

LEMMA NewAlone ==
  ASSUME Alone(frames), NEW k, NEW i, NEW b, k \notin {"module", "path", "inplace"}
  PROVE  /\ Alone(Append(frames, NewFrame(k, i, b)))
         /\ frames # <<>> => Alone([frames EXCEPT ![Len(frames)] = NewFrame(k, i, b)])
<1>1. IsFrame(NewFrame(k, i, b)) /\ Sole(NewFrame(k, i, b)) BY NewFrames DEF Sole
<1> QED BY <1>1, PushAlone, ReplaceAlone

LEMMA TurnAlone ==
  ASSUME Alone(frames), frames # <<>>, NEW k \in {"cond", "body"}
  PROVE  Alone([frames EXCEPT ![Len(frames)].kind = k])
<1> DEFINE f == [frames[Len(frames)] EXCEPT !.kind = k]
<1>1. IsFrame(frames[Len(frames)]) BY StackLen DEF Alone, IsStack
<1>2. [frames EXCEPT ![Len(frames)].kind = k] = [frames EXCEPT ![Len(frames)] = f]
      /\ IsFrame(f) /\ Sole(f)
  BY <1>1, TurnFrame DEF Sole
<1> HIDE DEF f
<1>3. Alone([frames EXCEPT ![Len(frames)] = f]) BY <1>2, ReplaceAlone
<1> QED BY <1>2, <1>3

LEMMA LeaveAlone ==
  ASSUME Alone(frames), frames # <<>>, NEW o, NEW s, Leave(o, s)
  PROVE  Alone(frames')
BY PopAlone DEF Leave, Popped

LEMMA NextAlone ==
  ASSUME "import" \notin Features, Alone(frames), [Next]_vars
  PROVE  Alone(frames')
<1>1. CASE UNCHANGED frames BY <1>1
<1>2. CASE /\ frames # <<>>
           /\ \/ LeaveBlock \/ LeaveInPlace \/ Propagate \/ DefineVar \/ CatchBody
              \/ ReturnFromCall \/ ReturnFromEval
  BY <1>2, LeaveAlone, Zenon
  DEF LeaveBlock, LeaveInPlace, Propagate, DefineVar, CatchBody, ReturnFromCall, ReturnFromEval
<1>3. CASE Stmt_Block BY <1>3, BlockAlone DEF Stmt_Block
<1>4. CASE Stmt_Var \/ Stmt_For
  <2>1. \/ UNCHANGED frames
        \/ \E k \in {"let", "iter"} : \E i, b : frames' = Append(frames, NewFrame(k, i, b))
    BY <1>4, Zenon DEF Stmt_Var, Stmt_For, Raise
  <2> QED BY <1>1, <2>1, NewAlone
<1>5. CASE Stmt_Loop \/ Stmt_TryCatch
  <2>1. \/ frames' = Append(frames, NewFrame("cond", "while", Top.brk))
        \/ \E k \in {"body", "try"} : \E i, s, b :
             RunBlock(Append(frames, NewFrame(k, i, Top.brk)), s, b)
    BY <1>5, Zenon DEF Stmt_Loop, Stmt_TryCatch
  <2>2. ASSUME NEW k \in {"body", "try"}, NEW i, NEW s, NEW b,
               RunBlock(Append(frames, NewFrame(k, i, Top.brk)), s, b)
        PROVE  Alone(frames')
    <3>1. Alone(Append(frames, NewFrame(k, i, Top.brk))) BY NewAlone
    <3> QED BY <2>2, <3>1, BlockAlone
  <2> QED BY <2>1, <2>2, NewAlone
<1>6. CASE Condition \/ LoopBody
  <2>1. frames # <<>> BY <1>6 DEF Condition, LoopBody, At
  <2>2. \/ \E o, s : Leave(o, s)
        \/ \E s, b : RunBlock([frames EXCEPT ![Len(frames)].kind = "body"], s, b)
        \/ frames' = [frames EXCEPT ![Len(frames)].kind = "cond"]
        \/ \E s, b : RunBlock(frames, s, b)
    BY <1>6, Zenon DEF Condition, LoopBody
  <2> QED BY <2>1, <2>2, LeaveAlone, TurnAlone, BlockAlone
<1>7. CASE Iterable \/ ForBody \/ TryBody
  <2>1. frames # <<>> BY <1>7 DEF Iterable, ForBody, TryBody, At
  <2>2. \/ \E o, s : Leave(o, s)
        \/ \E s, b : RunBlock(frames, s, b)
        \/ frames' = [frames EXCEPT ![Len(frames)] = NewFrame("forbody", "", Top.brk)]
        \/ \E s, b : RunBlock([frames EXCEPT ![Len(frames)] = NewFrame("catch", out, Top.brk)], s, b)
    BY <1>7, Zenon DEF Iterable, ForBody, TryBody
  <2>3. ASSUME NEW s, NEW b,
               RunBlock([frames EXCEPT ![Len(frames)] = NewFrame("catch", out, Top.brk)], s, b)
        PROVE  Alone(frames')
    <3>1. Alone([frames EXCEPT ![Len(frames)] = NewFrame("catch", out, Top.brk)]) BY <2>1, NewAlone
    <3> QED BY <2>3, <3>1, BlockAlone
  <2>4. Alone([frames EXCEPT ![Len(frames)] = NewFrame("forbody", "", Top.brk)]) BY <2>1, NewAlone
  <2> QED BY <2>1, <2>2, <2>3, <2>4, LeaveAlone, BlockAlone
<1>8. CASE call_script_fn
  <2>1. \/ UNCHANGED frames
        \/ \E i, s, b : RunBlock(Append(frames, NewFrame("call", i, Top.brk)), s, b)
    BY <1>8, Zenon DEF call_script_fn, Raise
  <2>2. ASSUME NEW i, NEW s, NEW b, RunBlock(Append(frames, NewFrame("call", i, Top.brk)), s, b)
        PROVE  Alone(frames')
    <3>1. Alone(Append(frames, NewFrame("call", i, Top.brk))) BY NewAlone
    <3> QED BY <2>2, <3>1, BlockAlone
  <2> QED BY <1>1, <2>1, <2>2
<1>9. CASE eval
  <2>1. \/ UNCHANGED frames
        \/ \E s : frames' = Append(Append(frames, NewFrame("eval", "", Top.brk)), InPlace(s, "eval"))
    BY <1>9, Zenon DEF eval, Raise
  <2>2. ASSUME NEW s,
               frames' = Append(Append(frames, NewFrame("eval", "", Top.brk)), InPlace(s, "eval"))
        PROVE  Alone(frames')
    <3>1. Alone(Append(frames, NewFrame("eval", "", Top.brk))) BY NewAlone
    <3>2. IsFrame(InPlace(s, "eval")) /\ Sole(InPlace(s, "eval")) BY NewFrames DEF Sole
    <3> QED BY <2>2, <3>1, <3>2, PushAlone
  <2> QED BY <1>1, <2>1, <2>2
<1>10. ~(LoadedModule \/ EvalModule \/ ReturnFromModule \/ Stmt_Import)
  <2>1. ASSUME NEW k \in {"path", "module"}, At(k) PROVE FALSE
    <3>1. Len(frames) \in 1..Len(frames) BY <2>1, StackLen DEF At, Alone
    <3> QED BY <2>1, <3>1 DEF At, Top, Alone, Sole
  <2> QED BY <2>1 DEF LoadedModule, EvalModule, ReturnFromModule, Stmt_Import
<1>11. ASSUME LeaveBlock \/ LeaveInPlace \/ Propagate \/ DefineVar \/ CatchBody
              \/ ReturnFromCall \/ ReturnFromEval
       PROVE  frames # <<>>
  BY <1>11 DEF LeaveBlock, LeaveInPlace, Propagate, DefineVar, CatchBody, ReturnFromCall,
               ReturnFromEval, At
<1>12. ASSUME track_operation \/ Simple \/ Throw \/ Stmt_Return \/ exit \/ Stmt_BreakLoop
              \/ EndOfStatements \/ Done \/ UNCHANGED vars
       PROVE  UNCHANGED frames
  BY <1>12 DEF track_operation, Simple, Throw, Stmt_Return, exit, Stmt_BreakLoop,
               EndOfStatements, Done, Raise, vars
<1> QED BY <1>1, <1>2, <1>3, <1>4, <1>5, <1>6, <1>7, <1>8, <1>9, <1>10, <1>11, <1>12 DEF Next, Step

LEMMA InitAlone == ASSUME Init PROVE Alone(frames)
<1> DEFINE f == InPlace(Start, "whole")
<1>1. frames = <<f>> /\ IsFrame(f) /\ f.kind = "inplace" BY NewFrames DEF Init
<1> HIDE DEF f
<1>2. frames \in Seq({f}) /\ Len(frames) = 1 /\ frames[1] = f BY <1>1
<1>3. \A i \in 1..Len(frames) : i = 1 /\ frames[i] = f BY <1>2
<1>4. IsStack(frames) BY <1>1, <1>2, <1>3 DEF IsStack
<1> QED BY <1>1, <1>3, <1>4 DEF Alone

\* After `exit` each frame on the way out passes it on, up to the script itself.
LEMMA ExitGoesOut ==
  ASSUME Alone(frames), out = "Exit", Step
  PROVE  \/ out' = "Exit" \/ frames' = <<>>
         \/ "debugger" \in Features /\ At("call") /\ out' = "Runtime"
<1>1. Resume("Exit") = "Exit" /\ Resume("Runtime") = "Runtime" BY DEF Resume
<1>2. CASE LeaveInPlace
  <2>1. frames # <<>> /\ Top.kind = "inplace" /\ frames' = Popped BY <1>2 DEF LeaveInPlace, At, Leave
  <2>2. CASE Top.info # "whole" BY <1>2, <2>2 DEF LeaveInPlace, Leave
  <2>3. CASE Top.info = "whole"
    <3>1. Len(frames) \in 1..Len(frames) BY <2>1, StackLen DEF Alone
    <3>2. Len(frames) = 1 BY <2>1, <2>3, <3>1 DEF Alone, Sole, Top
    <3> QED BY <2>1, <3>2, PopStack DEF Alone, Popped
  <2> QED BY <2>2, <2>3
<1>3. CASE LeaveBlock \/ Propagate \/ CatchBody
  <2>1. {Resume(out)} \cup (IF out = "Runtime" THEN {Top.info} ELSE {}) = {"Exit"} BY <1>1
  <2> QED BY <1>1, <1>3, <2>1 DEF LeaveBlock, Propagate, CatchBody, Leave
<1>4. CASE LoopBody \/ ForBody \/ TryBody
  BY <1>1, <1>4, Zenon DEF LoopBody, ForBody, TryBody, Leave, RunBlock, is_pseudo_error, Pseudo
<1>5. CASE ReturnFromCall
  <2>1. FromCall(out) = "Exit" BY DEF FromCall
  <2> QED BY <1>1, <1>5, <2>1 DEF ReturnFromCall, Leave
<1>6. CASE ReturnFromEval \/ ReturnFromModule
  BY <1>1, <1>6 DEF ReturnFromEval, ReturnFromModule, FromEval, FromModule, is_system_exception, Leave
<1>7. out # "Run" OBVIOUS
<1> QED
  BY <1>2, <1>3, <1>4, <1>5, <1>6, <1>7, Zenon
  DEF Step, track_operation, Simple, Throw, Stmt_Return, exit, Stmt_BreakLoop, Stmt_Block,
      EndOfStatements, Stmt_Var, DefineVar, Stmt_Loop, Condition, Stmt_For, Iterable,
      Stmt_TryCatch, call_script_fn, eval, Stmt_Import, LoadedModule, EvalModule, InCode, InExpr

\* Where nothing is imported, nothing of the script runs after `exit` was called.
THEOREM ExitIsFinal ==
  ASSUME "import" \notin Features PROVE Spec => ExitEndsScript
<1> DEFINE Ends == out = "Exit" => \/ out' = "Exit" \/ frames' = <<>>
                                   \/ "debugger" \in Features /\ At("call") /\ out' = "Runtime"
<1>1. Init => Alone(frames) BY InitAlone
<1>2. Alone(frames) /\ [Next]_vars => Alone(frames)' BY NextAlone
<1>3. Alone(frames) /\ [Next]_vars => [Ends]_vars BY ExitGoesOut DEF Next, Done
<1>4. Spec => [][Ends]_vars BY <1>1, <1>2, <1>3, PTL DEF Spec
<1> QED BY <1>4 DEF ExitEndsScript

-----------------------------------------------------------------------------
\* The limit on variables is tested when a definition or a loop begins, and used when the
\* initial value or the iterable is there.  In between there are at most blocks and calls on
\* the stack, entered with as many variables as there were at the test.
Holding == {"let", "iter"}
Passing == {"block", "call"}

Fit(f) ==
  /\ f.orig.scope \in 0..MaxVars
  /\ f.kind = "let" /\ f.info \notin Reuses => f.orig.scope + 1 \in 0..MaxVars
  /\ f.kind = "iter" => f.orig.scope + (IF f.info = "counter" THEN 2 ELSE 1) \in 0..MaxVars
  /\ f.kind = "catch" => f.info = "Runtime"
  /\ f.kind \notin {"eval", "module", "path"}

IsState(s) == "scope" \in DOMAIN s /\ s.scope \in 0..MaxVars

Fits(fs, s) ==
  /\ IsStack(fs)
  /\ IsState(s)
  /\ \A i \in 1..Len(fs) : Fit(fs[i])
  /\ \A i \in 1..(Len(fs) - 1) :
       fs[i].kind \in Holding => fs[i + 1].kind \in Passing /\ fs[i + 1].orig.scope = fs[i].orig.scope
  /\ fs # <<>> /\ fs[Len(fs)].kind \in Holding => s.scope = fs[Len(fs)].orig.scope

LInv == Fits(frames, st) /\ out # "Wrapped"

LEMMA PushFits ==
  ASSUME NEW fs, NEW s, Fits(fs, s), NEW f, IsFrame(f), f.orig = s, Fit(f),
         fs # <<>> /\ fs[Len(fs)].kind \in Holding => f.kind \in Passing,
         NEW t, IsState(t), f.kind \in Holding => t.scope = s.scope
  PROVE  Fits(Append(fs, f), t)
<1> DEFINE gs == Append(fs, f)
           n  == Len(fs)
<1>1. /\ IsStack(gs) /\ gs # <<>> /\ Len(gs) = n + 1 /\ gs[n + 1] = f
      /\ \A i \in 1..n : gs[i] = fs[i]
      /\ n \in Nat
  BY PushStack, StackLen DEF Fits
<1> HIDE DEF gs
<1>2. ASSUME NEW i \in 1..Len(gs) PROVE Fit(gs[i])
  <2>1. i \in 1..n \/ i = n + 1 BY <1>1
  <2> QED BY <1>1, <2>1 DEF Fits
<1>3. ASSUME NEW i \in 1..(Len(gs) - 1), gs[i].kind \in Holding
      PROVE  gs[i + 1].kind \in Passing /\ gs[i + 1].orig.scope = gs[i].orig.scope
  <2>1. CASE i = n
    <3>1. fs # <<>> /\ gs[i] = fs[n]
      <4>1. n # 0 /\ i \in 1..n BY <1>1, <2>1
      <4> QED BY <1>1, <2>1, <4>1
    <3> QED BY <1>1, <1>3, <2>1, <3>1 DEF Fits
  <2>2. CASE i # n
    <3>1. i \in 1..(n - 1) /\ gs[i] = fs[i] /\ gs[i + 1] = fs[i + 1] BY <1>1, <2>2
    <3> QED BY <1>3, <3>1 DEF Fits
  <2> QED BY <2>1, <2>2
<1>4. gs[Len(gs)].kind \in Holding => t.scope = gs[Len(gs)].orig.scope BY <1>1
<1>5. Fits(gs, t) BY <1>1, <1>2, <1>3, <1>4 DEF Fits
<1> QED BY <1>5 DEF gs

LEMMA PopFits ==
  ASSUME NEW fs, NEW s, Fits(fs, s), fs # <<>>, NEW t, IsState(t),
         fs[Len(fs)].kind \in Passing => t.scope = fs[Len(fs)].orig.scope
  PROVE  Fits(SubSeq(fs, 1, Len(fs) - 1), t)
<1> DEFINE gs == SubSeq(fs, 1, Len(fs) - 1)
           n  == Len(fs) - 1
<1>1. /\ IsStack(gs) /\ Len(gs) = n
      /\ \A i \in 1..n : gs[i] = fs[i]
      /\ n \in Nat /\ Len(fs) = n + 1
  BY PopStack, StackLen DEF Fits
<1> HIDE DEF gs, n
<1>2. \A i \in 1..n : Fit(gs[i]) BY <1>1 DEF Fits
<1>3. ASSUME NEW i \in 1..(n - 1), gs[i].kind \in Holding
      PROVE  gs[i + 1].kind \in Passing /\ gs[i + 1].orig.scope = gs[i].orig.scope
  <2>1. i \in 1..(Len(fs) - 1) /\ gs[i] = fs[i] /\ gs[i + 1] = fs[i + 1] BY <1>1
  <2> QED BY <1>3, <2>1 DEF Fits
<1>4. ASSUME gs # <<>>, gs[n].kind \in Holding PROVE t.scope = gs[n].orig.scope
  <2>1. n \in 1..(Len(fs) - 1) /\ gs[n] = fs[n] BY <1>1, <1>4, StackLen
  <2>2. fs[n + 1].kind \in Passing /\ fs[n + 1].orig.scope = fs[n].orig.scope BY <1>4, <2>1 DEF Fits
  <2> QED BY <1>1, <2>1, <2>2
<1>5. Fits(gs, t) BY <1>1, <1>2, <1>3, <1>4 DEF Fits
<1> QED BY <1>5 DEF gs, n

LEMMA ReplaceFits ==
  ASSUME NEW fs, NEW s, Fits(fs, s), fs # <<>>, fs[Len(fs)].kind \notin Passing,
         NEW f, IsFrame(f), Fit(f), f.kind \notin Holding, NEW t, IsState(t)
  PROVE  Fits([fs EXCEPT ![Len(fs)] = f], t)
<1> DEFINE gs == [fs EXCEPT ![Len(fs)] = f]
           n  == Len(fs)
<1>1. /\ IsStack(gs) /\ gs # <<>> /\ Len(gs) = n /\ gs[n] = f
      /\ \A i \in 1..(n - 1) : gs[i] = fs[i]
      /\ n \in Nat /\ n # 0
  BY ReplaceStack, StackLen DEF Fits
<1> HIDE DEF gs, n
<1>2. ASSUME NEW i \in 1..n PROVE Fit(gs[i])
  <2>1. i \in 1..(n - 1) \/ i = n BY <1>1
  <2> QED BY <1>1, <2>1 DEF Fits, n
<1>3. ASSUME NEW i \in 1..(n - 1), gs[i].kind \in Holding
      PROVE  gs[i + 1].kind \in Passing /\ gs[i + 1].orig.scope = gs[i].orig.scope
  <2>1. fs[i + 1].kind \in Passing /\ fs[i + 1].orig.scope = fs[i].orig.scope /\ gs[i] = fs[i]
    BY <1>1, <1>3 DEF Fits, n
  <2>2. i + 1 # n BY <2>1 DEF n
  <2>3. gs[i + 1] = fs[i + 1] BY <1>1, <2>2
  <2> QED BY <2>1, <2>3
<1>4. Fits(gs, t) BY <1>1, <1>2, <1>3 DEF Fits
<1> QED BY <1>4 DEF gs, n

LEMMA BlockFits ==
  ASSUME NEW fs, NEW s, Fits(fs, s), NEW b, RunBlock(fs, s, b)
  PROVE  LInv'
<1> DEFINE f == Block(s, b)
           t == [s EXCEPT !.scope_level = @ + 1]
<1>1. IsFrame(f) /\ f.kind = "block" /\ f.orig = s BY NewFrames
<1>2. Fit(f) BY <1>1 DEF Fit, Fits, IsState
<1>3. IsState(t) BY DEF IsState, Fits
<1> HIDE DEF f, t
<1>4. Fits(Append(fs, f), t) BY <1>1, <1>2, <1>3, PushFits DEF Passing, Holding
<1> QED BY <1>4 DEF RunBlock, LInv, f, t

LEMMA LeaveFits ==
  ASSUME LInv, frames # <<>>, NEW o, o # "Wrapped", NEW s, IsState(s), Leave(o, s),
         Top.kind \in Passing => s.scope = Top.orig.scope
  PROVE  LInv'
<1>1. Fits(SubSeq(frames, 1, Len(frames) - 1), s) BY PopFits DEF LInv, Top
<1> QED BY <1>1 DEF LInv, Leave, Popped

LEMMA TopFits ==
  ASSUME LInv, frames # <<>>
  PROVE  /\ IsFrame(Top) /\ Fit(Top)
         /\ IsState(st) /\ IsStack(frames)
         /\ Top.kind \in Holding => st.scope = Top.orig.scope
<1>1. Len(frames) \in 1..Len(frames) BY StackLen DEF LInv, Fits
<1> QED BY <1>1 DEF LInv, Fits, Top, IsStack

\* A frame other than a catch clause that is not entered on top of a test of the limit.
LEMMA NewFits ==
  ASSUME LInv, NEW k, NEW i, NEW b,
         k \in {"cond", "body", "forbody", "try", "call"} \/ (k = "catch" /\ i = "Runtime")
  PROVE  /\ IsFrame(NewFrame(k, i, b)) /\ Fit(NewFrame(k, i, b))
         /\ NewFrame(k, i, b).kind = k /\ NewFrame(k, i, b).orig = st
         /\ NewFrame(k, i, b).kind \notin Holding
<1> DEFINE f == NewFrame(k, i, b)
<1>1. IsFrame(f) /\ f.kind = k /\ f.info = i /\ f.orig = st BY NewFrames
<1> HIDE DEF f
<1>2. Fit(f) /\ f.kind \notin Holding BY <1>1 DEF Fit, Holding, LInv, Fits, IsState
<1> QED BY <1>1, <1>2 DEF f

LEMMA TurnFits ==
  ASSUME LInv, frames # <<>>, Top.kind \in {"cond", "body"}, NEW k \in {"cond", "body"}
  PROVE  Fits([frames EXCEPT ![Len(frames)].kind = k], st)
<1> DEFINE f == [frames[Len(frames)] EXCEPT !.kind = k]
<1>1. IsFrame(Top) /\ Fit(Top) /\ IsState(st) BY TopFits
<1>2. /\ [frames EXCEPT ![Len(frames)].kind = k] = [frames EXCEPT ![Len(frames)] = f]
      /\ IsFrame(f) /\ f.kind = k /\ f.orig = Top.orig
  BY <1>1, TurnFrame DEF Top
<1> HIDE DEF f
<1>3. Fit(f) /\ f.kind \notin Holding BY <1>1, <1>2 DEF Fit, Holding
<1>4. Fits([frames EXCEPT ![Len(frames)] = f], st)
  BY <1>1, <1>2, <1>3, ReplaceFits DEF LInv, Top, Passing
<1> QED BY <1>2, <1>4

-----------------------------------------------------------------------------
\* One lemma for the actions of each statement.
LEMMA PlainStepFits ==
  ASSUME LInv,
         \/ track_operation \/ Simple \/ Throw \/ Stmt_Return \/ exit
         \/ Stmt_BreakLoop \/ EndOfStatements \/ Done \/ UNCHANGED vars
  PROVE  LInv'
<1>1. UNCHANGED <<frames, st>>
  BY DEF track_operation, Simple, Throw, Stmt_Return, exit, Stmt_BreakLoop, EndOfStatements,
         Done, Raise, vars
<1>2. out' # "Wrapped"
  BY DEF track_operation, Simple, Throw, Stmt_Return, exit, Stmt_BreakLoop, EndOfStatements,
         Done, Raise, vars, LInv
<1> QED BY <1>1, <1>2 DEF LInv

LEMMA RaiseFits ==
  ASSUME LInv, NEW e \in {"System", "Runtime"}, Raise(e) PROVE LInv'
BY DEF LInv, Raise

LEMMA BlockStepFits ==
  ASSUME LInv, Stmt_Block \/ LeaveBlock PROVE LInv'
<1>1. CASE Stmt_Block BY <1>1, BlockFits DEF Stmt_Block, LInv
<1>2. CASE LeaveBlock
  <2> DEFINE s == RestoredBlock(st, Top.orig)
  <2>1. frames # <<>> /\ Leave(Resume(out), s) /\ Resume(out) # "Wrapped"
    BY <1>2 DEF LeaveBlock, At, Resume, LInv
  <2>2. Fit(Top) /\ IsState(st) BY <2>1, TopFits
  <2>3. s.scope = Top.orig.scope /\ "scope" \in DOMAIN s BY <2>2 DEF RestoredBlock, IsState
  <2>4. IsState(s) BY <2>2, <2>3 DEF IsState, Fit
  <2> HIDE DEF s
  <2> QED BY <2>1, <2>3, <2>4, LeaveFits
<1> QED BY <1>1, <1>2

LEMMA OutStepFits ==
  ASSUME LInv, LeaveInPlace \/ Propagate PROVE LInv'
<1>1. frames # <<>> /\ Top.kind \in {"inplace"} \cup Waits BY DEF LeaveInPlace, Propagate, At
<1>2. PICK o : o # "Wrapped" /\ Leave(o, st) BY DEF LeaveInPlace, Propagate, LInv
<1> QED BY <1>1, <1>2, TopFits, LeaveFits DEF Waits, Passing

LEMMA VarStepFits ==
  ASSUME LInv, Stmt_Var PROVE LInv'
<1>1. frames # <<>> /\ Top.kind \in Codes BY DEF Stmt_Var, InCode
<1>2. ASSUME NEW i \in {"let", "const", "reuse", "reconst"}, i \in Reuses \/ ~TooManyVariables(st.scope),
             frames' = Append(frames, NewFrame("let", i, Top.brk)), UNCHANGED <<st, out>>
      PROVE  LInv'
  <2> DEFINE f == NewFrame("let", i, Top.brk)
  <2>1. IsFrame(f) /\ f.kind = "let" /\ f.info = i /\ f.orig = st BY NewFrames
  <2> HIDE DEF f
  <2>2. IsState(st) BY <1>1, TopFits
  <2>3. i \notin Reuses => st.scope + 1 \in 0..MaxVars
    BY <1>2, <2>2, EvaluatorAssumption DEF TooManyVariables, IsState
  <2>4. Fit(f) BY <2>1, <2>2, <2>3 DEF Fit, IsState
  <2>5. Fits(Append(frames, f), st) BY <1>1, <2>1, <2>2, <2>4, PushFits DEF LInv, Top, Codes, Holding
  <2> QED BY <1>2, <2>5 DEF LInv, f
<1> QED BY <1>2, RaiseFits DEF Stmt_Var

LEMMA DefineStepFits ==
  ASSUME LInv, DefineVar PROVE LInv'
<1>1. frames # <<>> /\ Top.kind = "let" BY DEF DefineVar, At
<1>2. IsState(st) /\ Fit(Top) /\ st.scope = Top.orig.scope BY <1>1, TopFits DEF Holding
<1> DEFINE n == IF Top.info \in Reuses THEN st.scope ELSE st.scope + 1
<1>3. n \in 0..MaxVars BY <1>1, <1>2 DEF Fit, IsState
<1>4. PICK c, d : Leave("Run", [st EXCEPT !.scope = n, !.constants = c, !.declared = d]) BY DEF DefineVar
<1>5. IsState([st EXCEPT !.scope = n, !.constants = c, !.declared = d]) BY <1>2, <1>3 DEF IsState
<1> QED BY <1>1, <1>4, <1>5, LeaveFits DEF Passing

LEMMA LoopStepFits ==
  ASSUME LInv, Stmt_Loop \/ Stmt_TryCatch PROVE LInv'
<1>1. frames # <<>> /\ Top.kind \in Codes /\ IsState(st) BY TopFits DEF Stmt_Loop, Stmt_TryCatch, InCode
<1>2. ASSUME NEW k \in {"cond", "body", "try"}, NEW i, NEW b
      PROVE  Fits(Append(frames, NewFrame(k, i, b)), st)
  <2>1. IsFrame(NewFrame(k, i, b)) /\ Fit(NewFrame(k, i, b)) /\ NewFrame(k, i, b).orig = st
        /\ NewFrame(k, i, b).kind \notin Holding
    BY NewFits
  <2> QED BY <1>1, <2>1, PushFits DEF LInv, Top, Codes, Holding
<1>3. CASE Stmt_Loop
  <2>1. CASE frames' = Append(frames, NewFrame("cond", "while", Top.brk)) /\ UNCHANGED <<st, out>>
    BY <1>2, <2>1 DEF LInv
  <2>2. ASSUME NEW i \in {"do", "loop"},
               RunBlock(Append(frames, NewFrame("body", i, Top.brk)), st, TRUE)
        PROVE  LInv'
    BY <1>2, <2>2, BlockFits
  <2> QED BY <1>3, <2>1, <2>2 DEF Stmt_Loop
<1>4. CASE Stmt_TryCatch BY <1>2, <1>4, BlockFits DEF Stmt_TryCatch
<1> QED BY <1>3, <1>4

LEMMA TurnStepFits ==
  ASSUME LInv, Condition \/ LoopBody PROVE LInv'
<1>1. frames # <<>> /\ Top.kind \in {"cond", "body"} BY DEF Condition, LoopBody, At
<1>2. IsState(st) BY <1>1, TopFits
<1>3. ASSUME NEW o, o # "Wrapped", Leave(o, st) PROVE LInv' BY <1>1, <1>2, <1>3, LeaveFits DEF Passing
<1>4. CASE Condition
  <2>1. CASE Leave("Run", st) BY <1>3, <2>1
  <2>2. CASE RunBlock([frames EXCEPT ![Len(frames)].kind = "body"], st, TRUE)
    BY <1>1, <2>2, TurnFits, BlockFits
  <2> QED BY <1>4, <2>1, <2>2 DEF Condition
<1>5. CASE LoopBody
  <2>1. CASE frames' = [frames EXCEPT ![Len(frames)].kind = "cond"] /\ out' = "Run" /\ UNCHANGED st
    BY <1>1, <2>1, TurnFits DEF LInv
  <2>2. CASE RunBlock(frames, st, TRUE) BY <2>2, BlockFits DEF LInv
  <2>3. CASE Leave(IF out = "Break" THEN Resume("Ok") ELSE out, st)
    <3>1. (IF out = "Break" THEN Resume("Ok") ELSE out) # "Wrapped" BY DEF Resume, LInv
    <3> QED BY <1>3, <2>3, <3>1
  <2> QED BY <1>5, <2>1, <2>2, <2>3 DEF LoopBody
<1> QED BY <1>4, <1>5

\* The test of Stmt::For does not wrap around.
LEMMA ForTest ==
  ASSUME MaxVars > 0, NEW c \in {0, 1}
  PROVE  (MaxVars + WordSize - c) % WordSize = MaxVars - c
<1> DEFINE a == MaxVars + WordSize - c
           q == a \div WordSize
           r == a % WordSize
<1>1. a \in Nat /\ WordSize \in Nat \ {0} /\ MaxVars \in Nat /\ WordSize > MaxVars BY EvaluatorAssumption
<1>2. q \in Nat /\ r \in Nat /\ r < WordSize /\ a = WordSize * q + r BY <1>1
<1> HIDE DEF q, r, a
<1>3. q = 1
  <2>1. CASE q = 0 BY <1>1, <1>2, <2>1 DEF a
  <2>2. CASE q >= 2
    <3>1. WordSize * q >= WordSize * 2 BY <1>1, <1>2, <2>2
    <3> QED BY <1>1, <1>2, <3>1 DEF a
  <2> QED BY <1>2, <2>1, <2>2
<1> QED BY <1>1, <1>2, <1>3 DEF a, r

LEMMA ForStepFits ==
  ASSUME MaxVars > 0, LInv, Stmt_For \/ Iterable \/ ForBody PROVE LInv'
<1>1. frames # <<>> BY DEF Stmt_For, Iterable, ForBody, InCode, At
<1>2. IsState(st) /\ Fit(Top) /\ IsFrame(Top) BY <1>1, TopFits
<1>3. CASE Stmt_For
  <2>1. Top.kind \in Codes BY <1>3 DEF Stmt_For, InCode
  <2>2. ASSUME NEW c \in {0, 1}, ~(st.scope >= (MaxVars + WordSize - c) % WordSize),
               frames' = Append(frames, NewFrame("iter", IF c = 1 THEN "counter" ELSE "", Top.brk)),
               UNCHANGED <<st, out>>
        PROVE  LInv'
    <3> DEFINE i == IF c = 1 THEN "counter" ELSE ""
               f == NewFrame("iter", i, Top.brk)
    <3>1. IsFrame(f) /\ f.kind = "iter" /\ f.info = i /\ f.orig = st
      <4> HIDE DEF i
      <4> QED BY NewFrames
    <3> HIDE DEF f
    <3>2. st.scope + (IF i = "counter" THEN 2 ELSE 1) \in 0..MaxVars
      <4>1. ~(st.scope >= (MaxVars + WordSize - c) % WordSize) BY <2>2, Zenon
      <4>2. (MaxVars + WordSize - c) % WordSize = MaxVars - c BY ForTest
      <4>3. ~(st.scope >= MaxVars - c) BY <4>1, <4>2, Zenon
      <4>4. st.scope \in 0..MaxVars BY <1>2 DEF IsState
      <4> QED BY <4>3, <4>4, EvaluatorAssumption
    <3> HIDE DEF i
    <3>3. Fit(f) BY <1>2, <3>1, <3>2 DEF Fit, IsState
    <3>4. Fits(Append(frames, f), st)
      BY <1>1, <1>2, <2>1, <3>1, <3>3, PushFits DEF LInv, Top, Codes, Holding
    <3> QED BY <2>2, <3>4 DEF LInv, f, i
  <2> QED BY <1>3, <2>2, RaiseFits DEF Stmt_For
<1>4. CASE Iterable
  <2> DEFINE f == NewFrame("forbody", "", Top.brk)
             t == [st EXCEPT !.scope = @ + IF Top.info = "counter" THEN 2 ELSE 1]
  <2>1. Top.kind = "iter" /\ frames' = [frames EXCEPT ![Len(frames)] = f] /\ st' = t /\ out' = "Ok"
    BY <1>4 DEF Iterable, At
  <2>2. st.scope = Top.orig.scope BY <1>1, <2>1, TopFits DEF Holding
  <2>3. IsState(t) BY <1>2, <2>1, <2>2 DEF IsState, Fit
  <2>4. IsFrame(f) /\ Fit(f) /\ f.kind \notin Holding BY NewFits
  <2> HIDE DEF f, t
  <2>5. Fits([frames EXCEPT ![Len(frames)] = f], t)
    BY <1>1, <2>1, <2>3, <2>4, ReplaceFits DEF LInv, Top, Passing
  <2> QED BY <2>1, <2>5 DEF LInv
<1>5. CASE ForBody
  <2>1. Top.kind = "forbody" BY <1>5 DEF ForBody, At
  <2>2. CASE RunBlock(frames, st, TRUE) BY <2>2, BlockFits DEF LInv
  <2>3. IsState(Rewound(st, Top.orig)) BY <1>2 DEF Rewound, IsState, Fit
  <2>4. ASSUME NEW o, o # "Wrapped", Leave(o, Rewound(st, Top.orig)) PROVE LInv'
    BY <1>1, <2>1, <2>3, <2>4, LeaveFits DEF Passing
  <2>5. Resume("Ok") # "Wrapped" /\ out # "Wrapped" BY DEF Resume, LInv
  <2> QED BY <1>5, <2>2, <2>4, <2>5 DEF ForBody
<1> QED BY <1>3, <1>4, <1>5

LEMMA TryStepFits ==
  ASSUME LInv, TryBody \/ CatchBody PROVE LInv'
<1>1. frames # <<>> /\ Top.kind \in {"try", "catch"} BY DEF TryBody, CatchBody, At
<1>2. IsState(st) /\ Fit(Top) BY <1>1, TopFits
<1>3. Resume(out) # "Wrapped" /\ out # "Wrapped" BY DEF Resume, LInv
<1>4. CASE TryBody
  <2>1. ASSUME NEW o, o # "Wrapped", Leave(o, st) PROVE LInv' BY <1>1, <1>2, <2>1, LeaveFits DEF Passing
  <2>2. ASSUME NEW v \in {0, 1}, is_catchable(out), ~(v = 1 /\ TooManyVariables(st.scope)),
               RunBlock([frames EXCEPT ![Len(frames)] = NewFrame("catch", out, Top.brk)],
                        [st EXCEPT !.scope = @ + v], Top.brk)
        PROVE  LInv'
    <3> DEFINE f == NewFrame("catch", out, Top.brk)
               t == [st EXCEPT !.scope = @ + v]
    <3>1. out = "Runtime" BY <1>3, <2>2 DEF is_catchable
    <3>2. IsFrame(f) /\ Fit(f) /\ f.kind \notin Holding BY <3>1, NewFits
    <3>3. st.scope + v \in 0..MaxVars BY <1>2, <2>2, EvaluatorAssumption DEF IsState, TooManyVariables
    <3>4. IsState(t) BY <1>2, <3>3 DEF IsState
    <3> HIDE DEF f, t
    <3>5. Fits([frames EXCEPT ![Len(frames)] = f], t)
      BY <1>1, <3>2, <3>4, ReplaceFits DEF LInv, Top, Passing
    <3> QED BY <2>2, <3>5, BlockFits DEF f, t
  <2> QED BY <1>3, <1>4, <2>1, <2>2 DEF TryBody
<1>5. CASE CatchBody
  <2>1. Top.kind = "catch" /\ Top.info = "Runtime" BY <1>2, <1>5 DEF CatchBody, At, Fit
  <2>2. PICK o : o # "Wrapped" /\ Leave(o, Rewound(st, Top.orig)) BY <1>3, <1>5, <2>1 DEF CatchBody
  <2>3. IsState(Rewound(st, Top.orig)) BY <1>2 DEF Rewound, IsState, Fit
  <2> QED BY <1>1, <2>1, <2>2, <2>3, LeaveFits DEF Passing
<1> QED BY <1>4, <1>5

\* A call begins with the variables of its arguments.
LEMMA CallState ==
  ASSUME NEW m, "scope" \in DOMAIN m, NEW p, NEW l, NEW src
  PROVE  LET t == [m EXCEPT !.scope = p, !.hidden = 0, !.level = l, !.source = src]
         IN "scope" \in DOMAIN t /\ t.scope = p
OBVIOUS

LEMMA CallStepFits ==
  ASSUME LInv, call_script_fn \/ ReturnFromCall PROVE LInv'
<1>1. frames # <<>> BY DEF call_script_fn, ReturnFromCall, InExpr, At
<1>2. IsState(st) /\ Fit(Top) BY <1>1, TopFits
<1>3. ASSUME NEW env
      PROVE  /\ "scope" \in DOMAIN Merged(Debugged(st), env)
             /\ Merged(Debugged(st), env).scope = st.scope
  BY <1>2 DEF Merged, Debugged, IsState
<1>4. CASE call_script_fn
  <2>1. CASE Raise("System") BY <2>1, RaiseFits
  <2>2. ASSUME NEW p \in 0..MaxParams, NEW env, p <= MaxVars,
               RunBlock(Append(frames, NewFrame("call", IF env THEN "env" ELSE "", Top.brk)),
                        [Merged(Debugged(st), env) EXCEPT
                           !.scope = p, !.hidden = 0, !.level = @ + 1,
                           !.source = IF env THEN "module" ELSE @],
                        FnBreakable(Top.brk))
        PROVE  LInv'
    <3> DEFINE f == NewFrame("call", IF env THEN "env" ELSE "", Top.brk)
               m == Merged(Debugged(st), env)
               t == [m EXCEPT !.scope = p, !.hidden = 0, !.level = @ + 1,
                              !.source = IF env THEN "module" ELSE @]
    <3>1. IsFrame(f) /\ Fit(f) /\ f.kind = "call" /\ f.orig = st /\ f.kind \notin Holding
      <4> HIDE DEF t
      <4>1. PICK i : i = (IF env THEN "env" ELSE "") OBVIOUS
      <4>2. f = NewFrame("call", i, Top.brk) BY <4>1
      <4> HIDE DEF f
      <4> QED BY <4>2, NewFits
    <3>2. "scope" \in DOMAIN t /\ t.scope = p
      <4>1. "scope" \in DOMAIN m BY <1>3
      <4> HIDE DEF m
      <4>2. PICK l, src : l = m.level + 1 /\ src = (IF env THEN "module" ELSE m.source) OBVIOUS
      <4>3. t = [m EXCEPT !.scope = p, !.hidden = 0, !.level = l, !.source = src] BY <4>2
      <4> QED BY <4>1, <4>3, CallState
    <3>3. p \in 0..MaxVars
      <4>1. p <= MaxVars BY <2>2, Zenon
      <4> QED BY <4>1, EvaluatorAssumption
    <3>5. IsState(t)
      <4> HIDE DEF t
      <4> QED BY <3>2, <3>3 DEF IsState
    <3> HIDE DEF f, t
    <3>4. Fits(Append(frames, f), t) BY <3>1, <3>5, PushFits DEF LInv, Passing
    <3> QED BY <2>2, <3>4, BlockFits DEF f, t
  <2>3. ASSUME NEW env, st' = [Merged(Debugged(st), env) EXCEPT !.hidden = IF env THEN @ + 1 ELSE @],
               out' = "Runtime", UNCHANGED frames
        PROVE  LInv'
    <3>1. "scope" \in DOMAIN st' /\ st'.scope = st.scope
      <4> DEFINE m == Merged(Debugged(st), env)
      <4>1. st' = [m EXCEPT !.hidden = IF env THEN @ + 1 ELSE @] BY <2>3
      <4> HIDE DEF m
      <4> QED BY <1>3, <4>1 DEF m
    <3>2. IsState(st') BY <1>2, <3>1 DEF IsState
    <3> QED BY <2>3, <3>1, <3>2 DEF LInv, Fits
  <2> QED BY <1>4, <2>1, <2>2, <2>3 DEF call_script_fn
<1>5. CASE ReturnFromCall
  <2> DEFINE s == RestoredCall(st, Top)
  <2>1. s.scope = Top.orig.scope /\ "scope" \in DOMAIN s BY <1>2 DEF RestoredCall, IsState
  <2>2. IsState(s) BY <1>2, <2>1 DEF IsState, Fit
  <2>3. Resume(FromCall(out)) # "Wrapped" /\ Resume("Runtime") # "Wrapped" BY DEF Resume, FromCall, LInv
  <2>4. PICK o : o # "Wrapped" /\ Leave(o, s) BY <1>5, <2>3 DEF ReturnFromCall
  <2> HIDE DEF s
  <2> QED BY <1>1, <2>1, <2>2, <2>4, LeaveFits
<1> QED BY <1>4, <1>5

\* Without eval and import there are no frames of their own.
LEMMA NoTexts ==
  ASSUME LInv, "eval" \notin Features, "import" \notin Features
  PROVE  ~(eval \/ ReturnFromEval \/ Stmt_Import \/ LoadedModule \/ EvalModule \/ ReturnFromModule)
<1>1. ASSUME NEW k \in {"eval", "path", "module"}, At(k) PROVE FALSE BY <1>1, TopFits DEF At, Fit
<1> QED BY <1>1 DEF eval, ReturnFromEval, Stmt_Import, LoadedModule, EvalModule, ReturnFromModule

LEMMA NextFits ==
  ASSUME MaxVars > 0, "eval" \notin Features, "import" \notin Features, LInv, [Next]_vars
  PROVE  LInv'
BY PlainStepFits, BlockStepFits, OutStepFits, VarStepFits, DefineStepFits, LoopStepFits,
   TurnStepFits, ForStepFits, TryStepFits, CallStepFits, NoTexts
DEF Next, Step

LEMMA InitFits == ASSUME Init PROVE LInv
<1> DEFINE f == InPlace(Start, "whole")
<1>1. frames = <<f>> /\ f.kind = "inplace" /\ f.orig = Start /\ IsStack(frames) /\ st = Start
  BY NewFrames, InitAlone DEF Init, Alone, InPlace
<1>2. IsState(Start) /\ Start.scope \in 0..MaxVars BY EvaluatorAssumption DEF IsState, Start
<1>3. Fit(f) BY <1>1, <1>2 DEF Fit
<1> HIDE DEF f
<1>4. Len(frames) = 1 /\ frames[1] = f BY <1>1
<1>5. (\A i \in 1..Len(frames) : frames[i] = f) /\ 1..(Len(frames) - 1) = {} BY <1>4
<1>6. Fits(frames, st) BY <1>1, <1>2, <1>3, <1>4, <1>5 DEF Fits, Holding
<1> QED BY <1>6 DEF LInv, Init

\* A script without eval and import never has more variables in scope than max_variables
\* allows, at any instant, and no catch clause runs for an exceeded limit or a termination.
THEOREM LimitsAreKept ==
  ASSUME MaxVars > 0, "eval" \notin Features, "import" \notin Features
  PROVE  Spec => []LimitsHold
<1>1. Init => LInv BY InitFits
<1>2. LInv /\ [Next]_vars => LInv' BY NextFits
<1>3. LInv => LimitsHold
  <2> SUFFICES ASSUME LInv PROVE LimitsHold OBVIOUS
  <2>1. st.scope <= MaxVars BY EvaluatorAssumption DEF LInv, Fits, IsState
  <2>2. \A i \in 1..Len(frames) : frames[i].kind = "catch" => frames[i].info = "Runtime"
    BY DEF LInv, Fits, Fit
  <2> QED BY <2>1, <2>2 DEF LimitsHold, VariablesWithinLimit, SystemErrorsNotCaught
<1> QED BY <1>1, <1>2, <1>3, PTL DEF Spec
=============================================================================
