--------------------------- MODULE InternerProofs ---------------------------
(***************************************************************************)
(* For any number of threads, any texts, categories, bloom filter and      *)
(* capacities, with or without overflow checks: the interner serves every  *)
(* thread the string it asked for, and keeps within its capacity.          *)
(***************************************************************************)
EXTENDS Interner, FiniteSetTheorems, TLAPS

\* Whoever is inside holds the write lock, and no one else does.
Inside(t) == pc[t] \in {"lookup", "throttle", "unlock"}
OneInside == \A t \in Threads : Inside(t) <=> holder = {t}

\* A cached string is what the mapper makes of the text hashed to its slot.
CacheIsTruthful == \A h \in Hashes : cache[h] \in {NoString, mapper(h)}

\* A request under way has a text, and once past the lookup also its answer.
RequestInProgress ==
  \A t \in Threads :
    /\ pc[t] \in {"locking", "lookup", "throttle", "unlock"} => want[t] \in Strings
    /\ pc[t] \in {"throttle", "unlock"} => result[t] = mapper(want[t])

IInv ==
  /\ TypeOK
  /\ OneInside
  /\ ServesWhatWasAsked
  /\ CachedIsMarked
  /\ InsertedSurvives
  /\ CacheIsTruthful
  /\ RequestInProgress

-----------------------------------------------------------------------------
\* A pair is not the empty tuple that stands for "no string".
LEMMA PairsAreStrings ==
  /\ NoString \notin Strings
  /\ NoHash \notin Strings
  /\ \A w \in Strings : calc_hash(w) = w /\ mapper(w) = w
  /\ Hashes = Strings
BY DEF NoString, NoHash, Strings, Hashes, calc_hash, mapper

LEMMA InitIInv == Init => IInv
<1> SUFFICES ASSUME Init PROVE IInv
  OBVIOUS
<1> USE PairsAreStrings DEF Init, EmptyCache
<1>1. TypeOK
  <2>1. tries \in [Threads -> 0..SpinTries]
    BY InternerAssumption
  <2>2. /\ cache \in [Hashes -> Strings \cup {NoString}]
        /\ want \in [Threads -> Strings \cup {NoHash}]
        /\ result \in [Threads -> Strings \cup {NoString}]
    OBVIOUS
  <2>3. /\ pc \in [Threads -> {"idle", "locking", "lookup", "throttle", "unlock", "panicked"}]
        /\ bloom \subseteq {Slot[h] : h \in Hashes}
        /\ holder \subseteq Threads
    OBVIOUS
  <2> QED
    BY <2>1, <2>2, <2>3 DEF TypeOK
<1>2. OneInside /\ InsertedSurvives /\ RequestInProgress /\ ServesWhatWasAsked
  BY DEF OneInside, Inside, InsertedSurvives, RequestInProgress, ServesWhatWasAsked
<1>3. CachedIsMarked /\ CacheIsTruthful
  BY DEF CachedIsMarked, Cached, CacheIsTruthful
<1> QED
  BY <1>1, <1>2, <1>3 DEF IInv

-----------------------------------------------------------------------------
LEMMA RequestIInv ==
  ASSUME IInv, NEW t \in Threads, NEW w \in Strings, Request(t, w)
  PROVE  IInv'
<1> USE PairsAreStrings DEF IInv, Request
<1>1. TypeOK'
  BY InternerAssumption DEF TypeOK
<1>2. OneInside'
  BY DEF TypeOK, OneInside, Inside
<1>3. ServesWhatWasAsked'
  BY DEF TypeOK, ServesWhatWasAsked
<1>4. CachedIsMarked' /\ CacheIsTruthful'
  BY DEF CachedIsMarked, Cached, CacheIsTruthful
<1>5. InsertedSurvives'
  BY DEF TypeOK, InsertedSurvives, Cached
<1>6. RequestInProgress'
  BY DEF TypeOK, RequestInProgress
<1> QED
  BY <1>1, <1>2, <1>3, <1>4, <1>5, <1>6

LEMMA LockingIInv ==
  ASSUME IInv, NEW t \in Threads, Lock(t) \/ Spin(t) \/ GiveUp(t)
  PROVE  IInv'
<1> USE PairsAreStrings DEF IInv
<1> UNCHANGED <<max, cache, bloom, poisoned, want>>
  BY DEF Lock, Spin, GiveUp
<1>1. TypeOK'
  BY InternerAssumption DEF TypeOK, RequestInProgress, Lock, Spin, GiveUp
<1>2. OneInside'
  BY DEF TypeOK, OneInside, Inside, Lock, Spin, GiveUp
<1>3. ServesWhatWasAsked'
  BY DEF TypeOK, ServesWhatWasAsked, Lock, Spin, GiveUp
<1>4. CachedIsMarked' /\ CacheIsTruthful'
  BY DEF CachedIsMarked, Cached, CacheIsTruthful
<1>5. InsertedSurvives'
  BY DEF TypeOK, InsertedSurvives, Cached, Lock, Spin, GiveUp
<1>6. RequestInProgress'
  BY DEF TypeOK, RequestInProgress, Lock, Spin, GiveUp
<1> QED
  BY <1>1, <1>2, <1>3, <1>4, <1>5, <1>6

LEMMA LookupIInv ==
  ASSUME IInv, NEW t \in Threads, get_with_mapper(t)
  PROVE  IInv'
<1> USE PairsAreStrings DEF IInv
<1> DEFINE w == want[t]
<1>0. /\ w \in Strings
      /\ pc[t] = "lookup"
      /\ bloom \subseteq bloom'
      /\ UNCHANGED <<max, holder, poisoned, want, tries>>
  BY DEF RequestInProgress, get_with_mapper
<1>1. \/ /\ result' = [result EXCEPT ![t] = w]
         /\ pc' = [pc EXCEPT ![t] = "unlock"]
         /\ cache' = cache
      \/ /\ cache' = [cache EXCEPT ![w] = w]
         /\ Slot[w] \in bloom
         /\ result' = [result EXCEPT ![t] = w]
         /\ pc' \in {[pc EXCEPT ![t] = "unlock"], [pc EXCEPT ![t] = "throttle"]}
  BY <1>0 DEF get_with_mapper, Uncached, Cached, CacheIsTruthful
<1>2. bloom' \subseteq {Slot[h] : h \in Hashes}
  BY <1>0 DEF get_with_mapper, TypeOK
<1>3. TypeOK'
  BY <1>0, <1>1, <1>2 DEF TypeOK
<1>4. OneInside'
  BY <1>0, <1>1 DEF TypeOK, OneInside, Inside
<1>5. ServesWhatWasAsked'
  BY <1>0, <1>1 DEF TypeOK, ServesWhatWasAsked
<1>6. CachedIsMarked' /\ CacheIsTruthful'
  BY <1>0, <1>1 DEF TypeOK, CachedIsMarked, Cached, CacheIsTruthful
<1>7. InsertedSurvives'
  <2> SUFFICES ASSUME NEW u \in Threads, pc'[u] = "throttle"
               PROVE  cache'[want[u]] # NoString
    <3>1. \A u \in Threads : pc'[u] = "throttle" => want[u] \in Strings
      BY <1>0, <1>1 DEF RequestInProgress, TypeOK
    <3> QED
      BY <1>0, <3>1 DEF InsertedSurvives, Cached
  <2>1. CASE u = t
    BY <1>0, <1>1, <2>1 DEF TypeOK
  <2>2. CASE u # t
    BY <1>0, <1>1, <2>2 DEF TypeOK, OneInside, Inside
  <2> QED
    BY <2>1, <2>2
<1>8. RequestInProgress'
  BY <1>0, <1>1 DEF TypeOK, RequestInProgress
<1> QED
  BY <1>3, <1>4, <1>5, <1>6, <1>7, <1>8

LEMMA ThrottleIInv ==
  ASSUME IInv, NEW t \in Threads, throttle_cache(t)
  PROVE  IInv'
<1> USE PairsAreStrings DEF IInv
<1>0. /\ want[t] \in Strings
      /\ pc[t] = "throttle"
      /\ UNCHANGED <<max, bloom, holder, poisoned, want, tries, result>>
  BY DEF RequestInProgress, throttle_cache
<1>1. \/ /\ \E v \in Hashes \ {want[t]} : cache' = [cache EXCEPT ![v] = NoString]
         /\ pc' = pc
      \/ /\ cache' = cache
         /\ pc' \in {pc, [pc EXCEPT ![t] = "unlock"]}
  BY <1>0 DEF throttle_cache, Victims, Cached
<1>2. \A h \in Hashes : cache'[h] \in {cache[h], NoString}
  BY <1>1 DEF TypeOK
<1>3. TypeOK'
  BY <1>0, <1>1 DEF TypeOK
<1>4. OneInside'
  BY <1>0, <1>1 DEF TypeOK, OneInside, Inside
<1>5. ServesWhatWasAsked'
  BY <1>0, <1>1 DEF TypeOK, ServesWhatWasAsked
<1>6. CachedIsMarked' /\ CacheIsTruthful'
  BY <1>0, <1>2 DEF CachedIsMarked, Cached, CacheIsTruthful
<1>7. InsertedSurvives'
  <2> SUFFICES ASSUME NEW u \in Threads, pc'[u] = "throttle"
               PROVE  calc_hash(want[u]) \in Cached'
    BY <1>0 DEF InsertedSurvives
  <2>1. u = t
    BY <1>0, <1>1 DEF OneInside, Inside, TypeOK
  <2>2. cache[want[t]] # NoString
    BY <1>0 DEF InsertedSurvives, Cached
  <2>3. cache'[want[t]] = cache[want[t]]
    BY <1>0, <1>1 DEF TypeOK
  <2> QED
    BY <1>0, <2>1, <2>2, <2>3 DEF Cached
<1>8. RequestInProgress'
  BY <1>0, <1>1 DEF TypeOK, RequestInProgress
<1> QED
  BY <1>3, <1>4, <1>5, <1>6, <1>7, <1>8

LEMMA LeaveIInv ==
  ASSUME IInv, NEW t \in Threads, Panic(t) \/ Unlock(t)
  PROVE  IInv'
<1> USE PairsAreStrings DEF IInv
<1> UNCHANGED <<max, cache, bloom, want, tries, result>>
  BY DEF Panic, Unlock
<1>1. TypeOK'
  BY DEF TypeOK, Panic, Unlock
<1>2. OneInside'
  BY DEF TypeOK, OneInside, Inside, Panic, Unlock
<1>3. ServesWhatWasAsked'
  BY DEF TypeOK, ServesWhatWasAsked, RequestInProgress, Panic, Unlock
<1>4. CachedIsMarked' /\ CacheIsTruthful'
  BY DEF CachedIsMarked, Cached, CacheIsTruthful
<1>5. InsertedSurvives'
  BY DEF TypeOK, InsertedSurvives, Cached, Panic, Unlock
<1>6. RequestInProgress'
  BY DEF TypeOK, RequestInProgress, Panic, Unlock
<1> QED
  BY <1>1, <1>2, <1>3, <1>4, <1>5, <1>6

LEMMA SetMaxIInv ==
  ASSUME IInv, NEW m \in Caps, set_max(m)
  PROVE  IInv'
<1> USE PairsAreStrings DEF IInv
<1>0. /\ UNCHANGED <<holder, pc, want, tries, result>>
      /\ max' = m
      /\ \A t \in Threads : pc[t] \in {"idle", "panicked"}
  BY DEF set_max, Idle
<1>1. \/ cache' = EmptyCache /\ bloom' = {} /\ poisoned' = FALSE
      \/ /\ bloom' = bloom /\ poisoned' \in {poisoned, TRUE}
         /\ \E keep \in SUBSET Hashes :
              cache' = [h \in Hashes |-> IF h \in keep THEN cache[h] ELSE NoString]
  <2>1. cache = [h \in Hashes |-> IF h \in Hashes THEN cache[h] ELSE NoString]
    BY DEF TypeOK
  <2> QED
    BY <2>1 DEF set_max, Cached
<1>2. TypeOK'
  <2>1. cache' \in [Hashes -> Strings \cup {NoString}]
    BY <1>1 DEF TypeOK, EmptyCache
  <2> QED
    BY <1>0, <1>1, <2>1 DEF TypeOK
<1>3. OneInside'
  BY <1>0 DEF OneInside, Inside
<1>4. ServesWhatWasAsked'
  BY <1>0 DEF ServesWhatWasAsked
<1>5. CachedIsMarked' /\ CacheIsTruthful'
  BY <1>1 DEF CachedIsMarked, Cached, CacheIsTruthful, EmptyCache
<1>6. InsertedSurvives' /\ RequestInProgress'
  BY <1>0 DEF InsertedSurvives, RequestInProgress
<1> QED
  BY <1>2, <1>3, <1>4, <1>5, <1>6

-----------------------------------------------------------------------------
\* IInv is an invariant of the interner.
THEOREM IInvInvariant == Spec => []IInv
<1>1. IInv /\ [Next]_vars => IInv'
  <2> SUFFICES ASSUME IInv, [Next]_vars PROVE IInv'
    OBVIOUS
  <2>1. CASE \E t \in Threads : Step(t)
    BY <2>1, LockingIInv, LookupIInv, ThrottleIInv, LeaveIInv DEF Step
  <2>2. CASE \E t \in Threads, w \in Strings : Request(t, w)
    BY <2>2, RequestIInv
  <2>3. CASE \E m \in Caps : set_max(m)
    BY <2>3, SetMaxIInv
  <2>4. CASE UNCHANGED vars
    BY <2>4 DEF vars, IInv, TypeOK, OneInside, Inside, ServesWhatWasAsked, CachedIsMarked,
                InsertedSurvives, CacheIsTruthful, RequestInProgress, Cached
  <2> QED
    BY <2>1, <2>2, <2>3, <2>4 DEF Next
<1> QED
  BY InitIInv, <1>1, PTL DEF Spec

\* Every value of the state is of its type (src/types/interner.rs).
THEOREM TypeCorrect == Spec => []TypeOK
BY IInvInvariant, PTL DEF IInv

\* get_interned_string, get_interned_getter and get_interned_setter return what
\* they are asked for, whatever other threads intern, evict or resize.
THEOREM ServesCorrect == Spec => []ServesWhatWasAsked
BY IInvInvariant, PTL DEF IInv

\* No cached string is out of reach behind the bloom filter.
THEOREM FilterCorrect == Spec => []CachedIsMarked
BY IInvInvariant, PTL DEF IInv
-----------------------------------------------------------------------------
(***************************************************************************)
(* The capacity.  The number of strings is bounded between two requests    *)
(* only: throttling takes several steps, and a thread that dies in it      *)
(* leaves the table as it is.  So the bound is an invariant of the states  *)
(* in which nobody throttles and the lock is not poisoned, together with   *)
(* the fact that whoever is on the way to the table found an interner.     *)
(***************************************************************************)
Bounded ==
  /\ IsFiniteSet(Cached)
  /\ \A t \in Threads : pc[t] \notin {"idle", "panicked"} => max # 0
  /\ ~poisoned /\ (\A t \in Threads : pc[t] # "throttle") => Cardinality(Cached) <= max

\* `max - 3` does not wrap unnoticed: the build traps, or no capacity is 1 or 2.
NeverWraps == OverflowChecks \/ \A m \in Caps : m \notin {1, 2}

LEMMA CachedIsFinite ==
  ASSUME Bounded PROVE IsFiniteSet(Cached) /\ Cardinality(Cached) \in Nat
BY FS_CardinalityType DEF Bounded

LEMMA TargetBelow ==
  ASSUME NeverWraps, NEW m \in Caps, m # 0, ~Traps(m)
  PROVE  m \in Nat /\ Less3(m) \in Nat /\ Less3(m) <= m
<1>1. m \in Nat /\ m < WordSize /\ WordSize \in Nat /\ WordSize > 3
  BY InternerAssumption
<1>2. m >= 3
  BY <1>1, InternerAssumption DEF NeverWraps, Traps
<1>3. m + WordSize - 3 = (m - 3) + WordSize /\ m - 3 \in 0..(WordSize - 1)
  BY <1>1, <1>2
<1>4. \A a \in 0..(WordSize - 1) : (a + WordSize) % WordSize = a
  BY <1>1
<1>5. Less3(m) = m - 3
  BY <1>3, <1>4 DEF Less3
<1> QED
  BY <1>1, <1>2, <1>5

LEMMA InitBounded == Init => Bounded
<1> SUFFICES ASSUME Init PROVE Bounded
  OBVIOUS
<1>1. Cached = {}
  BY DEF Init, EmptyCache, Cached
<1>2. max \in Nat
  BY InternerAssumption DEF Init
<1> QED
  BY <1>1, <1>2, FS_EmptySet DEF Init, Bounded

\* Steps that leave the table alone and make no thread throttle.
LEMMA OutsideBounded ==
  ASSUME IInv, Bounded, NEW t \in Threads,
         \/ \E w \in Strings : Request(t, w)
         \/ Lock(t) \/ Spin(t) \/ GiveUp(t) \/ Unlock(t) \/ Panic(t)
  PROVE  Bounded'
<1>1. cache' = cache /\ max' = max /\ Cached' = Cached
  BY DEF Request, Lock, Spin, GiveUp, Unlock, Panic, Cached
<1>2. \A u \in Threads : pc'[u] \notin {"idle", "panicked"} => max # 0
  BY DEF Request, Lock, Spin, GiveUp, Unlock, Panic, IInv, TypeOK, Bounded
<1>3. ~poisoned' /\ (\A u \in Threads : pc'[u] # "throttle") =>
        ~poisoned /\ (\A u \in Threads : pc[u] # "throttle")
  BY DEF Request, Lock, Spin, GiveUp, Unlock, Panic, IInv, TypeOK
<1> QED
  BY <1>1, <1>2, <1>3 DEF Bounded

\* A thread inside keeps all others from throttling.
LEMMA AloneInside ==
  ASSUME IInv, NEW t \in Threads, Inside(t), NEW u \in Threads, u # t
  PROVE  pc[u] # "throttle"
BY DEF IInv, OneInside, Inside

LEMMA LookupBounded ==
  ASSUME IInv, Bounded, NEW t \in Threads, get_with_mapper(t)
  PROVE  Bounded'
<1> DEFINE w == want[t]
           n == Cardinality(Cached)
<1>1. /\ w \in Hashes /\ calc_hash(w) = w /\ mapper(w) # NoString
      /\ pc[t] = "lookup"
      /\ max' = max /\ poisoned' = poisoned
  BY PairsAreStrings DEF IInv, RequestInProgress, get_with_mapper
<1>2. \A u \in Threads : pc[u] # "throttle"
  BY <1>1, AloneInside DEF Inside
<1>3. n \in Nat /\ max \in Nat /\ IsFiniteSet(Cached)
  BY CachedIsFinite, InternerAssumption DEF IInv, TypeOK
<1>4. \A u \in Threads : pc'[u] \notin {"idle", "panicked"} => max # 0
  BY <1>1 DEF get_with_mapper, IInv, TypeOK, Bounded
<1>5. CASE cache' = cache
  <2>1. Cached' = Cached
    BY <1>5 DEF Cached
  <2> QED
    BY <1>1, <1>2, <1>4, <2>1 DEF Bounded
<1>6. CASE /\ w \notin Cached
           /\ cache' = [cache EXCEPT ![w] = mapper(w)]
           /\ pc' = [pc EXCEPT ![t] = IF OverCapacity(n + 1) THEN "throttle" ELSE "unlock"]
  <2>1. Cached' = Cached \cup {w}
    BY <1>1, <1>6 DEF Cached, IInv, TypeOK
  <2>2. IsFiniteSet(Cached') /\ Cardinality(Cached') = n + 1
    BY <1>3, <1>6, <2>1, FS_AddElement
  <2>3. pc'[t] # "throttle" => n + 1 <= max
    BY <1>3, <1>6 DEF OverCapacity, IInv, TypeOK
  <2> QED
    BY <1>1, <1>4, <2>2, <2>3 DEF Bounded
<1> QED
  BY <1>1, <1>5, <1>6 DEF get_with_mapper

LEMMA ThrottleBounded ==
  ASSUME NeverWraps, IInv, Bounded, NEW t \in Threads, throttle_cache(t)
  PROVE  Bounded'
<1>1. pc[t] = "throttle" /\ max' = max /\ ~Traps(max) /\ max # 0 /\ max \in Caps
  BY DEF throttle_cache, Bounded, IInv, TypeOK
<1>2. IsFiniteSet(Cached) /\ Cardinality(Cached) \in Nat
  BY CachedIsFinite
<1>3. \A u \in Threads : pc'[u] \notin {"idle", "panicked"} => max # 0
  BY <1>1
<1>4. CASE /\ \E v \in Victims(t) : cache' = [cache EXCEPT ![v] = NoString]
           /\ pc' = pc
  <2>1. Cached' \subseteq Cached
    BY <1>4 DEF Victims, Cached, IInv, TypeOK
  <2>2. IsFiniteSet(Cached')
    BY <1>2, <2>1, FS_Subset
  <2> QED
    BY <1>1, <1>3, <1>4, <2>2 DEF Bounded
<1>5. CASE cache' = cache /\ pc' = pc
  <2>1. Cached' = Cached
    BY <1>5 DEF Cached
  <2> QED
    BY <1>1, <1>2, <1>3, <1>5, <2>1 DEF Bounded
<1>6. CASE Cardinality(Cached) <= Target /\ cache' = cache
  <2>1. Cached' = Cached
    BY <1>6 DEF Cached
  <2>2. Target \in Nat /\ Target <= max /\ max \in Nat
    BY <1>1, TargetBelow DEF Target
  <2>3. Cardinality(Cached') <= max
    BY <1>2, <1>6, <2>1, <2>2
  <2> QED
    BY <1>1, <1>2, <1>3, <2>1, <2>3 DEF Bounded
<1> QED
  BY <1>4, <1>5, <1>6 DEF throttle_cache

LEMMA SetMaxBounded ==
  ASSUME NeverWraps, IInv, Bounded, NEW m \in Caps, set_max(m)
  PROVE  Bounded'
<1> DEFINE n == Cardinality(Cached)
<1>1. /\ max' = m /\ m \in Nat
      /\ pc' = pc /\ \A t \in Threads : pc[t] \in {"idle", "panicked"}
  BY InternerAssumption DEF set_max, Idle
<1>2. IsFiniteSet(Cached) /\ n \in Nat
  BY CachedIsFinite
<1>3. CASE cache' = EmptyCache
  <2>1. Cached' = {}
    BY <1>3 DEF Cached, EmptyCache
  <2> QED
    BY <1>1, <2>1, FS_EmptySet DEF Bounded
<1>4. CASE cache' = cache /\ poisoned'
  <2>1. Cached' = Cached
    BY <1>4 DEF Cached
  <2> QED
    BY <1>1, <1>2, <1>4, <2>1 DEF Bounded
<1>5. CASE /\ m # 0 /\ ~(Traps(m) /\ n > m)
           /\ \E keep \in SUBSET Cached :
                /\ Cardinality(keep) = Shrunk(m)
                /\ cache' = [h \in Hashes |-> IF h \in keep THEN cache[h] ELSE NoString]
  <2>1. PICK keep \in SUBSET Cached :
          /\ Cardinality(keep) = Shrunk(m)
          /\ cache' = [h \in Hashes |-> IF h \in keep THEN cache[h] ELSE NoString]
    BY <1>5
  <2>2. Cached' = keep
    BY <2>1 DEF Cached
  <2>3. IsFiniteSet(keep)
    BY <1>2, <2>1, FS_Subset
  <2>4. Shrunk(m) <= m
    <3>1. CASE n <= m
      BY <1>1, <1>2, <3>1 DEF Shrunk
    <3>2. CASE n > m
      <4>1. Less3(m) \in Nat /\ Less3(m) <= m
        BY <1>5, <3>2, TargetBelow
      <4> QED
        BY <1>1, <1>2, <3>2, <4>1 DEF Shrunk
    <3> QED
      BY <1>1, <1>2, <3>1, <3>2
  <2> QED
    BY <1>1, <2>1, <2>2, <2>3, <2>4 DEF Bounded
<1> QED
  BY <1>3, <1>4, <1>5 DEF set_max

\* Whenever no request is under way and no thread died in throttle_cache, the table holds at
\* most max_strings_interned strings, and throttling never evicts the string it was called
\* for, for every interleaving and every sequence of capacities (src/types/interner.rs); in a
\* build without overflow checks, as long as the capacity is not set to 1 or 2.
THEOREM TableStaysWithinCapacity ==
  ASSUME NeverWraps PROVE Spec => []TableHolds
<1>1. IInv /\ Bounded /\ [Next]_vars => Bounded'
  <2> SUFFICES ASSUME IInv, Bounded, [Next]_vars PROVE Bounded'
    OBVIOUS
  <2>1. CASE \E t \in Threads : Step(t)
    BY <2>1, OutsideBounded, LookupBounded, ThrottleBounded DEF Step
  <2>2. CASE \E t \in Threads, w \in Strings : Request(t, w)
    BY <2>2, OutsideBounded
  <2>3. CASE \E m \in Caps : set_max(m)
    BY <2>3, SetMaxBounded
  <2>4. CASE UNCHANGED vars
    BY <2>4 DEF vars, Bounded, Cached
  <2> QED
    BY <2>1, <2>2, <2>3, <2>4 DEF Next
<1>2. IInv /\ Bounded => TableHolds
  BY DEF IInv, Bounded, TableHolds, WithinCapacity, Idle
<1> QED
  BY InitBounded, IInvInvariant, <1>1, <1>2, PTL DEF Spec

=============================================================================
