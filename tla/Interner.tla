------------------------------ MODULE Interner ------------------------------
(***************************************************************************)
(* The strings interner of an Engine (src/types/interner.rs), reached from *)
(* several threads through the lock that get_interned_string takes         *)
(* (src/engine.rs, src/func/native.rs).  Threads of a `sync` build share   *)
(* one Engine; the host changes the capacity only with exclusive access.   *)
(*                                                                         *)
(* A hash is an injective image of (category, text): a 64-bit collision is *)
(* outside the model, the category byte is inside it.  What the mapper     *)
(* makes of a text ("x", "get$x", "set$x") is the pair itself.  Strong     *)
(* counts and lengths only rank the victims of throttling: any entry that  *)
(* is not the protected one may be the lowest.                             *)
(***************************************************************************)
EXTENDS Naturals, FiniteSets

CONSTANTS
  Threads,         \* threads that share the Engine
  Categories,      \* 0 (plain), 'g' (getter), 's' (setter)
  Texts,           \* the strings requested
  LongTexts,       \* those longer than MAX_STRING_LEN
  Slot,            \* bit of the bloom filter that a hash falls on
  Caps,            \* capacities the host sets (bound)
  WordSize,        \* 2^w for a usize of w bits
  OverflowChecks,  \* is the build one that traps on arithmetic overflow?
  SpinTries        \* attempts of locked_write before it gives up

Strings == Categories \X Texts
Hashes  == Categories \X Texts
NoString == <<>>
NoHash   == <<>>

ASSUME InternerAssumption ==
  /\ LongTexts \subseteq Texts
  /\ Slot \in [Hashes -> Nat]
  /\ Caps \subseteq Nat
  /\ WordSize \in Nat /\ WordSize > 3
  /\ \A m \in Caps : m < WordSize
  /\ OverflowChecks \in BOOLEAN
  /\ SpinTries \in Nat \ {0}

VARIABLES
  max,       \* max_strings_interned; 0 when the Engine has no interner
  cache,     \* hash -> interned string, NoString when vacant
  bloom,     \* bits set in the bloom filter
  holder,    \* thread that holds the write lock, or {}
  poisoned,  \* a thread died holding the lock
  pc,        \* where each thread is
  want,      \* the <<category, text>> a thread asks for
  tries,     \* failed attempts at the lock
  result     \* what the thread's last request returned

vars == <<max, cache, bloom, holder, poisoned, pc, want, tries, result>>

-----------------------------------------------------------------------------
\* The category byte goes into the hash.  Mutant: it is left out.
calc_hash_no_category(w) == <<CHOOSE c \in Categories : TRUE, w[2]>>
calc_hash(w) == <<w[1], w[2]>>

mapper(w) == <<w[1], w[2]>>

Cached == {h \in Hashes : cache[h] # NoString}

EmptyCache == [h \in Hashes |-> NoString]

\* Must the table be throttled once it holds n strings?
OverCapacity(n) == n > max

Init ==
  /\ max \in Caps
  /\ cache = EmptyCache
  /\ bloom = {}
  /\ holder = {}
  /\ poisoned = FALSE
  /\ pc = [t \in Threads |-> "idle"]
  /\ want = [t \in Threads |-> NoHash]
  /\ tries = [t \in Threads |-> 0]
  /\ result = [t \in Threads |-> NoString]

\* get_interned_string / get_interned_getter / get_interned_setter.
Request(t, w) ==
  /\ pc[t] = "idle"
  /\ want' = [want EXCEPT ![t] = w]
  /\ IF max = 0
     THEN /\ result' = [result EXCEPT ![t] = mapper(w)]
          /\ UNCHANGED pc
     ELSE /\ pc' = [pc EXCEPT ![t] = "locking"]
          /\ result' = [result EXCEPT ![t] = NoString]
  /\ tries' = [tries EXCEPT ![t] = 0]
  /\ UNCHANGED <<max, cache, bloom, holder, poisoned>>

\* locked_write: up to SpinTries attempts; a poisoned lock fails at once.
Lock(t) ==
  /\ pc[t] = "locking"
  /\ holder = {} /\ ~poisoned
  /\ holder' = {t}
  /\ pc' = [pc EXCEPT ![t] = "lookup"]
  /\ UNCHANGED <<max, cache, bloom, poisoned, want, tries, result>>

\* The mutant keeps trying.
Spin_unbounded(t) ==
  /\ pc[t] = "locking"
  /\ holder # {}
  /\ tries' = [tries EXCEPT ![t] = @ + 1]
  /\ UNCHANGED <<max, cache, bloom, holder, poisoned, pc, want, result>>

Spin(t) ==
  /\ pc[t] = "locking"
  /\ holder # {}
  /\ tries[t] + 1 < SpinTries
  /\ tries' = [tries EXCEPT ![t] = @ + 1]
  /\ UNCHANGED <<max, cache, bloom, holder, poisoned, pc, want, result>>

GiveUp(t) ==
  /\ pc[t] = "locking"
  /\ \/ poisoned
     \/ holder # {} /\ tries[t] + 1 >= SpinTries
  /\ pc' = [pc EXCEPT ![t] = "idle"]
  /\ result' = [result EXCEPT ![t] = mapper(want[t])]
  /\ UNCHANGED <<max, cache, bloom, holder, poisoned, want, tries>>

\* get_with_mapper, the part that runs before throttle_cache.
Uncached(w) == w[2] \in LongTexts \/ Slot[calc_hash(w)] \notin bloom

get_with_mapper(t) ==
  LET w == want[t]
      h == calc_hash(w)
  IN /\ pc[t] = "lookup"
     /\ bloom' = IF w[2] \in LongTexts THEN bloom ELSE bloom \cup {Slot[h]}
     /\ \/ /\ Uncached(w)
           /\ result' = [result EXCEPT ![t] = mapper(w)]
           /\ pc' = [pc EXCEPT ![t] = "unlock"]
           /\ UNCHANGED cache
        \/ /\ ~Uncached(w)
           /\ h \in Cached
           /\ result' = [result EXCEPT ![t] = cache[h]]
           /\ pc' = [pc EXCEPT ![t] = "unlock"]
           /\ UNCHANGED cache
        \/ /\ ~Uncached(w)
           /\ h \notin Cached
           /\ cache' = [cache EXCEPT ![h] = mapper(w)]
           /\ result' = [result EXCEPT ![t] = mapper(w)]
           /\ pc' = [pc EXCEPT ![t] = IF OverCapacity(Cardinality(Cached) + 1)
                                      THEN "throttle" ELSE "unlock"]
     /\ UNCHANGED <<max, holder, poisoned, want, tries>>

-----------------------------------------------------------------------------
\* throttle_cache: `max - 3` on usize traps or wraps when max < 3.
Less3(m) == (m + WordSize - 3) % WordSize

Traps(m) == OverflowChecks /\ m < 3

\* The size that throttling shrinks the table to.
Target_empty == 0
Target == Less3(max)

\* The entries that may go: all but the one just inserted (skip_hash).
Victims_all(t) == Cached
Victims(t) == Cached \ {calc_hash(want[t])}

throttle_cache(t) ==
  /\ pc[t] = "throttle"
  /\ ~Traps(max)
  /\ \/ /\ Cardinality(Cached) > Target
        /\ \E v \in Victims(t) : cache' = [cache EXCEPT ![v] = NoString]
        /\ UNCHANGED pc
     \* With no candidate the loop removes the key 0, which is not there.
     \/ /\ Cardinality(Cached) > Target
        /\ Victims(t) = {}
        /\ UNCHANGED <<cache, pc>>
     \/ /\ Cardinality(Cached) <= Target
        /\ pc' = [pc EXCEPT ![t] = "unlock"]
        /\ UNCHANGED cache
  /\ UNCHANGED <<max, bloom, holder, poisoned, want, tries, result>>

Panic(t) ==
  /\ pc[t] = "throttle"
  /\ Traps(max)
  /\ pc' = [pc EXCEPT ![t] = "panicked"]
  /\ holder' = {}
  /\ poisoned' = TRUE
  /\ UNCHANGED <<max, cache, bloom, want, tries, result>>

Unlock(t) ==
  /\ pc[t] = "unlock"
  /\ pc' = [pc EXCEPT ![t] = "idle"]
  /\ holder' = {}
  /\ UNCHANGED <<max, cache, bloom, poisoned, want, tries, result>>

\* set_max_strings_interned needs exclusive access to the Engine: no request
\* is under way.  0 drops the interner; a poisoned lock leaves it as it was.
\* set_max shrinks with the same loop, which then protects no entry.
Idle == \A t \in Threads : pc[t] \in {"idle", "panicked"}

\* How many of the strings set_max leaves.
Shrunk(m) ==
  LET n == Cardinality(Cached)
  IN IF n > m /\ n > Less3(m) THEN Less3(m) ELSE n

\* The mutant forgets the filter's bits and keeps the strings.
set_max_clears_filter(m) ==
  /\ Idle
  /\ m # 0 /\ max # 0 /\ ~poisoned
  /\ max' = m
  /\ bloom' = {}
  /\ UNCHANGED <<cache, poisoned, holder, pc, want, tries, result>>

set_max(m) ==
  /\ Idle
  /\ \/ /\ m = 0 \/ max = 0
        /\ max' = m
        /\ cache' = EmptyCache
        /\ bloom' = {}
        /\ poisoned' = FALSE
     \/ /\ m # 0 /\ max # 0 /\ ~poisoned
        /\ max' = m
        /\ UNCHANGED bloom
        /\ IF Traps(m) /\ Cardinality(Cached) > m
           THEN poisoned' = TRUE /\ UNCHANGED cache
           ELSE /\ UNCHANGED poisoned
                /\ \E keep \in SUBSET Cached :
                     /\ Cardinality(keep) = Shrunk(m)
                     /\ cache' = [h \in Hashes |->
                                    IF h \in keep THEN cache[h] ELSE NoString]
  /\ UNCHANGED <<holder, pc, want, tries, result>>

Step(t) ==
  \/ Lock(t)
  \/ Spin(t)
  \/ GiveUp(t)
  \/ get_with_mapper(t)
  \/ throttle_cache(t)
  \/ Panic(t)
  \/ Unlock(t)

Next ==
  \/ \E t \in Threads : Step(t)
  \/ \E t \in Threads, w \in Strings : Request(t, w)
  \/ \E m \in Caps : set_max(m)

\* A thread that has been scheduled keeps running; requests need not come.
Spec == Init /\ [][Next]_vars /\ \A t \in Threads : WF_vars(Step(t))
-----------------------------------------------------------------------------
TypeOK ==
  /\ max \in Caps
  /\ cache \in [Hashes -> Strings \cup {NoString}]
  /\ bloom \subseteq {Slot[h] : h \in Hashes}
  /\ holder \subseteq Threads
  /\ poisoned \in BOOLEAN
  /\ pc \in [Threads -> {"idle", "locking", "lookup", "throttle", "unlock", "panicked"}]
  /\ want \in [Threads -> Strings \cup {NoHash}]
  /\ tries \in [Threads -> 0..SpinTries]
  /\ result \in [Threads -> Strings \cup {NoString}]

\* What a finished request hands back is what the mapper makes of the text that
\* was asked for: a getter's name is never served for a plain string, whichever
\* thread interned what in between.
ServesWhatWasAsked ==
  \A t \in Threads : pc[t] = "idle" /\ want[t] # NoHash => result[t] = mapper(want[t])

\* Whenever nobody is inside the interner and no thread died in it, it holds no
\* more strings than the capacity last set (Engine::set_max_strings_interned).
WithinCapacity == Idle /\ ~poisoned => Cardinality(Cached) <= max

\* The bloom filter never denies an entry that is cached: otherwise the entry
\* would sit in the table and never be served again.
CachedIsMarked == \A h \in Cached : Slot[h] \in bloom

\* throttle_cache never evicts the string whose insertion caused it.
InsertedSurvives ==
  \A t \in Threads : pc[t] = "throttle" => calc_hash(want[t]) \in Cached

\* Every request ends, with an answer or with a panic: neither the spin on the
\* lock nor the throttling loop goes on for ever.
RequestsEnd ==
  \A t \in Threads : pc[t] # "idle" ~> pc[t] \in {"idle", "panicked"}

\* The table keeps to its capacity, and to the entry that made it too large: throttle_cache
\* evicts enough, and never the string it was called for.
TableHolds == WithinCapacity /\ InsertedSurvives

-----------------------------------------------------------------------------
\* An instance for TLC: the texts "y" and "z" fall on the same bit of the bloom filter, and
\* so do the getter and the plain string of each text.
MCSlot == [h \in Hashes |-> IF h[2] = "x" THEN 0 ELSE 1]
=============================================================================
