---------------------------- MODULE FnResolution ----------------------------
(***************************************************************************)
(* Which function a call by name runs (src/func/call.rs resolve_fn,        *)
(* src/func/script.rs) and the stack of caches in front of the search      *)
(* (src/eval/cache.rs), through blocks, imports, evals and calls           *)
(* (src/eval/stmt.rs eval_stmt_block, call_script_fn).                     *)
(*                                                                         *)
(* A function is known by its hash.  When a hash is not found, the ones    *)
(* with arguments replaced by `Dynamic` are tried.  A found function is    *)
(* the module it was found in and the hash that found it.                  *)
(***************************************************************************)
EXTENDS Integers, Sequences, Functions

CONSTANTS
  Hashes,      \* hashes of name, arity and, for native functions, argument types
  Scripted,    \* the ones without argument types
  Slot,        \* the bit of the bloom filter of each hash
  Wildcards,   \* the hashes to try when one is not found, in order
  Binary,      \* hashes of calls with two arguments
  Engine,      \* functions registered with the engine
  Main,        \* functions of the script
  Modules,
  Lib,         \* functions of each module's script
  Exports,     \* functions of each module marked for the global namespace
  EnvImports,  \* modules that each module has imported
  Ops,         \* what scripts do
  MaxDepth, MaxImports  \* nesting, and imports at one time (bounds)

ASSUME FnAssumption ==
  /\ Engine \subseteq Hashes /\ Main \subseteq Hashes /\ Binary \subseteq Hashes
  /\ \A m \in Modules : /\ Lib[m] \subseteq Hashes
                        /\ Exports[m] \subseteq Hashes
                        /\ EnvImports[m] \in Seq(Modules)
  /\ Scripted \subseteq Hashes
  /\ \A h \in Hashes : Wildcards[h] \in Seq(Hashes) /\ (h \in Scripted => Wildcards[h] = <<>>)
  /\ Ops \subseteq {"block", "import", "call", "env", "eval"}
  /\ {"main", "engine"} \cap Modules = {}
  /\ MaxDepth \in Nat /\ MaxImports \in Nat

VARIABLES
  lib,      \* GlobalRuntimeState::lib
  imports,  \* GlobalRuntimeState::modules
  caches,   \* Caches::fn_resolution
  frames,   \* blocks and calls under way, each with the lengths it saved
  unseen    \* modules that came into view while a cache stayed (ghost)

vars == <<lib, imports, caches, frames, unseen>>

Absent   == <<"absent">>
NotFound == <<"none">>

EmptyCache == [dict |-> [h \in Hashes |-> Absent], bloom |-> {}]

-----------------------------------------------------------------------------
\* The search without the cache, with the imports im.
Defining(h) == {m \in Modules : h \in Lib[m]} \cup (IF h \in Main THEN {"main"} ELSE {})

Exporting(h) == {m \in Modules : h \in Exports[m]}

\* The last module of the stack s that is one of ms.
LastOf(s, ms, h) ==
  LET is == {i \in 1..Len(s) : s[i] \in ms}
  IN IF is = {} THEN NotFound ELSE <<s[CHOOSE i \in is : \A j \in is : j <= i], h>>

FindExact(im, h) ==
  LET inLib == LastOf(lib, Defining(h), h)
  IN IF inLib # NotFound THEN inLib
     ELSE IF h \in Engine THEN <<"engine", h>>
     ELSE LastOf(im, Exporting(h), h)

Candidates(h) == <<h>> \o Wildcards[h]

\* The number of the first candidate that is found; one too many if there is none.
FirstFound(im, h) ==
  CHOOSE k \in 1..(Len(Candidates(h)) + 1) :
    /\ k <= Len(Candidates(h)) => FindExact(im, Candidates(h)[k]) # NotFound
    /\ \A j \in 1..(k-1) : FindExact(im, Candidates(h)[j]) = NotFound

SearchIn(im, h) ==
  LET k == FirstFound(im, h)
  IN IF k > Len(Candidates(h)) THEN NotFound ELSE FindExact(im, Candidates(h)[k])

Search(h) == SearchIn(imports, h)

-----------------------------------------------------------------------------
Top == frames[Len(frames)]

\* fn_resolution_cache_mut
Current(cs) == IF cs = <<>> THEN <<EmptyCache>> ELSE cs

Cached(h) == LET cs == Current(caches) IN cs[Len(cs)].dict[h]

\* "Do not cache one-hit wonders": the second time the bit of b is seen, r is stored for h.
Remember(h, b, r) ==
  LET cs == Current(caches)
      n  == Len(cs)
  IN IF Slot[b] \in cs[n].bloom
     THEN [cs EXCEPT ![n].dict[h] = r]
     ELSE [cs EXCEPT ![n].bloom = @ \cup {Slot[b]}]

\* A call of the function with hash h.  Where nothing is found, there may be a built-in
\* operator, if there are two arguments; the hash at hand is then the last one tried.
resolve_fn(h) ==
  LET cs == Candidates(h)
      k  == FirstFound(imports, h)
  IN /\ frames # <<>>
     /\ caches' =
          IF Cached(h) # Absent THEN Current(caches)
          ELSE IF k <= Len(cs) THEN Remember(h, cs[k], Search(h))
          ELSE IF h \in Binary THEN Remember(h, cs[Len(cs)], NotFound)
          ELSE Current(caches)
     /\ UNCHANGED <<lib, imports, frames, unseen>>

\* is_def_fn: only a negative answer is stored.
has_script_fn(h) ==
  /\ frames # <<>>
  /\ h \in Scripted
  /\ caches' = IF Cached(h) = Absent /\ FindExact(imports, h) = NotFound
               THEN Remember(h, h, NotFound)
               ELSE Current(caches)
  /\ UNCHANGED <<lib, imports, frames, unseen>>

-----------------------------------------------------------------------------
NewFrame(kind) ==
  [kind |-> kind, lib |-> Len(lib), imports |-> Len(imports), caches |-> Len(caches)]

Enter(kind) == Len(frames) < MaxDepth /\ frames' = Append(frames, NewFrame(kind))

\* eval_stmt_block with and without restore_orig_state (eval runs its text in place).
eval_stmt_block(kind) ==
  /\ kind \in Ops \cap {"block", "eval"}
  /\ frames # <<>>
  /\ Enter(kind)
  /\ UNCHANGED <<lib, imports, caches, unseen>>

\* call_script_fn: a function of the script, or one of a module with its environment.
call_script_fn ==
  /\ "call" \in Ops
  /\ frames # <<>>
  /\ Enter("call")
  /\ UNCHANGED <<lib, imports, caches, unseen>>

call_script_fn_env(m) ==
  /\ "env" \in Ops
  /\ Lib[m] # {}
  /\ frames # <<>>
  /\ Len(imports) + Len(EnvImports[m]) <= MaxImports
  /\ Enter("call")
  /\ imports' = imports \o EnvImports[m]
  /\ lib' = Append(lib, m)
  /\ unseen' = unseen \cup {m} \cup Range(EnvImports[m])
  /\ UNCHANGED caches

\* Stmt::Import, and what eval_stmt_block does to the caches after it.
AfterImport_kept(cs, f) == cs

AfterImport(cs, f) ==
  IF Len(cs) <= f.caches /\ f.kind \in {"block", "call"}
  THEN Append(cs, EmptyCache)
  ELSE [Current(cs) EXCEPT ![Len(Current(cs))] = EmptyCache]

\* The text of an eval clears the cache of the block around it, but the block has none of
\* its own then: it is the one of an outer block, and stays when this block ends.
InBlock == \E i \in 1..Len(frames) : frames[i].kind # "eval"

Stmt_Import(m) ==
  /\ "import" \in Ops
  /\ frames # <<>>
  /\ Len(imports) < MaxImports
  /\ imports' = Append(imports, m)
  /\ caches' = IF Exports[m] # {} THEN AfterImport(caches, Top) ELSE caches
  /\ unseen' = IF Top.kind = "eval" /\ InBlock THEN unseen \cup {m} ELSE unseen
  /\ UNCHANGED <<lib, frames>>

\* The end of a block, a call, an eval or the script, however it comes about.
Rewound(cs, f) == SubSeq(cs, 1, f.caches)

Leave ==
  /\ frames # <<>>
  /\ frames' = SubSeq(frames, 1, Len(frames) - 1)
  /\ caches' = Rewound(caches, Top)
  /\ lib' = SubSeq(lib, 1, Top.lib)
  /\ imports' = IF Top.kind = "eval" THEN imports ELSE SubSeq(imports, 1, Top.imports)
  /\ UNCHANGED unseen

-----------------------------------------------------------------------------
Init ==
  /\ lib = <<"main">>
  /\ imports = <<>>
  /\ caches = <<>>
  /\ frames = <<NewFrame("eval")>>
  /\ unseen = {}

Next ==
  \/ \E h \in Hashes : resolve_fn(h) \/ has_script_fn(h)
  \/ \E kind \in {"block", "eval"} : eval_stmt_block(kind)
  \/ \E m \in Modules : Stmt_Import(m) \/ call_script_fn_env(m)
  \/ call_script_fn
  \/ Leave
  \/ frames = <<>> /\ UNCHANGED vars

Spec == Init /\ [][Next]_vars

-----------------------------------------------------------------------------
Results == {NotFound, Absent} \cup (({"main", "engine"} \cup Modules) \X Hashes)

Cache == [dict : [Hashes -> Results], bloom : SUBSET {Slot[h] : h \in Hashes}]

TypeOK ==
  /\ lib \in Seq({"main"} \cup Modules)
  /\ imports \in Seq(Modules)
  /\ caches \in Seq(Cache)
  /\ \A i \in 1..Len(frames) : /\ frames[i].lib \in 0..Len(lib)
                               /\ frames[i].imports \in 0..Len(imports)
                               /\ frames[i].caches \in 0..Len(caches)
  /\ unseen \subseteq Modules

\* The modules that have a function for a hash or for one of its candidates.
Knowing(h) == UNION {Defining(c) \cup Exporting(c) : c \in Range(Candidates(h))}

\* "Search order" (resolve_fn): the function that a cache serves is the one that the search
\* yields, also right after an import, in a block that shadows an import and after its end, as
\* long as no module that knows the function came into view with the environment of another
\* module's function or through the text of an eval inside a block.
ServedIsCurrent ==
  \A h \in Hashes :
    Cached(h) # Absent /\ Knowing(h) \cap unseen = {} => Cached(h) = Search(h)

\* The stack of caches fits the blocks and calls under way, and what it serves is current.
CachesHold == TypeOK /\ ServedIsCurrent

-----------------------------------------------------------------------------
(* Instances for TLC. *)

\* f takes two arguments and has a version for any arguments, f_any; g is a script's.
\* f and f_any fall on the same bit of the bloom filter.  m, whose script defines g, has
\* imported n, which exports f; o exports f_any and g.
MCHashes == {"f", "f_any", "g"}
MCSlot == [h \in MCHashes |-> IF h = "g" THEN 1 ELSE 0]
MCWildcards == [h \in MCHashes |-> IF h = "f" THEN <<"f_any">> ELSE <<>>]
MCModules == {"m", "n", "o"}
MCLib == [m \in MCModules |-> IF m = "m" THEN {"g"} ELSE {}]
MCExports == [m \in MCModules |->
                CASE m = "m" -> {} [] m = "n" -> {"f"} [] m = "o" -> {"f_any", "g"}]
MCEnvImports == [m \in MCModules |-> IF m = "m" THEN <<"n">> ELSE <<>>]
=============================================================================
