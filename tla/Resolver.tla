------------------------------ MODULE Resolver ------------------------------
(***************************************************************************)
(* Import statements (src/eval/stmt.rs), the module resolvers behind them  *)
(* (src/module/resolvers), the evaluation of a script as a module          *)
(* (src/module/mod.rs eval_ast_as_new_raw) and the cache that threads      *)
(* share (src/func/native.rs locked_read, locked_write; feature `sync`).   *)
(*                                                                         *)
(* A path is the sequence of its segments, the first one Root when it is   *)
(* absolute.  A script is a sequence of statements: an import, inside a    *)
(* `try` or not, a `let` with or without an alias to export, or an error.  *)
(***************************************************************************)
EXTENDS Integers, Sequences, SequencesExt, FiniteSets

CONSTANTS
  Threads,
  Program,       \* the script of each thread
  SelfContained, \* threads whose script is compiled by compile_into_self_contained
  Files,         \* the script files: a function from paths to scripts
  Broken,        \* paths of files that do not parse
  Static,        \* paths known to the StaticModuleResolver of the engine
  Chain,         \* the engine's resolvers in order, of "static" and "file"
  BasePath,      \* FileModuleResolver::base_path, or NoPath
  CacheEnabled,  \* FileModuleResolver::cache_enabled
  MaxModules,    \* Engine::max_modules
  MaxTries,      \* how often a lock is tried
  MaxRuns,       \* how often a thread runs its script (bound)
  MaxDepth       \* how deep modules are loaded (bound)

Root   == "/"
NoPath == <<"none">>

\* Statements of scripts.
Import(p, tried) == [op |-> "import", path |-> p, tried |-> tried]
Let(alias)       == [op |-> "let", alias |-> alias]
Throw            == [op |-> "throw"]

Statement == [op : {"import"}, path : Seq(STRING), tried : BOOLEAN]
               \cup [op : {"let"}, alias : STRING] \cup [op : {"throw"}]

ASSUME ResolverAssumption ==
  /\ SelfContained \subseteq Threads
  /\ Range(Chain) \subseteq {"static", "file"}
  /\ CacheEnabled \in BOOLEAN
  /\ MaxModules \in Nat /\ MaxTries \in Nat \ {0} /\ MaxRuns \in Nat /\ MaxDepth \in Nat \ {0}
  /\ Program \in [Threads -> Seq(Statement)]
  /\ Files \in [DOMAIN Files -> Seq(Statement)]
  /\ Broken \cap DOMAIN Files = {}
  \* The name of a static module is not the path of a file, which has an extension.
  /\ Static \cap DOMAIN Files = {}

VARIABLES
  th,        \* what each thread is doing
  cache,     \* FileModuleResolver::cache: a function from paths to modules
  readers,   \* threads holding the cache for reading
  writer,    \* threads holding the cache for writing
  stored     \* paths put into the cache since it was last cleared (ghost)

vars == <<th, cache, readers, writer, stored>>

-----------------------------------------------------------------------------
\* The segment of a path that names its directory; a path of one segment has none.
Parent(p) == IF p = NoPath THEN <<>> ELSE SubSeq(p, 1, Len(p) - 1)

\* FileModuleResolver::get_file_path; every file has the same extension.
GetFilePath(p, source) ==
  IF p[1] = Root THEN p
  ELSE (IF BasePath # NoPath THEN BasePath ELSE Parent(source)) \o p

\* A module is the file it came from, its variables (each an alias and the
\* script that declared it) and the modules it imported.
Module(f, vs, ms) == [file |-> f, vars |-> vs, subs |-> ms]

StaticModule(p) == Module(p, {}, {})

\* Level of evaluation: a script, where it is, the `source` and the embedded
\* modules it sees, and the lengths that were saved when it was entered.
Frame(f, script, source, emb, scope, imports) ==
  [file |-> f, script |-> script, at |-> 1, source |-> source, embedded |-> emb,
   scopeLen |-> Len(scope), importsLen |-> Len(imports)]

NoModules == [p \in {} |-> {}]

Idle == [phase |-> "idle", frames |-> <<>>, scope |-> <<>>, imports |-> <<>>, loaded |-> 0,
         idx |-> 1, tries |-> 0, late |-> FALSE, made |-> {}, found |-> {}, pending |-> {},
         embedded |-> NoModules, runs |-> 0]

Init ==
  /\ th = [t \in Threads |-> Idle]
  /\ cache = NoModules
  /\ readers = {} /\ writer = {}
  /\ stored = {}

Top(t)  == th[t].frames[Len(th[t].frames)]
Stmt(t) == Top(t).script[Top(t).at]
Busy(t) == th[t].phase \notin {"idle", "done", "failed", "panic"}

\* The path a thread that compiles its script, or runs an import, is looking for.
Wanted(t) == IF th[t].frames = <<>>
             THEN CHOOSE p \in th[t].found : TRUE
             ELSE Stmt(t).path

\* GlobalRuntimeState::source, or nothing while a script is being compiled.
Source(t) == IF th[t].frames = <<>> THEN NoPath ELSE Top(t).source
Target(t) == GetFilePath(Wanted(t), Source(t))

Go(t, r) == th' = [th EXCEPT ![t] = r]

\* The frames with the last one moved to its next statement.
Advance(fs) == [fs EXCEPT ![Len(fs)].at = @ + 1]

-----------------------------------------------------------------------------
\* How an import ends.

\* The import is pushed under its alias; in a `try` it is gone with the block.
\* While the script is compiled the module is put among the embedded ones.
Deliver(r, m) ==
  IF r.frames = <<>>
  THEN LET p == CHOOSE q \in r.found : TRUE
       IN [r EXCEPT !.phase = "embed", !.found = {}, !.scope = <<>>, !.imports = <<>>,
                    !.loaded = 0,
                    !.embedded = [q \in DOMAIN @ \cup {p} |-> IF q = p THEN m ELSE @[q]]]
  ELSE LET f == r.frames[Len(r.frames)]
       IN [r EXCEPT !.phase = "run",
                    !.loaded = @ + 1,
                    !.imports = IF f.script[f.at].tried THEN @
                                ELSE Append(@, [module |-> m, by |-> f.file]),
                    !.frames = Advance(@)]

\* The lengths of scope and imports when the current statement of level n began.
ScopeAt(r, n)   == IF n = Len(r.frames) THEN Len(r.scope) ELSE r.frames[n + 1].scopeLen
ImportsAt(r, n) == IF n = Len(r.frames) THEN Len(r.imports) ELSE r.frames[n + 1].importsLen

\* Levels whose current statement catches an error.
Catching(r) ==
  {n \in 1..Len(r.frames) :
     LET f == r.frames[n]
     IN f.at <= Len(f.script) /\ f.script[f.at].op = "import" /\ f.script[f.at].tried}

Fail_scope_kept(r, catchable) ==
  LET ns == {n \in Catching(r) : catchable \/ n < Len(r.frames)}
      n  == CHOOSE n \in ns : \A k \in ns : k <= n
  IN IF ns = {} THEN [r EXCEPT !.phase = "failed", !.frames = <<>>, !.imports = <<>>]
     ELSE [r EXCEPT !.phase = "run", !.imports = SubSeq(@, 1, ImportsAt(r, n)),
                    !.frames = Advance(SubSeq(@, 1, n))]

\* An error ends every level above the one that catches it.  Each restores its
\* source, library and imports; the scope is cut by the block that catches.
\* The error of the level itself may be one that cannot be caught.
Fail(r, catchable) ==
  LET ns == {n \in Catching(r) : catchable \/ n < Len(r.frames)}
      n  == CHOOSE n \in ns : \A k \in ns : k <= n
  IN IF ns = {} THEN [r EXCEPT !.phase = "failed", !.frames = <<>>, !.imports = <<>>]
     ELSE [r EXCEPT !.phase = "run",
                    !.scope = SubSeq(@, 1, ScopeAt(r, n)),
                    !.imports = SubSeq(@, 1, ImportsAt(r, n)),
                    !.frames = Advance(SubSeq(@, 1, n))]

-----------------------------------------------------------------------------
\* The host starts a script, and clears the cache when no script is running.

Paths(script) == {s.path : s \in {x \in Range(script) : x.op = "import"}}

Enter(r, t) == [r EXCEPT !.phase = "run",
                         !.frames = <<Frame(NoPath, Program[t], NoPath, r.embedded, <<>>, <<>>)>>]

Start(t) ==
  /\ th[t].phase \in {"idle", "done", "failed"}
  /\ th[t].runs < MaxRuns
  /\ LET r == [Idle EXCEPT !.runs = th[t].runs + 1]
     IN Go(t, IF t \in SelfContained
              THEN [r EXCEPT !.phase = "embed", !.pending = Paths(Program[t])]
              ELSE Enter(r, t))
  /\ UNCHANGED <<cache, readers, writer, stored>>

ClearCache ==
  /\ \A t \in Threads : ~Busy(t)
  /\ cache' = NoModules
  /\ stored' = {}
  /\ UNCHANGED <<th, readers, writer>>

ClearCacheForPath ==
  /\ \A t \in Threads : ~Busy(t)
  /\ \E p \in DOMAIN cache :
       /\ cache' = [q \in DOMAIN cache \ {p} |-> cache[q]]
       /\ stored' = stored \ {p}
  /\ UNCHANGED <<th, readers, writer>>

-----------------------------------------------------------------------------
\* compile_into_self_contained: the paths that are still to be resolved.

\* What resolve_ast of the engine's chain says: the file resolver's answer for
\* the path, relative to no source.
ResolveAst(p) ==
  LET f == GetFilePath(p, NoPath)
  IN IF "file" \notin Range(Chain) THEN "none"
     ELSE IF f \in DOMAIN Files THEN "ast"
     ELSE IF f \in Broken THEN "in_module"
     ELSE "not_found"

EmbedNext_not_popped(t) ==
  LET r == th[t] IN
  /\ r.phase = "embed" /\ r.found = {} /\ r.pending # {}
  /\ \E p \in r.pending : Go(t, [r EXCEPT !.phase = "resolve", !.idx = 1, !.found = {p}])
  /\ UNCHANGED <<cache, readers, writer, stored>>

\* The collection takes any error but "not found" for impossible and panics; a
\* path that is not found in any resolver has no AST.
EmbedNext(t) ==
  LET r == th[t] IN
  /\ r.phase = "embed" /\ r.found = {} /\ r.pending # {}
  /\ \E p \in r.pending :
       LET a == ResolveAst(p)
           new == IF a = "ast" THEN Paths(Files[GetFilePath(p, NoPath)]) \ DOMAIN r.embedded ELSE {}
       IN IF a = "in_module" THEN Go(t, [r EXCEPT !.phase = "panic"])
          ELSE Go(t, [r EXCEPT !.phase = "resolve", !.idx = 1, !.found = {p},
                               !.pending = (@ \ {p}) \cup new])
  /\ UNCHANGED <<cache, readers, writer, stored>>

EmbedDone(t) ==
  /\ th[t].phase = "embed" /\ th[t].found = {} /\ th[t].pending = {}
  /\ Go(t, Enter(th[t], t))
  /\ UNCHANGED <<cache, readers, writer, stored>>

-----------------------------------------------------------------------------
\* Statements of scripts.

LetStmt(t) ==
  LET r == th[t] IN
  /\ r.phase = "run" /\ Top(t).at <= Len(Top(t).script) /\ Stmt(t).op = "let"
  /\ Go(t, [r EXCEPT !.scope = Append(@, [alias |-> Stmt(t).alias, by |-> Top(t).file]),
                     !.frames = Advance(@)])
  /\ UNCHANGED <<cache, readers, writer, stored>>

ThrowStmt(t) ==
  /\ th[t].phase = "run" /\ Top(t).at <= Len(Top(t).script) /\ Stmt(t).op = "throw"
  /\ Go(t, Fail(th[t], TRUE))
  /\ UNCHANGED <<cache, readers, writer, stored>>

\* Is there room for one more module?
WithinMaxModules(r) == r.loaded < MaxModules

\* The modules embedded in the script come before the engine's resolvers.
ImportStmt(t) ==
  LET r == th[t] IN
  /\ r.phase = "run" /\ Top(t).at <= Len(Top(t).script) /\ Stmt(t).op = "import"
  /\ Go(t, IF ~WithinMaxModules(r) THEN Fail(r, FALSE)
           ELSE IF Stmt(t).path \in DOMAIN Top(t).embedded
           THEN Deliver(r, Top(t).embedded[Stmt(t).path])
           ELSE [r EXCEPT !.phase = "resolve", !.idx = 1])
  /\ UNCHANGED <<cache, readers, writer, stored>>

-----------------------------------------------------------------------------
\* The resolvers of the collection, one after the other.

\* The file resolver looks into its cache first.
ResolveNext(t) ==
  LET r == th[t] IN
  /\ r.phase = "resolve"
  /\ Go(t, IF r.idx > Len(Chain) THEN Fail(r, TRUE)
           ELSE IF Chain[r.idx] = "static"
           THEN IF Wanted(t) \in Static THEN Deliver(r, StaticModule(Wanted(t)))
                ELSE [r EXCEPT !.idx = @ + 1]
           ELSE [r EXCEPT !.phase = IF CacheEnabled THEN "try_read" ELSE "load",
                          !.tries = 0, !.late = Target(t) \in stored])
  /\ UNCHANGED <<cache, readers, writer, stored>>

\* locked_read and locked_write give up after a number of tries, and the
\* unwrap panics.
TryAgain(r) == IF r.tries + 1 < MaxTries THEN [r EXCEPT !.tries = @ + 1]
               ELSE [r EXCEPT !.phase = "panic"]

LockedRead(t) ==
  LET r == th[t] IN
  /\ r.phase = "try_read"
  /\ IF writer = {} THEN Go(t, [r EXCEPT !.phase = "read"]) /\ readers' = readers \cup {t}
     ELSE Go(t, TryAgain(r)) /\ UNCHANGED readers
  /\ UNCHANGED <<cache, writer, stored>>

CacheGet_guard_kept(t) ==
  LET r == th[t] IN
  /\ r.phase = "read"
  /\ Go(t, IF Target(t) \in DOMAIN cache THEN Deliver(r, cache[Target(t)])
           ELSE [r EXCEPT !.phase = "load"])
  /\ readers' = IF Target(t) \in DOMAIN cache THEN readers \ {t} ELSE readers
  /\ UNCHANGED <<cache, writer, stored>>

\* The guard is dropped with the statement that looks the path up.
CacheGet(t) ==
  LET r == th[t] IN
  /\ r.phase = "read"
  /\ Go(t, IF Target(t) \in DOMAIN cache THEN Deliver(r, cache[Target(t)])
           ELSE [r EXCEPT !.phase = "load"])
  /\ readers' = readers \ {t}
  /\ UNCHANGED <<cache, writer, stored>>

\* A file that does not exist sends the search to the next resolver, one that
\* does not parse is an error in the module.  The script runs as a new level,
\* in the scope of the import and with the path of the import as its source.
LoadFile(t) ==
  LET r == th[t]
      f == Target(t)
  IN
  /\ r.phase = "load"
  /\ f \in DOMAIN Files => Len(r.frames) < MaxDepth
  /\ Go(t, IF f \in Broken THEN Fail(r, TRUE)
           ELSE IF f \notin DOMAIN Files THEN [r EXCEPT !.phase = "resolve", !.idx = @ + 1]
           ELSE [r EXCEPT !.phase = "run",
                          !.frames = Append(@, Frame(f, Files[f], Wanted(t), NoModules,
                                                     r.scope, r.imports))])
  /\ UNCHANGED <<cache, readers, writer, stored>>

-----------------------------------------------------------------------------
\* The end of a script.

\* Variables with an alias become variables of the module, from the last one
\* down, whoever declared them; an alias is used once.
ModuleVars(scope) ==
  {<<scope[i].alias, scope[i].by>> : i \in
     {i \in 1..Len(scope) : /\ scope[i].alias # ""
                            /\ \A j \in (i + 1)..Len(scope) : scope[j].alias # scope[i].alias}}

ScriptAsModule(r) ==
  LET f == r.frames[Len(r.frames)]
  IN Module(f.file, ModuleVars(r.scope),
            {r.imports[i].module.file : i \in (f.importsLen + 1)..Len(r.imports)})

\* The level ends: what it left in the scope and among the imports is taken off.
Leave(r) ==
  LET f == r.frames[Len(r.frames)]
  IN [r EXCEPT !.scope = SubSeq(@, 1, f.scopeLen), !.imports = SubSeq(@, 1, f.importsLen),
               !.frames = Front(@)]

\* The script of the thread, or of a module, is at its end.
EndScript(t) ==
  LET r == th[t] IN
  /\ r.phase = "run" /\ Top(t).at > Len(Top(t).script)
  /\ Go(t, IF Top(t).file = NoPath THEN [r EXCEPT !.phase = "done", !.frames = <<>>]
           ELSE IF CacheEnabled
           THEN [Leave(r) EXCEPT !.phase = "try_write", !.tries = 0, !.made = {ScriptAsModule(r)}]
           ELSE Deliver(Leave(r), ScriptAsModule(r)))
  /\ UNCHANGED <<cache, readers, writer, stored>>

LockedWrite(t) ==
  LET r == th[t] IN
  /\ r.phase = "try_write"
  /\ IF writer = {} /\ readers = {} THEN Go(t, [r EXCEPT !.phase = "write"]) /\ writer' = {t}
     ELSE Go(t, TryAgain(r)) /\ UNCHANGED writer
  /\ UNCHANGED <<cache, readers, stored>>

\* A module another thread has stored meanwhile is replaced.
CacheInsert(t) ==
  LET r == th[t]
      f == Target(t)
      m == CHOOSE m \in r.made : TRUE
  IN
  /\ r.phase = "write"
  /\ cache' = [q \in DOMAIN cache \cup {f} |-> IF q = f THEN m ELSE cache[q]]
  /\ stored' = stored \cup {f}
  /\ writer' = {}
  /\ Go(t, Deliver([r EXCEPT !.made = {}], m))
  /\ UNCHANGED readers

-----------------------------------------------------------------------------
ThreadStep(t) ==
  \/ EmbedNext(t) \/ EmbedDone(t)
  \/ LetStmt(t) \/ ThrowStmt(t) \/ ImportStmt(t)
  \/ ResolveNext(t) \/ LockedRead(t) \/ CacheGet(t) \/ LoadFile(t)
  \/ EndScript(t) \/ LockedWrite(t) \/ CacheInsert(t)

Next ==
  \/ \E t \in Threads : Start(t) \/ ThreadStep(t)
  \/ ClearCache \/ ClearCacheForPath

\* A thread that can go on goes on: the operating system runs every thread.
Spec == Init /\ [][Next]_vars /\ \A t \in Threads : WF_vars(ThreadStep(t))
-----------------------------------------------------------------------------
Phases == {"idle", "embed", "run", "resolve", "try_read", "read", "load", "try_write", "write",
           "done", "failed", "panic"}

TypeOK ==
  /\ \A t \in Threads : /\ th[t].phase \in Phases
                         /\ th[t].loaded \in Nat /\ th[t].tries \in 0..MaxTries
                         /\ th[t].runs \in 0..MaxRuns
                         /\ Len(th[t].frames) \in 0..MaxDepth
  /\ readers \subseteq Threads /\ writer \subseteq Threads
  /\ DOMAIN cache \subseteq DOMAIN Files /\ stored \subseteq DOMAIN Files

\* A module that was in the cache when an import of it began is not loaded
\* again by this import (the promise of FileModuleResolver's cache), however
\* relative the path of the import and whoever stored it.
NotReloaded ==
  \A t \in Threads : th[t].phase = "load" /\ CacheEnabled => ~th[t].late

KnownModules ==
  {cache[p] : p \in DOMAIN cache}
    \cup (UNION {{th[t].imports[i].module : i \in 1..Len(th[t].imports)} : t \in Threads})
    \cup (UNION {{th[t].embedded[p] : p \in DOMAIN th[t].embedded} : t \in Threads})

\* A module has every variable its own script exports, also when the importing
\* script has variables with the same alias in the scope the module ran in.
OwnExportsWin ==
  \A m \in KnownModules :
    m.file \in DOMAIN Files =>
      \A s \in Range(Files[m.file]) :
        s.op = "let" /\ s.alias # "" => <<s.alias, m.file>> \in m.vars

\* What a running script finds in its scope and among its imports was put there
\* by itself or by a script that is importing it: nothing is left of a module
\* that has ended, and nothing of one whose error was caught.
EnvIsOwn ==
  \A t \in Threads :
    LET r == th[t]
    IN Busy(t) => \A n \in 1..Len(r.frames) :
         /\ \A i \in (r.frames[n].scopeLen + 1)..ScopeAt(r, n) : r.scope[i].by = r.frames[n].file
         /\ \A i \in (r.frames[n].importsLen + 1)..ImportsAt(r, n) :
              r.imports[i].by = r.frames[n].file

\* No thread waits for a lock that it holds itself: the guard of the lookup is
\* gone before a module that may import others is evaluated.
SelfNeverBlocks ==
  \A t \in Threads : th[t].phase \in {"try_read", "try_write"} => t \notin readers \cup writer

\* Every run of a script ends, with a result, an error or a panic of the lock.
EveryRunEnds == \A t \in Threads : Busy(t) ~> ~Busy(t)

\* The cache serves what it has, and its lock is never held by the thread that waits for it.
CacheServes == TypeOK /\ NotReloaded /\ SelfNeverBlocks

\* A module is made of its own definitions and leaves none in the script that imports it.
ModulesAreOwn == OwnExportsWin /\ EnvIsOwn

-----------------------------------------------------------------------------
\* An instance for TLC: d/a imports d/b, which it names b, and g imports h; e fails.
MCStatic == {<<"s">>}
MCBroken == {<<"q">>}
MCChain == <<"static", "file">>

MCFiles ==
  [p \in {<<"d", "a">>, <<"d", "b">>, <<"g">>, <<"h">>, <<"e">>} |->
     CASE p = <<"d", "a">> -> << Let("x"), Import(<<"b">>, FALSE), Let("y") >>
       [] p = <<"d", "b">> -> << Let("y") >>
       [] p = <<"g">>      -> << Import(<<"h">>, FALSE), Let("y") >>
       [] p = <<"h">>      -> << Let("x") >>
       [] p = <<"e">>      -> << Let("x"), Import(<<"s">>, FALSE), Throw >>]

MCProgram ==
  [t1 |-> << Let("x"), Import(<<"h">>, FALSE), Import(<<"d", "a">>, FALSE), Import(<<"q">>, TRUE),
             Import(<<"e">>, TRUE), Import(<<"s">>, TRUE) >>,
   t2 |-> << Import(<<"g">>, FALSE), Let(""), Import(<<"s">>, FALSE) >>]
=============================================================================
