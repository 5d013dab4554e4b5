# A TLA+ development for Rhai

Rhai is an embedded scripting language: a host creates an `Engine`, compiles text to an
AST and evaluates it, directly (a tree walker) or, in this fork, as *Grain* byte code.
This directory models the parts of it whose correctness depends on the order of things:
state that is changed on the way in and restored on every way out, positions computed
ahead of time, caches in front of searches, locks between threads, and two engines that
must come to the same.

Source paths below are relative to the repository's `src/` directory
(`eval/stmt.rs` is `src/src/eval/stmt.rs` in `PROJECT.json`). Its map names the code of 800
definitions; a helper without an entry stands for lines that are within those of the definition
that uses it.

## 1. The system

| Component | State it keeps | Operations | Interacts with |
|---|---|---|---|
| Strings interner (`types/interner.rs`, `types/bloom_filter.rs`) | table hash → string, bloom filter, capacity | `get_with_mapper`, `throttle_cache`, `set_max` | every thread that uses the `Engine`, through `locked_write` (`func/native.rs`) |
| Statement evaluator (`eval/stmt.rs`, `eval/expr.rs`) | none of its own: the Rust stack | `eval_stmt_block`, `eval_stmt`, `eval_expr`, `eval_global_statements` | changes `Scope`, `GlobalRuntimeState`, `Caches`; restores them through `defer!` |
| Global runtime state (`eval/global_state.rs`) | imports, libraries, source, counters, levels, constants, search flag | push, truncate, lookups | shared by reference by everything that evaluates |
| Script function calls (`func/script.rs`, `func/call.rs`) | saved lengths on the Rust stack | `call_script_fn`, `make_function_call`, `eval_script_expr_in_place`, `resolve_fn`, `has_script_fn` | evaluator, caches, environment of modules |
| Function resolution caches (`eval/cache.rs`) | a stack of (dictionary, bloom filter) | get, push, rewind, clear | filled by `resolve_fn`, pushed and cleared by `eval_stmt_block` |
| Error classification (`types/error.rs`) | – | `is_pseudo_error`, `is_catchable`, `is_system_exception` | `try`/`catch`, calls, eval, resolvers |
| Tokenizer (`tokenizer.rs`) | `TokenizeState`: comment level, whether a sign may be unary, the text it is inside of | one token at a time; the compact form of a script | the parser tells it when an interpolation ends |
| Parser (`parser.rs`) | `ParseState`: a stack of names and a list of imports that mirror the run-time scope; depth and flags | one function per construct, `find_var`, `find_module`, `access_var` | its offsets are used by the evaluator |
| Optimizer (`optimizer.rs`) | known constants, a dirty flag | passes over the AST | parser, native functions |
| Scope (`types/scope.rs`) | names, values, aliases | push, rewind, search, remove | parser's offsets index it |
| Modules (`module/mod.rs`) | tables of functions and variables, an index over sub-modules | registration, `build_index`, `eval_ast_as_new_raw` | evaluator, resolvers |
| Module resolvers (`module/resolvers/`) | a cache path → module | `resolve`, `resolve_raw` | evaluate modules inside the importing script's state; shared between threads |
| Limits (`api/limits.rs`, `eval/data_check.rs`) | numbers set by the host | tests at fixed places | every statement, call, variable, module |
| Debugger (`eval/debugger.rs`) | status, break-points, call stack | `run_debugger*`, `on_debugger` call-back | called before statements and on entry and exit of functions |
| Dynamic values, function pointers (`types/dynamic.rs`, `types/fn_ptr.rs`) | values, shared cells with locks | clone, flatten, read and write locks | everywhere |
| Chained access (`eval/chaining.rs`, `eval/target.rs`) | the chain of targets on the Rust stack | get, set, write back | property call-backs |
| Packages (`packages/`), operators (`func/builtin.rs`) | – | library functions and operators | evaluator, machine |
| Grain compiler (`grain/compile/`) | `Lowering`: code, open loops, depths of scope, iterators and handlers | one function per construct, jump patching, shortcuts | AST, verifier (`tighten_stack`) |
| Grain verifier (`grain/bytecode/verify.rs`) | a state per address, a work list | `verify_chunk` | called on compiled programs and on artifacts |
| Grain machine (`grain/vm/`) | frames with operand stack and scope, handlers, `unwind_floor` | one arm per instruction, `catch`, `execute` | engine's functions, counters and limits; the host's scope |
| Grain artifacts (`grain/format/`, `grain/pos/`, `grain/program.rs`) | – | read, write, strip and attach positions | verifier |
| Serde, registration and definitions, codegen, tools, JIT | – | data and text processing, glue | – |

### What is hard

* **Ways out.** A statement ends with a value, `return`, `break`, `continue`, `exit`, a
  catchable error, a limit or a termination. Each frame of the evaluator has changed
  something (scope length, imports, scope level, search flag, libraries, constants, source,
  call level, debugger stack) and each restores a *part* of it, some with `defer!`, some by
  hand after a `?` could have left.
* **Positions computed ahead of time.** The parser replaces names by offsets from the end
  of the scope. This is right only while the scope has the shape that the parser simulated;
  `eval`, which runs text in place, breaks it and sets a flag.
* **Caches.** Functions are looked up through a stack of caches that must be cleared,
  pushed and popped whenever the search behind them would yield something else. Modules are
  cached by path, by threads that load them at the same time.
* **Threads.** With the `sync` feature one `Engine` serves many threads; locks are tried a
  few times and then given up, and a panic poisons them.
* **Two engines.** Grain compiles with many shortcuts (fused operators and branches, values
  nobody wants, rotated loops, jumps to jumps) and must show what the tree walker shows.
* **Byte code.** The machine decodes in place and allocates the slots of a frame once. It
  relies on the verifier, which relies on a table of what each instruction takes and leaves;
  `break` and `continue` leave several regions at once and undo each in emitted code; an
  error may be caught in any frame, at any depth. Artifacts come from elsewhere.
* **Write-back.** A chain of accesses changes parts of values that getters returned; each has
  to be put back on the way out, also when a later step fails.
* **Limits.** They are tested at one place and the resource is taken at a later one; script
  code may run in between.

Each hazard is listed in `PROJECT.json` at the line where it bites, with the properties
that would catch it going wrong.

## 2. Modules

| Module | Models | Proofs | Run(s) |
|---|---|---|---|
| `Interner` | strings interner, its lock and its threads | `InternerProofs` | `interner` |
| `Evaluator` | statements, calls, `eval`, `import`, errors, limits | `EvaluatorProofs` | `evaluator`, `evaluator_script` |
| `VarResolution` | offsets: parser against run time | `VarResolutionProofs` | `offsets` |
| `FnResolution` | function search and its caches | `FnResolutionProofs` | `functions` |
| `Resolver` | imports, module resolvers, their shared cache | `ResolverProofs` | `resolver` |
| `Chaining` | chains of accesses and assignments through them | – | `chaining` |
| `Indices`, `ArrayLib`, `BlobLib`, `StringLib`, `NumberLib`, `Operators` | positions and lengths, the library's functions, the operators | – | |
| `Library` | a script that calls them | – | `library` |
| `Tokenizer`, `Syntax` | tokenizer and compact form; parser | – | |
| `Frontend` | both together, on texts and token streams | – | `frontend` |
| `Script`, `Walker` | values and variables; the tree walker as a function | – | |
| `Statements` | abstract specification: a program, statement by statement | – | |
| `Optimizer`, `Lowering`, `Machine` | optimizer, compiler and machine on whole programs | – | |
| `Engines` | optimize, compile, run; implements `Statements` | – | `engines`, `engines_rotate` |
| `GrainCode`, `GrainCompile`, `GrainVm` | addresses and the verifier's walk; lowering of all statements; the machine's frames, handlers and limits | – | |
| `Grain` | composes the three: lower or read, verify, run | `GrainProofs`, `GrainLayoutProofs`, `GrainCompileProofs` | |
| `Bytecode`, `CodeVerifier`, `Artifact`, `Store`, `StoreSamples` | instructions as bytes; the verifier on them; the file formats; a program's way through them; programs with every instruction | – | |
| `Toolchain` | composes `Grain` and `Store` | – | `grain` |

`MCChaining`, `MCLibrary`, `MCFrontend` and `MCEngines` hold constants for TLC that a configuration
cannot express; `Interner` and `Resolver` have theirs at their ends.

### Interner

State: the capacity (`max`, 0 for no interner), the table, the bloom filter's bits, the
lock (`holder`, `poisoned`), and per thread its place in the code, the string it asked for,
its attempts at the lock and the last result. `Request` is `get_interned_string` and its
siblings in `engine.rs`; `Lock`, `Spin` and `GiveUp` are the attempts of `locked_write`;
`get_with_mapper` and `throttle_cache` are the critical section, the latter one eviction at
a time; `Panic` is the arithmetic trap on `max - 3`; `set_max` is the host's call, which
needs `&mut Engine` and therefore excludes requests.

Abstractions: the hash is injective on (category, text). Which entry is the least used and
longest is arbitrary, except that the protected one is never chosen. Subtraction wraps at
`WordSize` unless `OverflowChecks` makes it trap. The model is of the `sync` build with
`std`; without `sync` one thread remains, which is the case of one element in `Threads`.

### Evaluator

The program is not part of the state: wherever the code looks at the next statement or at
the value of an expression, any may come. `frames` is the Rust call stack; each frame holds
the state on entry, from which the code restores what it restores. `out` is `"Run"` or the
`Result` on its way up. `st` holds what the code changes: scope length, scope level, search
flag, numbers of imports and libraries, which constants are in force, call level, source,
debugger stack. Two fields are ghosts: `hidden` counts the variables and imports that the
parser of the running code could not know, `declared` says that the running module defined a
global constant.

One action per statement and one per way of resuming a frame: `Stmt_Var`/`DefineVar`,
`Stmt_Loop`/`Condition`/`LoopBody`, `Stmt_For`/`Iterable`/`ForBody`,
`Stmt_TryCatch`/`TryBody`/`CatchBody`, `call_script_fn`/`ReturnFromCall`,
`eval`/`ReturnFromEval`, `Stmt_Import`/`LoadedModule`/`EvalModule`/`ReturnFromModule`,
blocks and whole scripts. `Features` chooses what scripts and host use.

Abstractions: variables are counted, not named (their identity is the subject of
`VarResolution`); an environment merged into a call brings one import and one library; errors
are three classes. Values are in `Walker`, sizes of data in `Library` and `Chaining`.

### VarResolution

First any program of at most `MaxCode` statements is parsed, each statement recording the
offset that the parser computes; then it runs. A block is skipped, run once, or run again.
`p` is `ParseState`, `r` the scope and the part of the global state that is used. Values are
left out: a variable holds the number of the statement that defined it, so that two
variables of one name are told apart. An arm of a `switch` without braces is a statement to
the parser and a block at run time.

Not modelled: a `resolve_var` or `def_var` call-back of the host, the barrier of custom
syntax, `for` with a counter (two variables instead of one). An offset beyond the imports
panics in a build with overflow checks; in another it falls back to the search by name.

### FnResolution

A function is a hash. `FindExact` is the order lib, engine, imports; `Candidates` are the
hashes with argument types replaced by `Dynamic`; `resolve_fn` and `has_script_fn` consult
and fill the cache on top, at the second sight of a bit of the bloom filter. Blocks, calls,
evals and imports push, clear and rewind caches. A call of a module's function merges that
module's library and imports. `unseen` is a ghost: the modules that came into view while a
cache was kept.

Not modelled: static modules of the engine other than the global ones, the filter for
functions with `Dynamic` parameters, namespace-qualified calls.

### Resolver

Threads run scripts of imports (caught or not), definitions with and without export, and
errors. `th` holds per thread the levels of evaluation (its script and the modules being
loaded), its scope, imports and modules so far, and where it is in `resolve_raw`; `cache`,
`readers` and `writer` are the file resolver's cache and its lock, taken with `MaxTries`
attempts. An import asks the embedded modules of a self-contained AST, then the engine's
chain of resolvers; the file resolver looks into its cache, gives the lock back, compiles,
evaluates (`eval_ast_as_new_raw`, which runs *in the importer's scope and imports* and cuts
both back) and stores. The host may clear the cache at any time. `stored` is a ghost: paths
cached since the last clearing.

Not modelled: scopes given to a file resolver, host-written resolvers, sub-modules as data.

### Chaining

One chain of up to `MaxSteps` links on one root: `eval_dot_index_chain` evaluates all
indices and arguments first, goes down keeping a stack of targets, reads, assigns or calls at
the last link, and comes up, writing back what getters and indexers returned. Getters,
setters, indexers and methods of host types are external and may fail or return a shared
value. `shorted` and `before` are ghosts. Integers have `IntBytes` bytes of `ByteBits` bits.

### The library

Each function of `packages/` is an operator at a small integer width: it gives the value
after the call, the result, or an error; `Library` calls them on a variable, one after
another, with positions at and beyond both ends, and compares a call with what its
documentation says of it (another definition), where it has such a reference: portions,
positions, searches, filters, sorts, splits, padding, and writing an item and reading it back.
The other functions (`append`, `concat`, `truncate`, `chop`, `reverse`, `map`, `contains`,
`dedup`, `reduce`, `zip`, `equals`, `has`, `trim`, `replace`, `-`, `pop_string` and
`split_whitespace`) only bring about the values that later calls meet; no property says
what they should return. Function pointers are arbitrary functions that may fail. Padding and stepped ranges take steps, so that their ends can be asked for.
`Operators` has each operator as the package has it, as the built-in shortcut has it, as the
op-assignment has it, and as the machine's memoised one has it.

### The front end

`Tokenizer` is `get_next_token` on strings of a few characters; `Syntax` is one operator
per function of the parser, from tokens to trees. `Frontend` runs both together, one token
at a time, on whole texts (then compacts them and reads them again) and on token streams that
`MCFrontend` spells out from trees. Positions and wording of errors are left out.

### The two engines

`Script` has values, shared cells and functions; `Walker` evaluates statements with them.
`Statements` is the abstract specification: a program runs one statement per step, and shows
variables, shared cells, calls of host functions and the result. `Optimizer` rewrites
programs; `Lowering` is the compiler with its shortcuts; `Machine` is one operator per
instruction. `Engines` takes a program through optimize, compile and run, one instruction per
step. The refinement maps the state at the last statement boundary (`seen`) to the
abstract state; instructions between boundaries are stuttering steps, and optimizing is the
step `Replace` by a program that comes to the same.

### Grain

`Grain` is about control and depth only, for *every* program over a few statements: `phase`
takes a program through its life. In `"lower"`, the compiler meets any statement of
`Kinds` wherever it looks at the next one: `low` is `Lowering`, its `open` list the Rust
stack of the functions that are lowering blocks; one action per construct begins it
(`Stmt_For`), another goes on when its block has ended (`end_for`). In `"read"`, an artifact
with any instructions of `ReadOps` is put together instead. `verify_chunk` is one turn of
the verifier's loop per action. A compiled chunk that fails is run with the compiler's
estimate, as `tighten_stack` leaves it; an artifact that fails is refused, as in `read`.
Then the machine runs it: `frames` are the invocations of `execute`, one action per arm of the
dispatch loop, and `catch`, `catch_unpaid` and `leave_with_error` are the ways out of its
error edge. A call calls the same chunk again in a frame of its own (or a native function), so
every script is a function as well.

The verifier's table (`requires`, `pops`, `pushes`) and what the arms of the machine do are
separate definitions from separate code: the properties compare them. Ghosts: `mark` (the
floor a frame has set), `owner` (the frame that armed a handler), `fault`, `cut`.

`Store` is about bytes: a lowered program (`StoreSamples` has every instruction, constant,
chain and table) is assembled, written with or without positions, cut, continued or changed
in a byte, read, verified, and joined with a sidecar. Integers are narrowed to what TLC can
count. `Toolchain` runs the two side by side. Not modelled: the JIT, suspension, debugger
steps in compiled code.

## 3. Runs

| Run | Properties | Bounds |
|---|---|---|
| `interner` | `TypeOK`, `ServesWhatWasAsked`, `CachedIsMarked`, `TableHolds` (within capacity; what was just inserted survives), `RequestsEnd` | 2 threads, 2 categories, 3 short texts and a long one, capacities 0, 2, 4 |
| `evaluator` | `TypeOK`, `AlignedOrSearched`, `LoopBreakStaysInside`, `RuntimeStateHolds` (call level, scope level, constants of modules), `ExitsAreClean` | depth 6, one variable, one call level, one module; `eval` and `import` |
| `evaluator_script` | `LimitsHold` (variables; catchability), `ExitEndsScript`, `Terminates` | depth 6, five operations, up to two parameters; host call-back and debugger |
| `offsets` | `NamesResolve` (types, scope mirrored, accesses, captures, namespaces, no panic), `DefinitionsHold` | all programs of four statements over two names |
| `functions` | `CachesHold` (types; what is served is current) | three modules, three hashes, depth 3, two imports |
| `resolver` | `CacheServes` (types; not loaded again; no thread blocks itself), `ModulesAreOwn` (own exports; scope and imports of each script its own), `EveryRunEnds` | 2 threads, one self-contained; five files, nested imports, one that fails; two runs, four modules |
| `chaining` | `TargetsHold`, `AssignmentsLand`, `ConstantKeepsItems` | 16 roots, 12 links, chains of up to three, two engines' sets of getters and setters |
| `library` | `SequencesAreRight`, `TextIsRight`, `NumbersAreExact`, `OperatorsAgree`, `CallsEnd` | sequences of up to three elements, integers of four bits |
| `frontend` | `TextsReadBack`, `TreesReadBack`, `TokensAreTaken` | texts over a few characters; all streams of up to three operators, four links, statements nested twice, nesting up to 24 |
| `engines` | `CodeIsBalanced`, `OptimizedAlike`, `ImplementsWalker` | some 900 programs: a declaration and the statements that the compiler's shortcuts are about |
| `grain` | `VerifierIsRight`, `CompilerIsRight`, `CatchIsOwn`, `Terminates`; `ReadsWhatWasWritten`, `ReadIsSound` | all scripts of three statements (plus operands), all artifacts of five cells over ten instructions, one level of calls, three operations, three variables; programs with every instruction |
| `engines_rotate` | `ImplementsWalker`, violated | one call with three arguments |

Why the bounds are enough: six strings exceed a capacity of four by two, so a table is
throttled, refilled and throttled again; a capacity of two makes throttling panic, after
which the lock is poisoned for the other thread. A depth of six holds a script, an eval or
module in it, a call in that and a `try` or loop in the call: two levels of every kind of
frame that restores something. Four statements hold a definition, a block or loop, and two
statements in it. Three modules are one whose environment is merged, one it has imported, and
an unrelated one. Two threads are enough for both to find a module missing, and for one to
write while the other reads; a module that imports a module is loaded by each. Chains of three
have a first link, a last one, and one in the middle, whose value is fetched and written
back. Three elements have a first, a last and one between, and four bits hold positions on
both sides of zero and beyond every length. In Grain, three statements hold a `break` in a
`try` in a `for`, a `try` in a `for` in a `try`, and each loop with a statement before or behind
it; five cells hold a loop over an iterator, or a handler whose catch block is its own try block.
For `interner`, `evaluator`, `functions`, `resolver`, `offsets` and the control of `grain` the
theorems of section 4 remove the bounds.

Deadlock is checked wherever the system goes on or says that it is done (`Done`,
`Finished`); `resolver`, `chaining`, `library` and `frontend` may stop when their scripts,
chains, calls and texts have come to an end.

**Fairness.** `Interner` assumes `WF(Step(t))` and `Resolver` `WF(ThreadStep(t))` per thread:
an operating system schedules a runnable thread again, and each step is enabled until it is
taken; new requests and the host's clearing are not assumed. The locks need no strong
fairness, because attempts are bounded. `Evaluator`, `Grain` and the steps of `Library`'s
padding and ranges assume weak fairness of the only process there is: this is sequential Rust
code, which does not stop between two steps.

### Where the code and its documentation part

One run is expected to be violated: `engines_rotate`. The machine's `Rotate` exchanges the top
operand with the one `n` below (`grain/vm/mod.rs:7910`) where the compiler and
`grain/bytecode/op.rs:520` mean a rotation, so that a function called with a variable of the
host's scope and two more arguments gets these in the wrong order.

The models reproduce further deviations. The passing runs state their properties so that these
cases are outside; names in brackets are the constants or conditions that bring them back.

*Interner and evaluator*

* A maximum of one or two strings: `max - 3` underflows (`types/interner.rs:129`) [`Caps`];
  of three: throttling never removes the string just inserted, and loops; of four: one entry
  is left where a comment promises two.
* A limit or termination inside `eval` is wrapped into a catchable error
  (`func/call.rs:1479`), and so are those in the body of an imported module
  (`module/resolvers/file.rs:328`) [`Features` with `eval` or `import`, and `progress`].
* The limit on variables is tested before the initial value is evaluated
  (`eval/stmt.rs:429`) [`eval`]; a `for` with a counter underflows at a limit of zero
  (`eval/stmt.rs:676`) [`MaxVars = 0`].
* A module imported inside a block or function loses its constants (`eval/stmt.rs:445`).
* `exit` in a module's body ends the module only (`api/eval.rs:251`).
* A debugger call-back that fails on entry of a function leaves call stack, libraries,
  imports and constants as they are (`func/script.rs:117`): `ExitsAreClean` with `debugger`.

*Offsets and functions*

* A variable defined in a `switch` arm without braces stays on the parser's stack and shifts
  later offsets (`parser.rs:1210`): `NamesResolve` without `~DefinesInArm`.
* `let` that reuses a slot and the capture of a closure do not look at
  `always_search_scope` (`eval/stmt.rs:467`, `:1010`). `export let` that reuses a slot exports
  the last variable of the scope (`eval/stmt.rs:477`).
* Of two imports of one name, the offset leads to the first and the name to the last
  (`parser.rs:193`). `export let` in an arm reaches `unreachable!` (`eval/stmt.rs:461`).
* A module's function runs with its caller's cache and can be served the caller's function of
  the same name (`func/script.rs:106`); a module imported by `eval` inside a block stays in
  the outer cache after the block (`eval/stmt.rs:98`): `unseen` in `ServedIsCurrent`.

*Module resolvers*

* The limit on modules is tested before a module that imports modules is loaded
  (`eval/stmt.rs:907`); two threads may load one module twice; the lock's `unwrap` panics
  after its last attempt; a module that fails at the top level leaves its variables in the
  importer's scope (`module/mod.rs:2361`), which a block around the import cleans up.
* A self-contained AST resolves nested relative imports against no source, and fails.
  Variables that the importer exported before become variables of the module it loads.
* A collection whose member fails with another error than "not found" reaches `unreachable!`
  (`module/resolvers/collection.rs:192`).

*Library and operators*

* `get` and `set` of arrays and blobs with an index below minus the length reach element 0
  (`packages/array_basic.rs:71`); `retain(start, len)` with a length of zero keeps everything
  (`:2197`); `splice` of blobs with a length of zero appends (`packages/blob_basic.rs:602`);
  inclusive ranges whose end is before their start take one element.
* `drain` and `retain` whose filter fails lose what they had removed; `pad` with an empty string
  does not end; its error comes after the lengthening (`packages/string_more.rs:1385`).
* `"" - "a"` is `"a"` (`types/immutable_string.rs:444`).
* A stepped range loses its last value when one more step overflows
  (`packages/iter_basic.rs:293`).
* Float comparisons with an epsilon: `NaN == 0`, `NaN >= 0` and `NaN <= 0` hold, infinities
  equal nothing (`func/builtin.rs:168`). `() >= ()` is false. An exclusive and an inclusive
  range cannot be compared (`:674`), nor a blob with a character, though a character can with
  a blob (`:623`). `array += array` tests the size before, string `+=` after appending.

*Chaining*

* Constants can be changed through their parts (`const m = #{}; m.a = 1`): the test is on the
  last target only (`types/dynamic.rs:1190`, `eval/chaining.rs:195`).
* Assigning through a part in the middle (a bit, a character, a slice) is lost without an
  error; `s[-1] = 'x'` writes at the absolute value of the index (`eval/chaining.rs:330`); a
  string slice with equal inclusive bounds reads nothing and replaces one character.
* An op-assignment through an index getter that fails becomes an assignment
  (`:801`); one to a missing key of a map leaves `()` behind; a method called in the middle of a
  chain on what a getter returned is not written back; a shared value that a getter returns
  is taken out of its cell (`:1169`).
* A method or an indexer that returns the shared value which the chain holds locked makes the next
  link panic (`:717`, `:841`); with limits on sizes so does the result of any getter, indexer or
  method of a Rust type (`eval/data_check.rs:113`), and without them an op-assignment does
  (`eval/stmt.rs:127`), although `README.md:68` calls any panic a bug [`NeverPanics`; `NoPanic`
  is what holds of all other chains].
* A shared value inside a constant array or map can be assigned: the test asks the value in the cell
  (`eval/stmt.rs:118`, `types/dynamic.rs:1213`), which is read-only only if it was a constant that
  a closure captured. A constant root that is shared is taken to be such a one.

*Front end*

* `compact_script` loses the bodies of raw strings, the `$` of an escaped `\${`, the first
  newline and the indentation of continued strings, and joins a unary minus with the number
  after it (`api/formatting.rs:256`, `tokenizer.rs:1280`).
* `-0x1` and `_foo` are malformed; a minus after `=>` is not unary. An array literal of exactly
  the maximal size is refused, a map of that size is not (`parser.rs:930`). `fn` and `export`
  are accepted in an arm of a top-level `switch` (`parser.rs:3162`, `:3331`).

*Optimizer and engines*

* An assignment through a known constant map becomes an assignment to a literal, and panics
  (`optimizer.rs:439`, `eval/stmt.rs:376`); constants shadowed by a loop variable, a catch
  variable or a parameter are propagated (`optimizer.rs:801`); conditional arms of a switch on
  a known value are lost (`:601`); `() ?? ()` becomes `false` (`:1244`); `x = x + e` becomes
  `x += e`, which reads `x` later (`:419`); tests of types are lost.
* A `return` at the top level inside a block leaves the block's variables (`grain/vm/mod.rs:3027`);
  assigning by index to what has no index succeeds (`:3810`); a constant root raises only in
  the machine (`:3264`); `call(Fn("inc"), x)` passes by reference in the walker and by value
  in the machine; a closure held in a map is not called as a method (`:3549`).

*Grain*

* The verifier counts a slot for an iterator that the machine does not use, and gives it back
  on one of the two ways out of a `for`: a `for` with a `break` does not verify
  (`grain/bytecode/verify.rs:822`), and its artifact cannot be read.
* When resuming at a catch block exceeds the limit on operations, `execute` is left by a `?`
  and the caller unwinds the host's scope to the callee's floor (`grain/vm/mod.rs:5946`) [`cut`].
* Two kinds of artifacts are accepted although they underflow the stack, against
  `grain/bytecode/verify.rs:157`: one that pops the iterator's second slot, and one whose try
  block pops operands from below its handler, which the catch block pops again.
* `break` and `continue` inside an operand leave the other operand on the stack; such code
  does not verify (`grain/compile/mod.rs:1693`) [`LeaveOperand`].
* Defining a variable does not test the limit on variables (`grain/vm/mod.rs:10016`).
* Constants nested deeper than 64 are written and not read; indices of chain operands, names
  of functions and names in op-assignments are not bounded by the verifier; an entry is not
  tested to be the start of an instruction (`grain/bytecode/verify.rs:239`); `takes_this`
  misses a call by `this` that captures (`grain/program.rs:292`).

## 4. Proofs

All theorems are for every value of the constants that the named assumption of the module
allows; bounds such as `MaxDepth` are arbitrary numbers there. The inductive invariants were
checked with TLC on the instances of the runs before they were proved, except the one for
compiled code, which says that layouts exist and cannot be evaluated.

**InternerProofs** proves `TypeOK`, `ServesWhatWasAsked` and `CachedIsMarked`
for any set of threads, strings and capacities, with and without overflow checks. The
inductive invariant adds that a cached string is what the mapper makes of its hash's text, that
a request in progress is for a string, and that what a thread inside the lock, which is alone there, is about to
return is right. These are what eviction, resizing and panics of other threads must not
disturb. `TableHolds` follows for every capacity for which `max - 3` does not wrap
(`NeverWraps`: with overflow checks every one; without, one and two are excluded because the
table then really outgrows its capacity): while a table is being throttled it is over its target by what is
still to be evicted.

**EvaluatorProofs** proves `TypeOK`, `LoopBreakStaysInside`, `AlignedOrSearched` and
`ExitsAreClean` for scripts of any nesting, any limits and any combination of `eval`,
`import` and a host call-back, as long as no debugger is registered (with one,
`ExitsAreClean` is false, see above). No property is inductive: a frame restores only a part
of the state, and what it does not restore must have been restored already by the frames
above it. The invariant is therefore about the whole stack. `Within(f, s)` says what may
differ from `f.orig` when the state is `s`; it holds between each frame and the state the
frame above it was entered in (`Stacked`), and between the top frame and the current state.
Lemmas say what pushing, popping and replacing a frame do to it; each action is then one of
these. `Above` says which kinds of frames sit on which, `Aligned` relates `hidden` and the
search flag.

Its second part proves `RuntimeStateHolds` under the same condition. Levels are
counted up on the way in, and either counted down or taken from what a frame saved on the way
out; the invariant (`Books`) says of every frame that the state it saved counts exactly the
frames below it, and has the constants that the running module has declared.

Its third part needs no order in the rest of the state, so it holds with any debugger:
`ExitEndsScript` without `import`, and `LimitsHold` without `eval` and `import` and with
`MaxVars > 0` (the excluded cases are the deviations above). The invariant follows an `exit`
and a system error on their way through the frames that are left.

**FnResolutionProofs** proves `CachesHold`. A cache is used again after the blocks above it
have ended, with the imports there were when they began. So the invariant says of every cache of
the stack that it is right for the imports that will *remain* when the frames above it have
ended (`AllRight`, with `Height` and `Remain`), that frames which use the same cache differ
only in imports that cannot matter (`Shared`: what a block stores in the cache of an outer one
must be right for both), and that outside of all blocks there is one cache (`OneOutside`). The
search is treated as a relation (`IsFound`) with a unique answer, which does not change when
harmless imports are added or removed.

**ResolverProofs** proves `CacheServes` and `ModulesAreOwn` for any threads, scripts, files,
resolver chains and limits. The invariant (`RInv`): every level of evaluation runs the file that
the level below imports (`Linked`); the lengths that levels saved are ordered, each level owns
the part of scope and imports between its own and the next one's, and has there exactly the exports
of the statements it has run (`Owned`); every module that is known anywhere is complete
(`GoodModule`); a thread whose module came late finds it in the cache; readers and the writer
are the threads whose phase says so, and a writer is alone.

**VarResolutionProofs** proves `NamesResolve` and `DefinitionsHold` for programs of any length,
any names and any nesting, skipping and repeating of blocks. This is a proof about a compiler:
`seen` is what the parser knew before each statement (its stack of names, its list of imports and
the blocks it was in), and wherever the evaluator can come to a statement from, the scope there
must follow that record. One part of the invariant (`Coded`) speaks of the program alone: each record
follows from the one before by the statement between them (`Steps`), what was there when a block
was opened is still there in it (`Around`), `frame_pointer` is where the innermost block begins
(`Pointed`), an arm defines nothing (`InArm`, under the condition of the properties), and the
statements that open and close a block know each other (`Linked`). Parsing preserves it, although
closing a block changes a statement far back. The other part (`Fits`, `Follows`) relates the
state at run time to the record of the next statement: the evaluator is inside the same blocks;
without the search flag the names are the same, one by one; and what each block on the Rust stack
will restore is the scope that the parser had inside the block, or one in which names were
searched for when the block was entered. With the flag set, offsets are still used by `let` and
by captures, so the invariant counts for each block how many variables the parser does not know
of (`Surplus`), which only grows from the outside in: that is why a definition that takes over
the place of an earlier one stays inside its block even after an `eval`.

**GrainProofs** proves `VerifierIsRight` for code of any length, from the compiler or an artifact,
with any limits and any nesting of calls: what `verify_chunk` accepts, the machine runs as
computed. There are two parts. `PhaseOK` is about the walk: an edge that has been taken leads to
a label with its state or is still in the work list (`Taken`), a label is on an instruction
with room for what it takes (`LabelOK`), and code is instructions one behind another
(`WellFormed`), which patching and leaving loops while a chunk is lowered must keep. When the
work list is empty, labels are closed under execution. `RunOK` is about the machine: each frame
is at a label, with no more operands than it says. That alone is not inductive. An error jumps
to a catch block the verifier has reached by another path, so each handler must have been
armed with the depth at which its catch block was labelled, as the n-th of its frame
(`HandlerFits`); a call that fails gives control back to a frame whose handlers must not have
changed (`Armoured`, between the `handler_base` of one frame and that of the next: `BasesOK`);
and an innermost frame that is failing may have lost its iterator's slot (`Settled`). In code with
neither handlers nor iterators the depth is exact (`Exact`), so that nothing underflows.
`HandlerFits` also says that an error resumes in the frame that armed the handler
(`AcceptedCatchesItsOwn`); an artifact is run only if it was accepted, which makes `CatchIsOwn`
hold for all of them (`ArtifactsCatchTheirOwn`).

**GrainLayoutProofs** and **GrainCompileProofs** are a proof about a compiler as well:
`CompilerIsRight` and `CatchIsOwn` for scripts with any number of statements, in any nesting, and
for all artifacts (`CompilerSound`, `ErrorsResumeWhereTried`). Compiled code is run even if it is
refused, so the verifier's labels say nothing of it; what it should do is in the compiler's mind
only, and the proof has to write that down. A *layout* says of one address what the operand
stack holds (values, and iterators with the address of their `IterInit`), how long the scope is,
and which try regions are around it. A *graph* has a layout for each instruction emitted so
far; `Good` says that every instruction finds what it takes and that layouts follow from each
other along every edge, those of unpatched jumps excepted. This is the invariant of lowering:

* `Ctxs` relates the graph to the Rust stack of the functions that are lowering blocks. A plan
  (`Plans`) has for every open block the layout that it began with, and for every jump which is not
  patched the construct that it belongs to and its place (out of the construct, on to the next
  turn, to the catch block). `Aim` is the layout there, so that patching the jump when its construct
  ends (`patch_here`, `drop_iterators`) makes a correct edge. `Links` says how the layout of an
  inner block follows from its construct's, `Rings` what a loop's record says of its depths, and
  `Shapes` which cells a `for` has written.
* Emitting an instruction, or a row of them, dropping a trailing `Unit` and patching a set of jumps
  are one lemma each. They preserve everything that is
  said about the contexts further out (`Leads`, `Grows`). Every action of `Lowering` is composed of
  these. At the end no jump is left, and the graph is a *chart* (`Charts`).
* The verifier walks over a chart and finds the image of each layout (`Walked`), until it comes
  to the `IterDrop` of a `break` out of a `for`, where it counts wrongly. Such a `break` and the
  ordinary end of its loop meet with different depths, so the chunk is refused (`Doomed`): that is
  `CompiledVerifiesWithoutBreak`, and why `CompiledIsExact` holds of accepted code.
* The machine on a chart (`MachineOK`): each frame is at an instruction, its stack and its
  handlers are what the layout there says, and its scope is the layout's above the floor it was
  entered at (`Placed`, `Guarded`). The layout of a catch block is that of its `try`, so an error,
  from however deep a call, finds the stack no shorter than the handler says. `FloorsKept` says of
  any code, artifacts too, that the floor a frame unwinds to is the one it has set itself.

`Whole` is the conjunction of all this with the invariant of `GrainProofs`. The theorems assume
`~LeaveOperand`, as the run does: with a `break` inside an operand the other operand stays on the
stack (section 3), and no layout describes the place after the loop.

**Only model-checked.** Liveness (`RequestsEnd`, `Terminates`, `EveryRunEnds`, `CallsEnd`) is out
of this prover's reach. What recursive operators compute (`Syntax`, `Tokenizer`, `Walker`, `Optimizer`,
`Lowering`, `Machine`, `Bytecode`, `Artifact`, `CodeVerifier`) needs induction over data, which
the installed provers cannot do; so do the library's functions, those of which that have a
reference are compared with it over all small inputs instead. `Engines` implements `Statements` for the programs of
the run.

## 5. Not modelled, and the plan

Not modelled at all: serde, definitions, codegen, command-line tools, the JIT. They are
sequential data and text processing, or glue to external code.

The plan, in order:

1. *Refinement.* An abstract specification of name lookup (an environment of names for each
   block), of which `VarResolution` without the search flag is an implementation: `NamesResolve`
   is what each step of that refinement needs.
2. *Chained access.* `Chaining` computes paths with recursive operators; as recursive functions
   they could be used in proofs, and that what was changed is written back could be stated for chains
   of any length.
3. *More of the model.* Namespace-qualified calls with their hashes, the status of the debugger
   across nested calls, and suspension of compiled code.
