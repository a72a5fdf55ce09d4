# Mersey in TLA+

Specifications of the run-time core of Mersey (`src/crates/mersey_interp` and what
surrounds it), the TLC configurations that check them on small instances, and
proofs, checked by TLAPS, of what holds on every instance.

Paths below are relative to `src/`; `lib.rs`, `gc.rs`, `vm.rs`, `regex.rs`, `debug.rs`
are those of `crates/mersey_interp/src/`, `dap.rs` that of `crates/mersey_cli/src/`.

## Running it

    tlc -workers 2 -config Gc.cfg MCGc           # see "Runs" for the others
    tlapm GcProofs.tla                           # and CallbacksProofs, JitArenaProofs, MachineProofs,
                                                 # RegexProofs, PromisesProofs, DapProofs, ModuleGraphProofs

## Inventory

| Part | State | Operations | Hard because | Correct when |
|---|---|---|---|---|
| Heap and collectors (`gc.rs`, boundary in `lib.rs:9025-9104`) | per object: strong count, fields, `old` flag; thread-local YOUNG, OLD, REMEMBERED, DRAIN; counters | allocate, borrow for writing (barrier), drop, minor and major collection at a boundary, cycle collection at a loop's back edge | program steps between collections in any order; the host re-enters; several contexts on one thread; compiled code writes too | nothing the program can reach is emptied; every cycle is reclaimed; the remembered set is complete |
| Promises, microtasks, coroutines (`lib.rs:955-1298`, `8917-9222`) | promises, queue of tasks, suspended frames, Promise.all cells | settle, then, await, drain, all | the host's `then` may call back, fail or settle at once; nested drains share a queue; throws end turns | each promise settles once, by the one party that owes it; each coroutine resumes once per await; outcomes arrive unchanged |
| Generators (`lib.rs:1025-1103`, `9987-10073`) | parked frame, request in flight, done | next, yield, end, throw, await | a next() while the body runs or waits | each next() gets the value of one yield; done only at the end |
| Module graph (`lib.rs` 3000-3210, `embed.rs`, `mersey_front/src/graph.rs`) | modules run, running or suspended; the one suspended graph | run_graph, top-level await, dynamic import | a module imported again while it runs; two graphs suspended at once | dependencies first, each module once, importers resume when what they wait for is done |
| Virtual machine (`vm.rs`) | frames, handlers, operand stack, scopes | compile, verify, exec, unwind, suspend | handlers of inlined calls, `finally`, suspension in a `try`, jumps out of all of them | a program prints and ends as under the tree-walker; the stack is as deep as verified |
| Evaluator, natives (`lib.rs`) | environments | statements, expressions, built-in members | order of evaluation, exits | agrees with the virtual machine |
| JIT entry and arena (`lib.rs:1762-1905`, `5294-6180`, `mersey_jit/src/heap.rs`) | handle table, memo of boxed strings, lent objects, assumptions | enter compiled code, on-stack replacement, keep, release, box, bail out | slots and buffers' addresses reused; a compiled call inside another through the host | a handle names what it was given; each slot has one owner; the heap sees every store |
| JIT code generation (`mersey_jit/src/lib.rs`) | - | bytecode to machine code | - | same results as the virtual machine |
| Callback registry, host bridge, C ABI, WebAssembly host (`lib.rs:9438-9612`, `mersey_capi`, `mersey_wasm`, `web/mersey-bridge.js`) | id table with a free list, identity cache, wrappers, handle table, a pending DOM batch | register, release, call back, flush | ids and addresses reused; releases at any time; batch replay | an id names one closure while the host holds it; a function has one id; a batch does what its calls would |
| Debugger and debug adapter (`debug.rs`, `dap.rs`) | breakpoints, step mode, last line; a reader thread and a channel | set, step, continue, pause | requests arrive while the program runs, and as it ends | it stops exactly where it was asked to; a client that saw a stop is right about it; each request is answered |
| Regular expressions (`regex.rs`) | position, captures, choices left, steps | match a node, iterate, backtrack, give up | captures undone on failure; turns that take nothing; the step limit | the leftmost place, the preferred match and its captures |
| Lexer, parser, checker, resolution (`mersey_front`) | - | functions of the source | size | - |
| JavaScript and WebAssembly back ends (`mersey_js`) | - | compilation | size | - |
| CLI, language server, REPL (`mersey_cli`) | open documents, files | sequential commands | I/O | - |
| Browser loader, workers, forks (`web/`, `chromium/`, ...) | - | glue | the browser's own order | - |
| Big numbers, library in Mersey | - | pure algorithms | - | - |

How they interact.  A host (page, CLI, C embedder) calls the engine: it runs a
graph or invokes a callback by id.  The engine runs code in the virtual machine
or the JIT, which may call the host through the bridge, which may call back in:
there is no limit to the nesting.  When a callback is over the engine drains the
microtask queue, then may collect, then returns (`invoke_callback`,
`lib.rs:3942-3953`).  A throw leaves by `?` before the drain and the collection.
A debugger is a hook the evaluator calls at each statement; the adapter answers its
client from inside that hook.

`PROJECT.json` lists every component with its status, every hazard at the line
where it bites with the properties that cover it, and which lines each
definition models.

## Modules

| Module | What it is |
|---|---|
| `Gc` | the heap: counts, both collectors, the barrier; its properties and its inductive invariant `HeapInv` |
| `ManagedHeap` | the abstract heap: what a program can reach, and nothing ever collected |
| `MCGc` | symmetry of addresses and slots, for TLC |
| `GcProofs` | lemmas about reachability and counts; type correctness; `HeapInv` is inductive, and what follows from it; no unreachable object outlives a full collection or a cycle collection; `Gc` implements `ManagedHeap`, step by step |
| `Promises` | promises, microtasks, async functions and generators, re-entry from the host |
| `PromisesProofs` | one settler for each promise, one place for each coroutine, `Promise.all` exact |
| `TopoOrder` | the order of modules, and the reference definition it is checked against |
| `ModuleGraph` | running a graph of modules: top-level await, resumption, import() |
| `MCModuleGraph` | the programs TLC tries: every graph of three modules with few imports |
| `ModuleGraphProofs` | the order is well defined and right; the graph keeps to it, however often it is suspended |
| `Callbacks` | the table of callbacks: ids, free list, identity cache, addresses |
| `CallbackRegistry` | what that table promises: ids the host holds, and what they name |
| `CallbacksProofs` | the table is exact and implements the registry |
| `JitArena` | the handles of compiled code: slots, free stack, memo of boxed strings |
| `JitArenaProofs` | handles name what they were given, slots have one owner |
| `Values` | the values of both engines, and their operators |
| `TreeWalker` | statements, and what the tree-walking evaluator makes of them |
| `Verifier` | the operand depths the verifier works out for a chunk, and what it means that a chunk keeps scopes and handlers balanced |
| `Bytecode` | the compiler of statements, and the verifier's walk over a chunk |
| `Machine` | the machine, on whatever chunks it is given |
| `MachineProofs` | operands as verified, frames that end clean, nothing lost at an await, no panic |
| `Vm` | programs compiled and run on the machine, compared with the tree-walker |
| `MCVm` | the programs TLC tries on it |
| `Regex` | the backtracking matcher |
| `RegexMeaning` | what a pattern means: the pieces of text it matches, and in which order of preference |
| `MCRegex` | the patterns and texts TLC tries |
| `RegexProofs` | spans stay within the text; the match found is the preferred one, at the leftmost place |
| `DebugController` | the debugger's policy: does this line stop the program, and why |
| `Dap` | a session of the debug adapter, composed of that policy, a client and the program |
| `DapProofs` | the stops are those owed, and the client's view of them is right |
| `MCDap` | the sets of breakpoints of the session |

`TreeWalker`, `Bytecode`, `Vm` and some MC modules use recursive operators; the modules with theorems (`*Proofs`)
do not reach them. `RegexMeaning` and `TopoOrder` use recursive functions instead, so that they can be proved about.

### Gc

An object is an address with reference slots. `alive` holds the addresses whose
value has not been dropped, `fns` the closures among them (the one kind of
object gc.rs never tracks). `young`, `old`, `remembered` are the three
thread-local lists; `before` is the order of YOUNG, which matters for one thing
only: the promotion of a dead entry, described under "Findings". `frames` is the Rust stack of engine calls with the
objects each holds in locals, `rooted` what `gc_roots` would name. `gc` is where
`maybe_collect` is: `boundary`, then after the marks `sweep`, then `promote`.
No program step is enabled between these.

* `Drops` is the heart: whenever references go away (a store, a local, a root, a
  collector's `clear`), everything whose count reaches zero is freed, transitively,
  as `Drop for GcCell` with its DRAIN queue does; a freed old cell leaves OLD and
  REMEMBERED. It is defined on sets (`Freed` is a least fixed point stated by
  quantification over closed sets), so that it can be proved about.
* `NoteWrites` is the barrier in `borrow_mut`. `Store` by the tier `"jit"` does not
  call it, as `cell_set_obj`, `cell_set_arr` and `cell_set_val` do not.
* `StartCollection`, `Sweep`, `Promote` are the three loops of `collect_gen`;
  `Nodes`, `StrongCount`, `External`, `LiveNodes` the five steps of `analyse`, and
  `BackEdge` their use by `collect_cycles`.

Abstractions. Scalars, statistics and thresholds are left out: a boundary may bring
no collection, a minor or a major one, any registration may prune, any back edge
may collect. A callback's own closure (`cb` in `invoke_callback`) stays in a Rust
local until after `maybe_collect`; the model pops the frame first, which lets the
collector see less. Error objects made by the engine (`lib.rs:2953-2969`) are
instances that are never tracked; they are not modelled. `Allocatable` keeps an
address out of use while a weak entry for it is in YOUNG or OLD: that is what
`Weak` does to an `Rc`'s allocation.

`ManagedHeap` keeps the reachable objects and their references only. The mapping
is `obj <- Reachable` and `link` the references of the reachable; what is rooted and held is
the same. Collector steps, and whatever counts free, are stutters.

### Promises

`stack` is the Rust stack: a `call` from the host, a `drain`, a `coro` being
driven, a `react` handler, an `adopt` (the host's `then`, called by `as_promise`).
What program code does is any of its operations in any order. The host may call
back while program code or its own `then` runs: it calls a callback
(`HostCalls`) or settles a promise it was given (`HostSettles`), and a drain
follows each. A suspended coroutine is in the `waiters` of a promise, in a task of the
`queue`, or parked in its generator, as the Rust value `Coro` moves between those places.

`Settle`, `Adopt`, `Then`, `WaitFor` are operators on the promises and the
queue; the actions apply them where the code calls `settle`, `promise_then` and
the end of `drive`. `from` in a promise records which promise it adopted, and
`of` in a task which settlement made it; the code has neither, and no guard reads
them. A coroutine's `owes` is the promise its end, or its generator's next yield,
settles: `result` or `GenState.pending`.

Abstractions. A value is `Null` or the number of the promise that was first
settled with it, enough to tell whose outcome arrives where. Awaiting a plain
value is resolving a promise with it and awaiting that. Left out: downstream
promises nobody can name, the limit of a million tasks per drain, the loop over
suspended modules in `drain_microtasks`, host promises among the items of
Promise.all, breaking out of a `for await`. The host calls at most one of
`resolve` and `reject`, once, as a JavaScript promise does.

### ModuleGraph

`stack` is again the Rust stack: `graph` is `run_modules` with the modules left, `body` a
module's top level, `resumed` one that goes on after an await, `code` a function
of a module run by a task or a callback, `drain` the microtask loop. `evals` is
the history of evaluations; an evaluation is the run of one module body, and
`modules[m]` is the one its exports were collected from. `pending` is
`pending_graph`.

* `NextModule`, `GraphOver`, `EvalOver` are `run_modules` around
  `run_module_inner`: what it imports is bound, the body runs up to its first
  await or its end (`BodyEnds`, `BodyThrows`, `BodyAwaits`), the queue is
  drained, and only then are the exports recorded, or the rest of the graph put
  aside. `Import` does the same for a lazy module in the middle of whatever runs.
* `CanResume` and `ResumeGraph` are the second half of `drain_microtasks`, which
  only callbacks' drains reach (`id` 0); the drain in `run_module_inner` is `drain_tasks`.
* `Eager`, `Lazy` and `Checked` are what the loader hands over: static imports
  order the execution, all imports the checking, and a cycle in either is refused.
* `TopoOrder` is `topo_order`, a recursive function on what is left to do: `Visit` is `visit`, `VisitEach` its
  loop over a module's imports, `Done` its memory. A walk is a list of modules to visit, with the order so far and the path.
  `IsOrderOf` and `CyclicFrom` say independently what it should return.

Abstractions. A task runs a function of a module or resumes a module. Callbacks
do not throw. Exports are the number of the
evaluation. A specifier leads nowhere when `current_module` lies in another directory
than the module that wrote it. The program runs one graph.

### Callbacks

`callbacks` and `free` are the vector of slots and its free list, a stack; `ids` is the
identity cache, keyed on the address a function is at. `at` says which function is at
which address: when the last handle on a function goes (`Forget`), its address may be
given to the next. `tokens` is what the host holds, `running` the callables being called.

* `Cross` is `callback_id_for`, through the cache; `CrossOnce` the callables of a promise,
  which get a slot each time; `Listen` is `addEventListener` and `net.serve`, which append a
  slot themselves, whatever their argument is.
* `InvokeCallback` clones the callable out of its slot before it runs, so that
  `Release`, at any time and also of an id released before, cannot free what runs.

Abstractions. The wrapper the bridge makes for an id (`web/mersey-bridge.js`) lives as long
as the page and is not told from the id. The host's side of the contract is that it
releases an id once it will not call it again, which the forks do when their own wrapper
dies (`ladybird/.../MerseyScriptRunner.cpp:144`); `release_callback` is reached through the
two ABIs only (`mersey_wasm/src/lib.rs:560`, `mersey_capi/src/lib.rs:1299`).
`CallbackRegistry` says what the host may rely on, of tokens and running callables alone,
and those two variables map to themselves.

### JitArena

A compiled call is a frame: the handles its registers own (`held`, a function to the value
each was given for), the memo strings it passes to the call it is making (`lent`), and
whether it is `out` in such a call. `slots`, `free`, `memo` are the fields of the arena and
`jit_str_memo`; `text` says which string lies at each address, and `Rewrite` is an
address that changes hands. What compiled code believes is the ghost; no guard reads it but to
count.

`Make`, `CloneVal`, `StrAppend`, `LetGo` are the calls of `mersey_jit/src/heap.rs` compiled code
makes; `BoxStr` is `jit_box_str`; `Enter`, `Decline`, `CallOut`, `Return`, `End` are
`try_jit_args` (`lib.rs:5915-5968`) around them. The arguments a call parks first, and the slots on-stack
replacement parks, are `Make` by the frame that owns them.

`MaxNest` is 1 in the run and in the theorems. A compiled call can start another through
the host, and `End` of the inner clears the arena they share: with `MaxNest = 2`,
`RegistersNamed` is violated (see "Findings").

### Machine and Vm

A program is a `main` and two functions it may call, each a sequence of statements over one
variable `x`. `Vm` runs the compiler of `Bytecode` on it (`Compile`) and then the machine; `Machine` is the machine
on any chunks (`Loaded`, `Runs`), and knows nothing of statements.  A step is an
instruction. `exec` holds the locals of the Rust function `exec` and its `Exec`: chunk, pc,
operand stack, number of scopes, frame, handlers, inlined calls; `outer` are the `exec`s
below it on the Rust stack. A call of a function whose chunk needs an environment starts an
`exec` of its own, any other is a pushed frame. A throw lands in the innermost frame with a handler
(`Thrown`, which says in one step what the loop around `unwind_frame` does), and gives the frames above it back.

`Bytecode` is the compiler of every statement that transfers control, with its stacks of loops
and finally blocks (`Abrupt`, `RunFinallys`), of the expressions with an order to keep (`Ex`), and `analyze`, the verifier.
`Verifier` says what a chunk must keep to. `Verified` is what `analyze` checks: each way to an instruction comes there with the
same number of operands, and enough of them. `Balanced` is what nothing in the engine checks and the machine relies on all the
same: each way comes there with the same scopes and handlers of the frame, and a handler leads to where exactly what it cuts
back to is left.
`TreeWalker` is `exec_stmt_l` and `eval`, as the reference: `Outcome` is what a program prints and how it ends.
The tree-walker has no await (`lib.rs:7907` refuses it; an async body runs on the machine): here it gives
its value, or throws, where it stands, which is what the language says of it.

Abstractions. Expressions are those that transfer control, write a variable or leave operands
waiting below a call, an await or a throw: `+`, `==`, `&&`, `||`, `??`, `?:`, `=`, `+=`, `&&=`,
`||=`, `++`, calls, `?.` calls and await. Values are small numbers, a bool is 0 or 1, and the
programs are well typed: a condition or an arithmetic operand is never null. A scope is
counted, its contents are in slots. An await is of a promise that is resolved or rejected.
A call of an async function is never inlined (`inlinable`, `lib.rs:4755`), it starts a coroutine and gives its promise; that is not
modelled, so a run stops before such a call, and it is `main` that awaits (`Sync`).
Left out: members and indices, arrays and records, casts, destructuring, closures and
classes, inline caches, superinstructions, `yield`, on-stack replacement.

The passing run leaves out six forms on which the two engines disagree (`Strays`, `Stray` and `Recursive` of `MCVm` name
them: "exit", "override", "shadow", "await", "compound", "deep"); adding one to `Allowed` shows it. `vm_exit` does so for the first.

### Regex

`match_node` recurses with a continuation. Here the continuation is `k`, a sequence of nodes,
of groups to close and of repeats to go on with; the calls that wait for a failure are `alts`: the
arms not tried (`NextArm`), stopping or one more turn (`StopOrMore`), and captures to put back (`Undo`).
`caps` is the one array every path writes, `steps` the budget.

`RegexMeaning` says twice what should come out, by recursive functions on patterns. `Spans` is the language: which pieces of
the text a node can match, by joins of relations. `Ways` is the sequence of matches in
order of preference, each with its own captures passed on and never shared. `LeftmostFound`
compares a search with the first, `PreferredMatch` with the second.

Abstractions. The parser is left out. Patterns are finite trees, since a node owns those below it (`Box`, `Vec`): that is what
`Height` and `TreesAssumption` say, and why recursion over a pattern ends. `Unbounded` (6) stands for
`u32::MAX`: it is more than a text has characters. `MaxSteps` is 200 instead of two
million; hostile patterns among the 700 reach it. Repeats that ask for turns of what may take
nothing are left out of the run (`Empties`), see "Findings".

### Dap

`DebugController` is `debug.rs` as operators on a controller: `Reason` is `should_stop`,
`Passed` and `Stopped` its two ways out. `Dap` composes it with a client that sends
requests at any time, resumes and inspects only what it has seen stop, and may leave; and with a
program that reaches statements at any line and any depth: several frames may begin or end between two statements. `chan` is the pipe and
the channel of the reader thread, which only passes requests on, as one queue; `out` all that was written. `phase` is where
the program is: `between` statements, `drain`ing requests at one (`handle_running`), in a `stop`
(the loop of `on_stmt`), in the `tail` once it is over, `gone`.

Abstractions. One source. Of the configuration phase, the breakpoints it set. Evaluate,
a closed pipe and a program that does not load are left out.

## Runs

| Run | Bounds | Question | Answer |
|---|---|---|---|
| `gc` | 3 addresses, 2 slots, 1 context, calls do not nest, 2 held, 1 rooted | is anything live swept, is the remembered set complete, does every cycle go? | all hold |
| `gc_refines` | 3 addresses, 1 slot, 2 rooted | does the heap implement `ManagedHeap`? | yes |
| `gc_compiled` | 2 addresses, 1 slot, both tiers | is anything live swept when compiled code stores? | yes: the barrier is missed, the next minor collection empties a live object |
| `promises` | 4 promises, 1 coroutine, 1 Promise.all of 2, 2 calls, nesting 2, failures | one settler per promise, faithful outcomes, exact Promise.all, settled for good | all hold |
| `promises_coros` | 3 promises, 2 coroutines, as above, no failure | is a coroutine in one place, and resumed in the end? | yes |
| `modules` | all graphs of 3 modules with at most 3 static imports and 1 dynamic, in 2 directories; 3 evaluations, 1 await in each, 1 task, 1 callback, nesting 2 | is the order right, kept to, and every suspended graph finished? | all hold |
| `callbacks` | 3 functions and a callable of a promise, 3 addresses, 3 slots, nesting 2 | does an id name what the host was handed, are free list and cache exact, is the registry implemented? | all hold |
| `jit_arena` | 2 texts at 3 addresses, memo of 2, 1 handle held, 1 lent, 1 stray, no nesting | does a handle name what it was given, has each slot one owner, is a boxed string the one asked for? | all hold |
| `vm` | about 25,000 programs: every kind of loop, switch, try in its three forms, nested twice, with every exit and two calls; every expression over two operands, and over one such and an operand, as a value, a condition and a result; 2 turns of a loop, call depth 5 | does the machine do what the tree-walker does, is the stack as verified, is nothing left over, are no calls lost at an await, and is every chunk one the theorems on the machine are about (`CompiledSound`)? | all hold |
| `vm_exit` | the same with exits out of a `try` that only catches, `while` alone | does the machine do what the tree-walker does? | no: the handler stays behind |
| `regex` | about 700 patterns on every text of up to 4 characters they can tell apart, 200 steps | are spans within the text, is the leftmost place found, and the preferred match with its captures? | all hold |
| `dap` | 2 lines, breakpoints on none or the first, call depth 2, 3 statements, 3 requests | does it stop when it owes a stop, is the client right, is each request answered? | all hold |

Why the bounds are enough to be interesting. Three addresses hold a cycle of two
cells and the closure or old object that leads to it, which is what the barrier,
the closure exception of the remembered set and the sweep's order need; a
longer chain repeats the same step. Two slots let one object lead to
a young and an old one. Four promises are two items, Promise.all's own and the
chained one of a `then`; two nesting calls are an outer and an inner drain.
Three modules with three imports hold a diamond's
shared dependency, a chain, and cycles of each length; one await and one callback suspend a graph with
modules left to run and let other code run before it resumes.
Three addresses for four callables make an address change hands while the identity cache
still may name it, and three slots a free list of several, with a listener's slot among them.
A memo of two and three addresses let an entry be evicted, and an address hold another
string than when it was boxed; the real memo has eight entries (`MEMO`, `lib.rs:5369`) and behaves the same when full.
A program of `vm` nests a try in a loop in a try, enough for a finally to be crossed on the way
out of another and for a suspension inside both. Three statements of `dap` are a stop, the
statement a step may pass over and the next stop; three requests overlap with each. The controller only compares depths,
so two of them show a step over, into and out of a call; the proof is for any number.
Every mutant listed in `PROJECT.json` (a plausible slip in the code: a skipped
barrier, a forgotten decrement, a stale cache entry) breaks its property within these bounds.

`CHECK_DEADLOCK FALSE` is set everywhere: a host that calls nothing more, a program or a
search that is over, a client that has left, and the bounds
on calls, objects and requests, are legitimate ends.

### Fairness

`Gc`, `Callbacks`, `JitArena`, `Vm` and `Regex` have none: all their claims are safety,
including the two that every cycle is
reclaimed (they say what is left *after* a collection, not that one happens).
`Promises` assumes weak fairness of `Finish` (program code that was called
returns, throws or awaits, and the host's `then` returns) and of `Drain` (the
loop in `drain_tasks` goes on). Both are steps of one thread with nothing to
wait for; a program that loops for ever is outside the claim. Nothing is
assumed of the host: it need never call again. `ModuleGraph` assumes weak fairness of `Proceed` for the same reason: what is on
the stack goes on until it is over; settling what a module awaits is up to the host.
`QueuedIsResumed` is checked with `MayFail =
FALSE`, because a throw ends a turn with tasks queued, and nothing obliges the host to begin another.
`Dap` assumes weak fairness of the program's side, `Server`. It waits for the client in a stop and
in the tail only, where `Server` is enabled once there is a request; the client may stop asking at any time.

## What is proved

Eight modules hold the theorems; each is for all values of the constants that satisfy
the assumptions stated beside them: sets of addresses, slots, texts and so on finite where they are
counted, bounds positive or natural, `Null` no address, tiers among the two; the modules those the loader has read, so
finitely many, and what they import among them (`ModuleAssumption`, `GraphsAssumption`); lines counted from 1, as the
lexer does (`LinesAssumption`); patterns finite trees (`TreesAssumption`). TLC evaluates these assumptions in every run.

**The heap.** `GcProofs` proves, for every nesting and any number of contexts,

* `TypeCorrect`: `Spec => []TypeOK`. `TypeOK` alone is not inductive: that no
  closure gets the `old` flag needs that no list ever has one
  (`ClosuresUnlisted`).

and, under `SingleCall` (one context, calls that do not nest) and
`Interpreted` (no store by compiled code), for all sets of addresses and slots:

* `HeapSound`: `Spec => []HeapInv`, the inductive invariant;
* `NoLiveObjectIsSwept`, `SweptLeavesNothing`, `GenerationsKept`, `BookkeepingKept`,
  `MinorMissesNothing`: what follows from it. The run `gc` checks three of them by name, and the other two
  (`SweptIsFreed`, `BarrierBookkeeping`) as conjuncts of `HeapInv`.

Each hypothesis is needed: with nested calls, two contexts or compiled stores TLC finds `NoLiveSwept` violated.

The argument. `HeapInv` says that no handle dangles (`Solid`), that every cell is on
exactly one list (`EveryCellListed`), that an unremembered old object leads to
no young one, directly or through a closure (`OldToYoungRemembered`), that the
bookkeeping of the barrier is right, and that marks are those of the roots
(`AtBoundary`). `Freed` is a least fixed point: its members are unpinned and
every holder of one is another (`FreedIsUnpinned`, `HolderIsFreed`), and more
references dropped free more (`FreedGrows`). A sweep then empties a set that
nothing marked leads to: by the generational invariant this is also true of a
minor one, whose marks stop at old objects (`SweepFrees`). A set of cells held by
nothing outside it, but for closures nobody holds, is freed in two rounds (`ClearedIsFreed`), so
`swept` stays empty. For the back edge, the counts say that a node with no
external handle is held by nodes only (`CountsTell`).

The module also proves the converse under the same hypotheses, that nothing escapes:

* `FullCollectionReclaims`: after a major collection every live object is reachable;
* `CycleCollectionReclaims`: a collection at a back edge leaves no object unreachable from
  what is held, rooted or kept by a live node.

They need one invariant more, `Counted`: an object nobody outside the heap holds is held by
another object, that is, no count ever missed its zero. A closure has no mark of its own and follows its holder.

It also proves `HeapImplements`: every initial state of `Gc` is one of `ManagedHeap`, and
every step is a step of it or a stutter, under the mapping given above. What is reachable depends on the links of the
reachable part alone (`SameReach`), so a program's operation maps to the abstract one
(`Becomes`), and whatever only drops what nothing reaches maps to a stutter (`KeepsSeen`, `DropsLeave`).

**The callback table.** `CallbacksProofs` proves `IdsExact` inductive and from it
`HostCallsWhatItHolds` (an id the host holds names what it was handed), `FreeListExact` (the free list has
each empty slot once), `IdentityStable` (the cache names the slot of the function at an
address) and `Refinement` (the table implements `CallbackRegistry`). Each of the three parts
needs the others, and a fourth, that the address of a slot's function is its own (`AddressesExact`): a
slot keeps its function alive, so an address in the cache cannot change hands before the release that clears both.

**The arena.** `JitArenaProofs` proves, for one compiled call at a time (`MaxNest = 1`),
`HandlesNamed` (a register's handle names the value it was given), `SlotsOwned` (a slot is owned by one
register, memo entry or stray), `FreeStackExact`, and
`BoxedStringsFaithful` (boxing an address yields a handle on the text that is there).
The invariant `IInv` says that each live slot has exactly one owner (`Owners`), that the memo names no slot twice
(`MemoOK`), and that the free stack has the empty slots (`ArenaOK`). That the text at an address may have changed
does not matter, because a hit is compared with it.

**The machine.** `MachineProofs` proves, for any chunks whatever that the verifier accepts and that keep scopes and handlers
balanced (`AllSound`), any values, any depth of calls and any nesting of handlers, that of every run of them

* `OperandsAsVerified`: at each instruction the running frame has the operands the verifier worked out for it, and it is
  one the verifier reached;
* `FramesEndClean`: a frame that falls off its end has popped each handler, scope and operand it pushed;
* `NothingLostAtAwait`: an await suspends with no inlined call pending, whose caller the coroutine would lose;
* `NeverPanics`: there is a scope whenever the machine takes one for granted.

That the compiler emits such chunks is `CompiledSound`, which TLC checks of every program of the run `vm`. It is false of the exits
`vm_exit` is about, and of their runs so is what the theorems say: the hypothesis is the part of the contract between compiler
and machine that no code checks. The invariant, `IInv`, says that the frames lie one on the other (`Piled`), that each caller waits at the instruction
behind its call with what its chunk has there but for the operands the call took (`Callers`, `Calling`), and that the top frame has what its chunk
has at the pc (`TopAt`, `Running`, `Awaiting`). Steps within a frame follow the ways of `Flows` and `Leads`
(`PlainRuns`, `ScopeRuns`, `HandlerRuns`). A throw is the hard one: it may cut away any number of frames and land in
the middle of a caller's instruction, so `UnwoundCalls` shows that what is below a cut still stands, `HandledRuns` that a handler then finds
what it expects, and `ThrownRuns` puts them together.

**The matcher.** `RegexProofs` proves, for every pattern and text, `SpansSliceable`: positions
and spans stay within the text and never end before they start, so that a
capture can be cut out of it. `IInv` says this of what is open (`Opened`), of what is recorded, now or in what will be
put back (`Recorded`), and of the alternatives that wait (`Waiting`). It also proves that the answer is right:

* `PreferredFound`: within the step limit, a match found is the first of `Ways`, with its captures;
* `FoundIsReal`, `FoundMatches`: whatever the limit cut short, a match found is one of the ways of the pattern, and its span one of the language;
* `FoundLeftmost`: a search that never gives up finds the leftmost place where the pattern matches, and none
  only if there is none, provided that repeats need not take turns that take nothing (`TurnsTake`).

The hypotheses are needed: past the step limit `PreferredMatch` is false, and `LeftmostFound` where a turn may take nothing (see
"Findings"). The argument: the ways of what is still to be matched (`k`), followed by those of the
alternatives, each as it will be once its undos have run, are always what is left of the ways of the whole attempt (`Owed`,
`Remains`). The one array of captures stands for the copies of `Ways` because a slot that differs is of a group that will be closed, or put back,
before anything reads it (`Guarded`). That `Ways` ends where `Spans` says (`Fits`) is by the same induction on height. The
library's induction theorems being out of reach, the recursive functions are shown to exist by the least height at which one would
fail (`Recursion`).

**Promises.** `PromisesProofs` proves, with failures or without, for any number of promises, coroutines, calls and items,
however they nest, all that the two runs check but `QueuedIsResumed`:

* `OneSettles`: a pending promise has exactly one party that will settle it (a coroutine, a
  reaction or the task or handler it became, a call of Promise.all, the host), or its coroutine was dropped; a settled one has none;
* `CoroutinesInPlace`: a live coroutine is in one place;
* `AllsCountRight`, `AdoptionDelivers`, `TasksDeliver`, `NoneStranded`, `SettledOnce`, `TypeCorrect`.

The invariant (`IInv`, proved by `AlwaysGood`) counts, of each promise, coroutine and slot of a Promise.all, the
places where something is owed to it. `Settled` says that the count of settlers is one while
the promise is open, `Placed` the same of coroutines, `AllsExact` that a slot has one reaction or has had its
outcome. Each needs the others: that `settle` finds the promise pending is `Settled`, and that it takes every
reaction away, and each becomes one task, keeps all three. `settle`, `promise_then` and the loop of `Promise.all` change
several lists at once, so counts over lists of lists are proved first (`Total`, `Owed`, `Waits`), then what each of
`Settle`, `Then`, `WaitFor` and `Adopt` does to them; the actions follow from these.

**Module graphs.** `ModuleGraphProofs` first proves that `TopoOrder` is right (`OrderRight`), for any finite set of modules and any imports: it gives
the modules the entry needs, each once and after those it imports, and refuses exactly
the graphs with a cycle. A recursive function must be shown to exist before anything can be said of it: what a walk rests on
is sooner over (`Sooner`: it has fewer modules off its path, or as many and a shorter list), and in a set of walks one is
soonest (`SoonestWalk`), so no walk is the first without one outcome (`ComesOnce`, `ComesToBe`). What a walk comes to is
proved the same way (`VisitEnds`, `WalkEnds`). Then it proves, for any number of evaluations, awaits, tasks and callbacks,

* `ImportsBound` (what a module imports has been evaluated before it runs), `GraphInOrder` (the startup modules
  run in order, each once), `EvaluatedOnce` (nothing is run again once its exports are recorded);
* `GraphKept` (when control is with the host the graph is done, has failed, or waits with exactly the modules after the
  awaited one left), `ExportsComplete`, `TypeCorrect`.

None of these is inductive, and `IInv` (`GraphGood`) puts the graph at a place of its order: all before it recorded, none
after it begun (`At`), the rest what the frame or the suspended graph has left (`IsRest`). There is one such frame, with the evaluation
of the module at that place above it (`Framed`), or the graph waits with none on the stack (`Waits`), or it is over (`Over`).

**The debug adapter.** `DapProofs` proves, for any breakpoints, any depth and any number of requests and statements,
`StopsAreOwed` (the program stops at a statement exactly when what the client was answered by then calls for it, and says why) and `ClientIsRight`
(a client that saw a stop and has not gone on finds the program there, and is not refused). `StopsWhenOwed` is about what was written,
the controller about now; `Follows` ties them: each field of the controller is what the record gives for it (`BpsFollow`,
`LineFollows`, `StepFollows`, `PauseFollows`). For the client, `Orderly` says that a request to go on or to inspect is in the channel only while
the program is stopped, with no second behind one that goes on, and `UnseenStop` that a stop it has yet to read is the last.

Only model-checked, and why:

* that the machine does what the tree-walker does (`SameAsWalker`) and that the compiler keeps its side of the contract
  (`CompiledSound`): both speak of recursive operators over programs, which no installed backend accepts, and would need an
  induction over programs;
* liveness under fairness (`QueuedIsResumed`, `GraphGoesOn`, `EveryRequestAnswered`), which is out of TLAPS's reach.

Without their hypotheses `SingleCall`, `Interpreted`, `MaxNest = 1`, `AllSound`, `TurnsTake` and the step limit the theorems on the
heap, the arena, the machine and the matcher are false, and the code does not see to them: see "Findings".

## Findings

Two disagreements between code and documents have a run of their own. `PROJECT.json` quotes the documents.

1. Compiled stores skip the write barrier (`mersey_jit/src/heap.rs:460`), although the JIT's heap module says it
   creates no edges (`heap.rs:20-21`): a live object can be emptied (`gc_compiled`).
2. A break, continue or return out of a `try` that only catches leaves its handler behind
   (`vm.rs:1811`), although the two engines are "observably identical" (`vm.rs:9-12`): a later throw runs the catch
   clause of a `try` that is over (`vm_exit`).

The others can be seen by changing constants in a configuration, and the property that tells:

| Where | What | To see it |
|---|---|---|
| `lib.rs:3952` | a callback invoked from inside a hook collects at its end with the outer call's locals unrooted | `Gc`, 2 addresses, 1 slot, `MaxDepth = 2`: `NoLiveSwept` |
| `gc.rs`, `docs/engine.md:147` | contexts on one thread share the lists but not the roots: one sweeps what the other roots | `Gc`, `Ctx = {c1, c2}`: `NoLiveSwept` |
| `lib.rs:3947` | a throwing callback skips the drain | `Promises`, `MaxProm = 2`, `MaxAll = 0`, `AllSize = 1`, `MaxCalls = 1`, `MaxDepth = 1`, `MayFail = TRUE`: `TurnLeavesQueueEmpty` |
| `lib.rs:9200` | a host `then` that fails drops the coroutine that awaits it | the same: `OverIsSettled` |
| `lib.rs:9993` | next() on a busy async generator ends it | the same with `MaxProm = 3`: `DoneMeansEnded` |
| `lib.rs:3144` | a lazy module is evaluated twice when a task that runs during its first import() imports it as well | `ModuleGraph`, `MaxStatic = 0`, `MaxDynamic = 2`, `MaxEvals = 3`, `MaxAwaits = 0`, `MaxTasks = 1`, `MaxCalls = 0`: `SameExports` |
| `lib.rs:5961` | a compiled call reached through the host from inside another clears the arena they share, against the comment at `lib.rs:1777` | `JitArena`, `MaxNest = 2`: `RegistersNamed` |
| `lib.rs:5366` | boxing a second string of the same call can free the handle of the first | `JitArena`, `MaxLent = 2`, `Things = {o1}`: `InFlightNamed` |
| `vm.rs:1736` | a `let` in a try block or a finally goes on shadowing after it: the scope of its slot is not left | `Vm`, `Allowed = {"shadow"}`: `SameAsWalker` |
| `vm.rs:1706` | a jump out of a finally leaves what was pending on the stack | `Vm`, `Allowed = {"override"}`: `StackAsVerified` |
| `vm.rs:1522-1526` | continue in a `for await` pops a scope too many, and the machine panics | `Vm`, `Allowed = {"await"}`: `SameAsWalker` |
| `lib.rs:7980-8036`, `vm.rs:2571-2614` | the tree-walker evaluates the right side of a compound assignment before it reads the target, and that of `&&=`, `\|\|=` and `??=` always; the machine reads first and may skip it | `Vm`, `Allowed = {"compound"}`: `SameAsWalker` |
| `lib.rs:7927`, `8033` | `o().n++` and `o().n += 1` evaluate `o()` twice in the tree-walker, once in the machine (`vm.rs:2457`) | by reading; members are not modelled |
| `vm.rs:2904`, `lib.rs:4509-4513` | the two engines count the depth of a recursion differently | `Vm`, `Allowed = {"deep"}`: `SameAsWalker` |
| `regex.rs:9`, `15-16` | a turn that takes nothing is refused below the minimum too: `(a?){2}` does not match "a", `(a*)+` not "" | `Regex`, `Empties = TRUE`: `LeftmostFound` |
| `regex.rs:388` | the step limit inside a greedy repeat gives a shorter match instead of none | `Regex`, `MaxSteps = 12`: `PreferredMatch` |
| `debug.rs:151` | one stop per line is decided without the module: a breakpoint on line 3 of one file is passed over right after line 3 of another | by reading; one source is modelled |

Met while modelling as well. A sweep clears young garbage in
the order of the list; clearing can free, through an old object that only the
garbage held, a survivor already set aside, and the promotion then inserts its
dead entry into OLD, which `gc.rs:467` calls "exact". The weak handle
keeps the address from being reused, so the effect is a wrong count until the
next full trace; `HeapInv` therefore speaks of the live entries of OLD. An import() of
a lazy module whose own static import is lazy too throws "was not loaded", since nothing
runs the dependencies of an import(). A module that throws, or awaits, is
evaluated again by the next import() of it. The list of statements that run in the
tree-walker only (`vm.rs:14-15`) is no longer true.

## Not modelled

* The lexer, parser, checker and the back ends are functions of their input; their
  correctness is a relation to a language definition, not an order of steps.
* Expressions, the natives and the machine's arithmetic: too many, with no state between them.
* The code generator of the JIT, and with it the bail-out. A compiled call that traps is run again by the
  interpreter if nothing was written; `Group.writes` (`mersey_jit/src/lib.rs:432`) does not count calls of the host, of natives
  and of containers' methods, so a bail (`mersey_jit/src/lib.rs:3449`) can repeat them, although the
  comments (`mersey_jit/src/lib.rs:425-432`, `lib.rs:5970-5983`) say the call is pure so far. What counts as a
  write is decided by the code generator, for each instruction.
* Batches of DOM operations. For the WebAssembly host any error of the bridge's `apply`
  (`mersey_wasm/src/lib.rs:246`, `web/mersey-bridge.js:458-490`) becomes "declined", and the engine then
  replays the batch (`lib.rs:7187-7192`) after a part of it was done, which `mersey.h:238` and `docs/dom-batching.md:73`
  exclude. What an operation does, and when it fails, is the browser's.
* A second graph on one context while the first is suspended: its rest would be overwritten
  (`lib.rs:3049`). The browser's forks run each module script of a page so (`mersey_script_runner.cc:691`).
* Errors made by the engine (`lib.rs:2953`), never tracked; the growth of `all_cells`
  (`lib.rs:7236`); the drain's limit of a million tasks (`lib.rs:9128`).
* CLI, language server, loaders and forks are input and output around the engine; big numbers are
  limb arithmetic with no state; the library is written in the language itself.

See the notes in `PROJECT.json` for each.
