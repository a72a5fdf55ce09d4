---------------------------- MODULE ModuleGraph ----------------------------
(***************************************************************************)
(* How a graph of modules is run (crates/mersey_interp/src/lib.rs):        *)
(* run_graph in dependency order, a top-level await that suspends the      *)
(* graph, the drain that resumes it, and import() of a module that is in   *)
(* the graph but does not run at startup.                                  *)
(*                                                                         *)
(* `stack' is the Rust stack, innermost frame last.  "graph" is            *)
(* run_modules with what is left to run; "body" a module's top level up to *)
(* its first await, "resumed" the same after one; "code" a task or a       *)
(* callback running a function of a module; "drain" the microtask loop, of *)
(* the evaluation whose run_module_inner it ends, or of a callback (0).    *)
(*                                                                         *)
(* Abstractions.  Promises, reactions and coroutines are the business of   *)
(* module Promises: here a task is a function of some module, or a module  *)
(* that goes on after an await, and callbacks do not throw.  Exports are   *)
(* the evaluation they were collected from.  A specifier leads to its      *)
(* target from the directory it was written in, and to nothing from        *)
(* another.  One graph is run, once.                                       *)
(***************************************************************************)
EXTENDS TopoOrder, FiniteSets

CONSTANTS
    Entry,      \* the module the program starts with
    Graphs,     \* the imports there are: static ones in order, dynamic ones
    Dir,        \* the directory of each module
    Root,       \* the directory specifiers are resolved in outside of modules
    MaxEvals,   \* bound: how many times a module is evaluated, over all
    MaxAwaits,  \* bound: how many times the top level of a module awaits
    MaxTasks,   \* bound: how many tasks running code are queued, over all
    MaxCalls,   \* bound: how many callbacks the host calls
    MaxDepth    \* bound: how deep they nest

ASSUME EntryAssumption == Entry \in Module
ASSUME GraphsAssumption ==   \* the loader has resolved what they import
    \A g \in Graphs : {g.static, g.dynamic} \subseteq [Module -> Seq(Module)]
ASSUME DirAssumption == Module \subseteq DOMAIN Dir
ASSUME GraphBounds == {MaxEvals, MaxAwaits, MaxTasks, MaxCalls, MaxDepth} \subseteq Nat

VARIABLES
    graph,      \* the imports of this program
    modules,    \* Interp.modules: the evaluation each module's exports are from
    evals,      \* every evaluation begun so far
    pending,    \* Interp.pending_graph: the evaluation awaited, what is left
    stack,      \* the frames on the Rust stack
    tasks,      \* Interp.tasks
    queued,     \* how many tasks running code have been queued
    calls       \* how many callbacks the host has called

vars == <<graph, modules, evals, pending, stack, tasks, queued, calls>>

NoGraph == [eval |-> 0, rest |-> <<>>]

\* The loader: what runs at startup, and what waits for an import().
AllDeps(g) == [m \in Module |-> g.static[m] \o g.dynamic[m]]
Checked(g) == TopoOrder(Entry, AllDeps(g))
Eager == TopoOrder(Entry, graph.static).out
LazyIsAll == ToSet(Checked(graph).out)   \* mutant: import() runs any module
Lazy == ToSet(Checked(graph).out) \ ToSet(Eager)

Evals == DOMAIN evals
Evaluated(m) == \E e \in Evals : evals[e].mod = m
Recorded(m) == modules[m] # 0
Settled(e) == evals[e].state \in {"done", "threw"}

Depth == Len(stack)
Top == stack[Depth]
Below(n) == SubSeq(stack, 1, Depth - n)
Frame(kind, id, rest) == [kind |-> kind, id |-> id, rest |-> rest]
On(s, f) == Append(s, f)
IsTop(kinds) == stack # <<>> /\ Top.kind \in kinds

-----------------------------------------------------------------------------
(* Evaluating a module.                                                    *)

\* bind_import: the static imports must have been evaluated.
BindAnything(m) == TRUE   \* mutant: what is missing is bound to nothing
BindImports(m) == \A d \in ToSet(graph.static[m]) : Recorded(d)

\* The body of m begins, on top of s.
Evaluate(m, s) ==
    /\ Len(evals) < MaxEvals
    /\ evals' = Append(evals, [mod |-> m, state |-> "running", awaits |-> 0])
    /\ stack' = On(s, Frame("body", Len(evals) + 1, <<>>))

\* An error leaves run_modules, and the drain that called it (resume_graph).
Leaving(s) == IF s # <<>> /\ s[Len(s)].kind = "drain" THEN SubSeq(s, 1, Len(s) - 1) ELSE s

\* run_modules: the next module.
NextModule ==
    /\ IsTop({"graph"}) /\ Top.rest # <<>>
    /\ IF BindImports(Head(Top.rest))
       THEN Evaluate(Head(Top.rest), On(Below(1), Frame("graph", 0, Tail(Top.rest))))
       ELSE stack' = Leaving(Below(1)) /\ UNCHANGED evals
    /\ UNCHANGED <<graph, modules, pending, tasks, queued, calls>>

GraphOver ==
    /\ IsTop({"graph"}) /\ Top.rest = <<>>
    /\ stack' = Below(1)
    /\ UNCHANGED <<graph, modules, evals, pending, tasks, queued, calls>>

\* A body leaves the stack.  The first time, run_module_inner drains the queue;
\* a throw of a module without await ("failed") skips that.
Leave(e, state) ==
    /\ IsTop({"body", "resumed"}) /\ Top.id = e
    /\ evals' = [evals EXCEPT ![e].state = state]
    /\ stack' = IF Top.kind = "resumed" THEN Below(1) ELSE On(Below(1), Frame("drain", e, <<>>))
    /\ UNCHANGED <<graph, modules, pending, calls>>

BodyEnds(e) == Leave(e, "done") /\ UNCHANGED <<tasks, queued>>

BodyThrows(e, state) ==
    /\ evals[e].awaits > 0 => state = "threw"
    /\ Leave(e, state)
    /\ UNCHANGED <<tasks, queued>>

\* It awaits something only others can settle, or something settled.
BodyAwaits(e, settled) ==
    /\ IsTop({"body", "resumed"}) /\ Top.id = e
    /\ evals[e].awaits < MaxAwaits
    /\ evals' = [evals EXCEPT ![e].state = IF settled THEN "queued" ELSE "waiting",
                              ![e].awaits = @ + 1]
    /\ tasks' = IF settled THEN Append(tasks, [kind |-> "module", id |-> e]) ELSE tasks
    /\ stack' = IF Top.kind = "resumed" THEN Below(1) ELSE On(Below(1), Frame("drain", e, <<>>))
    /\ UNCHANGED <<graph, modules, pending, queued, calls>>

\* The evaluation is over, as far as it can get: its exports are recorded, the
\* graph waits, or an error goes to run_modules or to the code that imported.
SuspendOnly(e, rest) == [eval |-> e, rest |-> <<>>]   \* mutant: the rest is dropped
SuspendModule(e, rest) ==   \* mutant: waits for the module, not for its promise
    [eval |-> evals[e].mod, rest |-> rest]
Suspend(e, rest) == [eval |-> e, rest |-> rest]
EvalOver(e) ==
    /\ IsTop({"drain"}) /\ Top.id = e
    /\ tasks = <<>> \/ evals[e].state = "failed"
    /\ LET caller == stack[Depth - 1]
           ofGraph == caller.kind = "graph"
       IN  \/ /\ evals[e].state = "done"
              /\ modules' = [modules EXCEPT ![evals[e].mod] = e]
              /\ stack' = Below(1)
              /\ UNCHANGED pending
           \/ /\ evals[e].state \in {"threw", "failed"}
              /\ stack' = IF ofGraph THEN Leaving(Below(2)) ELSE Below(1)
              /\ UNCHANGED <<modules, pending>>
           \/ /\ evals[e].state = "waiting"
              /\ stack' = IF ofGraph THEN Below(2) ELSE Below(1)
              /\ pending' = IF ofGraph THEN Suspend(e, caller.rest) ELSE pending
              /\ UNCHANGED modules
    /\ UNCHANGED <<graph, evals, tasks, queued, calls>>

-----------------------------------------------------------------------------
(* What code does.                                                         *)

Code == IsTop({"body", "resumed", "code"})
CodeOf == IF Top.kind = "code" THEN Top.id ELSE evals[Top.id].mod

\* current_module is that of the innermost evaluation in progress: not of the
\* code that runs, if that is a function called or a task resumed by another.
Evaluating == {i \in DOMAIN stack : stack[i].kind = "body" \/ (stack[i].kind = "drain" /\ stack[i].id # 0)}
CurrentDir ==
    IF Evaluating = {} THEN Root
    ELSE Dir[evals[stack[CHOOSE i \in Evaluating : \A j \in Evaluating : j <= i].id].mod]

\* import(t): a lazy module that is not there yet is evaluated now.  Otherwise
\* nothing runs: its exports are there, or the import throws.
MissingOrNot(t) == TRUE   \* mutant: every import() evaluates the module
Missing(t) == ~Recorded(t)
Import(t) ==
    /\ Code
    /\ t \in ToSet(graph.dynamic[CodeOf])
    /\ Missing(t)
    /\ t \in Lazy /\ CurrentDir = Dir[CodeOf]
    /\ BindImports(t)
    /\ Evaluate(t, stack)
    /\ UNCHANGED <<graph, modules, pending, tasks, queued, calls>>

\* An async function is called and awaits, a reaction is queued.
QueueTask ==
    /\ Code
    /\ queued < MaxTasks
    /\ queued' = queued + 1
    /\ tasks' = Append(tasks, [kind |-> "code", id |-> CodeOf])
    /\ UNCHANGED <<graph, modules, evals, pending, stack, calls>>

\* What a module awaits is settled.
Awaken(e) ==
    /\ evals[e].state = "waiting"
    /\ evals' = [evals EXCEPT ![e].state = "queued"]
    /\ tasks' = Append(tasks, [kind |-> "module", id |-> e])
    /\ UNCHANGED <<graph, modules, pending, queued, calls>>
CodeSettles(e) == Code /\ Awaken(e) /\ UNCHANGED stack

CodeEnds ==
    /\ IsTop({"code"})
    /\ stack' = Below(1)
    /\ UNCHANGED <<graph, modules, evals, pending, tasks, queued, calls>>

-----------------------------------------------------------------------------
(* Draining the queue.                                                     *)

RunTask ==
    /\ IsTop({"drain"}) /\ tasks # <<>>
    /\ Top.id # 0 => evals[Top.id].state # "failed"
    /\ tasks' = Tail(tasks)
    /\ LET t == Head(tasks)
       IN  IF t.kind = "code"
           THEN stack' = On(stack, Frame("code", t.id, <<>>)) /\ UNCHANGED evals
           ELSE /\ stack' = On(stack, Frame("resumed", t.id, <<>>))
                /\ evals' = [evals EXCEPT ![t.id].state = "running"]
    /\ UNCHANGED <<graph, modules, pending, queued, calls>>

CallbackDrained == IsTop({"drain"}) /\ Top.id = 0 /\ tasks = <<>>
CannotResume == FALSE   \* mutant: drain_microtasks is drain_tasks alone
CanResume == pending.eval # 0 /\ Settled(pending.eval)

\* resume_graph: the awaited module is done and the rest runs, or it threw and
\* the error leaves the drain.
ResumeGraphAnyway ==   \* mutant: a rejection is not looked at
    /\ CallbackDrained /\ CanResume
    /\ pending' = NoGraph
    /\ modules' = [modules EXCEPT ![evals[pending.eval].mod] = pending.eval]
    /\ stack' = On(stack, Frame("graph", 0, pending.rest))
    /\ UNCHANGED <<graph, evals, tasks, queued, calls>>
ResumeGraph ==
    /\ CallbackDrained /\ CanResume
    /\ pending' = NoGraph
    /\ IF evals[pending.eval].state = "done"
       THEN /\ modules' = [modules EXCEPT ![evals[pending.eval].mod] = pending.eval]
            /\ stack' = On(stack, Frame("graph", 0, pending.rest))
       ELSE stack' = Below(1) /\ UNCHANGED modules
    /\ UNCHANGED <<graph, evals, tasks, queued, calls>>

DrainOver ==
    /\ CallbackDrained /\ ~CanResume
    /\ stack' = Below(1)
    /\ UNCHANGED <<graph, modules, evals, pending, tasks, queued, calls>>

-----------------------------------------------------------------------------
(* The host.                                                               *)

\* run_graph, once, if the loader found no cycle.
RunGraph ==
    /\ stack = <<>> /\ evals = <<>>
    /\ TopoOrder(Entry, graph.static).ok /\ Checked(graph).ok
    /\ stack' = <<Frame("graph", 0, Eager)>>
    /\ UNCHANGED <<graph, modules, evals, pending, tasks, queued, calls>>

HostRuns ==
    /\ stack # <<>> => Code
    /\ Cardinality({i \in DOMAIN stack : stack[i] = Frame("drain", 0, <<>>)}) < MaxDepth

\* It calls a function of a module that has run, or settles what one awaits.
HostCalls(m) ==
    /\ HostRuns
    /\ Evaluated(m)
    /\ calls < MaxCalls
    /\ calls' = calls + 1
    /\ stack' = On(On(stack, Frame("drain", 0, <<>>)), Frame("code", m, <<>>))
    /\ UNCHANGED <<graph, modules, evals, pending, tasks, queued>>

HostSettles(e) ==
    /\ HostRuns
    /\ Awaken(e)
    /\ stack' = On(stack, Frame("drain", 0, <<>>))

-----------------------------------------------------------------------------
Init ==
    /\ graph \in Graphs
    /\ modules = [m \in Module |-> 0]
    /\ evals = <<>> /\ pending = NoGraph
    /\ stack = <<>> /\ tasks = <<>>
    /\ queued = 0 /\ calls = 0

Host ==
    \/ RunGraph
    \/ \E m \in Module : HostCalls(m)
    \/ \E e \in Evals : HostSettles(e)

Operate ==
    \/ \E t \in Module : Import(t)
    \/ QueueTask
    \/ \E e \in Evals : CodeSettles(e)

Proceed ==
    \/ NextModule \/ GraphOver \/ CodeEnds
    \/ \E e \in Evals : BodyEnds(e) \/ EvalOver(e)
    \/ \E e \in Evals, state \in {"threw", "failed"} : BodyThrows(e, state)
    \/ \E e \in Evals, settled \in BOOLEAN : BodyAwaits(e, settled)
    \/ RunTask \/ ResumeGraph \/ DrainOver

Next == Host \/ Operate \/ Proceed

\* What is on the stack goes on until it is over; nobody need call or settle.
Spec == Init /\ [][Next]_vars /\ WF_vars(Proceed)

-----------------------------------------------------------------------------
(* Correctness.                                                            *)

\* Types: each frame, task and record names an evaluation there has been.
TypeOK ==
    /\ graph \in Graphs
    /\ modules \in [Module -> {0} \cup Evals]
    /\ evals \in Seq([mod : Module, awaits : 0..MaxAwaits,
                      state : {"running", "waiting", "queued", "done", "threw", "failed"}])
    /\ pending \in [eval : {0} \cup Evals, rest : Seq(Module)]
    /\ \A i \in DOMAIN stack :
          /\ stack[i].rest \in Seq(Module)
          /\ CASE stack[i].kind \in {"body", "resumed"} -> stack[i].id \in Evals
               [] stack[i].kind = "drain" -> stack[i].id \in {0} \cup Evals
               [] stack[i].kind = "code" -> stack[i].id \in Module
               [] stack[i].kind = "graph" -> stack[i].id = 0
    /\ \A i \in DOMAIN tasks :
          tasks[i].id \in (IF tasks[i].kind = "code" THEN Module ELSE Evals)
    /\ queued \in 0..MaxTasks /\ calls \in 0..MaxCalls

\* The order is right: the modules the entry needs, each once and after those
\* it imports, and a cycle is refused (graph.rs, topo_order).  It is computed
\* before anything runs.
OrderExact ==
    stack = <<>> /\ evals = <<>> => \A deps \in {graph.static, AllDeps(graph)} :
        LET found == TopoOrder(Entry, deps)
        IN  /\ found.ok = ~CyclicFrom(Entry, deps)
            /\ found.ok => IsOrderOf(found.out, Entry, deps)

\* A module's body only ever runs when what it imports statically has been
\* evaluated, whether the graph runs it, a resumed graph, or an import().
DependenciesFirst ==
    \A e \in Evals : \A d \in ToSet(graph.static[evals[e].mod]) : Recorded(d)

\* The modules of the startup order are evaluated in that order, each once, and
\* none before the ones ahead of it are done, however often the graph suspends.
StartupInOrder ==
    LET order == Eager
    IN  \A e \in Evals, i \in DOMAIN order : evals[e].mod = order[i] =>
            /\ \A j \in 1..(i - 1) : Recorded(order[j])
            /\ \A f \in Evals : evals[f].mod = order[i] => f = e

\* When control is with the host, the graph is done, or it failed, or it waits
\* for a module with exactly the modules after it left to run.
NoGraphLost ==
    stack = <<>> /\ evals # <<>> =>
        LET order == Eager
        IN  \/ \A m \in ToSet(order) : Recorded(m)
            \/ \E e \in Evals : evals[e].mod \in ToSet(order) /\ evals[e].state \in {"threw", "failed"}
            \/ /\ pending.eval # 0 /\ ~Settled(pending.eval)
               /\ <<evals[pending.eval].mod>> \o pending.rest =
                    SubSeq(order, Len(order) - Len(pending.rest), Len(order))

\* Exports are those of an evaluation of that module that has come to its end.
ExportsOfTheDone ==
    \A m \in Module : Recorded(m) =>
        evals[modules[m]].mod = m /\ evals[modules[m]].state = "done"

\* Once a module's exports are recorded it is never evaluated again.
NoRerunOnceDone ==
    [][\A m \in Module : Recorded(m) =>
          \A e \in DOMAIN evals' \ Evals : evals'[e].mod # m]_vars

\* When what a suspended graph awaits has settled, the graph goes on.
GraphGoesOn ==
    \A e \in 1..MaxEvals :
        (pending.eval = e /\ e \in Evals /\ Settled(e)) ~> pending.eval # e

\* "The first import runs the module; later ones get the same exports"
\* (lib.rs:3132-3133): exports that are recorded stay.
SameExports ==
    [][\A m \in Module : Recorded(m) => modules'[m] = modules[m]]_vars
=============================================================================
