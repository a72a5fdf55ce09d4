----------------------------- MODULE TopoOrder -----------------------------
(***************************************************************************)
(* The order modules are checked and run in (topo_order and visit in       *)
(* crates/mersey_front/src/graph.rs, loadGraph's topo in                   *)
(* web/mersey-engine.js): depth first, dependencies before the modules     *)
(* that import them, and an import cycle refused.                          *)
(***************************************************************************)
EXTENDS Naturals, Sequences, FiniteSets, SequencesExt

CONSTANT Module   \* the modules' specifiers

ASSUME ModuleAssumption == IsFiniteSet(Module)   \* those the loader has read

\* `done' and `out' of visit grow together: done is what out lists.
DoneNever(spec, out) == FALSE   \* mutant: nothing is remembered as done
Done(spec, out) == spec \in ToSet(out)

\* A list of modules to visit in turn, from the modules on the path; what it
\* comes to: ok is FALSE when there is a cycle.
Walks == [list : Seq(Module), out : Seq(Module), path : Seq(Module)]
Walk(list, out, path) == [list |-> list, out |-> out, path |-> path]
Found(ok, out) == [ok |-> ok, out |-> out]

\* visit(spec), and its loop over the imports of a module: walk does the rest.
Visit(walk, deps, spec, out, path) ==
    IF Done(spec, out) THEN Found(TRUE, out)
    ELSE IF spec \in ToSet(path) THEN Found(FALSE, out)
    ELSE LET over == walk[Walk(deps[spec], out, Append(path, spec))]
         IN  IF over.ok THEN Found(TRUE, Append(over.out, spec)) ELSE over
VisitEach(walk, deps, w) ==
    IF w.list = <<>> THEN Found(TRUE, w.out)
    ELSE LET first == Visit(walk, deps, Head(w.list), w.out, w.path)
         IN  IF first.ok THEN walk[Walk(Tail(w.list), first.out, w.path)] ELSE first

\* The modules `entry' needs, in order.
TopoOrder(entry, deps) ==
    LET walk[w \in Walks] == VisitEach(walk, deps, w)
    IN  walk[Walk(<<entry>>, <<>>, <<>>)]

-----------------------------------------------------------------------------
(* What it is for: the reference it is checked against.                    *)

\* The modules reachable from the members of R: in every set closed under deps.
Needs(R, deps) ==
    {m \in Module : \A S \in SUBSET (Module \ {m}) :
        R \subseteq S => \E n \in S : ~(ToSet(deps[n]) \subseteq S)}
CyclicFrom(entry, deps) ==
    \E m \in Needs({entry}, deps) : m \in Needs(ToSet(deps[m]), deps)

IsOrderOf(order, entry, deps) ==
    /\ order \in Seq(Module)
    /\ ToSet(order) = Needs({entry}, deps)
    /\ \A i, j \in DOMAIN order :
          /\ order[i] = order[j] => i = j
          /\ order[j] \in ToSet(deps[order[i]]) => j < i
=============================================================================
