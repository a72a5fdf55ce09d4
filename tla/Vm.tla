--------------------------------- MODULE Vm ---------------------------------
(***************************************************************************)
(* Programs on the bytecode machine: one is compiled, and run.             *)
(***************************************************************************)
EXTENDS Bytecode, Machine

CONSTANT Programs   \* the programs tried, functions from names to statements

Init ==
  /\ \E prog \in Programs : chunks = [fn \in DOMAIN prog |-> [body |-> prog[fn]]]
  /\ exec = [end |-> "compiling"]
  /\ outer = << >>
  /\ log = << >>

Compile ==
  /\ exec.end = "compiling"
  /\ chunks' = [fn \in DOMAIN chunks |-> CompileFn(chunks[fn].body)]
  /\ exec' = Start("main", 0, chunks'.main.n)
  /\ UNCHANGED <<outer, log>>

Next == Compile \/ Instruction

Spec == Init /\ [][Next]_vars

(***************************************************************************)
(* Properties.                                                             *)
(***************************************************************************)
Program == [fn \in DOMAIN chunks |-> chunks[fn].body]
Over == exec.end = "panic" \/ (exec.end \in {"done", "throw"} /\ outer = << >>)

\* The two engines are observably identical: a program compiled and run by the
\* machine prints what the tree-walker prints, in that order, and ends as it
\* does, with the same value or the same error.
SameAsWalker ==
  Over => Outcome(Program) = [end |-> exec.end, v |-> exec.v, log |-> log]

\* What a frame has of its own at each instruction reached, or the first place
\* with two answers.
RECURSIVE Follow(_, _, _)
Follow(chunk, new, seen) ==
  IF new = {} \/ Cardinality({p[1] : p \in seen}) < Cardinality(seen) THEN seen
  ELSE Follow(chunk, UNION {Leads(chunk.code, p[1], chunk.depths[p[1]], p[2]) : p \in new} \ (seen \cup new), seen \cup new)

\* The compiler emits chunks the verifier accepts and, which nothing verifies,
\* that keep scopes and handlers balanced: on whatever way an instruction is
\* reached, through a try, out of a loop or into a finally, the frame has pushed
\* the same, and a throw lands where that is what is left.
CompiledSound ==
  exec.end = "running" /\ Loaded =>
    \A fn \in DOMAIN chunks :
      LET chunk == chunks[fn]
          met == Follow(chunk, {<<1, Fresh>>}, {})
      IN /\ Verified(chunk.code, chunk.depths)
         /\ Cardinality({p[1] : p \in met}) = Cardinality(met)
         /\ Balanced(chunk.code, chunk.depths, [pc \in {p[1] : p \in met} |-> (CHOOSE p \in met : p[1] = pc)[2]])
=============================================================================
