------------------------------- MODULE Verifier -------------------------------
(***************************************************************************)
(* What a chunk keeps to: the operand depths the verifier (analyze) works  *)
(* out, and the scopes and handlers of a frame, which nothing in the       *)
(* engine checks: that every way to an instruction comes there with the    *)
(* same ones is up to the compiler.                                        *)
(***************************************************************************)
EXTENDS Naturals, Sequences, SequencesExt

Pops(o) ==
  CASE o \in {"bin", "call", "callMethod"} -> 2
    [] o \in {"store", "pop", "dup", "truthy", "jumpIfFalse", "jumpIfTrue", "notNullJump",
              "throw", "await", "return"} -> 1
    [] OTHER -> 0
Pushes(o) ==
  CASE o = "dup" -> 2
    [] o \in {"const", "load", "say", "bin", "truthy", "call", "callMethod", "catchMatches", "await"} -> 1
    [] OTHER -> 0

Branches == {"jump", "jumpIfFalse", "jumpIfTrue", "notNullJump", "onNullJump", "more", "again", "pushHandler"}
FallsThrough(o) == o \notin {"jump", "return", "returnNull", "throw"}

LandingUnthrown(i, depth) == IF i.op \in {"jumpIfFalse", "jumpIfTrue"} THEN depth - 1 ELSE depth

\* The depth at a jump's target: one that tests a value has popped it, one that
\* looks for null leaves it, and a handler is entered with the thrown value.
Landing(i, depth) ==
  CASE i.op \in {"jumpIfFalse", "jumpIfTrue"} -> depth - 1
    [] i.op = "pushHandler" -> depth + 1
    [] OTHER -> depth

\* Where an instruction leads, and with what depth.
Flows(code, pc, depth) ==
  LET i == code[pc]
  IN (IF FallsThrough(i.op) THEN {<<pc + 1, depth - Pops(i.op) + Pushes(i.op)>>} ELSE {})
     \cup (IF i.op \in Branches THEN {<<i.to, Landing(i, depth)>>} ELSE {})

\* The verifier accepts the code, with these depths at what is reached: each way
\* to an instruction comes there with the same, and the operands are there.
Verified(code, depths) ==
  /\ 1 \in DOMAIN depths /\ depths[1] = 0
  /\ \A pc \in DOMAIN depths :
       /\ pc \in DOMAIN code
       /\ depths[pc] \in Nat /\ depths[pc] >= Pops(code[pc].op)
       /\ \A flow \in Flows(code, pc, depths[pc]) : flow[1] \in DOMAIN depths /\ depths[flow[1]] = flow[2]

(***************************************************************************)
(* What a frame has of its own before an instruction: the scopes it has    *)
(* pushed, that of the call among them, and its handlers, where each leads *)
(* and to how many scopes and operands it cuts back.                       *)
(***************************************************************************)
Keeps == [scopes : Nat, handlers : Seq([pc : Nat, scopes : Nat, stack : Nat])]
Fresh == [scopes |-> 1, handlers |-> << >>]

Onwards(i, depth, own) ==
  CASE i.op = "pushScope" -> [own EXCEPT !.scopes = @ + 1]
    [] i.op = "popScope" -> [own EXCEPT !.scopes = @ - 1]
    [] i.op = "pushHandler" -> [own EXCEPT !.handlers = Append(@, [pc |-> i.to, scopes |-> own.scopes, stack |-> depth])]
    [] i.op = "popHandler" -> [own EXCEPT !.handlers = Front(@)]
    [] OTHER -> own

\* Where an instruction leads, and with what of the frame's own.
Leads(code, pc, depth, own) ==
  LET i == code[pc]
  IN (IF FallsThrough(i.op) THEN {<<pc + 1, Onwards(i, depth, own)>>} ELSE {})
     \cup (IF i.op \in Branches THEN {<<i.to, own>>} ELSE {})

\* A throw at pc can be landed: the innermost handler cuts nothing short that
\* is not there, and expects what is then left.
Landed(code, depths, keeps, pc) ==
  LET own == keeps[pc]
      h == Last(own.handlers)
  IN /\ h.scopes <= own.scopes /\ h.stack + Pops(code[pc].op) <= depths[pc]
     /\ h.pc \in DOMAIN depths /\ depths[h.pc] = h.stack + 1
     /\ keeps[h.pc] = [scopes |-> h.scopes, handlers |-> Front(own.handlers)]

\* The code is balanced, with these at what is reached: each way to an
\* instruction comes there with the same, none takes what the frame has not, and
\* one that falls off the end has nothing left but the scope of the call.
Balanced(code, depths, keeps) ==
  /\ keeps \in [DOMAIN depths -> Keeps]
  /\ keeps[1] = Fresh
  /\ \A pc \in DOMAIN depths :
       /\ keeps[pc].scopes > 0
       /\ code[pc].op = "popHandler" => keeps[pc].handlers # << >>
       /\ code[pc].op = "returnNull" => depths[pc] = 0 /\ keeps[pc] = Fresh
       /\ keeps[pc].handlers # << >> => Landed(code, depths, keeps, pc)
       /\ \A way \in Leads(code, pc, depths[pc], keeps[pc]) : keeps[way[1]] = way[2]

Sound(chunk) == Verified(chunk.code, chunk.depths) /\ \E keeps : Balanced(chunk.code, chunk.depths, keeps)
=============================================================================
