------------------------------- MODULE Machine -------------------------------
(***************************************************************************)
(* The bytecode machine (exec): one loop over the running chunk, in which  *)
(* a call of a function with nothing in the environment is a frame pushed  *)
(* (InlineFrame) and any other call runs an exec of its own; a throw looks *)
(* for a handler frame by frame, and an await gives the state back to the  *)
(* coroutine.  A step is an instruction.                                   *)
(***************************************************************************)
EXTENDS Values, Verifier, FiniteSetsExt

VARIABLES
  chunks,   \* of each function, what is compiled of it
  exec,     \* Exec and the locals of exec: cur (the chunk), pc, stack, scopes (how
            \* many), frame, base, handlers (pc and the two lengths), calls; and end,
            \* with v, once it gives control back
  outer,    \* the execs waiting for the running one to return
  log       \* what was printed

vars == <<chunks, exec, outer, log>>

Start(fn, x, n) ==
  [end |-> "running", v |-> Null, cur |-> fn, pc |-> 1, stack |-> << >>,
   scopes |-> 1, frame |-> <<x>> \o [i \in 1..(n - 1) |-> Null], base |-> 0,
   handlers |-> << >>, calls |-> << >>]

(***************************************************************************)
(* Frames, and the ways out of them.                                       *)
(***************************************************************************)
Instr == chunks[exec.cur].code[exec.pc]
At(o) == exec.end = "running" /\ Instr.op = o
Step(m) == exec' = m /\ UNCHANGED <<chunks, outer, log>>
Past == [exec EXCEPT !.pc = @ + 1]
Jump(m, pc) == [m EXCEPT !.pc = pc]
Push(m, v) == [m EXCEPT !.stack = Append(@, v)]
Pop(m) == [m EXCEPT !.stack = Front(@)]
Truncated(seq, n) == SubSeq(seq, 1, IF n < Len(seq) THEN n ELSE Len(seq))
Top(k) == exec.stack[Len(exec.stack) + 1 - k]
Local(k) == exec.frame[exec.base + k]
SetLocal(m, k, v) == [m EXCEPT !.frame[m.base + k] = v]
GivenBack(m, end, v) == [m EXCEPT !.end = end, !.v = v]

\* How long stack, scopes and handlers are up to a frame's end; the frames are
\* the callers, and the running one.
Frames(m) == Len(m.calls) + 1
Bottom == [stack |-> 0, scopes |-> 0, handlers |-> 0]
Level(m, i) ==
  IF i = 0 THEN Bottom
  ELSE IF i < Frames(m) THEN m.calls[i]
  ELSE [stack |-> Len(m.stack), scopes |-> m.scopes, handlers |-> Len(m.handlers)]
Below(m) == Level(m, Len(m.calls))

\* unwind_frame, of every frame above one: they are given back, and it goes on.
Unwound(m, i) ==
  IF i = Frames(m) THEN m
  ELSE LET f == m.calls[i]
           above == IF i = Len(m.calls) THEN m.base ELSE m.calls[i + 1].base
       IN [m EXCEPT !.frame = Truncated(@, above), !.scopes = f.scopes,
                    !.handlers = Truncated(@, f.handlers), !.stack = Truncated(@, f.stack),
                    !.cur = f.cur, !.pc = f.pc, !.base = f.base, !.calls = Truncated(@, i - 1)]

\* unwind: the innermost handler is entered, and popped.
Handled(m, v) ==
  LET h == Last(m.handlers)
  IN [m EXCEPT !.handlers = Front(@), !.scopes = IF h.scopes < @ THEN h.scopes ELSE @,
               !.stack = Append(Truncated(@, h.stack), v), !.pc = h.pc]

\* throwing!  The innermost frame with a handler of its own goes on there.
Armed(m, i) == Level(m, i).handlers > Level(m, i - 1).handlers
Thrown(m, v) ==
  LET armed == {i \in 1..Frames(m) : Armed(m, i)}
  IN IF armed = {} THEN GivenBack(Unwound(m, 1), "throw", v)
     ELSE Handled(Unwound(m, Max(armed)), v)

Returned(m, v) ==
  IF m.calls # << >> THEN Push(Unwound(m, Len(m.calls)), v) ELSE GivenBack(m, "done", v)

(***************************************************************************)
(* The instructions.                                                       *)
(***************************************************************************)
DoConst == At("const") /\ Step(Push(Past, Instr.v))
DoLoad == At("load") /\ Step(Push(Past, Local(Instr.slot)))
DoStore == At("store") /\ Step(SetLocal(Pop(Past), Instr.slot, Top(1)))
DoPop == At("pop") /\ Step(Pop(Past))
DoDup == At("dup") /\ Step(Push(Past, Top(1)))
DoBin == At("bin") /\ Step(Push(Pop(Pop(Past)), BinValue(Instr.of, Top(2), Top(1))))
DoTruthy == At("truthy") /\ Step(Push(Pop(Past), BoolOf(Truthy(Top(1)))))
DoJump == At("jump") /\ Step(Jump(exec, Instr.to))
DoJumpIfFalse ==
  At("jumpIfFalse") /\ Step(IF Truthy(Top(1)) THEN Pop(Past) ELSE Jump(Pop(exec), Instr.to))
DoJumpIfTrue ==
  At("jumpIfTrue") /\ Step(IF Truthy(Top(1)) THEN Jump(Pop(exec), Instr.to) ELSE Pop(Past))
DoNotNullJump == At("notNullJump") /\ Step(IF Top(1) = Null THEN Pop(Past) ELSE Jump(exec, Instr.to))
DoOnNullJump == At("onNullJump") /\ Step(IF Top(1) = Null THEN Jump(exec, Instr.to) ELSE Past)

DoShow ==
  /\ At("show")
  /\ log' = Append(log, <<Instr.at, Local(Instr.slot)>>)
  /\ exec' = Past
  /\ UNCHANGED <<chunks, outer>>

\* A call of a native that prints, of which nothing but the print is modelled.
DoSay ==
  /\ At("say")
  /\ log' = Append(log, <<Instr.at, Instr.v>>)
  /\ exec' = Push(Past, Instr.v)
  /\ UNCHANGED <<chunks, outer>>

DoIter == At("iter") /\ Step(SetLocal(Past, Instr.slot, Instr.n))
DoBump == At("bump") /\ Step(SetLocal(Past, Instr.slot, Local(Instr.slot) - 1))
DoMore == At("more") /\ Step(IF Local(Instr.slot) = 0 THEN Jump(exec, Instr.to) ELSE Past)
DoAgain == At("again") /\ Step(IF Local(Instr.slot) = 0 THEN Past ELSE Jump(exec, Instr.to))

\* A scope is a child of the current one: with none, expect("scope") panics.
DoPushScope ==
  At("pushScope") /\ Step(IF exec.scopes = 0 THEN GivenBack(exec, "panic", Null)
                          ELSE [Past EXCEPT !.scopes = @ + 1])
DoPopScope == At("popScope") /\ Step([Past EXCEPT !.scopes = IF @ = 0 THEN 0 ELSE @ - 1])

DoPushHandler ==
  At("pushHandler") /\ Step([Past EXCEPT !.handlers =
    Append(@, [pc |-> Instr.to, scopes |-> exec.scopes, stack |-> Len(exec.stack)])])
DoPopHandler ==
  At("popHandler") /\ Step([Past EXCEPT !.handlers = IF @ = << >> THEN @ ELSE Front(@)])
DoCatchMatches == At("catchMatches") /\ Step(Push(Past, BoolOf(Top(1) \in Instr.of)))
DoThrow == At("throw") /\ Step(Thrown(Pop(exec), Top(1)))

\* push_inline: the argument moves from the stack into the callee's frame, and
\* what was called goes with it.
PushInline(m, fn) ==
  [m EXCEPT !.calls = Append(@, [cur |-> m.cur, pc |-> m.pc, base |-> m.base, scopes |-> m.scopes,
                                 handlers |-> Len(m.handlers), stack |-> Len(m.stack) - 2]),
            !.frame = @ \o <<Last(m.stack)>> \o [i \in 1..(chunks[fn].n - 1) |-> Null],
            !.base = Len(m.frame), !.stack = Front(Front(@)), !.scopes = @ + 1, !.cur = fn, !.pc = 1]

\* The depth the interpreter counts: the calls that re-entered it.
Depth == Len(outer) + 1

SyncAny == DOMAIN chunks

\* A call of an async function starts a coroutine instead, which is not modelled.
Sync == {fn \in DOMAIN chunks : \A i \in DOMAIN chunks[fn].code : chunks[fn].code[i].op # "await"}
Callee == IF Instr.op = "call" THEN Top(2) ELSE Instr.fn
Calls == (At("call") \/ At("callMethod")) /\ Callee \in Sync

DoCallInline ==
  /\ Calls /\ ~chunks[Callee].needsEnv
  /\ Step(IF Depth + Len(exec.calls) >= MaxDepth THEN Thrown(Past, RangeError)
          ELSE PushInline(Past, Callee))

\* call_value and call_closure: a chunk that needs an environment.
DoCall ==
  /\ Calls /\ chunks[Callee].needsEnv
  /\ LET m == Pop(Pop(Past))
     IN IF Depth >= MaxDepth THEN Step(Thrown(m, RangeError))
        ELSE /\ outer' = Append(outer, m)
             /\ exec' = Start(Callee, Top(1), chunks[Callee].n)
             /\ UNCHANGED <<chunks, log>>

\* The exec of a call is over: its value, or its error, is the caller's.
CallEnds ==
  /\ exec.end \in {"done", "throw"} /\ outer # << >>
  /\ exec' = IF exec.end = "done" THEN Push(Last(outer), exec.v) ELSE Thrown(Last(outer), exec.v)
  /\ outer' = Front(outer)
  /\ UNCHANGED <<chunks, log>>

DoReturn == At("return") /\ Step(Returned(Pop(exec), Top(1)))
DoReturnNull == At("returnNull") /\ Step(Returned(exec, Null))

\* An await gives control back; run_coro goes on with what the promise settled to.
DoAwait == At("await") /\ Step(GivenBack(Pop(Past), "await", Top(1)))
Resume ==
  /\ exec.end = "await"
  /\ LET m == GivenBack(exec, "running", Null)
     IN Step(IF exec.v = Null THEN Push(m, 1)
             ELSE IF m.handlers = << >> THEN GivenBack(m, "throw", exec.v)
             ELSE Handled(m, exec.v))

Instruction ==
  \/ DoConst \/ DoLoad \/ DoStore \/ DoPop \/ DoDup \/ DoBin \/ DoTruthy \/ DoJump \/ DoJumpIfFalse \/ DoJumpIfTrue
  \/ DoNotNullJump \/ DoOnNullJump \/ DoSay \/ DoShow \/ DoIter \/ DoBump \/ DoMore \/ DoAgain \/ DoPushScope \/ DoPopScope
  \/ DoPushHandler \/ DoPopHandler \/ DoCatchMatches \/ DoThrow \/ DoCallInline \/ DoCall
  \/ CallEnds \/ DoReturn \/ DoReturnNull \/ DoAwait \/ Resume

\* The machine on chunks it was given, from the start of main.
Loaded ==
  /\ "main" \in DOMAIN chunks /\ exec = Start("main", 0, chunks.main.n)
  /\ outer = << >> /\ log = << >>
Runs == Loaded /\ [][Instruction]_vars

\* The verifier checks the operands; the rest is the compiler's to keep.
AllSound == \A fn \in DOMAIN chunks : Sound(chunks[fn])

(***************************************************************************)
(* Properties.                                                             *)
(***************************************************************************)
\* The verifier accepts every chunk, and it is right about it: wherever the
\* machine is, the operands of the running frame are as many as it worked out
\* for that instruction, on every path that leads there.
StackAsVerified ==
  exec.end = "running" =>
    LET depths == chunks[exec.cur].depths
    IN exec.pc \in DOMAIN depths /\ depths[exec.pc] + Below(exec).stack = Len(exec.stack)

\* A frame that ends by falling off its end leaves nothing of what it pushed:
\* no handler that could catch a later error, no scope and no operand.
NothingLeft ==
  At("returnNull") =>
    /\ Len(exec.handlers) = Below(exec).handlers
    /\ exec.scopes = Below(exec).scopes + 1
    /\ Len(exec.stack) = Below(exec).stack

\* A coroutine is saved as one frame: the callers that exec keeps for inlined
\* calls (calls, a local) would be lost at an await among them.
AwaitsAlone == exec.end = "await" => exec.calls = << >>
=============================================================================
