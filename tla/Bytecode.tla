------------------------------ MODULE Bytecode ------------------------------
(***************************************************************************)
(* The bytecode compiler's control flow (the C of vm.rs): what a statement *)
(* becomes, and the verifier.  A compilation is a record:                  *)
(*   code      what is emitted so far, jump targets patched in later       *)
(*   loops     the loops and switches around the code being compiled       *)
(*   finallys  the finally blocks around it                                *)
(*   depth     the scopes pushed around it (scope_depth)                   *)
(*   slots     for each lexical scope, the slot of x, or 0 (slot_scopes)   *)
(*   n         the slots handed out                                        *)
(* No closure sees x, so that it lives in slots.                           *)
(***************************************************************************)
EXTENDS TreeWalker, Verifier

Op(o) == [op |-> o]
To(o, pc) == [op |-> o, to |-> pc]
Slot(o, k) == [op |-> o, slot |-> k]
Const(v) == [op |-> "const", v |-> v]
BinOp(of) == [op |-> "bin", of |-> of]

Emit(c, op) == [c EXCEPT !.code = Append(@, op)]
EmitAll(c, ops) == [c EXCEPT !.code = @ \o ops]
Here(c) == Len(c.code) + 1
Patch(c, ats, target) ==
  [c EXCEPT !.code = [i \in DOMAIN @ |-> IF i \in ats THEN [@[i] EXCEPT !.to = target] ELSE @[i]]]

PushScope(c) == [Emit(c, Op("pushScope")) EXCEPT !.depth = @ + 1]
PopScope(c) == [Emit(c, Op("popScope")) EXCEPT !.depth = @ - 1]
PushSlotScope(c) == [c EXCEPT !.slots = Append(@, 0)]
PopSlotScope(c) == [c EXCEPT !.slots = Front(@)]

\* declare_local: the name is the innermost lexical scope's from here on.
DeclareX(c) ==
  LET d == [c EXCEPT !.n = @ + 1, !.slots[Len(c.slots)] = c.n + 1]
  IN Emit(d, Slot("store", d.n))
\* A slot for the compiler, or for a name nothing here reads.
Temp(c) == [c EXCEPT !.n = @ + 1]

\* slot_of: the innermost scope that declares x.
SlotOfX(c) == c.slots[SelectLastInSeq(c.slots, LAMBDA k : k # 0)]

RECURSIVE Ex(_, _), St(_, _), RunFinallys(_, _, _), PopTo(_, _, _), Catches(_, _, _)

(***************************************************************************)
(* Expressions: each leaves one value on the stack.                        *)
(***************************************************************************)

\* emit_truthy: a comparison has yielded a bool, and so has a Truthy.
EmitTruthy(c) ==
  IF Last(c.code) \in {Op("truthy"), BinOp("==")} THEN c ELSE Emit(c, Op("truthy"))

ExLogic(c, e) ==
  LET l == EmitAll(EmitTruthy(Ex(c, e.l)),
                   <<Op("dup"), To(IF e.e = "and" THEN "jumpIfFalse" ELSE "jumpIfTrue", 0), Op("pop")>>)
      r == EmitTruthy(Ex(l, e.r))
  IN Patch(r, {Here(l) - 2}, Here(r))

ExCoalesce(c, e) ==
  LET l == Emit(Ex(c, e.l), To("notNullJump", 0))
      r == Ex(l, e.r)
  IN Patch(r, {Here(l) - 1}, Here(r))

ExCond(c, e) ==
  LET test == Emit(Ex(c, e.cond), To("jumpIfFalse", 0))
      then == Emit(Ex(test, e.then), To("jump", 0))
      els == Ex(Patch(then, {Here(test) - 1}, Here(then)), e.els)
  IN Patch(els, {Here(then) - 1}, Here(els))

\* An assignment or an update whose value nobody wants does not keep it, except
\* the logical ones, whose value two paths lead to.
Discardable(e) == e.e = "update" \/ (e.e = "assign" /\ e.op \in {"=", "+="})
Dups(keep) == IF keep THEN <<Op("dup")>> ELSE << >>

ExAssign(c, e, keep) ==
  LET k == SlotOfX(c)
      test == EmitAll(c, <<Slot("load", k), Op("dup"), Op("truthy"),
                           To(IF e.op = "&&=" THEN "jumpIfFalse" ELSE "jumpIfTrue", 0), Op("pop")>>)
      logical == EmitAll(Ex(test, e.value), <<Op("dup"), Slot("store", k)>>)
  IN CASE e.op = "=" -> EmitAll(Ex(c, e.value), Dups(keep) \o <<Slot("store", k)>>)
       [] e.op = "+=" -> EmitAll(Ex(Emit(c, Slot("load", k)), e.value),
                                 <<BinOp("+")>> \o Dups(keep) \o <<Slot("store", k)>>)
       [] OTHER -> Patch(logical, {Here(test) - 2}, Here(logical))

ExUpdate(c, e, keep) ==
  EmitAll(c, <<Slot("load", SlotOfX(c))>> \o Dups(keep /\ ~e.prefix) \o <<Const(1), BinOp("+")>>
             \o Dups(keep /\ e.prefix) \o <<Slot("store", SlotOfX(c))>>)

\* call: the callee or the receiver, then the argument; obj?.fn() jumps past it.
ExCall(c, e) == Emit(Ex(Emit(c, Const(e.fn)), e.arg), Op("call"))
ExMethod(c, e) ==
  LET obj == Emit(Ex(c, e.obj), To("onNullJump", 0))
      called == Emit(Ex(obj, e.arg), [op |-> "callMethod", fn |-> e.fn])
  IN Patch(called, {Here(obj) - 1}, Here(called))

Ex(c, e) ==
  CASE e.e = "lit" -> Emit(c, Const(e.v))
    [] e.e = "x" -> Emit(c, Slot("load", SlotOfX(c)))
    [] e.e = "say" -> Emit(c, [op |-> "say", at |-> e.at, v |-> e.v])
    [] e.e = "bin" -> Emit(Ex(Ex(c, e.l), e.r), BinOp(e.op))
    [] e.e \in {"and", "or"} -> ExLogic(c, e)
    [] e.e = "coalesce" -> ExCoalesce(c, e)
    [] e.e = "cond" -> ExCond(c, e)
    [] e.e = "assign" -> ExAssign(c, e, TRUE)
    [] e.e = "update" -> ExUpdate(c, e, TRUE)
    [] e.e = "call" -> ExCall(c, e)
    [] e.e = "method" -> ExMethod(c, e)
    [] e.e = "await" -> EmitAll(c, <<Const(e.err), Op("await")>>)

(***************************************************************************)
(* Statements.                                                             *)
(***************************************************************************)
StExpr(c, e) ==
  IF ~Discardable(e) THEN Emit(Ex(c, e), Op("pop"))
  ELSE IF e.e = "update" THEN ExUpdate(c, e, FALSE)
  ELSE ExAssign(c, e, FALSE)

Sts(c, ss) == FoldLeft(St, c, ss)

BlockStmtsUnbalanced(c, ss) == [Sts(PushScope(c), ss) EXCEPT !.depth = c.depth]

\* compile_block_stmts: a scope in the environment, and no slot scope.
BlockStmts(c, ss) == PopScope(Sts(PushScope(c), ss))

\* A block statement: nothing in it lives in the environment.
Block(c, ss) == PopSlotScope(Sts(PushSlotScope(c), ss))

PopToShort(c, cur, depth) == IF cur > depth + 1 THEN PopTo(Emit(c, Op("popScope")), cur - 1, depth) ELSE c

PopTo(c, cur, depth) == IF cur > depth THEN PopTo(Emit(c, Op("popScope")), cur - 1, depth) ELSE c

HandlersUnpopped(c, k) == c

PopHandlers(c, k) == EmitAll(c, [i \in 1..k |-> Op("popHandler")])

(***************************************************************************)
(* Ways out.  A finally is compiled once more at every jump that crosses   *)
(* it, with the scopes and handlers of its try popped before.  The result  *)
(* is the compilation and the scope depth left.                            *)
(***************************************************************************)
RunFinallys(c, cur, target) ==
  IF Len(c.finallys) = target THEN [c |-> c, cur |-> cur]
  ELSE LET f == Last(c.finallys)
           out == PopHandlers(PopTo(c, cur, f.depth), f.handlers)
           copy == BlockStmts([out EXCEPT !.finallys = Front(@), !.depth = f.depth], f.body)
           rest == RunFinallys(copy, IF cur > f.depth THEN f.depth ELSE cur, target)
       IN [rest EXCEPT !.c.finallys = c.finallys, !.c.depth = c.depth]

Targets(c, label, isBreak) ==
  {i \in 1..Len(c.loops) :
     IF label # "" THEN c.loops[i].label = label ELSE isBreak \/ c.loops[i].kind = "loop"}

Abrupt(c, label, isBreak) ==
  LET ix == Max(Targets(c, label, isBreak))
      ctx == c.loops[ix]
      r == RunFinallys(c, c.depth, ctx.finallys)
      out == Emit(PopTo(r.c, r.cur, ctx.depth), To("jump", 0))
      jump == Here(out) - 1
  IN IF isBreak THEN [out EXCEPT !.loops[ix].breaks = @ \cup {jump}]
     ELSE [out EXCEPT !.loops[ix].continues = @ \cup {jump}]

StReturn(c, s) ==
  LET r == RunFinallys(Ex(c, s.e), c.depth, 0)
  IN Emit(r.c, Op("return"))

StIf(c, s) ==
  LET test == Emit(Ex(c, s.cond), To("jumpIfFalse", 0))
      then == Emit(Block(test, s.then), To("jump", 0))
      els == Block(Patch(then, {Here(test) - 1}, Here(then)), s.els)
  IN Patch(els, {Here(then) - 1}, Here(els))

(***************************************************************************)
(* Loops and switches.  How many turns are left is in a slot of its own:   *)
(* "iter" sets it, "bump" takes one, "more" jumps out when there is none   *)
(* and "again" jumps back when there is one.                               *)
(***************************************************************************)
Iter(c, n) == Emit(Temp(c), [op |-> "iter", slot |-> c.n + 1, n |-> n])
More(c, k) == Emit(c, [op |-> "more", slot |-> k, to |-> 0])

OpenLoop(c, kind, label) ==
  [c EXCEPT !.loops = Append(@, [kind |-> kind, label |-> label, depth |-> c.depth,
                                 finallys |-> Len(c.finallys), breaks |-> {}, continues |-> {}])]

CloseLoop(c, exits, cont) ==
  LET ctx == Last(c.loops)
  IN [Patch(Patch(c, exits \cup ctx.breaks, Here(c)), ctx.continues, cont)
        EXCEPT !.loops = Front(@)]

\* compile_loop; Turn compiles condition and body, and says where to continue
\* and where the jumps out of the condition are.
CompileLoop(c, s, Turn(_)) ==
  LET open == OpenLoop(c, "loop", s.label)
      t == Turn(open)
      back == IF s.kind = "do" THEN t.c ELSE Emit(t.c, To("jump", Here(open)))
  IN CloseLoop(back, t.exits, t.cont)
Turned(c, cont, exits) == [c |-> c, cont |-> cont, exits |-> exits]

StWhile(c, s) ==
  LET head == Iter(c, Turns + 1)
      Turn(d) == LET more == More(Emit(d, Slot("bump", head.n)), head.n)
                 IN Turned(Block(more, s.body), Here(d), {Here(more) - 1})
  IN CompileLoop(head, s, Turn)

StDoWhile(c, s) ==
  LET head == Iter(c, Turns)
      Turn(d) == LET body == Block(d, s.body)
                     test == EmitAll(body, <<Slot("bump", head.n),
                                             [op |-> "again", slot |-> head.n, to |-> Here(d)]>>)
                 IN Turned(test, Here(body), {})
  IN CompileLoop(head, s, Turn)

\* The head's scope, and in it the turn's, swapped for a new one at each turn.
StFor(c, s) ==
  LET head == PushScope(Iter(PushSlotScope(PushScope(c)), Turns))
      Turn(d) == LET more == More(d, head.n)
                     body == Block(more, s.body)
                     next == EmitAll(body, <<Op("popScope"), Op("pushScope"), Slot("bump", head.n)>>)
                 IN Turned(next, Here(body), {Here(more) - 1})
  IN PopScope(PopSlotScope(PopScope(CompileLoop(head, s, Turn))))

\* "each" pushes the turn's scope.
StForOf(c, s) ==
  LET head == Iter(PushSlotScope(c), Turns)
      In(d) == IF s.kind = "each" THEN PushScope(PushSlotScope(d)) ELSE PushSlotScope(d)
      Out(d) == PopSlotScope(IF s.kind = "each" THEN PopScope(d) ELSE d)
      Turn(d) == LET more == More(d, head.n)
                     body == Out(Block(Temp(In(more)), s.body))
                 IN Turned(Emit(body, Slot("bump", head.n)), Here(body), {Here(more) - 1})
  IN PopSlotScope(CompileLoop(head, s, Turn))

\* next() is awaited at each turn, and continue leads into the turn's scope.
StForAwait(c, s) ==
  LET head == Iter(PushSlotScope(c), Turns + 1)
      Turn(d) == LET next == EmitAll(d, <<Slot("bump", head.n), Const(Null), Op("await"), Op("pop")>>)
                     more == More(next, head.n)
                     body == Block(Temp(PushSlotScope(PushScope(more))), s.body)
                 IN Turned(PopScope(PopSlotScope(body)), Here(body), {Here(more) - 1})
  IN PopSlotScope(CompileLoop(head, s, Turn))

StLoop(c, s) ==
  CASE s.kind = "while" -> StWhile(c, s)
    [] s.kind = "do" -> StDoWhile(c, s)
    [] s.kind = "for" -> StFor(c, s)
    [] s.kind \in {"of", "each"} -> StForOf(c, s)
    [] s.kind = "await" -> StForAwait(c, s)

StSwitch(c, s) ==
  LET head == Temp(PushSlotScope(PushScope(c)))
      body == Sts(OpenLoop(head, "switch", ""), s.body)
  IN PopScope(PopSlotScope(CloseLoop(body, {}, 0)))

(***************************************************************************)
(* try.  The outer handler is the finally's, the inner one leads to the    *)
(* catch clauses; entering a handler pops it.                              *)
(***************************************************************************)
Pending(c, f) == [c EXCEPT !.finallys = Append(@, f)]

\* The clauses, each tried on the thrown value at the top of the stack, and
\* the jumps past the rest.
Catches(c, catches, jumps) ==
  IF catches = << >> THEN [c |-> Emit(c, Op("throw")), jumps |-> jumps]
  ELSE LET test == Emit(c, [op |-> "catchMatches", of |-> Head(catches).of])
           skip == Emit(test, To("jumpIfFalse", 0))
           named == Temp(PushSlotScope(PushScope(skip)))
           body == Sts(Emit(named, Slot("store", named.n)), Head(catches).body)
           past == Emit(PopScope(PopSlotScope(body)), To("jump", 0))
       IN Catches(Patch(past, {Here(test)}, Here(past)), Tail(catches), jumps \cup {Here(past) - 1})

StTry(c, s) ==
  LET guarded == s.finally # << >>
      outer == Here(c)
      armed == IF guarded THEN Emit(c, To("pushHandler", 0)) ELSE c
      inner == Here(armed)
      within == Emit(armed, To("pushHandler", 0))
      pending(d, k) == IF guarded
                       THEN Pending(d, [body |-> s.finally[1], depth |-> c.depth, handlers |-> k])
                       ELSE d
      tried == EmitAll(BlockStmts(pending(within, 2), s.block), <<Op("popHandler"), To("jump", 0)>>)
      handler == Patch([tried EXCEPT !.finallys = c.finallys], {inner}, Here(tried))
      caught == Catches(pending(handler, 1), s.catches, {Here(tried) - 1})
      norm == [Patch(caught.c, caught.jumps, Here(caught.c)) EXCEPT !.finallys = c.finallys]
      normal == Emit(BlockStmts(Emit(norm, Op("popHandler")), s.finally[1]), To("jump", 0))
      thrown == Emit(BlockStmts(Patch(normal, {outer}, Here(normal)), s.finally[1]), Op("throw"))
  IN IF guarded THEN Patch(thrown, {Here(normal) - 1}, Here(thrown)) ELSE norm

St(c, s) ==
  CASE s.s = "show" -> Emit(c, [op |-> "show", at |-> s.at, slot |-> SlotOfX(c)])
    [] s.s = "let" -> DeclareX(Emit(c, Const(s.v)))
    [] s.s = "expr" -> StExpr(c, s.e)
    [] s.s = "if" -> StIf(c, s)
    [] s.s = "return" -> StReturn(c, s)
    [] s.s = "throw" -> EmitAll(c, <<Const(s.err), Op("throw")>>)
    [] s.s = "break" -> Abrupt(c, s.label, TRUE)
    [] s.s = "continue" -> Abrupt(c, s.label, FALSE)
    [] s.s = "loop" -> StLoop(c, s)
    [] s.s = "switch" -> StSwitch(c, s)
    [] s.s = "try" -> StTry(c, s)

(***************************************************************************)
(* The verifier: the operand depths each instruction may be reached with,  *)
(* and the chunk.  It refuses two depths at one place, and an underflow.   *)
(***************************************************************************)
RECURSIVE Reach(_, _, _)
Agree(code, reached) ==
  /\ \A p, q \in reached : p[1] = q[1] => p[2] = q[2]
  /\ \A p \in reached : p[2] >= Pops(code[p[1]].op)
Reach(code, new, seen) ==
  IF new = {} \/ ~Agree(code, seen) THEN seen
  ELSE Reach(code, UNION {Flows(code, p[1], p[2]) : p \in new} \ (seen \cup new), seen \cup new)

\* analyze: the depth at each instruction reached, or nothing for a chunk refused.
Analyze(code) ==
  LET reached == Reach(code, {<<1, 0>>}, {})
  IN IF Agree(code, reached)
     THEN [pc \in {p[1] : p \in reached} |-> (CHOOSE p \in reached : p[1] = pc)[2]]
     ELSE << >>

\* compile_fn_in and finish: the parameter x has the first slot.
CompileFn(ss) ==
  LET c == Sts([code |-> << >>, loops |-> << >>, finallys |-> << >>, depth |-> 0,
                slots |-> <<1>>, n |-> 1], ss)
      code == Emit(c, Op("returnNull")).code
  IN [body |-> ss, code |-> code, n |-> c.n, depths |-> Analyze(code),
      needsEnv |-> \E i \in DOMAIN code : code[i].op = "pushScope"]
=============================================================================
