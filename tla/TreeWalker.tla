----------------------------- MODULE TreeWalker -----------------------------
(***************************************************************************)
(* Statements and expressions, and what the tree-walker makes of them      *)
(* (exec_stmt_l, eval).  Of the expressions there are those that transfer  *)
(* control, write a variable or leave operands waiting.  There is one      *)
(* variable x, which "show" prints with the place it is shown at; a value  *)
(* is a number, a bool is 0 or 1.  A program is a main and the functions   *)
(* it calls, each with an x of its own, its parameter.                     *)
(***************************************************************************)
EXTENDS Values

CONSTANT Turns   \* how many values a loop runs over

\* Expressions.  "say" prints what it yields, "method" is obj?.fn(arg); an await
\* is of a promise that resolves to 1, or rejects with err when that is not Null.
Lit(v) == [e |-> "lit", v |-> v]
XRead == [e |-> "x"]
Say(at, v) == [e |-> "say", at |-> at, v |-> v]
Bin(op, l, r) == [e |-> "bin", op |-> op, l |-> l, r |-> r]       \* "+" or "=="
Logic(op, l, r) == [e |-> op, l |-> l, r |-> r]                   \* "and", "or" or "coalesce"
Cond(cond, then, els) == [e |-> "cond", cond |-> cond, then |-> then, els |-> els]
Assign(op, value) == [e |-> "assign", op |-> op, value |-> value] \* "=", "+=", "&&=" or "||="
Update(prefix) == [e |-> "update", prefix |-> prefix]             \* ++
CallX(fn, arg) == [e |-> "call", fn |-> fn, arg |-> arg]
Method(obj, fn, arg) == [e |-> "method", obj |-> obj, fn |-> fn, arg |-> arg]
AwaitX(err) == [e |-> "await", err |-> err]

Expr(e) == [s |-> "expr", e |-> e]
Inc == Expr(Update(FALSE))
Call(fn) == Expr(CallX(fn, Lit(0)))
Await(err) == Expr(AwaitX(err))

Show(at) == [s |-> "show", at |-> at]
Let(v) == [s |-> "let", v |-> v]
If(cond, then, els) == [s |-> "if", cond |-> cond, then |-> then, els |-> els]
ReturnOf(e) == [s |-> "return", e |-> e]
Return == ReturnOf(XRead)
Throw(err) == [s |-> "throw", err |-> err]
Break(label) == [s |-> "break", label |-> label]
Continue(label) == [s |-> "continue", label |-> label]

\* The loops: "while", "do", "for" (with a variable a closure captures), "of",
\* "each" (a for...of whose variable a closure captures) and "await".
Loop(kind, label, body) == [s |-> "loop", kind |-> kind, label |-> label, body |-> body]

\* A switch whose first clause matches.
Switch(body) == [s |-> "switch", body |-> body]

\* catches is a sequence of typed clauses; finally is << >> or <<body>>.
Clause(of, body) == [of |-> of, body |-> body]
Try(block, catches, finally) ==
  [s |-> "try", block |-> block, catches |-> catches, finally |-> finally]

(***************************************************************************)
(* The walk of a statement, or an expression, of program p.  What is       *)
(* carried along is the chain of scopes, the depth of calls and what was   *)
(* printed; a result adds how it ended, with a value, a Sig or a throw.    *)
(***************************************************************************)
Ends(end, v, w) == [end |-> end, v |-> v, label |-> "", env |-> w.env, depth |-> w.depth, log |-> w.log]
Normally(w) == Ends("normal", Null, w)
Jumps(end, label, w) == [Ends(end, Null, w) EXCEPT !.label = label]

\* The innermost scope that declares x.
ScopeOfX(env) == SelectLastInSeq(env, LAMBDA v : v # Null)
X(w) == w.env[ScopeOfX(w.env)]
SetX(w, v) == [w EXCEPT !.env[ScopeOfX(w.env)] = v]

Gives(v, w) == Ends("normal", v, w)
\* `?`: a throw leaves out what comes next.
Then(r, Next(_)) == IF r.end = "normal" THEN Next(r) ELSE r

\* What an assignment stores, of the old value and the one on its right.
Assigned(op, old, rhs) ==
  CASE op = "=" -> rhs
    [] op = "+=" -> old + rhs
    [] op = "&&=" -> IF Truthy(old) THEN rhs ELSE old
    [] op = "||=" -> IF Truthy(old) THEN old ELSE rhs

\* loop_ctl: does a loop take this signal itself?
Taken(r, end, label) == r.end = end /\ r.label \in {"", label}

FirstMatch(catches, err) == SelectInSeq(catches, LAMBDA c : err \in c.of)

RECURSIVE Walk(_, _, _), WalkAll(_, _, _), WalkLoop(_, _, _, _), Eval(_, _, _)

\* exec_block: a scope of its own.
WalkBlock(ss, p, w) ==
  LET r == WalkAll(ss, p, [w EXCEPT !.env = Append(@, Null)])
  IN [r EXCEPT !.env = Front(@)]

WalkAll(ss, p, w) ==
  IF ss = << >> THEN Normally(w)
  ELSE LET r == Walk(Head(ss), p, w)
       IN IF r.end = "normal" THEN WalkAll(Tail(ss), p, r) ELSE r

WalkLoop(s, p, w, turn) ==
  IF turn = 0 THEN Normally(w)
  ELSE LET r == WalkBlock(s.body, p, w)
       IN CASE r.end = "normal" \/ Taken(r, "continue", s.label) -> WalkLoop(s, p, r, turn - 1)
            [] Taken(r, "break", s.label) -> Normally(r)
            [] OTHER -> r

WalkTry(s, p, w) ==
  LET tried == WalkBlock(s.block, p, w)
      clause == IF tried.end = "throw" THEN FirstMatch(s.catches, tried.v) ELSE 0
      result == IF clause = 0 THEN tried ELSE WalkBlock(s.catches[clause].body, p, tried)
      final == WalkBlock(s.finally[1], p, result)
  IN IF s.finally = << >> THEN result
     ELSE IF final.end = "normal" THEN [final EXCEPT !.end = result.end, !.v = result.v,
                                                     !.label = result.label]
     ELSE final

\* call_closure: scopes of its own, and only a throw gets out of it.
WalkCall(fn, p, arg) ==
  LET r == WalkAll(p[fn], p, [arg EXCEPT !.env = <<arg.v>>, !.depth = @ + 1])
  IN IF arg.depth >= MaxDepth THEN Ends("throw", RangeError, arg)
     ELSE Ends(IF r.end = "throw" THEN "throw" ELSE "normal", r.v, [arg EXCEPT !.log = r.log])

EvalLogic(e, p, l) ==
  LET Bool(r) == Gives(BoolOf(Truthy(r.v)), r)
  IN CASE e.e = "and" -> IF Truthy(l.v) THEN Then(Eval(e.r, p, l), Bool) ELSE Gives(0, l)
       [] e.e = "or" -> IF Truthy(l.v) THEN Gives(1, l) ELSE Then(Eval(e.r, p, l), Bool)
       [] e.e = "coalesce" -> IF l.v = Null THEN Eval(e.r, p, l) ELSE l

\* The right side first, whatever the operator; only then the target is read.
EvalAssign(e, r) ==
  LET new == Assigned(e.op, X(r), r.v)
  IN Gives(new, SetX(r, new))

\* A null receiver under ?. skips the argument.
EvalMethod(e, p, obj) ==
  IF obj.v = Null THEN obj
  ELSE Then(Eval(e.arg, p, obj), LAMBDA arg : WalkCall(e.fn, p, arg))

Eval(e, p, w) ==
  CASE e.e = "lit" -> Gives(e.v, w)
    [] e.e = "x" -> Gives(X(w), w)
    [] e.e = "say" -> Gives(e.v, [w EXCEPT !.log = Append(@, <<e.at, e.v>>)])
    [] e.e = "bin" -> Then(Eval(e.l, p, w), LAMBDA l :
                        Then(Eval(e.r, p, l), LAMBDA r : Gives(BinValue(e.op, l.v, r.v), r)))
    [] e.e \in {"and", "or", "coalesce"} -> Then(Eval(e.l, p, w), LAMBDA l : EvalLogic(e, p, l))
    [] e.e = "cond" -> Then(Eval(e.cond, p, w), LAMBDA c : Eval(IF Truthy(c.v) THEN e.then ELSE e.els, p, c))
    [] e.e = "assign" -> Then(Eval(e.value, p, w), LAMBDA r : EvalAssign(e, r))
    [] e.e = "update" -> Gives(IF e.prefix THEN X(w) + 1 ELSE X(w), SetX(w, X(w) + 1))
    [] e.e = "call" -> Then(Eval(e.arg, p, w), LAMBDA arg : WalkCall(e.fn, p, arg))
    [] e.e = "method" -> Then(Eval(e.obj, p, w), LAMBDA obj : EvalMethod(e, p, obj))
    [] e.e = "await" -> IF e.err = Null THEN Gives(1, w) ELSE Ends("throw", e.err, w)

Walk(s, p, w) ==
  CASE s.s = "show" -> Normally([w EXCEPT !.log = Append(@, <<s.at, X(w)>>)])
    [] s.s = "let" -> Normally([w EXCEPT !.env[Len(w.env)] = s.v])
    [] s.s = "expr" -> Then(Eval(s.e, p, w), Normally)
    [] s.s = "if" -> Then(Eval(s.cond, p, w),
                       LAMBDA c : WalkBlock(IF Truthy(c.v) THEN s.then ELSE s.els, p, c))
    [] s.s = "return" -> Then(Eval(s.e, p, w), LAMBDA r : Ends("return", r.v, r))
    [] s.s = "throw" -> Ends("throw", s.err, w)
    [] s.s \in {"break", "continue"} -> Jumps(s.s, s.label, w)
    [] s.s = "loop" -> WalkLoop(s, p, w, Turns)
    [] s.s = "switch" -> LET r == WalkBlock(s.body, p, w)
                         IN IF r.end = "break" /\ r.label = "" THEN Normally(r) ELSE r
    [] s.s = "try" -> WalkTry(s, p, w)

\* What a program prints, and how it ends.
Outcome(p) ==
  LET r == WalkAll(p.main, p, [env |-> <<0>>, depth |-> 1, log |-> << >>])
  IN [end |-> IF r.end = "throw" THEN "throw" ELSE "done", v |-> r.v, log |-> r.log]
=============================================================================
