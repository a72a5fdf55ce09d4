-------------------------------- MODULE MCVm --------------------------------
(***************************************************************************)
(* The programs the machine is checked on: a try, or a try in a try, in a  *)
(* loop, a switch or an inner loop, and after it a statement that shows    *)
(* what was left; recursions, a call of an async function, and expressions *)
(* in an expression.  Strays names the forms whose compilation is known to *)
(* differ; a program is tried when the forms it has are all in Allowed.    *)
(***************************************************************************)
EXTENDS Vm

CONSTANTS
  e1, e2,      \* two classes of error
  Allowed,     \* the forms let in
  Kinds,       \* the kinds of loop
  Deep         \* whether a try may stand in a try

Leaves == {Show(1), Throw(e1), Await(e1), Call("f"), Return, Break(""), Continue("")}

\* The bodies of a try: a leaf, now or on the second turn only.
Blocks == {<<l, Show(2)>> : l \in {Show(1), Call("f")}} \cup {<<l>> : l \in Leaves \ {Show(1), Call("f")}}
          \cup {<<If(Bin("==", XRead, Lit(1)), << >>, <<l>>), Show(2)>> : l \in Leaves \ {Show(1)}}
          \cup {<<Let(3), Show(1)>>}
AnyError == {e1, e2, RangeError}
Catchings == {<< >>, <<Clause({e1}, <<Show(3)>>)>>,
              <<Clause({e2}, <<Show(3)>>), Clause(AnyError, <<Throw(e2)>>)>>}
             \cup {<<Clause({e1}, <<l>>)>> : l \in {Return, Break("l"), Continue("")}}
Finals == {<< >>} \cup {<<b>> : b \in {<<Show(4)>>, <<Throw(e2)>>, <<Call("f"), Show(4)>>, <<Break("")>>}}
Tries == {t \in [s : {"try"}, block : Blocks, catches : Catchings, finally : Finals] :
            t.catches # << >> \/ t.finally # << >>}

\* A try in the block, a catch clause or the finally of another.
Nested ==
  LET last == {<< >>, <<<<Show(7)>>>>}
  IN {Try(<<t, Show(5)>>, <<Clause(AnyError, <<Show(6)>>)>>, fin) : t \in Tries, fin \in last}
     \cup {Try(<<t, Show(5)>>, << >>, <<<<Show(7)>>>>) : t \in Tries}
     \cup {Try(<<Throw(e1)>>, <<Clause({e1}, <<t, Show(5)>>)>>, fin) : t \in Tries, fin \in last}
     \cup {Try(<<l>>, << >>, <<<<t>>>>) : l \in {Show(6), Throw(e2)}, t \in Tries}

Bodies(k) == {<<Inc, t, Show(8)>> : t \in Tries \cup IF Deep /\ k = "each" THEN Nested ELSE {}}
             \cup {<<Switch(<<t, Show(8)>>), Inc>> : t \in Tries}
             \cup {<<Loop(k, "", <<Let(3), t>>), Inc>> : t \in Tries}
\* A throw at the end meets the handlers left; without it, the end of main does.
Mains == UNION {{<<Loop(k, "l", b), Show(9)>> \o last : b \in Bodies(k),
                   last \in {<<Throw(e1)>>} \cup IF Deep /\ k = "each" THEN {} ELSE {<< >>}} : k \in Kinds}
Callees == {<<Inc, Show(10)>>, <<Throw(e1)>>, <<Loop("while", "", <<Inc, Break("")>>), Return>>}

(***************************************************************************)
(* Statements, and how a sequence of them may be left.                     *)
(***************************************************************************)
RECURSIVE Within(_), Exits(_)
Parts(s) ==
  CASE s.s = "if" -> {s.then, s.els}
    [] s.s \in {"loop", "switch"} -> {s.body}
    [] s.s = "try" -> {s.block} \cup {c.body : c \in Range(s.catches)} \cup Range(s.finally)
    [] OTHER -> {}
Within(ss) == Range(ss) \cup UNION {UNION {Within(part) : part \in Parts(s)} : s \in Range(ss)}
Exits(ss) == UNION {
  LET out == UNION {Exits(part) : part \in Parts(s)}
  IN CASE s.s \in {"break", "continue", "return"} -> {s}
       [] s.s = "loop" -> {e \in out : e.s = "return" \/ e.label \notin {"", s.label}}
       [] s.s = "switch" -> out \ {Break("")}
       [] OTHER -> out : s \in Range(ss)}

\* A jump out of a try that has no finally; a jump out of a finally; a let in
\* a try block or a finally; a continue of a for await.
Strays(ss) == {form \in {"exit", "override", "shadow", "await"} : \E s \in Within(ss) :
  \/ s.s = "try" /\ form = "exit" /\ s.finally = << >> /\ Exits(s.block) # {}
  \/ s.s = "try" /\ form = "override" /\ \E b \in Range(s.finally) : Exits(b) # {}
  \/ s.s = "try" /\ form = "shadow" /\ \E b \in {s.block} \cup Range(s.finally) : Let(3) \in Range(b)
  \/ s.s = "loop" /\ form = "await" /\ s.kind = "await" /\ {Continue(""), Continue(s.label)} \cap Exits(s.body) # {}}

\* Functions that call each other until the depth runs out: f has its frame
\* pushed, g runs an exec of its own.  When f calls g, the depth is counted
\* differently.
Recursive ==
  LET call == {Call("f"), Call("g")}
      catching(l) == Try(<<l>>, <<Clause({RangeError}, <<Show(3)>>)>>, << >>)
      mains == {<<catching(l), Show(9), last>> : l \in call, last \in call \cup {Show(9)}}
               \cup {<<l, Show(9)>> : l \in call}
      fs == {<<Inc, Show(10), l, Show(11)>> : l \in call} 
            \cup {<<If(Bin("==", XRead, Lit(0)), <<l>>, << >>), Return>> : l \in call}
            \cup {<<ReturnOf(Bin("+", Say(14, 1), CallX("f", XRead)))>>}
      gs == {<<Switch(<<Show(12), l>>), Return>> : l \in call} \cup {<<catching(l), Show(13)>> : l \in call}
  IN {p \in [main : mains, f : fs, g : gs] : "deep" \in Allowed \/ Call("g") \notin Within(p.f)}

\* A function that awaits, called: a coroutine of its own would start.
Async == [main : {<<Call("f"), Show(9)>>}, f : {<<Await(Null), Show(10)>>, <<Await(e1)>>}]

(***************************************************************************)
(* Expressions: an operand of each kind, an operator over two of them, and *)
(* an operator over one of those and an operand.  f throws, gives its      *)
(* argument back, or catches what it throws; g has nothing to give back.   *)
(***************************************************************************)
Operands == {XRead, Say(1, 0), Say(2, 2), CallX("f", Say(3, 1)), Update(FALSE)}
Nothing == CallX("g", Lit(0))
Compound(l, r) ==
  {Bin("+", l, r), Bin("==", l, r), Logic("and", l, r), Logic("or", l, r),
   Cond(l, r, Say(4, 5)), Assign("=", Bin("+", l, r)), Bin("+", l, Assign("+=", r)),
   Bin("+", l, Assign("&&=", r)), Bin("+", l, Assign("||=", r)),
   Bin("+", l, CallX("f", r)), Bin("+", l, Method(r, "f", Say(5, 1))),
   Bin("+", l, Logic("coalesce", Nothing, r)),
   Bin("+", l, Logic("coalesce", Method(Nothing, "f", Say(6, 1)), r))}
Special == {AwaitX(Null), AwaitX(e1), Update(TRUE)}
Flat == UNION {Compound(l, r) : l \in Operands, r \in Operands}
        \cup UNION {Compound(Say(1, 0), a) \cup Compound(a, Say(2, 2)) : a \in Special}
        \cup {Assign("+=", Lit(2)), Assign("&&=", Lit(2)), Assign("||=", XRead)}
InnerExprs == UNION {Compound(Say(2, 2), r) : r \in {CallX("f", XRead), Update(TRUE)}}
TwoDeep == UNION {Compound(Say(7, 1), e) \cup Compound(e, Say(7, 1)) : e \in InnerExprs}

\* A value that one engine evaluates before it reads the target and the other
\* after, or not at all.
RECURSIVE Subs(_)
Subs(e) == {e} \cup UNION {Subs(e[part]) :
  part \in DOMAIN e \cap {"l", "r", "cond", "then", "els", "value", "arg", "obj"}}
Stray(e) == \E a \in Subs(e) :
  /\ a.e = "assign" /\ a.op # "="
  /\ \E v \in Subs(a.value) :
       \/ v.e \in {"assign", "update"}
       \/ a.op # "+=" /\ v.e \in {"say", "call", "method", "await"}

\* The value of an assignment in a try, a condition and a statement, a result.
Sites(e) == {<<Try(<<Expr(Assign("=", e)), Show(1)>>, <<Clause({e1}, <<Show(3)>>)>>, << >>), Show(9)>>,
             <<If(e, <<Show(1)>>, <<Expr(e)>>), Show(9)>>,
             <<ReturnOf(e)>>}
Expressions ==
  LET tame == {e \in Flat \cup TwoDeep : "compound" \in Allowed \/ ~Stray(e)}
      fs == {<<Throw(e1)>>, <<Inc, Return>>,
             <<Try(<<Expr(Bin("+", XRead, CallX("h", Lit(0))))>>, <<Clause({e1}, <<Show(10)>>)>>, << >>), Return>>}
  IN [main : UNION {Sites(e) : e \in tame}, f : fs,
      g : {<<Show(12)>>}, h : {<<Switch(<<Throw(e1)>>)>>}]

MCPrograms ==
  LET tame == {m \in Mains : Strays(m) \subseteq Allowed}
  IN UNION {[main : {m}, f : IF Call("f") \in Within(m) THEN Callees ELSE {<<Return>>}] : m \in tame}
     \cup Recursive \cup Async \cup Expressions
=============================================================================
