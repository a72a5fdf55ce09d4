------------------------------ MODULE MCRegex ------------------------------
(***************************************************************************)
(* Patterns made of a few atoms, every quantifier, alternations and nested *)
(* groups, over short texts.  Empties says whether a repeat may ask for    *)
(* turns of something that can take nothing: those are not found as their  *)
(* meaning says.                                                           *)
(***************************************************************************)
EXTENDS RegexMeaning, FiniteSetsExt

CONSTANT Empties

MCChars == {"a", "A", "b", "-", "nl"}
MCWordChars == {"a", "A", "b"}
MCLower(c) == IF c = "A" THEN "a" ELSE c
MCUpper(c) == IF c = "a" THEN "A" ELSE c

Empty == [n |-> "empty"]
Char(c) == [n |-> "char", c |-> c]
Dot == [n |-> "any"]
Class(negated, items) == [n |-> "class", negated |-> negated, items |-> items]
Ch(c) == [i |-> "ch", c |-> c]
Span(of) == [i |-> "range", of |-> of]
Word(want) == [i |-> "word", want |-> want]
At(place) == [n |-> place]
Boundary(want) == [n |-> "boundary", want |-> want]
Group(index, inner) == [n |-> "group", index |-> index, inner |-> inner]
Seq2(x, y) == [n |-> "concat", parts |-> <<x, y>>]
Or(x, y) == [n |-> "alt", arms |-> <<x, y>>]
Times(inner, min, max, greedy) ==
  [n |-> "repeat", inner |-> inner, min |-> min, max |-> max, greedy |-> greedy]

Quantified(n) == {n} \cup {Times(n, q[1], q[2], g) :
                   q \in {<<0, Unbounded>>, <<1, Unbounded>>, <<0, 1>>, <<2, 2>>, <<1, 2>>}, g \in BOOLEAN}
Few(n) == {Times(n, q[1], q[2], q[3]) :
             q \in {<<0, Unbounded, TRUE>>, <<1, Unbounded, FALSE>>, <<0, 2, TRUE>>, <<2, 3, TRUE>>}}

\* A repeated group of alternatives, one of which captures, before a last atom.
Rounds == UNION {Few(Group(1, Or(x, y))) :
            x \in {Group(2, Char("a")), Times(Group(2, Char("a")), 1, Unbounded, TRUE), Seq2(Group(2, Char("a")), Char("a"))},
            y \in {Char("b"), Times(Char("b"), 0, Unbounded, TRUE), Seq2(Dot, Char("b")), Empty}}
Loops == Rounds \cup {Seq2(r, z) : r \in Rounds, z \in {Char("b"), At("end")}}
\* Every way to cut the text into turns of turns is tried, in vain.
Hostile == {Seq2(Times(Group(1, Times(Group(2, Or(Char("a"), Dot)), 1, Unbounded, TRUE)), 1, Unbounded, TRUE), Char("-"))}
Pairs == {Seq2(Group(1, x), Group(2, y)) :
            x \in Quantified(Dot) \cup Quantified(Char("a")), y \in Quantified(Class(FALSE, {Ch("a"), Ch("b")}))}
Places0 == {Seq2(p, Seq2(Group(1, x), Group(2, q))) : p \in {At("start"), Boundary(TRUE), Boundary(FALSE), Empty},
             x \in {Times(Class(n, {i}), 0, Unbounded, g) : n \in BOOLEAN, g \in BOOLEAN,
                      i \in {Ch("a"), Span({"a", "b"}), Word(TRUE), Word(FALSE)}},
             q \in {At("end"), Boundary(TRUE), Dot}}

AllRoots == Loops \cup Hostile \cup Pairs \cup Places0
Deeper(ns) == ns \cup UNION {Under(n) : n \in ns}
AllNodes == Deeper(Deeper(Deeper(Deeper(Deeper(Deeper(AllRoots))))))
MCNodes == AllNodes

RECURSIVE MCHeight(_), Nullable(_), Demanding(_)
MCHeight(n) == IF Under(n) = {} THEN 0 ELSE 1 + Max({MCHeight(x) : x \in Under(n)})

Nullable(n) ==
  CASE n.n \in {"char", "any", "class"} -> FALSE
    [] n.n = "repeat" -> n.min = 0 \/ Nullable(n.inner)
    [] n.n = "alt" -> \E x \in Under(n) : Nullable(x)
    [] OTHER -> \A x \in Under(n) : Nullable(x)
\* A repeat somewhere that asks for turns of what can take nothing.
Demanding(n) == (n.n = "repeat" /\ n.min > 0 /\ Nullable(n.inner)) \/ \E x \in Under(n) : Demanding(x)

Roots == {r \in AllRoots : Empties \/ ~Demanding(r)}
MCPatterns == {[root |-> r, ignore_case |-> FALSE] : r \in Roots}
              \cup {[root |-> r, ignore_case |-> TRUE] : r \in Roots \cap Places0}
MCTexts == UNION {[1..n -> {"a", "b"}] : n \in 0..4}
           \cup {<<"A", "a">>, <<"a", "-", "b">>, <<"-", "A", "b">>, <<"a", "nl", "a">>, <<"-", "-">>}
=============================================================================
