---------------------------- MODULE RegexMeaning ----------------------------
(***************************************************************************)
(* What a pattern means, twice.  Span: which pieces of the text it can     *)
(* match, as a language.  Ways: in which order a backtracking matcher owes *)
(* its answers, the captures of each passed on and never shared.           *)
(***************************************************************************)
EXTENDS Regex

Places == 0..Len(text)

AtPlace(node, p) ==
  CASE node.n = "empty" -> TRUE
    [] node.n = "start" -> p = 0
    [] node.n = "end" -> p = Len(text)
    [] node.n = "boundary" -> (WordAt(p) # WordAt(p + 1)) = node.want

(***************************************************************************)
(* The language of a node: the spans <<from, to>> of text it can match.    *)
(***************************************************************************)
Stay == {<<p, p>> : p \in Places}
Joined(R, S) == {<<both[1][1], both[2][2]>> : both \in {p \in R \X S : p[1][2] = p[2][1]}}

\* A piece of each of Rs, one behind the other.
InARow(Rs) ==
  LET upto[i \in 0..Len(Rs)] == IF i = 0 THEN Stay ELSE Joined(upto[i - 1], Rs[i])
  IN  upto[Len(Rs)]

SpansGiven(spans, node) ==
  CASE node.n \in {"char", "any", "class"} ->
         {<<p - 1, p>> : p \in {q \in DOMAIN text : Accepts(node, text[q])}}
    [] node.n \in {"empty", "start", "end", "boundary"} -> {<<p, p>> : p \in {q \in Places : AtPlace(node, q)}}
    [] node.n = "group" -> spans[node.inner]
    [] node.n = "concat" -> InARow([i \in DOMAIN node.parts |-> spans[node.parts[i]]])
    [] node.n = "alt" -> UNION {spans[node.arms[i]] : i \in DOMAIN node.arms}
    [] node.n = "repeat" -> LET turn == spans[node.inner] IN UNION {InARow([j \in 1..i |-> turn]) : i \in node.min..node.max}
Spans[node \in Nodes] == SpansGiven(Spans, node)

(***************************************************************************)
(* The ways of a node, from a place and captures to those behind it, in    *)
(* the order in which it prefers them.                                     *)
(***************************************************************************)
Way == [pos : Places, caps : [1..Groups -> {<< >>} \cup (Nat \X Nat)]]

\* What f makes of each of s, one behind the other.
Each(s, f) ==
  LET upto[i \in 0..Len(s)] == IF i = 0 THEN << >> ELSE upto[i - 1] \o f[s[i]]
  IN  upto[Len(s)]

\* By each of fs in turn.
Through(fs, w) ==
  LET upto[i \in 0..Len(fs)] == IF i = 0 THEN <<w>> ELSE Each(upto[i - 1], fs[i])
  IN  upto[Len(fs)]

\* next, where something was taken behind w.
Taking(w, next) == [v \in Way |-> IF v.pos = w.pos THEN << >> ELSE next[v]]

\* By f for as many turns as rep allows, each of which takes something, when
\* left more of them may be taken.
TurnOrStop(rep, f, next, left, w) ==
  LET stop == IF rep.max - left >= rep.min THEN <<w>> ELSE << >>
      more == IF left = 0 THEN << >> ELSE Each(f[w], Taking(w, next))
  IN IF rep.greedy THEN more \o stop ELSE stop \o more
Turns(rep, f) ==
  LET go[left \in 0..rep.max] == [w \in Way |-> TurnOrStop(rep, f, go[left - 1], left, w)] IN go

Captured(node, from, w) == IF Captures(node) THEN [w EXCEPT !.caps[node.index] = <<from, w.pos>>] ELSE w

WaysGiven(ways, node) ==
  CASE node.n \in {"char", "any", "class"} ->
         [w \in Way |-> IF w.pos < Len(text) /\ Accepts(node, text[w.pos + 1])
                        THEN <<[w EXCEPT !.pos = @ + 1]>> ELSE << >>]
    [] node.n \in {"empty", "start", "end", "boundary"} ->
         [w \in Way |-> IF AtPlace(node, w.pos) THEN <<w>> ELSE << >>]
    [] node.n = "group" ->
         [w \in Way |-> Each(ways[node.inner][w], [v \in Way |-> <<Captured(node, w.pos, v)>>])]
    [] node.n = "concat" -> [w \in Way |-> Through([i \in DOMAIN node.parts |-> ways[node.parts[i]]], w)]
    [] node.n = "alt" -> [w \in Way |-> Each(node.arms, [arm \in Under(node) |-> ways[arm][w]])]
    [] node.n = "repeat" -> Turns(node, ways[node.inner])[node.max]
Ways[node \in Nodes] == WaysGiven(Ways, node)

(***************************************************************************)
(* Properties.                                                             *)
(***************************************************************************)
\* A search finds something exactly when the pattern can match a piece of the
\* text, and then at the first place where it can.
LeftmostFound ==
  LET starts == {span[1] : span \in Spans[re.root]}
  IN /\ mode = "none" => starts = {}
     /\ mode = "found" => start \in starts /\ \A s \in starts : start <= s
                          /\ <<start, pos>> \in Spans[re.root]

\* Of the matches that start there it is the one the pattern prefers (longest
\* for a greedy repeat, shortest for a lazy one, the earliest arm), and its
\* groups hold what that match captured: nothing an abandoned path wrote.
PreferredMatch ==
  mode = "found" =>
    LET ways == Ways[re.root][[pos |-> start, caps |-> NoCaps]]
    IN ways # << >> /\ ways[1] = [pos |-> pos, caps |-> caps]
=============================================================================
