----------------------------- MODULE RegexProofs -----------------------------
(***************************************************************************)
(* What a search reports, for every pattern and every text.                *)
(*                                                                         *)
(* Its spans are in the text: what is left to match remembers where its    *)
(* groups were opened, and what waits for a failure remembers the position *)
(* to go back to and the spans to restore; all of these lie in order.      *)
(*                                                                         *)
(* And it is the match the pattern prefers.  What is left to match, k, and *)
(* what waits for a failure, alts, are given ways like a node's; together  *)
(* they are all that an attempt can still come to.  No step but the one    *)
(* that gives up changes that: it is, from the first to the last, what the *)
(* pattern comes to where the attempt started.  That the captures are one  *)
(* array every path writes does no harm, because a group that is still to  *)
(* be closed does not depend on what its slot holds, and whoever waits     *)
(* below it either restores the slot or closes the group again.            *)
(***************************************************************************)
EXTENDS RegexMeaning, SequenceTheorems, WellFoundedInduction, TLAPS

(***************************************************************************)
(* Induction, on sets, and functions defined by it.                        *)
(***************************************************************************)
\* A set of naturals has a least element.
LEMMA LeastElement ==
  ASSUME NEW N, N \subseteq Nat, N # {}
  PROVE  \E m \in N : \A l \in N : m <= l
<1> DEFINE R == OpToRel(<, Nat)
<1>1. IsWellFoundedOn(R, Nat) BY NatLessThanWellFounded
<1>2. \A m, l \in Nat : l < m => <<l, m>> \in R BY DEF OpToRel
<1> HIDE DEF R
<1>3. PICK m \in N : \A l \in N : ~(<<l, m>> \in R) BY <1>1, WFMin
<1>4. \A l \in N : ~(l < m) BY <1>2, <1>3
<1> QED BY <1>3, <1>4

\* A set with 0 and the successor of each of its naturals has them all.
LEMMA EveryNat ==
  ASSUME NEW P, 0 \in P, \A n \in Nat : n \in P => n + 1 \in P
  PROVE  \A n \in Nat : n \in P
<1> DEFINE N == {n \in Nat : n \notin P}
<1> SUFFICES ASSUME N # {} PROVE FALSE OBVIOUS
<1>1. PICK m \in N : \A l \in N : m <= l BY LeastElement
<1>2. m # 0 /\ m - 1 \in Nat /\ m - 1 \in P BY <1>1
<1>3. (m - 1) + 1 \in P BY <1>2
<1> QED BY <1>1, <1>2, <1>3

\* A set with the empty sequence and every longer one of its sequences has them
\* all.
LEMMA EverySeq ==
  ASSUME NEW S, NEW P, << >> \in P, \A s \in Seq(S), x \in S : s \in P => Append(s, x) \in P
  PROVE  \A s \in Seq(S) : s \in P
<1> DEFINE N == {n \in Nat : \A s \in Seq(S) : Len(s) = n => s \in P}
<1>1. 0 \in N
  <2>1. \A s \in Seq(S) : Len(s) = 0 => s = << >> BY EmptySeq
  <2> QED BY <2>1
<1>2. ASSUME NEW n \in Nat, n \in N PROVE n + 1 \in N
  <2> SUFFICES ASSUME NEW s \in Seq(S), Len(s) = n + 1 PROVE s \in P BY <1>2
  <2>1. s # << >> BY <1>2
  <2>2. PICK t \in Seq(S), x \in S : s = Append(t, x) BY <2>1, SequenceEmptyOrAppend
  <2>3. Len(t) = n BY <2>2, AppendProperties, LenProperties
  <2> QED BY <1>2, <2>2, <2>3
<1> HIDE DEF N
<1>3. \A n \in Nat : n \in N BY <1>1, <1>2, EveryNat
<1> QED BY <1>3, LenProperties DEF N

\* Any value made of the one before it: a function on 0..n.
Chained(f, v, g, n) == f[0] = v /\ \A i \in 1..n : f[i] = g[<<i, f[i - 1]>>]

\* There is one.
LEMMA Chain ==
  ASSUME NEW V, NEW v \in V, NEW n \in Nat, NEW g \in [(1..n) \X V -> V]
  PROVE  \E f \in [0..n -> V] : Chained(f, v, g, n)
<1> DEFINE P == {m \in Nat : m <= n => \E f \in [0..m -> V] : Chained(f, v, g, m)}
<1>1. 0 \in P
  <2>1. [i \in 0..0 |-> v] \in [0..0 -> V] /\ Chained([i \in 0..0 |-> v], v, g, 0) BY DEF Chained
  <2> QED BY <2>1
<1>2. ASSUME NEW m \in Nat, m \in P PROVE m + 1 \in P
  <2> SUFFICES ASSUME m + 1 <= n PROVE \E f \in [0..(m + 1) -> V] : Chained(f, v, g, m + 1) OBVIOUS
  <2>1. PICK f \in [0..m -> V] : Chained(f, v, g, m) BY <1>2
  <2> DEFINE h == [i \in 0..(m + 1) |-> IF i = m + 1 THEN g[<<i, f[m]>>] ELSE f[i]]
  <2>2. \A i \in 0..m : i \in 0..(m + 1) /\ h[i] = f[i] BY <1>2
  <2>3. h[m + 1] = g[<<m + 1, f[m]>>] /\ f[m] \in V /\ m + 1 \in 1..n BY <1>2, <2>1
  <2>4. h[m + 1] \in V BY <2>3
  <2>5. h \in [0..(m + 1) -> V] BY <2>1, <2>3
  <2> HIDE DEF h
  <2>6. ASSUME NEW i \in 1..(m + 1) PROVE h[i] = g[<<i, h[i - 1]>>]
    <3>1. i - 1 \in 0..m /\ h[i - 1] = f[i - 1] BY <2>2
    <3>2. CASE i = m + 1 BY <2>3, <3>1, <3>2
    <3>3. CASE i # m + 1
      <4>1. i \in 1..m BY <3>3
      <4> QED BY <4>1, <2>1, <2>2, <3>1 DEF Chained
    <3> QED BY <3>2, <3>3
  <2>7. h[0] = v BY <2>1, <2>2 DEF Chained
  <2> QED BY <2>5, <2>6, <2>7 DEF Chained
<1> HIDE DEF P
<1>3. n \in P BY <1>1, <1>2, EveryNat
<1> QED BY <1>3 DEF P

(***************************************************************************)
(* Sequences.                                                              *)
(***************************************************************************)
\* What Append adds to a sequence.
LEMMA Appended ==
  ASSUME NEW S, NEW f \in Seq(S), NEW x \in S
  PROVE  /\ Append(f, x) \in Seq(S)
         /\ \A j \in DOMAIN Append(f, x) : (j \in DOMAIN f /\ Append(f, x)[j] = f[j]) \/ Append(f, x)[j] = x
OBVIOUS

\* A sequence without its last element.
LEMMA Shortened ==
  ASSUME NEW S, NEW f \in Seq(S), f # << >>
  PROVE  /\ Len(f) \in DOMAIN f /\ f[Len(f)] \in S
         /\ SubSeq(f, 1, Len(f) - 1) \in Seq(S)
         /\ \A j \in DOMAIN SubSeq(f, 1, Len(f) - 1) : j \in DOMAIN f /\ SubSeq(f, 1, Len(f) - 1)[j] = f[j]
OBVIOUS

\* Two elements put in front at once, or one after the other.
LEMMA TwoInFront ==
  ASSUME NEW S, NEW s \in Seq(S), NEW f \in S, NEW g \in S
  PROVE  <<f>> \o (<<g>> \o s) = <<f, g>> \o s
<1> DEFINE one == <<g>> \o s
           two == <<f>> \o one
           both == <<f, g>> \o s
<1>1. one \in Seq(S) /\ Len(one) = Len(s) + 1 /\ \A i \in 1..Len(one) : one[i] = IF i = 1 THEN g ELSE s[i - 1]
  OBVIOUS
<1>2. both \in Seq(S) /\ Len(both) = Len(s) + 2
      /\ \A i \in 1..Len(both) : both[i] = IF i = 1 THEN f ELSE IF i = 2 THEN g ELSE s[i - 2]
  OBVIOUS
<1> HIDE DEF one
<1>3. two \in Seq(S) /\ Len(two) = Len(one) + 1 /\ \A i \in 1..Len(two) : two[i] = IF i = 1 THEN f ELSE one[i - 1]
  BY <1>1
<1> HIDE DEF two, both
<1>4. Len(s) \in Nat OBVIOUS
<1>5. Len(two) = Len(both) BY <1>1, <1>2, <1>3
<1>6. ASSUME NEW i \in 1..Len(two) PROVE two[i] = both[i]
  <2>1. CASE i = 1 BY <1>2, <1>3, <1>5, <2>1
  <2>2. CASE i # 1
    <3>1. two[i] = one[i - 1] /\ i - 1 \in 1..Len(one) BY <1>1, <1>3, <1>4, <2>2
    <3>2. one[i - 1] = IF i = 2 THEN g ELSE s[i - 2] BY <1>1, <1>4, <3>1
    <3> QED BY <1>2, <1>5, <2>2, <3>1, <3>2
  <2> QED BY <2>1, <2>2
<1>7. two = both BY <1>2, <1>3, <1>5, <1>6
<1> QED BY <1>7 DEF two, both, one

\* A sequence is its first element and the others.
LEMMA HeadTail ==
  ASSUME NEW S, NEW s \in Seq(S), s # << >>
  PROVE  Head(s) \in S /\ Tail(s) \in Seq(S) /\ s = <<Head(s)>> \o Tail(s)
<1> DEFINE x == Head(s)
           t == Tail(s)
           q == <<x>> \o t
<1>1. x \in S /\ t \in Seq(S) /\ Len(t) = Len(s) - 1 /\ Len(s) \in Nat /\ Len(s) # 0
      /\ x = s[1] /\ \A j \in 1..Len(t) : t[j] = s[j + 1]
  OBVIOUS
<1> HIDE DEF x, t
<1>2. q \in Seq(S) /\ Len(q) = Len(t) + 1 /\ \A j \in 1..Len(q) : q[j] = IF j = 1 THEN x ELSE t[j - 1] BY <1>1
<1> HIDE DEF q
<1>3. ASSUME NEW j \in 1..Len(s) PROVE s[j] = q[j]
  <2>1. CASE j = 1 BY <1>1, <1>2, <2>1
  <2>2. CASE j # 1
    <3>1. j - 1 \in 1..Len(t) /\ (j - 1) + 1 = j /\ j \in 1..Len(q) BY <1>1, <1>2, <2>2
    <3> QED BY <1>1, <1>2, <2>2, <3>1
  <2> QED BY <2>1, <2>2
<1>4. s = q BY <1>1, <1>2, <1>3, SeqEqual
<1> QED BY <1>1, <1>4 DEF q, x, t

(***************************************************************************)
(* The spans of a match.                                                   *)
(***************************************************************************)
Slots == {<< >>} \cup (Nat \X Nat)
Closing == [n : {"close"}, index : Nat, from : Nat]
Repeating == [n : {"again"}, rep : {n \in Nodes : n.n = "repeat"}, done : Nat, from : Nat]
Pending == Nodes \cup Closing \cup Repeating

\* What is left to match at p: its groups were opened between lo and p.
Opened(s, lo, p) ==
  /\ s \in Seq(Pending)
  /\ \A i \in DOMAIN s : s[i].n = "close" => lo <= s[i].from /\ s[i].from <= p

Within(span, lo, hi) == span # << >> => lo <= span[1] /\ span[1] <= span[2] /\ span[2] <= hi

Restores == [a : {"undo"}, index : Nat, span : Slots]
Branches == [a : {"arm"}, arms : Seq(Nodes), pos : Nat, k : Seq(Pending)]
Resumes == [a : {"stop", "more"}, pos : Nat, k : Seq(Pending)]
Choices == Restores \cup Branches \cup Resumes

Sound(alt, lo, hi) ==
  /\ alt.a = "undo" => Within(alt.span, lo, hi)
  /\ alt.a \in {"arm", "stop", "more"} => lo <= alt.pos /\ alt.pos <= hi /\ Opened(alt.k, lo, alt.pos)

Waiting(ws, lo, hi) == ws \in Seq(Choices) /\ \A j \in DOMAIN ws : Sound(ws[j], lo, hi)

Recorded(c, lo, hi) ==
  /\ c \in [1..Groups -> Slots]
  /\ \A i \in 1..Groups : Within(c[i], lo, hi)

IInv ==
  /\ re \in Patterns /\ text \in Texts
  /\ start \in Nat /\ pos \in Nat
  /\ start <= pos /\ pos <= Len(text)
  /\ Opened(k, start, pos)
  /\ Recorded(caps, start, Len(text))
  /\ Waiting(alts, start, Len(text))

\* A node is no frame, and its parts are nodes.
LEMMA NodesFacts ==
  ASSUME NEW n \in Nodes
  PROVE  /\ n.n \notin {"close", "again"} /\ n \in Pending
         /\ n.n \in {"group", "repeat"} => n.inner \in Nodes
         /\ n.n = "concat" => n.parts \in Seq(Nodes)
         /\ n.n = "alt" => n.arms \in Seq(Nodes) /\ n.arms # << >>
         /\ n.n = "group" => n.index \in 0..Groups
BY NodesAssumption DEF Kinds, Pending

\* What is left after the first item, wherever the matcher has got to.
LEMMA OpenedTail ==
  ASSUME NEW s, NEW lo \in Nat, NEW p \in Nat, NEW q \in Nat, p <= q, Opened(s, lo, p), s # << >>
  PROVE  Opened(Tail(s), lo, q) /\ Head(s) \in Pending
<1>1. s \in Seq(Pending) BY DEF Opened
<1>2. Tail(s) \in Seq(Pending) /\ Head(s) \in Pending BY <1>1
<1>3. \A i \in DOMAIN Tail(s) : i + 1 \in DOMAIN s /\ Tail(s)[i] = s[i + 1] BY <1>1
<1>4. \A i \in DOMAIN s : s[i] \in Pending BY <1>1
<1>5. \A i \in DOMAIN s : s[i].n = "close" => s[i].from \in Nat
  BY <1>4, NodesFacts DEF Pending, Closing, Repeating
<1> QED BY <1>2, <1>3, <1>5 DEF Opened

\* An item put in front.
LEMMA OpenedOne ==
  ASSUME NEW s, NEW lo \in Nat, NEW p \in Nat, Opened(s, lo, p),
         NEW f \in Pending, f.n # "close" \/ (lo <= f.from /\ f.from <= p)
  PROVE  Opened(<<f>> \o s, lo, p)
<1>1. s \in Seq(Pending) BY DEF Opened
<1> DEFINE t == <<f>> \o s
<1>2. t \in Seq(Pending) BY <1>1
<1>3. \A i \in DOMAIN t : t[i] = IF i = 1 THEN f ELSE s[i - 1] BY <1>1
<1>4. \A i \in DOMAIN t : i # 1 => i - 1 \in DOMAIN s BY <1>1
<1> HIDE DEF t
<1>5. \A i \in DOMAIN t : t[i].n = "close" => lo <= t[i].from /\ t[i].from <= p
  BY <1>3, <1>4 DEF Opened
<1> QED BY <1>2, <1>5 DEF Opened, t

\* Two items put in front.
LEMMA OpenedTwo ==
  ASSUME NEW s, NEW lo \in Nat, NEW p \in Nat, Opened(s, lo, p),
         NEW f \in Nodes, NEW g \in Pending, g.n # "close" \/ (lo <= g.from /\ g.from <= p)
  PROVE  Opened(<<f, g>> \o s, lo, p)
<1>1. Opened(<<g>> \o s, lo, p) BY OpenedOne
<1>2. Opened(<<f>> \o (<<g>> \o s), lo, p) BY <1>1, OpenedOne, NodesFacts
<1>3. s \in Seq(Pending) /\ f \in Pending BY NodesFacts DEF Opened
<1>4. <<f>> \o (<<g>> \o s) = <<f, g>> \o s BY ONLY <1>3, g \in Pending, TwoInFront
<1> QED BY <1>2, <1>4

\* Nodes put in front.
LEMMA OpenedNodes ==
  ASSUME NEW s, NEW lo \in Nat, NEW p \in Nat, Opened(s, lo, p), NEW ns \in Seq(Nodes)
  PROVE  Opened(ns \o s, lo, p)
<1>1. s \in Seq(Pending) /\ ns \in Seq(Pending)
  <2>1. \A i \in DOMAIN ns : ns[i] \in Pending BY DEF Pending
  <2> QED BY <2>1 DEF Opened
<1> DEFINE t == ns \o s
<1>2. t \in Seq(Pending) BY <1>1
<1>3. \A i \in DOMAIN t : t[i] = IF i <= Len(ns) THEN ns[i] ELSE s[i - Len(ns)] BY <1>1
<1>4. \A i \in DOMAIN t : IF i <= Len(ns) THEN i \in DOMAIN ns ELSE i - Len(ns) \in DOMAIN s BY <1>1
<1>5. \A i \in DOMAIN ns : ns[i].n # "close" BY NodesFacts
<1> HIDE DEF t
<1>6. \A i \in DOMAIN t : t[i].n = "close" => lo <= t[i].from /\ t[i].from <= p
  BY <1>3, <1>4, <1>5 DEF Opened
<1> QED BY <1>2, <1>6 DEF Opened, t

\* One more thing to do on failure.
LEMMA WaitingMore ==
  ASSUME NEW ws, NEW lo, NEW hi, Waiting(ws, lo, hi), NEW w \in Choices, Sound(w, lo, hi)
  PROVE  Waiting(Append(ws, w), lo, hi)
<1>1. ws \in Seq(Choices) BY DEF Waiting
<1>2. /\ Append(ws, w) \in Seq(Choices)
      /\ \A j \in DOMAIN Append(ws, w) : (j \in DOMAIN ws /\ Append(ws, w)[j] = ws[j]) \/ Append(ws, w)[j] = w
  BY ONLY <1>1, w \in Choices, Appended
<1> QED BY <1>2 DEF Waiting

\* The innermost, and the others.
LEMMA WaitingLess ==
  ASSUME NEW ws, NEW lo, NEW hi, Waiting(ws, lo, hi), ws # << >>
  PROVE  /\ ws[Len(ws)] \in Choices /\ Sound(ws[Len(ws)], lo, hi)
         /\ Waiting(SubSeq(ws, 1, Len(ws) - 1), lo, hi)
<1>1. ws \in Seq(Choices) BY DEF Waiting
<1>2. /\ Len(ws) \in DOMAIN ws /\ ws[Len(ws)] \in Choices
      /\ SubSeq(ws, 1, Len(ws) - 1) \in Seq(Choices)
      /\ \A j \in DOMAIN SubSeq(ws, 1, Len(ws) - 1) : j \in DOMAIN ws /\ SubSeq(ws, 1, Len(ws) - 1)[j] = ws[j]
  BY ONLY <1>1, ws # << >>, Shortened
<1> QED BY <1>2 DEF Waiting

\* A span set in the captures.
LEMMA RecordedSet ==
  ASSUME NEW c, NEW lo, NEW hi, Recorded(c, lo, hi), NEW index, NEW span \in Slots, Within(span, lo, hi)
  PROVE  Recorded([c EXCEPT ![index] = span], lo, hi)
BY DEF Recorded

\* Where the text ends.
LEMMA TextFacts == ASSUME NEW t \in Texts PROVE Len(t) \in Nat
BY TextsAssumption

(***************************************************************************)
(* The steps.                                                              *)
(***************************************************************************)
LEMMA InitInv == ASSUME Init PROVE IInv
<1>1. re.root \in Nodes BY PatternsAssumption DEF Init
<1>2. re.root \in Pending /\ re.root.n # "close" BY <1>1, NodesFacts
<1>3. <<re.root>> \in Seq(Pending) /\ \A i \in DOMAIN <<re.root>> : <<re.root>>[i] = re.root BY <1>2
<1>4. Opened(k, start, pos) BY <1>2, <1>3 DEF Init, Opened
<1>5. Recorded(caps, start, Len(text)) BY DEF Init, Recorded, NoCaps, Within, Slots
<1>6. Waiting(alts, start, Len(text)) BY DEF Init, Waiting
<1> QED BY <1>4, <1>5, <1>6, TextFacts DEF Init, IInv

\* The head of k, and what is behind it, wherever the matcher goes on from.
LEMMA Ahead ==
  ASSUME IInv, k # << >>
  PROVE  /\ Node \in Pending /\ Opened(Rest, start, pos)
         /\ pos + 1 <= Len(text) => Opened(Rest, start, pos + 1)
         /\ Node.n \in Kinds => Node \in Nodes
         /\ Node.n = "close" => Node \in Closing /\ start <= Node.from /\ Node.from <= pos
         /\ Node.n = "again" => Node \in Repeating
<1>1. Node \in Pending /\ Opened(Rest, start, pos) /\ Opened(Rest, start, pos + 1)
  BY OpenedTail DEF IInv, Node, Rest
<1>2. Node = k[1] /\ 1 \in DOMAIN k BY DEF IInv, Opened, Node
<1>3. \A n \in Nodes : n.n \notin {"close", "again"} BY NodesFacts
<1> QED BY <1>1, <1>2, <1>3 DEF IInv, Opened, Pending, Closing, Repeating, Kinds

\* A character is taken, or refused.
LEMMA ConsumeInv == ASSUME IInv, Consume PROVE IInv'
<1>1. CASE pos < Len(text) /\ Accepts(Node, text[pos + 1])
  <2>1. Len(text) \in Nat BY TextFacts DEF IInv
  <2>2. pos + 1 \in Nat /\ start <= pos + 1 /\ pos + 1 <= Len(text) BY <1>1, <2>1 DEF IInv
  <2>3. Opened(Rest, start, pos + 1) BY <2>2, Ahead DEF Consume, Visit
  <2> QED BY <1>1, <2>2, <2>3 DEF Consume, Visit, IInv, Recorded
<1>2. CASE ~(pos < Len(text) /\ Accepts(Node, text[pos + 1]))
  BY <1>2 DEF Consume, Visit, Fails, IInv, Recorded
<1> QED BY <1>1, <1>2

\* An anchor or a boundary moves nothing.
LEMMA AnchorInv == ASSUME IInv, Anchor PROVE IInv'
BY Ahead DEF Anchor, Visit, Fails, IInv, Recorded

\* The parts come before the rest.
LEMMA ConcatInv == ASSUME IInv, Concat PROVE IInv'
<1>1. Node \in Nodes /\ Node.parts \in Seq(Nodes) /\ Opened(Rest, start, pos)
  BY Ahead, NodesFacts DEF Concat, Visit, Kinds
<1>2. Opened(k', start, pos) BY <1>1, OpenedNodes DEF IInv, Concat
<1> QED BY <1>2 DEF Concat, Visit, IInv, Recorded

\* A group remembers where it began, and what to put back.
LEMMA OpenGroupInv == ASSUME IInv, OpenGroup PROVE IInv'
<1>1. Node \in Nodes /\ Node.inner \in Nodes /\ Node.index \in 0..Groups /\ Opened(Rest, start, pos)
  BY Ahead, NodesFacts DEF OpenGroup, Visit, Kinds
<1> DEFINE g == [n |-> "close", index |-> Node.index, from |-> pos]
           w == [a |-> "undo", index |-> Node.index, span |-> caps[Node.index]]
<1>2. Opened(<<Node.inner, g>> \o Rest, start, pos)
  BY <1>1, g \in Pending, OpenedTwo, BoundsAssumption DEF IInv, Pending, Closing
<1>3. Opened(<<Node.inner>> \o Rest, start, pos) BY <1>1, NodesFacts, OpenedOne DEF IInv
<1>4. Opened(k', start, pos) BY <1>2, <1>3 DEF OpenGroup
<1>5. Captures(Node) => alts' = Append(alts, w) BY DEF OpenGroup
<1>6. Captures(Node) => w \in Choices /\ Sound(w, start, Len(text))
  <2>1. Captures(Node) => Node.index \in Nat /\ Node.index \in 1..Groups
    BY <1>1, BoundsAssumption DEF Captures
  <2>2. Captures(Node) => caps[Node.index] \in Slots /\ Within(caps[Node.index], start, Len(text))
    BY <2>1 DEF IInv, Recorded
  <2> HIDE DEF Slots
  <2>3. Captures(Node) => w \in Restores BY <2>1, <2>2 DEF Restores
  <2> QED BY <2>2, <2>3 DEF Sound, Choices
<1> HIDE DEF w
<1>7. Waiting(alts, start, Len(text)) BY DEF IInv
<1>8. Captures(Node) => Waiting(Append(alts, w), start, Len(text)) BY <1>6, <1>7, WaitingMore
<1>9. Waiting(alts', start, Len(text)) BY <1>5, <1>7, <1>8 DEF OpenGroup
<1> QED BY <1>4, <1>9 DEF OpenGroup, Visit, IInv, Recorded

\* The first arm is tried and the others wait.
LEMMA AltInv == ASSUME IInv, Alt PROVE IInv'
<1>1. Node \in Nodes /\ Node.arms \in Seq(Nodes) /\ Node.arms # << >> /\ Opened(Rest, start, pos)
  BY Ahead, NodesFacts DEF Alt, Visit, Kinds
<1>2. Head(Node.arms) \in Nodes /\ Tail(Node.arms) \in Seq(Nodes) BY <1>1
<1>3. Opened(k', start, pos) BY <1>1, <1>2, OpenedOne, NodesFacts DEF IInv, Alt
<1>4. Arm(Tail(Node.arms), Rest) \in Choices BY <1>1, <1>2 DEF Arm, Choices, Branches, IInv, Opened
<1>5. Sound(Arm(Tail(Node.arms), Rest), start, Len(text)) BY <1>1 DEF Arm, Sound, IInv
<1>6. Waiting(alts', start, Len(text)) BY <1>4, <1>5, WaitingMore DEF Alt, IInv
<1> QED BY <1>3, <1>6 DEF Alt, Visit, IInv, Recorded

\* match_repeat.
LEMMA IterateInv ==
  ASSUME IInv, NEW rep \in Nodes, rep.n = "repeat", NEW done \in Nat, NEW pending,
         Opened(pending, start, pos), Iterate(rep, done, pending)
  PROVE  Opened(k', start, pos) /\ Waiting(alts', start, Len(text))
<1> DEFINE g == [n |-> "again", rep |-> rep, done |-> done, from |-> pos]
           stop == [a |-> "stop", pos |-> pos, k |-> pending]
           more == [a |-> "more", pos |-> pos, k |-> Turn(rep, done, pos, pending)]
<1>1. g \in Pending /\ g.n # "close" /\ rep.inner \in Nodes BY NodesFacts DEF IInv, Pending, Repeating
<1>2. Opened(Turn(rep, done, pos, pending), start, pos) BY <1>1, OpenedTwo DEF Turn, IInv
<1>3. \A s : Opened(s, start, pos) =>
        [a |-> "stop", pos |-> pos, k |-> s] \in Choices /\ [a |-> "more", pos |-> pos, k |-> s] \in Choices
  BY DEF Opened, Choices, Resumes, IInv
<1>4. stop \in Choices /\ more \in Choices BY <1>2, <1>3
<1>5. Sound(stop, start, Len(text)) /\ Sound(more, start, Len(text)) BY <1>2 DEF Sound, IInv
<1>6. Waiting(Append(alts, stop), start, Len(text)) /\ Waiting(Append(alts, more), start, Len(text))
  BY <1>4, <1>5, WaitingMore DEF IInv
<1> QED BY <1>2, <1>6 DEF Iterate, Greedy, Lazy, IInv

\* A repeat at its first turn.
LEMMA RepeatInv == ASSUME IInv, Repeat PROVE IInv'
<1>1. Node \in Nodes /\ Node.n = "repeat" /\ Opened(Rest, start, pos)
  BY Ahead DEF Repeat, Visit, Kinds
<1>2. Opened(k', start, pos) /\ Waiting(alts', start, Len(text)) BY <1>1, IterateInv DEF Repeat
<1> QED BY <1>2 DEF Repeat, Visit, IInv, Recorded

\* A repeat after a turn.
LEMMA AgainInv == ASSUME IInv, Again PROVE IInv'
<1>1. Node.rep \in Nodes /\ Node.rep.n = "repeat" /\ Node.done + 1 \in Nat /\ Opened(Rest, start, pos)
  BY Ahead DEF Again, Continue, Repeating
<1>2. Opened(k', start, pos) /\ Waiting(alts', start, Len(text)) BY <1>1, IterateInv DEF Again, IInv
<1> QED BY <1>2 DEF Again, Continue, IInv, Recorded

\* A group is captured from where it began.
LEMMA CloseGroupInv == ASSUME IInv, CloseGroup PROVE IInv'
<1>1. Node \in Closing /\ start <= Node.from /\ Node.from <= pos /\ Opened(Rest, start, pos)
  BY Ahead DEF CloseGroup, Continue
<1>2. <<Node.from, pos>> \in Slots /\ Within(<<Node.from, pos>>, start, Len(text))
  BY <1>1 DEF Slots, Within, IInv, Closing
<1>3. Recorded(caps', start, Len(text)) BY <1>2, RecordedSet DEF CloseGroup, SpanFrom, IInv
<1> QED BY <1>1, <1>3 DEF CloseGroup, Continue, IInv, Recorded

\* What the latest of alts remembers.
LEMMA LatestFacts ==
  ASSUME IInv, alts # << >>
  PROVE  /\ Latest \in Choices /\ Sound(Latest, start, Len(text)) /\ Waiting(Others, start, Len(text))
         /\ Latest.a = "undo" => Latest \in Restores
         /\ Latest.a = "arm" => Latest \in Branches
         /\ Latest.a \in {"stop", "more"} => Latest \in Resumes
<1>1. Latest \in Choices /\ Sound(Latest, start, Len(text)) /\ Waiting(Others, start, Len(text))
  BY WaitingLess DEF IInv, Latest, Others
<1> QED BY <1>1 DEF Choices, Restores, Branches, Resumes

\* A capture is put back on the way out of a failed path.
LEMMA UndoInv == ASSUME IInv, Undo PROVE IInv'
<1>1. Latest.span \in Slots /\ Within(Latest.span, start, Len(text)) /\ Waiting(Others, start, Len(text))
  BY LatestFacts DEF Undo, Back, Restores, Sound
<1>2. Recorded(caps', start, Len(text)) BY <1>1, RecordedSet DEF Undo, Restored, IInv
<1> QED BY <1>1, <1>2 DEF Undo, Back, IInv, Recorded

\* The other choice of a repeat, from where it waited.
LEMMA StopOrMoreInv == ASSUME IInv, StopOrMore PROVE IInv'
<1>1. /\ Latest.pos \in Nat /\ start <= Latest.pos /\ Latest.pos <= Len(text)
      /\ Opened(Latest.k, start, Latest.pos) /\ Waiting(Others, start, Len(text))
  BY LatestFacts DEF StopOrMore, Back, Resumes, Sound
<1> QED BY <1>1 DEF StopOrMore, Back, IInv, Recorded

\* The next arm, from where the first began.
LEMMA NextArmInv == ASSUME IInv, NextArm PROVE IInv'
<1>1. /\ Latest \in Branches /\ Latest.pos \in Nat /\ start <= Latest.pos /\ Latest.pos <= Len(text)
      /\ Latest.a = "arm" /\ Opened(Latest.k, start, Latest.pos) /\ Waiting(Others, start, Len(text))
  BY LatestFacts DEF NextArm, Back, Branches, Sound
<1>2. CASE Latest.arms = << >>
  BY <1>1, <1>2 DEF NextArm, Back, IInv, Recorded
<1>3. CASE Latest.arms # << >>
  <2> DEFINE w == [Latest EXCEPT !.arms = Tail(@)]
  <2>1. Head(Latest.arms) \in Nodes /\ Tail(Latest.arms) \in Seq(Nodes) BY <1>1, <1>3 DEF Branches
  <2>2. w \in Choices /\ Sound(w, start, Len(text)) BY <1>1, <2>1 DEF Branches, Choices, Sound
  <2>3. Waiting(alts', start, Len(text)) BY <1>1, <1>3, <2>2, WaitingMore DEF NextArm
  <2>4. Opened(k', start, pos') BY <1>1, <1>3, <2>1, OpenedOne, NodesFacts DEF NextArm, IInv
  <2> QED BY <1>1, <2>3, <2>4 DEF NextArm, Back, IInv, Recorded
<1> QED BY <1>2, <1>3

\* The next place, with no captures.
LEMMA NextStartInv == ASSUME IInv, NextStart PROVE IInv'
<1>1. CASE start < Len(text)
  <2>1. re.root \in Nodes BY PatternsAssumption DEF IInv
  <2>2. re.root \in Pending /\ re.root.n # "close" BY <2>1, NodesFacts
  <2>3. <<re.root>> \in Seq(Pending) /\ \A i \in DOMAIN <<re.root>> : <<re.root>>[i] = re.root BY <2>2
  <2>4. Opened(k', start', pos') BY <1>1, <2>2, <2>3 DEF NextStart, Opened
  <2>5. Recorded(caps, start, Len(text))' BY <1>1 DEF NextStart, Recorded, NoCaps, Within, Slots
  <2>6. Waiting(alts', start', Len(text)) BY <1>1 DEF NextStart, Waiting
  <2> QED BY <1>1, <2>4, <2>5, <2>6, TextFacts DEF NextStart, IInv
<1>2. CASE ~(start < Len(text)) BY <1>2 DEF NextStart, IInv, Recorded
<1> QED BY <1>1, <1>2

\* Every step keeps the spans, the groups still open and the spans to restore
\* in order.
LEMMA NextInv == ASSUME IInv, [Next]_vars PROVE IInv'
<1>1. CASE GiveUp BY <1>1 DEF GiveUp, IInv, Recorded
<1>2. CASE Accept BY <1>2 DEF Accept, IInv, Recorded
<1>3. CASE UNCHANGED vars BY <1>3 DEF vars, IInv, Recorded
<1> QED BY <1>1, <1>2, <1>3, ConsumeInv, AnchorInv, OpenGroupInv, ConcatInv, AltInv, RepeatInv,
           CloseGroupInv, AgainInv, UndoInv, NextArmInv, StopOrMoreInv, NextStartInv DEF Next

\* Whatever the pattern, the text and the limit: the match a search reports and
\* the span of each of its groups can be sliced out of the text.
THEOREM SpansSliceable == Spec => []SpansInText
<1>1. Init => IInv BY InitInv
<1>2. IInv /\ [Next]_vars => IInv' BY NextInv
<1>3. IInv => SpansInText BY DEF IInv, Recorded, Within, SpansInText
<1> QED BY <1>1, <1>2, <1>3, PTL DEF Spec

(***************************************************************************)
(* What Each and Through make of sequences.                                *)
(***************************************************************************)
\* From elements of A to sequences of B.
Maps(A, B) == [A -> Seq(B)]

\* What f makes of the first elements of s, for each number of them.
Gathers(u, s, f, B) ==
  /\ u \in [0..Len(s) -> Seq(B)]
  /\ u[0] = << >> /\ \A i \in 1..Len(s) : u[i] = u[i - 1] \o f[s[i]]

\* A map maps.
LEMMA MapsTo == ASSUME NEW A, NEW B, NEW f \in Maps(A, B), NEW x \in A PROVE f[x] \in Seq(B)
BY DEF Maps

\* Each is the end of a chain.
LEMMA EachChain ==
  ASSUME NEW A, NEW B, NEW s \in Seq(A), NEW f \in Maps(A, B)
  PROVE  \E u : Gathers(u, s, f, B) /\ Each(s, f) = u[Len(s)]
<1> DEFINE n == Len(s)
           g == [x \in (1..n) \X Seq(B) |-> x[2] \o f[s[x[1]]]]
           upto[i \in 0..n] == IF i = 0 THEN << >> ELSE upto[i - 1] \o f[s[i]]
<1>1. n \in Nat /\ \A i \in 1..n : s[i] \in A BY LenProperties, ElementOfSeq
<1>2. g \in [(1..n) \X Seq(B) -> Seq(B)]
  <2>1. ASSUME NEW x \in (1..n) \X Seq(B) PROVE x[2] \o f[s[x[1]]] \in Seq(B)
    <3>1. x[2] \in Seq(B) /\ f[s[x[1]]] \in Seq(B) BY <1>1, MapsTo
    <3> QED BY <3>1, ConcatProperties
  <2> QED BY <2>1
<1>3. << >> \in Seq(B) BY EmptySeq
<1>4. PICK u \in [0..n -> Seq(B)] : Chained(u, << >>, g, n)
  <2> HIDE DEF g, n
  <2> QED BY <1>1, <1>2, <1>3, Chain
<1>5. u[0] = << >> /\ \A i \in 1..n : u[i] = u[i - 1] \o f[s[i]]
  <2>1. \A i \in 1..n : i - 1 \in 0..n BY <1>1
  <2>2. \A i \in 1..n : u[i - 1] \in Seq(B) BY <1>4, <2>1
  <2>3. \A i \in 1..n : g[<<i, u[i - 1]>>] = u[i - 1] \o f[s[i]] BY <2>2
  <2> HIDE DEF g
  <2> QED BY <1>4, <2>3 DEF Chained
<1>6. u = [i \in 0..n |-> IF i = 0 THEN << >> ELSE u[i - 1] \o f[s[i]]]
  <2>1. \A i \in 0..n : i # 0 => i \in 1..n BY <1>1
  <2> QED BY <1>5, <2>1
<1>7. upto = [i \in 0..n |-> IF i = 0 THEN << >> ELSE upto[i - 1] \o f[s[i]]] BY <1>6
<1>8. Each(s, f) = upto[n] BY DEF Each
<1>13. ASSUME NEW i \in 0..n PROVE upto[i] = IF i = 0 THEN << >> ELSE upto[i - 1] \o f[s[i]]
  <2> HIDE DEF upto
  <2> QED BY <1>7, Zenon
<1> HIDE DEF upto, g
<1> DEFINE P == {i \in Nat : i <= n => upto[i] = u[i]}
<1>9. 0 \in P BY <1>1, <1>5, <1>13
<1>10. ASSUME NEW i \in Nat, i \in P PROVE i + 1 \in P
  <2> SUFFICES ASSUME i + 1 <= n PROVE upto[i + 1] = u[i + 1] OBVIOUS
  <2>1. i + 1 \in 1..n /\ i + 1 \in 0..n /\ i + 1 # 0 /\ (i + 1) - 1 = i BY <1>1
  <2>2. upto[i + 1] = upto[(i + 1) - 1] \o f[s[i + 1]] BY <1>13, <2>1, Zenon
  <2>3. u[i + 1] = u[(i + 1) - 1] \o f[s[i + 1]] BY <1>5, <2>1
  <2>4. upto[i] = u[i] BY <1>1, <1>10, <2>1
  <2> QED BY <2>1, <2>2, <2>3, <2>4
<1> HIDE DEF P
<1>11. n \in P BY <1>1, <1>9, <1>10, EveryNat
<1>12. upto[n] = u[n] BY <1>11 DEF P
<1> QED BY <1>4, <1>5, <1>8, <1>12 DEF Gathers

\* A sequence, made one element at a time.
LEMMA EachGrows ==
  ASSUME NEW A, NEW B, NEW f \in Maps(A, B)
  PROVE  /\ Each(<< >>, f) = << >>
         /\ \A s \in Seq(A) : Each(s, f) \in Seq(B)
         /\ \A s \in Seq(A), x \in A : Each(Append(s, x), f) = Each(s, f) \o f[x]
<1>1. Each(<< >>, f) = << >>
  <2>1. << >> \in Seq(A) /\ Len(<< >>) = 0 BY EmptySeq
  <2>2. PICK u : Gathers(u, << >>, f, B) /\ Each(<< >>, f) = u[Len(<< >>)] BY <2>1, EachChain
  <2> QED BY <2>1, <2>2 DEF Gathers
<1>2. ASSUME NEW s \in Seq(A) PROVE Each(s, f) \in Seq(B)
  <2>1. PICK u : Gathers(u, s, f, B) /\ Each(s, f) = u[Len(s)] BY EachChain
  <2>2. Len(s) \in Nat BY LenProperties
  <2> QED BY <2>1, <2>2 DEF Gathers
<1>3. ASSUME NEW s \in Seq(A), NEW x \in A PROVE Each(Append(s, x), f) = Each(s, f) \o f[x]
  <2> DEFINE t == Append(s, x)
             n == Len(s)
  <2>1. n \in Nat /\ t \in Seq(A) /\ Len(t) = n + 1 /\ t[n + 1] = x /\ \A i \in 1..n : t[i] = s[i]
    BY LenProperties, AppendProperties
  <2> HIDE DEF t
  <2>2. PICK u : Gathers(u, s, f, B) /\ Each(s, f) = u[n] BY EachChain
  <2>3. PICK w : Gathers(w, t, f, B) /\ Each(t, f) = w[Len(t)] BY <2>1, EachChain
  <2> DEFINE P == {i \in Nat : i <= n => u[i] = w[i]}
  <2>4. 0 \in P BY <2>2, <2>3 DEF Gathers
  <2>5. ASSUME NEW i \in Nat, i \in P PROVE i + 1 \in P
    <3> SUFFICES ASSUME i + 1 <= n PROVE u[i + 1] = w[i + 1] OBVIOUS
    <3>1. i + 1 \in 1..n /\ i + 1 \in 1..Len(t) /\ (i + 1) - 1 = i BY <2>1
    <3>2. t[i + 1] = s[i + 1] /\ u[i] = w[i] BY <2>1, <2>5, <3>1
    <3> QED BY <2>2, <2>3, <3>1, <3>2 DEF Gathers
  <2> HIDE DEF P
  <2>6. n \in P BY <2>1, <2>4, <2>5, EveryNat
  <2>7. u[n] = w[n] BY <2>6 DEF P
  <2>8. w[n + 1] = w[n] \o f[x]
    <3>1. n + 1 \in 1..Len(t) /\ (n + 1) - 1 = n BY <2>1
    <3> QED BY <2>1, <2>3, <3>1 DEF Gathers
  <2> QED BY <2>1, <2>2, <2>3, <2>7, <2>8 DEF t
<1> QED BY <1>1, <1>2, <1>3

\* Two sequences, one behind the other.
LEMMA EachConcat ==
  ASSUME NEW A, NEW B, NEW f \in Maps(A, B), NEW s \in Seq(A)
  PROVE  \A t \in Seq(A) : Each(s \o t, f) = Each(s, f) \o Each(t, f)
<1> DEFINE P == {t \in Seq(A) : Each(s \o t, f) = Each(s, f) \o Each(t, f)}
<1>1. Each(s, f) \in Seq(B) BY EachGrows
<1>2. << >> \in P
  <2>1. Each(<< >>, f) = << >> BY EachGrows
  <2>2. s \o << >> = s /\ Each(s, f) \o << >> = Each(s, f) BY <1>1, ConcatEmptySeq
  <2> QED BY <2>1, <2>2, EmptySeq
<1>3. ASSUME NEW t \in Seq(A), NEW x \in A, t \in P PROVE Append(t, x) \in P
  <2>1. s \o Append(t, x) = Append(s \o t, x)
    <3>1. /\ Append(t, x) = t \o <<x>> /\ s \o t \in Seq(A) /\ <<x>> \in Seq(A)
      BY AppendIsConcat, ConcatProperties
    <3>2. Append(s \o t, x) = (s \o t) \o <<x>> BY <3>1, AppendIsConcat
    <3> QED BY <3>1, <3>2, ConcatAssociative
  <2>2. Each(Append(s \o t, x), f) = Each(s \o t, f) \o f[x] 
    <3>1. s \o t \in Seq(A) BY ConcatProperties
    <3> QED BY <3>1, EachGrows
  <2>3. Each(Append(t, x), f) = Each(t, f) \o f[x] BY EachGrows
  <2>4. Each(t, f) \in Seq(B) /\ f[x] \in Seq(B) BY EachGrows, MapsTo
  <2>5. (Each(s, f) \o Each(t, f)) \o f[x] = Each(s, f) \o (Each(t, f) \o f[x])
    <3>1. \A a, b, c \in Seq(B) : (a \o b) \o c = a \o (b \o c) BY ConcatAssociative
    <3> QED BY <1>1, <2>4, <3>1, Zenon
  <2>6. Append(t, x) \in Seq(A) BY AppendProperties
  <2> QED BY <1>3, <2>1, <2>2, <2>3, <2>5, <2>6
<1> HIDE DEF P
<1>4. \A t \in Seq(A) : t \in P BY <1>2, <1>3, EverySeq
<1> QED BY <1>4 DEF P

\* One element, and one in front.
LEMMA EachFirst ==
  ASSUME NEW A, NEW B, NEW f \in Maps(A, B), NEW x \in A
  PROVE  Each(<<x>>, f) = f[x] /\ \A t \in Seq(A) : Each(<<x>> \o t, f) = f[x] \o Each(t, f)
<1>1. << >> \in Seq(A) /\ Append(<< >>, x) = <<x>> /\ <<x>> \in Seq(A) BY EmptySeq
<1>2. Each(<<x>>, f) = << >> \o f[x] BY <1>1, EachGrows, ZenonT(60)
<1>3. << >> \o f[x] = f[x] BY MapsTo, ConcatEmptySeq
<1>4. \A t \in Seq(A) : Each(<<x>> \o t, f) = Each(<<x>>, f) \o Each(t, f) BY <1>1, EachConcat
<1> QED BY <1>2, <1>3, <1>4

\* Each of what each comes to.
LEMMA EachOfEach ==
  ASSUME NEW A, NEW B, NEW C, NEW f \in Maps(A, B), NEW g \in Maps(B, C)
  PROVE  \A s \in Seq(A) : Each(Each(s, f), g) = Each(s, [x \in A |-> Each(f[x], g)])
<1> DEFINE h == [x \in A |-> Each(f[x], g)]
           P == {s \in Seq(A) : Each(Each(s, f), g) = Each(s, h)}
<1>1. h \in Maps(A, C) BY MapsTo, EachGrows DEF Maps
<1>2. << >> \in P
  <2> HIDE DEF h
  <2>1. Each(<< >>, f) = << >> /\ Each(<< >>, g) = << >> /\ Each(<< >>, h) = << >> BY <1>1, EachGrows
  <2> QED BY <2>1, EmptySeq
<1>3. ASSUME NEW s \in Seq(A), NEW x \in A, s \in P PROVE Append(s, x) \in P
  <2>1. h[x] = Each(f[x], g) OBVIOUS
  <2> HIDE DEF h
  <2>2. Each(Append(s, x), f) = Each(s, f) \o f[x] /\ Each(s, f) \in Seq(B) BY EachGrows
  <2>3. Each(Each(s, f) \o f[x], g) = Each(Each(s, f), g) \o Each(f[x], g) BY <2>2, MapsTo, EachConcat
  <2>4. Each(Append(s, x), h) = Each(s, h) \o h[x] BY <1>1, EachGrows
  <2>5. Append(s, x) \in Seq(A) BY AppendProperties
  <2> QED BY <1>3, <2>1, <2>2, <2>3, <2>4, <2>5
<1> HIDE DEF P, h
<1>4. \A s \in Seq(A) : s \in P BY <1>2, <1>3, EverySeq
<1> QED BY <1>4 DEF P, h

\* The elements themselves.
LEMMA EachItself ==
  ASSUME NEW A
  PROVE  \A s \in Seq(A) : Each(s, [x \in A |-> <<x>>]) = s
<1> DEFINE one == [x \in A |-> <<x>>]
           P == {s \in Seq(A) : Each(s, one) = s}
<1>1. one \in Maps(A, A) /\ \A x \in A : one[x] = <<x>> BY DEF Maps
<1> HIDE DEF one
<1>2. << >> \in P BY <1>1, EachGrows, EmptySeq
<1>3. ASSUME NEW s \in Seq(A), NEW x \in A, s \in P PROVE Append(s, x) \in P
  <2>1. Each(Append(s, x), one) = Each(s, one) \o one[x] BY <1>1, EachGrows
  <2>2. Each(s, one) = s /\ one[x] = <<x>> BY <1>1, <1>3
  <2>3. Append(s, x) = s \o <<x>> /\ Append(s, x) \in Seq(A) BY AppendIsConcat, AppendProperties
  <2> QED BY <2>1, <2>2, <2>3
<1> HIDE DEF P
<1>4. \A s \in Seq(A) : s \in P BY <1>2, <1>3, EverySeq
<1> QED BY <1>4 DEF P, one

\* The ways from w after each number of fs.
Follows(u, fs, w, W) ==
  /\ u \in [0..Len(fs) -> Seq(W)]
  /\ u[0] = <<w>> /\ \A i \in 1..Len(fs) : u[i] = Each(u[i - 1], fs[i])

\* Through is the end of a chain.
LEMMA ThroughChain ==
  ASSUME NEW W, NEW fs \in Seq(Maps(W, W)), NEW w \in W
  PROVE  \E u : Follows(u, fs, w, W) /\ Through(fs, w) = u[Len(fs)]
<1> DEFINE n == Len(fs)
           g == [x \in (1..n) \X Seq(W) |-> Each(x[2], fs[x[1]])]
           upto[i \in 0..n] == IF i = 0 THEN <<w>> ELSE Each(upto[i - 1], fs[i])
<1>1. n \in Nat /\ \A i \in 1..n : fs[i] \in Maps(W, W) BY LenProperties, ElementOfSeq
<1>2. g \in [(1..n) \X Seq(W) -> Seq(W)]
  <2>1. ASSUME NEW x \in (1..n) \X Seq(W) PROVE Each(x[2], fs[x[1]]) \in Seq(W)
    <3>1. x[2] \in Seq(W) /\ fs[x[1]] \in Maps(W, W) BY <1>1
    <3> QED BY <3>1, EachGrows
  <2> QED BY <2>1
<1>3. <<w>> \in Seq(W) OBVIOUS
<1>4. PICK u \in [0..n -> Seq(W)] : Chained(u, <<w>>, g, n)
  <2> HIDE DEF g, n
  <2> QED BY <1>1, <1>2, <1>3, Chain
<1>5. u[0] = <<w>> /\ \A i \in 1..n : u[i] = Each(u[i - 1], fs[i])
  <2>1. \A i \in 1..n : i - 1 \in 0..n BY <1>1
  <2>2. \A i \in 1..n : u[i - 1] \in Seq(W) BY <1>4, <2>1
  <2>3. \A i \in 1..n : g[<<i, u[i - 1]>>] = Each(u[i - 1], fs[i]) BY <2>2
  <2> HIDE DEF g
  <2> QED BY <1>4, <2>3 DEF Chained
<1>6. u = [i \in 0..n |-> IF i = 0 THEN <<w>> ELSE Each(u[i - 1], fs[i])]
  <2>1. \A i \in 0..n : i # 0 => i \in 1..n BY <1>1
  <2> QED BY <1>5, <2>1
<1>7. upto = [i \in 0..n |-> IF i = 0 THEN <<w>> ELSE Each(upto[i - 1], fs[i])] BY <1>6
<1>8. Through(fs, w) = upto[n] BY DEF Through
<1>9. ASSUME NEW i \in 0..n PROVE upto[i] = IF i = 0 THEN <<w>> ELSE Each(upto[i - 1], fs[i])
  <2> HIDE DEF upto
  <2> QED BY <1>7, Zenon
<1> HIDE DEF upto, g
<1> DEFINE P == {i \in Nat : i <= n => upto[i] = u[i]}
<1>10. 0 \in P
  <2>1. 0 \in 0..n BY <1>1
  <2>2. upto[0] = <<w>> BY <1>9, <2>1, Zenon
  <2> QED BY <1>5, <2>2
<1>11. ASSUME NEW i \in Nat, i \in P PROVE i + 1 \in P
  <2> SUFFICES ASSUME i + 1 <= n PROVE upto[i + 1] = u[i + 1] OBVIOUS
  <2>1. i + 1 \in 1..n /\ i + 1 \in 0..n /\ i + 1 # 0 /\ (i + 1) - 1 = i BY <1>1
  <2>2. upto[i + 1] = Each(upto[(i + 1) - 1], fs[i + 1]) BY <1>9, <2>1, Zenon
  <2>3. u[i + 1] = Each(u[(i + 1) - 1], fs[i + 1]) BY <1>5, <2>1
  <2>4. upto[i] = u[i] BY <1>1, <1>11, <2>1
  <2> QED BY <2>1, <2>2, <2>3, <2>4
<1> HIDE DEF P
<1>12. n \in P BY <1>1, <1>10, <1>11, EveryNat
<1>13. upto[n] = u[n] BY <1>12 DEF P
<1> QED BY <1>4, <1>5, <1>8, <1>13 DEF Follows

\* One more to go through.
LEMMA ThroughGrows ==
  ASSUME NEW W, NEW w \in W
  PROVE  /\ Through(<< >>, w) = <<w>>
         /\ \A fs \in Seq(Maps(W, W)) : Through(fs, w) \in Seq(W)
         /\ \A fs \in Seq(Maps(W, W)), f \in Maps(W, W) : Through(Append(fs, f), w) = Each(Through(fs, w), f)
<1>1. Through(<< >>, w) = <<w>>
  <2>1. << >> \in Seq(Maps(W, W)) /\ Len(<< >>) = 0 BY EmptySeq
  <2>2. PICK u : Follows(u, << >>, w, W) /\ Through(<< >>, w) = u[Len(<< >>)] BY <2>1, ThroughChain
  <2> QED BY <2>1, <2>2 DEF Follows
<1>2. ASSUME NEW fs \in Seq(Maps(W, W)) PROVE Through(fs, w) \in Seq(W)
  <2>1. PICK u : Follows(u, fs, w, W) /\ Through(fs, w) = u[Len(fs)] BY ThroughChain
  <2>2. Len(fs) \in Nat BY LenProperties
  <2> QED BY <2>1, <2>2 DEF Follows
<1>3. ASSUME NEW fs \in Seq(Maps(W, W)), NEW f \in Maps(W, W)
      PROVE  Through(Append(fs, f), w) = Each(Through(fs, w), f)
  <2> DEFINE t == Append(fs, f)
             n == Len(fs)
  <2>1. n \in Nat /\ t \in Seq(Maps(W, W)) /\ Len(t) = n + 1 /\ t[n + 1] = f /\ \A i \in 1..n : t[i] = fs[i]
    BY LenProperties, AppendProperties
  <2> HIDE DEF t
  <2>2. PICK u : Follows(u, fs, w, W) /\ Through(fs, w) = u[n] BY ThroughChain
  <2>3. PICK v : Follows(v, t, w, W) /\ Through(t, w) = v[Len(t)] BY <2>1, ThroughChain
  <2> DEFINE P == {i \in Nat : i <= n => u[i] = v[i]}
  <2>4. 0 \in P BY <2>2, <2>3 DEF Follows
  <2>5. ASSUME NEW i \in Nat, i \in P PROVE i + 1 \in P
    <3> SUFFICES ASSUME i + 1 <= n PROVE u[i + 1] = v[i + 1] OBVIOUS
    <3>1. i + 1 \in 1..n /\ i + 1 \in 1..Len(t) /\ (i + 1) - 1 = i BY <2>1
    <3>2. t[i + 1] = fs[i + 1] /\ u[i] = v[i] BY <2>1, <2>5, <3>1
    <3> QED BY <2>2, <2>3, <3>1, <3>2 DEF Follows
  <2> HIDE DEF P
  <2>6. n \in P BY <2>1, <2>4, <2>5, EveryNat
  <2>7. u[n] = v[n] BY <2>6 DEF P
  <2>8. v[n + 1] = Each(v[n], f)
    <3>1. n + 1 \in 1..Len(t) /\ (n + 1) - 1 = n BY <2>1
    <3> QED BY <2>1, <2>3, <3>1 DEF Follows
  <2> QED BY <2>1, <2>2, <2>3, <2>7, <2>8 DEF t
<1> QED BY <1>1, <1>2, <1>3

\* As a map from a place and captures.
Walk(fs, W) == [w \in W |-> Through(fs, w)]

\* Which it is.
LEMMA WalkMaps ==
  ASSUME NEW W, NEW fs \in Seq(Maps(W, W))
  PROVE  Walk(fs, W) \in Maps(W, W) /\ \A w \in W : Walk(fs, W)[w] = Through(fs, w)
BY ThroughGrows DEF Walk, Maps

\* Some, and then others.
LEMMA ThroughConcat ==
  ASSUME NEW W, NEW w \in W, NEW fs \in Seq(Maps(W, W))
  PROVE  \A gs \in Seq(Maps(W, W)) : Through(fs \o gs, w) = Each(Through(fs, w), Walk(gs, W))
<1> DEFINE P == {gs \in Seq(Maps(W, W)) : Through(fs \o gs, w) = Each(Through(fs, w), Walk(gs, W))}
<1>1. Through(fs, w) \in Seq(W) BY ThroughGrows
<1>2. << >> \in P
  <2>1. Walk(<< >>, W) = [v \in W |-> <<v>>] BY ThroughGrows DEF Walk
  <2>2. Each(Through(fs, w), Walk(<< >>, W)) = Through(fs, w) BY <1>1, <2>1, EachItself
  <2>3. fs \o << >> = fs BY ConcatEmptySeq
  <2> QED BY <2>2, <2>3, EmptySeq
<1>3. ASSUME NEW gs \in Seq(Maps(W, W)), NEW g \in Maps(W, W), gs \in P PROVE Append(gs, g) \in P
  <2>1. fs \o Append(gs, g) = Append(fs \o gs, g) /\ fs \o gs \in Seq(Maps(W, W))
    <3>1. /\ Append(gs, g) = gs \o <<g>> /\ fs \o gs \in Seq(Maps(W, W)) /\ <<g>> \in Seq(Maps(W, W))
      BY AppendIsConcat, ConcatProperties
    <3>2. Append(fs \o gs, g) = (fs \o gs) \o <<g>> BY <3>1, AppendIsConcat
    <3> QED BY <3>1, <3>2, ConcatAssociative
  <2>2. Through(fs \o Append(gs, g), w) = Each(Through(fs \o gs, w), g) BY <2>1, ThroughGrows
  <2>3. Through(fs \o gs, w) = Each(Through(fs, w), Walk(gs, W)) BY <1>3
  <2>4. Each(Each(Through(fs, w), Walk(gs, W)), g) = Each(Through(fs, w), [v \in W |-> Each(Walk(gs, W)[v], g)])
    BY <1>1, WalkMaps, EachOfEach
  <2>5. [v \in W |-> Each(Walk(gs, W)[v], g)] = Walk(Append(gs, g), W)
    <3>1. \A v \in W : Each(Walk(gs, W)[v], g) = Through(Append(gs, g), v) BY WalkMaps, ThroughGrows
    <3> QED BY <3>1 DEF Walk
  <2>6. Append(gs, g) \in Seq(Maps(W, W)) BY AppendProperties
  <2> QED BY <2>2, <2>3, <2>4, <2>5, <2>6
<1> HIDE DEF P
<1>4. \A gs \in Seq(Maps(W, W)) : gs \in P BY <1>2, <1>3, EverySeq
<1> QED BY <1>4 DEF P

\* One first.
LEMMA ThroughFirst ==
  ASSUME NEW W, NEW w \in W, NEW f \in Maps(W, W)
  PROVE  \A gs \in Seq(Maps(W, W)) : Through(<<f>> \o gs, w) = Each(f[w], Walk(gs, W))
<1>1. << >> \in Seq(Maps(W, W)) /\ Append(<< >>, f) = <<f>> /\ <<f>> \in Seq(Maps(W, W)) BY EmptySeq
<1>2. Through(<<f>>, w) = Each(<<w>>, f) BY <1>1, ThroughGrows
<1>3. Each(<<w>>, f) = f[w] BY EachFirst
<1>4. \A gs \in Seq(Maps(W, W)) : Through(<<f>> \o gs, w) = Each(Through(<<f>>, w), Walk(gs, W))
  BY <1>1, ThroughConcat
<1> QED BY <1>2, <1>3, <1>4

(***************************************************************************)
(* What a repeat, and every node, comes to.                                *)
(***************************************************************************)
\* What may be left of a way.
LEMMA TakingMaps == ASSUME NEW w \in Way, NEW h \in Maps(Way, Way) PROVE Taking(w, h) \in Maps(Way, Way)
<1>1. \A v \in Way : h[v] \in Seq(Way) /\ << >> \in Seq(Way) BY MapsTo
<1> QED BY <1>1 DEF Taking, Maps

\* What a turn or stopping comes to.
LEMMA TurnOrStopType ==
  ASSUME NEW rep, NEW f \in Maps(Way, Way), NEW h, NEW left \in Nat, left # 0 => h \in Maps(Way, Way), NEW w \in Way
  PROVE  TurnOrStop(rep, f, h, left, w) \in Seq(Way)
<1> DEFINE stop == IF rep.max - left >= rep.min THEN <<w>> ELSE << >>
           more == IF left = 0 THEN << >> ELSE Each(f[w], Taking(w, h))
<1>1. stop \in Seq(Way) OBVIOUS
<1>2. more \in Seq(Way)
  <2>1. left # 0 => Each(f[w], Taking(w, h)) \in Seq(Way) BY MapsTo, TakingMaps, EachGrows
  <2> QED BY <2>1, EmptySeq
<1>3. TurnOrStop(rep, f, h, left, w) = IF rep.greedy THEN more \o stop ELSE stop \o more
  BY DEF TurnOrStop
<1> HIDE DEF stop, more
<1> QED BY <1>1, <1>2, <1>3, ConcatProperties

\* Every number of turns left, from the one before.
LEMMA TurnsFacts ==
  ASSUME NEW rep, rep.max \in Nat, NEW f \in Maps(Way, Way)
  PROVE  \A left \in 0..rep.max :
           /\ Turns(rep, f)[left] \in Maps(Way, Way)
           /\ \A w \in Way : Turns(rep, f)[left][w] = TurnOrStop(rep, f, Turns(rep, f)[left - 1], left, w)
<1> DEFINE n == rep.max
           M == Maps(Way, Way)
           z == [w \in Way |-> TurnOrStop(rep, f, << >>, 0, w)]
           g == [x \in (1..n) \X M |-> [w \in Way |-> TurnOrStop(rep, f, x[2], x[1], w)]]
           go[left \in 0..n] == [w \in Way |-> TurnOrStop(rep, f, go[left - 1], left, w)]
<1>1. z \in M BY TurnOrStopType DEF Maps
<1>2. g \in [(1..n) \X M -> M]
  <2>1. ASSUME NEW x \in (1..n) \X M PROVE [w \in Way |-> TurnOrStop(rep, f, x[2], x[1], w)] \in M
    <3>1. x[2] \in M /\ x[1] \in Nat OBVIOUS
    <3> QED BY <3>1, TurnOrStopType DEF Maps
  <2> QED BY <2>1
<1>3. PICK u \in [0..n -> M] : Chained(u, z, g, n)
  <2> HIDE DEF g, z, M
  <2> QED BY <1>1, <1>2, Chain
<1>4. ASSUME NEW i \in 1..n PROVE u[i] = [w \in Way |-> TurnOrStop(rep, f, u[i - 1], i, w)]
  <2>1. i - 1 \in 0..n OBVIOUS
  <2>2. u[i - 1] \in M BY <1>3, <2>1
  <2>3. g[<<i, u[i - 1]>>] = [w \in Way |-> TurnOrStop(rep, f, u[i - 1], i, w)] BY <2>2
  <2> HIDE DEF g
  <2> QED BY <1>3, <2>3 DEF Chained
<1>5. \A h : u[0] = [w \in Way |-> TurnOrStop(rep, f, h, 0, w)]
  <2>1. \A h, w : TurnOrStop(rep, f, h, 0, w) = TurnOrStop(rep, f, << >>, 0, w) BY DEF TurnOrStop
  <2> QED BY <1>3, <2>1 DEF Chained
<1>6. u = [left \in 0..n |-> [w \in Way |-> TurnOrStop(rep, f, u[left - 1], left, w)]]
  <2>1. \A i \in 0..n : i = 0 \/ i \in 1..n OBVIOUS
  <2>2. \A i \in 0..n : u[i] = [w \in Way |-> TurnOrStop(rep, f, u[i - 1], i, w)] BY <1>4, <1>5, <2>1, ZenonT(30)
  <2> QED BY <1>3, <2>2, Zenon
<1>7. go = [left \in 0..n |-> [w \in Way |-> TurnOrStop(rep, f, go[left - 1], left, w)]] BY <1>6
<1>8. Turns(rep, f) = go BY DEF Turns
<1>9. ASSUME NEW left \in 0..n PROVE go[left] = [w \in Way |-> TurnOrStop(rep, f, go[left - 1], left, w)]
  <2> HIDE DEF go
  <2> QED BY <1>7, Zenon
<1> HIDE DEF go, g, z
<1> DEFINE P == {i \in Nat : i <= n => go[i] \in M}
<1>10. 0 \in P
  <2>1. go[0] = [w \in Way |-> TurnOrStop(rep, f, go[0 - 1], 0, w)] BY <1>9
  <2>2. \A w \in Way : TurnOrStop(rep, f, go[0 - 1], 0, w) \in Seq(Way) BY TurnOrStopType
  <2> QED BY <2>1, <2>2 DEF Maps
<1>11. ASSUME NEW i \in Nat, i \in P PROVE i + 1 \in P
  <2> SUFFICES ASSUME i + 1 <= n PROVE go[i + 1] \in M OBVIOUS
  <2>1. i + 1 \in 0..n /\ (i + 1) - 1 = i OBVIOUS
  <2>2. go[i + 1] = [w \in Way |-> TurnOrStop(rep, f, go[i], i + 1, w)] BY <1>9, <2>1
  <2>3. go[i] \in M BY <1>11
  <2>4. \A w \in Way : TurnOrStop(rep, f, go[i], i + 1, w) \in Seq(Way) BY <2>3, TurnOrStopType
  <2> QED BY <2>2, <2>4 DEF Maps
<1> HIDE DEF P
<1>12. \A i \in Nat : i \in P BY <1>10, <1>11, EveryNat
<1>13. \A i \in 0..n : go[i] \in M BY <1>12 DEF P
<1> QED BY <1>8, <1>9, <1>13

\* Only what a map makes of the elements counts.
LEMMA EachSame ==
  ASSUME NEW A, NEW B, NEW C, A \subseteq C, NEW f \in Maps(A, B), NEW g \in Maps(C, B), \A x \in A : f[x] = g[x]
  PROVE  \A s \in Seq(A) : s \in Seq(C) /\ Each(s, f) = Each(s, g)
<1> DEFINE P == {s \in Seq(A) : s \in Seq(C) /\ Each(s, f) = Each(s, g)}
<1>1. << >> \in P
  <2>1. Each(<< >>, f) = << >> /\ Each(<< >>, g) = << >> BY EachGrows
  <2> QED BY <2>1, EmptySeq
<1>2. ASSUME NEW s \in Seq(A), NEW x \in A, s \in P PROVE Append(s, x) \in P
  <2>1. s \in Seq(C) /\ x \in C BY <1>2
  <2>2. Each(Append(s, x), f) = Each(s, f) \o f[x] BY EachGrows
  <2>3. Each(Append(s, x), g) = Each(s, g) \o g[x] BY <2>1, EachGrows
  <2>4. Append(s, x) \in Seq(A) /\ Append(s, x) \in Seq(C) BY <2>1, AppendProperties
  <2> QED BY <1>2, <2>2, <2>3, <2>4
<1> HIDE DEF P
<1>3. \A s \in Seq(A) : s \in P BY <1>1, <1>2, EverySeq
<1> QED BY <1>3 DEF P

\* A way with another position, or another capture.
LEMMA WaysMoved ==
  ASSUME NEW w \in Way
  PROVE  /\ w.pos \in Places /\ w.pos \in Nat
         /\ \A p \in Places : [w EXCEPT !.pos = p] \in Way
         /\ \A i \in 1..Groups, span \in {<< >>} \cup (Nat \X Nat) : [w EXCEPT !.caps[i] = span] \in Way
<1>1. w.pos \in Places /\ w.pos \in Nat BY DEF Way, Places
<1>2. ASSUME NEW p \in Places PROVE [w EXCEPT !.pos = p] \in Way BY DEF Way
<1>3. ASSUME NEW i \in 1..Groups, NEW span \in {<< >>} \cup (Nat \X Nat) PROVE [w EXCEPT !.caps[i] = span] \in Way
  <2> DEFINE S == {<< >>} \cup (Nat \X Nat)
  <2>1. w \in [pos : Places, caps : [1..Groups -> S]] BY DEF Way
  <2> HIDE DEF S
  <2>2. [w.caps EXCEPT ![i] = span] \in [1..Groups -> S] BY <2>1 DEF S
  <2>3. [w EXCEPT !.caps = [w.caps EXCEPT ![i] = span]] \in [pos : Places, caps : [1..Groups -> S]] BY <2>1, <2>2
  <2> QED BY <2>3 DEF Way, S
<1> QED BY <1>1, <1>2, <1>3

\* The elements of a sequence of nodes, taken by what ways has for them.
LEMMA PartsMaps ==
  ASSUME NEW ways \in [Nodes -> Maps(Way, Way)], NEW s \in Seq(Nodes)
  PROVE  [i \in DOMAIN s |-> ways[s[i]]] \in Seq(Maps(Way, Way))
<1>1. Len(s) \in Nat /\ DOMAIN s = 1..Len(s) /\ \A i \in 1..Len(s) : s[i] \in Nodes
  BY LenProperties, ElementOfSeq
<1>2. \A i \in 1..Len(s) : ways[s[i]] \in Maps(Way, Way) BY <1>1
<1> QED BY <1>1, <1>2

\* Some nodes, from one way.
LEMMA ArmsMaps ==
  ASSUME NEW ways \in [Nodes -> Maps(Way, Way)], NEW w \in Way, NEW S \in SUBSET Nodes
  PROVE  [arm \in S |-> ways[arm][w]] \in Maps(S, Way)
<1>1. \A arm \in S : ways[arm][w] \in Seq(Way) BY MapsTo
<1> QED BY <1>1 DEF Maps

\* The parts of a node are nodes, and its arms are among them.
LEMMA UnderNodes ==
  ASSUME NEW n \in Nodes
  PROVE  Under(n) \subseteq Nodes /\ (n.n = "alt" => n.arms \in Seq(Under(n)))
<1>1. CASE n.n \in {"group", "repeat"} BY <1>1, NodesAssumption DEF Under
<1>2. CASE n.n = "concat"
  <2>1. n.parts \in Seq(Nodes) /\ DOMAIN n.parts = 1..Len(n.parts) BY <1>2, NodesAssumption, LenProperties
  <2>2. \A x \in Under(n) : \E i \in DOMAIN n.parts : x = n.parts[i] BY <1>2 DEF Under
  <2> QED BY <1>2, <2>1, <2>2, ElementOfSeq
<1>3. CASE n.n = "alt"
  <2>1. n.arms \in Seq(Nodes) /\ DOMAIN n.arms = 1..Len(n.arms) /\ Len(n.arms) \in Nat
    BY <1>3, NodesAssumption, LenProperties
  <2>2. Under(n) = {n.arms[i] : i \in DOMAIN n.arms} BY <1>3 DEF Under
  <2>3. Under(n) \subseteq Nodes BY <2>1, <2>2, ElementOfSeq
  <2>4. \A i \in DOMAIN n.arms : n.arms[i] \in Under(n) BY <2>2
  <2>5. n.arms \in [1..Len(n.arms) -> Under(n)] BY <2>1, <2>4
  <2>6. n.arms \in Seq(Under(n)) BY <2>1, <2>5, SeqDef
  <2> QED BY <2>3, <2>6
<1>4. CASE n.n \notin {"group", "repeat", "concat", "alt"} BY <1>4 DEF Under
<1> QED BY <1>1, <1>2, <1>3, <1>4

\* Where a group was opened.
LEMMA ClosedMaps ==
  ASSUME NEW node \in Nodes, node.n = "group", NEW w \in Way
  PROVE  [v \in Way |-> <<Captured(node, w.pos, v)>>] \in Maps(Way, Way)
<1>1. \A v \in Way : Captured(node, w.pos, v) \in Way
  <2>1. node.index \in 0..Groups BY NodesAssumption
  <2>2. ASSUME NEW v \in Way PROVE Captured(node, w.pos, v) \in Way
    <3>1. w.pos \in Nat /\ v.pos \in Nat BY WaysMoved
    <3>2. <<w.pos, v.pos>> \in {<< >>} \cup (Nat \X Nat) BY <3>1
    <3>3. Captures(node) => node.index \in 1..Groups BY <2>1, BoundsAssumption DEF Captures
    <3>4. Captures(node) => [v EXCEPT !.caps[node.index] = <<w.pos, v.pos>>] \in Way BY <3>2, <3>3, WaysMoved
    <3> QED BY <3>4 DEF Captured
  <2> QED BY <2>2
<1>2. \A v \in Way : <<Captured(node, w.pos, v)>> \in Seq(Way) BY <1>1
<1> QED BY <1>2 DEF Maps

\* The kinds.
LEMMA EveryKind ==
  ASSUME NEW node \in Nodes
  PROVE  \/ node.n \in {"char", "any", "class"}
         \/ node.n \in {"empty", "start", "end", "boundary"}
         \/ node.n = "group" \/ node.n = "concat" \/ node.n = "alt" \/ node.n = "repeat"
BY NodesAssumption DEF Kinds

\* It is of the right kind.
LEMMA WaysGivenType ==
  ASSUME text \in Texts, NEW ways \in [Nodes -> Maps(Way, Way)], NEW node \in Nodes
  PROVE  WaysGiven(ways, node) \in Maps(Way, Way)
<1>1. CASE node.n \in {"char", "any", "class"}
  <2>1. ASSUME NEW w \in Way, w.pos < Len(text) PROVE <<[w EXCEPT !.pos = @ + 1]>> \in Seq(Way)
    <3>1. Len(text) \in Nat BY TextsAssumption
    <3>2. w.pos + 1 \in Places BY <2>1, <3>1, WaysMoved DEF Places
    <3>3. [w EXCEPT !.pos = w.pos + 1] \in Way BY <3>2, WaysMoved
    <3> QED BY <3>3
  <2>2. WaysGiven(ways, node) = [w \in Way |-> IF w.pos < Len(text) /\ Accepts(node, text[w.pos + 1])
                                               THEN <<[w EXCEPT !.pos = @ + 1]>> ELSE << >>]
    BY <1>1 DEF WaysGiven
  <2>3. << >> \in Seq(Way) BY EmptySeq
  <2> QED BY <2>1, <2>2, <2>3 DEF Maps
<1>2. CASE node.n \in {"empty", "start", "end", "boundary"}
  <2>1. \A w \in Way : <<w>> \in Seq(Way) /\ << >> \in Seq(Way) OBVIOUS
  <2>2. WaysGiven(ways, node) = [w \in Way |-> IF AtPlace(node, w.pos) THEN <<w>> ELSE << >>]
    BY <1>2 DEF WaysGiven
  <2> QED BY <2>1, <2>2 DEF Maps
<1>3. CASE node.n = "group"
  <2> DEFINE end(w) == [v \in Way |-> <<Captured(node, w.pos, v)>>]
  <2>1. WaysGiven(ways, node) = [w \in Way |-> Each(ways[node.inner][w], end(w))] BY <1>3 DEF WaysGiven
  <2>2. \A w \in Way : end(w) \in Maps(Way, Way) BY <1>3, ClosedMaps
  <2>3. \A w \in Way : ways[node.inner][w] \in Seq(Way) BY <1>3, NodesAssumption, MapsTo
  <2> HIDE DEF end
  <2>4. \A w \in Way : Each(ways[node.inner][w], end(w)) \in Seq(Way) BY <2>2, <2>3, EachGrows
  <2> QED BY <2>1, <2>4 DEF Maps
<1>4. CASE node.n = "concat"
  <2> DEFINE fs == [i \in DOMAIN node.parts |-> ways[node.parts[i]]]
  <2>1. fs \in Seq(Maps(Way, Way)) BY <1>4, NodesAssumption, PartsMaps
  <2>2. WaysGiven(ways, node) = [w \in Way |-> Through(fs, w)] BY <1>4 DEF WaysGiven
  <2> HIDE DEF fs
  <2>3. \A w \in Way : Through(fs, w) \in Seq(Way) BY <2>1, ThroughGrows
  <2> QED BY <2>2, <2>3 DEF Maps
<1>5. CASE node.n = "alt"
  <2> DEFINE arms(w) == [arm \in Under(node) |-> ways[arm][w]]
  <2>1. WaysGiven(ways, node) = [w \in Way |-> Each(node.arms, arms(w))] BY <1>5 DEF WaysGiven
  <2>2. \A w \in Way : arms(w) \in Maps(Under(node), Way) BY UnderNodes, ArmsMaps
  <2>3. node.arms \in Seq(Under(node)) BY <1>5, UnderNodes
  <2> HIDE DEF arms
  <2>4. \A w \in Way : Each(node.arms, arms(w)) \in Seq(Way) BY <2>2, <2>3, EachGrows
  <2> QED BY <2>1, <2>4 DEF Maps
<1>6. CASE node.n = "repeat"
  <2>1. node.inner \in Nodes /\ node.max \in Nat /\ node.max \in 0..node.max BY <1>6, NodesAssumption
  <2>2. ways[node.inner] \in Maps(Way, Way) BY <2>1
  <2> QED BY <1>6, <2>1, <2>2, TurnsFacts DEF WaysGiven
<1> QED BY <1>1, <1>2, <1>3, <1>4, <1>5, <1>6, EveryKind

\* It rests on what the node owns.
LEMMA WaysGivenSame ==
  ASSUME NEW wa, NEW wb, NEW node \in Nodes, \A x \in Under(node) : wa[x] = wb[x]
  PROVE  WaysGiven(wa, node) = WaysGiven(wb, node)
<1>1. CASE node.n \in {"char", "any", "class"} BY <1>1 DEF WaysGiven
<1>2. CASE node.n \in {"empty", "start", "end", "boundary"} BY <1>2 DEF WaysGiven
<1>3. CASE node.n \in {"group", "repeat"}
  <2>1. wa[node.inner] = wb[node.inner] BY <1>3 DEF Under
  <2> QED BY <1>3, <2>1 DEF WaysGiven
<1>4. CASE node.n = "concat"
  <2>1. \A i \in DOMAIN node.parts : wa[node.parts[i]] = wb[node.parts[i]] BY <1>4 DEF Under
  <2>2. [i \in DOMAIN node.parts |-> wa[node.parts[i]]] = [i \in DOMAIN node.parts |-> wb[node.parts[i]]] BY <2>1
  <2> QED BY <1>4, <2>2 DEF WaysGiven
<1>5. CASE node.n = "alt"
  <2>1. \A w : [arm \in Under(node) |-> wa[arm][w]] = [arm \in Under(node) |-> wb[arm][w]] OBVIOUS
  <2> QED BY <1>5, <2>1 DEF WaysGiven
<1> QED BY <1>1, <1>2, <1>3, <1>4, <1>5, EveryKind

(***************************************************************************)
(* Patterns are trees, so that what they come to is well defined.          *)
(***************************************************************************)
\* A property of the nodes whose parts have it is one of all nodes.
LEMMA EveryNode ==
  ASSUME NEW P, \A n \in Nodes : (\A x \in Under(n) : x \in P) => n \in P
  PROVE  \A n \in Nodes : n \in P
<1> DEFINE N == {h \in Nat : \E n \in Nodes : n \notin P /\ Height(n) = h}
<1> SUFFICES ASSUME NEW bad \in Nodes, bad \notin P PROVE FALSE OBVIOUS
<1>1. Height(bad) \in N BY TreesAssumption
<1>2. PICK h \in N : \A l \in N : h <= l BY <1>1, LeastElement
<1>3. PICK n \in Nodes : n \notin P /\ Height(n) = h BY <1>2
<1>4. PICK x \in Under(n) : x \notin P BY <1>3
<1>5. x \in Nodes BY <1>3, <1>4, UnderNodes
<1>6. Height(x) \in N /\ Height(x) < h /\ h \in Nat BY <1>3, <1>4, <1>5, TreesAssumption
<1> QED BY <1>2, <1>6

\* g says what a node comes to, from what those it owns come to.
Rests(g, V) ==
  /\ g \in [[Nodes -> V] \X Nodes -> V]
  /\ \A fa, fb \in [Nodes -> V], n \in Nodes : (\A x \in Under(n) : fa[x] = fb[x]) => g[<<fa, n>>] = g[<<fb, n>>]

\* What every node comes to, up to a height.
UpTo(f, g, h, V) == f \in [Nodes -> V] /\ \A n \in Nodes : Height(n) < h => f[n] = g[<<f, n>>]

\* Heights.
LEMMA Heights ==
  ASSUME NEW n \in Nodes
  PROVE  Height(n) \in Nat /\ \A x \in Under(n) : x \in Nodes /\ Height(x) \in Nat /\ Height(x) < Height(n)
BY TreesAssumption, UnderNodes

\* For every height there is such a function.
LEMMA UpToSome ==
  ASSUME NEW V, NEW v \in V, NEW g, Rests(g, V)
  PROVE  \A h \in Nat : \E f : UpTo(f, g, h, V)
<1> DEFINE P == {h \in Nat : \E f : UpTo(f, g, h, V)}
<1>1. 0 \in P
  <2> DEFINE f == [n \in Nodes |-> v]
  <2>1. f \in [Nodes -> V] OBVIOUS
  <2>2. ASSUME NEW n \in Nodes PROVE ~(Height(n) < 0)
    <3>1. Height(n) \in Nat BY Heights
    <3> QED BY <3>1
  <2> HIDE DEF f
  <2>3. UpTo(f, g, 0, V) BY <2>1, <2>2 DEF UpTo
  <2> QED BY <2>3
<1>2. ASSUME NEW h \in Nat, h \in P PROVE h + 1 \in P
  <2>1. PICK f \in [Nodes -> V] : UpTo(f, g, h, V) BY <1>2 DEF UpTo
  <2> DEFINE next == [n \in Nodes |-> g[<<f, n>>]]
  <2>2. next \in [Nodes -> V] BY DEF Rests
  <2>3. ASSUME NEW n \in Nodes, Height(n) < h + 1 PROVE next[n] = g[<<next, n>>]
    <3>1. \A x \in Under(n) : x \in Nodes /\ Height(x) < h BY <2>3, Heights
    <3>2. \A x \in Under(n) : next[x] = f[x] BY <2>1, <3>1 DEF UpTo
    <3>3. next[n] = g[<<f, n>>] OBVIOUS
    <3> HIDE DEF next
    <3> QED BY <2>2, <3>2, <3>3 DEF Rests
  <2>4. UpTo(next, g, h + 1, V) BY <2>2, <2>3 DEF UpTo
  <2> QED BY <2>4
<1> HIDE DEF P
<1>3. \A h \in Nat : h \in P BY <1>1, <1>2, EveryNat
<1> QED BY <1>3 DEF P

\* And only one.
LEMMA UpToOne ==
  ASSUME NEW V, NEW g, Rests(g, V), NEW h \in Nat, NEW fa, NEW fb, UpTo(fa, g, h, V), UpTo(fb, g, h, V)
  PROVE  \A n \in Nodes : Height(n) < h => fa[n] = fb[n]
<1> DEFINE P == {n \in Nodes : Height(n) < h => fa[n] = fb[n]}
<1>1. ASSUME NEW n \in Nodes, \A x \in Under(n) : x \in P PROVE n \in P
  <2> SUFFICES ASSUME Height(n) < h PROVE fa[n] = fb[n] OBVIOUS
  <2>1. \A x \in Under(n) : fa[x] = fb[x] BY <1>1, Heights
  <2>2. fa \in [Nodes -> V] /\ fb \in [Nodes -> V] BY DEF UpTo
  <2>3. g[<<fa, n>>] = g[<<fb, n>>] BY <2>1, <2>2 DEF Rests
  <2> QED BY <2>3 DEF UpTo
<1> HIDE DEF P
<1>2. \A n \in Nodes : n \in P BY <1>1, EveryNode
<1> QED BY <1>2 DEF P

\* For all of them.
LEMMA Recursion ==
  ASSUME NEW V, NEW v \in V, NEW g, Rests(g, V)
  PROVE  \E f \in [Nodes -> V] : \A n \in Nodes : f[n] = g[<<f, n>>]
<1> DEFINE Best(h) == CHOOSE f : UpTo(f, g, h, V)
           all == [n \in Nodes |-> Best(Height(n) + 1)[n]]
<1>1. \A h \in Nat : UpTo(Best(h), g, h, V) BY UpToSome
<1> HIDE DEF Best
<1>2. ASSUME NEW n \in Nodes PROVE Best(Height(n) + 1)[n] \in V
  <2>1. UpTo(Best(Height(n) + 1), g, Height(n) + 1, V) BY <1>1, Heights
  <2> QED BY <2>1 DEF UpTo
<1>3. all \in [Nodes -> V] BY <1>2
<1>4. ASSUME NEW n \in Nodes PROVE all[n] = g[<<all, n>>]
  <2> DEFINE b == Best(Height(n) + 1)
  <2>1. UpTo(b, g, Height(n) + 1, V) BY <1>1, Heights
  <2>2. ASSUME NEW x \in Under(n) PROVE all[x] = b[x]
    <3>1. x \in Nodes /\ Height(x) \in Nat /\ Height(n) \in Nat /\ Height(x) < Height(n) BY Heights
    <3>2. UpTo(Best(Height(x) + 1), g, Height(x) + 1, V) BY <1>1, <3>1
    <3>3. UpTo(b, g, Height(x) + 1, V)
      <4>1. \A m \in Nodes : Height(m) < Height(x) + 1 => Height(m) < Height(n) + 1 BY <3>1, Heights
      <4> HIDE DEF b
      <4> QED BY <2>1, <4>1 DEF UpTo
    <3>4. all[x] = Best(Height(x) + 1)[x] BY <3>1
    <3> HIDE DEF b, all
    <3>5. Best(Height(x) + 1)[x] = b[x] BY <3>1, <3>2, <3>3, UpToOne
    <3> QED BY <3>4, <3>5
  <2>3. all[n] = b[n] OBVIOUS
  <2>4. b[n] = g[<<b, n>>] BY <2>1, Heights DEF UpTo
  <2>5. b \in [Nodes -> V] BY <2>1 DEF UpTo
  <2> HIDE DEF all, b
  <2>6. g[<<all, n>>] = g[<<b, n>>] BY <1>3, <2>2, <2>5 DEF Rests
  <2> QED BY <2>3, <2>4, <2>6
<1> QED BY <1>3, <1>4

\* What a pattern comes to is what it says it is.
LEMMA WaysFacts ==
  ASSUME text \in Texts
  PROVE  Ways \in [Nodes -> Maps(Way, Way)] /\ \A n \in Nodes : Ways[n] = WaysGiven(Ways, n)
<1> DEFINE V == Maps(Way, Way)
           g == [x \in [Nodes -> V] \X Nodes |-> WaysGiven(x[1], x[2])]
<1>1. [w \in Way |-> << >>] \in V BY EmptySeq DEF Maps
<1>2. \A f \in [Nodes -> V], n \in Nodes : g[<<f, n>>] = WaysGiven(f, n) OBVIOUS
<1>3. \A x \in [Nodes -> V] \X Nodes : WaysGiven(x[1], x[2]) \in V BY WaysGivenType
<1>4. g \in [[Nodes -> V] \X Nodes -> V] BY <1>3
<1> HIDE DEF g, V
<1>5. Rests(g, V) BY <1>2, <1>4, WaysGivenSame DEF Rests
<1>6. PICK all \in [Nodes -> V] : \A n \in Nodes : all[n] = g[<<all, n>>] BY <1>1, <1>5, Recursion
<1>7. all = [n \in Nodes |-> WaysGiven(all, n)] BY <1>2, <1>6
<1>8. Ways = [n \in Nodes |-> WaysGiven(Ways, n)] BY <1>7 DEF Ways
<1>9. \A n \in Nodes : Ways[n] = WaysGiven(Ways, n) BY <1>8, Zenon
<1> DEFINE P == {n \in Nodes : Ways[n] = all[n]}
<1>10. ASSUME NEW n \in Nodes, \A x \in Under(n) : x \in P PROVE n \in P
  <2>1. WaysGiven(Ways, n) = WaysGiven(all, n) BY <1>10, WaysGivenSame
  <2>2. all[n] = WaysGiven(all, n) BY <1>2, <1>6
  <2> QED BY <1>9, <2>1, <2>2
<1> HIDE DEF P
<1>11. \A n \in Nodes : n \in P BY <1>10, EveryNode
<1>12. \A n \in Nodes : Ways[n] = all[n] BY <1>11 DEF P
<1>13. Ways \in [Nodes -> V] BY <1>6, <1>8, <1>9, <1>12
<1> QED BY <1>9, <1>13 DEF V

(***************************************************************************)
(* What is left to match, and what waits, mean ways too.                   *)
(***************************************************************************)
AllCaps == [1..Groups -> Slots]
Closes == [n : {"close"}, index : 1..Groups, from : Nat]
Agains == {x \in [n : {"again"}, rep : {n \in Nodes : n.n = "repeat"}, done : Nat, from : Nat] : x.done < x.rep.max}
Items == Nodes \cup Closes \cup Agains
Undos == [a : {"undo"}, index : 1..Groups, span : Slots]
Arms == [a : {"arm"}, arms : Seq(Nodes), pos : Places, k : Seq(Items)]
Goes == [a : {"stop", "more"}, pos : Places, k : Seq(Items)]
Alts == Undos \cup Arms \cup Goes

\* What an item of k comes to.
Meaning ==
  [x \in Items |->
     IF x.n = "close" THEN [w \in Way |-> <<[w EXCEPT !.caps[x.index] = <<x.from, w.pos>>]>>]
     ELSE IF x.n = "again"
     THEN [w \in Way |-> IF w.pos = x.from THEN << >>
                         ELSE Turns(x.rep, Ways[x.rep.inner])[x.rep.max - (x.done + 1)][w]]
     ELSE Ways[x]]

\* What s comes to, for items that come to what M says.
On(M, W, s) == Walk([i \in DOMAIN s |-> M[s[i]]], W)

\* What a comes to, before what waits longer.
Offer(M, W, a, rest) ==
  [c \in AllCaps |->
     IF a.a = "undo" THEN rest[[c EXCEPT ![a.index] = a.span]]
     ELSE IF a.a = "arm"
     THEN Each(a.arms, [x \in Nodes |-> On(M, W, <<x>> \o a.k)[[pos |-> a.pos, caps |-> c]]]) \o rest[c]
     ELSE On(M, W, a.k)[[pos |-> a.pos, caps |-> c]] \o rest[c]]

\* What is left to try when ws wait, by their number.
Awaits(u, M, W, ws) ==
  /\ u \in [0..Len(ws) -> Maps(AllCaps, W)]
  /\ u[0] = [c \in AllCaps |-> << >>] /\ \A i \in 1..Len(ws) : u[i] = Offer(M, W, ws[i], u[i - 1])
Left(M, W, ws) == (CHOOSE u : Awaits(u, M, W, ws))[Len(ws)]

\* An item is a node, a group to close or a repeat to go on.
LEMMA ItemKinds ==
  ASSUME NEW x \in Items
  PROVE  /\ x.n = "close" => x \in Closes
         /\ x.n = "again" => x \in Agains
         /\ x.n \notin {"close", "again"} => x \in Nodes
BY NodesAssumption DEF Items, Closes, Agains, Kinds

\* Nodes are neither of the others.
LEMMA NodeItems == ASSUME NEW x \in Nodes PROVE x \in Items /\ x.n \notin {"close", "again"}
BY NodesAssumption DEF Items, Kinds

\* What an item comes to are ways.
LEMMA MeaningFacts ==
  ASSUME text \in Texts
  PROVE  /\ Meaning \in [Items -> Maps(Way, Way)]
         /\ \A x \in Nodes : Meaning[x] = Ways[x]
         /\ \A x \in Closes, w \in Way : Meaning[x][w] = <<[w EXCEPT !.caps[x.index] = <<x.from, w.pos>>]>>
         /\ \A x \in Agains, w \in Way :
              Meaning[x][w] = IF w.pos = x.from THEN << >>
                              ELSE Turns(x.rep, Ways[x.rep.inner])[x.rep.max - (x.done + 1)][w]
<1> DEFINE close(x) == [w \in Way |-> <<[w EXCEPT !.caps[x.index] = <<x.from, w.pos>>]>>]
           again(x) == [w \in Way |-> IF w.pos = x.from THEN << >>
                                      ELSE Turns(x.rep, Ways[x.rep.inner])[x.rep.max - (x.done + 1)][w]]
<1>1. \A x \in Items : Meaning[x] = IF x.n = "close" THEN close(x) ELSE IF x.n = "again" THEN again(x) ELSE Ways[x]
  BY DEF Meaning
<1>2. ASSUME NEW x \in Closes PROVE close(x) \in Maps(Way, Way)
  <2>1. ASSUME NEW w \in Way PROVE [w EXCEPT !.caps[x.index] = <<x.from, w.pos>>] \in Way
    <3>1. x.index \in 1..Groups /\ x.from \in Nat /\ w.pos \in Nat BY WaysMoved DEF Closes
    <3>2. <<x.from, w.pos>> \in {<< >>} \cup (Nat \X Nat) BY <3>1
    <3> QED BY <3>1, <3>2, WaysMoved
  <2>2. \A w \in Way : <<[w EXCEPT !.caps[x.index] = <<x.from, w.pos>>]>> \in Seq(Way) BY <2>1
  <2> QED BY <2>2 DEF Maps
<1>3. ASSUME NEW x \in Agains PROVE again(x) \in Maps(Way, Way)
  <2>1. x.rep \in Nodes /\ x.rep.n = "repeat" /\ x.done \in Nat /\ x.done < x.rep.max BY DEF Agains
  <2>2. x.rep.inner \in Nodes /\ x.rep.max \in Nat BY <2>1, NodesAssumption
  <2>3. x.rep.max - (x.done + 1) \in 0..x.rep.max BY <2>1, <2>2
  <2>4. Ways[x.rep.inner] \in Maps(Way, Way) BY <2>2, WaysFacts
  <2>5. Turns(x.rep, Ways[x.rep.inner])[x.rep.max - (x.done + 1)] \in Maps(Way, Way)
    BY <2>2, <2>3, <2>4, TurnsFacts
  <2>6. \A w \in Way : Turns(x.rep, Ways[x.rep.inner])[x.rep.max - (x.done + 1)][w] \in Seq(Way)
    BY <2>5, MapsTo
  <2>7. << >> \in Seq(Way) BY EmptySeq
  <2> QED BY <2>6, <2>7 DEF Maps
<1>4. \A x \in Nodes : Ways[x] \in Maps(Way, Way) BY WaysFacts
<1>5. \A x \in Closes : x \in Items /\ x.n = "close" BY DEF Items, Closes
<1>6. \A x \in Agains : x \in Items /\ x.n = "again" BY DEF Items, Agains
<1>7. \A x \in Items, w \in Way : x.n = "close" => close(x)[w] = <<[w EXCEPT !.caps[x.index] = <<x.from, w.pos>>]>>
  OBVIOUS
<1>8. \A x \in Items, w \in Way : again(x)[w] = IF w.pos = x.from THEN << >>
                              ELSE Turns(x.rep, Ways[x.rep.inner])[x.rep.max - (x.done + 1)][w]
  OBVIOUS
<1> HIDE DEF close, again
<1>9. ASSUME NEW x \in Items PROVE Meaning[x] \in Maps(Way, Way)
  BY <1>1, <1>2, <1>3, <1>4, ItemKinds
<1>10. Meaning \in [Items -> Maps(Way, Way)]
  <2>1. Meaning = [x \in Items |-> Meaning[x]] BY DEF Meaning
  <2> QED BY <1>9, <2>1
<1>11. \A x \in Nodes : Meaning[x] = Ways[x] BY <1>1, NodeItems
<1>12. \A x \in Closes, w \in Way : Meaning[x][w] = <<[w EXCEPT !.caps[x.index] = <<x.from, w.pos>>]>>
  BY <1>1, <1>5, <1>7
<1>13. \A x \in Agains : Meaning[x] = again(x) BY <1>1, <1>6
<1> QED BY <1>6, <1>8, <1>10, <1>11, <1>12, <1>13, ZenonT(60)

\* Sequences of items.
LEMMA OnMaps ==
  ASSUME NEW W, NEW I, NEW M \in [I -> Maps(W, W)], NEW s \in Seq(I)
  PROVE  /\ [i \in DOMAIN s |-> M[s[i]]] \in Seq(Maps(W, W))
         /\ On(M, W, s) \in Maps(W, W)
<1>1. Len(s) \in Nat /\ DOMAIN s = 1..Len(s) /\ \A i \in 1..Len(s) : s[i] \in I BY LenProperties, ElementOfSeq
<1>2. \A i \in 1..Len(s) : M[s[i]] \in Maps(W, W) BY <1>1
<1>3. [i \in DOMAIN s |-> M[s[i]]] \in Seq(Maps(W, W)) BY <1>1, <1>2
<1> QED BY <1>3, WalkMaps DEF On

\* One behind the other.
LEMMA OnConcat ==
  ASSUME NEW W, NEW I, NEW M \in [I -> Maps(W, W)], NEW s \in Seq(I), NEW t \in Seq(I), NEW w \in W
  PROVE  On(M, W, s \o t)[w] = Each(On(M, W, s)[w], On(M, W, t))
<1> DEFINE fs(x) == [i \in DOMAIN x |-> M[x[i]]]
<1>1. \A x \in Seq(I) : fs(x) \in Seq(Maps(W, W)) BY OnMaps
<1>2. s \o t \in Seq(I) BY ConcatProperties
<1>3. fs(s \o t) = fs(s) \o fs(t)
  <2>1. \A x \in Seq(I) : Len(x) \in Nat /\ DOMAIN x = 1..Len(x) /\ DOMAIN fs(x) = 1..Len(x) /\ Len(fs(x)) = Len(x)
    <3>1. \A x \in Seq(I) : DOMAIN x = 1..Len(x) /\ Len(x) \in Nat BY LenProperties
    <3> QED BY <3>1
  <2>2. \A x \in Seq(I) : \A i \in 1..Len(x) : fs(x)[i] = M[x[i]] BY <2>1
  <2>3. Len(s \o t) = Len(s) + Len(t) /\ \A i \in 1..Len(s \o t) : (s \o t)[i] = IF i <= Len(s) THEN s[i] ELSE t[i - Len(s)]
    BY ConcatProperties, <2>1
  <2> HIDE DEF fs
  <2>4. /\ fs(s) \o fs(t) \in Seq(Maps(W, W)) /\ Len(fs(s) \o fs(t)) = Len(s) + Len(t)
        /\ \A i \in 1..(Len(s) + Len(t)) : (fs(s) \o fs(t))[i] = IF i <= Len(s) THEN fs(s)[i] ELSE fs(t)[i - Len(s)]
    <3>1. fs(s) \in Seq(Maps(W, W)) /\ fs(t) \in Seq(Maps(W, W)) BY <1>1
    <3>2. /\ fs(s) \o fs(t) \in Seq(Maps(W, W)) /\ Len(fs(s) \o fs(t)) = Len(fs(s)) + Len(fs(t))
          /\ \A i \in 1..(Len(fs(s)) + Len(fs(t))) :
               (fs(s) \o fs(t))[i] = IF i <= Len(fs(s)) THEN fs(s)[i] ELSE fs(t)[i - Len(fs(s))]
      BY <3>1, ConcatProperties
    <3>3. Len(fs(s)) = Len(s) /\ Len(fs(t)) = Len(t) BY <2>1
    <3> QED BY <3>2, <3>3
  <2>5. ASSUME NEW i \in 1..(Len(s) + Len(t)) PROVE fs(s \o t)[i] = (fs(s) \o fs(t))[i]
    <3>1. fs(s \o t)[i] = M[(s \o t)[i]] BY <1>2, <2>2, <2>3
    <3>2. CASE i <= Len(s)
      <4>1. i \in 1..Len(s) BY <2>1, <3>2
      <4> QED BY <2>2, <2>3, <2>4, <3>1, <3>2, <4>1
    <3>3. CASE ~(i <= Len(s))
      <4>1. i - Len(s) \in 1..Len(t) BY <2>1, <3>3
      <4> QED BY <2>2, <2>3, <2>4, <3>1, <3>3, <4>1
    <3> QED BY <3>2, <3>3
  <2> QED BY <1>1, <1>2, <2>1, <2>3, <2>4, <2>5, SeqEqual, ZenonT(60)
<1>4. \A x \in Seq(I) : On(M, W, x) = Walk(fs(x), W) BY DEF On
<1> HIDE DEF fs
<1>5. Through(fs(s) \o fs(t), w) = Each(Through(fs(s), w), Walk(fs(t), W)) BY <1>1, ThroughConcat
<1>6. On(M, W, s \o t)[w] = Through(fs(s) \o fs(t), w)
  <2>1. On(M, W, s \o t) = Walk(fs(s \o t), W) /\ fs(s \o t) \in Seq(Maps(W, W)) BY <1>1, <1>2, <1>4
  <2> QED BY <1>3, <2>1, WalkMaps
<1>7. On(M, W, s)[w] = Through(fs(s), w) BY <1>1, <1>4, WalkMaps
<1> QED BY <1>4, <1>5, <1>6, <1>7

\* Nothing, one item, and one in front.
LEMMA OnFirst ==
  ASSUME NEW W, NEW I, NEW M \in [I -> Maps(W, W)], NEW w \in W
  PROVE  /\ On(M, W, << >>)[w] = <<w>>
         /\ \A x \in I : On(M, W, <<x>>)[w] = M[x][w]
         /\ \A x \in I, s \in Seq(I) : On(M, W, <<x>> \o s)[w] = Each(M[x][w], On(M, W, s))
<1>1. On(M, W, << >>)[w] = <<w>>
  <2>1. [i \in DOMAIN << >> |-> M[<< >>[i]]] = << >> OBVIOUS
  <2>2. On(M, W, << >>) = Walk(<< >>, W) BY <2>1 DEF On
  <2>3. Walk(<< >>, W)[w] = Through(<< >>, w) BY DEF Walk
  <2> QED BY <2>2, <2>3, ThroughGrows
<1>2. ASSUME NEW x \in I PROVE On(M, W, <<x>>)[w] = M[x][w]
  <2>1. [i \in DOMAIN <<x>> |-> M[<<x>>[i]]] = <<M[x]>> OBVIOUS
  <2>2. On(M, W, <<x>>) = Walk(<<M[x]>>, W) BY <2>1 DEF On
  <2>3. Walk(<<M[x]>>, W)[w] = Through(<<M[x]>>, w) BY DEF Walk
  <2>4. M[x] \in Maps(W, W) /\ << >> \in Seq(Maps(W, W)) BY EmptySeq
  <2>5. Append(<< >>, M[x]) = <<M[x]>> OBVIOUS
  <2>6. Through(Append(<< >>, M[x]), w) = Each(Through(<< >>, w), M[x]) BY <2>4, ThroughGrows
  <2>7. Through(<< >>, w) = <<w>> BY ThroughGrows
  <2>8. Each(<<w>>, M[x]) = M[x][w] BY <2>4, EachFirst
  <2> QED BY <2>2, <2>3, <2>5, <2>6, <2>7, <2>8
<1>3. ASSUME NEW x \in I, NEW s \in Seq(I) PROVE On(M, W, <<x>> \o s)[w] = Each(M[x][w], On(M, W, s))
  <2>1. <<x>> \in Seq(I) OBVIOUS
  <2>2. On(M, W, <<x>> \o s)[w] = Each(On(M, W, <<x>>)[w], On(M, W, s)) BY <2>1, OnConcat, ZenonT(60)
  <2> QED BY <1>2, <2>2
<1> QED BY <1>1, <1>2, <1>3

\* Where something that waits goes on from.
LEMMA FromWays ==
  ASSUME NEW p \in Places, NEW c \in AllCaps
  PROVE  [pos |-> p, caps |-> c] \in Way
BY DEF Way, AllCaps, Slots

\* What something that waits comes to.
LEMMA OfferMaps ==
  ASSUME NEW M \in [Items -> Maps(Way, Way)], NEW a \in Alts, NEW rest \in Maps(AllCaps, Way)
  PROVE  Offer(M, Way, a, rest) \in Maps(AllCaps, Way)
<1> DEFINE from(c) == [pos |-> a.pos, caps |-> c]
           arm(c) == [x \in Nodes |-> On(M, Way, <<x>> \o a.k)[from(c)]]
           offer(c) == IF a.a = "undo" THEN rest[[c EXCEPT ![a.index] = a.span]]
                       ELSE IF a.a = "arm" THEN Each(a.arms, arm(c)) \o rest[c]
                       ELSE On(M, Way, a.k)[from(c)] \o rest[c]
<1>1. Offer(M, Way, a, rest) = [c \in AllCaps |-> offer(c)] BY DEF Offer
<1>2. ASSUME NEW c \in AllCaps PROVE offer(c) \in Seq(Way)
  <2>0. rest[c] \in Seq(Way) BY MapsTo
  <2>1. CASE a.a = "undo"
    <3>1. a.index \in 1..Groups /\ a.span \in Slots BY <2>1 DEF Alts, Undos, Arms, Goes
    <3>2. [c EXCEPT ![a.index] = a.span] \in AllCaps BY <3>1 DEF AllCaps
    <3>3. rest[[c EXCEPT ![a.index] = a.span]] \in Seq(Way) BY <3>2, MapsTo
    <3> QED BY <2>1, <3>3
  <2>2. CASE a.a = "arm"
    <3>1. a.arms \in Seq(Nodes) /\ a.pos \in Places /\ a.k \in Seq(Items) BY <2>2 DEF Alts, Undos, Arms, Goes
    <3>2. from(c) \in Way BY <3>1, FromWays
    <3> HIDE DEF from
    <3>3. ASSUME NEW x \in Nodes PROVE On(M, Way, <<x>> \o a.k)[from(c)] \in Seq(Way)
      <4>1. <<x>> \in Seq(Items) BY NodeItems
      <4>2. <<x>> \o a.k \in Seq(Items) BY <3>1, <4>1, ConcatProperties
      <4>3. On(M, Way, <<x>> \o a.k) \in Maps(Way, Way) BY <4>2, OnMaps
      <4> QED BY <3>2, <4>3, MapsTo
    <3>4. arm(c) \in Maps(Nodes, Way) BY <3>3 DEF Maps
    <3> HIDE DEF arm
    <3>5. Each(a.arms, arm(c)) \in Seq(Way) BY <3>1, <3>4, EachGrows
    <3>6. Each(a.arms, arm(c)) \o rest[c] \in Seq(Way) BY <2>0, <3>5, ConcatProperties
    <3> QED BY <2>2, <3>6
  <2>3. CASE a.a \notin {"undo", "arm"}
    <3>1. a.pos \in Places /\ a.k \in Seq(Items) BY <2>3 DEF Alts, Undos, Arms, Goes
    <3>2. from(c) \in Way BY <3>1, FromWays
    <3>3. On(M, Way, a.k) \in Maps(Way, Way) BY <3>1, OnMaps
    <3> HIDE DEF from
    <3>4. On(M, Way, a.k)[from(c)] \in Seq(Way) BY <3>2, <3>3, MapsTo
    <3>5. On(M, Way, a.k)[from(c)] \o rest[c] \in Seq(Way) BY <2>0, <3>4, ConcatProperties
    <3> QED BY <2>3, <3>5
  <2> QED BY <2>1, <2>2, <2>3
<1> HIDE DEF offer
<1> QED BY <1>1, <1>2 DEF Maps

\* There is a number of them for each of ws.
LEMMA LeftChain ==
  ASSUME NEW M \in [Items -> Maps(Way, Way)], NEW ws \in Seq(Alts)
  PROVE  \E u : Awaits(u, M, Way, ws) /\ Left(M, Way, ws) = u[Len(ws)]
<1> DEFINE n == Len(ws)
           V == Maps(AllCaps, Way)
           none == [c \in AllCaps |-> << >>]
           g == [x \in (1..n) \X V |-> Offer(M, Way, ws[x[1]], x[2])]
<1>1. n \in Nat /\ \A i \in 1..n : ws[i] \in Alts BY LenProperties, ElementOfSeq
<1>2. none \in V BY EmptySeq DEF Maps
<1>3. g \in [(1..n) \X V -> V]
  <2>1. ASSUME NEW x \in (1..n) \X V PROVE Offer(M, Way, ws[x[1]], x[2]) \in V
    <3>1. x[2] \in V /\ ws[x[1]] \in Alts BY <1>1
    <3> QED BY <3>1, OfferMaps
  <2> QED BY <2>1
<1>4. PICK u \in [0..n -> V] : Chained(u, none, g, n)
  <2> HIDE DEF g, n, none, V
  <2> QED BY <1>1, <1>2, <1>3, Chain
<1>5. ASSUME NEW i \in 1..n PROVE u[i] = Offer(M, Way, ws[i], u[i - 1])
  <2>1. i - 1 \in 0..n BY <1>1
  <2>2. u[i - 1] \in V BY <1>4, <2>1
  <2>3. g[<<i, u[i - 1]>>] = Offer(M, Way, ws[i], u[i - 1]) BY <2>2
  <2> HIDE DEF g, V
  <2> QED BY <1>4, <2>3 DEF Chained
<1>6. Awaits(u, M, Way, ws) BY <1>4, <1>5 DEF Awaits, Chained
<1> HIDE DEF g, V, none
<1>7. Awaits(CHOOSE v : Awaits(v, M, Way, ws), M, Way, ws) BY <1>6
<1> QED BY <1>7 DEF Left

\* One more waits.
LEMMA LeftGrows ==
  ASSUME NEW M \in [Items -> Maps(Way, Way)]
  PROVE  /\ Left(M, Way, << >>) = [c \in AllCaps |-> << >>]
         /\ \A ws \in Seq(Alts) : Left(M, Way, ws) \in Maps(AllCaps, Way)
         /\ \A ws \in Seq(Alts), a \in Alts : Left(M, Way, Append(ws, a)) = Offer(M, Way, a, Left(M, Way, ws))
<1>1. Left(M, Way, << >>) = [c \in AllCaps |-> << >>]
  <2>1. << >> \in Seq(Alts) /\ Len(<< >>) = 0 BY EmptySeq
  <2>2. PICK u : Awaits(u, M, Way, << >>) /\ Left(M, Way, << >>) = u[Len(<< >>)] BY <2>1, LeftChain
  <2> QED BY <2>1, <2>2 DEF Awaits
<1>2. ASSUME NEW ws \in Seq(Alts) PROVE Left(M, Way, ws) \in Maps(AllCaps, Way)
  <2>1. PICK u : Awaits(u, M, Way, ws) /\ Left(M, Way, ws) = u[Len(ws)] BY LeftChain
  <2>2. Len(ws) \in Nat BY LenProperties
  <2> QED BY <2>1, <2>2 DEF Awaits
<1>3. ASSUME NEW ws \in Seq(Alts), NEW a \in Alts
      PROVE  Left(M, Way, Append(ws, a)) = Offer(M, Way, a, Left(M, Way, ws))
  <2> DEFINE t == Append(ws, a)
             n == Len(ws)
  <2>1. n \in Nat /\ t \in Seq(Alts) /\ Len(t) = n + 1 /\ t[n + 1] = a /\ \A i \in 1..n : t[i] = ws[i]
    BY LenProperties, AppendProperties
  <2> HIDE DEF t
  <2>2. PICK u : Awaits(u, M, Way, ws) /\ Left(M, Way, ws) = u[n] BY LeftChain
  <2>3. PICK v : Awaits(v, M, Way, t) /\ Left(M, Way, t) = v[Len(t)] BY <2>1, LeftChain
  <2> DEFINE P == {i \in Nat : i <= n => u[i] = v[i]}
  <2>4. 0 \in P BY <2>2, <2>3 DEF Awaits
  <2>5. ASSUME NEW i \in Nat, i \in P PROVE i + 1 \in P
    <3> SUFFICES ASSUME i + 1 <= n PROVE u[i + 1] = v[i + 1] OBVIOUS
    <3>1. i + 1 \in 1..n /\ i + 1 \in 1..Len(t) /\ (i + 1) - 1 = i BY <2>1
    <3>2. t[i + 1] = ws[i + 1] /\ u[i] = v[i] BY <2>1, <2>5, <3>1
    <3> QED BY <2>2, <2>3, <3>1, <3>2 DEF Awaits
  <2> HIDE DEF P
  <2>6. n \in P BY <2>1, <2>4, <2>5, EveryNat
  <2>7. u[n] = v[n] BY <2>6 DEF P
  <2>8. v[n + 1] = Offer(M, Way, a, v[n])
    <3>1. n + 1 \in 1..Len(t) /\ (n + 1) - 1 = n BY <2>1
    <3> QED BY <2>1, <2>3, <3>1 DEF Awaits
  <2> QED BY <2>1, <2>2, <2>3, <2>7, <2>8 DEF t
<1> QED BY <1>1, <1>2, <1>3

\* The latest is offered first.
LEMMA LeftLatest ==
  ASSUME NEW M \in [Items -> Maps(Way, Way)], NEW ws \in Seq(Alts), ws # << >>
  PROVE  /\ ws[Len(ws)] \in Alts /\ SubSeq(ws, 1, Len(ws) - 1) \in Seq(Alts)
         /\ ws = Append(SubSeq(ws, 1, Len(ws) - 1), ws[Len(ws)])
         /\ Left(M, Way, ws) = Offer(M, Way, ws[Len(ws)], Left(M, Way, SubSeq(ws, 1, Len(ws) - 1)))
<1>1. PICK s \in Seq(Alts), a \in Alts : ws = Append(s, a) BY SequenceEmptyOrAppend
<1>2. Len(ws) = Len(s) + 1 /\ ws[Len(ws)] = a /\ Len(s) \in Nat BY <1>1, AppendProperties, LenProperties
<1>3. SubSeq(ws, 1, Len(ws) - 1) = s
  <2>1. Len(ws) - 1 = Len(s) BY <1>2
  <2>2. \A i \in 1..Len(s) : ws[i] = s[i] /\ s[i] \in Alts BY <1>1, AppendProperties, ElementOfSeq
  <2>3. \A i \in 1..Len(s) : ws[i] \in Alts BY <2>2
  <2>4. SubSeq(ws, 1, Len(s)) \in Seq(Alts) /\ Len(SubSeq(ws, 1, Len(s))) = Len(s)
        /\ \A i \in 1..Len(s) : SubSeq(ws, 1, Len(s))[i] = ws[i]
    <3>1. /\ SubSeq(ws, 1, Len(s)) \in Seq(Alts)
          /\ Len(SubSeq(ws, 1, Len(s))) = IF 1 <= Len(s) THEN Len(s) - 1 + 1 ELSE 0
          /\ \A i \in 1..(Len(s) - 1 + 1) : SubSeq(ws, 1, Len(s))[i] = ws[1 + i - 1]
      BY <1>2, <2>3, SubSeqProperties
    <3> QED BY <1>2, <3>1
  <2> QED BY <2>1, <2>2, <2>4, SeqEqual
<1> QED BY <1>1, <1>2, <1>3, LeftGrows

(***************************************************************************)
(* What a pattern comes to does not depend on what was captured before: a  *)
(* group that is still to be closed will be set, whatever it holds.        *)
(***************************************************************************)
\* The same but for what group i holds.
But(i, w, v) == w.pos = v.pos /\ \A j \in 1..Groups : j # i => w.caps[j] = v.caps[j]
Alike(i, s, t) == Len(s) = Len(t) /\ \A l \in 1..Len(s) : But(i, s[l], t[l])
Blind(i, f) == \A w, v \in Way : But(i, w, v) => Alike(i, f[w], f[v])

\* R relates what is put together of what it relates.
Composes(R, B) ==
  /\ <<<< >>, << >>>> \in R
  /\ \A a, b, c, d \in Seq(B) : <<a, b>> \in R /\ <<c, d>> \in R => <<a \o c, b \o d>> \in R

\* Two sequences, element by element.
Matched(s, t, f, g, R) == Len(s) = Len(t) /\ \A l \in 1..Len(s) : <<f[s[l]], g[t[l]]>> \in R

\* What each of two sequences comes to is related when its elements are.
LEMMA EachRelated ==
  ASSUME NEW A, NEW B, NEW f \in Maps(A, B), NEW g \in Maps(A, B), NEW R, Composes(R, B)
  PROVE  \A s, t \in Seq(A) : Matched(s, t, f, g, R) => <<Each(s, f), Each(t, g)>> \in R
<1> DEFINE Both(s, t) == Len(s) = Len(t) /\ \A l \in 1..Len(s) : <<f[s[l]], g[t[l]]>> \in R
           P == {s \in Seq(A) : \A t \in Seq(A) : Both(s, t) => <<Each(s, f), Each(t, g)>> \in R}
<1>1. << >> \in P
  <2>1. Each(<< >>, f) = << >> /\ Each(<< >>, g) = << >> BY EachGrows
  <2>2. \A t \in Seq(A) : Len(<< >>) = Len(t) => t = << >> BY EmptySeq
  <2> QED BY <2>1, <2>2, EmptySeq DEF Composes
<1>2. ASSUME NEW s \in Seq(A), NEW x \in A, s \in P PROVE Append(s, x) \in P
  <2>1. Append(s, x) \in Seq(A) BY AppendProperties
  <2> SUFFICES ASSUME NEW t \in Seq(A), Both(Append(s, x), t) PROVE <<Each(Append(s, x), f), Each(t, g)>> \in R
    BY <2>1
  <2>2. t # << >> BY AppendProperties, LenProperties, EmptySeq
  <2>3. PICK q \in Seq(A), y \in A : t = Append(q, y) BY <2>2, SequenceEmptyOrAppend
  <2>4. /\ Len(Append(s, x)) = Len(s) + 1 /\ Len(Append(q, y)) = Len(q) + 1 /\ Len(s) \in Nat /\ Len(q) \in Nat
        /\ \A l \in 1..Len(s) : Append(s, x)[l] = s[l]
        /\ \A l \in 1..Len(q) : Append(q, y)[l] = q[l]
        /\ Append(s, x)[Len(s) + 1] = x /\ Append(q, y)[Len(q) + 1] = y
    BY AppendProperties, LenProperties
  <2>5. Len(s) = Len(q) BY <2>3, <2>4
  <2>6. <<f[x], g[y]>> \in R
    <3>1. Len(s) + 1 \in 1..Len(Append(s, x)) BY <2>4
    <3>2. <<f[Append(s, x)[Len(s) + 1]], g[Append(q, y)[Len(s) + 1]]>> \in R BY <2>3, <3>1
    <3> QED BY <2>4, <2>5, <3>2
  <2>7. Both(s, q)
    <3>1. ASSUME NEW l \in 1..Len(s) PROVE <<f[s[l]], g[q[l]]>> \in R
      <4>1. l \in 1..Len(Append(s, x)) /\ l \in 1..Len(q) BY <2>4, <2>5
      <4>2. <<f[Append(s, x)[l]], g[Append(q, y)[l]]>> \in R BY <2>3, <4>1
      <4> QED BY <2>4, <4>1, <4>2
    <3> QED BY <2>5, <3>1
  <2>8. <<Each(s, f), Each(q, g)>> \in R BY <1>2, <2>7
  <2>9. /\ Each(Append(s, x), f) = Each(s, f) \o f[x] /\ Each(t, g) = Each(q, g) \o g[y]
        /\ Each(s, f) \in Seq(B) /\ f[x] \in Seq(B) /\ Each(q, g) \in Seq(B) /\ g[y] \in Seq(B)
    BY <2>3, EachGrows, MapsTo
  <2> QED BY <2>6, <2>8, <2>9 DEF Composes
<1> HIDE DEF P, Both
<1>3. \A s \in Seq(A) : s \in P BY <1>1, <1>2, EverySeq
<1> QED BY <1>3 DEF P, Both, Matched

\* Sequences alike, one behind the other.
LEMMA AlikeConcat ==
  ASSUME NEW i, NEW a \in Seq(Way), NEW b \in Seq(Way), NEW c \in Seq(Way), NEW d \in Seq(Way),
         Alike(i, a, b), Alike(i, c, d)
  PROVE  Alike(i, a \o c, b \o d)
<1>1. /\ Len(a) \in Nat /\ Len(b) = Len(a) /\ Len(c) \in Nat /\ Len(d) = Len(c)
      /\ Len(a \o c) = Len(a) + Len(c) /\ Len(b \o d) = Len(a) + Len(c)
  <2>1. Len(a) \in Nat /\ Len(c) \in Nat BY LenProperties
  <2>2. Len(b) = Len(a) /\ Len(d) = Len(c) BY DEF Alike
  <2>3. Len(a \o c) = Len(a) + Len(c) BY ConcatProperties
  <2>4. Len(b \o d) = Len(b) + Len(d) BY ConcatProperties
  <2> QED BY <2>1, <2>2, <2>3, <2>4
<1>2. ASSUME NEW l \in 1..(Len(a) + Len(c)) PROVE But(i, (a \o c)[l], (b \o d)[l])
  <2>1. (a \o c)[l] = IF l <= Len(a) THEN a[l] ELSE c[l - Len(a)] BY ConcatProperties
  <2>2. (b \o d)[l] = IF l <= Len(a) THEN b[l] ELSE d[l - Len(a)] BY <1>1, ConcatProperties
  <2>3. CASE l <= Len(a)
    <3>1. l \in 1..Len(a) BY <1>1, <2>3
    <3> QED BY <2>1, <2>2, <2>3, <3>1 DEF Alike
  <2>4. CASE ~(l <= Len(a))
    <3>1. l - Len(a) \in 1..Len(c) BY <1>1, <2>4
    <3> QED BY <2>1, <2>2, <2>4, <3>1 DEF Alike
  <2> QED BY <2>3, <2>4
<1> QED BY <1>1, <1>2 DEF Alike

\* Each of elements that come to what is alike.
LEMMA AlikeEach ==
  ASSUME NEW i, NEW A, NEW f \in Maps(A, Way), NEW g \in Maps(A, Way), NEW s \in Seq(A), NEW t \in Seq(A),
         Len(s) = Len(t), \A l \in 1..Len(s) : Alike(i, f[s[l]], g[t[l]])
  PROVE  Alike(i, Each(s, f), Each(t, g))
<1> DEFINE R == {p \in Seq(Way) \X Seq(Way) : Alike(i, p[1], p[2])}
<1>1. \A a, b \in Seq(Way) : <<a, b>> \in R <=> Alike(i, a, b) OBVIOUS
<1> HIDE DEF R
<1>2. <<<< >>, << >>>> \in R
  <2>1. Alike(i, << >>, << >>) BY EmptySeq DEF Alike
  <2> QED BY <1>1, <2>1, EmptySeq
<1>3. \A a, b, c, d \in Seq(Way) : <<a, b>> \in R /\ <<c, d>> \in R => <<a \o c, b \o d>> \in R
  BY <1>1, AlikeConcat, ConcatProperties
<1>4. \A l \in 1..Len(s) : <<f[s[l]], g[t[l]]>> \in R
  <2>1. \A l \in 1..Len(s) : s[l] \in A /\ t[l] \in A BY ElementOfSeq
  <2>2. \A l \in 1..Len(s) : f[s[l]] \in Seq(Way) /\ g[t[l]] \in Seq(Way) BY <2>1, MapsTo
  <2> QED BY <1>1, <2>2
<1>5. Composes(R, Way) BY <1>2, <1>3 DEF Composes
<1>6. Matched(s, t, f, g, R) BY <1>4 DEF Matched
<1>7. <<Each(s, f), Each(t, g)>> \in R BY <1>5, <1>6, EachRelated
<1> QED BY <1>1, <1>7, EachGrows

\* And of elements that come to the same.
LEMMA EachEqual ==
  ASSUME NEW A, NEW B, NEW f \in Maps(A, B), NEW s \in Seq(A), NEW t \in Seq(A),
         Len(s) = Len(t), \A l \in 1..Len(s) : f[s[l]] = f[t[l]]
  PROVE  Each(s, f) = Each(t, f)
<1> DEFINE R == {<<a, a>> : a \in Seq(B)}
<1>1. \A a, b \in Seq(B) : <<a, b>> \in R <=> a = b OBVIOUS
<1> HIDE DEF R
<1>2. <<<< >>, << >>>> \in R BY <1>1, EmptySeq
<1>3. \A a, b, c, d \in Seq(B) : <<a, b>> \in R /\ <<c, d>> \in R => <<a \o c, b \o d>> \in R
  BY <1>1, ConcatProperties
<1>4. \A l \in 1..Len(s) : <<f[s[l]], f[t[l]]>> \in R
  <2>1. \A l \in 1..Len(s) : s[l] \in A /\ t[l] \in A BY ElementOfSeq
  <2>2. \A l \in 1..Len(s) : f[s[l]] \in Seq(B) /\ f[t[l]] \in Seq(B) BY <2>1, MapsTo
  <2> QED BY <1>1, <2>2
<1>5. Composes(R, B) BY <1>2, <1>3 DEF Composes
<1>6. Matched(s, t, f, f, R) BY <1>4 DEF Matched
<1>7. <<Each(s, f), Each(t, f)>> \in R BY <1>5, <1>6, EachRelated
<1> QED BY <1>1, <1>7, EachGrows

\* What is blind, one behind the other.
LEMMA BlindThrough ==
  ASSUME NEW i
  PROVE  \A fs \in Seq(Maps(Way, Way)) : (\A l \in 1..Len(fs) : Blind(i, fs[l])) => Blind(i, Walk(fs, Way))
<1> DEFINE All(fs) == \A l \in 1..Len(fs) : Blind(i, fs[l])
           P == {fs \in Seq(Maps(Way, Way)) : All(fs) => Blind(i, Walk(fs, Way))}
<1>1. << >> \in P
  <2>1. \A w \in Way : Walk(<< >>, Way)[w] = <<w>> BY ThroughGrows DEF Walk
  <2>2. \A w, v \in Way : But(i, w, v) => Alike(i, <<w>>, <<v>>) BY DEF Alike
  <2>3. Blind(i, Walk(<< >>, Way)) BY <2>1, <2>2 DEF Blind
  <2> QED BY <2>3, EmptySeq
<1>2. ASSUME NEW fs \in Seq(Maps(Way, Way)), NEW f \in Maps(Way, Way), fs \in P PROVE Append(fs, f) \in P
  <2>1. /\ Append(fs, f) \in Seq(Maps(Way, Way)) /\ Len(Append(fs, f)) = Len(fs) + 1 /\ Len(fs) \in Nat
        /\ Append(fs, f)[Len(fs) + 1] = f /\ \A l \in 1..Len(fs) : Append(fs, f)[l] = fs[l]
    BY AppendProperties, LenProperties
  <2> SUFFICES ASSUME All(Append(fs, f)), NEW w \in Way, NEW v \in Way, But(i, w, v)
               PROVE  Alike(i, Walk(Append(fs, f), Way)[w], Walk(Append(fs, f), Way)[v])
    BY <2>1 DEF Blind
  <2>2. Blind(i, f)
    <3>1. Len(fs) + 1 \in 1..Len(Append(fs, f)) BY <2>1
    <3>2. Blind(i, Append(fs, f)[Len(fs) + 1]) BY <3>1
    <3> QED BY <2>1, <3>2
  <2>3. All(fs)
    <3>1. ASSUME NEW l \in 1..Len(fs) PROVE Blind(i, fs[l])
      <4>1. l \in 1..Len(Append(fs, f)) BY <2>1
      <4>2. Blind(i, Append(fs, f)[l]) BY <4>1
      <4> QED BY <2>1, <4>2
    <3> QED BY <3>1
  <2>4. Alike(i, Through(fs, w), Through(fs, v)) BY <1>2, <2>3, WalkMaps DEF Blind
  <2>5. /\ Walk(Append(fs, f), Way)[w] = Each(Through(fs, w), f)
        /\ Walk(Append(fs, f), Way)[v] = Each(Through(fs, v), f)
    <3>1. \A x \in Way : Walk(Append(fs, f), Way)[x] = Through(Append(fs, f), x) BY <2>1, WalkMaps
    <3>2. \A x \in Way : Through(Append(fs, f), x) = Each(Through(fs, x), f) BY ThroughGrows
    <3> QED BY <3>1, <3>2
  <2>6. Through(fs, w) \in Seq(Way) /\ Through(fs, v) \in Seq(Way) BY ThroughGrows
  <2>7. ASSUME NEW l \in 1..Len(Through(fs, w)) PROVE Alike(i, f[Through(fs, w)[l]], f[Through(fs, v)[l]])
    <3>1. Through(fs, w)[l] \in Way /\ Through(fs, v)[l] \in Way BY <2>4, <2>6, ElementOfSeq DEF Alike
    <3> QED BY <2>2, <2>4, <3>1 DEF Alike, Blind
  <2>8. Len(Through(fs, w)) = Len(Through(fs, v)) BY <2>4 DEF Alike
  <2> QED BY <2>5, <2>6, <2>7, <2>8, AlikeEach
<1> HIDE DEF P
<1>3. \A fs \in Seq(Maps(Way, Way)) : fs \in P BY <1>1, <1>2, EverySeq
<1> QED BY <1>3 DEF P

\* A capture set in both.
LEMMA ButSet ==
  ASSUME NEW i, NEW w \in Way, NEW v \in Way, But(i, w, v), NEW index \in 1..Groups, NEW span \in Slots
  PROVE  /\ [w EXCEPT !.caps[index] = span] \in Way /\ [v EXCEPT !.caps[index] = span] \in Way
         /\ But(i, [w EXCEPT !.caps[index] = span], [v EXCEPT !.caps[index] = span])
<1>1. [w EXCEPT !.caps[index] = span] \in Way /\ [v EXCEPT !.caps[index] = span] \in Way BY WaysMoved DEF Slots
<1>2. /\ w = [pos |-> w.pos, caps |-> w.caps] /\ v = [pos |-> v.pos, caps |-> v.caps]
      /\ w.caps \in AllCaps /\ v.caps \in AllCaps
  BY DEF Way, AllCaps, Slots
<1>3. /\ [w EXCEPT !.caps[index] = span] = [pos |-> w.pos, caps |-> [w.caps EXCEPT ![index] = span]]
      /\ [v EXCEPT !.caps[index] = span] = [pos |-> v.pos, caps |-> [v.caps EXCEPT ![index] = span]]
  BY <1>2
<1>4. w.pos = v.pos /\ \A j \in 1..Groups : j # i => w.caps[j] = v.caps[j] BY DEF But
<1>5. \A c \in AllCaps, j \in 1..Groups : [c EXCEPT ![index] = span][j] = IF j = index THEN span ELSE c[j]
  BY DEF AllCaps
<1>6. But(i, [w EXCEPT !.caps[index] = span], [v EXCEPT !.caps[index] = span])
  BY <1>2, <1>3, <1>4, <1>5 DEF But
<1> QED BY <1>1, <1>6

\* With capture i set.
SetTo(w, i, span) == [w EXCEPT !.caps[i] = span]

\* The capture set in both: they are the same.
LEMMA ButSame ==
  ASSUME NEW i \in 1..Groups, NEW w \in Way, NEW v \in Way, But(i, w, v), NEW span \in Slots
  PROVE  SetTo(w, i, span) = SetTo(v, i, span)
<1>1. /\ w = [pos |-> w.pos, caps |-> w.caps] /\ v = [pos |-> v.pos, caps |-> v.caps]
      /\ w.caps \in AllCaps /\ v.caps \in AllCaps
  BY DEF Way, AllCaps, Slots
<1>2. w.pos = v.pos /\ \A j \in 1..Groups : j # i => w.caps[j] = v.caps[j] BY DEF But
<1>3. [w.caps EXCEPT ![i] = span] = [v.caps EXCEPT ![i] = span] BY <1>1, <1>2 DEF AllCaps
<1> QED BY <1>1, <1>2, <1>3 DEF SetTo

\* One way, and none.
LEMMA AlikeFew ==
  ASSUME NEW i
  PROVE  Alike(i, << >>, << >>) /\ \A w, v \in Way : But(i, w, v) => Alike(i, <<w>>, <<v>>)
BY EmptySeq DEF Alike

\* A repeat, whatever may be left of its turns.
LEMMA BlindTurns ==
  ASSUME NEW i, NEW rep, rep.max \in Nat, NEW f \in Maps(Way, Way), Blind(i, f)
  PROVE  \A left \in 0..rep.max : Blind(i, Turns(rep, f)[left])
<1> DEFINE T(left) == Turns(rep, f)[left]
           P == {left \in Nat : left <= rep.max => Blind(i, T(left))}
<1>1. ASSUME NEW left \in Nat, NEW h, left # 0 => h \in Maps(Way, Way) /\ Blind(i, h),
             NEW w \in Way, NEW v \in Way, But(i, w, v)
      PROVE  Alike(i, TurnOrStop(rep, f, h, left, w), TurnOrStop(rep, f, h, left, v))
  <2> DEFINE stop(x) == IF rep.max - left >= rep.min THEN <<x>> ELSE << >>
             more(x) == IF left = 0 THEN << >> ELSE Each(f[x], Taking(x, h))
  <2>1. Alike(i, stop(w), stop(v)) BY <1>1, AlikeFew
  <2>2. ASSUME left # 0 PROVE Alike(i, Each(f[w], Taking(w, h)), Each(f[v], Taking(v, h)))
    <3>1. f[w] \in Seq(Way) /\ f[v] \in Seq(Way) BY MapsTo
    <3>2. Alike(i, f[w], f[v]) BY <1>1 DEF Blind
    <3>3. Taking(w, h) \in Maps(Way, Way) /\ Taking(v, h) \in Maps(Way, Way) BY <1>1, <2>2, TakingMaps
    <3>4. ASSUME NEW l \in 1..Len(f[w]) PROVE Alike(i, Taking(w, h)[f[w][l]], Taking(v, h)[f[v][l]])
      <4>1. f[w][l] \in Way /\ f[v][l] \in Way BY <3>1, <3>2, ElementOfSeq DEF Alike
      <4>2. But(i, f[w][l], f[v][l]) BY <3>2 DEF Alike
      <4>3. Alike(i, h[f[w][l]], h[f[v][l]]) BY <1>1, <2>2, <4>1, <4>2 DEF Blind
      <4>4. f[w][l].pos = f[v][l].pos /\ w.pos = v.pos BY <1>1, <4>2 DEF But
      <4>5. \A x \in Way, y \in Way : Taking(x, h)[y] = IF y.pos = x.pos THEN << >> ELSE h[y] BY DEF Taking
      <4> QED BY <4>1, <4>3, <4>4, <4>5, AlikeFew
    <3>5. Len(f[w]) = Len(f[v]) BY <3>2 DEF Alike
    <3> QED BY <3>1, <3>3, <3>4, <3>5, AlikeEach
  <2>3. Alike(i, more(w), more(v)) BY <2>2, AlikeFew
  <2>4. stop(w) \in Seq(Way) /\ stop(v) \in Seq(Way) BY EmptySeq
  <2>5. more(w) \in Seq(Way) /\ more(v) \in Seq(Way)
    <3>1. ASSUME NEW x \in Way, left # 0 PROVE Each(f[x], Taking(x, h)) \in Seq(Way)
      BY <1>1, <3>1, MapsTo, TakingMaps, EachGrows
    <3> QED BY <3>1, EmptySeq
  <2>6. \A x : TurnOrStop(rep, f, h, left, x) = IF rep.greedy THEN more(x) \o stop(x) ELSE stop(x) \o more(x)
    BY DEF TurnOrStop
  <2> HIDE DEF stop, more
  <2>7. Alike(i, more(w) \o stop(w), more(v) \o stop(v)) BY <2>1, <2>3, <2>4, <2>5, AlikeConcat
  <2>8. Alike(i, stop(w) \o more(w), stop(v) \o more(v)) BY <2>1, <2>3, <2>4, <2>5, AlikeConcat
  <2>9. CASE rep.greedy
    <3>1. TurnOrStop(rep, f, h, left, w) = more(w) \o stop(w) BY <2>6, <2>9
    <3>2. TurnOrStop(rep, f, h, left, v) = more(v) \o stop(v) BY <2>6, <2>9
    <3> QED BY <2>7, <3>1, <3>2, Zenon
  <2>10. CASE ~rep.greedy
    <3>1. TurnOrStop(rep, f, h, left, w) = stop(w) \o more(w) BY <2>6, <2>10
    <3>2. TurnOrStop(rep, f, h, left, v) = stop(v) \o more(v) BY <2>6, <2>10
    <3> QED BY <2>8, <3>1, <3>2, Zenon
  <2> QED BY <2>9, <2>10
<1>2. \A left \in 0..rep.max, w \in Way : T(left)[w] = TurnOrStop(rep, f, Turns(rep, f)[left - 1], left, w)
  BY TurnsFacts
<1>3. \A left \in 0..rep.max : T(left) \in Maps(Way, Way) BY TurnsFacts
<1>4. 0 \in P
  <2>1. 0 \in Nat /\ 0 \in 0..rep.max OBVIOUS
  <2>2. \A w, v \in Way : But(i, w, v) =>
          Alike(i, TurnOrStop(rep, f, Turns(rep, f)[0 - 1], 0, w), TurnOrStop(rep, f, Turns(rep, f)[0 - 1], 0, v))
    BY <1>1, <2>1
  <2> QED BY <1>2, <2>1, <2>2 DEF Blind
<1>5. ASSUME NEW left \in Nat, left \in P PROVE left + 1 \in P
  <2> SUFFICES ASSUME left + 1 <= rep.max PROVE Blind(i, T(left + 1)) OBVIOUS
  <2>1. left + 1 \in 0..rep.max /\ left \in 0..rep.max /\ (left + 1) - 1 = left /\ left + 1 \in Nat OBVIOUS
  <2>2. T(left) \in Maps(Way, Way) /\ Blind(i, T(left)) BY <1>3, <1>5, <2>1
  <2> HIDE DEF T
  <2>3. \A w, v \in Way : But(i, w, v) =>
          Alike(i, TurnOrStop(rep, f, T(left), left + 1, w), TurnOrStop(rep, f, T(left), left + 1, v))
    BY <1>1, <2>1, <2>2
  <2>4. \A w \in Way : T(left + 1)[w] = TurnOrStop(rep, f, T(left), left + 1, w) BY <1>2, <2>1 DEF T
  <2> QED BY <2>3, <2>4 DEF Blind
<1> HIDE DEF P
<1>6. \A left \in Nat : left \in P BY <1>4, <1>5, EveryNat
<1> QED BY <1>6 DEF P

\* A node, when those it owns are.
LEMMA BlindGiven ==
  ASSUME text \in Texts, NEW i, NEW ways \in [Nodes -> Maps(Way, Way)], NEW node \in Nodes,
         \A x \in Under(node) : Blind(i, ways[x])
  PROVE  Blind(i, WaysGiven(ways, node))
<1> SUFFICES ASSUME NEW w \in Way, NEW v \in Way, But(i, w, v)
             PROVE  Alike(i, WaysGiven(ways, node)[w], WaysGiven(ways, node)[v])
  BY DEF Blind
<1>0. w.pos = v.pos BY DEF But
<1>1. CASE node.n \in {"char", "any", "class"}
  <2> DEFINE past(x) == [x EXCEPT !.pos = @ + 1]
  <2>1. \A x \in Way : WaysGiven(ways, node)[x] = IF x.pos < Len(text) /\ Accepts(node, text[x.pos + 1])
                                                  THEN <<past(x)>> ELSE << >>
    BY <1>1 DEF WaysGiven
  <2>2. But(i, past(w), past(v))
    <3>1. /\ past(w).pos = w.pos + 1 /\ past(w).caps = w.caps
          /\ past(v).pos = v.pos + 1 /\ past(v).caps = v.caps
      BY DEF Way
    <3> QED BY <1>0, <3>1 DEF But
  <2> HIDE DEF past
  <2>3. Alike(i, <<past(w)>>, <<past(v)>>) BY <2>2 DEF Alike
  <2> QED BY <1>0, <2>1, <2>3, AlikeFew
<1>2. CASE node.n \in {"empty", "start", "end", "boundary"}
  <2>1. \A x \in Way : WaysGiven(ways, node)[x] = IF AtPlace(node, x.pos) THEN <<x>> ELSE << >>
    BY <1>2 DEF WaysGiven
  <2> QED BY <1>0, <2>1, AlikeFew
<1>3. CASE node.n = "group"
  <2> DEFINE end(x) == [u \in Way |-> <<Captured(node, x.pos, u)>>]
             f == ways[node.inner]
  <2>1. \A x \in Way : WaysGiven(ways, node)[x] = Each(f[x], end(x)) BY <1>3 DEF WaysGiven
  <2>2. \A x \in Way : end(x) \in Maps(Way, Way) BY <1>3, ClosedMaps
  <2>3. f \in Maps(Way, Way) BY <1>3, NodesAssumption
  <2>4. Blind(i, f) BY <1>3 DEF Under
  <2>5. f[w] \in Seq(Way) /\ f[v] \in Seq(Way) BY <2>3, MapsTo
  <2>6. Alike(i, f[w], f[v]) BY <2>4 DEF Blind
  <2>7. ASSUME NEW l \in 1..Len(f[w]) PROVE Alike(i, end(w)[f[w][l]], end(v)[f[v][l]])
    <3>1. f[w][l] \in Way /\ f[v][l] \in Way BY <2>5, <2>6, ElementOfSeq DEF Alike
    <3>2. But(i, f[w][l], f[v][l]) BY <2>6 DEF Alike
    <3> DEFINE a == f[w][l]
               b == f[v][l]
    <3>3. end(w)[a] = <<Captured(node, w.pos, a)>> /\ end(v)[b] = <<Captured(node, v.pos, b)>> BY <3>1
    <3> HIDE DEF end, f
    <3>4. a.pos = b.pos BY <3>2 DEF But
    <3>5. But(i, Captured(node, w.pos, a), Captured(node, v.pos, b))
      <4>1. CASE ~Captures(node) BY <3>2, <4>1 DEF Captured
      <4>2. CASE Captures(node)
        <5>1. node.index \in 1..Groups BY <1>3, <4>2, NodesAssumption, BoundsAssumption DEF Captures
        <5>2. w.pos \in Nat /\ a.pos \in Nat BY <3>1, WaysMoved
        <5>3. <<w.pos, a.pos>> \in Slots BY <5>2 DEF Slots
        <5>4. But(i, [a EXCEPT !.caps[node.index] = <<w.pos, a.pos>>], [b EXCEPT !.caps[node.index] = <<w.pos, a.pos>>])
          BY <3>1, <3>2, <5>1, <5>3, ButSet
        <5> QED BY <1>0, <3>4, <4>2, <5>4 DEF Captured
      <4> QED BY <4>1, <4>2
    <3>6. Alike(i, <<Captured(node, w.pos, a)>>, <<Captured(node, v.pos, b)>>) BY <3>5 DEF Alike
    <3> QED BY <3>3, <3>6
  <2>8. Len(f[w]) = Len(f[v]) BY <2>6 DEF Alike
  <2> HIDE DEF f, end
  <2>9. Alike(i, Each(f[w], end(w)), Each(f[v], end(v))) BY <2>2, <2>5, <2>7, <2>8, AlikeEach
  <2> QED BY <2>1, <2>9
<1>4. CASE node.n = "concat"
  <2> DEFINE fs == [l \in DOMAIN node.parts |-> ways[node.parts[l]]]
  <2>1. fs \in Seq(Maps(Way, Way)) BY <1>4, NodesAssumption, PartsMaps
  <2>2. \A x \in Way : WaysGiven(ways, node)[x] = Through(fs, x) BY <1>4 DEF WaysGiven
  <2>3. \A l \in 1..Len(fs) : Blind(i, fs[l])
    <3>1. Len(fs) \in Nat /\ DOMAIN fs = 1..Len(fs) BY <2>1, LenProperties
    <3>2. DOMAIN fs = DOMAIN node.parts OBVIOUS
    <3>3. \A l \in DOMAIN node.parts : node.parts[l] \in Under(node) BY <1>4 DEF Under
    <3> QED BY <3>1, <3>2, <3>3
  <2> HIDE DEF fs
  <2>4. Blind(i, Walk(fs, Way)) BY <2>1, <2>3, BlindThrough
  <2>5. Alike(i, Walk(fs, Way)[w], Walk(fs, Way)[v]) BY <2>4 DEF Blind
  <2> QED BY <2>1, <2>2, <2>5, WalkMaps
<1>5. CASE node.n = "alt"
  <2> DEFINE arms(x) == [arm \in Under(node) |-> ways[arm][x]]
             s == node.arms
             A == Under(node)
  <2>1. \A x \in Way : WaysGiven(ways, node)[x] = Each(s, arms(x)) BY <1>5 DEF WaysGiven
  <2>2. \A x \in Way : arms(x) \in Maps(A, Way) BY UnderNodes, ArmsMaps
  <2>3. s \in Seq(A) BY <1>5, UnderNodes
  <2>4. ASSUME NEW l \in 1..Len(s) PROVE Alike(i, arms(w)[s[l]], arms(v)[s[l]])
    <3>1. s[l] \in A BY <2>3, ElementOfSeq
    <3>2. Blind(i, ways[s[l]]) BY <3>1
    <3>3. Alike(i, ways[s[l]][w], ways[s[l]][v]) BY <3>2 DEF Blind
    <3> QED BY <3>1, <3>3
  <2> HIDE DEF arms, A, s
  <2>5. Alike(i, Each(s, arms(w)), Each(s, arms(v))) BY <2>2, <2>3, <2>4, AlikeEach
  <2> QED BY <2>1, <2>5
<1>6. CASE node.n = "repeat"
  <2>1. node.inner \in Nodes /\ node.max \in Nat /\ node.max \in 0..node.max BY <1>6, NodesAssumption
  <2>2. ways[node.inner] \in Maps(Way, Way) /\ Blind(i, ways[node.inner]) BY <1>6, <2>1 DEF Under
  <2>3. Blind(i, Turns(node, ways[node.inner])[node.max]) BY <2>1, <2>2, BlindTurns
  <2>4. WaysGiven(ways, node) = Turns(node, ways[node.inner])[node.max] BY <1>6 DEF WaysGiven
  <2> QED BY <2>3, <2>4 DEF Blind
<1> QED BY <1>1, <1>2, <1>3, <1>4, <1>5, <1>6, EveryKind

\* Every item of k.
LEMMA BlindItems ==
  ASSUME text \in Texts, NEW i
  PROVE  \A x \in Items : Blind(i, Meaning[x])
<1> DEFINE P == {n \in Nodes : Blind(i, Ways[n])}
<1>1. ASSUME NEW n \in Nodes, \A x \in Under(n) : x \in P PROVE n \in P
  <2>1. \A x \in Under(n) : Blind(i, Ways[x]) BY <1>1
  <2>2. Blind(i, WaysGiven(Ways, n)) BY <2>1, WaysFacts, BlindGiven
  <2> QED BY <2>2, WaysFacts
<1> HIDE DEF P
<1>2. \A n \in Nodes : n \in P BY <1>1, EveryNode
<1>3. \A n \in Nodes : Blind(i, Ways[n]) BY <1>2 DEF P
<1>4. ASSUME NEW x \in Closes PROVE Blind(i, Meaning[x])
  <2> SUFFICES ASSUME NEW w \in Way, NEW v \in Way, But(i, w, v) PROVE Alike(i, Meaning[x][w], Meaning[x][v])
    BY DEF Blind
  <2>1. x.index \in 1..Groups /\ x.from \in Nat BY DEF Closes
  <2>2. w.pos \in Nat /\ w.pos = v.pos BY WaysMoved DEF But
  <2>3. <<x.from, w.pos>> \in Slots BY <2>1, <2>2 DEF Slots
  <2>4. /\ [w EXCEPT !.caps[x.index] = <<x.from, w.pos>>] \in Way
        /\ [v EXCEPT !.caps[x.index] = <<x.from, w.pos>>] \in Way
        /\ But(i, [w EXCEPT !.caps[x.index] = <<x.from, w.pos>>], [v EXCEPT !.caps[x.index] = <<x.from, w.pos>>])
    BY <2>1, <2>3, ButSet
  <2>5. /\ Meaning[x][w] = <<[w EXCEPT !.caps[x.index] = <<x.from, w.pos>>]>>
        /\ Meaning[x][v] = <<[v EXCEPT !.caps[x.index] = <<x.from, w.pos>>]>>
    BY <2>2, MeaningFacts
  <2> QED BY <2>4, <2>5, AlikeFew
<1>5. ASSUME NEW x \in Agains PROVE Blind(i, Meaning[x])
  <2> SUFFICES ASSUME NEW w \in Way, NEW v \in Way, But(i, w, v) PROVE Alike(i, Meaning[x][w], Meaning[x][v])
    BY DEF Blind
  <2> DEFINE left == x.rep.max - (x.done + 1)
             f == Ways[x.rep.inner]
  <2>1. x.rep \in Nodes /\ x.rep.n = "repeat" /\ x.done \in Nat /\ x.done < x.rep.max BY DEF Agains
  <2>2. x.rep.inner \in Nodes /\ x.rep.max \in Nat BY <2>1, NodesAssumption
  <2>3. left \in 0..x.rep.max BY <2>1, <2>2
  <2>4. f \in Maps(Way, Way) /\ Blind(i, f) BY <1>3, <2>2, WaysFacts
  <2>5. \A y \in Way : Meaning[x][y] = IF y.pos = x.from THEN << >> ELSE Turns(x.rep, f)[left][y]
    BY MeaningFacts
  <2> HIDE DEF left, f
  <2>6. Blind(i, Turns(x.rep, f)[left]) BY <2>2, <2>3, <2>4, BlindTurns
  <2>7. Alike(i, Turns(x.rep, f)[left][w], Turns(x.rep, f)[left][v]) BY <2>6 DEF Blind
  <2>8. w.pos = v.pos BY DEF But
  <2> QED BY <2>5, <2>7, <2>8, AlikeFew
<1>6. \A x \in Nodes : Blind(i, Meaning[x])
  <2>1. \A x \in Nodes : Meaning[x] = Ways[x] BY MeaningFacts
  <2> QED BY <1>3, <2>1 DEF Blind
<1> QED BY <1>4, <1>5, <1>6 DEF Items

(***************************************************************************)
(* A group that is still to be closed will be set, whatever it holds.      *)
(***************************************************************************)
\* The groups s closes.
ClosesIn(s) == {s[j].index : j \in {l \in DOMAIN s : s[l].n = "close"}}

\* Those of a sequence that grows.
LEMMA ClosesGrow ==
  ASSUME NEW s \in Seq(Items), NEW x \in Items
  PROVE  /\ ClosesIn(Append(s, x)) \subseteq ClosesIn(s) \cup (IF x.n = "close" THEN {x.index} ELSE {})
         /\ ClosesIn(<<x>> \o s) = ClosesIn(s) \cup (IF x.n = "close" THEN {x.index} ELSE {})
<1>1. DOMAIN s = 1..Len(s) /\ Len(s) \in Nat BY LenProperties
<1>2. /\ DOMAIN Append(s, x) = 1..(Len(s) + 1) /\ Append(s, x)[Len(s) + 1] = x
      /\ \A j \in 1..Len(s) : Append(s, x)[j] = s[j]
  BY AppendProperties, LenProperties
<1> DEFINE t == <<x>> \o s
<1>3. /\ DOMAIN t = 1..(Len(s) + 1) /\ t[1] = x /\ \A j \in 1..Len(s) : t[j + 1] = s[j]
  <2>1. t \in Seq(Items) /\ Len(t) = Len(s) + 1 /\ \A j \in 1..Len(t) : t[j] = IF j = 1 THEN x ELSE s[j - 1] OBVIOUS
  <2> HIDE DEF t
  <2>2. DOMAIN t = 1..(Len(s) + 1) BY <2>1, LenProperties
  <2>3. 1 \in 1..Len(t) /\ \A j \in 1..Len(s) : j + 1 \in 1..Len(t) /\ j + 1 # 1 /\ (j + 1) - 1 = j BY <1>1, <2>1
  <2> QED BY <2>1, <2>2, <2>3
<1>4. \A j \in 1..(Len(s) + 1) : (j \in 1..Len(s) \/ j = Len(s) + 1) /\ (j = 1 \/ (j - 1 \in 1..Len(s) /\ (j - 1) + 1 = j))
  BY <1>1
<1>5. 1 \in 1..(Len(s) + 1) /\ \A j \in 1..Len(s) : j + 1 \in 1..(Len(s) + 1) BY <1>1
<1> HIDE DEF t
<1>6. ClosesIn(Append(s, x)) \subseteq ClosesIn(s) \cup (IF x.n = "close" THEN {x.index} ELSE {})
  BY <1>1, <1>2, <1>4 DEF ClosesIn
<1>7. ClosesIn(t) \subseteq ClosesIn(s) \cup (IF x.n = "close" THEN {x.index} ELSE {})
  <2>1. ASSUME NEW j \in DOMAIN t, t[j].n = "close" PROVE t[j].index \in ClosesIn(s) \cup (IF x.n = "close" THEN {x.index} ELSE {})
    <3>1. CASE j = 1 BY <1>3, <2>1, <3>1
    <3>2. CASE j # 1
      <4>1. j - 1 \in 1..Len(s) /\ t[j] = s[j - 1] BY <1>3, <1>4, <3>2
      <4> QED BY <1>1, <2>1, <4>1 DEF ClosesIn
    <3> QED BY <3>1, <3>2
  <2> QED BY <2>1 DEF ClosesIn
<1>8. ClosesIn(s) \subseteq ClosesIn(t)
  <2>1. ASSUME NEW j \in DOMAIN s, s[j].n = "close" PROVE s[j].index \in ClosesIn(t)
    <3>1. j + 1 \in DOMAIN t /\ t[j + 1] = s[j] BY <1>1, <1>3, <1>5
    <3> QED BY <2>1, <3>1 DEF ClosesIn
  <2> QED BY <2>1 DEF ClosesIn
<1>9. x.n = "close" => x.index \in ClosesIn(t) BY <1>3, <1>5 DEF ClosesIn
<1> QED BY <1>6, <1>7, <1>8, <1>9 DEF t

\* One more item behind the others.
LEMMA OnGrows ==
  ASSUME NEW W, NEW I, NEW M \in [I -> Maps(W, W)], NEW s \in Seq(I), NEW x \in I
  PROVE  \A w \in W : On(M, W, Append(s, x))[w] = Each(On(M, W, s)[w], M[x])
<1>1. Append(s, x) = s \o <<x>> /\ <<x>> \in Seq(I) BY AppendIsConcat
<1>2. \A w \in W : On(M, W, s \o <<x>>)[w] = Each(On(M, W, s)[w], On(M, W, <<x>>)) BY <1>1, OnConcat, ZenonT(60)
<1>3. On(M, W, <<x>>) \in Maps(W, W) /\ M[x] \in Maps(W, W) BY <1>1, OnMaps
<1>4. ASSUME NEW w \in W PROVE On(M, W, <<x>>)[w] = M[x][w]
  <2>1. /\ On(M, W, << >>)[w] = <<w>>
        /\ \A y \in I : On(M, W, <<y>>)[w] = M[y][w]
        /\ \A y \in I, t \in Seq(I) : On(M, W, <<y>> \o t)[w] = Each(M[y][w], On(M, W, t))
    BY OnFirst
  <2> QED BY <2>1
<1>5. On(M, W, <<x>>) = M[x]
  <2>1. \A f, g \in Maps(W, W) : (\A w \in W : f[w] = g[w]) => f = g BY DEF Maps
  <2> QED BY <1>3, <1>4, <2>1
<1> QED BY <1>1, <1>2, <1>5

\* What comes to ways that close the group does not depend on what it holds.
LEMMA ClosedSame ==
  ASSUME text \in Texts, NEW i
  PROVE  \A s \in Seq(Items) : i \in ClosesIn(s) =>
           \A w, v \in Way : But(i, w, v) => On(Meaning, Way, s)[w] = On(Meaning, Way, s)[v]
<1> DEFINE M == Meaning
           Same(s) == i \in ClosesIn(s) => \A w, v \in Way : But(i, w, v) => On(M, Way, s)[w] = On(M, Way, s)[v]
           P == {s \in Seq(Items) : Same(s)}
<1>0. M \in [Items -> Maps(Way, Way)] BY MeaningFacts
<1>1. << >> \in P
  <2>1. ClosesIn(<< >>) = {} BY DEF ClosesIn
  <2> QED BY <2>1, EmptySeq
<1>2. ASSUME NEW s \in Seq(Items), NEW x \in Items, s \in P PROVE Append(s, x) \in P
  <2>1. Append(s, x) \in Seq(Items) /\ Append(s, x) = s \o <<x>> /\ <<x>> \in Seq(Items)
    BY AppendProperties, AppendIsConcat
  <2>2. Same(s) BY <1>2
  <2> SUFFICES ASSUME i \in ClosesIn(Append(s, x)), NEW w \in Way, NEW v \in Way, But(i, w, v)
               PROVE  On(M, Way, Append(s, x))[w] = On(M, Way, Append(s, x))[v]
    BY <2>1
  <2> HIDE DEF M, P, Same
  <2>3. \A y \in Way : On(M, Way, Append(s, x))[y] = Each(On(M, Way, s)[y], M[x]) BY <1>0, OnGrows
  <2>4. CASE i \in ClosesIn(s)
    <3>1. On(M, Way, s)[w] = On(M, Way, s)[v] BY <2>2, <2>4 DEF Same
    <3> QED BY <2>3, <3>1
  <2>5. CASE i \notin ClosesIn(s)
    <3>1. x \in Closes /\ x.index = i BY <2>5, ClosesGrow, ItemKinds
    <3>2. i \in 1..Groups /\ x.from \in Nat BY <3>1 DEF Closes
    <3> DEFINE a == On(M, Way, s)[w]
               b == On(M, Way, s)[v]
    <3>3. a \in Seq(Way) /\ b \in Seq(Way) BY <1>0, OnMaps, MapsTo
    <3>4. Alike(i, a, b)
      <4> DEFINE fs == [j \in DOMAIN s |-> M[s[j]]]
      <4>1. fs \in Seq(Maps(Way, Way)) BY <1>0, OnMaps
      <4>2. \A j \in 1..Len(fs) : Blind(i, fs[j])
        <5>1. DOMAIN fs = 1..Len(fs) /\ DOMAIN fs = DOMAIN s BY <4>1, LenProperties
        <5>2. \A j \in DOMAIN s : s[j] \in Items BY LenProperties, ElementOfSeq
        <5>3. \A y \in Items : Blind(i, M[y]) BY BlindItems DEF M
        <5> QED BY <5>1, <5>2, <5>3
      <4>3. On(M, Way, s) = Walk(fs, Way) BY DEF On
      <4> HIDE DEF fs
      <4>4. Blind(i, Walk(fs, Way)) BY <4>1, <4>2, BlindThrough
      <4> QED BY <4>3, <4>4 DEF Blind
    <3> HIDE DEF a, b
    <3>5. ASSUME NEW l \in 1..Len(a) PROVE M[x][a[l]] = M[x][b[l]]
      <4>1. a[l] \in Way /\ b[l] \in Way /\ But(i, a[l], b[l]) BY <3>3, <3>4, ElementOfSeq DEF Alike
      <4>2. a[l].pos = b[l].pos /\ a[l].pos \in Nat BY <4>1, WaysMoved DEF But
      <4> DEFINE span == <<x.from, a[l].pos>>
      <4>3. span \in Slots BY <3>2, <4>2 DEF Slots
      <4>4. M[x][a[l]] = <<SetTo(a[l], i, span)>> BY <3>1, <4>1, MeaningFacts DEF M, SetTo
      <4>5. M[x][b[l]] = <<SetTo(b[l], i, span)>>
        <5>1. M[x][b[l]] = <<[b[l] EXCEPT !.caps[i] = <<x.from, b[l].pos>>]>> BY <3>1, <4>1, MeaningFacts DEF M
        <5> QED BY <4>2, <5>1 DEF SetTo
      <4> HIDE DEF span
      <4>6. SetTo(a[l], i, span) = SetTo(b[l], i, span) BY <3>2, <4>1, <4>3, ButSame
      <4> QED BY <4>4, <4>5, <4>6
    <3>6. Len(a) = Len(b) BY <3>4 DEF Alike
    <3>7. M[x] \in Maps(Way, Way) BY <1>0
    <3>8. \A l \in 1..Len(a) : a[l] \in Way BY <3>3, ElementOfSeq
    <3>9. Each(a, M[x]) = Each(b, M[x]) BY <3>3, <3>5, <3>6, <3>7, EachEqual
    <3> QED BY <2>3, <3>9 DEF a, b
  <2> QED BY <2>4, <2>5
<1> HIDE DEF P
<1>3. \A s \in Seq(Items) : s \in P BY <1>1, <1>2, EverySeq
<1> QED BY <1>3 DEF P, Same, M

\* The first n of ws put group i back before anything else is tried that does
\* not close it.
Guarded(ws, n, i) ==
  \E u \in 1..n :
    /\ ws[u].a = "undo" /\ ws[u].index = i
    /\ \A j \in (u + 1)..n : ws[j].a # "undo" => i \in ClosesIn(ws[j].k)

\* What each alternative may be.
LEMMA AltKinds ==
  ASSUME NEW a \in Alts
  PROVE  /\ a.a \in {"undo", "arm", "stop", "more"}
         /\ a.a = "undo" => a \in Undos
         /\ a.a = "arm" => a \in Arms
         /\ a.a \in {"stop", "more"} => a \in Goes
BY DEF Alts, Undos, Arms, Goes

\* So what is left to try does not depend on what the group holds either.
LEMMA LeftSame ==
  ASSUME text \in Texts, NEW i \in 1..Groups
  PROVE  \A ws \in Seq(Alts) : Guarded(ws, Len(ws), i) =>
           \A c, d \in AllCaps : (\A j \in 1..Groups : j # i => c[j] = d[j]) =>
             Left(Meaning, Way, ws)[c] = Left(Meaning, Way, ws)[d]
<1> DEFINE M == Meaning
           Near(c, d) == \A j \in 1..Groups : j # i => c[j] = d[j]
           Same(f) == \A c, d \in AllCaps : Near(c, d) => f[c] = f[d]
           L(ws) == Left(M, Way, ws)
           P == {ws \in Seq(Alts) : Guarded(ws, Len(ws), i) => Same(L(ws))}
<1>0. M \in [Items -> Maps(Way, Way)] BY MeaningFacts
<1>1. << >> \in P
  <2>1. ~Guarded(<< >>, Len(<< >>), i) BY DEF Guarded
  <2> QED BY <2>1, EmptySeq
<1>2. ASSUME NEW ws \in Seq(Alts), NEW a \in Alts, ws \in P PROVE Append(ws, a) \in P
  <2> DEFINE n == Len(ws)
             t == Append(ws, a)
  <2>1. t \in Seq(Alts) /\ n \in Nat /\ Len(t) = n + 1 /\ t[n + 1] = a /\ \A j \in 1..n : t[j] = ws[j]
    BY AppendProperties, LenProperties
  <2>2. Guarded(ws, n, i) => Same(L(ws)) BY <1>2
  <2> SUFFICES ASSUME Guarded(t, n + 1, i), NEW c \in AllCaps, NEW d \in AllCaps, Near(c, d) PROVE L(t)[c] = L(t)[d]
    BY <2>1
  <2> HIDE DEF P, M, Same, t
  <2>3. L(t) = Offer(M, Way, a, L(ws)) BY <1>0, LeftGrows DEF t
  <2>4. PICK u \in 1..(n + 1) : /\ t[u].a = "undo" /\ t[u].index = i
                                /\ \A j \in (u + 1)..(n + 1) : t[j].a # "undo" => i \in ClosesIn(t[j].k)
    BY DEF Guarded
  <2>5. CASE u = n + 1
    <3>1. a.a = "undo" /\ a.index = i /\ a.span \in Slots BY <2>1, <2>4, <2>5, AltKinds DEF Undos
    <3>2. [c EXCEPT ![i] = a.span] = [d EXCEPT ![i] = a.span] BY DEF AllCaps
    <3>3. L(t)[c] = L(ws)[[c EXCEPT ![i] = a.span]] /\ L(t)[d] = L(ws)[[d EXCEPT ![i] = a.span]]
      BY <2>3, <3>1 DEF Offer
    <3> QED BY <3>2, <3>3
  <2>6. CASE u # n + 1
    <3>1. u \in 1..n /\ n + 1 \in (u + 1)..(n + 1) /\ \A j \in (u + 1)..n : j \in 1..n /\ j \in (u + 1)..(n + 1)
      BY <2>1, <2>6
    <3>2. Guarded(ws, n, i)
      <4>1. ws[u].a = "undo" /\ ws[u].index = i BY <2>1, <2>4, <3>1
      <4>2. \A j \in (u + 1)..n : ws[j].a # "undo" => i \in ClosesIn(ws[j].k) BY <2>1, <2>4, <3>1
      <4> QED BY <3>1, <4>1, <4>2 DEF Guarded
    <3>3. Same(L(ws)) BY <2>2, <3>2
    <3>4. a.a # "undo" => i \in ClosesIn(a.k) BY <2>1, <2>4, <3>1
    <3>5. CASE a.a = "undo"
      <4>1. a.index \in 1..Groups /\ a.span \in Slots BY <3>5, AltKinds DEF Undos
      <4>2. [c EXCEPT ![a.index] = a.span] \in AllCaps /\ [d EXCEPT ![a.index] = a.span] \in AllCaps
        BY <4>1 DEF AllCaps
      <4>3. Near([c EXCEPT ![a.index] = a.span], [d EXCEPT ![a.index] = a.span]) BY <4>1 DEF AllCaps
      <4>4. L(t)[c] = L(ws)[[c EXCEPT ![a.index] = a.span]] /\ L(t)[d] = L(ws)[[d EXCEPT ![a.index] = a.span]]
        BY <2>3, <3>5 DEF Offer
      <4>5. L(ws)[[c EXCEPT ![a.index] = a.span]] = L(ws)[[d EXCEPT ![a.index] = a.span]]
        BY <3>3, <4>2, <4>3 DEF Same
      <4> QED BY <4>4, <4>5
    <3>6. CASE a.a # "undo"
      <4> DEFINE from(x) == [pos |-> a.pos, caps |-> x]
      <4>1. a.pos \in Places /\ a.k \in Seq(Items) BY <3>6, AltKinds DEF Arms, Goes
      <4>2. from(c) \in Way /\ from(d) \in Way /\ But(i, from(c), from(d)) BY <4>1, FromWays DEF But
      <4>3. L(ws)[c] = L(ws)[d] BY <3>3 DEF Same
      <4> HIDE DEF from
      <4>4. \A s \in Seq(Items) : i \in ClosesIn(s) => On(M, Way, s)[from(c)] = On(M, Way, s)[from(d)]
        BY <4>2, ClosedSame DEF M
      <4>5. CASE a.a = "arm"
        <5> DEFINE arm(x) == [y \in Nodes |-> On(M, Way, <<y>> \o a.k)[from(x)]]
        <5>1. ASSUME NEW y \in Nodes PROVE On(M, Way, <<y>> \o a.k)[from(c)] = On(M, Way, <<y>> \o a.k)[from(d)]
          <6>1. y \in Items BY NodeItems
          <6>2. i \in ClosesIn(<<y>> \o a.k) BY <3>4, <3>6, <4>1, <6>1, ClosesGrow
          <6>3. <<y>> \o a.k \in Seq(Items) BY <4>1, <6>1
          <6> QED BY <4>4, <6>2, <6>3
        <5>2. arm(c) = arm(d) BY <5>1
        <5>3. \A x \in AllCaps : L(t)[x] = Each(a.arms, arm(x)) \o L(ws)[x] BY <2>3, <4>5 DEF Offer, from
        <5> QED BY <4>3, <5>2, <5>3
      <4>6. CASE a.a # "arm"
        <5>1. \A x \in AllCaps : L(t)[x] = On(M, Way, a.k)[from(x)] \o L(ws)[x] BY <2>3, <3>6, <4>6 DEF Offer, from
        <5>2. On(M, Way, a.k)[from(c)] = On(M, Way, a.k)[from(d)] BY <3>4, <3>6, <4>1, <4>4
        <5> QED BY <4>3, <5>1, <5>2
      <4> QED BY <4>5, <4>6
    <3> QED BY <3>5, <3>6
  <2> QED BY <2>5, <2>6
<1> HIDE DEF P
<1>3. \A ws \in Seq(Alts) : ws \in P BY <1>1, <1>2, EverySeq
<1> QED BY <1>3 DEF P, Same, M

(***************************************************************************)
(* The state of a search, and what it still has to try.                    *)
(***************************************************************************)
At(p, c) == [pos |-> p, caps |-> c]
Guards(ws, n, s) == \A i \in ClosesIn(s) : Guarded(ws, n, i)

\* What waits, each with the groups it closes put back by what waits longer.
Stacked(ws) == ws \in Seq(Alts) /\ \A j \in 1..Len(ws) : ws[j].a # "undo" => Guards(ws, j - 1, ws[j].k)

Shaped(md, s, p, c, ws) ==
  /\ md \in {"match", "back", "found", "none"}
  /\ s \in Seq(Items) /\ p \in Places /\ c \in AllCaps /\ Stacked(ws)
  /\ md = "match" => Guards(ws, Len(ws), s)
  /\ md = "found" => s = << >>
  /\ md = "none" => ws = << >>

Remains(md, s, p, c, ws) ==
  IF md \in {"match", "found"} THEN On(Meaning, Way, s)[At(p, c)] \o Left(Meaning, Way, ws)[c]
  ELSE Left(Meaning, Way, ws)[c]

\* What is left to match, item by item.
LEMMA ItemFirst ==
  ASSUME text \in Texts, NEW s \in Seq(Items), s # << >>
  PROVE  /\ Head(s) \in Items /\ Tail(s) \in Seq(Items) /\ ClosesIn(Tail(s)) \subseteq ClosesIn(s)
         /\ On(Meaning, Way, Tail(s)) \in Maps(Way, Way)
         /\ Meaning[Head(s)] \in Maps(Way, Way)
         /\ \A w \in Way : On(Meaning, Way, s)[w] = Each(Meaning[Head(s)][w], On(Meaning, Way, Tail(s)))
<1> DEFINE M == Meaning
           x == Head(s)
           t == Tail(s)
<1>1. x \in Items /\ t \in Seq(Items) /\ s = <<x>> \o t BY HeadTail
<1> HIDE DEF x, t, M
<1>2. M \in [Items -> Maps(Way, Way)] BY MeaningFacts DEF M
<1>3. On(M, Way, t) \in Maps(Way, Way) /\ M[x] \in Maps(Way, Way) BY <1>1, <1>2, OnMaps
<1>4. ASSUME NEW w \in Way PROVE On(M, Way, s)[w] = Each(M[x][w], On(M, Way, t))
  <2>1. /\ On(M, Way, << >>)[w] = <<w>>
        /\ \A y \in Items : On(M, Way, <<y>>)[w] = M[y][w]
        /\ \A y \in Items, q \in Seq(Items) : On(M, Way, <<y>> \o q)[w] = Each(M[y][w], On(M, Way, q))
    BY <1>2, OnFirst
  <2> QED BY <1>1, <2>1
<1>5. ClosesIn(t) \subseteq ClosesIn(s) BY <1>1, ClosesGrow
<1> QED BY <1>1, <1>3, <1>4, <1>5 DEF x, t, M

\* One in front of them.
LEMMA ItemBefore ==
  ASSUME text \in Texts, NEW s \in Seq(Items), NEW x \in Items
  PROVE  /\ <<x>> \o s \in Seq(Items)
         /\ On(Meaning, Way, <<x>> \o s) \in Maps(Way, Way)
         /\ \A w \in Way : On(Meaning, Way, <<x>> \o s)[w] = Each(Meaning[x][w], On(Meaning, Way, s))
<1> DEFINE M == Meaning
<1>1. M \in [Items -> Maps(Way, Way)] BY MeaningFacts
<1>2. <<x>> \o s \in Seq(Items) OBVIOUS
<1> HIDE DEF M
<1>3. On(M, Way, <<x>> \o s) \in Maps(Way, Way) BY <1>1, <1>2, OnMaps
<1>4. ASSUME NEW w \in Way PROVE On(M, Way, <<x>> \o s)[w] = Each(M[x][w], On(M, Way, s))
  <2>1. /\ On(M, Way, << >>)[w] = <<w>>
        /\ \A y \in Items : On(M, Way, <<y>>)[w] = M[y][w]
        /\ \A y \in Items, q \in Seq(Items) : On(M, Way, <<y>> \o q)[w] = Each(M[y][w], On(M, Way, q))
    BY <1>1, OnFirst
  <2> QED BY <2>1
<1> QED BY <1>2, <1>3, <1>4 DEF M

\* One more waits.
LEMMA StackedMore ==
  ASSUME NEW ws, Stacked(ws), NEW a \in Alts, a.a # "undo" => Guards(ws, Len(ws), a.k)
  PROVE  /\ Stacked(Append(ws, a))
         /\ \A s : a.a = "undo" /\ (\A i \in ClosesIn(s) : i = a.index \/ Guarded(ws, Len(ws), i))
                     => Guards(Append(ws, a), Len(Append(ws, a)), s)
         /\ \A s : a.a # "undo" /\ ClosesIn(s) \subseteq ClosesIn(a.k) => Guards(Append(ws, a), Len(Append(ws, a)), s)
<1> DEFINE n == Len(ws)
           t == Append(ws, a)
<1>1. ws \in Seq(Alts) BY DEF Stacked
<1>2. t \in Seq(Alts) /\ n \in Nat /\ Len(t) = n + 1 /\ t[n + 1] = a /\ \A j \in 1..n : t[j] = ws[j]
  BY <1>1, AppendProperties, LenProperties
<1> HIDE DEF t
<1>3. ASSUME NEW m \in 0..n, NEW i, Guarded(ws, m, i) PROVE Guarded(t, m, i)
  <2>1. PICK u \in 1..m : ws[u].a = "undo" /\ ws[u].index = i /\ \A j \in (u + 1)..m : ws[j].a # "undo" => i \in ClosesIn(ws[j].k)
    BY <1>3 DEF Guarded
  <2>2. t[u] = ws[u] /\ \A j \in (u + 1)..m : t[j] = ws[j] BY <1>2
  <2> QED BY <2>1, <2>2 DEF Guarded
<1>4. ASSUME NEW i, Guarded(ws, n, i), a.a # "undo" => i \in ClosesIn(a.k) PROVE Guarded(t, n + 1, i)
  <2>1. PICK u \in 1..n : ws[u].a = "undo" /\ ws[u].index = i /\ \A j \in (u + 1)..n : ws[j].a # "undo" => i \in ClosesIn(ws[j].k)
    BY <1>4 DEF Guarded
  <2>2. u \in 1..(n + 1) /\ t[u] = ws[u] BY <1>2
  <2>3. ASSUME NEW j \in (u + 1)..(n + 1), t[j].a # "undo" PROVE i \in ClosesIn(t[j].k)
    <3>1. CASE j = n + 1 BY <1>2, <1>4, <2>3, <3>1
    <3>2. CASE j # n + 1
      <4>1. j \in (u + 1)..n /\ j \in 1..n BY <1>2, <2>3, <3>2
      <4> QED BY <1>2, <2>1, <2>3, <4>1
    <3> QED BY <3>1, <3>2
  <2> QED BY <2>1, <2>2, <2>3 DEF Guarded
<1>5. a.a = "undo" => Guarded(t, n + 1, a.index)
  <2>1. n + 1 \in 1..(n + 1) /\ (n + 1 + 1)..(n + 1) = {} BY <1>2
  <2> QED BY <1>2, <2>1 DEF Guarded
<1>6. \A j \in 1..(n + 1) : t[j].a # "undo" => Guards(t, j - 1, t[j].k)
  <2>1. ASSUME NEW j \in 1..(n + 1), t[j].a # "undo" PROVE Guards(t, j - 1, t[j].k)
    <3>1. CASE j = n + 1
      <4>1. t[j] = a /\ j - 1 = n /\ n \in 0..n BY <1>2, <3>1
      <4> QED BY <1>3, <2>1, <4>1 DEF Guards
    <3>2. CASE j # n + 1
      <4>1. j \in 1..n /\ t[j] = ws[j] /\ j - 1 \in 0..n BY <1>2, <3>2
      <4>2. Guards(ws, j - 1, ws[j].k) BY <2>1, <4>1 DEF Stacked
      <4> QED BY <1>3, <4>1, <4>2 DEF Guards
    <3> QED BY <3>1, <3>2
  <2> QED BY <2>1
<1>7. Stacked(t) BY <1>2, <1>6 DEF Stacked
<1>8. ASSUME NEW s, a.a = "undo", \A i \in ClosesIn(s) : i = a.index \/ Guarded(ws, n, i) PROVE Guards(t, n + 1, s)
  BY <1>4, <1>5, <1>8 DEF Guards
<1>9. ASSUME NEW s, a.a # "undo", ClosesIn(s) \subseteq ClosesIn(a.k) PROVE Guards(t, n + 1, s)
  BY <1>4, <1>9 DEF Guards
<1> QED BY <1>2, <1>7, <1>8, <1>9 DEF t

\* The latest is taken off.
LEMMA StackedLess ==
  ASSUME text \in Texts, NEW ws, Stacked(ws), ws # << >>
  PROVE  LET a == ws[Len(ws)]
             t == SubSeq(ws, 1, Len(ws) - 1)
         IN  /\ a \in Alts /\ Stacked(t) /\ (a.a # "undo" => Guards(t, Len(t), a.k))
             /\ Left(Meaning, Way, t) \in Maps(AllCaps, Way)
             /\ Left(Meaning, Way, ws) = Offer(Meaning, Way, a, Left(Meaning, Way, t))
<1> DEFINE a == ws[Len(ws)]
           t == SubSeq(ws, 1, Len(ws) - 1)
<1>1. ws \in Seq(Alts) BY DEF Stacked
<1>2. Meaning \in [Items -> Maps(Way, Way)] BY MeaningFacts
<1>3. /\ a \in Alts /\ t \in Seq(Alts) /\ ws = Append(t, a)
      /\ Left(Meaning, Way, ws) = Offer(Meaning, Way, a, Left(Meaning, Way, t))
  BY <1>1, <1>2, LeftLatest
<1> HIDE DEF a, t
<1>4. Left(Meaning, Way, t) \in Maps(AllCaps, Way) BY <1>2, <1>3, LeftGrows
<1>5. /\ Len(ws) \in Nat /\ Len(ws) # 0 /\ Len(t) = Len(ws) - 1 /\ \A j \in 1..Len(t) : t[j] = ws[j]
  <2>1. Len(t) \in Nat BY <1>3, LenProperties
  <2>2. Len(Append(t, a)) = Len(t) + 1 /\ \A j \in 1..Len(t) : Append(t, a)[j] = t[j] BY <1>3, AppendProperties
  <2> QED BY <1>3, <2>1, <2>2
<1>6. ASSUME NEW m \in 0..Len(t), NEW i, Guarded(ws, m, i) PROVE Guarded(t, m, i)
  <2>1. PICK u \in 1..m : ws[u].a = "undo" /\ ws[u].index = i /\ \A j \in (u + 1)..m : ws[j].a # "undo" => i \in ClosesIn(ws[j].k)
    BY <1>6 DEF Guarded
  <2>2. t[u] = ws[u] /\ \A j \in (u + 1)..m : t[j] = ws[j] BY <1>5
  <2> QED BY <2>1, <2>2 DEF Guarded
<1>7. ASSUME NEW j \in 1..Len(ws), ws[j].a # "undo" PROVE Guards(t, j - 1, ws[j].k)
  <2>1. j - 1 \in 0..Len(t) BY <1>5
  <2>2. Guards(ws, j - 1, ws[j].k) BY <1>7 DEF Stacked
  <2> QED BY <1>6, <2>1, <2>2 DEF Guards
<1>8. Stacked(t)
  <2>1. \A j \in 1..Len(t) : j \in 1..Len(ws) BY <1>5
  <2> QED BY <1>3, <1>5, <1>7, <2>1 DEF Stacked
<1>9. a.a # "undo" => Guards(t, Len(t), a.k)
  <2>1. Len(ws) \in 1..Len(ws) /\ Len(ws) - 1 = Len(t) BY <1>5
  <2> QED BY <1>7, <2>1 DEF a
<1> QED BY <1>3, <1>4, <1>8, <1>9 DEF a, t

Shape ==
  /\ re \in Patterns /\ text \in Texts /\ start \in Places /\ steps \in Nat
  /\ Shaped(mode, k, pos, caps, alts)

\* What a step makes of it keeps its shape, and loses or adds no way.
Keeps ==
  /\ Shaped(mode', k', pos', caps', alts')
  /\ Remains(mode', k', pos', caps', alts') = Remains(mode, k, pos, caps, alts)

\* Places, and what is there.
LEMMA AtFacts ==
  ASSUME text \in Texts, NEW p \in Places, NEW c \in AllCaps
  PROVE  /\ At(p, c) \in Way /\ At(p, c).pos = p /\ At(p, c).caps = c
         /\ Len(text) \in Nat /\ p \in Nat /\ p <= Len(text)
         /\ p < Len(text) => p + 1 \in Places
BY FromWays, TextsAssumption DEF At, Places

\* What waits.
LEMMA WaitMaps ==
  ASSUME text \in Texts, NEW ws, Stacked(ws)
  PROVE  /\ ws \in Seq(Alts) /\ Left(Meaning, Way, ws) \in Maps(AllCaps, Way)
         /\ \A c \in AllCaps : Left(Meaning, Way, ws)[c] \in Seq(Way)
         /\ \A a \in Alts : Left(Meaning, Way, Append(ws, a)) = Offer(Meaning, Way, a, Left(Meaning, Way, ws))
<1>1. ws \in Seq(Alts) BY DEF Stacked
<1>2. Meaning \in [Items -> Maps(Way, Way)] BY MeaningFacts
<1>3. Left(Meaning, Way, ws) \in Maps(AllCaps, Way) BY <1>1, <1>2, LeftGrows
<1>4. \A a \in Alts : Left(Meaning, Way, Append(ws, a)) = Offer(Meaning, Way, a, Left(Meaning, Way, ws))
  BY <1>1, <1>2, LeftGrows
<1>5. \A c \in AllCaps : Left(Meaning, Way, ws)[c] \in Seq(Way) BY <1>3, MapsTo
<1> QED BY <1>1, <1>3, <1>4, <1>5

\* The item at hand and those behind it.
LEMMA AheadMeans ==
  ASSUME Shape, mode = "match", k # << >>
  PROVE  /\ At(pos, caps) \in Way /\ pos \in Places /\ caps \in AllCaps
         /\ Node \in Items /\ Rest \in Seq(Items) /\ On(Meaning, Way, Rest) \in Maps(Way, Way)
         /\ Stacked(alts) /\ Guards(alts, Len(alts), Rest) /\ Guards(alts, Len(alts), k)
         /\ Meaning[Node] \in Maps(Way, Way)
         /\ On(Meaning, Way, k)[At(pos, caps)] = Each(Meaning[Node][At(pos, caps)], On(Meaning, Way, Rest))
         /\ Remains(mode, k, pos, caps, alts) =
              Each(Meaning[Node][At(pos, caps)], On(Meaning, Way, Rest)) \o Left(Meaning, Way, alts)[caps]
         /\ Node.n \in Kinds => Node \in Nodes /\ Meaning[Node] = WaysGiven(Ways, Node)
<1>1. /\ text \in Texts /\ k \in Seq(Items) /\ pos \in Places /\ caps \in AllCaps /\ Stacked(alts)
      /\ Guards(alts, Len(alts), k)
  BY DEF Shape, Shaped
<1>2. At(pos, caps) \in Way BY <1>1, AtFacts
<1>3. /\ Node \in Items /\ Rest \in Seq(Items) /\ ClosesIn(Rest) \subseteq ClosesIn(k)
      /\ On(Meaning, Way, Rest) \in Maps(Way, Way) /\ Meaning[Node] \in Maps(Way, Way)
      /\ \A w \in Way : On(Meaning, Way, k)[w] = Each(Meaning[Node][w], On(Meaning, Way, Rest))
  BY <1>1, ItemFirst DEF Node, Rest
<1>4. Guards(alts, Len(alts), Rest) BY <1>1, <1>3 DEF Guards
<1>5. Node.n \in Kinds => Node \in Nodes BY <1>3, ItemKinds DEF Kinds
<1>6. Node \in Nodes => Meaning[Node] = WaysGiven(Ways, Node)
  <2>1. Node \in Nodes => Meaning[Node] = Ways[Node] BY <1>1, MeaningFacts
  <2>2. \A n \in Nodes : Ways[n] = WaysGiven(Ways, n) BY <1>1, WaysFacts
  <2> QED BY <2>1, <2>2
<1>7. Remains(mode, k, pos, caps, alts) = On(Meaning, Way, k)[At(pos, caps)] \o Left(Meaning, Way, alts)[caps]
  BY DEF Remains
<1> QED BY <1>1, <1>2, <1>3, <1>4, <1>5, <1>6, <1>7

\* A node that comes to nothing, or to one way.
LEMMA Few ==
  ASSUME NEW F \in Maps(Way, Way)
  PROVE  Each(<< >>, F) = << >> /\ \A w \in Way : Each(<<w>>, F) = F[w]
<1>1. Each(<< >>, F) = << >> BY EachGrows
<1>2. ASSUME NEW w \in Way PROVE Each(<<w>>, F) = F[w]
  <2>1. Each(<<w>>, F) = F[w] /\ \A t \in Seq(Way) : Each(<<w>> \o t, F) = F[w] \o Each(t, F) BY EachFirst
  <2> QED BY <2>1
<1> QED BY <1>1, <1>2

\* A step that fails has come to nothing.
LEMMA FailKeeps ==
  ASSUME Shape, mode = "match", k # << >>, Meaning[Node][At(pos, caps)] = << >>,
         mode' = "back", k' = k, pos' = pos, caps' = caps, alts' = alts
  PROVE  Keeps
<1>1. Shaped(mode', k', pos', caps', alts') BY DEF Shape, Shaped
<1> DEFINE L == Left(Meaning, Way, alts)[caps]
<1>2. text \in Texts /\ Stacked(alts) /\ caps \in AllCaps BY DEF Shape, Shaped
<1>3. L \in Seq(Way) BY <1>2, WaitMaps
<1>4. Remains(mode, k, pos, caps, alts) = << >> \o L BY AheadMeans, Few
<1>5. Remains(mode', k', pos', caps', alts') = L BY DEF Remains
<1>6. << >> \o L = L BY <1>3
<1> QED BY <1>1, <1>4, <1>5, <1>6 DEF Keeps

\* One that goes on somewhere has come to that.
LEMMA GoKeeps ==
  ASSUME Shape, mode = "match", k # << >>, NEW p \in Places, Meaning[Node][At(pos, caps)] = <<At(p, caps)>>,
         mode' = mode, k' = Rest, pos' = p, caps' = caps, alts' = alts
  PROVE  Keeps
<1>1. At(p, caps) \in Way BY AtFacts DEF Shape, Shaped
<1>2. Shaped(mode', k', pos', caps', alts') BY AheadMeans DEF Shape, Shaped
<1>3. Each(<<At(p, caps)>>, On(Meaning, Way, Rest)) = On(Meaning, Way, Rest)[At(p, caps)] BY <1>1, AheadMeans, Few
<1>4. Remains(mode', k', pos', caps', alts') = On(Meaning, Way, Rest)[At(p, caps)] \o Left(Meaning, Way, alts)[caps]
  BY DEF Remains
<1>5. Remains(mode, k, pos, caps, alts) =
        Each(Meaning[Node][At(pos, caps)], On(Meaning, Way, Rest)) \o Left(Meaning, Way, alts)[caps]
  BY AheadMeans
<1> QED BY <1>2, <1>3, <1>4, <1>5 DEF Keeps

\* A character is taken, or refused.
LEMMA ConsumeKeeps == ASSUME Shape, Consume PROVE Keeps
<1>1. mode = "match" /\ k # << >> /\ Node.n \in {"char", "any", "class"} BY DEF Consume, Visit
<1> DEFINE w == At(pos, caps)
           ok == pos < Len(text) /\ Accepts(Node, text[pos + 1])
<1>2. Meaning[Node] = WaysGiven(Ways, Node) /\ w \in Way /\ w.pos = pos /\ pos \in Places /\ caps \in AllCaps
  <2>1. Node.n \in Kinds BY <1>1 DEF Kinds
  <2> QED BY <1>1, <2>1, AheadMeans, AtFacts DEF Shape
<1>3. Meaning[Node][w] = IF ok THEN <<[w EXCEPT !.pos = @ + 1]>> ELSE << >>
  <2>1. \A v \in Way : WaysGiven(Ways, Node)[v] = IF v.pos < Len(text) /\ Accepts(Node, text[v.pos + 1])
                                                  THEN <<[v EXCEPT !.pos = @ + 1]>> ELSE << >>
    BY <1>1 DEF WaysGiven
  <2> HIDE DEF w
  <2> QED BY <1>2, <2>1
<1>4. [w EXCEPT !.pos = @ + 1] = At(pos + 1, caps) BY DEF At
<1>5. CASE ok
  <2>1. pos + 1 \in Places BY <1>2, <1>5, AtFacts DEF Shape
  <2>2. Meaning[Node][w] = <<At(pos + 1, caps)>> BY <1>3, <1>4, <1>5
  <2>3. mode' = mode /\ k' = Rest /\ pos' = pos + 1 /\ caps' = caps /\ alts' = alts BY <1>5 DEF Consume
  <2> QED BY <1>1, <2>1, <2>2, <2>3, GoKeeps
<1>6. CASE ~ok
  <2>1. Meaning[Node][w] = << >> BY <1>3, <1>6
  <2>2. mode' = "back" /\ k' = k /\ pos' = pos /\ caps' = caps /\ alts' = alts BY <1>6 DEF Consume, Fails
  <2> QED BY <1>1, <2>1, <2>2, FailKeeps
<1> QED BY <1>5, <1>6

\* An anchor holds where the matcher is, or not.
LEMMA AnchorKeeps == ASSUME Shape, Anchor PROVE Keeps
<1>1. mode = "match" /\ k # << >> /\ Node.n \in {"empty", "start", "end", "boundary"} BY DEF Anchor, Visit
<1> DEFINE w == At(pos, caps)
<1>2. Meaning[Node] = WaysGiven(Ways, Node) /\ w \in Way /\ w.pos = pos /\ pos \in Places /\ caps \in AllCaps
  <2>1. Node.n \in Kinds BY <1>1 DEF Kinds
  <2> QED BY <1>1, <2>1, AheadMeans, AtFacts DEF Shape
<1>3. Meaning[Node][w] = IF Holds(Node) THEN <<w>> ELSE << >>
  <2>1. \A v \in Way : WaysGiven(Ways, Node)[v] = IF AtPlace(Node, v.pos) THEN <<v>> ELSE << >>
    BY <1>1 DEF WaysGiven
  <2>2. AtPlace(Node, pos) <=> Holds(Node)
    BY <1>1 DEF AtPlace, Holds
  <2> HIDE DEF w
  <2> QED BY <1>2, <2>1, <2>2
<1>4. CASE Holds(Node)
  <2>1. Meaning[Node][w] = <<At(pos, caps)>> BY <1>3, <1>4
  <2>2. mode' = mode /\ k' = Rest /\ pos' = pos /\ caps' = caps /\ alts' = alts BY <1>4 DEF Anchor
  <2> QED BY <1>1, <1>2, <2>1, <2>2, GoKeeps
<1>5. CASE ~Holds(Node)
  <2>1. Meaning[Node][w] = << >> BY <1>3, <1>5
  <2>2. mode' = "back" /\ k' = k /\ pos' = pos /\ caps' = caps /\ alts' = alts BY <1>5 DEF Anchor, Fails
  <2> QED BY <1>1, <2>1, <2>2, FailKeeps
<1> QED BY <1>4, <1>5

\* A match is accepted when nothing is left.
LEMMA AcceptKeeps == ASSUME Shape, Accept PROVE Keeps
BY DEF Shape, Shaped, Accept, Keeps, Remains

\* A group that is opened: what is inside it, and then the end of it.
LEMMA OpenGroupKeeps == ASSUME Shape, OpenGroup PROVE Keeps
<1>1. mode = "match" /\ k # << >> /\ Node.n = "group" BY DEF OpenGroup, Visit
<1> DEFINE w == At(pos, caps)
           F == On(Meaning, Way, Rest)
           L == Left(Meaning, Way, alts)
           f == Ways[Node.inner]
           end == [v \in Way |-> <<Captured(Node, pos, v)>>]
<1>2. /\ Node \in Nodes /\ Meaning[Node] = WaysGiven(Ways, Node) /\ w \in Way /\ w.pos = pos /\ w.caps = caps
      /\ pos \in Places /\ pos \in Nat /\ caps \in AllCaps /\ Rest \in Seq(Items) /\ F \in Maps(Way, Way)
      /\ Stacked(alts) /\ Guards(alts, Len(alts), Rest)
      /\ Remains(mode, k, pos, caps, alts) = Each(Meaning[Node][w], F) \o L[caps]
  <2>1. Node.n \in Kinds BY <1>1 DEF Kinds
  <2> QED BY <1>1, <2>1, AheadMeans, AtFacts DEF Shape
<1>3. text \in Texts BY DEF Shape
<1>4. Node.inner \in Nodes /\ Node.inner \in Items /\ Node.index \in 0..Groups
  BY <1>1, <1>2, NodesAssumption, NodeItems
<1>5. f \in Maps(Way, Way) /\ Meaning[Node.inner] = f BY <1>3, <1>4, WaysFacts, MeaningFacts
<1>6. end \in Maps(Way, Way)
  <2>1. [v \in Way |-> <<Captured(Node, w.pos, v)>>] \in Maps(Way, Way) BY <1>1, <1>2, ClosedMaps
  <2> QED BY <1>2, <2>1
<1>7. Meaning[Node][w] = Each(f[w], end)
  <2>1. \A v \in Way : WaysGiven(Ways, Node)[v] = Each(Ways[Node.inner][v], [u \in Way |-> <<Captured(Node, v.pos, u)>>])
    BY <1>1 DEF WaysGiven
  <2> HIDE DEF w
  <2> QED BY <1>2, <2>1
<1>8. f[w] \in Seq(Way) BY <1>2, <1>5, MapsTo
<1>9. Each(Meaning[Node][w], F) = Each(f[w], [v \in Way |-> Each(end[v], F)])
  <2> HIDE DEF f, end, F, w
  <2>1. \A s \in Seq(Way) : Each(Each(s, end), F) = Each(s, [v \in Way |-> Each(end[v], F)])
    BY <1>2, <1>6, EachOfEach
  <2> QED BY <1>7, <1>8, <2>1
<1>10. /\ mode' = "match" /\ pos' = pos /\ caps' = caps
  BY <1>1 DEF OpenGroup
<1>11. CASE ~Captures(Node)
  <2>1. \A v \in Way : Each(end[v], F) = F[v]
    <3>1. \A v \in Way : end[v] = <<v>> BY <1>11 DEF Captured
    <3> HIDE DEF end, F
    <3> QED BY <1>2, <3>1, Few
  <2>2. [v \in Way |-> Each(end[v], F)] = F
    <3> HIDE DEF end, F
    <3> QED BY <1>2, <2>1 DEF Maps
  <2>3. k' = <<Node.inner>> \o Rest /\ alts' = alts BY <1>11 DEF OpenGroup
  <2>4. k' \in Seq(Items) /\ On(Meaning, Way, k')[w] = Each(f[w], F)
    BY <1>2, <1>3, <1>4, <1>5, <2>3, ItemBefore
  <2>5. ClosesIn(k') = ClosesIn(Rest) BY <1>2, <1>4, <2>3, ClosesGrow, NodeItems, ZenonT(60)
  <2>6. Shaped(mode', k', pos', caps', alts') BY <1>2, <1>10, <2>3, <2>4, <2>5 DEF Shaped, Guards
  <2>7. Remains(mode', k', pos', caps', alts') = Each(f[w], F) \o L[caps] BY <1>10, <2>3, <2>4 DEF Remains
  <2> QED BY <1>2, <1>9, <2>2, <2>6, <2>7 DEF Keeps
<1>12. CASE Captures(Node)
  <2> DEFINE i == Node.index
             close == [n |-> "close", index |-> i, from |-> pos]
             undo == [a |-> "undo", index |-> i, span |-> caps[i]]
             G == On(Meaning, Way, <<close>> \o Rest)
  <2>1. i \in 1..Groups BY <1>4, <1>12, BoundsAssumption DEF Captures
  <2>2. close \in Closes /\ close \in Items /\ close.n = "close" /\ close.index = i BY <1>2, <2>1 DEF Closes, Items
  <2>3. undo \in Alts /\ undo.a = "undo" /\ undo.index = i /\ undo.span = caps[i]
    <3>1. caps[i] \in Slots BY <1>2, <2>1 DEF AllCaps
    <3> HIDE DEF Slots
    <3> QED BY <2>1, <3>1 DEF Alts, Undos
  <2>4. \A v \in Way : Meaning[close][v] = end[v]
    <3>1. \A v \in Way : Meaning[close][v] = <<[v EXCEPT !.caps[i] = <<pos, v.pos>>]>>
      BY <1>3, <2>2, MeaningFacts
    <3>2. \A v \in Way : end[v] = <<[v EXCEPT !.caps[i] = <<pos, v.pos>>]>> BY <1>12 DEF Captured
    <3> QED BY <3>1, <3>2
  <2>5. k' = <<Node.inner, close>> \o Rest /\ alts' = Append(alts, undo) BY <1>12 DEF OpenGroup
  <2> HIDE DEF close, undo, i, end, F
  <2>6. /\ <<close>> \o Rest \in Seq(Items) /\ G \in Maps(Way, Way)
        /\ \A v \in Way : G[v] = Each(end[v], F)
    <3>1. /\ <<close>> \o Rest \in Seq(Items) /\ On(Meaning, Way, <<close>> \o Rest) \in Maps(Way, Way)
          /\ \A v \in Way : On(Meaning, Way, <<close>> \o Rest)[v] = Each(Meaning[close][v], On(Meaning, Way, Rest))
      BY <1>2, <1>3, <2>2, ItemBefore
    <3> QED BY <2>4, <3>1 DEF F
  <2> HIDE DEF G
  <2>7. [v \in Way |-> Each(end[v], F)] = G BY <2>6 DEF Maps
  <2>8. k' = <<Node.inner>> \o (<<close>> \o Rest) BY <1>2, <1>4, <2>2, <2>5, TwoInFront
  <2>9. k' \in Seq(Items) /\ On(Meaning, Way, k')[w] = Each(f[w], G)
    <3>1. /\ <<Node.inner>> \o (<<close>> \o Rest) \in Seq(Items)
          /\ On(Meaning, Way, <<Node.inner>> \o (<<close>> \o Rest)) \in Maps(Way, Way)
          /\ \A v \in Way : On(Meaning, Way, <<Node.inner>> \o (<<close>> \o Rest))[v]
                              = Each(Meaning[Node.inner][v], On(Meaning, Way, <<close>> \o Rest))
      BY <1>3, <1>4, <2>6, ItemBefore
    <3> QED BY <1>2, <1>5, <2>8, <3>1 DEF G
  <2>10. ClosesIn(k') = ClosesIn(Rest) \cup {i}
    <3>1. ClosesIn(<<close>> \o Rest) = ClosesIn(Rest) \cup {i} BY <1>2, <2>2, ClosesGrow
    <3>2. ClosesIn(k') = ClosesIn(<<close>> \o Rest)
      <4> DEFINE q == <<close>> \o Rest
      <4>1. q \in Seq(Items) /\ Node.inner \in Items /\ Node.inner.n # "close" BY <1>4, <2>6, NodeItems
      <4>2. k' = <<Node.inner>> \o q BY <2>8
      <4> HIDE DEF q
      <4>3. ClosesIn(<<Node.inner>> \o q) = ClosesIn(q) \cup (IF Node.inner.n = "close" THEN {Node.inner.index} ELSE {})
        BY <4>1, ClosesGrow
      <4> QED BY <4>1, <4>2, <4>3 DEF q
    <3> QED BY <3>1, <3>2
  <2>11. Stacked(alts') /\ Guards(alts', Len(alts'), k')
    <3>1. \A j \in ClosesIn(k') : j = undo.index \/ Guarded(alts, Len(alts), j) BY <1>2, <2>3, <2>10 DEF Guards
    <3>2. /\ Stacked(Append(alts, undo))
          /\ \A s : undo.a = "undo" /\ (\A j \in ClosesIn(s) : j = undo.index \/ Guarded(alts, Len(alts), j))
                      => Guards(Append(alts, undo), Len(Append(alts, undo)), s)
          /\ \A s : undo.a # "undo" /\ ClosesIn(s) \subseteq ClosesIn(undo.k)
                      => Guards(Append(alts, undo), Len(Append(alts, undo)), s)
      BY <1>2, <2>3, StackedMore
    <3> QED BY <2>3, <2>5, <3>1, <3>2
  <2>12. Left(Meaning, Way, alts')[caps] = L[caps]
    <3>1. Left(Meaning, Way, alts') = Offer(Meaning, Way, undo, L) BY <1>2, <1>3, <2>3, <2>5, WaitMaps
    <3>2. Offer(Meaning, Way, undo, L)[caps] = L[[caps EXCEPT ![i] = caps[i]]] BY <1>2, <2>3 DEF Offer
    <3>3. [caps EXCEPT ![i] = caps[i]] = caps BY <1>2 DEF AllCaps
    <3> QED BY <3>1, <3>2, <3>3
  <2>13. Shaped(mode', k', pos', caps', alts') BY <1>2, <1>10, <2>9, <2>11 DEF Shaped
  <2>14. Remains(mode', k', pos', caps', alts') = Each(f[w], G) \o L[caps] BY <1>10, <2>9, <2>12 DEF Remains
  <2> QED BY <1>2, <1>9, <2>7, <2>13, <2>14 DEF Keeps, F
<1> QED BY <1>11, <1>12

\* The parts come before the rest.
LEMMA ConcatKeeps == ASSUME Shape, Concat PROVE Keeps
<1>1. mode = "match" /\ k # << >> /\ Node.n = "concat" BY DEF Concat, Visit
<1> DEFINE w == At(pos, caps)
           F == On(Meaning, Way, Rest)
           L == Left(Meaning, Way, alts)
<1>2. /\ Node \in Nodes /\ Meaning[Node] = WaysGiven(Ways, Node) /\ w \in Way
      /\ pos \in Places /\ caps \in AllCaps /\ Rest \in Seq(Items)
      /\ Stacked(alts) /\ Guards(alts, Len(alts), Rest)
      /\ Remains(mode, k, pos, caps, alts) = Each(Meaning[Node][w], F) \o L[caps]
  <2>1. Node.n \in Kinds BY <1>1 DEF Kinds
  <2> QED BY <1>1, <2>1, AheadMeans DEF Shape
<1>3. text \in Texts BY DEF Shape
<1>4. Node.parts \in Seq(Nodes) BY <1>1, <1>2, NodesAssumption
<1>5. /\ \A j \in DOMAIN Node.parts : Node.parts[j] \in Nodes /\ Node.parts[j] \in Items
      /\ Node.parts \in Seq(Items)
  <2>1. \A j \in DOMAIN Node.parts : Node.parts[j] \in Nodes BY <1>4, LenProperties, ElementOfSeq
  <2>2. \A j \in DOMAIN Node.parts : Node.parts[j] \in Items BY <2>1, NodeItems
  <2>3. Node.parts \in [1..Len(Node.parts) -> Items] BY <1>4, <2>2
  <2> QED BY <1>4, <2>1, <2>2, <2>3, SeqDef, LenProperties
<1>6. Meaning[Node][w] = On(Meaning, Way, Node.parts)[w]
  <2>1. WaysGiven(Ways, Node)[w] = Through([j \in DOMAIN Node.parts |-> Ways[Node.parts[j]]], w)
    BY <1>1, <1>2 DEF WaysGiven
  <2>2. [j \in DOMAIN Node.parts |-> Ways[Node.parts[j]]] = [j \in DOMAIN Node.parts |-> Meaning[Node.parts[j]]]
    BY <1>3, <1>5, MeaningFacts
  <2>3. On(Meaning, Way, Node.parts)[w] = Through([j \in DOMAIN Node.parts |-> Meaning[Node.parts[j]]], w)
    BY <1>2 DEF On, Walk
  <2> QED BY <1>2, <2>1, <2>2, <2>3
<1>7. mode' = "match" /\ k' = Node.parts \o Rest /\ pos' = pos /\ caps' = caps /\ alts' = alts
  BY <1>1 DEF Concat
<1>8. On(Meaning, Way, Node.parts \o Rest)[w] = Each(On(Meaning, Way, Node.parts)[w], F)
  BY <1>2, <1>3, <1>5, MeaningFacts, OnConcat
<1>9. k' \in Seq(Items) /\ ClosesIn(k') \subseteq ClosesIn(Rest)
  <2> DEFINE t == Node.parts \o Rest
             n == Len(Node.parts)
  <2>1. t \in Seq(Items) BY <1>2, <1>5, ConcatProperties
  <2>2. ASSUME NEW j \in DOMAIN t, t[j].n = "close" PROVE t[j].index \in ClosesIn(Rest)
    <3>1. n \in Nat /\ Len(Rest) \in Nat /\ Len(t) = n + Len(Rest) /\ j \in 1..(n + Len(Rest))
          /\ t[j] = IF j <= n THEN Node.parts[j] ELSE Rest[j - n]
      BY <1>2, <1>5
    <3> HIDE DEF t
    <3>2. ~(j <= n)
      <4> SUFFICES ASSUME j <= n PROVE FALSE OBVIOUS
      <4>1. j \in DOMAIN Node.parts BY <1>5, <3>1, LenProperties
      <4>2. t[j] \in Nodes BY <1>5, <3>1, <4>1
      <4> QED BY <2>2, <4>2, NodeItems
    <3>3. j - n \in DOMAIN Rest /\ t[j] = Rest[j - n]
      <4>1. DOMAIN Rest = 1..Len(Rest) BY <1>2, LenProperties
      <4>2. j - n \in 1..Len(Rest) BY <3>1, <3>2
      <4> QED BY <3>1, <3>2, <4>1, <4>2
    <3> QED BY <2>2, <3>3 DEF ClosesIn
  <2>3. ClosesIn(t) \subseteq ClosesIn(Rest)
    <3> HIDE DEF t
    <3> QED BY <2>2 DEF ClosesIn
  <2> QED BY <1>7, <2>1, <2>3
<1>10. Shaped(mode', k', pos', caps', alts') BY <1>2, <1>7, <1>9 DEF Shaped, Guards
<1>11. Remains(mode', k', pos', caps', alts') = Each(On(Meaning, Way, Node.parts)[w], F) \o L[caps]
  BY <1>7, <1>8 DEF Remains
<1> QED BY <1>2, <1>6, <1>10, <1>11 DEF Keeps

\* A group is closed: the span it is given does not change what waits.
LEMMA CloseGroupKeeps == ASSUME Shape, CloseGroup PROVE Keeps
<1>1. mode = "match" /\ k # << >> /\ Node.n = "close" BY DEF CloseGroup, Continue
<1> DEFINE w == At(pos, caps)
           F == On(Meaning, Way, Rest)
           i == Node.index
           c == [caps EXCEPT ![i] = <<Node.from, pos>>]
<1>2. /\ Node \in Items /\ w \in Way /\ w.pos = pos /\ w.caps = caps
      /\ pos \in Places /\ pos \in Nat /\ caps \in AllCaps /\ Rest \in Seq(Items) /\ F \in Maps(Way, Way)
      /\ Stacked(alts) /\ Guards(alts, Len(alts), Rest) /\ Guards(alts, Len(alts), k)
      /\ Remains(mode, k, pos, caps, alts) = Each(Meaning[Node][w], F) \o Left(Meaning, Way, alts)[caps]
  BY <1>1, AheadMeans, AtFacts DEF Shape
<1>3. text \in Texts /\ k \in Seq(Items) BY DEF Shape, Shaped
<1>4. Node \in Closes /\ i \in 1..Groups /\ Node.from \in Nat BY <1>1, <1>2, ItemKinds DEF Closes
<1>5. c \in AllCaps /\ \A j \in 1..Groups : j # i => caps[j] = c[j]
  <2>1. <<Node.from, pos>> \in Slots BY <1>2, <1>4 DEF Slots
  <2> QED BY <1>2, <1>4, <2>1 DEF AllCaps
<1>6. Meaning[Node][w] = <<At(pos, c)>>
  <2>1. Meaning[Node][w] = <<[w EXCEPT !.caps[i] = <<Node.from, w.pos>>]>> BY <1>2, <1>3, <1>4, MeaningFacts
  <2>2. [w EXCEPT !.caps[i] = <<Node.from, pos>>] = At(pos, c) BY DEF At
  <2> QED BY <1>2, <2>1, <2>2
<1>7. At(pos, c) \in Way BY <1>2, <1>3, <1>5, AtFacts
<1>8. mode' = "match" /\ k' = Rest /\ pos' = pos /\ caps' = c /\ alts' = alts
  BY <1>1 DEF CloseGroup, Continue, SpanFrom
<1> HIDE DEF c, w, F
<1>9. Each(Meaning[Node][w], F) = F[At(pos, c)] BY <1>2, <1>6, <1>7, Few
<1>10. Left(Meaning, Way, alts)[caps] = Left(Meaning, Way, alts)[c]
  <2>1. i \in ClosesIn(k)
    <3>1. Node = k[1] /\ 1 \in DOMAIN k BY <1>1, <1>3 DEF Node
    <3> QED BY <1>1, <3>1 DEF ClosesIn
  <2>2. Guarded(alts, Len(alts), i) BY <1>2, <2>1 DEF Guards
  <2>3. alts \in Seq(Alts) BY <1>2 DEF Stacked
  <2>4. \A ws \in Seq(Alts) : Guarded(ws, Len(ws), i) =>
          \A x, d \in AllCaps : (\A j \in 1..Groups : j # i => x[j] = d[j]) =>
            Left(Meaning, Way, ws)[x] = Left(Meaning, Way, ws)[d]
    BY <1>3, <1>4, LeftSame
  <2> QED BY <1>2, <1>5, <2>2, <2>3, <2>4
<1>11. Shaped(mode', k', pos', caps', alts') BY <1>2, <1>5, <1>8 DEF Shaped
<1>12. Remains(mode', k', pos', caps', alts') = F[At(pos, c)] \o Left(Meaning, Way, alts)[c]
  BY <1>8 DEF Remains, F
<1> QED BY <1>2, <1>9, <1>10, <1>11, <1>12 DEF Keeps

\* The first arm is tried, the others wait.
LEMMA AltKeeps == ASSUME Shape, Alt PROVE Keeps
<1>1. mode = "match" /\ k # << >> /\ Node.n = "alt" BY DEF Alt, Visit
<1> DEFINE w == At(pos, caps)
           F == On(Meaning, Way, Rest)
           L == Left(Meaning, Way, alts)
           arms == Node.arms
           first == Head(Node.arms)
           others == Tail(Node.arms)
           each == [x \in Nodes |-> Ways[x][w]]
           each2 == [x \in Nodes |-> On(Meaning, Way, <<x>> \o Rest)[w]]
           arm == [a |-> "arm", arms |-> others, pos |-> pos, k |-> Rest]
<1>2. /\ Node \in Nodes /\ Meaning[Node] = WaysGiven(Ways, Node) /\ w \in Way
      /\ pos \in Places /\ caps \in AllCaps /\ Rest \in Seq(Items) /\ F \in Maps(Way, Way)
      /\ Stacked(alts) /\ Guards(alts, Len(alts), Rest)
      /\ Remains(mode, k, pos, caps, alts) = Each(Meaning[Node][w], F) \o L[caps]
  <2>1. Node.n \in Kinds BY <1>1 DEF Kinds
  <2> QED BY <1>1, <2>1, AheadMeans DEF Shape
<1>3. text \in Texts /\ Ways \in [Nodes -> Maps(Way, Way)] BY WaysFacts DEF Shape
<1>4. arms \in Seq(Nodes) /\ arms # << >> BY <1>1, <1>2, NodesAssumption
<1>5. first \in Nodes /\ others \in Seq(Nodes) /\ arms = <<first>> \o others BY <1>4, HeadTail
<1>6. each \in Maps(Nodes, Way) BY <1>2, <1>3, ArmsMaps
<1>7. Meaning[Node][w] = Each(arms, each)
  <2>1. Meaning[Node][w] = Each(arms, [x \in Under(Node) |-> Ways[x][w]]) BY <1>1, <1>2 DEF WaysGiven
  <2> DEFINE few == [x \in Under(Node) |-> Ways[x][w]]
  <2>2. Under(Node) \subseteq Nodes /\ arms \in Seq(Under(Node)) BY <1>1, <1>2, UnderNodes
  <2>3. few \in Maps(Under(Node), Way) BY <1>2, <1>3, <2>2, ArmsMaps
  <2>4. \A x \in Under(Node) : few[x] = each[x] BY <2>2
  <2> HIDE DEF few, each, arms
  <2>5. \A s \in Seq(Under(Node)) : s \in Seq(Nodes) /\ Each(s, few) = Each(s, each) BY <1>6, <2>2, <2>3, <2>4, EachSame
  <2> QED BY <2>1, <2>2, <2>5 DEF few
<1>8. \A x \in Nodes : Each(each[x], F) = each2[x]
  <2>1. ASSUME NEW x \in Nodes PROVE Each(Ways[x][w], F) = On(Meaning, Way, <<x>> \o Rest)[w]
    <3>1. x \in Items /\ Meaning[x] = Ways[x] BY <1>3, NodeItems, MeaningFacts
    <3>2. /\ <<x>> \o Rest \in Seq(Items) /\ On(Meaning, Way, <<x>> \o Rest) \in Maps(Way, Way)
          /\ \A v \in Way : On(Meaning, Way, <<x>> \o Rest)[v] = Each(Meaning[x][v], On(Meaning, Way, Rest))
      BY <1>2, <1>3, <3>1, ItemBefore
    <3> QED BY <1>2, <3>1, <3>2
  <2> QED BY <2>1
<1>9. each2 \in Maps(Nodes, Way)
  <2>1. ASSUME NEW x \in Nodes PROVE each2[x] \in Seq(Way)
    <3>1. each[x] \in Seq(Way) BY <1>6, MapsTo
    <3> HIDE DEF each, each2, F
    <3>2. Each(each[x], F) \in Seq(Way) BY <1>2, <3>1, EachGrows
    <3> QED BY <1>8, <3>2
  <2> QED BY <2>1 DEF Maps
<1>10. Each(Each(arms, each), F) = each2[first] \o Each(others, each2)
  <2> HIDE DEF arms, each, each2, first, others, F
  <2>1. \A s \in Seq(Nodes) : Each(Each(s, each), F) = Each(s, [x \in Nodes |-> Each(each[x], F)])
    BY <1>2, <1>6, EachOfEach
  <2>2. [x \in Nodes |-> Each(each[x], F)] = each2 BY <1>8, <1>9 DEF Maps
  <2>3. Each(<<first>>, each2) = each2[first] /\ \A t \in Seq(Nodes) : Each(<<first>> \o t, each2) = each2[first] \o Each(t, each2)
    BY <1>5, <1>9, EachFirst
  <2> QED BY <1>4, <1>5, <2>1, <2>2, <2>3
<1>11. mode' = "match" /\ k' = <<first>> \o Rest /\ pos' = pos /\ caps' = caps /\ alts' = Append(alts, arm)
  BY <1>1 DEF Alt, Arm
<1>12. arm \in Alts /\ arm.a = "arm" /\ arm.k = Rest BY <1>2, <1>5 DEF Alts, Arms
<1>13. On(Meaning, Way, k')[w] = each2[first] BY <1>5, <1>11
<1>14. Left(Meaning, Way, alts')[caps] = Each(others, each2) \o L[caps]
  <2>1. Left(Meaning, Way, alts') = Offer(Meaning, Way, arm, L) BY <1>2, <1>3, <1>11, <1>12, WaitMaps
  <2>2. Offer(Meaning, Way, arm, L)[caps]
          = Each(others, [x \in Nodes |-> On(Meaning, Way, <<x>> \o Rest)[[pos |-> pos, caps |-> caps]]]) \o L[caps]
    BY <1>2 DEF Offer
  <2> QED BY <2>1, <2>2 DEF At
<1>15. k' \in Seq(Items) /\ ClosesIn(k') = ClosesIn(Rest)
  <2>1. first \in Items /\ first.n # "close" BY <1>5, NodeItems
  <2> HIDE DEF first
  <2>2. ClosesIn(<<first>> \o Rest) = ClosesIn(Rest) \cup (IF first.n = "close" THEN {first.index} ELSE {})
    BY <1>2, <2>1, ClosesGrow
  <2>3. <<first>> \o Rest \in Seq(Items) BY <1>2, <2>1
  <2> QED BY <1>11, <2>1, <2>2, <2>3
<1>16. Stacked(alts') /\ Guards(alts', Len(alts'), k')
  <2> HIDE DEF arm
  <2>1. /\ Stacked(Append(alts, arm))
        /\ \A s : arm.a = "undo" /\ (\A j \in ClosesIn(s) : j = arm.index \/ Guarded(alts, Len(alts), j))
                    => Guards(Append(alts, arm), Len(Append(alts, arm)), s)
        /\ \A s : arm.a # "undo" /\ ClosesIn(s) \subseteq ClosesIn(arm.k)
                    => Guards(Append(alts, arm), Len(Append(alts, arm)), s)
    BY <1>2, <1>12, StackedMore
  <2> QED BY <1>11, <1>12, <1>15, <2>1
<1>17. Shaped(mode', k', pos', caps', alts') BY <1>2, <1>11, <1>15, <1>16 DEF Shaped
<1>18. Remains(mode', k', pos', caps', alts') = each2[first] \o (Each(others, each2) \o L[caps])
  BY <1>11, <1>13, <1>14 DEF Remains
<1>19. each2[first] \in Seq(Way) /\ Each(others, each2) \in Seq(Way) /\ L[caps] \in Seq(Way)
  <2>1. L[caps] \in Seq(Way) BY <1>2, <1>3, WaitMaps
  <2> HIDE DEF each2, others, first, L
  <2> QED BY <1>5, <1>9, <2>1, EachGrows, MapsTo
<1>20. each2[first] \o (Each(others, each2) \o L[caps]) = (each2[first] \o Each(others, each2)) \o L[caps]
  <2> HIDE DEF each2, others, first, L
  <2>1. \A a, b, c \in Seq(Way) : (a \o b) \o c = a \o (b \o c) BY ConcatAssociative
  <2> QED BY <1>19, <2>1, Zenon
<1> QED BY <1>2, <1>7, <1>10, <1>17, <1>18, <1>20 DEF Keeps

\* Where a repeat goes on after done turns, it may take as many more as that leaves.
LEMMA IterateKeeps ==
  ASSUME text \in Texts, NEW rep \in Nodes, rep.n = "repeat", NEW done \in 0..rep.max, NEW pending \in Seq(Items),
         NEW w, w = At(pos, caps), pos \in Places, caps \in AllCaps, Stacked(alts), Guards(alts, Len(alts), pending),
         mode = "match", Iterate(rep, done, pending), pos' = pos, caps' = caps
  PROVE  /\ Shaped(mode', IF mode' = "back" THEN pending ELSE k', pos', caps', alts')
         /\ Remains(mode', k', pos', caps', alts') =
              Each(Turns(rep, Ways[rep.inner])[rep.max - done][w], On(Meaning, Way, pending)) \o Left(Meaning, Way, alts)[caps]
<1> DEFINE f == Ways[rep.inner]
           F == On(Meaning, Way, pending)
           L == Left(Meaning, Way, alts)
           left == rep.max - done
           T == Turns(rep, f)
           stop == IF CanStop(rep, done) THEN <<w>> ELSE << >>
           more == IF left = 0 THEN << >> ELSE Each(f[w], Taking(w, T[left - 1]))
           turn == Turn(rep, done, pos, pending)
           one == [a |-> "stop", pos |-> pos, k |-> pending]
           other == [a |-> "more", pos |-> pos, k |-> turn]
<1>1. /\ rep.inner \in Nodes /\ rep.min \in Nat /\ rep.max \in Nat /\ rep.greedy \in BOOLEAN
      /\ rep.inner \in Items /\ rep.inner.n # "close"
  BY NodesAssumption, NodeItems
<1>2. f \in Maps(Way, Way) /\ Meaning[rep.inner] = f BY <1>1, WaysFacts, MeaningFacts
<1>3. w \in Way /\ w.pos = pos /\ pos \in Nat BY AtFacts
<1>4. /\ left \in 0..rep.max /\ done \in Nat /\ (left = 0 <=> ~CanMore(rep, done))
      /\ rep.max - left = done
  BY <1>1 DEF CanMore
<1>5. \A m \in 0..rep.max : T[m] \in Maps(Way, Way) /\ \A v \in Way : T[m][v] = TurnOrStop(rep, f, T[m - 1], m, v)
  BY <1>1, <1>2, TurnsFacts
<1>6. F \in Maps(Way, Way)
  <2>1. Meaning \in [Items -> Maps(Way, Way)] BY MeaningFacts
  <2> QED BY <2>1, OnMaps
<1>7. L[caps] \in Seq(Way) BY WaitMaps
<1>8. T[left][w] = IF rep.greedy THEN more \o stop ELSE stop \o more
  <2>1. T[left][w] = TurnOrStop(rep, f, T[left - 1], left, w) BY <1>3, <1>4, <1>5
  <2>2. rep.max - left >= rep.min <=> CanStop(rep, done) BY <1>4 DEF CanStop
  <2> QED BY <2>1, <2>2 DEF TurnOrStop
<1>9. more \in Seq(Way) /\ stop \in Seq(Way)
  <2>1. ASSUME left # 0 PROVE Each(f[w], Taking(w, T[left - 1])) \in Seq(Way)
    <3>1. left - 1 \in 0..rep.max
      <4> HIDE DEF left
      <4> QED BY <1>1, <1>4, <2>1
    <3>2. T[left - 1] \in Maps(Way, Way) BY <1>5, <3>1
    <3>3. Taking(w, T[left - 1]) \in Maps(Way, Way) BY <1>3, <3>2, TakingMaps
    <3>4. f[w] \in Seq(Way) BY <1>2, <1>3, MapsTo
    <3> HIDE DEF f, T
    <3> QED BY <3>3, <3>4, EachGrows
  <2>2. << >> \in Seq(Way) BY EmptySeq
  <2>3. <<w>> \in Seq(Way) BY <1>3
  <2> QED BY <2>1, <2>2, <2>3
<1>10. Each(stop, F) = IF CanStop(rep, done) THEN F[w] ELSE << >>
  <2> HIDE DEF F
  <2> QED BY <1>3, <1>6, Few
<1>11. ASSUME CanMore(rep, done)
       PROVE  /\ turn \in Seq(Items) /\ ClosesIn(turn) = ClosesIn(pending)
              /\ On(Meaning, Way, turn)[w] = Each(more, F)
  <2> DEFINE g == [n |-> "again", rep |-> rep, done |-> done, from |-> pos]
             q == <<g>> \o pending
             G == On(Meaning, Way, q)
             h == T[left - 1]
  <2>1. g \in Agains /\ g \in Items /\ g.n = "again" /\ g.rep = rep /\ g.done = done /\ g.from = pos
    BY <1>1, <1>3, <1>4, <1>11 DEF Agains, Items, CanMore
  <2>2. left - 1 = rep.max - (done + 1) /\ left # 0 /\ left - 1 \in 0..rep.max BY <1>1, <1>4, <1>11
  <2>3. h \in Maps(Way, Way) BY <1>5, <2>2
  <2>4. Taking(w, h) \in Maps(Way, Way) /\ \A v \in Way : Taking(w, h)[v] = IF v.pos = pos THEN << >> ELSE h[v]
    BY <1>3, <2>3, TakingMaps DEF Taking
  <2>5. \A v \in Way : Meaning[g][v] = Taking(w, h)[v]
    <3>1. \A v \in Way : Meaning[g][v] = IF v.pos = g.from THEN << >>
                         ELSE Turns(g.rep, Ways[g.rep.inner])[g.rep.max - (g.done + 1)][v]
      BY <2>1, MeaningFacts
    <3> QED BY <2>1, <2>2, <2>4, <3>1
  <2>6. /\ q \in Seq(Items) /\ G \in Maps(Way, Way) /\ \A v \in Way : G[v] = Each(Meaning[g][v], F)
    BY <2>1, ItemBefore
  <2>7. turn = <<rep.inner>> \o q
    <3>1. turn = <<rep.inner, g>> \o pending BY DEF Turn
    <3> HIDE DEF g, turn
    <3> QED BY <1>1, <2>1, <3>1, TwoInFront
  <2>8. turn \in Seq(Items) /\ On(Meaning, Way, turn)[w] = Each(f[w], G)
    <3> HIDE DEF q, G, turn, f
    <3>1. /\ <<rep.inner>> \o q \in Seq(Items) /\ On(Meaning, Way, <<rep.inner>> \o q) \in Maps(Way, Way)
          /\ \A v \in Way : On(Meaning, Way, <<rep.inner>> \o q)[v] = Each(Meaning[rep.inner][v], On(Meaning, Way, q))
      BY <1>1, <2>6, ItemBefore
    <3> QED BY <1>2, <1>3, <2>7, <3>1 DEF G
  <2>9. G = [v \in Way |-> Each(Taking(w, h)[v], F)]
    <3> HIDE DEF G, F, h, g
    <3> QED BY <2>5, <2>6 DEF Maps
  <2>10. Each(Each(f[w], Taking(w, h)), F) = Each(f[w], [v \in Way |-> Each(Taking(w, h)[v], F)])
    <3>1. f[w] \in Seq(Way) BY <1>2, <1>3, MapsTo
    <3> DEFINE t == Taking(w, h)
    <3>2. t \in Maps(Way, Way) BY <2>4
    <3> HIDE DEF t, F, f
    <3>3. \A s \in Seq(Way) : Each(Each(s, t), F) = Each(s, [v \in Way |-> Each(t[v], F)]) BY <1>6, <3>2, EachOfEach
    <3> QED BY <3>1, <3>3 DEF t
  <2>11. ClosesIn(turn) = ClosesIn(pending)
    <3>1. ClosesIn(q) = ClosesIn(pending) \cup (IF g.n = "close" THEN {g.index} ELSE {}) BY <2>1, ClosesGrow
    <3> HIDE DEF q, turn
    <3>2. ClosesIn(<<rep.inner>> \o q) = ClosesIn(q) \cup (IF rep.inner.n = "close" THEN {rep.inner.index} ELSE {})
      BY <1>1, <2>6, ClosesGrow
    <3> QED BY <1>1, <2>1, <2>7, <3>1, <3>2
  <2>12. more = Each(f[w], Taking(w, h)) BY <2>2
  <2> HIDE DEF more, G, turn, h, F, f
  <2> QED BY <2>8, <2>9, <2>10, <2>11, <2>12
<1>12. ASSUME ~CanMore(rep, done) PROVE Each(more, F) = << >>
  <2>1. more = << >> BY <1>4, <1>12
  <2> HIDE DEF more, F
  <2> QED BY <1>6, <2>1, Few
<1>13. Each(T[left][w], F) = IF rep.greedy THEN Each(more, F) \o Each(stop, F) ELSE Each(stop, F) \o Each(more, F)
  <2> HIDE DEF more, stop, F, T, left
  <2>1. \A t \in Seq(Way) : Each(more \o t, F) = Each(more, F) \o Each(t, F) BY <1>6, <1>9, EachConcat
  <2>2. \A t \in Seq(Way) : Each(stop \o t, F) = Each(stop, F) \o Each(t, F) BY <1>6, <1>9, EachConcat
  <2>3. Each(more \o stop, F) = Each(more, F) \o Each(stop, F) BY <1>9, <2>1
  <2>4. Each(stop \o more, F) = Each(stop, F) \o Each(more, F) BY <1>9, <2>2
  <2> QED BY <1>1, <1>8, <2>3, <2>4
<1> DEFINE S == Each(stop, F)
           R == Each(more, F)
<1>14. S \in Seq(Way) /\ R \in Seq(Way)
  <2> HIDE DEF more, stop, F
  <2> QED BY <1>6, <1>9, EachGrows
\* One more that waits, and what it offers.
<1>15. ASSUME NEW x \in Goes, x.pos = pos, x.k \in Seq(Items), ClosesIn(x.k) = ClosesIn(pending)
       PROVE  /\ Stacked(Append(alts, x))
              /\ \A s : ClosesIn(s) = ClosesIn(pending) => Guards(Append(alts, x), Len(Append(alts, x)), s)
              /\ Left(Meaning, Way, Append(alts, x))[caps] = On(Meaning, Way, x.k)[w] \o L[caps]
  <2>1. x \in Alts /\ x.a \notin {"undo", "arm"} BY DEF Alts, Goes
  <2>2. Guards(alts, Len(alts), x.k) BY <1>15 DEF Guards
  <2>3. /\ Stacked(Append(alts, x))
        /\ \A s : x.a = "undo" /\ (\A j \in ClosesIn(s) : j = x.index \/ Guarded(alts, Len(alts), j))
                    => Guards(Append(alts, x), Len(Append(alts, x)), s)
        /\ \A s : x.a # "undo" /\ ClosesIn(s) \subseteq ClosesIn(x.k) => Guards(Append(alts, x), Len(Append(alts, x)), s)
    BY <2>1, <2>2, StackedMore
  <2>4. Left(Meaning, Way, Append(alts, x)) = Offer(Meaning, Way, x, L) BY <2>1, WaitMaps
  <2>5. Offer(Meaning, Way, x, L)[caps] = On(Meaning, Way, x.k)[[pos |-> x.pos, caps |-> caps]] \o L[caps]
    BY <2>1 DEF Offer
  <2>6. [pos |-> x.pos, caps |-> caps] = w BY <1>15 DEF At
  <2> QED BY <1>15, <2>1, <2>3, <2>4, <2>5, <2>6
<1>16. one \in Goes /\ one.pos = pos /\ one.k = pending BY DEF Goes
<1>17. turn \in Seq(Items) => other \in Goes /\ other.pos = pos /\ other.k = turn BY DEF Goes
<1>18. \A s, a : Remains("match", s, pos, caps, a) = On(Meaning, Way, s)[w] \o Left(Meaning, Way, a)[caps]
  BY DEF Remains
<1>19. \A s, a : Remains("back", s, pos, caps, a) = Left(Meaning, Way, a)[caps] BY DEF Remains
<1>20. \A a, b \in Seq(Way) : a \o (b \o L[caps]) = (a \o b) \o L[caps]
  <2>1. \A a, b, c \in Seq(Way) : (a \o b) \o c = a \o (b \o c) BY ConcatAssociative, SMTT(40)
  <2> HIDE DEF L
  <2> QED BY <1>7, <2>1, Zenon
<1>21. \A a \in Seq(Way) : a \o << >> = a /\ << >> \o a = a BY ConcatEmptySeq
<1> HIDE DEF turn, one, other, more, stop, L, T, f, left
<1> DEFINE ways == Each(T[left][w], F) \o L[caps]
<1> SUFFICES /\ Shaped(mode', IF mode' = "back" THEN pending ELSE k', pos', caps', alts')
             /\ Remains(mode', k', pos', caps', alts') = ways
  BY DEF f, L, left, T
<1>22. CASE CanMore(rep, done) /\ CanStop(rep, done)
  <2>0. S = F[w] BY <1>10, <1>22
  <2>1. CASE rep.greedy
    <3>1. mode' = "match" /\ k' = turn /\ alts' = Append(alts, one)
      BY <1>22, <2>1 DEF Iterate, Greedy, turn, one
    <3>2. Shaped(mode', k', pos', caps', alts') BY <1>11, <1>15, <1>16, <1>22, <3>1 DEF Shaped
    <3>3. Remains(mode', k', pos', caps', alts') = R \o (S \o L[caps])
      BY <1>11, <1>15, <1>16, <1>18, <1>22, <2>0, <3>1
    <3>4. ways = (R \o S) \o L[caps] BY <1>13, <2>1
    <3> QED BY <1>14, <1>20, <3>1, <3>2, <3>3, <3>4
  <2>2. CASE ~rep.greedy
    <3>1. mode' = "match" /\ k' = pending /\ alts' = Append(alts, other)
      BY <1>22, <2>2 DEF Iterate, Lazy, turn, other
    <3>2. Shaped(mode', k', pos', caps', alts') BY <1>11, <1>15, <1>17, <1>22, <3>1 DEF Shaped
    <3>3. Remains(mode', k', pos', caps', alts') = S \o (R \o L[caps])
      BY <1>11, <1>15, <1>17, <1>18, <1>22, <2>0, <3>1
    <3>4. ways = (S \o R) \o L[caps] BY <1>13, <2>2
    <3> QED BY <1>14, <1>20, <3>1, <3>2, <3>3, <3>4
  <2> QED BY <2>1, <2>2
<1>23. CASE CanMore(rep, done) /\ ~CanStop(rep, done)
  <2>1. S = << >> BY <1>10, <1>23
  <2>2. mode' = "match" /\ k' = turn /\ alts' = alts BY <1>23 DEF Iterate, Greedy, Lazy, turn
  <2>3. Shaped(mode', k', pos', caps', alts') BY <1>11, <1>23, <2>2 DEF Shaped, Guards
  <2>4. Remains(mode', k', pos', caps', alts') = R \o L[caps] BY <1>11, <1>18, <1>23, <2>2 DEF L
  <2>5. ways = R \o L[caps] BY <1>13, <1>14, <1>21, <2>1
  <2> QED BY <2>2, <2>3, <2>4, <2>5
<1>24. CASE ~CanMore(rep, done) /\ CanStop(rep, done)
  <2>1. S = F[w] /\ R = << >> BY <1>10, <1>12, <1>24
  <2>2. mode' = "match" /\ k' = pending /\ alts' = alts BY <1>24 DEF Iterate, Greedy, Lazy
  <2>3. Shaped(mode', k', pos', caps', alts') BY <2>2 DEF Shaped
  <2>4. Remains(mode', k', pos', caps', alts') = S \o L[caps] BY <1>18, <2>1, <2>2 DEF L
  <2>5. ways = S \o L[caps] BY <1>13, <1>14, <1>21, <2>1
  <2> QED BY <2>2, <2>3, <2>4, <2>5
<1>25. CASE ~CanMore(rep, done) /\ ~CanStop(rep, done)
  <2>1. S = << >> /\ R = << >> BY <1>10, <1>12, <1>25
  <2>2. mode' = "back" /\ alts' = alts BY <1>25 DEF Iterate, Greedy, Lazy
  <2>3. Shaped(mode', pending, pos', caps', alts') BY <2>2 DEF Shaped
  <2>4. Remains(mode', k', pos', caps', alts') = L[caps] BY <1>19, <2>2 DEF L
  <2>5. ways = L[caps] BY <1>7, <1>13, <1>21, <2>1
  <2> QED BY <2>2, <2>3, <2>4, <2>5
<1> QED BY <1>22, <1>23, <1>24, <1>25

\* A repeat at its first turn.
LEMMA RepeatKeeps == ASSUME Shape, Repeat PROVE Keeps
<1>1. mode = "match" /\ k # << >> /\ Node.n = "repeat" /\ pos' = pos /\ caps' = caps /\ Iterate(Node, 0, Rest)
  BY DEF Repeat, Visit
<1> DEFINE w == At(pos, caps)
           F == On(Meaning, Way, Rest)
           L == Left(Meaning, Way, alts)
<1>2. /\ Node \in Nodes /\ Meaning[Node] = WaysGiven(Ways, Node) /\ w \in Way
      /\ pos \in Places /\ caps \in AllCaps /\ Rest \in Seq(Items)
      /\ Stacked(alts) /\ Guards(alts, Len(alts), Rest)
      /\ Remains(mode, k, pos, caps, alts) = Each(Meaning[Node][w], F) \o L[caps]
  <2>1. Node.n \in Kinds BY <1>1 DEF Kinds
  <2> QED BY <1>1, <2>1, AheadMeans DEF Shape
<1>3. text \in Texts /\ k \in Seq(Items) BY DEF Shape, Shaped
<1>4. Node.max \in Nat /\ 0 \in 0..Node.max /\ Node.max - 0 = Node.max BY <1>1, <1>2, NodesAssumption
<1>5. Meaning[Node] = Turns(Node, Ways[Node.inner])[Node.max] BY <1>1, <1>2 DEF WaysGiven
<1>6. /\ Shaped(mode', IF mode' = "back" THEN Rest ELSE k', pos', caps', alts')
      /\ Remains(mode', k', pos', caps', alts') =
           Each(Turns(Node, Ways[Node.inner])[Node.max - 0][w], F) \o L[caps]
  BY <1>1, <1>2, <1>3, <1>4, IterateKeeps
<1>7. mode' = "back" => k' = k BY <1>1 DEF Iterate, Greedy, Lazy
<1>8. Shaped(mode', k', pos', caps', alts') BY <1>3, <1>6, <1>7 DEF Shaped
<1> QED BY <1>2, <1>4, <1>5, <1>6, <1>8 DEF Keeps

\* A repeat after a turn, which must have taken something.
LEMMA AgainKeeps == ASSUME Shape, Again PROVE Keeps
<1>1. mode = "match" /\ k # << >> /\ Node.n = "again" /\ pos' = pos /\ caps' = caps
  BY DEF Again, Continue
<1> DEFINE w == At(pos, caps)
           F == On(Meaning, Way, Rest)
           L == Left(Meaning, Way, alts)
           rep == Node.rep
           done == Node.done + 1
<1>2. /\ Node \in Items /\ w \in Way /\ w.pos = pos /\ pos \in Places /\ caps \in AllCaps /\ Rest \in Seq(Items)
      /\ Stacked(alts) /\ Guards(alts, Len(alts), Rest)
      /\ Remains(mode, k, pos, caps, alts) = Each(Meaning[Node][w], F) \o L[caps]
  BY <1>1, AheadMeans, AtFacts DEF Shape
<1>3. text \in Texts /\ k \in Seq(Items) BY DEF Shape, Shaped
<1>4. Node \in Agains BY <1>1, <1>2, ItemKinds
<1>5. rep \in Nodes /\ rep.n = "repeat" /\ rep.max \in Nat /\ done \in 0..rep.max
  <2>1. rep \in Nodes /\ rep.n = "repeat" /\ Node.done \in Nat /\ Node.done < rep.max BY <1>4 DEF Agains
  <2>2. rep.max \in Nat BY <2>1, NodesAssumption
  <2> QED BY <2>1, <2>2
<1>6. Meaning[Node][w] = IF pos = Node.from THEN << >> ELSE Turns(rep, Ways[rep.inner])[rep.max - done][w]
  <2> HIDE DEF w
  <2> QED BY <1>2, <1>3, <1>4, MeaningFacts
<1>7. CASE pos = Node.from
  <2>1. mode' = "back" /\ k' = k /\ alts' = alts BY <1>7 DEF Again, EmptyTurn
  <2>2. Meaning[Node][w] = << >> BY <1>6, <1>7
  <2> QED BY <1>1, <2>1, <2>2, FailKeeps
<1>8. CASE pos # Node.from
  <2>1. Iterate(rep, done, Rest) BY <1>8 DEF Again, EmptyTurn
  <2>2. /\ Shaped(mode', IF mode' = "back" THEN Rest ELSE k', pos', caps', alts')
        /\ Remains(mode', k', pos', caps', alts') = Each(Turns(rep, Ways[rep.inner])[rep.max - done][w], F) \o L[caps]
    <3> HIDE DEF rep, done
    <3> QED BY <1>1, <1>2, <1>3, <1>5, <2>1, IterateKeeps
  <2>3. mode' = "back" => k' = k BY <1>1, <2>1 DEF Iterate, Greedy, Lazy
  <2>4. Shaped(mode', k', pos', caps', alts') BY <1>3, <2>2, <2>3 DEF Shaped
  <2> QED BY <1>2, <1>6, <1>8, <2>2, <2>4 DEF Keeps
<1> QED BY <1>7, <1>8

\* The latest of what waits, on the way back.
LEMMA BackMeans ==
  ASSUME Shape, mode = "back", alts # << >>
  PROVE  /\ text \in Texts /\ k \in Seq(Items) /\ pos \in Places /\ caps \in AllCaps
         /\ Latest \in Alts /\ Stacked(Others) /\ (Latest.a # "undo" => Guards(Others, Len(Others), Latest.k))
         /\ Left(Meaning, Way, Others) \in Maps(AllCaps, Way)
         /\ Remains(mode, k, pos, caps, alts) = Offer(Meaning, Way, Latest, Left(Meaning, Way, Others))[caps]
<1>1. text \in Texts /\ k \in Seq(Items) /\ pos \in Places /\ caps \in AllCaps /\ Stacked(alts) BY DEF Shape, Shaped
<1>2. /\ Latest \in Alts /\ Stacked(Others) /\ (Latest.a # "undo" => Guards(Others, Len(Others), Latest.k))
      /\ Left(Meaning, Way, Others) \in Maps(AllCaps, Way)
      /\ Left(Meaning, Way, alts) = Offer(Meaning, Way, Latest, Left(Meaning, Way, Others))
  <2>1. /\ alts[Len(alts)] \in Alts /\ Stacked(SubSeq(alts, 1, Len(alts) - 1))
        /\ (alts[Len(alts)].a # "undo" =>
              Guards(SubSeq(alts, 1, Len(alts) - 1), Len(SubSeq(alts, 1, Len(alts) - 1)), alts[Len(alts)].k))
        /\ Left(Meaning, Way, SubSeq(alts, 1, Len(alts) - 1)) \in Maps(AllCaps, Way)
        /\ Left(Meaning, Way, alts) =
             Offer(Meaning, Way, alts[Len(alts)], Left(Meaning, Way, SubSeq(alts, 1, Len(alts) - 1)))
    BY <1>1, StackedLess
  <2> QED BY <2>1 DEF Latest, Others
<1>3. Remains(mode, k, pos, caps, alts) = Left(Meaning, Way, alts)[caps] BY DEF Remains
<1> QED BY <1>1, <1>2, <1>3

\* A span is put back, and the search goes on as if it had never changed.
LEMMA UndoKeeps == ASSUME Shape, Undo PROVE Keeps
<1>1. mode = "back" /\ alts # << >> /\ Latest.a = "undo" /\ mode' = "back" /\ k' = k /\ pos' = pos
      /\ caps' = [caps EXCEPT ![Latest.index] = Latest.span] /\ alts' = Others
  BY DEF Undo, Back, Restored
<1>2. Latest.index \in 1..Groups /\ Latest.span \in Slots BY <1>1, BackMeans, AltKinds DEF Undos
<1>3. caps' \in AllCaps
  <2>1. caps \in AllCaps BY <1>1, BackMeans
  <2> QED BY <1>1, <1>2, <2>1 DEF AllCaps
<1>4. Shaped(mode', k', pos', caps', alts') BY <1>1, <1>3, BackMeans DEF Shaped
<1>5. Offer(Meaning, Way, Latest, Left(Meaning, Way, Others))[caps] = Left(Meaning, Way, Others)[caps']
  <2>1. caps \in AllCaps BY <1>1, BackMeans
  <2> QED BY <1>1, <2>1 DEF Offer
<1>6. Remains(mode', k', pos', caps', alts') = Left(Meaning, Way, Others)[caps'] BY <1>1 DEF Remains
<1> QED BY <1>1, <1>4, <1>5, <1>6, BackMeans DEF Keeps

\* The other choice of a repeat, from where it waited.
LEMMA StopOrMoreKeeps == ASSUME Shape, StopOrMore PROVE Keeps
<1>1. mode = "back" /\ alts # << >> /\ Latest.a \in {"stop", "more"} /\ mode' = "match" /\ k' = Latest.k /\ pos' = Latest.pos
      /\ caps' = caps /\ alts' = Others
  BY DEF StopOrMore, Back
<1>2. Latest.pos \in Places /\ Latest.k \in Seq(Items) BY <1>1, BackMeans, AltKinds DEF Goes
<1>3. Shaped(mode', k', pos', caps', alts') BY <1>1, <1>2, BackMeans DEF Shaped
<1>4. Offer(Meaning, Way, Latest, Left(Meaning, Way, Others))[caps]
        = On(Meaning, Way, Latest.k)[At(Latest.pos, caps)] \o Left(Meaning, Way, Others)[caps]
  <2>1. caps \in AllCaps BY <1>1, BackMeans
  <2> QED BY <1>1, <2>1 DEF Offer, At
<1>5. Remains(mode', k', pos', caps', alts')
        = On(Meaning, Way, Latest.k)[At(Latest.pos, caps)] \o Left(Meaning, Way, Others)[caps]
  BY <1>1 DEF Remains
<1> QED BY <1>1, <1>3, <1>4, <1>5, BackMeans DEF Keeps

\* The next arm, from where the first began.
LEMMA NextArmKeeps == ASSUME Shape, NextArm PROVE Keeps
<1> DEFINE a == Latest
           L == Left(Meaning, Way, Others)
           each == [x \in Nodes |-> On(Meaning, Way, <<x>> \o a.k)[At(a.pos, caps)]]
<1>1. mode = "back" /\ alts # << >> /\ a.a = "arm" /\ pos' = a.pos /\ caps' = caps BY DEF NextArm, Back
<1>2. a \in Arms /\ a.pos \in Places /\ a.k \in Seq(Items) /\ a.arms \in Seq(Nodes)
  <2>1. a \in Arms BY <1>1, BackMeans, AltKinds
  <2> QED BY <2>1 DEF Arms
<1>3. /\ text \in Texts /\ caps \in AllCaps /\ Stacked(Others) /\ Guards(Others, Len(Others), a.k)
      /\ Remains(mode, k, pos, caps, alts) = Offer(Meaning, Way, a, L)[caps]
  BY <1>1, BackMeans
<1>4. Offer(Meaning, Way, a, L)[caps] = Each(a.arms, each) \o L[caps] BY <1>1, <1>3 DEF Offer, At
<1>5. each \in Maps(Nodes, Way)
  <2>1. ASSUME NEW x \in Nodes PROVE On(Meaning, Way, <<x>> \o a.k)[At(a.pos, caps)] \in Seq(Way)
    <3>1. On(Meaning, Way, <<x>> \o a.k) \in Maps(Way, Way) BY <1>2, <1>3, NodeItems, ItemBefore
    <3>2. At(a.pos, caps) \in Way BY <1>2, <1>3, AtFacts
    <3> QED BY <3>1, <3>2, MapsTo
  <2> QED BY <2>1 DEF Maps
<1>6. L[caps] \in Seq(Way) BY <1>3, WaitMaps
<1>7. CASE a.arms = << >>
  <2>1. mode' = "back" /\ k' = a.k /\ alts' = Others BY <1>1, <1>7 DEF NextArm, Back
  <2>2. Shaped(mode', k', pos', caps', alts') BY <1>1, <1>2, <1>3, <2>1 DEF Shaped
  <2>3. Each(a.arms, each) = << >>
    <3> HIDE DEF each
    <3> QED BY <1>5, <1>7, EachGrows
  <2>4. << >> \o L[caps] = L[caps] BY <1>6
  <2>5. Remains(mode', k', pos', caps', alts') = L[caps] BY <1>1, <2>1 DEF Remains
  <2> QED BY <1>3, <1>4, <2>2, <2>3, <2>4, <2>5 DEF Keeps
<1>8. CASE a.arms # << >>
  <2> DEFINE first == Head(a.arms)
             others == Tail(a.arms)
             b == [a EXCEPT !.arms = Tail(@)]
  <2>1. first \in Nodes /\ others \in Seq(Nodes) /\ a.arms = <<first>> \o others BY <1>2, <1>8, HeadTail
  <2>2. mode' = "match" /\ k' = <<first>> \o a.k /\ alts' = Append(Others, b) BY <1>8 DEF NextArm
  <2>3. b \in Arms /\ b.a = "arm" /\ b.pos = a.pos /\ b.k = a.k /\ b.arms = others BY <1>2, <2>1 DEF Arms
  <2> HIDE DEF first, others, b
  <2>4. b \in Alts BY <2>3 DEF Alts
  <2>5. first \in Items /\ first.n # "close" BY <2>1, NodeItems
  <2>6. k' \in Seq(Items) /\ ClosesIn(k') = ClosesIn(a.k)
    <3>1. ClosesIn(<<first>> \o a.k) = ClosesIn(a.k) \cup (IF first.n = "close" THEN {first.index} ELSE {})
      BY <1>2, <2>5, ClosesGrow
    <3>2. <<first>> \o a.k \in Seq(Items) BY <1>2, <2>5
    <3> QED BY <2>2, <2>5, <3>1, <3>2
  <2>7. Stacked(alts') /\ Guards(alts', Len(alts'), k')
    <3>1. /\ Stacked(Append(Others, b))
          /\ \A s : b.a = "undo" /\ (\A j \in ClosesIn(s) : j = b.index \/ Guarded(Others, Len(Others), j))
                      => Guards(Append(Others, b), Len(Append(Others, b)), s)
          /\ \A s : b.a # "undo" /\ ClosesIn(s) \subseteq ClosesIn(b.k)
                      => Guards(Append(Others, b), Len(Append(Others, b)), s)
      BY <1>3, <2>3, <2>4, StackedMore
    <3> QED BY <2>2, <2>3, <2>6, <3>1
  <2>8. Shaped(mode', k', pos', caps', alts') BY <1>1, <1>2, <1>3, <2>2, <2>6, <2>7 DEF Shaped
  <2>9. Left(Meaning, Way, alts')[caps] = Each(others, each) \o L[caps]
    <3>1. Left(Meaning, Way, alts') = Offer(Meaning, Way, b, L) BY <1>3, <2>2, <2>4, WaitMaps
    <3>2. Offer(Meaning, Way, b, L)[caps]
            = Each(b.arms, [x \in Nodes |-> On(Meaning, Way, <<x>> \o b.k)[[pos |-> b.pos, caps |-> caps]]]) \o L[caps]
      BY <1>3, <2>3 DEF Offer
    <3> QED BY <2>3, <3>1, <3>2 DEF At
  <2>10. On(Meaning, Way, k')[At(a.pos, caps)] = each[first] BY <2>1, <2>2
  <2>11. Each(a.arms, each) = each[first] \o Each(others, each)
    <3> HIDE DEF each
    <3>1. Each(<<first>>, each) = each[first] /\ \A t \in Seq(Nodes) : Each(<<first>> \o t, each) = each[first] \o Each(t, each)
      BY <1>5, <2>1, EachFirst
    <3> QED BY <2>1, <3>1
  <2>12. each[first] \in Seq(Way) /\ Each(others, each) \in Seq(Way)
    <3> HIDE DEF each
    <3> QED BY <1>5, <2>1, EachGrows, MapsTo
  <2>13. Remains(mode', k', pos', caps', alts') = each[first] \o (Each(others, each) \o L[caps])
    BY <1>1, <2>2, <2>9, <2>10 DEF Remains
  <2>14. each[first] \o (Each(others, each) \o L[caps]) = (each[first] \o Each(others, each)) \o L[caps]
    <3> HIDE DEF each, L
    <3>1. \A x, y, z \in Seq(Way) : (x \o y) \o z = x \o (y \o z) BY ConcatAssociative
    <3> QED BY <1>6, <2>12, <3>1, Zenon
  <2> QED BY <1>3, <1>4, <2>8, <2>11, <2>13, <2>14 DEF Keeps
<1> QED BY <1>7, <1>8

\* Beyond the limit a node fails, whatever it would have come to.
LEMMA GiveUpLoses ==
  ASSUME Shape, GiveUp
  PROVE  /\ Shaped(mode', k', pos', caps', alts')
         /\ \E lost \in Seq(Way) : Remains(mode, k, pos, caps, alts) = lost \o Remains(mode', k', pos', caps', alts')
<1>1. mode = "match" /\ k # << >> /\ mode' = "back" /\ k' = k /\ pos' = pos /\ caps' = caps /\ alts' = alts
  BY DEF GiveUp
<1>2. Shaped(mode', k', pos', caps', alts') BY <1>1 DEF Shape, Shaped
<1>3. Remains(mode', k', pos', caps', alts') = Left(Meaning, Way, alts)[caps] BY <1>1 DEF Remains
<1> DEFINE lost == Each(Meaning[Node][At(pos, caps)], On(Meaning, Way, Rest))
<1>4. Remains(mode, k, pos, caps, alts) = lost \o Left(Meaning, Way, alts)[caps] BY <1>1, AheadMeans
<1>5. lost \in Seq(Way)
  <2>1. /\ Meaning[Node] \in Maps(Way, Way) /\ At(pos, caps) \in Way /\ On(Meaning, Way, Rest) \in Maps(Way, Way)
    BY <1>1, AheadMeans
  <2>2. Meaning[Node][At(pos, caps)] \in Seq(Way) BY <2>1, MapsTo
  <2> QED BY <2>1, <2>2, EachGrows
<1> QED BY <1>2, <1>3, <1>4, <1>5

\* Nothing waits: the next place is tried, or there is none.
LEMMA NextStartKeeps ==
  ASSUME Shape, NextStart
  PROVE  /\ Shaped(mode', k', pos', caps', alts') /\ start' \in Places
         /\ Remains(mode, k, pos, caps, alts) = << >>
         /\ start' = start => mode' = "none" /\ steps' = steps /\ Remains(mode', k', pos', caps', alts') = << >>
         /\ start' # start => /\ start' = start + 1 /\ mode' = "match" /\ steps' = 0
                              /\ Remains(mode', k', pos', caps', alts') = Ways[re.root][At(start', NoCaps)]
<1>1. mode = "back" /\ alts = << >> /\ alts' = << >> BY DEF NextStart
<1>2. text \in Texts /\ k \in Seq(Items) /\ pos \in Places /\ caps \in AllCaps /\ Stacked(alts) /\ start \in Places
      /\ re \in Patterns
  BY DEF Shape, Shaped
<1>3. Meaning \in [Items -> Maps(Way, Way)] BY <1>2, MeaningFacts
<1>4. \A c \in AllCaps : Left(Meaning, Way, alts)[c] = << >>
  <2>1. Left(Meaning, Way, << >>) = [c \in AllCaps |-> << >>] BY <1>3, LeftGrows
  <2> QED BY <1>1, <2>1
<1>5. Remains(mode, k, pos, caps, alts) = << >> BY <1>1, <1>2, <1>4 DEF Remains
<1>6. Len(text) \in Nat /\ start \in Nat BY <1>2, TextsAssumption DEF Places
<1>7. CASE start < Len(text)
  <2>1. /\ start' = start + 1 /\ pos' = start + 1 /\ mode' = "match" /\ k' = <<re.root>> /\ caps' = NoCaps /\ steps' = 0
    BY <1>7 DEF NextStart
  <2>2. start' \in Places /\ start' # start BY <1>6, <1>7, <2>1 DEF Places
  <2>3. re.root \in Nodes /\ re.root \in Items /\ re.root.n # "close" /\ Meaning[re.root] = Ways[re.root]
    BY <1>2, PatternsAssumption, NodeItems, MeaningFacts
  <2>4. NoCaps \in AllCaps BY DEF NoCaps, AllCaps, Slots
  <2>5. k' \in Seq(Items) /\ ClosesIn(k') = {}
    <3>1. <<re.root>> \in Seq(Items) /\ \A j \in DOMAIN <<re.root>> : <<re.root>>[j] = re.root BY <2>3
    <3> QED BY <2>1, <2>3, <3>1 DEF ClosesIn
  <2>6. Shaped(mode', k', pos', caps', alts') BY <1>1, <1>2, <2>1, <2>2, <2>4, <2>5 DEF Shaped, Guards
  <2>7. At(start', NoCaps) \in Way BY <1>2, <2>2, <2>4, AtFacts
  <2>8. On(Meaning, Way, <<re.root>>)[At(start', NoCaps)] = Ways[re.root][At(start', NoCaps)]
    <3> DEFINE w == At(start', NoCaps)
               M == Meaning
    <3> HIDE DEF w, M
    <3>1. /\ On(M, Way, << >>)[w] = <<w>>
          /\ \A x \in Items : On(M, Way, <<x>>)[w] = M[x][w]
          /\ \A x \in Items, s \in Seq(Items) : On(M, Way, <<x>> \o s)[w] = Each(M[x][w], On(M, Way, s))
      BY <1>3, <2>7, OnFirst DEF w, M
    <3> QED BY <2>3, <3>1 DEF w, M
  <2>9. Ways[re.root][At(start', NoCaps)] \in Seq(Way) BY <1>2, <2>3, <2>7, WaysFacts, MapsTo
  <2>10. Remains(mode', k', pos', caps', alts') = Ways[re.root][At(start', NoCaps)] \o << >>
    BY <1>1, <1>4, <2>1, <2>4, <2>8 DEF Remains
  <2>11. Remains(mode', k', pos', caps', alts') = Ways[re.root][At(start', NoCaps)] BY <2>9, <2>10, ConcatEmptySeq
  <2> QED BY <1>5, <2>1, <2>2, <2>6, <2>11
<1>8. CASE ~(start < Len(text))
  <2>1. mode' = "none" /\ start' = start /\ pos' = pos /\ k' = k /\ caps' = caps /\ steps' = steps
    BY <1>8 DEF NextStart
  <2>2. Shaped(mode', k', pos', caps', alts') BY <1>1, <1>2, <2>1 DEF Shaped
  <2>3. Remains(mode', k', pos', caps', alts') = << >> BY <1>1, <1>2, <1>4, <2>1 DEF Remains
  <2> QED BY <1>2, <1>5, <2>1, <2>2, <2>3
<1> QED BY <1>7, <1>8

(***************************************************************************)
(* What is left to try, after what was lost to the limit, is what the      *)
(* pattern comes to where the attempt started.                             *)
(***************************************************************************)
Answer == Ways[re.root][At(start, NoCaps)]

Owed ==
  \E lost \in Seq(Way) :
    Answer = lost \o Remains(mode, k, pos, caps, alts) /\ (steps <= MaxSteps => lost = << >>)

MInv == Shape /\ Owed

\* What means something means the same while the pattern and the text stay.
LEMMA Frozen ==
  ASSUME re' = re, text' = text
  PROVE  /\ Places' = Places /\ Way' = Way /\ Alts' = Alts /\ Ways' = Ways /\ Meaning' = Meaning
         /\ Remains(mode, k, pos, caps, alts)' = Remains(mode', k', pos', caps', alts')
         /\ Shaped(mode, k, pos, caps, alts)' <=> Shaped(mode', k', pos', caps', alts')
<1>1. Places' = Places BY DEF Places
<1>2. Way' = Way BY <1>1 DEF Way
<1>3. Alts' = Alts BY <1>1 DEF Alts, Undos, Arms, Goes
<1>4. Ways' = Ways
  BY <1>1, <1>2 DEF Ways, WaysGiven, Turns, TurnOrStop, Taking, AtPlace, WordAt, IsWord, Accepts, ClassMatches, ItemHas, Eq
<1>5. Meaning' = Meaning BY <1>1, <1>2, <1>4 DEF Meaning, Turns, TurnOrStop, Taking
<1>6. Remains(mode, k, pos, caps, alts)' = Remains(mode', k', pos', caps', alts')
  BY <1>2, <1>5 DEF Remains
<1>7. Shaped(mode, k, pos, caps, alts)' <=> Shaped(mode', k', pos', caps', alts')
  BY <1>1, <1>3 DEF Shaped, Stacked
<1> QED BY <1>1, <1>2, <1>3, <1>4, <1>5, <1>6, <1>7

\* The first attempt.
LEMMA InitMeans == ASSUME Init PROVE MInv
<1>1. re \in Patterns /\ text \in Texts /\ start = 0 /\ pos = 0 /\ mode = "match" /\ k = <<re.root>> /\ caps = NoCaps
      /\ alts = << >> /\ steps = 0
  BY DEF Init
<1>2. re.root \in Nodes /\ re.root \in Items /\ re.root.n # "close" /\ Meaning[re.root] = Ways[re.root]
      /\ Ways \in [Nodes -> Maps(Way, Way)] /\ Meaning \in [Items -> Maps(Way, Way)]
  BY <1>1, PatternsAssumption, NodeItems, MeaningFacts, WaysFacts
<1>3. NoCaps \in AllCaps BY DEF NoCaps, AllCaps, Slots
<1>4. 0 \in Places BY <1>1, TextsAssumption DEF Places
<1>5. k \in Seq(Items) /\ ClosesIn(k) = {}
  <2>1. <<re.root>> \in Seq(Items) /\ \A j \in DOMAIN <<re.root>> : <<re.root>>[j] = re.root BY <1>2
  <2> QED BY <1>1, <1>2, <2>1 DEF ClosesIn
<1>6. Stacked(alts) BY <1>1, EmptySeq DEF Stacked
<1>7. Shape BY <1>1, <1>3, <1>4, <1>5, <1>6 DEF Shape, Shaped, Guards
<1>8. At(start, NoCaps) \in Way BY <1>1, <1>3, <1>4, AtFacts
<1> DEFINE w == At(start, NoCaps)
           M == Meaning
<1>9. On(Meaning, Way, k)[w] = Answer
  <2> HIDE DEF w, M
  <2>1. /\ On(M, Way, << >>)[w] = <<w>>
        /\ \A x \in Items : On(M, Way, <<x>>)[w] = M[x][w]
        /\ \A x \in Items, s \in Seq(Items) : On(M, Way, <<x>> \o s)[w] = Each(M[x][w], On(M, Way, s))
    BY <1>2, <1>8, OnFirst DEF w, M
  <2> QED BY <1>1, <1>2, <2>1 DEF w, M, Answer
<1>10. Answer \in Seq(Way) BY <1>2, <1>8, MapsTo DEF Answer
<1>11. Left(Meaning, Way, alts)[caps] = << >>
  <2>1. Left(Meaning, Way, << >>) = [c \in AllCaps |-> << >>] BY <1>2, LeftGrows
  <2> QED BY <1>1, <1>3, <2>1
<1>12. Remains(mode, k, pos, caps, alts) = Answer \o << >>
  <2>1. w = At(pos, caps) BY <1>1
  <2>2. Remains(mode, k, pos, caps, alts) = On(Meaning, Way, k)[At(pos, caps)] \o Left(Meaning, Way, alts)[caps]
    BY <1>1 DEF Remains
  <2> HIDE DEF w
  <2> QED BY <1>9, <1>11, <2>1, <2>2
<1>13. Answer = << >> \o Remains(mode, k, pos, caps, alts)
  <2> DEFINE a == Answer
  <2> HIDE DEF a
  <2>1. a \in Seq(Way) BY <1>10 DEF a
  <2>2. a \o << >> = a /\ << >> \o a = a BY <2>1, ConcatEmptySeq
  <2> QED BY <1>12, <2>2 DEF a
<1> QED BY <1>7, <1>13, EmptySeq DEF MInv, Owed

\* A step that keeps what is left to try keeps what is owed.
LEMMA KeepsOwed ==
  ASSUME MInv, re' = re, text' = text, start' = start, steps' \in Nat, steps' <= MaxSteps => steps <= MaxSteps, Keeps
  PROVE  MInv'
<1>1. Shape'
  <2>1. Shaped(mode, k, pos, caps, alts)' BY Frozen DEF Keeps
  <2>2. Places' = Places BY Frozen
  <2> QED BY <2>1, <2>2 DEF Shape, MInv
<1>2. PICK lost \in Seq(Way) :
        Answer = lost \o Remains(mode, k, pos, caps, alts) /\ (steps <= MaxSteps => lost = << >>)
  BY DEF MInv, Owed
<1>3. Answer' = Answer /\ Way' = Way /\ Remains(mode, k, pos, caps, alts)' = Remains(mode, k, pos, caps, alts)
  BY Frozen DEF Answer, Keeps, At
<1> QED BY <1>1, <1>2, <1>3 DEF MInv, Owed

\* Giving up loses what the node would have come to.
LEMMA GiveUpOwed == ASSUME MInv, GiveUp PROVE MInv'
<1>0. re' = re /\ text' = text /\ start' = start /\ steps' = MaxSteps + 1 BY DEF GiveUp
<1>1. Shape'
  <2>1. Shaped(mode, k, pos, caps, alts)' BY <1>0, Frozen, GiveUpLoses DEF MInv
  <2>2. Places' = Places BY <1>0, Frozen
  <2>3. steps' \in Nat BY <1>0, BoundsAssumption
  <2> QED BY <1>0, <2>1, <2>2, <2>3 DEF Shape, MInv
<1>2. PICK lost \in Seq(Way) : Answer = lost \o Remains(mode, k, pos, caps, alts) BY DEF MInv, Owed
<1>3. PICK more \in Seq(Way) : Remains(mode, k, pos, caps, alts) = more \o Remains(mode', k', pos', caps', alts')
  BY GiveUpLoses DEF MInv
<1>4. Remains(mode', k', pos', caps', alts') \in Seq(Way)
  <2>1. /\ text \in Texts /\ Stacked(alts) /\ caps \in AllCaps /\ mode' = "back" /\ caps' = caps /\ alts' = alts
    BY DEF MInv, Shape, Shaped, GiveUp
  <2>2. Remains(mode', k', pos', caps', alts') = Left(Meaning, Way, alts)[caps] BY <2>1 DEF Remains
  <2> QED BY <2>1, <2>2, WaitMaps
<1>5. lost \o more \in Seq(Way) /\ Answer = (lost \o more) \o Remains(mode', k', pos', caps', alts')
  <2> DEFINE rest == Remains(mode', k', pos', caps', alts')
  <2>1. rest \in Seq(Way) BY <1>4
  <2> HIDE DEF rest
  <2>2. \A a, b, c \in Seq(Way) : (a \o b) \o c = a \o (b \o c) BY ConcatAssociative
  <2>3. (lost \o more) \o rest = lost \o (more \o rest) BY <2>1, <2>2, Zenon
  <2>4. lost \o more \in Seq(Way) BY ConcatProperties
  <2> QED BY <1>2, <1>3, <2>3, <2>4 DEF rest
<1>6. Answer' = Answer /\ Way' = Way /\ Remains(mode, k, pos, caps, alts)' = Remains(mode', k', pos', caps', alts')
  BY <1>0, Frozen DEF Answer, At
<1>7. ~(steps' <= MaxSteps) BY <1>0, BoundsAssumption
<1> QED BY <1>1, <1>5, <1>6, <1>7 DEF MInv, Owed

\* A new attempt owes what the pattern comes to there.
LEMMA NextStartOwed == ASSUME MInv, NextStart PROVE MInv'
<1>0. re' = re /\ text' = text BY DEF NextStart
<1>1. /\ Shaped(mode', k', pos', caps', alts') /\ start' \in Places
      /\ Remains(mode, k, pos, caps, alts) = << >>
      /\ start' = start => mode' = "none" /\ steps' = steps /\ Remains(mode', k', pos', caps', alts') = << >>
      /\ start' # start => /\ start' = start + 1 /\ mode' = "match" /\ steps' = 0
                           /\ Remains(mode', k', pos', caps', alts') = Ways[re.root][At(start', NoCaps)]
  BY NextStartKeeps DEF MInv
<1>2. steps \in Nat BY DEF MInv, Shape
<1>3. CASE start' = start
  <2>1. Keeps BY <1>1, <1>3 DEF Keeps
  <2> QED BY <1>0, <1>1, <1>2, <1>3, <2>1, KeepsOwed
<1>4. CASE start' # start
  <2>1. /\ Places' = Places /\ Way' = Way /\ Ways' = Ways
        /\ Remains(mode, k, pos, caps, alts)' = Remains(mode', k', pos', caps', alts')
        /\ Shaped(mode, k, pos, caps, alts)'
    BY <1>0, <1>1, Frozen
  <2>2. Shape' BY <1>0, <1>1, <1>4, <2>1 DEF Shape, MInv
  <2>3. Answer' = Ways[re.root][At(start', NoCaps)] BY <1>0, <2>1 DEF Answer, At, NoCaps
  <2>4. Answer' \in Seq(Way)
    <3>1. NoCaps \in AllCaps BY DEF NoCaps, AllCaps, Slots
    <3>2. text \in Texts /\ re.root \in Nodes BY PatternsAssumption DEF MInv, Shape
    <3>3. At(start', NoCaps) \in Way BY <1>1, <3>1, <3>2, AtFacts
    <3> QED BY <2>3, <3>2, <3>3, WaysFacts, MapsTo
  <2>5. Answer' = << >> \o Answer'
    <3> DEFINE a == Answer'
    <3> HIDE DEF a
    <3>1. a \in Seq(Way) BY <2>4 DEF a
    <3>2. a = << >> \o a BY <3>1, ConcatEmptySeq
    <3> QED BY <3>2 DEF a
  <2>6. Answer' = << >> \o Remains(mode, k, pos, caps, alts)' BY <1>1, <1>4, <2>1, <2>3, <2>5
  <2>7. << >> \in Seq(Way)' BY EmptySeq
  <2> QED BY <2>2, <2>6, <2>7 DEF MInv, Owed
<1> QED BY <1>3, <1>4

\* Every step keeps it.
LEMMA NextMeans == ASSUME MInv, [Next]_vars PROVE MInv'
<1>0. Shape /\ steps \in Nat BY DEF MInv, Shape
<1>1. CASE Consume \/ Anchor \/ OpenGroup \/ Concat \/ Alt \/ Repeat
  <2>1. Keeps BY <1>0, <1>1, ConsumeKeeps, AnchorKeeps, OpenGroupKeeps, ConcatKeeps, AltKeeps, RepeatKeeps
  <2>2. re' = re /\ text' = text /\ start' = start /\ steps' = steps + 1 /\ steps < MaxSteps
    BY <1>1 DEF Consume, Anchor, OpenGroup, Concat, Alt, Repeat, Visit
  <2>3. steps' \in Nat /\ (steps' <= MaxSteps => steps <= MaxSteps) BY <1>0, <2>2, BoundsAssumption
  <2> QED BY <2>1, <2>2, <2>3, KeepsOwed
<1>2. CASE CloseGroup \/ Again \/ Accept \/ Undo \/ NextArm \/ StopOrMore
  <2>1. Keeps BY <1>0, <1>2, CloseGroupKeeps, AgainKeeps, AcceptKeeps, UndoKeeps, NextArmKeeps, StopOrMoreKeeps
  <2>2. re' = re /\ text' = text /\ start' = start /\ steps' = steps
    BY <1>2 DEF CloseGroup, Again, Accept, Undo, NextArm, StopOrMore, Continue, Back
  <2> QED BY <1>0, <2>1, <2>2, KeepsOwed
<1>3. CASE UNCHANGED vars
  <2>1. Keeps BY <1>0, <1>3 DEF Keeps, Shape, vars
  <2>2. re' = re /\ text' = text /\ start' = start /\ steps' = steps BY <1>3 DEF vars
  <2> QED BY <1>0, <2>1, <2>2, KeepsOwed
<1>4. CASE GiveUp BY <1>4, GiveUpOwed
<1>5. CASE NextStart BY <1>5, NextStartOwed
<1> QED BY <1>1, <1>2, <1>3, <1>4, <1>5 DEF Next

\* What is found is a way of the pattern from where the attempt started.
LEMMA FoundMeans ==
  ASSUME MInv, mode = "found"
  PROVE  \E lost \in Seq(Way), rest \in Seq(Way) :
           /\ Answer = lost \o (<<[pos |-> pos, caps |-> caps]>> \o rest)
           /\ steps <= MaxSteps => lost = << >>
<1> DEFINE rest == Left(Meaning, Way, alts)[caps]
           w == At(pos, caps)
<1>1. text \in Texts /\ Stacked(alts) /\ caps \in AllCaps /\ pos \in Places /\ k = << >> BY DEF MInv, Shape, Shaped
<1>2. rest \in Seq(Way) /\ w \in Way BY <1>1, WaitMaps, AtFacts
<1>3. PICK lost \in Seq(Way) : Answer = lost \o Remains(mode, k, pos, caps, alts) /\ (steps <= MaxSteps => lost = << >>)
  BY DEF MInv, Owed
<1>4. Remains(mode, k, pos, caps, alts) = On(Meaning, Way, << >>)[w] \o rest BY <1>1 DEF Remains
<1> DEFINE M == Meaning
<1>5. On(M, Way, << >>)[w] = <<w>>
  <2>1. M \in [Items -> Maps(Way, Way)] BY <1>1, MeaningFacts
  <2> HIDE DEF w, M
  <2>2. /\ On(M, Way, << >>)[w] = <<w>>
        /\ \A x \in Items : On(M, Way, <<x>>)[w] = M[x][w]
        /\ \A x \in Items, s \in Seq(Items) : On(M, Way, <<x>> \o s)[w] = Each(M[x][w], On(M, Way, s))
    BY <1>2, <2>1, OnFirst
  <2> QED BY <2>2
<1> HIDE DEF rest
<1>6. Answer = lost \o (<<w>> \o rest) BY <1>3, <1>4, <1>5
<1> QED BY <1>2, <1>3, <1>6 DEF At

\* Of the ways of the pattern from where the attempt started, a search that has
\* not reached the limit of steps there finds the first, with its captures.
THEOREM PreferredFound == Spec => [](steps <= MaxSteps => PreferredMatch)
<1>1. Init => MInv BY InitMeans
<1>2. MInv /\ [Next]_vars => MInv' BY NextMeans
<1>3. MInv => (steps <= MaxSteps => PreferredMatch)
  <2> SUFFICES ASSUME MInv, steps <= MaxSteps, mode = "found" PROVE Answer # << >> /\ Answer[1] = [pos |-> pos, caps |-> caps]
    BY DEF PreferredMatch, Answer, At
  <2> DEFINE w == [pos |-> pos, caps |-> caps]
  <2>1. PICK lost \in Seq(Way), rest \in Seq(Way) : Answer = lost \o (<<w>> \o rest) /\ (steps <= MaxSteps => lost = << >>)
    BY FoundMeans
  <2>2. w \in Way BY AtFacts DEF MInv, Shape, Shaped, At
  <2> HIDE DEF w
  <2>3. <<w>> \o rest \in Seq(Way) /\ <<w>> \o rest # << >> /\ (<<w>> \o rest)[1] = w BY <2>2
  <2>4. Answer = <<w>> \o rest BY <2>1, <2>3, ConcatEmptySeq
  <2> QED BY <2>3, <2>4 DEF w
<1> QED BY <1>1, <1>2, <1>3, PTL DEF Spec

\* What is found is a way of the pattern from where the attempt started.
Real == mode = "found" => \E j \in DOMAIN Answer : Answer[j] = [pos |-> pos, caps |-> caps]

\* Whatever match_node has given up, the position and the captures find_at
\* reports are those of one match of the pattern: never of parts of several.
THEOREM FoundIsReal == Spec => []Real
<1>1. Init => MInv BY InitMeans
<1>2. MInv /\ [Next]_vars => MInv' BY NextMeans
<1>3. MInv => Real
  <2> SUFFICES ASSUME MInv, mode = "found" PROVE \E j \in DOMAIN Answer : Answer[j] = [pos |-> pos, caps |-> caps]
    BY DEF Real
  <2> DEFINE w == [pos |-> pos, caps |-> caps]
  <2>1. PICK lost \in Seq(Way), rest \in Seq(Way) : Answer = lost \o (<<w>> \o rest) BY FoundMeans
  <2>2. w \in Way BY AtFacts DEF MInv, Shape, Shaped, At
  <2> HIDE DEF w
  <2>3. <<w>> \o rest \in Seq(Way) /\ Len(<<w>> \o rest) \in Nat /\ Len(<<w>> \o rest) >= 1 /\ (<<w>> \o rest)[1] = w BY <2>2
  <2> DEFINE t == <<w>> \o rest
             j == Len(lost) + 1
  <2>4. t \in Seq(Way) /\ Len(t) \in Nat /\ Len(t) >= 1 /\ t[1] = w BY <2>3
  <2> HIDE DEF t
  <2>5. lost \o t \in Seq(Way) /\ Len(lost \o t) = Len(lost) + Len(t) /\ Len(lost) \in Nat
        /\ \A i \in 1..(Len(lost) + Len(t)) : (lost \o t)[i] = IF i <= Len(lost) THEN lost[i] ELSE t[i - Len(lost)]
    BY <2>4, ConcatProperties, LenProperties
  <2>6. j \in 1..(Len(lost) + Len(t)) /\ ~(j <= Len(lost)) /\ j - Len(lost) = 1 BY <2>4, <2>5
  <2>7. j \in DOMAIN (lost \o t) /\ (lost \o t)[j] = w BY <2>4, <2>5, <2>6, LenProperties
  <2> QED BY <2>1, <2>7 DEF t, w
<1> QED BY <1>1, <1>2, <1>3, PTL DEF Spec

(***************************************************************************)
(* The spans of a pattern.                                                 *)
(***************************************************************************)
Pairs == SUBSET (Places \X Places)

\* A span of R and one of S behind it.
LEMMA JoinedFacts ==
  ASSUME NEW R \in Pairs, NEW S \in Pairs
  PROVE  /\ Joined(R, S) \in Pairs
         /\ \A a, c : <<a, c>> \in Joined(R, S) <=> \E b : <<a, b>> \in R /\ <<b, c>> \in S
<1> DEFINE B == {p \in R \X S : p[1][2] = p[2][1]}
<1>1. \A p \in R : p = <<p[1], p[2]>> /\ p[1] \in Places /\ p[2] \in Places BY DEF Pairs
<1>2. \A p \in S : p = <<p[1], p[2]>> /\ p[1] \in Places /\ p[2] \in Places BY DEF Pairs
<1>3. Joined(R, S) = {<<both[1][1], both[2][2]>> : both \in B} BY DEF Joined
<1>4. \A both \in B : both[1] \in R /\ both[2] \in S /\ both[1][2] = both[2][1] OBVIOUS
<1>5. ASSUME NEW a, NEW b, NEW c, <<a, b>> \in R, <<b, c>> \in S PROVE <<a, c>> \in Joined(R, S)
  <2>1. <<<<a, b>>, <<b, c>>>> \in B BY <1>5
  <2> QED BY <1>3, <2>1
<1>6. ASSUME NEW a, NEW c, <<a, c>> \in Joined(R, S) PROVE \E b : <<a, b>> \in R /\ <<b, c>> \in S
  <2>1. PICK both \in B : <<a, c>> = <<both[1][1], both[2][2]>> BY <1>3, <1>6
  <2>2. both[1] = <<a, both[1][2]>> /\ both[2] = <<both[1][2], c>> BY <1>1, <1>2, <1>4, <2>1
  <2> QED BY <1>4, <2>2
<1>7. ASSUME NEW both \in B PROVE <<both[1][1], both[2][2]>> \in Places \X Places BY <1>1, <1>2, <1>4
<1>8. Joined(R, S) \in Pairs BY <1>3, <1>7 DEF Pairs
<1> QED BY <1>5, <1>6, <1>8

\* The spans up to each of Rs.
Spanned(u, Rs) ==
  /\ u \in [0..Len(Rs) -> Pairs]
  /\ u[0] = Stay /\ \A i \in 1..Len(Rs) : u[i] = Joined(u[i - 1], Rs[i])

\* InARow is the end of a chain.
LEMMA RowChain ==
  ASSUME NEW Rs \in Seq(Pairs)
  PROVE  \E u : Spanned(u, Rs) /\ InARow(Rs) = u[Len(Rs)]
<1> DEFINE n == Len(Rs)
           g == [x \in (1..n) \X Pairs |-> Joined(x[2], Rs[x[1]])]
           upto[i \in 0..n] == IF i = 0 THEN Stay ELSE Joined(upto[i - 1], Rs[i])
<1>1. n \in Nat /\ \A i \in 1..n : Rs[i] \in Pairs BY LenProperties, ElementOfSeq
<1>2. g \in [(1..n) \X Pairs -> Pairs]
  <2>1. ASSUME NEW x \in (1..n) \X Pairs PROVE Joined(x[2], Rs[x[1]]) \in Pairs
    <3>1. x[2] \in Pairs /\ Rs[x[1]] \in Pairs BY <1>1
    <3> QED BY <3>1, JoinedFacts
  <2> QED BY <2>1
<1>3. Stay \in Pairs BY DEF Stay, Pairs
<1>4. PICK u \in [0..n -> Pairs] : Chained(u, Stay, g, n)
  <2> HIDE DEF g, n
  <2> QED BY <1>1, <1>2, <1>3, Chain
<1>5. u[0] = Stay /\ \A i \in 1..n : u[i] = Joined(u[i - 1], Rs[i])
  <2>1. \A i \in 1..n : i - 1 \in 0..n BY <1>1
  <2>2. \A i \in 1..n : u[i - 1] \in Pairs BY <1>4, <2>1
  <2>3. \A i \in 1..n : g[<<i, u[i - 1]>>] = Joined(u[i - 1], Rs[i]) BY <2>2
  <2> HIDE DEF g
  <2> QED BY <1>4, <2>3 DEF Chained
<1>6. u = [i \in 0..n |-> IF i = 0 THEN Stay ELSE Joined(u[i - 1], Rs[i])]
  <2>1. \A i \in 0..n : i # 0 => i \in 1..n BY <1>1
  <2> QED BY <1>5, <2>1
<1>7. upto = [i \in 0..n |-> IF i = 0 THEN Stay ELSE Joined(upto[i - 1], Rs[i])] BY <1>6
<1>8. InARow(Rs) = upto[n] BY DEF InARow
<1>9. ASSUME NEW i \in 0..n PROVE upto[i] = IF i = 0 THEN Stay ELSE Joined(upto[i - 1], Rs[i])
  <2> HIDE DEF upto
  <2> QED BY <1>7, Zenon
<1> HIDE DEF upto, g
<1> DEFINE P == {i \in Nat : i <= n => upto[i] = u[i]}
<1>10. 0 \in P
  <2>1. 0 \in 0..n BY <1>1
  <2>2. upto[0] = Stay BY <1>9, <2>1, Zenon
  <2> QED BY <1>5, <2>2
<1>11. ASSUME NEW i \in Nat, i \in P PROVE i + 1 \in P
  <2> SUFFICES ASSUME i + 1 <= n PROVE upto[i + 1] = u[i + 1] OBVIOUS
  <2>1. i + 1 \in 1..n /\ i + 1 \in 0..n /\ i + 1 # 0 /\ (i + 1) - 1 = i BY <1>1
  <2>2. upto[i + 1] = Joined(upto[(i + 1) - 1], Rs[i + 1]) BY <1>9, <2>1, Zenon
  <2>3. u[i + 1] = Joined(u[(i + 1) - 1], Rs[i + 1]) BY <1>5, <2>1
  <2>4. upto[i] = u[i] BY <1>1, <1>11, <2>1
  <2> QED BY <2>1, <2>2, <2>3, <2>4
<1> HIDE DEF P
<1>12. n \in P BY <1>1, <1>10, <1>11, EveryNat
<1>13. upto[n] = u[n] BY <1>12 DEF P
<1> QED BY <1>4, <1>5, <1>8, <1>13 DEF Spanned

\* One more in the row.
LEMMA RowGrows ==
  /\ InARow(<< >>) = Stay /\ Stay \in Pairs
  /\ \A Rs \in Seq(Pairs) : InARow(Rs) \in Pairs
  /\ \A Rs \in Seq(Pairs), R \in Pairs : InARow(Append(Rs, R)) = Joined(InARow(Rs), R)
<1>0. Stay \in Pairs BY DEF Stay, Pairs
<1>1. InARow(<< >>) = Stay
  <2>1. << >> \in Seq(Pairs) /\ Len(<< >>) = 0 BY EmptySeq
  <2>2. PICK u : Spanned(u, << >>) /\ InARow(<< >>) = u[Len(<< >>)] BY <2>1, RowChain
  <2> QED BY <2>1, <2>2 DEF Spanned
<1>2. ASSUME NEW Rs \in Seq(Pairs) PROVE InARow(Rs) \in Pairs
  <2>1. PICK u : Spanned(u, Rs) /\ InARow(Rs) = u[Len(Rs)] BY RowChain
  <2>2. Len(Rs) \in Nat BY LenProperties
  <2> QED BY <2>1, <2>2 DEF Spanned
<1>3. ASSUME NEW Rs \in Seq(Pairs), NEW R \in Pairs PROVE InARow(Append(Rs, R)) = Joined(InARow(Rs), R)
  <2> DEFINE t == Append(Rs, R)
             n == Len(Rs)
  <2>1. n \in Nat /\ t \in Seq(Pairs) /\ Len(t) = n + 1 /\ t[n + 1] = R /\ \A i \in 1..n : t[i] = Rs[i]
    BY LenProperties, AppendProperties
  <2> HIDE DEF t
  <2>2. PICK u : Spanned(u, Rs) /\ InARow(Rs) = u[n] BY RowChain
  <2>3. PICK v : Spanned(v, t) /\ InARow(t) = v[Len(t)] BY <2>1, RowChain
  <2> DEFINE P == {i \in Nat : i <= n => u[i] = v[i]}
  <2>4. 0 \in P BY <2>2, <2>3 DEF Spanned
  <2>5. ASSUME NEW i \in Nat, i \in P PROVE i + 1 \in P
    <3> SUFFICES ASSUME i + 1 <= n PROVE u[i + 1] = v[i + 1] OBVIOUS
    <3>1. i + 1 \in 1..n /\ i + 1 \in 1..Len(t) /\ (i + 1) - 1 = i BY <2>1
    <3>2. t[i + 1] = Rs[i + 1] /\ u[i] = v[i] BY <2>1, <2>5, <3>1
    <3> QED BY <2>2, <2>3, <3>1, <3>2 DEF Spanned
  <2> HIDE DEF P
  <2>6. n \in P BY <2>1, <2>4, <2>5, EveryNat
  <2>7. u[n] = v[n] BY <2>6 DEF P
  <2>8. v[n + 1] = Joined(v[n], R)
    <3>1. n + 1 \in 1..Len(t) /\ (n + 1) - 1 = n BY <2>1
    <3> QED BY <2>1, <2>3, <3>1 DEF Spanned
  <2> QED BY <2>1, <2>2, <2>3, <2>7, <2>8 DEF t
<1> QED BY <1>0, <1>1, <1>2, <1>3

\* A number of turns of R.
Row(R, i) == InARow([j \in 1..i |-> R])

\* None, and one more, in front or behind.
LEMMA RowFacts ==
  ASSUME NEW R \in Pairs
  PROVE  /\ Row(R, 0) = Stay
         /\ \A i \in Nat : Row(R, i) \in Pairs
         /\ \A i \in Nat : Row(R, i + 1) = Joined(Row(R, i), R)
         /\ \A i \in Nat : \A a, c : <<a, c>> \in Row(R, i + 1) <=> \E b : <<a, b>> \in R /\ <<b, c>> \in Row(R, i)
<1> DEFINE s(i) == [j \in 1..i |-> R]
<1>1. \A i \in Nat : s(i) \in Seq(Pairs) /\ Len(s(i)) = i OBVIOUS
<1>2. s(0) = << >> OBVIOUS
<1>3. ASSUME NEW i \in Nat PROVE s(i + 1) = Append(s(i), R)
  <2> DEFINE t == Append(s(i), R)
  <2>1. \A j \in 1..i : s(i)[j] = R OBVIOUS
  <2>2. Len(s(i)) = i /\ s(i) \in Seq(Pairs) BY <1>1
  <2>3. \A j \in 1..(i + 1) : s(i + 1)[j] = R OBVIOUS
  <2>4. Len(s(i + 1)) = i + 1 /\ s(i + 1) \in Seq(Pairs) BY <1>1
  <2> HIDE DEF s
  <2>5. t \in Seq(Pairs) /\ Len(t) = i + 1 /\ t[i + 1] = R /\ \A j \in 1..i : t[j] = s(i)[j]
    BY <2>2, AppendProperties
  <2> HIDE DEF t
  <2>6. \A j \in 1..(i + 1) : t[j] = R BY <2>1, <2>5
  <2>7. s(i + 1) = t BY <2>3, <2>4, <2>5, <2>6, SeqEqual
  <2> QED BY <2>7 DEF t
<1>4. \A i \in Nat : Row(R, i) = InARow(s(i)) BY DEF Row
<1> HIDE DEF s
<1>5. Row(R, 0) = Stay BY <1>2, <1>4, RowGrows
<1>6. \A i \in Nat : Row(R, i) \in Pairs BY <1>1, <1>4, RowGrows
<1>7. ASSUME NEW i \in Nat PROVE Row(R, i + 1) = Joined(Row(R, i), R)
  <2>1. InARow(Append(s(i), R)) = Joined(InARow(s(i)), R) BY <1>1, RowGrows
  <2>2. i + 1 \in Nat OBVIOUS
  <2> QED BY <1>3, <1>4, <2>1, <2>2
<1> DEFINE P == {i \in Nat : \A a, c : <<a, c>> \in Row(R, i + 1) <=> \E b : <<a, b>> \in R /\ <<b, c>> \in Row(R, i)}
<1>8. ASSUME NEW i \in Nat
      PROVE  \A a, c : <<a, c>> \in Row(R, i + 1) <=> \E b : <<a, b>> \in Row(R, i) /\ <<b, c>> \in R
  <2> DEFINE S == Row(R, i)
  <2>1. S \in Pairs /\ Row(R, i + 1) = Joined(S, R) BY <1>6, <1>7
  <2> HIDE DEF S
  <2>2. \A a, c : <<a, c>> \in Joined(S, R) <=> \E b : <<a, b>> \in S /\ <<b, c>> \in R BY <2>1, JoinedFacts
  <2> QED BY <2>1, <2>2, Zenon DEF S
<1>9. 0 \in P
  <2>1. \A a, c : <<a, c>> \in Row(R, 0) <=> a = c /\ a \in Places BY <1>5 DEF Stay
  <2>2. \A a, c : <<a, c>> \in R => a \in Places /\ c \in Places BY DEF Pairs
  <2>3. ASSUME NEW a, NEW c PROVE <<a, c>> \in Row(R, 0 + 1) <=> \E b : <<a, b>> \in R /\ <<b, c>> \in Row(R, 0)
    <3>1. <<a, c>> \in Row(R, 0 + 1) <=> \E b : <<a, b>> \in Row(R, 0) /\ <<b, c>> \in R BY <1>8
    <3>2. (\E b : <<a, b>> \in Row(R, 0) /\ <<b, c>> \in R) <=> <<a, c>> \in R
      <4>1. ASSUME NEW b, <<a, b>> \in Row(R, 0), <<b, c>> \in R PROVE <<a, c>> \in R
        <5>1. a = b BY <2>1, <4>1
        <5> QED BY <4>1, <5>1
      <4>2. <<a, c>> \in R => <<a, a>> \in Row(R, 0) BY <2>1, <2>2
      <4> QED BY <4>1, <4>2
    <3>3. (\E b : <<a, b>> \in R /\ <<b, c>> \in Row(R, 0)) <=> <<a, c>> \in R
      <4>1. ASSUME NEW b, <<a, b>> \in R, <<b, c>> \in Row(R, 0) PROVE <<a, c>> \in R
        <5>1. b = c BY <2>1, <4>1
        <5> QED BY <4>1, <5>1
      <4>2. <<a, c>> \in R => <<c, c>> \in Row(R, 0) BY <2>1, <2>2
      <4> QED BY <4>1, <4>2
    <3> QED BY <3>1, <3>2, <3>3
  <2> QED BY <2>3
<1>10. ASSUME NEW i \in Nat, i \in P PROVE i + 1 \in P
  <2> DEFINE m == i + 1
  <2>1. m \in Nat OBVIOUS
  <2>2. \A a, c : <<a, c>> \in Row(R, m) <=> \E b : <<a, b>> \in R /\ <<b, c>> \in Row(R, i) BY <1>10
  <2>3. \A a, c : <<a, c>> \in Row(R, m) <=> \E b : <<a, b>> \in Row(R, i) /\ <<b, c>> \in R BY <1>8
  <2> HIDE DEF m
  <2>4. \A a, c : <<a, c>> \in Row(R, m + 1) <=> \E b : <<a, b>> \in Row(R, m) /\ <<b, c>> \in R BY <1>8, <2>1
  <2>5. ASSUME NEW a, NEW c PROVE <<a, c>> \in Row(R, m + 1) <=> \E b : <<a, b>> \in R /\ <<b, c>> \in Row(R, m)
    <3>1. ASSUME <<a, c>> \in Row(R, m + 1) PROVE \E b : <<a, b>> \in R /\ <<b, c>> \in Row(R, m)
      <4>1. PICK y : <<a, y>> \in Row(R, m) /\ <<y, c>> \in R BY <2>4, <3>1
      <4>2. PICK x : <<a, x>> \in R /\ <<x, y>> \in Row(R, i) BY <2>2, <4>1
      <4>3. <<x, c>> \in Row(R, m) BY <2>3, <4>1, <4>2
      <4> QED BY <4>2, <4>3
    <3>2. ASSUME NEW x, <<a, x>> \in R, <<x, c>> \in Row(R, m) PROVE <<a, c>> \in Row(R, m + 1)
      <4>1. PICK y : <<x, y>> \in Row(R, i) /\ <<y, c>> \in R BY <2>3, <3>2
      <4>2. <<a, y>> \in Row(R, m) BY <2>2, <3>2, <4>1
      <4> QED BY <2>4, <4>1, <4>2
    <3> QED BY <3>1, <3>2
  <2> QED BY <2>1, <2>5 DEF m
<1> HIDE DEF P
<1>11. \A i \in Nat : i \in P BY <1>9, <1>10, EveryNat
<1>12. \A i \in Nat : \A a, c : <<a, c>> \in Row(R, i + 1) <=> \E b : <<a, b>> \in R /\ <<b, c>> \in Row(R, i)
  BY <1>11 DEF P
<1> QED BY <1>5, <1>6, <1>7, <1>12

\* A row of spans of what a node owns.
LEMMA SpansGivenType ==
  ASSUME text \in Texts, NEW spans \in [Nodes -> Pairs], NEW node \in Nodes
  PROVE  SpansGiven(spans, node) \in Pairs
<1>0. Len(text) \in Nat /\ DOMAIN text = 1..Len(text) BY TextsAssumption, LenProperties
<1>1. CASE node.n \in {"char", "any", "class"}
  <2>1. SpansGiven(spans, node) = {<<p - 1, p>> : p \in {q \in DOMAIN text : Accepts(node, text[q])}}
    BY <1>1 DEF SpansGiven
  <2>2. \A p \in DOMAIN text : p - 1 \in Places /\ p \in Places BY <1>0 DEF Places
  <2> QED BY <2>1, <2>2 DEF Pairs
<1>2. CASE node.n \in {"empty", "start", "end", "boundary"}
  <2>1. SpansGiven(spans, node) = {<<p, p>> : p \in {q \in Places : AtPlace(node, q)}} BY <1>2 DEF SpansGiven
  <2> QED BY <2>1 DEF Pairs
<1>3. CASE node.n = "group" BY <1>3, NodesAssumption DEF SpansGiven
<1>4. CASE node.n = "concat"
  <2> DEFINE Rs == [i \in DOMAIN node.parts |-> spans[node.parts[i]]]
  <2>1. SpansGiven(spans, node) = InARow(Rs) BY <1>4 DEF SpansGiven
  <2>2. Rs \in Seq(Pairs)
    <3>1. node.parts \in Seq(Nodes) BY <1>4, NodesAssumption
    <3>2. Len(node.parts) \in Nat /\ DOMAIN node.parts = 1..Len(node.parts)
          /\ \A i \in 1..Len(node.parts) : node.parts[i] \in Nodes
      BY <3>1, LenProperties, ElementOfSeq
    <3>3. \A i \in 1..Len(node.parts) : spans[node.parts[i]] \in Pairs BY <3>2
    <3> QED BY <3>2, <3>3
  <2> HIDE DEF Rs
  <2> QED BY <2>1, <2>2, RowGrows
<1>5. CASE node.n = "alt"
  <2>1. SpansGiven(spans, node) = UNION {spans[node.arms[i]] : i \in DOMAIN node.arms} BY <1>5 DEF SpansGiven
  <2>2. node.arms \in Seq(Nodes) BY <1>5, NodesAssumption
  <2>3. \A i \in DOMAIN node.arms : spans[node.arms[i]] \in Pairs BY <2>2
  <2> QED BY <2>1, <2>3 DEF Pairs
<1>6. CASE node.n = "repeat"
  <2> DEFINE R == spans[node.inner]
  <2>1. SpansGiven(spans, node) = UNION {Row(R, i) : i \in node.min..node.max} BY <1>6 DEF SpansGiven, Row
  <2>2. R \in Pairs /\ node.min \in Nat /\ node.max \in Nat BY <1>6, NodesAssumption
  <2> HIDE DEF R
  <2>3. \A i \in node.min..node.max : i \in Nat BY <2>2
  <2>4. \A i \in node.min..node.max : Row(R, i) \in Pairs BY <2>2, <2>3, RowFacts
  <2> QED BY <2>1, <2>4 DEF Pairs
<1> QED BY <1>1, <1>2, <1>3, <1>4, <1>5, <1>6, EveryKind

\* The spans of a node rest on those of what it owns.
LEMMA SpansGivenSame ==
  ASSUME NEW sa, NEW sb, NEW node \in Nodes, \A x \in Under(node) : sa[x] = sb[x]
  PROVE  SpansGiven(sa, node) = SpansGiven(sb, node)
<1>1. CASE node.n \in {"char", "any", "class"} BY <1>1 DEF SpansGiven
<1>2. CASE node.n \in {"empty", "start", "end", "boundary"} BY <1>2 DEF SpansGiven
<1>3. CASE node.n \in {"group", "repeat"}
  <2>1. sa[node.inner] = sb[node.inner] BY <1>3 DEF Under
  <2> QED BY <1>3, <2>1 DEF SpansGiven
<1>4. CASE node.n = "concat"
  <2>1. \A i \in DOMAIN node.parts : sa[node.parts[i]] = sb[node.parts[i]] BY <1>4 DEF Under
  <2>2. [i \in DOMAIN node.parts |-> sa[node.parts[i]]] = [i \in DOMAIN node.parts |-> sb[node.parts[i]]] BY <2>1
  <2> QED BY <1>4, <2>2 DEF SpansGiven
<1>5. CASE node.n = "alt"
  <2>1. \A i \in DOMAIN node.arms : sa[node.arms[i]] = sb[node.arms[i]] BY <1>5 DEF Under
  <2>2. {sa[node.arms[i]] : i \in DOMAIN node.arms} = {sb[node.arms[i]] : i \in DOMAIN node.arms} BY <2>1
  <2> QED BY <1>5, <2>2 DEF SpansGiven
<1> QED BY <1>1, <1>2, <1>3, <1>4, <1>5, EveryKind

\* The spans of a pattern are what it says they are.
LEMMA SpansFacts ==
  ASSUME text \in Texts
  PROVE  Spans \in [Nodes -> Pairs] /\ \A n \in Nodes : Spans[n] = SpansGiven(Spans, n)
<1> DEFINE V == Pairs
           g == [x \in [Nodes -> V] \X Nodes |-> SpansGiven(x[1], x[2])]
<1>1. {} \in V BY DEF Pairs
<1>2. \A f \in [Nodes -> V], n \in Nodes : g[<<f, n>>] = SpansGiven(f, n) OBVIOUS
<1>3. \A x \in [Nodes -> V] \X Nodes : SpansGiven(x[1], x[2]) \in V BY SpansGivenType
<1>4. g \in [[Nodes -> V] \X Nodes -> V] BY <1>3
<1> HIDE DEF g, V
<1>5. Rests(g, V) BY <1>2, <1>4, SpansGivenSame DEF Rests
<1>6. PICK all \in [Nodes -> V] : \A n \in Nodes : all[n] = g[<<all, n>>] BY <1>1, <1>5, Recursion
<1>7. all = [n \in Nodes |-> SpansGiven(all, n)] BY <1>2, <1>6
<1>8. Spans = [n \in Nodes |-> SpansGiven(Spans, n)] BY <1>7 DEF Spans
<1>9. \A n \in Nodes : Spans[n] = SpansGiven(Spans, n) BY <1>8, Zenon
<1> DEFINE P == {n \in Nodes : Spans[n] = all[n]}
<1>10. ASSUME NEW n \in Nodes, \A x \in Under(n) : x \in P PROVE n \in P
  <2>1. SpansGiven(Spans, n) = SpansGiven(all, n) BY <1>10, SpansGivenSame
  <2>2. all[n] = SpansGiven(all, n) BY <1>2, <1>6
  <2> QED BY <1>9, <2>1, <2>2
<1> HIDE DEF P
<1>11. \A n \in Nodes : n \in P BY <1>10, EveryNode
<1>12. \A n \in Nodes : Spans[n] = all[n] BY <1>11 DEF P
<1>13. Spans \in [Nodes -> V] BY <1>6, <1>8, <1>9, <1>12
<1> QED BY <1>9, <1>13 DEF V

(***************************************************************************)
(* A pattern comes to the ends of its spans, in some order.                *)
(***************************************************************************)
\* Some way of s ends at q.
Hits(s, q) == \E l \in DOMAIN s : s[l].pos = q

\* What ways end at, of those made of others.
LEMMA HitsFacts ==
  /\ \A q : ~Hits(<< >>, q)
  /\ \A w \in Way : \A q : Hits(<<w>>, q) <=> q = w.pos
  /\ \A s, t \in Seq(Way) : \A q : Hits(s \o t, q) <=> Hits(s, q) \/ Hits(t, q)
<1>1. \A q : ~Hits(<< >>, q) BY DEF Hits
<1>2. \A w \in Way : \A q : Hits(<<w>>, q) <=> q = w.pos
  <2>1. \A w : DOMAIN <<w>> = {1} /\ <<w>>[1] = w OBVIOUS
  <2> QED BY <2>1 DEF Hits
<1>3. ASSUME NEW s \in Seq(Way), NEW t \in Seq(Way), NEW q PROVE Hits(s \o t, q) <=> Hits(s, q) \/ Hits(t, q)
  <2> DEFINE st == s \o t
  <2>1. /\ Len(s) \in Nat /\ Len(t) \in Nat /\ DOMAIN s = 1..Len(s) /\ DOMAIN t = 1..Len(t)
        /\ st \in Seq(Way) /\ Len(st) = Len(s) + Len(t)
        /\ \A l \in 1..(Len(s) + Len(t)) : st[l] = IF l <= Len(s) THEN s[l] ELSE t[l - Len(s)]
    BY LenProperties, ConcatProperties
  <2> HIDE DEF st
  <2>2. DOMAIN st = 1..(Len(s) + Len(t)) BY <2>1, LenProperties
  <2>3. ASSUME Hits(st, q) PROVE Hits(s, q) \/ Hits(t, q)
    <3>1. PICK l \in 1..(Len(s) + Len(t)) : st[l].pos = q BY <2>2, <2>3 DEF Hits
    <3>2. CASE l <= Len(s) BY <2>1, <3>1, <3>2, SMTT(40) DEF Hits
    <3>3. CASE ~(l <= Len(s))
      <4>1. l - Len(s) \in 1..Len(t) /\ st[l] = t[l - Len(s)] BY <2>1, <3>1, <3>3
      <4> QED BY <2>1, <3>1, <4>1 DEF Hits
    <3> QED BY <3>2, <3>3
  <2>4. ASSUME Hits(s, q) PROVE Hits(st, q)
    <3>1. PICK l \in 1..Len(s) : s[l].pos = q BY <2>1, <2>4 DEF Hits
    <3>2. l \in 1..(Len(s) + Len(t)) /\ st[l] = s[l] BY <2>1, <3>1
    <3> QED BY <2>2, <3>1, <3>2 DEF Hits
  <2>5. ASSUME Hits(t, q) PROVE Hits(st, q)
    <3>1. PICK l \in 1..Len(t) : t[l].pos = q BY <2>1, <2>5 DEF Hits
    <3> DEFINE m == l + Len(s)
    <3>2. m \in 1..(Len(s) + Len(t)) /\ ~(m <= Len(s)) /\ m - Len(s) = l BY <2>1, <3>1
    <3> HIDE DEF m
    <3>3. st[m] = t[l] BY <2>1, <3>2
    <3> QED BY <2>2, <3>1, <3>2, <3>3 DEF Hits
  <2> QED BY <2>3, <2>4, <2>5 DEF st
<1> QED BY <1>1, <1>2, <1>3

\* What is in a sequence.
LEMMA HitsEach ==
  ASSUME NEW A, NEW f \in Maps(A, Way)
  PROVE  \A s \in Seq(A) : \A q : Hits(Each(s, f), q) <=> \E l \in DOMAIN s : Hits(f[s[l]], q)
<1> DEFINE P == {s \in Seq(A) : \A q : Hits(Each(s, f), q) <=> \E l \in DOMAIN s : Hits(f[s[l]], q)}
<1>1. << >> \in P
  <2>1. Each(<< >>, f) = << >> BY EachGrows
  <2> QED BY <2>1, HitsFacts, EmptySeq
<1>2. ASSUME NEW s \in Seq(A), NEW x \in A, s \in P PROVE Append(s, x) \in P
  <2> DEFINE t == Append(s, x)
  <2>1. t \in Seq(A) /\ Len(s) \in Nat /\ Len(t) = Len(s) + 1 /\ t[Len(s) + 1] = x
        /\ \A l \in 1..Len(s) : t[l] = s[l]
    BY LenProperties, AppendProperties
  <2>2. Each(t, f) = Each(s, f) \o f[x] /\ Each(s, f) \in Seq(Way) /\ f[x] \in Seq(Way) BY EachGrows, MapsTo
  <2> HIDE DEF t
  <2>3. DOMAIN t = 1..(Len(s) + 1) /\ DOMAIN s = 1..Len(s) BY <2>1, LenProperties
  <2>4. ASSUME NEW q PROVE Hits(Each(t, f), q) <=> \E l \in DOMAIN t : Hits(f[t[l]], q)
    <3>1. Hits(Each(t, f), q) <=> Hits(Each(s, f), q) \/ Hits(f[x], q) BY <2>2, HitsFacts
    <3>2. Hits(Each(s, f), q) <=> \E l \in 1..Len(s) : Hits(f[s[l]], q) BY <1>2, <2>3
    <3>3. ASSUME NEW l \in 1..(Len(s) + 1), Hits(f[t[l]], q) PROVE Hits(Each(t, f), q)
      <4>1. CASE l = Len(s) + 1 BY <2>1, <3>1, <3>3, <4>1
      <4>2. CASE l # Len(s) + 1
        <5>1. l \in 1..Len(s) BY <2>1, <3>3, <4>2
        <5> QED BY <2>1, <3>1, <3>2, <3>3, <5>1
      <4> QED BY <4>1, <4>2
    <3>4. ASSUME NEW l \in 1..Len(s), Hits(f[s[l]], q) PROVE \E m \in 1..(Len(s) + 1) : Hits(f[t[m]], q)
      <4>1. l \in 1..(Len(s) + 1) /\ t[l] = s[l] BY <2>1
      <4> QED BY <3>4, <4>1
    <3>5. Hits(f[x], q) => \E m \in 1..(Len(s) + 1) : Hits(f[t[m]], q)
      <4>1. Len(s) + 1 \in 1..(Len(s) + 1) BY <2>1
      <4> QED BY <2>1, <4>1
    <3> QED BY <2>3, <3>1, <3>2, <3>3, <3>4, <3>5
  <2> QED BY <2>1, <2>4 DEF t
<1> HIDE DEF P
<1>3. \A s \in Seq(A) : s \in P BY <1>1, <1>2, EverySeq
<1> QED BY <1>3 DEF P

\* Something is hit unless there is nothing.
LEMMA HitsSome == ASSUME NEW s \in Seq(Way) PROVE s # << >> <=> \E q \in Places : Hits(s, q)
<1>1. Len(s) \in Nat /\ DOMAIN s = 1..Len(s) BY LenProperties
<1>2. ASSUME s # << >> PROVE \E q \in Places : Hits(s, q)
  <2>1. 1 \in DOMAIN s /\ s[1] \in Way BY <1>1, <1>2, EmptySeq, ElementOfSeq
  <2>2. s[1].pos \in Places BY <2>1, WaysMoved
  <2> QED BY <2>1, <2>2 DEF Hits
<1>3. \A q : Hits(s, q) => s # << >> BY HitsFacts
<1> QED BY <1>2, <1>3

\* s, made from p, ends where R says: nowhere else, and everywhere if full.
Ends(s, p, R, full) ==
  /\ \A q : Hits(s, q) => <<p, q>> \in R
  /\ full => \A q : <<p, q>> \in R => Hits(s, q)
Fits(f, R, full) == \A w \in Way : Ends(f[w], w.pos, R, full)

\* One behind the other.
LEMMA EndsJoined ==
  ASSUME NEW s \in Seq(Way), NEW p, NEW R \in Pairs, NEW f \in Maps(Way, Way), NEW S \in Pairs, NEW full \in BOOLEAN,
         Ends(s, p, R, full), Fits(f, S, full)
  PROVE  Ends(Each(s, f), p, Joined(R, S), full)
<1>1. \A q : Hits(Each(s, f), q) <=> \E l \in DOMAIN s : Hits(f[s[l]], q) BY HitsEach
<1>2. \A q : <<p, q>> \in Joined(R, S) <=> \E b : <<p, b>> \in R /\ <<b, q>> \in S BY JoinedFacts
<1>3. \A l \in DOMAIN s : s[l] \in Way BY LenProperties, ElementOfSeq
<1>4. ASSUME NEW q, Hits(Each(s, f), q) PROVE <<p, q>> \in Joined(R, S)
  <2>1. PICK l \in DOMAIN s : Hits(f[s[l]], q) BY <1>1, <1>4
  <2>2. <<s[l].pos, q>> \in S BY <1>3, <2>1 DEF Fits, Ends
  <2>3. <<p, s[l].pos>> \in R BY DEF Hits, Ends
  <2> QED BY <1>2, <2>2, <2>3
<1>5. ASSUME full, NEW q, <<p, q>> \in Joined(R, S) PROVE Hits(Each(s, f), q)
  <2>1. PICK b : <<p, b>> \in R /\ <<b, q>> \in S BY <1>2, <1>5
  <2>2. PICK l \in DOMAIN s : s[l].pos = b BY <1>5, <2>1 DEF Hits, Ends
  <2>3. Hits(f[s[l]], q) BY <1>3, <1>5, <2>1, <2>2 DEF Fits, Ends
  <2> QED BY <1>1, <2>3
<1> QED BY <1>4, <1>5 DEF Ends

\* All of a row.
LEMMA FitsRow ==
  ASSUME NEW fs \in Seq(Maps(Way, Way)), NEW Rs \in Seq(Pairs), NEW full \in BOOLEAN, Len(fs) = Len(Rs),
         \A i \in 1..Len(fs) : Fits(fs[i], Rs[i], full), NEW w \in Way
  PROVE  Ends(Through(fs, w), w.pos, InARow(Rs), full)
<1> DEFINE n == Len(fs)
<1>0. n \in Nat /\ n = Len(Rs) /\ \A i \in 1..n : fs[i] \in Maps(Way, Way) /\ Rs[i] \in Pairs
  BY LenProperties, ElementOfSeq
<1>1. PICK u : Follows(u, fs, w, Way) /\ Through(fs, w) = u[n] BY ThroughChain
<1>2. PICK v : Spanned(v, Rs) /\ InARow(Rs) = v[n] BY <1>0, RowChain
<1> DEFINE P == {i \in Nat : i <= n => Ends(u[i], w.pos, v[i], full)}
<1>3. 0 \in P
  <2>1. u[0] = <<w>> /\ v[0] = Stay BY <1>1, <1>2 DEF Follows, Spanned
  <2>2. \A q : <<w.pos, q>> \in Stay <=> q = w.pos BY WaysMoved DEF Stay
  <2>3. Ends(<<w>>, w.pos, Stay, full) BY <2>2, HitsFacts DEF Ends
  <2> QED BY <2>1, <2>3
<1>4. ASSUME NEW i \in Nat, i \in P PROVE i + 1 \in P
  <2> SUFFICES ASSUME i + 1 <= n PROVE Ends(u[i + 1], w.pos, v[i + 1], full) OBVIOUS
  <2>1. i + 1 \in 1..n /\ i \in 0..n /\ (i + 1) - 1 = i BY <1>0
  <2>2. u[i + 1] = Each(u[i], fs[i + 1]) /\ u[i] \in Seq(Way) BY <1>1, <2>1 DEF Follows
  <2>3. v[i + 1] = Joined(v[i], Rs[i + 1]) /\ v[i] \in Pairs BY <1>0, <1>2, <2>1 DEF Spanned
  <2>4. Ends(u[i], w.pos, v[i], full) BY <1>4, <2>1
  <2>5. Fits(fs[i + 1], Rs[i + 1], full) /\ fs[i + 1] \in Maps(Way, Way) /\ Rs[i + 1] \in Pairs BY <1>0, <2>1
  <2> HIDE DEF n, P
  <2>6. Ends(Each(u[i], fs[i + 1]), w.pos, Joined(v[i], Rs[i + 1]), full) BY <2>2, <2>3, <2>4, <2>5, EndsJoined
  <2> QED BY <2>2, <2>3, <2>6
<1> HIDE DEF P
<1>5. n \in P BY <1>0, <1>3, <1>4, EveryNat
<1> QED BY <1>0, <1>1, <1>2, <1>5 DEF P

\* As many turns as a repeat may take end where as many spans of a row do.
LEMMA TurnsOnly ==
  ASSUME text \in Texts, NEW rep \in Nodes, rep.n = "repeat", NEW f \in Maps(Way, Way), NEW R \in Pairs,
         Fits(f, R, FALSE)
  PROVE  \A left \in 0..rep.max, w \in Way : \A q :
           Hits(Turns(rep, f)[left][w], q) =>
             \E i \in 0..left : rep.max - left + i >= rep.min /\ <<w.pos, q>> \in Row(R, i)
<1> DEFINE go == Turns(rep, f)
           Reached(left, w, q) == \E i \in 0..left : rep.max - left + i >= rep.min /\ <<w.pos, q>> \in Row(R, i)
           P == {left \in Nat : left <= rep.max => \A w \in Way : \A q : Hits(go[left][w], q) => Reached(left, w, q)}
<1>1. rep.max \in Nat /\ rep.min \in Nat BY NodesAssumption
<1>2. /\ \A left \in 0..rep.max : go[left] \in Maps(Way, Way)
      /\ \A left \in 0..rep.max, w \in Way : go[left][w] = TurnOrStop(rep, f, go[left - 1], left, w)
  BY <1>1, TurnsFacts
<1> HIDE DEF go
<1>3. ASSUME NEW left \in 0..rep.max, NEW w \in Way, NEW q, Hits(go[left][w], q)
      PROVE  \/ rep.max - left >= rep.min /\ q = w.pos
             \/ left # 0 /\ Hits(Each(f[w], Taking(w, go[left - 1])), q)
  <2> DEFINE stop == IF rep.max - left >= rep.min THEN <<w>> ELSE << >>
             more == IF left = 0 THEN << >> ELSE Each(f[w], Taking(w, go[left - 1]))
  <2>1. stop \in Seq(Way) BY EmptySeq
  <2>2. more \in Seq(Way)
    <3>1. left # 0 => left - 1 \in 0..rep.max BY <1>1
    <3>2. left # 0 => Taking(w, go[left - 1]) \in Maps(Way, Way) BY <1>2, <3>1, TakingMaps
    <3> QED BY <3>2, EachGrows, MapsTo, EmptySeq
  <2>3. go[left][w] = IF rep.greedy THEN more \o stop ELSE stop \o more BY <1>2 DEF TurnOrStop
  <2>4. Hits(stop, q) => rep.max - left >= rep.min /\ q = w.pos BY HitsFacts
  <2>5. Hits(more, q) => left # 0 /\ Hits(Each(f[w], Taking(w, go[left - 1])), q) BY HitsFacts
  <2> HIDE DEF stop, more
  <2>6. Hits(stop, q) \/ Hits(more, q) BY <1>3, <2>1, <2>2, <2>3, HitsFacts
  <2> QED BY <2>4, <2>5, <2>6
<1>4. ASSUME NEW left \in 0..rep.max, NEW w \in Way, NEW q, rep.max - left >= rep.min, q = w.pos
      PROVE  Reached(left, w, q)
  <2>1. Row(R, 0) = Stay /\ w.pos \in Places BY RowFacts, WaysMoved
  <2>2. <<w.pos, q>> \in Row(R, 0) BY <1>4, <2>1 DEF Stay
  <2>3. 0 \in 0..left /\ rep.max - left + 0 >= rep.min BY <1>1, <1>4
  <2> QED BY <2>2, <2>3
<1>5. 0 \in P
  <2>1. 0 \in 0..rep.max BY <1>1
  <2>2. ASSUME NEW w \in Way, NEW q, Hits(go[0][w], q) PROVE Reached(0, w, q)
    <3> HIDE DEF Reached
    <3> QED BY <1>3, <1>4, <2>1, <2>2
  <2> HIDE DEF Reached
  <2> QED BY <2>2
<1>6. ASSUME NEW n \in Nat, n \in P PROVE n + 1 \in P
  <2> SUFFICES ASSUME n + 1 <= rep.max, NEW w \in Way, NEW q, Hits(go[n + 1][w], q) PROVE Reached(n + 1, w, q)
    <3> HIDE DEF Reached
    <3> QED OBVIOUS
  <2>1. n + 1 \in 0..rep.max /\ n \in 0..rep.max /\ (n + 1) - 1 = n BY <1>1
  <2>2. CASE rep.max - (n + 1) >= rep.min /\ q = w.pos
    <3> HIDE DEF Reached
    <3> QED BY <1>4, <2>1, <2>2
  <2>3. CASE Hits(Each(f[w], Taking(w, go[n])), q)
    <3> DEFINE next == Taking(w, go[n])
    <3>1. next \in Maps(Way, Way) /\ f[w] \in Seq(Way) BY <1>2, <2>1, TakingMaps, MapsTo
    <3>2. \A v \in Way : next[v] = IF v.pos = w.pos THEN << >> ELSE go[n][v] BY DEF Taking
    <3> HIDE DEF next
    <3>3. PICK l \in DOMAIN f[w] : Hits(next[f[w][l]], q) BY <2>3, <3>1, HitsEach DEF next
    <3> DEFINE v == f[w][l]
    <3>4. v \in Way BY <3>1, LenProperties, ElementOfSeq
    <3>5. Hits(f[w], v.pos) BY DEF Hits
    <3>6. <<w.pos, v.pos>> \in R BY <3>5 DEF Fits, Ends
    <3>7. Hits(go[n][v], q) BY <3>2, <3>3, <3>4, HitsFacts
    <3> HIDE DEF v
    <3>8. PICK i \in 0..n : rep.max - n + i >= rep.min /\ <<v.pos, q>> \in Row(R, i) BY <1>6, <2>1, <3>4, <3>7
    <3>9. <<w.pos, q>> \in Row(R, i + 1)
      <4>1. i \in Nat OBVIOUS
      <4> QED BY <3>6, <3>8, <4>1, RowFacts
    <3>10. i + 1 \in 0..(n + 1) /\ rep.max - (n + 1) + (i + 1) >= rep.min BY <1>1, <3>8
    <3> QED BY <3>9, <3>10
  <2> HIDE DEF Reached
  <2> QED BY <1>3, <2>1, <2>2, <2>3
<1> HIDE DEF P
<1>7. \A n \in Nat : n \in P BY <1>5, <1>6, EveryNat
<1>8. \A left \in 0..rep.max : left \in Nat /\ left <= rep.max BY <1>1
<1> QED BY <1>7, <1>8 DEF P, go

\* And everywhere such spans do, unless turns that may take nothing are asked for.
LEMMA TurnsAll ==
  ASSUME text \in Texts, NEW rep \in Nodes, rep.n = "repeat", NEW f \in Maps(Way, Way), NEW R \in Pairs,
         Fits(f, R, TRUE), rep.min = 0 \/ \A p \in Places : <<p, p>> \notin R
  PROVE  \A i \in Nat, left \in 0..rep.max, w \in Way : \A q :
           i <= left /\ rep.max - left + i >= rep.min /\ <<w.pos, q>> \in Row(R, i) => Hits(Turns(rep, f)[left][w], q)
<1> DEFINE go == Turns(rep, f)
           Owes(i, left, w, q) == i <= left /\ rep.max - left + i >= rep.min /\ <<w.pos, q>> \in Row(R, i)
           P == {i \in Nat : \A left \in 0..rep.max, w \in Way : \A q : Owes(i, left, w, q) => Hits(go[left][w], q)}
<1>1. rep.max \in Nat /\ rep.min \in Nat BY NodesAssumption
<1>2. /\ \A left \in 0..rep.max : go[left] \in Maps(Way, Way)
      /\ \A left \in 0..rep.max, w \in Way : go[left][w] = TurnOrStop(rep, f, go[left - 1], left, w)
  BY <1>1, TurnsFacts
<1> HIDE DEF go
<1>3. ASSUME NEW left \in 0..rep.max, NEW w \in Way, NEW q,
             \/ rep.max - left >= rep.min /\ q = w.pos
             \/ left # 0 /\ Hits(Each(f[w], Taking(w, go[left - 1])), q)
      PROVE  Hits(go[left][w], q)
  <2> DEFINE stop == IF rep.max - left >= rep.min THEN <<w>> ELSE << >>
             more == IF left = 0 THEN << >> ELSE Each(f[w], Taking(w, go[left - 1]))
  <2>1. stop \in Seq(Way) BY EmptySeq
  <2>2. more \in Seq(Way)
    <3>1. left # 0 => left - 1 \in 0..rep.max BY <1>1
    <3>2. left # 0 => Taking(w, go[left - 1]) \in Maps(Way, Way) BY <1>2, <3>1, TakingMaps
    <3> QED BY <3>2, EachGrows, MapsTo, EmptySeq
  <2>3. go[left][w] = IF rep.greedy THEN more \o stop ELSE stop \o more BY <1>2 DEF TurnOrStop
  <2>4. rep.max - left >= rep.min /\ q = w.pos => Hits(stop, q) BY HitsFacts
  <2>5. left # 0 /\ Hits(Each(f[w], Taking(w, go[left - 1])), q) => Hits(more, q) OBVIOUS
  <2> HIDE DEF stop, more
  <2>6. Hits(stop, q) \/ Hits(more, q) BY <1>3, <2>4, <2>5
  <2> QED BY <2>1, <2>2, <2>3, <2>6, HitsFacts
<1>4. 0 \in P
  <2>1. ASSUME NEW left \in 0..rep.max, NEW w \in Way, NEW q, Owes(0, left, w, q) PROVE Hits(go[left][w], q)
    <3>1. rep.max - left >= rep.min BY <1>1, <2>1
    <3>2. <<w.pos, q>> \in Stay BY <2>1, RowFacts
    <3>3. q = w.pos BY <3>2 DEF Stay
    <3> QED BY <1>3, <3>1, <3>3
  <2> HIDE DEF Owes
  <2> QED BY <2>1
<1>5. ASSUME NEW i \in Nat, i \in P PROVE i + 1 \in P
  <2>1. ASSUME NEW left \in 0..rep.max, NEW w \in Way, NEW q, Owes(i + 1, left, w, q) PROVE Hits(go[left][w], q)
    <3>1. PICK b : <<w.pos, b>> \in R /\ <<b, q>> \in Row(R, i) BY <2>1, RowFacts
    <3>2. CASE b = w.pos
      <4>1. b \in Places BY <3>1 DEF Pairs
      <4>2. rep.min = 0 BY <3>1, <3>2, <4>1
      <4>3. i <= left /\ rep.max - left + i >= rep.min BY <1>1, <2>1, <4>2
      <4>4. Owes(i, left, w, q) BY <3>1, <3>2, <4>3
      <4> HIDE DEF Owes
      <4> QED BY <1>5, <4>4
    <3>3. CASE b # w.pos
      <4> DEFINE next == Taking(w, go[left - 1])
      <4>1. left # 0 /\ left - 1 \in 0..rep.max /\ i <= left - 1 /\ rep.max - (left - 1) + i >= rep.min BY <1>1, <2>1
      <4>2. next \in Maps(Way, Way) /\ f[w] \in Seq(Way) BY <1>2, <4>1, TakingMaps, MapsTo
      <4>3. \A v \in Way : next[v] = IF v.pos = w.pos THEN << >> ELSE go[left - 1][v] BY DEF Taking
      <4> HIDE DEF next
      <4>4. Hits(f[w], b) BY <3>1 DEF Fits, Ends
      <4>5. PICK l \in DOMAIN f[w] : f[w][l].pos = b BY <4>4 DEF Hits
      <4> DEFINE v == f[w][l]
      <4>6. v \in Way /\ v.pos = b BY <4>2, <4>5, LenProperties, ElementOfSeq
      <4> HIDE DEF v
      <4>7. Owes(i, left - 1, v, q) BY <3>1, <4>1, <4>6
      <4> HIDE DEF Owes
      <4>8. Hits(go[left - 1][v], q) BY <1>5, <4>1, <4>6, <4>7
      <4>9. Hits(next[v], q) BY <3>3, <4>3, <4>6, <4>8
      <4>10. Hits(Each(f[w], next), q) BY <4>2, <4>9, HitsEach DEF v
      <4> QED BY <1>3, <4>1, <4>10 DEF next
    <3> QED BY <3>2, <3>3
  <2> HIDE DEF Owes
  <2> QED BY <2>1
<1> HIDE DEF P
<1>6. \A i \in Nat : i \in P BY <1>4, <1>5, EveryNat
<1> QED BY <1>6 DEF P, go

\* A group ends where what is in it does.
LEMMA GroupEnds ==
  ASSUME NEW node \in Nodes, node.n = "group", NEW w \in Way, NEW s \in Seq(Way)
  PROVE  \A q : Hits(Each(s, [v \in Way |-> <<Captured(node, w.pos, v)>>]), q) <=> Hits(s, q)
<1> DEFINE f == [v \in Way |-> <<Captured(node, w.pos, v)>>]
<1>1. f \in Maps(Way, Way) BY ClosedMaps
<1>2. ASSUME NEW v \in Way PROVE Captured(node, w.pos, v).pos = v.pos BY DEF Captured, Way
<1>3. \A v \in Way : f[v] = <<Captured(node, w.pos, v)>> OBVIOUS
<1> HIDE DEF f
<1>4. ASSUME NEW v \in Way, NEW q PROVE Hits(f[v], q) <=> q = v.pos
  <2>1. \A x : DOMAIN <<x>> = {1} /\ <<x>>[1] = x OBVIOUS
  <2> QED BY <1>2, <1>3, <2>1 DEF Hits
<1>5. \A l \in DOMAIN s : s[l] \in Way BY LenProperties, ElementOfSeq
<1>6. ASSUME NEW q PROVE Hits(Each(s, f), q) <=> Hits(s, q)
  <2>1. Hits(Each(s, f), q) <=> \E l \in DOMAIN s : Hits(f[s[l]], q) BY <1>1, HitsEach
  <2> QED BY <1>4, <1>5, <2>1 DEF Hits
<1> QED BY <1>6 DEF f

\* No turn of node that is asked for can take nothing.
Takes(node) == node.n = "repeat" /\ node.min > 0 => \A p \in Places : <<p, p>> \notin Spans[node.inner]

\* A node fits its spans when those it owns do.
LEMMA FitsGiven ==
  ASSUME text \in Texts, NEW node \in Nodes, NEW full \in BOOLEAN, full => Takes(node),
         \A x \in Under(node) : Fits(Ways[x], Spans[x], full)
  PROVE  Fits(Ways[node], Spans[node], full)
<1>0. /\ Len(text) \in Nat /\ DOMAIN text = 1..Len(text)
      /\ Ways \in [Nodes -> Maps(Way, Way)] /\ Ways[node] = WaysGiven(Ways, node)
      /\ Spans \in [Nodes -> Pairs] /\ Spans[node] = SpansGiven(Spans, node)
  BY TextsAssumption, LenProperties, WaysFacts, SpansFacts
<1> SUFFICES ASSUME NEW w \in Way PROVE Ends(WaysGiven(Ways, node)[w], w.pos, SpansGiven(Spans, node), full)
  BY <1>0 DEF Fits
<1>w. w.pos \in Places /\ w.pos \in Nat /\ w.pos <= Len(text) BY <1>0, WaysMoved DEF Places
<1>1. CASE node.n \in {"char", "any", "class"}
  <2> DEFINE ok == w.pos < Len(text) /\ Accepts(node, text[w.pos + 1])
             next == [w EXCEPT !.pos = @ + 1]
  <2>1. WaysGiven(Ways, node)[w] = IF ok THEN <<next>> ELSE << >> BY <1>1 DEF WaysGiven
  <2>2. SpansGiven(Spans, node) = {<<p - 1, p>> : p \in {q \in DOMAIN text : Accepts(node, text[q])}}
    BY <1>1 DEF SpansGiven
  <2>3. \A q : <<w.pos, q>> \in SpansGiven(Spans, node) <=> ok /\ q = w.pos + 1
    <3>1. ASSUME NEW q, <<w.pos, q>> \in SpansGiven(Spans, node) PROVE ok /\ q = w.pos + 1
      <4>1. PICK p \in DOMAIN text : Accepts(node, text[p]) /\ <<w.pos, q>> = <<p - 1, p>> BY <2>2, <3>1
      <4>2. p = w.pos + 1 /\ q = p /\ w.pos < Len(text) BY <1>0, <1>w, <4>1
      <4> QED BY <4>1, <4>2
    <3>2. ASSUME ok PROVE <<w.pos, w.pos + 1>> \in SpansGiven(Spans, node)
      <4>1. w.pos + 1 \in DOMAIN text /\ (w.pos + 1) - 1 = w.pos BY <1>0, <1>w, <3>2
      <4> QED BY <2>2, <3>2, <4>1
    <3> QED BY <3>1, <3>2
  <2>4. ok => \A q : Hits(<<next>>, q) <=> q = w.pos + 1
    <3>1. ok => next \in Way
      <4>1. ok => w.pos + 1 \in Places BY <1>0, <1>w DEF Places
      <4> QED BY <4>1, WaysMoved
    <3>2. next.pos = w.pos + 1 BY DEF Way
    <3> HIDE DEF next
    <3> QED BY <3>1, <3>2, HitsFacts
  <2> HIDE DEF ok, next
  <2> QED BY <2>1, <2>3, <2>4, HitsFacts DEF Ends
<1>2. CASE node.n \in {"empty", "start", "end", "boundary"}
  <2>1. WaysGiven(Ways, node)[w] = IF AtPlace(node, w.pos) THEN <<w>> ELSE << >> BY <1>2 DEF WaysGiven
  <2>2. SpansGiven(Spans, node) = {<<p, p>> : p \in {q \in Places : AtPlace(node, q)}} BY <1>2 DEF SpansGiven
  <2>3. \A q : <<w.pos, q>> \in SpansGiven(Spans, node) <=> AtPlace(node, w.pos) /\ q = w.pos
    <3>1. ASSUME NEW q, <<w.pos, q>> \in SpansGiven(Spans, node) PROVE AtPlace(node, w.pos) /\ q = w.pos
      <4>1. PICK p \in {y \in Places : AtPlace(node, y)} : <<w.pos, q>> = <<p, p>> BY <2>2, <3>1
      <4>2. p = w.pos /\ q = p BY <4>1
      <4> QED BY <4>1, <4>2
    <3>2. AtPlace(node, w.pos) => <<w.pos, w.pos>> \in SpansGiven(Spans, node) BY <1>w, <2>2
    <3> QED BY <3>1, <3>2
  <2> QED BY <2>1, <2>3, HitsFacts DEF Ends
<1>3. CASE node.n = "group"
  <2> DEFINE s == Ways[node.inner][w]
  <2>1. node.inner \in Nodes /\ node.inner \in Under(node) BY <1>3, NodesAssumption DEF Under
  <2>2. s \in Seq(Way) /\ Ends(s, w.pos, Spans[node.inner], full) BY <1>0, <2>1, MapsTo DEF Fits
  <2>3. WaysGiven(Ways, node)[w] = Each(s, [v \in Way |-> <<Captured(node, w.pos, v)>>]) BY <1>3 DEF WaysGiven
  <2>4. SpansGiven(Spans, node) = Spans[node.inner] BY <1>3 DEF SpansGiven
  <2> HIDE DEF s
  <2>5. \A q : Hits(Each(s, [v \in Way |-> <<Captured(node, w.pos, v)>>]), q) <=> Hits(s, q) BY <1>3, <2>2, GroupEnds
  <2> QED BY <2>2, <2>3, <2>4, <2>5 DEF Ends
<1>4. CASE node.n = "concat"
  <2> DEFINE fs == [i \in DOMAIN node.parts |-> Ways[node.parts[i]]]
             Rs == [i \in DOMAIN node.parts |-> Spans[node.parts[i]]]
  <2>1. node.parts \in Seq(Nodes) BY <1>4, NodesAssumption
  <2>2. Len(node.parts) \in Nat /\ DOMAIN node.parts = 1..Len(node.parts)
        /\ \A i \in 1..Len(node.parts) : node.parts[i] \in Nodes
    BY <2>1, LenProperties, ElementOfSeq
  <2>3. fs \in Seq(Maps(Way, Way)) BY <1>0, <2>1, PartsMaps
  <2>4. Rs \in Seq(Pairs)
    <3>1. \A i \in 1..Len(node.parts) : Spans[node.parts[i]] \in Pairs BY <1>0, <2>2
    <3> QED BY <2>2, <3>1
  <2>5. Len(fs) = Len(node.parts) /\ Len(Rs) = Len(node.parts) BY <2>2
  <2>6. \A i \in 1..Len(node.parts) : Fits(fs[i], Rs[i], full)
    <3>1. \A i \in 1..Len(node.parts) : node.parts[i] \in Under(node) BY <1>4, <2>2 DEF Under
    <3>2. \A i \in 1..Len(node.parts) : fs[i] = Ways[node.parts[i]] /\ Rs[i] = Spans[node.parts[i]] BY <2>2
    <3> HIDE DEF fs, Rs
    <3> QED BY <3>1, <3>2
  <2>7. WaysGiven(Ways, node)[w] = Through(fs, w) BY <1>4 DEF WaysGiven
  <2>8. SpansGiven(Spans, node) = InARow(Rs) BY <1>4 DEF SpansGiven
  <2> HIDE DEF fs, Rs
  <2>9. Ends(Through(fs, w), w.pos, InARow(Rs), full) BY <2>3, <2>4, <2>5, <2>6, FitsRow
  <2> QED BY <2>7, <2>8, <2>9
<1>5. CASE node.n = "alt"
  <2> DEFINE f == [arm \in Under(node) |-> Ways[arm][w]]
  <2>1. WaysGiven(Ways, node)[w] = Each(node.arms, f) BY <1>5 DEF WaysGiven
  <2>2. SpansGiven(Spans, node) = UNION {Spans[node.arms[i]] : i \in DOMAIN node.arms} BY <1>5 DEF SpansGiven
  <2>3. f \in Maps(Under(node), Way) BY <1>0, UnderNodes, ArmsMaps
  <2>4. node.arms \in Seq(Under(node)) BY <1>5, UnderNodes
  <2>5. \A x \in Under(node) : f[x] = Ways[x][w] OBVIOUS
  <2> HIDE DEF f
  <2>6. \A q : Hits(Each(node.arms, f), q) <=> \E l \in DOMAIN node.arms : Hits(f[node.arms[l]], q)
    BY <2>3, <2>4, HitsEach
  <2>7. \A l \in DOMAIN node.arms : node.arms[l] \in Under(node) BY <2>4, LenProperties, ElementOfSeq
  <2>8. \A l \in DOMAIN node.arms : Ends(f[node.arms[l]], w.pos, Spans[node.arms[l]], full) BY <2>5, <2>7 DEF Fits
  <2>9. \A q : <<w.pos, q>> \in SpansGiven(Spans, node) <=> \E l \in DOMAIN node.arms : <<w.pos, q>> \in Spans[node.arms[l]]
    BY <2>2
  <2> QED BY <2>1, <2>6, <2>8, <2>9 DEF Ends
<1>6. CASE node.n = "repeat"
  <2> DEFINE R == Spans[node.inner]
             f == Ways[node.inner]
  <2>1. node.inner \in Nodes /\ node.inner \in Under(node) /\ node.min \in Nat /\ node.max \in Nat
        /\ node.max \in 0..node.max
    BY <1>6, NodesAssumption DEF Under
  <2>2. R \in Pairs /\ f \in Maps(Way, Way) /\ Fits(f, R, full) BY <1>0, <2>1
  <2>3. WaysGiven(Ways, node)[w] = Turns(node, f)[node.max][w] BY <1>6 DEF WaysGiven
  <2>4. SpansGiven(Spans, node) = UNION {Row(R, i) : i \in node.min..node.max} BY <1>6 DEF SpansGiven, Row
  <2>5. full => node.min = 0 \/ \A p \in Places : <<p, p>> \notin R BY <1>6, <2>1 DEF Takes
  <2> HIDE DEF R, f
  <2>6. Fits(f, R, FALSE) BY <2>2 DEF Fits, Ends
  <2>7. full => Fits(f, R, TRUE) BY <2>2 DEF Fits, Ends
  <2>8. ASSUME NEW q, Hits(Turns(node, f)[node.max][w], q) PROVE <<w.pos, q>> \in SpansGiven(Spans, node)
    <3>1. PICK i \in 0..node.max : node.max - node.max + i >= node.min /\ <<w.pos, q>> \in Row(R, i)
      BY <1>6, <2>1, <2>2, <2>6, <2>8, TurnsOnly
    <3>2. i \in node.min..node.max BY <2>1, <3>1
    <3> QED BY <2>4, <3>1, <3>2
  <2>9. ASSUME full, NEW q, <<w.pos, q>> \in SpansGiven(Spans, node) PROVE Hits(Turns(node, f)[node.max][w], q)
    <3>1. PICK i \in node.min..node.max : <<w.pos, q>> \in Row(R, i) BY <2>4, <2>9
    <3>2. i \in Nat /\ i <= node.max /\ node.max - node.max + i >= node.min BY <2>1, <3>1
    <3>3. \A j \in Nat, left \in 0..node.max, v \in Way : \A y :
            j <= left /\ node.max - left + j >= node.min /\ <<v.pos, y>> \in Row(R, j) => Hits(Turns(node, f)[left][v], y)
      BY <1>6, <2>2, <2>5, <2>7, <2>9, TurnsAll
    <3> QED BY <2>1, <3>1, <3>2, <3>3
  <2> QED BY <2>3, <2>8, <2>9 DEF Ends
<1> QED BY <1>1, <1>2, <1>3, <1>4, <1>5, <1>6, EveryKind

\* Those of a pattern no repeat of which asks for turns that may take nothing.
TurnsTake ==
  \E S \in SUBSET Nodes : re.root \in S /\ \A n \in S : Under(n) \subseteq S /\ Takes(n)

LEMMA FitsAll ==
  ASSUME text \in Texts, re \in Patterns
  PROVE  Fits(Ways[re.root], Spans[re.root], FALSE) /\ (TurnsTake => Fits(Ways[re.root], Spans[re.root], TRUE))
<1>0. re.root \in Nodes BY PatternsAssumption
<1>1. Fits(Ways[re.root], Spans[re.root], FALSE)
  <2> DEFINE P == {n \in Nodes : Fits(Ways[n], Spans[n], FALSE)}
  <2>1. ASSUME NEW n \in Nodes, \A x \in Under(n) : x \in P PROVE n \in P
    <3>1. \A x \in Under(n) : Fits(Ways[x], Spans[x], FALSE) BY <2>1
    <3>2. Fits(Ways[n], Spans[n], FALSE) BY <3>1, FitsGiven
    <3> QED BY <3>2
  <2> HIDE DEF P
  <2>2. \A n \in Nodes : n \in P BY <2>1, EveryNode
  <2> QED BY <1>0, <2>2 DEF P
<1>2. ASSUME TurnsTake PROVE Fits(Ways[re.root], Spans[re.root], TRUE)
  <2>1. PICK S \in SUBSET Nodes : re.root \in S /\ \A n \in S : Under(n) \subseteq S /\ Takes(n) BY <1>2 DEF TurnsTake
  <2> DEFINE P == {n \in Nodes : n \in S => Fits(Ways[n], Spans[n], TRUE)}
  <2>2. ASSUME NEW n \in Nodes, \A x \in Under(n) : x \in P PROVE n \in P
    <3> SUFFICES ASSUME n \in S PROVE Fits(Ways[n], Spans[n], TRUE) OBVIOUS
    <3>1. \A x \in Under(n) : x \in S BY <2>1
    <3>2. \A x \in Under(n) : Fits(Ways[x], Spans[x], TRUE) BY <2>2, <3>1
    <3>3. Takes(n) BY <2>1
    <3> QED BY <3>2, <3>3, FitsGiven
  <2> HIDE DEF P
  <2>3. \A n \in Nodes : n \in P BY <2>2, EveryNode
  <2> QED BY <1>0, <2>1, <2>3 DEF P
<1> QED BY <1>1, <1>2

\* What a search reports is a span of the pattern, even beyond the limit.
LEMMA FoundSpans == ASSUME MInv, mode = "found" PROVE <<start, pos>> \in Spans[re.root]
<1> DEFINE w == At(start, NoCaps)
           v == [pos |-> pos, caps |-> caps]
<1>1. text \in Texts /\ re \in Patterns /\ start \in Places /\ pos \in Places /\ caps \in AllCaps BY DEF MInv, Shape, Shaped
<1>2. NoCaps \in AllCaps BY DEF NoCaps, AllCaps, Slots
<1>3. w \in Way /\ w.pos = start BY <1>1, <1>2, AtFacts
<1>4. v \in Way /\ v.pos = pos BY <1>1, FromWays
<1>5. PICK lost \in Seq(Way), rest \in Seq(Way) : Answer = lost \o (<<v>> \o rest) BY FoundMeans
<1>6. Answer = Ways[re.root][w] BY DEF Answer
<1> HIDE DEF v, w
<1>7. <<v>> \in Seq(Way) /\ <<v>> \o rest \in Seq(Way) BY <1>4
<1>8. Hits(<<v>>, pos) BY <1>4, HitsFacts
<1>9. Hits(<<v>> \o rest, pos) BY <1>7, <1>8, HitsFacts
<1>10. Hits(Answer, pos) BY <1>5, <1>7, <1>9, HitsFacts
<1> QED BY <1>1, <1>3, <1>6, <1>10, FitsAll DEF Fits, Ends

\* The piece of the text that is found is one the pattern can match.
Matches == mode = "found" => <<start, pos>> \in Spans[re.root]

\* Whatever the pattern, the text and the limit of steps, find_at never reports
\* a piece of the text that the pattern cannot match.
THEOREM FoundMatches == Spec => []Matches
<1>1. Init => MInv BY InitMeans
<1>2. MInv /\ [Next]_vars => MInv' BY NextMeans
<1>3. MInv => Matches BY FoundSpans DEF Matches
<1> QED BY <1>1, <1>2, <1>3, PTL DEF Spec

(***************************************************************************)
(* Nor does a search miss one.                                             *)
(***************************************************************************)
\* The pattern comes to nothing from p.
Nothing(p) == Ways[re.root][At(p, NoCaps)] = << >>

LInv ==
  /\ MInv /\ TurnsTake /\ steps <= MaxSteps
  /\ \A p \in Places : p < start => Nothing(p)
  /\ mode = "none" => start = Len(text) /\ Nothing(start)

\* What the pattern can match stays, too.
LEMMA FrozenSpans ==
  ASSUME re' = re, text' = text
  PROVE  TurnsTake' = TurnsTake /\ \A p : Nothing(p)' <=> Nothing(p)
<1>1. Places' = Places /\ Ways' = Ways BY Frozen
<1>2. Spans' = Spans
  BY <1>1 DEF Spans, SpansGiven, InARow, Stay, AtPlace, WordAt, IsWord, Accepts, ClassMatches, ItemHas, Eq
<1>3. TurnsTake' = TurnsTake BY <1>1, <1>2 DEF TurnsTake, Takes
<1>4. \A p : Nothing(p)' <=> Nothing(p) BY <1>1 DEF Nothing, At, NoCaps
<1> QED BY <1>3, <1>4

\* An attempt that has come to its end without giving up has come to nothing.
LEMMA NextStartLeftmost == ASSUME LInv, NextStart PROVE LInv'
<1>0. re' = re /\ text' = text /\ text \in Texts BY DEF NextStart, LInv, MInv, Shape
<1>1. /\ start' \in Places
      /\ Remains(mode, k, pos, caps, alts) = << >>
      /\ start' = start => mode' = "none" /\ steps' = steps
      /\ start' # start => start' = start + 1 /\ mode' = "match" /\ steps' = 0
  BY NextStartKeeps DEF LInv, MInv
<1>2. Nothing(start)
  <2>1. PICK lost \in Seq(Way) :
          Answer = lost \o Remains(mode, k, pos, caps, alts) /\ (steps <= MaxSteps => lost = << >>)
    BY DEF LInv, MInv, Owed
  <2>2. Answer = << >> \o << >> BY <1>1, <2>1 DEF LInv
  <2>3. << >> \o << >> = << >> OBVIOUS
  <2> QED BY <2>2, <2>3 DEF Nothing, Answer
<1>3. MInv' BY NextStartOwed DEF LInv
<1>4. Places' = Places /\ TurnsTake' = TurnsTake /\ \A p : Nothing(p)' <=> Nothing(p) BY <1>0, Frozen, FrozenSpans
<1>5. start \in Nat /\ \A p \in Places : p \in Nat
  <2>1. start \in Places BY DEF LInv, MInv, Shape
  <2> QED BY <2>1 DEF Places
<1>6. steps' <= MaxSteps BY <1>1, BoundsAssumption DEF LInv
<1>7. \A p \in Places : p < start' => Nothing(p)
  <2>1. \A p \in Places : p < start' => p < start \/ p = start BY <1>1, <1>5
  <2> QED BY <1>2, <2>1 DEF LInv
<1>8. mode' = "none" => start' = Len(text) /\ start' = start
  <2>1. mode' = "none" => ~(start < Len(text)) /\ start' = start BY DEF NextStart
  <2>2. start \in Places BY DEF LInv, MInv, Shape
  <2>3. Len(text) \in Nat BY <1>0, TextsAssumption
  <2> QED BY <2>1, <2>2, <2>3 DEF Places
<1>9. (\A p \in Places : p < start => Nothing(p))' BY <1>4, <1>7
<1>10. (mode = "none" => start = Len(text) /\ Nothing(start))'
  <2>1. Nothing(start)' <=> Ways'[re.root'][At(start', NoCaps)] = << >> BY DEF Nothing, At, NoCaps
  <2>2. Ways' = Ways BY <1>0, Frozen
  <2> QED BY <1>0, <1>2, <1>8, <2>1, <2>2 DEF Nothing
<1> QED BY <1>3, <1>4, <1>6, <1>9, <1>10 DEF LInv

\* The other steps stay at their place.
LEMMA OthersLeftmost ==
  ASSUME LInv, MInv', re' = re, text' = text, start' = start, steps' <= MaxSteps, mode' = "none" => mode = "none"
  PROVE  LInv'
<1>1. Places' = Places /\ TurnsTake' = TurnsTake /\ Ways' = Ways /\ \A p : Nothing(p)' <=> Nothing(p)
  BY Frozen, FrozenSpans
<1>2. (\A p \in Places : p < start => Nothing(p))' BY <1>1 DEF LInv
<1>3. Nothing(start)' <=> Nothing(start) BY <1>1 DEF Nothing, At, NoCaps
<1> QED BY <1>1, <1>2, <1>3 DEF LInv

\* Every step that does not give up.
LEMMA NextLeftmost == ASSUME LInv, [Next]_vars, [~GiveUp]_vars PROVE LInv'
<1>0. MInv' BY NextMeans DEF LInv
<1>1. steps \in Nat BY DEF LInv, MInv, Shape
<1>2. CASE Consume \/ Anchor \/ OpenGroup \/ Concat \/ Alt \/ Repeat
  <2>1. re' = re /\ text' = text /\ start' = start /\ steps' = steps + 1 /\ steps < MaxSteps /\ mode = "match"
    BY <1>2 DEF Consume, Anchor, OpenGroup, Concat, Alt, Repeat, Visit
  <2>2. mode' \in {"match", "back"}
    BY <1>2, <2>1 DEF Consume, Anchor, OpenGroup, Concat, Alt, Repeat, Iterate, Greedy, Lazy, Fails
  <2>3. steps' <= MaxSteps BY <1>1, <2>1, BoundsAssumption
  <2> QED BY <1>0, <2>1, <2>2, <2>3, OthersLeftmost
<1>3. CASE CloseGroup \/ Again \/ Accept \/ Undo \/ NextArm \/ StopOrMore
  <2>1. re' = re /\ text' = text /\ start' = start /\ steps' = steps
    BY <1>3 DEF CloseGroup, Again, Accept, Undo, NextArm, StopOrMore, Continue, Back
  <2>2. mode' \in {"match", "back", "found"}
    BY <1>3 DEF CloseGroup, Again, Accept, Undo, NextArm, StopOrMore, Continue, Back, Iterate, Greedy, Lazy
  <2>3. steps' <= MaxSteps BY <2>1 DEF LInv
  <2> QED BY <1>0, <2>1, <2>2, <2>3, OthersLeftmost
<1>4. CASE UNCHANGED vars
  <2>1. re' = re /\ text' = text /\ start' = start /\ steps' = steps /\ mode' = mode BY <1>4 DEF vars
  <2>2. steps' <= MaxSteps BY <2>1 DEF LInv
  <2> QED BY <1>0, <2>1, <2>2, OthersLeftmost
<1>5. CASE NextStart BY <1>5, NextStartLeftmost
<1>6. CASE GiveUp BY <1>4, <1>6
<1> QED BY <1>2, <1>3, <1>4, <1>5, <1>6 DEF Next

\* Where the pattern comes to nothing it can match nothing.
LEMMA NothingMatches ==
  ASSUME LInv, NEW p \in Places, Nothing(p)
  PROVE  \A q : <<p, q>> \notin Spans[re.root]
<1>1. text \in Texts /\ re \in Patterns /\ TurnsTake BY DEF LInv, MInv, Shape
<1>2. NoCaps \in AllCaps BY DEF NoCaps, AllCaps, Slots
<1>3. At(p, NoCaps) \in Way /\ At(p, NoCaps).pos = p BY <1>1, <1>2, AtFacts
<1>4. Fits(Ways[re.root], Spans[re.root], TRUE) BY <1>1, FitsAll
<1>5. Ends(<< >>, p, Spans[re.root], TRUE) BY <1>3, <1>4 DEF Fits, Nothing
<1> QED BY <1>5, HitsFacts DEF Ends

\* What is found is found where it starts first, and nothing only if there is
\* nothing.
LEMMA Leftmost == ASSUME LInv PROVE LeftmostFound
<1> DEFINE starts == {span[1] : span \in Spans[re.root]}
<1>1. text \in Texts /\ re \in Patterns /\ re.root \in Nodes /\ start \in Places
  BY PatternsAssumption DEF LInv, MInv, Shape
<1>2. Spans[re.root] \in Pairs BY <1>1, SpansFacts
<1>3. \A span \in Spans[re.root] : span = <<span[1], span[2]>> /\ span[1] \in Places BY <1>2 DEF Pairs
<1>4. Len(text) \in Nat BY <1>1, TextsAssumption
<1>5. start \in Nat /\ \A p \in Places : p \in Nat /\ p <= Len(text) BY <1>1, <1>4 DEF Places
<1>6. ASSUME NEW span \in Spans[re.root] PROVE ~Nothing(span[1])
  <2>1. span = <<span[1], span[2]>> /\ span[1] \in Places BY <1>3
  <2> QED BY <2>1, NothingMatches
<1>7. \A p \in Places : p < start => Nothing(p) BY DEF LInv
<1>8. ASSUME mode = "none", NEW span \in Spans[re.root] PROVE FALSE
  <2>1. start = Len(text) /\ Nothing(start) BY <1>8 DEF LInv
  <2>2. span[1] \in Places BY <1>3
  <2>3. span[1] < start \/ span[1] = start BY <1>5, <2>1, <2>2
  <2> QED BY <1>6, <1>7, <2>1, <2>2, <2>3
<1>9. ASSUME mode = "found"
      PROVE  start \in starts /\ (\A s \in starts : start <= s) /\ <<start, pos>> \in Spans[re.root]
  <2>1. <<start, pos>> \in Spans[re.root] BY <1>9, FoundSpans DEF LInv
  <2>2. start \in starts
    <3>1. <<start, pos>>[1] = start OBVIOUS
    <3> QED BY <2>1, <3>1
  <2>3. ASSUME NEW span \in Spans[re.root] PROVE start <= span[1]
    <3>1. span[1] \in Places BY <1>3
    <3>2. ~(span[1] < start) BY <1>6, <1>7, <3>1
    <3> QED BY <1>5, <3>1, <3>2
  <2> QED BY <2>1, <2>2, <2>3
<1>10. mode = "none" => starts = {} BY <1>8
<1> QED BY <1>9, <1>10 DEF LeftmostFound

\* find_at, when match_node never gives up and no repeat of the pattern asks for
\* turns that may take nothing, finds something exactly when the pattern can
\* match a piece of the text, and then where it first can.
THEOREM FoundLeftmost == Spec /\ TurnsTake /\ [][~GiveUp]_vars => []LeftmostFound
<1>1. Init /\ TurnsTake => LInv
  <2> SUFFICES ASSUME Init, TurnsTake PROVE LInv OBVIOUS
  <2>1. MInv BY InitMeans
  <2>2. start = 0 /\ mode = "match" /\ steps = 0 /\ text \in Texts BY DEF Init
  <2>3. \A p \in Places : ~(p < start) BY <2>2 DEF Places
  <2> QED BY <2>1, <2>2, <2>3, BoundsAssumption DEF LInv
<1>2. LInv /\ [Next]_vars /\ [~GiveUp]_vars => LInv' BY NextLeftmost
<1>3. LInv => LeftmostFound BY Leftmost
<1> QED BY <1>1, <1>2, <1>3, PTL DEF Spec
=============================================================================
