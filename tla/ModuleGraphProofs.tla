-------------------------- MODULE ModuleGraphProofs --------------------------
(***************************************************************************)
(* What the run of a module graph keeps to, for any modules, imports,      *)
(* callbacks and awaits: first that the order it is run in is right, then  *)
(* that it is kept, however often the graph is suspended.                  *)
(***************************************************************************)
EXTENDS ModuleGraph, FiniteSetTheorems, WellFoundedInduction, TLAPS

-----------------------------------------------------------------------------
(* What a walk comes to is well defined: it rests on walks that have more  *)
(* modules on the path, or as many and a shorter list.                     *)

\* How many modules are not on its path, and which of two walks is sooner over.
Rank(w) == Cardinality(Module \ ToSet(w.path))
Sooner(v, w) ==
    \/ Rank(v) < Rank(w)
    \/ Rank(v) = Rank(w) /\ Len(v.list) < Len(w.list)
\* What a walk comes to, and what modules import.
Outcomes == [ok : BOOLEAN, out : Seq(Module)]
ImportLists == [Module -> Seq(Module)]

\* A set of naturals has a least element.
LEMMA LeastElement ==
    ASSUME NEW N, N \subseteq Nat, N # {}
    PROVE  \E m \in N : \A k \in N : m <= k
<1> DEFINE R == OpToRel(<, Nat)
<1>1. IsWellFoundedOn(R, Nat)
  BY NatLessThanWellFounded
<1>2. \A m, k \in Nat : k < m => <<k, m>> \in R
  BY DEF OpToRel
<1> HIDE DEF R
<1>3. PICK m \in N : \A k \in N : ~(<<k, m>> \in R)
  BY <1>1, WFMin
<1>4. \A k \in N : ~(k < m)
  BY <1>2, <1>3
<1> QED BY <1>3, <1>4

\* Both are counted in naturals.
LEMMA RankIs == ASSUME NEW w \in Walks PROVE Rank(w) \in Nat /\ Len(w.list) \in Nat
<1>1. IsFiniteSet(Module \ ToSet(w.path))
  BY ModuleAssumption, FS_Subset
<1>2. w.list \in Seq(Module)
  BY DEF Walks
<1> QED BY <1>1, <1>2, FS_CardinalityType DEF Rank

\* A set of walks has one no other is sooner than.
LEMMA SoonestWalk ==
    ASSUME NEW T, T \subseteq Walks, T # {}
    PROVE  \E w \in T : \A v \in T : ~Sooner(v, w)
<1> DEFINE N == {Rank(w) : w \in T}
<1>1. N \subseteq Nat /\ N # {}
  BY RankIs
<1>2. PICK n \in N : \A k \in N : n <= k
  BY <1>1, LeastElement
<1> DEFINE U == {w \in T : Rank(w) = n}
           M == {Len(w.list) : w \in U}
<1>3. M \subseteq Nat /\ M # {}
  BY <1>2, RankIs
<1>4. PICK m \in M : \A k \in M : m <= k
  BY <1>3, LeastElement
<1>5. PICK w \in U : Len(w.list) = m
  OBVIOUS
<1>6. ASSUME NEW v \in T, Sooner(v, w) PROVE FALSE
  <2>1. /\ Rank(v) \in Nat /\ Rank(w) \in Nat /\ Len(v.list) \in Nat /\ Len(w.list) \in Nat
    BY RankIs, <1>5
  <2>2. n <= Rank(v) /\ Rank(w) = n
    BY <1>2, <1>5
  <2>3. Rank(v) = n /\ Len(v.list) < Len(w.list)
    BY <2>1, <2>2, <1>6 DEF Sooner
  <2>4. m <= Len(v.list)
    BY <1>4, <2>3
  <2> QED BY <1>5, <2>1, <2>3, <2>4
<1> QED BY <1>5, <1>6

\* A walk sooner than a sooner one is sooner.
LEMMA SoonerChain ==
    ASSUME NEW u \in Walks, NEW v \in Walks, NEW w \in Walks, Sooner(u, v), Sooner(v, w)
    PROVE  Sooner(u, w)
BY RankIs DEF Sooner

\* What a sequence with one more at its end has.
LEMMA AppendToSet ==
    ASSUME NEW p \in Seq(Module), NEW m \in Module
    PROVE  ToSet(Append(p, m)) = ToSet(p) \cup {m}
<1> DEFINE q == Append(p, m)
<1>1. Len(q) = Len(p) + 1 /\ q[Len(p) + 1] = m /\ \A i \in 1..Len(p) : q[i] = p[i]
  OBVIOUS
<1>2. Len(p) \in Nat /\ DOMAIN p = 1..Len(p) /\ DOMAIN q = 1..Len(q)
  OBVIOUS
<1>3. \A i \in 1..Len(q) : i \in 1..Len(p) \/ i = Len(p) + 1
  BY <1>1, <1>2
<1>4. \A i \in 1..Len(p) : i \in 1..Len(q)
  BY <1>1, <1>2
<1>5. Len(p) + 1 \in 1..Len(q)
  BY <1>1, <1>2
<1> HIDE DEF q
<1>6. ToSet(q) = ToSet(p) \cup {m}
  BY <1>1, <1>2, <1>3, <1>4, <1>5 DEF ToSet
<1> QED BY <1>6 DEF q

\* The walks that one asks for are sooner: the module's own imports have one more on
\* the path, and the rest of the list is shorter.
LEMMA SubwalksSooner ==
    ASSUME NEW deps \in ImportLists, NEW w \in Walks, w.list # <<>>, NEW out \in Seq(Module)
    PROVE  LET spec == Head(w.list)
               v == Walk(deps[spec], out, Append(w.path, spec))
               u == Walk(Tail(w.list), out, w.path)
           IN  /\ spec \in Module /\ u \in Walks /\ Sooner(u, w)
               /\ v \in Walks /\ (spec \notin ToSet(w.path) => Sooner(v, w))
<1> DEFINE spec == Head(w.list)
           v == Walk(deps[spec], out, Append(w.path, spec))
           u == Walk(Tail(w.list), out, w.path)
           l == w.list
           p == w.path
<1>1. l \in Seq(Module) /\ p \in Seq(Module) /\ l # << >>
  BY DEF Walks
<1> HIDE DEF l, p
<1>2. Head(l) \in Module /\ Tail(l) \in Seq(Module) /\ Len(Tail(l)) < Len(l)
  BY <1>1
<1>3. deps[Head(l)] \in Seq(Module)
  BY <1>2 DEF ImportLists
<1>4. Append(p, Head(l)) \in Seq(Module)
  BY <1>1, <1>2
<1>5. u \in Walks /\ u.list = Tail(l) /\ u.path = p
  BY <1>1, <1>2 DEF Walks, Walk, l, p
<1>6. v \in Walks /\ v.path = Append(p, Head(l))
  BY <1>3, <1>4 DEF Walks, Walk, l, p
<1>7. Sooner(u, w)
  BY <1>2, <1>5 DEF Sooner, Rank, l, p
<1>8. ASSUME Head(l) \notin ToSet(p) PROVE Sooner(v, w)
  <2> DEFINE q == Append(p, Head(l))
             A == Module \ ToSet(p)
             B == Module \ ToSet(q)
  <2>1. ToSet(q) = ToSet(p) \cup {Head(l)}
    BY <1>1, <1>2, AppendToSet
  <2>2. Head(l) \in A /\ B = A \ {Head(l)}
    BY <1>2, <1>8, <2>1
  <2>3. IsFiniteSet(A)
    BY ModuleAssumption, FS_Subset
  <2>4. Cardinality(A) \in Nat /\ Cardinality(B) = Cardinality(A) - 1
    BY <2>2, <2>3, FS_RemoveElement, FS_CardinalityType
  <2> HIDE DEF A, B
  <2>5. Cardinality(B) < Cardinality(A)
    BY <2>4
  <2> QED BY <1>6, <2>5 DEF Sooner, Rank, A, B, p
<1> QED BY <1>2, <1>5, <1>6, <1>7, <1>8 DEF l, p

\* Two functions that give sooner walks the same.
Agree(f, g, w) == \A v \in Walks : Sooner(v, w) => f[v] = g[v] /\ f[v] \in Outcomes
\* It is the same for two functions that agree on those.
LEMMA SoonerDecide ==
    ASSUME NEW deps \in ImportLists, NEW w \in Walks, NEW f, NEW g, Agree(f, g, w)
    PROVE  VisitEach(f, deps, w) = VisitEach(g, deps, w) /\ VisitEach(f, deps, w) \in Outcomes
<1> DEFINE spec == Head(w.list)
           A == Visit(f, deps, spec, w.out, w.path)
           B == Visit(g, deps, spec, w.out, w.path)
<1>0. w.list \in Seq(Module) /\ w.out \in Seq(Module) /\ w.path \in Seq(Module)
  BY DEF Walks
<1>1. CASE w.list = <<>>
  BY <1>0, <1>1 DEF VisitEach, Found, Outcomes
<1>2. CASE w.list # <<>>
  <2>1. A = B /\ A \in Outcomes
    <3> DEFINE v == Walk(deps[spec], w.out, Append(w.path, spec))
    <3>1. spec \in Module /\ v \in Walks /\ (spec \notin ToSet(w.path) => Sooner(v, w))
      BY <1>0, <1>2, SubwalksSooner
    <3>2. CASE Done(spec, w.out) \/ spec \in ToSet(w.path)
      BY <1>0, <3>2 DEF Visit, Found, Outcomes
    <3>3. CASE ~Done(spec, w.out) /\ spec \notin ToSet(w.path)
      <4>1. f[v] = g[v] /\ f[v] \in Outcomes
        BY <3>1, <3>3 DEF Agree
      <4>2. /\ A = IF f[v].ok THEN Found(TRUE, Append(f[v].out, spec)) ELSE f[v]
            /\ B = IF g[v].ok THEN Found(TRUE, Append(g[v].out, spec)) ELSE g[v]
        BY <3>3 DEF Visit
      <4> HIDE DEF v, A, B, spec
      <4>3. Found(TRUE, Append(f[v].out, spec)) \in Outcomes
        <5>1. f[v].out \in Seq(Module)
          BY <4>1 DEF Outcomes
        <5>2. Append(f[v].out, spec) \in Seq(Module)
          BY <3>1, <5>1
        <5> QED BY <5>2 DEF Found, Outcomes
      <4> QED BY <4>1, <4>2, <4>3
    <3> QED BY <3>2, <3>3
  <2>2. A.out \in Seq(Module)
    BY <2>1 DEF Outcomes
  <2> DEFINE u == Walk(Tail(w.list), A.out, w.path)
  <2>3. u \in Walks /\ Sooner(u, w)
    BY <1>2, <2>2, SubwalksSooner
  <2>4. f[u] = g[u] /\ f[u] \in Outcomes
    BY <2>3 DEF Agree
  <2>5. /\ VisitEach(f, deps, w) = IF A.ok THEN f[u] ELSE A
        /\ VisitEach(g, deps, w) = IF B.ok THEN g[Walk(Tail(w.list), B.out, w.path)] ELSE B
    BY <1>2 DEF VisitEach
  <2> HIDE DEF A, B, u
  <2>6. g[Walk(Tail(w.list), B.out, w.path)] = g[u]
    BY <2>1 DEF u
  <2> QED BY <2>1, <2>4, <2>5, <2>6
<1> QED BY <1>1, <1>2

\* A set of walks with those that are sooner, and what they come to.
Closed(S) == S \subseteq Walks /\ \A w \in S, v \in Walks : Sooner(v, w) => v \in S
Comes(g, deps, S) == \A w \in S : g[w] = VisitEach(g, deps, w) /\ g[w] \in Outcomes
SoonerThan(w) == {v \in Walks : Sooner(v, w)}

\* There is one way at most.
LEMMA ComesOnce ==
    ASSUME NEW deps \in ImportLists, NEW S, Closed(S), NEW f, NEW g, Comes(f, deps, S),
           \A w \in S : g[w] = VisitEach(g, deps, w)
    PROVE  \A w \in S : f[w] = g[w]
<1> DEFINE T == {w \in S : f[w] # g[w]}
<1> SUFFICES ASSUME T # {} PROVE FALSE
  OBVIOUS
<1>1. T \subseteq Walks
  BY DEF Closed
<1>2. PICK w \in T : \A v \in T : ~Sooner(v, w)
  BY <1>1, SoonestWalk
<1>3. Agree(f, g, w)
  BY <1>2 DEF Agree, Closed, Comes
<1>4. VisitEach(f, deps, w) = VisitEach(g, deps, w)
  BY <1>1, <1>3, SoonerDecide
<1> QED BY <1>2, <1>4 DEF Comes

\* What the sooner walks of each come to make what each comes to.
LEMMA ComesFrom ==
    ASSUME NEW deps \in ImportLists, NEW S, Closed(S), NEW G,
           \A w \in S : Comes(G[w], deps, SoonerThan(w))
    PROVE  Comes([w \in S |-> VisitEach(G[w], deps, w)], deps, S)
<1> DEFINE g == [w \in S |-> VisitEach(G[w], deps, w)]
<1>1. \A w \in S : w \in Walks /\ g[w] = VisitEach(G[w], deps, w)
  BY DEF Closed
<1> HIDE DEF g
<1>2. ASSUME NEW w \in S PROVE Agree(G[w], g, w)
  <2> SUFFICES ASSUME NEW v \in Walks, Sooner(v, w) PROVE G[w][v] = g[v] /\ G[w][v] \in Outcomes
    BY DEF Agree
  <2>1. v \in S /\ w \in Walks /\ v \in SoonerThan(w)
    BY <1>1 DEF Closed, SoonerThan
  <2>2. G[w][v] = VisitEach(G[w], deps, v) /\ G[w][v] \in Outcomes
    BY <2>1 DEF Comes
  <2>3. Closed(SoonerThan(v)) /\ SoonerThan(v) \subseteq SoonerThan(w)
    BY <2>1, SoonerChain DEF Closed, SoonerThan
  <2>4. \A u \in SoonerThan(v) : G[w][u] = VisitEach(G[w], deps, u)
    BY <2>1, <2>3 DEF Comes
  <2>5. \A u \in SoonerThan(v) : G[v][u] = G[w][u]
    BY <2>1, <2>3, <2>4, ComesOnce
  <2>6. Agree(G[v], G[w], v)
    BY <2>1, <2>5 DEF Agree, Comes, SoonerThan
  <2>7. VisitEach(G[v], deps, v) = VisitEach(G[w], deps, v)
    BY <2>6, SoonerDecide
  <2> QED BY <1>1, <2>1, <2>2, <2>7
<1>3. ASSUME NEW w \in S PROVE g[w] = VisitEach(g, deps, w) /\ g[w] \in Outcomes
  BY <1>1, <1>2, SoonerDecide
<1> QED BY <1>3 DEF Comes, g

\* There is one.
LEMMA ComesToBe ==
    ASSUME NEW deps \in ImportLists
    PROVE  \E g : g = [w \in Walks |-> VisitEach(g, deps, w)]
<1> DEFINE Has(w) == \E g : Comes(g, deps, SoonerThan(w))
           T == {w \in Walks : ~Has(w)}
           G == [w \in Walks |-> CHOOSE g : Comes(g, deps, SoonerThan(w))]
<1>1. \A w \in Walks : Has(w) => Comes(G[w], deps, SoonerThan(w))
  OBVIOUS
<1>2. ASSUME NEW S, Closed(S), \A w \in S : Has(w)
      PROVE  Comes([w \in S |-> VisitEach(G[w], deps, w)], deps, S)
  <2>1. \A w \in S : Comes(G[w], deps, SoonerThan(w))
    BY <1>1, <1>2 DEF Closed
  <2> HIDE DEF G
  <2> QED BY <1>2, <2>1, ComesFrom
<1> HIDE DEF G
<1>3. T = {}
  <2> SUFFICES ASSUME T # {} PROVE FALSE
    OBVIOUS
  <2>1. T \subseteq Walks
    OBVIOUS
  <2> HIDE DEF Has
  <2>2. PICK w \in T : \A v \in T : ~Sooner(v, w)
    <3> HIDE DEF T
    <3> QED BY <2>1, SoonestWalk
  <2>3. Closed(SoonerThan(w))
    BY <2>1, SoonerChain DEF Closed, SoonerThan
  <2>4. \A v \in SoonerThan(w) : Has(v)
    BY <2>2 DEF SoonerThan
  <2>5. Comes([v \in SoonerThan(w) |-> VisitEach(G[v], deps, v)], deps, SoonerThan(w))
    BY <1>2, <2>3, <2>4
  <2> QED BY <2>5 DEF Has
<1> DEFINE g == [w \in Walks |-> VisitEach(G[w], deps, w)]
<1>4. Closed(Walks) /\ \A w \in Walks : Has(w)
  BY <1>3 DEF Closed
<1>5. Comes(g, deps, Walks)
  <2> HIDE DEF Has
  <2> QED BY <1>2, <1>4
<1>6. g = [w \in Walks |-> VisitEach(g, deps, w)]
  <2>1. \A w \in Walks : VisitEach(G[w], deps, w) = VisitEach(g, deps, w)
    <3>1. \A w \in Walks : g[w] = VisitEach(G[w], deps, w)
      OBVIOUS
    <3> HIDE DEF g
    <3> QED BY <1>5, <3>1 DEF Comes
  <2> QED BY <2>1
<1> QED BY <1>6

\* What TopoOrder's walk is.
LEMMA WalkIs ==
    ASSUME NEW deps \in ImportLists, NEW entry
    PROVE  \E g : /\ Comes(g, deps, Walks)
                  /\ TopoOrder(entry, deps) = g[Walk(<<entry>>, <<>>, <<>>)]
<1> DEFINE g == CHOOSE f : f = [w \in Walks |-> VisitEach(f, deps, w)]
<1>1. g = [w \in Walks |-> VisitEach(g, deps, w)]
  BY ComesToBe
<1>2. TopoOrder(entry, deps) = g[Walk(<<entry>>, <<>>, <<>>)]
  BY DEF TopoOrder
<1> HIDE DEF g
<1>3. \A w \in Walks : g[w] = VisitEach(g, deps, w)
  BY <1>1
<1>4. \A w \in Walks : g[w] \in Outcomes
  <2> DEFINE T == {w \in Walks : g[w] \notin Outcomes}
  <2> SUFFICES ASSUME T # {} PROVE FALSE
    OBVIOUS
  <2>1. PICK w \in T : \A v \in T : ~Sooner(v, w)
    BY SoonestWalk
  <2>2. Agree(g, g, w)
    BY <2>1 DEF Agree
  <2>3. VisitEach(g, deps, w) \in Outcomes
    BY <2>2, SoonerDecide
  <2> QED BY <1>3, <2>1, <2>3
<1> QED BY <1>2, <1>3, <1>4 DEF Comes

-----------------------------------------------------------------------------
(* What is needed.                                                         *)

\* What is asked for is needed, and more so when more is asked for.
LEMMA NeedsHas ==
    ASSUME NEW deps, NEW R, NEW U
    PROVE  /\ R \cap Module \subseteq Needs(R, deps)
           /\ R \subseteq U => Needs(R, deps) \subseteq Needs(U, deps)
<1>1. R \cap Module \subseteq Needs(R, deps)
  <2> SUFFICES ASSUME NEW m \in R \cap Module, NEW S \in SUBSET (Module \ {m}), R \subseteq S PROVE FALSE
    BY DEF Needs
  <2> QED OBVIOUS
<1>2. R \subseteq U => Needs(R, deps) \subseteq Needs(U, deps)
  BY DEF Needs
<1> QED BY <1>1, <1>2

\* What a module that is needed imports is needed.
LEMMA NeedsClosed ==
    ASSUME NEW R, NEW deps, NEW m \in Needs(R, deps), NEW d \in Module, d \in ToSet(deps[m])
    PROVE  d \in Needs(R, deps)
<1> SUFFICES ASSUME NEW S \in SUBSET (Module \ {d}), R \subseteq S
             PROVE  \E n \in S : ~(ToSet(deps[n]) \subseteq S)
  BY DEF Needs
<1>1. CASE m \in S
  BY <1>1
<1>2. CASE m \notin S
  <2>1. S \in SUBSET (Module \ {m})
    BY <1>2
  <2> QED BY <2>1 DEF Needs
<1> QED BY <1>1, <1>2

\* What the imports of a module need the module needs.
LEMMA NeedsFrom ==
    ASSUME NEW deps, NEW m
    PROVE  Needs(ToSet(deps[m]), deps) \subseteq Needs({m}, deps)
<1> SUFFICES ASSUME NEW x \in Needs(ToSet(deps[m]), deps), NEW S \in SUBSET (Module \ {x}), {m} \subseteq S
             PROVE  \E n \in S : ~(ToSet(deps[n]) \subseteq S)
  BY DEF Needs
<1>1. CASE ToSet(deps[m]) \subseteq S
  BY <1>1 DEF Needs
<1>2. CASE ~(ToSet(deps[m]) \subseteq S)
  BY <1>2
<1> QED BY <1>1, <1>2

\* No more is needed than any set with its imports that has what is asked for.
LEMMA NeedsLeast ==
    ASSUME NEW deps, NEW R, NEW C, C \subseteq Module, R \subseteq C, \A n \in C : ToSet(deps[n]) \subseteq C
    PROVE  Needs(R, deps) \subseteq C
<1> SUFFICES ASSUME NEW m \in Needs(R, deps), m \notin C PROVE FALSE
  OBVIOUS
<1>1. C \in SUBSET (Module \ {m})
  OBVIOUS
<1> QED BY <1>1 DEF Needs

-----------------------------------------------------------------------------
(* What a walk finds.                                                      *)

\* Each module once, after what it imports.
Sorted(out, deps) ==
    \A i \in 1..Len(out) :
        /\ \A j \in 1..Len(out) : out[i] = out[j] => i = j
        /\ \A d \in ToSet(deps[out[i]]) : \E j \in 1..Len(out) : out[j] = d /\ j < i

\* Where a walk may begin: every module on the path needs those of the list.
Begins(w, deps) ==
    /\ Sorted(w.out, deps) /\ ToSet(w.out) \cap ToSet(w.path) = {}
    /\ \A p \in ToSet(w.path) : ToSet(w.list) \subseteq Needs(ToSet(deps[p]), deps)

\* Where it ends: with what it was asked for, or at a cycle.
Sorts(out, path, R, out2, deps) ==
    /\ Sorted(out2, deps) /\ ToSet(out2) \cap ToSet(path) = {}
    /\ ToSet(out) \cup R \subseteq ToSet(out2) /\ ToSet(out2) \subseteq ToSet(out) \cup Needs(R, deps)
Cycle(R, deps) == \E m \in Needs(R, deps) : m \in Needs(ToSet(deps[m]), deps)
Ends(w, r, deps) ==
    IF r.ok THEN Sorts(w.out, w.path, ToSet(w.list), r.out, deps) ELSE Cycle(ToSet(w.list), deps)

\* A module at the end of an order.
LEMMA SortedAppend ==
    ASSUME NEW deps, NEW out \in Seq(Module), Sorted(out, deps), NEW m \in Module, m \notin ToSet(out),
           ToSet(deps[m]) \subseteq ToSet(out)
    PROVE  /\ Sorted(Append(out, m), deps) /\ Append(out, m) \in Seq(Module)
           /\ ToSet(Append(out, m)) = ToSet(out) \cup {m}
<1> DEFINE u == Append(out, m)
           n == Len(out)
<1>1. /\ u \in Seq(Module) /\ Len(u) = n + 1 /\ u[n + 1] = m /\ n \in Nat
      /\ \A i \in 1..n : u[i] = out[i]
  OBVIOUS
<1>2. DOMAIN u = 1..(n + 1) /\ DOMAIN out = 1..n /\ Len(out) = n
  BY <1>1
<1> HIDE DEF u, n
<1>3. \A i \in 1..(n + 1) : i \in 1..n \/ i = n + 1
  BY <1>1
<1>4. \A i \in 1..n : i \in 1..(n + 1) /\ i < n + 1 /\ i # n + 1
  BY <1>1
<1>5. ToSet(out) = {out[i] : i \in 1..n}
  BY <1>2 DEF ToSet
<1>6. ToSet(u) = ToSet(out) \cup {m}
  BY AppendToSet DEF u
<1>7. ASSUME NEW i \in 1..(n + 1)
      PROVE  /\ \A j \in 1..(n + 1) : u[i] = u[j] => i = j
             /\ \A d \in ToSet(deps[u[i]]) : \E j \in 1..(n + 1) : u[j] = d /\ j < i
  <2>1. CASE i \in 1..n
    <3>1. \A j \in 1..n : u[i] = u[j] => i = j
      BY <1>1, <1>2, <2>1 DEF Sorted
    <3>2. u[i] # u[n + 1]
      BY <1>1, <1>5, <2>1
    <3>3. \A d \in ToSet(deps[u[i]]) : \E j \in 1..n : u[j] = d /\ j < i
      BY <1>1, <1>2, <2>1 DEF Sorted
    <3> QED BY <1>3, <1>4, <3>1, <3>2, <3>3
  <2>2. CASE i = n + 1
    <3>1. \A j \in 1..(n + 1) : u[i] = u[j] => i = j
      BY <1>1, <1>3, <1>5, <2>2
    <3>2. \A d \in ToSet(deps[m]) : \E j \in 1..n : u[j] = d /\ j < i
      BY <1>1, <1>4, <1>5, <2>2
    <3> QED BY <1>1, <1>4, <2>2, <3>1, <3>2
  <2> QED BY <1>3, <2>1, <2>2
<1>8. Sorted(u, deps)
  BY <1>1, <1>7 DEF Sorted
<1> QED BY <1>1, <1>6, <1>8 DEF u

\* The head of a list and the rest.
LEMMA HeadAndTail ==
    ASSUME NEW l \in Seq(Module), l # <<>>
    PROVE  Head(l) \in Module /\ ToSet(l) = {Head(l)} \cup ToSet(Tail(l)) /\ ToSet(l) \subseteq Module
<1> DEFINE t == Tail(l)
           n == Len(l)
<1>1. n \in Nat /\ n >= 1 /\ Head(l) = l[1] /\ Head(l) \in Module /\ DOMAIN l = 1..n /\ \A i \in 1..n : l[i] \in Module
  OBVIOUS
<1>2. t \in Seq(Module) /\ Len(t) = n - 1 /\ DOMAIN t = 1..(n - 1) /\ \A i \in 1..(n - 1) : t[i] = l[i + 1]
  OBVIOUS
<1> HIDE DEF t, n
<1>3. \A i \in 1..(n - 1) : i + 1 \in 1..n
  BY <1>1
<1>4. ToSet(l) \subseteq {Head(l)} \cup ToSet(t)
  <2>1. ToSet(l) = {l[i] : i \in 1..n} /\ ToSet(t) = {t[i] : i \in 1..(n - 1)}
    BY <1>1, <1>2 DEF ToSet
  <2>2. \A i \in 1..n : i # 1 => i - 1 \in 1..(n - 1) /\ (i - 1) + 1 = i
    BY <1>1
  <2>3. \A i \in 1..n : i # 1 => l[i] = t[i - 1]
    BY <1>2, <2>2
  <2> QED BY <1>1, <2>1, <2>2, <2>3
<1>5. {Head(l)} \cup ToSet(t) \subseteq ToSet(l)
  <2>1. 1 \in 1..n
    BY <1>1
  <2> QED BY <1>1, <1>2, <1>3, <2>1 DEF ToSet
<1> QED BY <1>1, <1>4, <1>5 DEF ToSet, t

-----------------------------------------------------------------------------
(* The walk is right.                                                      *)

\* The first module of the list, when the sooner walks end as they should.
LEMMA VisitEnds ==
    ASSUME NEW deps \in ImportLists, NEW g, Comes(g, deps, Walks), NEW w \in Walks, w.list # <<>>,
           Begins(w, deps), \A v \in Walks : Sooner(v, w) /\ Begins(v, deps) => Ends(v, g[v], deps)
    PROVE  LET r == Visit(g, deps, Head(w.list), w.out, w.path)
           IN  /\ r \in Outcomes
               /\ IF r.ok THEN Sorts(w.out, w.path, {Head(w.list)}, r.out, deps) ELSE Cycle(ToSet(w.list), deps)
<1> DEFINE spec == Head(w.list)
           o == w.out
           p == w.path
           r == Visit(g, deps, spec, o, p)
           v == Walk(deps[spec], o, Append(p, spec))
<1>1. w.list \in Seq(Module) /\ o \in Seq(Module) /\ p \in Seq(Module)
  BY DEF Walks
<1>2. spec \in Module /\ spec \in ToSet(w.list) /\ {spec} \subseteq ToSet(w.list)
  BY <1>1, HeadAndTail
<1>3. v \in Walks /\ (spec \notin ToSet(p) => Sooner(v, w))
  BY <1>1, SubwalksSooner
<1>4. /\ Sorted(o, deps) /\ ToSet(o) \cap ToSet(p) = {}
      /\ \A m \in ToSet(p) : spec \in Needs(ToSet(deps[m]), deps)
  BY <1>2 DEF Begins
<1>5. spec \in Needs({spec}, deps) /\ Needs({spec}, deps) \subseteq Needs(ToSet(w.list), deps)
  BY <1>2, NeedsHas
<1>6. CASE Done(spec, o)
  <2>1. r = Found(TRUE, o) /\ spec \in ToSet(o)
    BY <1>6 DEF Visit, Done
  <2> HIDE DEF r, spec, o, p
  <2>2. r.ok /\ r.out = o /\ r \in Outcomes
    BY <1>1, <2>1 DEF Found, Outcomes
  <2>3. Sorts(o, p, {spec}, o, deps)
    BY <1>4, <2>1 DEF Sorts
  <2> QED BY <2>2, <2>3 DEF r, spec, o, p
<1>7. CASE ~Done(spec, o) /\ spec \in ToSet(p)
  <2>1. r = Found(FALSE, o)
    BY <1>7 DEF Visit
  <2>2. Cycle(ToSet(w.list), deps)
    BY <1>4, <1>5, <1>7 DEF Cycle
  <2> HIDE DEF r, spec, o, p
  <2>3. ~r.ok /\ r \in Outcomes
    BY <1>1, <2>1 DEF Found, Outcomes
  <2> QED BY <2>2, <2>3 DEF r, spec, o, p
<1>8. CASE ~Done(spec, o) /\ spec \notin ToSet(p)
  <2> DEFINE x == g[v]
  <2>1. r = IF x.ok THEN Found(TRUE, Append(x.out, spec)) ELSE x
    BY <1>8 DEF Visit
  <2>2. x \in Outcomes
    BY <1>3 DEF Comes
  <2>3. deps[spec] \in Seq(Module) /\ ToSet(deps[spec]) \subseteq Module
    <3>1. deps[spec] \in Seq(Module)
      BY <1>2 DEF ImportLists
    <3> QED BY <3>1 DEF ToSet
  <2>4. v.list = deps[spec] /\ v.out = o /\ v.path = Append(p, spec) /\ ToSet(v.path) = ToSet(p) \cup {spec}
    <3>1. v.list = deps[spec] /\ v.out = o /\ v.path = Append(p, spec)
      BY DEF Walk
    <3>2. ToSet(Append(p, spec)) = ToSet(p) \cup {spec}
      <4> HIDE DEF p, spec
      <4> QED BY <1>1, <1>2, AppendToSet
    <3> QED BY <3>1, <3>2
  <2> HIDE DEF r, spec, o, p, v, x
  <2>5. Begins(v, deps)
    <3>1. ToSet(o) \cap (ToSet(p) \cup {spec}) = {}
      BY <1>4, <1>8 DEF Done
    <3>2. \A m \in ToSet(p) : ToSet(deps[spec]) \subseteq Needs(ToSet(deps[m]), deps)
      BY <1>4, <2>3, NeedsClosed
    <3>3. ToSet(deps[spec]) \subseteq Needs(ToSet(deps[spec]), deps)
      BY <2>3, NeedsHas
    <3> QED BY <1>4, <2>4, <3>1, <3>2, <3>3 DEF Begins
  <2>6. Ends(v, x, deps)
    BY <1>3, <1>8, <2>5 DEF x, p
  <2>7. Needs(ToSet(deps[spec]), deps) \subseteq Needs({spec}, deps)
    BY NeedsFrom
  <2>8. CASE x.ok
    <3>1. Sorts(o, v.path, ToSet(deps[spec]), x.out, deps)
      BY <2>4, <2>6, <2>8 DEF Ends
    <3>2. x.out \in Seq(Module)
      BY <2>2 DEF Outcomes
    <3>3. /\ Sorted(x.out, deps) /\ ToSet(x.out) \cap ToSet(p) = {} /\ spec \notin ToSet(x.out)
          /\ ToSet(o) \subseteq ToSet(x.out) /\ ToSet(deps[spec]) \subseteq ToSet(x.out)
          /\ ToSet(x.out) \subseteq ToSet(o) \cup Needs(ToSet(deps[spec]), deps)
      BY <2>4, <3>1 DEF Sorts
    <3>4. /\ Sorted(Append(x.out, spec), deps) /\ Append(x.out, spec) \in Seq(Module)
          /\ ToSet(Append(x.out, spec)) = ToSet(x.out) \cup {spec}
      BY <1>2, <3>2, <3>3, SortedAppend
    <3>5. r.ok /\ r.out = Append(x.out, spec) /\ r \in Outcomes
      BY <2>1, <2>8, <3>4 DEF Found, Outcomes
    <3>6. Sorts(o, p, {spec}, r.out, deps)
      <4> DEFINE z == r.out
      <4>1. Sorted(z, deps) /\ ToSet(z) = ToSet(x.out) \cup {spec}
        BY <3>4, <3>5
      <4> HIDE DEF z
      <4>2. ToSet(z) \cap ToSet(p) = {} /\ ToSet(o) \cup {spec} \subseteq ToSet(z)
        BY <1>8, <3>3, <4>1
      <4>3. ToSet(z) \subseteq ToSet(o) \cup Needs({spec}, deps)
        BY <1>5, <2>7, <3>3, <4>1
      <4>4. Sorts(o, p, {spec}, z, deps)
        BY <4>1, <4>2, <4>3 DEF Sorts
      <4> QED BY <4>4 DEF z
    <3> QED BY <3>5, <3>6 DEF r, spec, o, p
  <2>9. CASE ~x.ok
    <3>1. r = x
      BY <2>1, <2>9
    <3>2. Cycle(ToSet(w.list), deps)
      BY <1>5, <2>4, <2>6, <2>7, <2>9 DEF Ends, Cycle
    <3> QED BY <2>2, <2>9, <3>1, <3>2 DEF r, spec, o, p
  <2> QED BY <2>8, <2>9
<1> QED BY <1>6, <1>7, <1>8

\* Every walk that begins as it may ends as it should.
LEMMA WalkEnds ==
    ASSUME NEW deps \in ImportLists, NEW g, Comes(g, deps, Walks), NEW w \in Walks, Begins(w, deps)
    PROVE  Ends(w, g[w], deps)
<1> DEFINE T == {v \in Walks : Begins(v, deps) /\ ~Ends(v, g[v], deps)}
<1> SUFFICES ASSUME T # {} PROVE FALSE
  OBVIOUS
<1>1. PICK x \in T : \A v \in T : ~Sooner(v, x)
  <2>1. T \subseteq Walks
    OBVIOUS
  <2> HIDE DEF T
  <2> QED BY <2>1, SoonestWalk
<1>2. /\ x \in Walks /\ Begins(x, deps) /\ ~Ends(x, g[x], deps)
      /\ \A v \in Walks : Sooner(v, x) /\ Begins(v, deps) => Ends(v, g[v], deps)
  BY <1>1
<1> HIDE DEF T
<1>3. g[x] = VisitEach(g, deps, x)
  BY <1>2 DEF Comes
<1>4. x.list \in Seq(Module) /\ x.out \in Seq(Module) /\ x.path \in Seq(Module)
  BY <1>2 DEF Walks
<1>5. Sorted(x.out, deps) /\ ToSet(x.out) \cap ToSet(x.path) = {}
  BY <1>2 DEF Begins
<1>6. CASE x.list = <<>>
  <2>1. g[x].ok /\ g[x].out = x.out
    BY <1>3, <1>6 DEF VisitEach, Found
  <2>2. ToSet(x.list) = {}
    BY <1>6 DEF ToSet
  <2>3. Sorts(x.out, x.path, ToSet(x.list), x.out, deps)
    BY <1>5, <2>2 DEF Sorts
  <2> QED BY <1>2, <2>1, <2>3 DEF Ends
<1>7. CASE x.list # <<>>
  <2> DEFINE h == Head(x.list)
             t == Tail(x.list)
             r == Visit(g, deps, h, x.out, x.path)
             u == Walk(t, r.out, x.path)
  <2>1. /\ r \in Outcomes
        /\ IF r.ok THEN Sorts(x.out, x.path, {h}, r.out, deps) ELSE Cycle(ToSet(x.list), deps)
    BY <1>2, <1>7, VisitEnds
  <2>2. g[x] = IF r.ok THEN g[u] ELSE r
    BY <1>3, <1>7 DEF VisitEach
  <2>3. r.out \in Seq(Module)
    BY <2>1 DEF Outcomes
  <2>4. u \in Walks /\ Sooner(u, x)
    BY <1>2, <1>7, <2>3, SubwalksSooner
  <2>5. u.list = t /\ u.out = r.out /\ u.path = x.path
    BY DEF Walk
  <2>6. ToSet(x.list) = {h} \cup ToSet(t)
    BY <1>4, <1>7, HeadAndTail
  <2>7. Needs({h}, deps) \subseteq Needs(ToSet(x.list), deps) /\ Needs(ToSet(t), deps) \subseteq Needs(ToSet(x.list), deps)
    BY <2>6, NeedsHas
  <2> HIDE DEF r, u, h, t
  <2>8. CASE r.ok
    <3>1. Sorts(x.out, x.path, {h}, r.out, deps) /\ g[x] = g[u]
      BY <2>1, <2>2, <2>8
    <3>2. Begins(u, deps)
      BY <1>2, <2>5, <2>6, <3>1 DEF Begins, Sorts
    <3>3. Ends(u, g[u], deps)
      BY <1>2, <2>4, <3>2
    <3>4. CASE g[u].ok
      <4>1. Sorts(r.out, x.path, ToSet(t), g[u].out, deps)
        BY <2>5, <3>3, <3>4 DEF Ends
      <4>2. Sorts(x.out, x.path, ToSet(x.list), g[u].out, deps)
        BY <2>6, <2>7, <3>1, <4>1 DEF Sorts
      <4> QED BY <1>2, <3>1, <3>4, <4>2 DEF Ends
    <3>5. CASE ~g[u].ok
      <4>1. Cycle(ToSet(x.list), deps)
        BY <2>5, <2>7, <3>3, <3>5 DEF Ends, Cycle
      <4> QED BY <1>2, <3>1, <3>5, <4>1 DEF Ends
    <3> QED BY <3>4, <3>5
  <2>9. CASE ~r.ok
    BY <1>2, <2>1, <2>2, <2>9 DEF Ends
  <2> QED BY <2>8, <2>9
<1> QED BY <1>6, <1>7

\* The order topo_order gives is exact: it is refused when there is a cycle, and
\* has the modules needed, each once and after those it imports.
LEMMA TopoOrderExact ==
    ASSUME NEW deps \in ImportLists, NEW entry \in Module
    PROVE  LET found == TopoOrder(entry, deps)
           IN  /\ found.ok = ~CyclicFrom(entry, deps)
               /\ found.ok => IsOrderOf(found.out, entry, deps)
<1> DEFINE w == Walk(<<entry>>, <<>>, <<>>)
<1>1. PICK g : Comes(g, deps, Walks) /\ TopoOrder(entry, deps) = g[w]
  BY WalkIs
<1>2. /\ w \in Walks /\ w.list = <<entry>> /\ w.out = <<>> /\ w.path = <<>>
      /\ ToSet(<<entry>>) = {entry} /\ ToSet(<<>>) = {} /\ Len(<<>>) = 0
  <2>1. <<entry>> \in Seq(Module) /\ <<>> \in Seq(Module)
    OBVIOUS
  <2>2. ToSet(<<entry>>) = {entry} /\ ToSet(<<>>) = {} /\ Len(<<>>) = 0
    BY DEF ToSet
  <2> QED BY <2>1, <2>2 DEF Walk, Walks
<1> HIDE DEF w
<1>3. Begins(w, deps)
  <2>1. 1..Len(<<>>) = {}
    OBVIOUS
  <2> QED BY <1>2, <2>1 DEF Begins, Sorted
<1> DEFINE r == g[w]
<1>4. r \in Outcomes /\ r.ok \in BOOLEAN /\ r.out \in Seq(Module)
  BY <1>1, <1>2 DEF Comes, Outcomes
<1>5. Ends(w, r, deps)
  BY <1>1, <1>2, <1>3, WalkEnds
<1> HIDE DEF r
<1>6. CASE r.ok
  <2> DEFINE o == r.out
             N == Needs({entry}, deps)
  <2>1. Sorts(<<>>, <<>>, {entry}, o, deps)
    BY <1>2, <1>5, <1>6 DEF Ends
  <2>2. Sorted(o, deps) /\ entry \in ToSet(o) /\ ToSet(o) \subseteq N
    BY <1>2, <2>1 DEF Sorts
  <2>3. o \in Seq(Module) /\ Len(o) \in Nat /\ DOMAIN o = 1..Len(o)
    BY <1>4
  <2> HIDE DEF o, N
  <2>4. ToSet(o) = {o[i] : i \in 1..Len(o)} /\ ToSet(o) \subseteq Module
    <3>1. \A i \in 1..Len(o) : o[i] \in Module
      BY <2>3
    <3> QED BY <2>3, <3>1 DEF ToSet
  <2>5. \A n \in ToSet(o) : ToSet(deps[n]) \subseteq ToSet(o)
    BY <2>2, <2>4 DEF Sorted
  <2>6. N \subseteq ToSet(o)
    BY <2>2, <2>4, <2>5, NeedsLeast DEF N
  <2>7. IsOrderOf(o, entry, deps)
    <3>1. ASSUME NEW i \in DOMAIN o, NEW j \in DOMAIN o
          PROVE  /\ o[i] = o[j] => i = j
                 /\ o[j] \in ToSet(deps[o[i]]) => j < i
      <4>1. i \in 1..Len(o) /\ j \in 1..Len(o)
        BY <2>3
      <4>2. \A k \in 1..Len(o) : o[j] = o[k] => j = k
        BY <2>2, <4>1 DEF Sorted
      <4>3. o[j] \in ToSet(deps[o[i]]) => \E k \in 1..Len(o) : o[k] = o[j] /\ k < i
        BY <2>2, <4>1 DEF Sorted
      <4> QED BY <4>1, <4>2, <4>3
    <3> QED BY <2>2, <2>3, <2>6, <3>1 DEF IsOrderOf, N
  <2>8. ~CyclicFrom(entry, deps)
    <3> SUFFICES ASSUME NEW m \in N, m \in Needs(ToSet(deps[m]), deps) PROVE FALSE
      BY DEF CyclicFrom, N
    <3>1. PICK i \in 1..Len(o) : o[i] = m
      BY <2>4, <2>6
    <3> DEFINE C == {o[j] : j \in {k \in 1..Len(o) : k < i}}
    <3>2. C \subseteq Module /\ ToSet(deps[m]) \subseteq C
      BY <2>2, <2>4, <3>1 DEF Sorted
    <3>3. \A n \in C : ToSet(deps[n]) \subseteq C
      <4> SUFFICES ASSUME NEW j \in 1..Len(o), j < i, NEW d \in ToSet(deps[o[j]])
                   PROVE  \E k \in 1..Len(o) : k < i /\ o[k] = d
        OBVIOUS
      <4>1. PICK k \in 1..Len(o) : o[k] = d /\ k < j
        BY <2>2 DEF Sorted
      <4>2. k < i
        BY <2>3, <4>1
      <4> QED BY <4>1, <4>2
    <3>4. m \notin C
      BY <2>2, <2>3, <3>1 DEF Sorted
    <3> HIDE DEF C
    <3>5. Needs(ToSet(deps[m]), deps) \subseteq C
      BY <3>2, <3>3, NeedsLeast
    <3> QED BY <3>4, <3>5
  <2> QED BY <1>1, <1>6, <2>7, <2>8 DEF r, o
<1>7. CASE ~r.ok
  <2>1. Cycle({entry}, deps)
    BY <1>2, <1>5, <1>7 DEF Ends
  <2>2. CyclicFrom(entry, deps)
    BY <2>1 DEF Cycle, CyclicFrom
  <2> QED BY <1>1, <1>4, <1>7, <2>2 DEF r
<1> QED BY <1>6, <1>7

-----------------------------------------------------------------------------
(* The inductive invariant.                                                *)

Kinds == {"graph", "body", "resumed", "code", "drain"}
States == {"running", "waiting", "queued", "done", "threw", "failed"}
Final == {"done", "threw", "failed"}
EvalT == [mod : Module, state : States, awaits : 0..MaxAwaits]
FrameT == [kind : Kinds, id : Nat \cup Module, rest : Seq(Module)]
TaskT == [kind : {"code", "module"}, id : Nat \cup Module]

Typed ==
    /\ graph \in Graphs
    /\ evals \in Seq(EvalT) /\ stack \in Seq(FrameT) /\ tasks \in Seq(TaskT)
    /\ modules \in [Module -> {0} \cup 1..Len(evals)]
    /\ pending \in [eval : {0} \cup 1..Len(evals), rest : Seq(Module)]
    /\ queued \in 0..MaxTasks /\ calls \in 0..MaxCalls

\* A body on the stack is the only one of an evaluation that is running, and a
\* module in the queue is the only one of an evaluation that is queued.
Runs(f) == f.kind \in {"body", "resumed"}
FrameFits(f, ev) ==
    /\ Runs(f) => f.id \in 1..Len(ev) /\ ev[f.id].state = "running"
    /\ f.kind = "drain" => f.id \in {0} \cup 1..Len(ev)
    /\ f.kind = "code" => f.id \in Module
    /\ f.kind = "graph" => f.id = 0
FramesFit(st, ev) ==
    /\ \A i \in 1..Len(st) : FrameFits(st[i], ev)
    /\ \A i, j \in 1..Len(st) : Runs(st[i]) /\ Runs(st[j]) /\ st[i].id = st[j].id => i = j
TaskFits(t, ev) ==
    /\ t.kind = "module" => t.id \in 1..Len(ev) /\ ev[t.id].state = "queued"
    /\ t.kind = "code" => t.id \in Module
TasksFit(ts, ev) ==
    /\ \A i \in 1..Len(ts) : TaskFits(ts[i], ev)
    /\ \A i, j \in 1..Len(ts) : ts[i].kind = "module" /\ ts[j].kind = "module" /\ ts[i].id = ts[j].id => i = j

\* Exports are of what is done; what a module imports was there before it ran.
Exported(md, ev) == \A m \in Module : md[m] # 0 => ev[md[m]].mod = m /\ ev[md[m]].state = "done"
Imported(md, ev, g) == \A e \in 1..Len(ev) : \A d \in ToSet(g.static[ev[e].mod]) : md[d] # 0

\* The startup order o: a graph at place k has evaluated the modules up to k and
\* recorded those before, and r is what is left.
At(o, k, md, ev) ==
    /\ \A j \in 1..Len(o) : j < k => md[o[j]] # 0
    /\ \A j \in 1..Len(o), e \in 1..Len(ev) : j > k => ev[e].mod # o[j]
IsRest(r, o, k) == Len(r) = Len(o) - k /\ \A j \in 1..Len(r) : r[j] = o[k + j]
InTurn(o, md, ev) ==
    \A e \in 1..Len(ev), i \in 1..Len(o) : ev[e].mod = o[i] =>
        /\ \A j \in 1..Len(o) : j < i => md[o[j]] # 0
        /\ \A f \in 1..Len(ev) : ev[f].mod = o[i] => f = e

\* The frame of the graph: there is one at most, and the evaluation above it is
\* of the module the graph is at.
GraphFrame(st, i, k, o, md, ev) ==
    /\ At(o, k, md, ev) /\ IsRest(st[i].rest, o, k)
    /\ i = Len(st) => \A j \in 1..Len(o) : j <= k => md[o[j]] # 0
    /\ i < Len(st) => /\ k \in 1..Len(o)
                      /\ st[i + 1].kind \in {"body", "drain"} /\ st[i + 1].id \in 1..Len(ev)
                      /\ ev[st[i + 1].id].mod = o[k]
Framed(st, o, md, ev) ==
    /\ \A i \in 1..Len(st) : st[i].kind = "graph" => \E k \in 0..Len(o) : GraphFrame(st, i, k, o, md, ev)
    /\ \A i, j \in 1..Len(st) : st[i].kind = "graph" /\ st[j].kind = "graph" => i = j
Bottom(f) == f.kind = "graph" \/ (f.kind = "drain" /\ f.id = 0)
Based(st) == st # <<>> => Bottom(st[1])
Graphless(st) == \A i \in 1..Len(st) : st[i].kind # "graph"

\* A graph that waits is off the stack, with the modules after the awaited one
\* left; one that neither runs nor waits is done, or has failed.
WaitsAt(pe, k, o, md, ev) ==
    /\ At(o, k, md, ev) /\ IsRest(pe.rest, o, k) /\ ev[pe.eval].mod = o[k]
Waits(pe, st, o, md, ev) ==
    pe.eval # 0 =>
        /\ Graphless(st)
        /\ \E k \in 1..Len(o) : WaitsAt(pe, k, o, md, ev)
        /\ st = <<>> => ev[pe.eval].state \notin {"done", "threw"}
Completed(o, md, ev) ==
    \/ \A j \in 1..Len(o) : md[o[j]] # 0
    \/ \E e \in 1..Len(ev) : ev[e].mod \in ToSet(o) /\ ev[e].state \in {"threw", "failed"}
Started(st, ev) == st # <<>> \/ ev # <<>>
Over(pe, st, o, md, ev) == Started(st, ev) /\ Graphless(st) /\ pe.eval = 0 => Completed(o, md, ev)

Ordered == Started(stack, evals) => IsOrderOf(Eager, Entry, graph.static)

IInv ==
    /\ Typed
    /\ FramesFit(stack, evals) /\ TasksFit(tasks, evals)
    /\ Exported(modules, evals) /\ Imported(modules, evals, graph)
    /\ Ordered /\ InTurn(Eager, modules, evals)
    /\ Framed(stack, Eager, modules, evals) /\ Based(stack)
    /\ Waits(pending, stack, Eager, modules, evals) /\ Over(pending, stack, Eager, modules, evals)

-----------------------------------------------------------------------------
(* Evaluations.                                                            *)

\* What an evaluation is.
LEMMA EvalIs ==
    ASSUME NEW ev \in Seq(EvalT), NEW e \in 1..Len(ev)
    PROVE  /\ ev[e] \in EvalT /\ ev[e].mod \in Module /\ ev[e].state \in States /\ ev[e].awaits \in 0..MaxAwaits
           /\ e \in Nat /\ e # 0
<1>1. ev[e] \in EvalT /\ e \in Nat /\ e # 0
  OBVIOUS
<1> QED BY <1>1 DEF EvalT

\* One more evaluation.
LEMMA EvalBegun ==
    ASSUME NEW ev \in Seq(EvalT), NEW x \in EvalT
    PROVE  LET u == Append(ev, x)
           IN  /\ u \in Seq(EvalT) /\ Len(u) = Len(ev) + 1 /\ u[Len(ev) + 1] = x
               /\ Len(ev) \in Nat /\ \A e \in 1..Len(ev) : u[e] = ev[e]
               /\ \A e \in 1..Len(u) : e > Len(ev) => e = Len(ev) + 1
OBVIOUS

\* An evaluation that changes state.
LEMMA EvalChanged ==
    ASSUME NEW ev \in Seq(EvalT), NEW e \in 1..Len(ev), NEW x \in EvalT, x.mod = ev[e].mod
    PROVE  LET u == [ev EXCEPT ![e] = x]
           IN  /\ u \in Seq(EvalT) /\ Len(u) = Len(ev) /\ u[e] = x
               /\ \A d \in 1..Len(ev) : /\ d # e => u[d] = ev[d]
                                       /\ u[d].mod = ev[d].mod
<1> DEFINE u == [ev EXCEPT ![e] = x]
<1>1. u \in Seq(EvalT) /\ Len(u) = Len(ev)
  OBVIOUS
<1>2. u[e] = x /\ \A d \in 1..Len(ev) : d # e => u[d] = ev[d]
  OBVIOUS
<1> QED BY <1>1, <1>2

-----------------------------------------------------------------------------
(* Stacks.                                                                 *)

\* A frame put on a stack.
LEMMA Pushed ==
    ASSUME NEW S, NEW s \in Seq(S), NEW f \in S
    PROVE  /\ On(s, f) \in Seq(S) /\ Len(On(s, f)) = Len(s) + 1 /\ On(s, f)[Len(s) + 1] = f
           /\ \A i \in 1..Len(s) : On(s, f)[i] = s[i]
           /\ Len(s) \in Nat /\ On(s, f) # << >>
BY DEF On

\* A stack that is another with a frame on top.
OneMore(st, u, f) ==
    /\ u \in Seq(FrameT) /\ Len(u) = Len(st) + 1 /\ u[Len(st) + 1] = f /\ u # << >>
    /\ \A i \in 1..Len(st) : u[i] = st[i]

\* On makes one.
LEMMA PushedOn ==
    ASSUME NEW st \in Seq(FrameT), NEW f \in FrameT
    PROVE  OneMore(st, On(st, f), f)
BY Pushed DEF OneMore

\* The frames below.
LEMMA Popped ==
    ASSUME NEW S, NEW s \in Seq(S), NEW n \in 0..Len(s)
    PROVE  LET t == SubSeq(s, 1, Len(s) - n)
           IN  /\ t \in Seq(S) /\ Len(t) = Len(s) - n /\ \A i \in 1..(Len(s) - n) : t[i] = s[i]
               /\ Len(s) - n \in 0..Len(s) /\ (t = << >> <=> Len(s) = n)
<1>1. Len(s) - n \in 0..Len(s) /\ Len(s) \in Nat
  OBVIOUS
<1> DEFINE l == Len(s) - n
           t == SubSeq(s, 1, l)
<1>2. /\ l \in Nat /\ l <= Len(s)
  BY <1>1
<1> HIDE DEF l
<1>3. /\ t \in Seq(S) /\ Len(t) = l /\ \A i \in 1..l : t[i] = s[i]
  BY <1>1, <1>2
<1>4. t = << >> <=> l = 0
  BY <1>2, <1>3
<1>5. l = 0 <=> Len(s) = n
  BY <1>1 DEF l
<1> QED BY <1>1, <1>3, <1>4, <1>5 DEF l

-----------------------------------------------------------------------------
(* The order.                                                              *)

\* A startup order: a sequence of different modules, each after what it imports.
LEMMA OrderFacts ==
    ASSUME graph \in Graphs, NEW o, IsOrderOf(o, Entry, graph.static)
    PROVE  /\ o \in Seq(Module) /\ Len(o) \in Nat
           /\ \A j \in 1..Len(o) : o[j] \in Module /\ o[j] \in ToSet(o)
           /\ \A x \in ToSet(o) : \E j \in 1..Len(o) : x = o[j]
           /\ \A i, j \in 1..Len(o) : o[i] = o[j] => i = j
           /\ \A i \in 1..Len(o) : \A d \in ToSet(graph.static[o[i]]) :
                \E j \in 1..Len(o) : d = o[j] /\ j < i
<1>1. o \in Seq(Module) /\ ToSet(o) = Needs({Entry}, graph.static)
  BY DEF IsOrderOf
<1>2. Len(o) \in Nat /\ DOMAIN o = 1..Len(o) /\ \A j \in 1..Len(o) : o[j] \in Module
  BY <1>1
<1>3. ToSet(o) = {o[j] : j \in 1..Len(o)}
  BY <1>2 DEF ToSet
<1>4. \A i, j \in 1..Len(o) : /\ o[i] = o[j] => i = j
                              /\ o[j] \in ToSet(graph.static[o[i]]) => j < i
  BY <1>2 DEF IsOrderOf
<1>5. ASSUME NEW i \in 1..Len(o), NEW d \in ToSet(graph.static[o[i]])
      PROVE  \E j \in 1..Len(o) : d = o[j] /\ j < i
  <2>1. graph.static[o[i]] \in Seq(Module)
    BY <1>2, GraphsAssumption
  <2>2. d \in Module
    BY <2>1, <1>5 DEF ToSet
  <2>3. o[i] \in Needs({Entry}, graph.static)
    BY <1>1, <1>3
  <2>4. d \in ToSet(o)
    BY <1>1, <2>2, <2>3, NeedsClosed
  <2> QED BY <1>3, <1>4, <2>4
<1> QED BY <1>1, <1>2, <1>3, <1>4, <1>5

-----------------------------------------------------------------------------
(* What evaluations and exports do over time.                              *)

\* An evaluation stays of its module, its end stays, and new ones are of modules
\* that are not of the startup order; what is recorded stays so.
Grows(ev, ev2, o) ==
    /\ Len(ev2) >= Len(ev)
    /\ \A e \in 1..Len(ev) : /\ ev2[e].mod = ev[e].mod
                             /\ ev[e].state \in Final => ev2[e].state = ev[e].state
    /\ \A e \in 1..Len(ev2) : e > Len(ev) => ev2[e].mod \notin ToSet(o)
Kept(md, md2) == \A m \in Module : md[m] # 0 => md2[m] # 0

\* With these, a graph's place stays,
LEMMA AtStays ==
    ASSUME NEW o \in Seq(Module), NEW ev \in Seq(EvalT), NEW ev2 \in Seq(EvalT), NEW md, NEW md2,
           Grows(ev, ev2, o), Kept(md, md2), NEW k \in Nat, At(o, k, md, ev)
    PROVE  At(o, k, md2, ev2)
<1>1. \A j \in 1..Len(o) : o[j] \in Module /\ o[j] \in ToSet(o)
  BY DEF ToSet
<1>2. \A j \in 1..Len(o) : j < k => md2[o[j]] # 0
  BY <1>1 DEF At, Kept
<1>3. \A e \in 1..Len(ev2) : e \in 1..Len(ev) \/ e > Len(ev)
  OBVIOUS
<1>4. \A j \in 1..Len(o), e \in 1..Len(ev2) : j > k => ev2[e].mod # o[j]
  BY <1>1, <1>3 DEF At, Grows
<1> QED BY <1>2, <1>4 DEF At

\* so does the turn of each module,
LEMMA InTurnStays ==
    ASSUME NEW o \in Seq(Module), NEW ev \in Seq(EvalT), NEW ev2 \in Seq(EvalT), NEW md, NEW md2,
           Grows(ev, ev2, o), Kept(md, md2), InTurn(o, md, ev)
    PROVE  InTurn(o, md2, ev2)
<1>1. \A j \in 1..Len(o) : o[j] \in Module /\ o[j] \in ToSet(o)
  BY DEF ToSet
<1>2. \A e \in 1..Len(ev2) : e \in 1..Len(ev) \/ e > Len(ev)
  OBVIOUS
<1> SUFFICES ASSUME NEW e \in 1..Len(ev2), NEW i \in 1..Len(o), ev2[e].mod = o[i]
             PROVE  /\ \A j \in 1..Len(o) : j < i => md2[o[j]] # 0
                    /\ \A f \in 1..Len(ev2) : ev2[f].mod = o[i] => f = e
  BY DEF InTurn
<1>3. e \in 1..Len(ev) /\ ev[e].mod = o[i]
  BY <1>1, <1>2 DEF Grows
<1>4. \A j \in 1..Len(o) : j < i => md2[o[j]] # 0
  BY <1>1, <1>3 DEF InTurn, Kept
<1>5. \A f \in 1..Len(ev2) : ev2[f].mod = o[i] => f \in 1..Len(ev) /\ ev[f].mod = o[i]
  BY <1>1, <1>2 DEF Grows
<1> QED BY <1>3, <1>4, <1>5 DEF InTurn

\* and that the graph is done, or failed.
LEMMA CompletedStays ==
    ASSUME NEW o \in Seq(Module), NEW ev \in Seq(EvalT), NEW ev2 \in Seq(EvalT), NEW md, NEW md2,
           Grows(ev, ev2, o), Kept(md, md2), Completed(o, md, ev)
    PROVE  Completed(o, md2, ev2)
<1>1. \A j \in 1..Len(o) : o[j] \in Module
  OBVIOUS
<1>2. CASE \A j \in 1..Len(o) : md[o[j]] # 0
  BY <1>1, <1>2 DEF Completed, Kept
<1>3. CASE \E e \in 1..Len(ev) : ev[e].mod \in ToSet(o) /\ ev[e].state \in {"threw", "failed"}
  <2>1. PICK e \in 1..Len(ev) : ev[e].mod \in ToSet(o) /\ ev[e].state \in {"threw", "failed"}
    BY <1>3
  <2>2. e \in 1..Len(ev2) /\ ev2[e].mod = ev[e].mod /\ ev2[e].state = ev[e].state
    BY <2>1 DEF Grows, Final
  <2> QED BY <2>1, <2>2 DEF Completed
<1> QED BY <1>2, <1>3 DEF Completed

-----------------------------------------------------------------------------
(* What stays on the stack up to a frame p.                                *)

Same(st, st2, p) == p <= Len(st) /\ p <= Len(st2) /\ \A i \in 1..p : st2[i] = st[i]

\* No graph is above it; what is above it is the same evaluation, if it is the
\* graph's; the bodies up to it still run; those above fit.
OffGraph(st, p) == \A i \in 1..Len(st) : i > p => st[i].kind # "graph"
SameAbove(st, st2, p) ==
    p \in 1..Len(st) /\ st[p].kind = "graph" =>
        /\ p < Len(st) /\ p < Len(st2)
        /\ st2[p + 1].kind \in {"body", "drain"} /\ st2[p + 1].id = st[p + 1].id
StillRun(st, p, ev) == \A i \in 1..p : Runs(st[i]) => ev[st[i].id].state = "running"
AboveFit(st, p, ev) ==
    /\ \A i \in 1..Len(st) : i > p => FrameFits(st[i], ev)
    /\ \A i, j \in 1..Len(st) : i > p /\ Runs(st[i]) /\ Runs(st[j]) /\ st[i].id = st[j].id => i = j

\* The graph's frame is among them, and what is above it is the evaluation that
\* was.
LEMMA FramedStays ==
    ASSUME NEW o \in Seq(Module), NEW ev \in Seq(EvalT), NEW ev2 \in Seq(EvalT), NEW md, NEW md2,
           Grows(ev, ev2, o), Kept(md, md2),
           NEW st \in Seq(FrameT), NEW st2 \in Seq(FrameT), Framed(st, o, md, ev),
           NEW p \in Nat, Same(st, st2, p),
           OffGraph(st, p), OffGraph(st2, p), SameAbove(st, st2, p)
    PROVE  Framed(st2, o, md2, ev2) /\ (Graphless(st) <=> Graphless(st2))
<1>1. Len(st) \in Nat /\ Len(st2) \in Nat /\ Len(o) \in Nat /\ Len(ev) \in Nat /\ Len(ev2) \in Nat
  OBVIOUS
<1>2. \A i \in 1..Len(st2) : st2[i].kind = "graph" => i \in 1..Len(st) /\ i \in 1..p /\ st2[i] = st[i]
  BY <1>1 DEF Same, OffGraph
<1>3. \A i \in 1..Len(st) : st[i].kind = "graph" => i \in 1..Len(st2) /\ i \in 1..p /\ st2[i] = st[i]
  BY <1>1 DEF Same, OffGraph
<1>4. Graphless(st) <=> Graphless(st2)
  BY <1>2, <1>3 DEF Graphless
<1>5. \A i, j \in 1..Len(st2) : st2[i].kind = "graph" /\ st2[j].kind = "graph" => i = j
  BY <1>2 DEF Framed
<1>6. ASSUME NEW i \in 1..Len(st2), st2[i].kind = "graph"
      PROVE  \E k \in 0..Len(o) : GraphFrame(st2, i, k, o, md2, ev2)
  <2>1. i \in 1..Len(st) /\ i \in 1..p /\ st2[i] = st[i] /\ st[i].kind = "graph"
    BY <1>2, <1>6
  <2>2. PICK k \in 0..Len(o) : GraphFrame(st, i, k, o, md, ev)
    BY <2>1 DEF Framed
  <2>3. At(o, k, md2, ev2) /\ IsRest(st2[i].rest, o, k)
    BY <1>1, <2>1, <2>2, AtStays DEF GraphFrame
  <2>4. /\ i < Len(st) /\ i < Len(st2) /\ st2[i + 1].kind \in {"body", "drain"}
        /\ st2[i + 1].id = st[i + 1].id
    <3>1. CASE i < p
      <4>1. i + 1 \in 1..p /\ i < Len(st) /\ i < Len(st2)
        BY <1>1, <2>1, <3>1 DEF Same
      <4>2. st2[i + 1] = st[i + 1]
        BY <4>1 DEF Same
      <4> QED BY <2>2, <4>1, <4>2 DEF GraphFrame
    <3>2. CASE i = p
      BY <2>1, <3>2 DEF SameAbove
    <3> QED BY <2>1, <3>1, <3>2
  <2>5. k \in 1..Len(o) /\ st[i + 1].id \in 1..Len(ev) /\ ev[st[i + 1].id].mod = o[k]
    BY <2>2, <2>4 DEF GraphFrame
  <2>6. st2[i + 1].id \in 1..Len(ev2) /\ ev2[st2[i + 1].id].mod = o[k]
    <3> DEFINE e == st[i + 1].id
    <3>1. e \in 1..Len(ev) /\ ev[e].mod = o[k]
      BY <2>5
    <3> HIDE DEF e
    <3>2. e \in 1..Len(ev2) /\ ev2[e].mod = o[k]
      BY <1>1, <3>1 DEF Grows
    <3> QED BY <2>4, <3>2 DEF e
  <2> QED BY <1>1, <2>3, <2>4, <2>5, <2>6 DEF GraphFrame
<1> QED BY <1>4, <1>5, <1>6 DEF Framed

\* The frames fit the evaluations.
LEMMA FramesFitStays ==
    ASSUME NEW ev \in Seq(EvalT), NEW ev2 \in Seq(EvalT), Len(ev2) >= Len(ev),
           NEW st \in Seq(FrameT), NEW st2 \in Seq(FrameT), FramesFit(st, ev),
           NEW p \in Nat, Same(st, st2, p),
           StillRun(st, p, ev2), AboveFit(st2, p, ev2)
    PROVE  FramesFit(st2, ev2)
<1>1. Len(st) \in Nat /\ Len(st2) \in Nat /\ Len(ev) \in Nat /\ Len(ev2) \in Nat
  OBVIOUS
<1>2. \A i \in 1..Len(st2) : ~(i > p) => i \in 1..p /\ i \in 1..Len(st) /\ st2[i] = st[i]
  BY <1>1 DEF Same
<1>3. \A i \in 1..Len(st2) : FrameFits(st2[i], ev2)
  <2> TAKE i \in 1..Len(st2)
  <2>1. CASE i > p
    BY <2>1 DEF AboveFit
  <2>2. CASE ~(i > p)
    <3>1. FrameFits(st[i], ev) /\ st2[i] = st[i] /\ i \in 1..p
      BY <1>2, <2>2 DEF FramesFit
    <3>2. \A e \in 1..Len(ev) : e \in 1..Len(ev2)
      BY <1>1
    <3>3. \A e \in {0} \cup 1..Len(ev) : e \in {0} \cup 1..Len(ev2)
      BY <3>2
    <3> QED BY <3>1, <3>2, <3>3 DEF FrameFits, StillRun
  <2> QED BY <2>1, <2>2
<1>4. ASSUME NEW i \in 1..Len(st2), NEW j \in 1..Len(st2), Runs(st2[i]), Runs(st2[j]), st2[i].id = st2[j].id
      PROVE  i = j
  <2>1. CASE i > p \/ j > p
    BY <1>4, <2>1 DEF AboveFit
  <2>2. CASE ~(i > p) /\ ~(j > p)
    BY <1>2, <1>4, <2>2 DEF FramesFit
  <2> QED BY <2>1, <2>2
<1> QED BY <1>3, <1>4 DEF FramesFit

-----------------------------------------------------------------------------
(* The queue, the exports and the imports.                                 *)

\* A task put in the queue.
LEMMA TaskQueued ==
    ASSUME NEW ts \in Seq(TaskT), NEW t \in TaskT, NEW ev, TasksFit(ts, ev), TaskFits(t, ev),
           t.kind = "module" => \A i \in 1..Len(ts) : ts[i].kind = "module" => ts[i].id # t.id
    PROVE  Append(ts, t) \in Seq(TaskT) /\ TasksFit(Append(ts, t), ev)
<1> DEFINE u == Append(ts, t)
           n == Len(ts)
<1>1. n \in Nat /\ u \in Seq(TaskT) /\ Len(u) = n + 1 /\ u[n + 1] = t /\ \A i \in 1..n : u[i] = ts[i]
  OBVIOUS
<1> HIDE DEF u, n
<1>2. \A i \in 1..(n + 1) : i \in 1..n \/ i = n + 1
  BY <1>1
<1>3. \A i \in 1..Len(u) : TaskFits(u[i], ev)
  BY <1>1, <1>2 DEF TasksFit, n
<1>4. ASSUME NEW i \in 1..Len(u), NEW j \in 1..Len(u), u[i].kind = "module", u[j].kind = "module",
             u[i].id = u[j].id
      PROVE  i = j
  <2>1. (i \in 1..n \/ i = n + 1) /\ (j \in 1..n \/ j = n + 1)
    BY <1>1, <1>2
  <2>2. CASE i \in 1..n /\ j \in 1..n
    BY <1>1, <1>4, <2>2 DEF TasksFit, n
  <2>3. CASE i \in 1..n /\ j = n + 1
    BY <1>1, <1>4, <2>3 DEF n
  <2>4. CASE j \in 1..n /\ i = n + 1
    BY <1>1, <1>4, <2>4 DEF n
  <2> QED BY <2>1, <2>2, <2>3, <2>4
<1> QED BY <1>1, <1>3, <1>4 DEF TasksFit, u

\* The first task taken from it: it is queued no more.
LEMMA TaskTaken ==
    ASSUME NEW ts \in Seq(TaskT), ts # << >>, NEW ev, TasksFit(ts, ev)
    PROVE  /\ Head(ts) \in TaskT /\ TaskFits(Head(ts), ev)
           /\ Tail(ts) \in Seq(TaskT) /\ TasksFit(Tail(ts), ev)
           /\ Head(ts).kind = "module" =>
                \A i \in 1..Len(Tail(ts)) : Tail(ts)[i].kind = "module" => Tail(ts)[i].id # Head(ts).id
<1> DEFINE n == Len(ts)
           u == Tail(ts)
           h == Head(ts)
<1>1. n \in Nat /\ u \in Seq(TaskT) /\ h = ts[1] /\ h \in TaskT /\ 1 \in 1..n
  OBVIOUS
<1>2. Len(u) = n - 1 /\ \A i \in 1..Len(u) : u[i] = ts[i + 1]
  OBVIOUS
<1> HIDE DEF u, n, h
<1>3. \A i \in 1..Len(u) : i + 1 \in 1..n /\ i + 1 # 1
  BY <1>1, <1>2
<1>4. \A i, j \in 1..Len(u) : i + 1 = j + 1 => i = j
  BY <1>1
<1>5. TaskFits(h, ev)
  BY <1>1 DEF TasksFit, n
<1>6. \A i \in 1..Len(u) : TaskFits(u[i], ev)
  BY <1>2, <1>3 DEF TasksFit, n
<1>7. \A i, j \in 1..Len(u) : u[i].kind = "module" /\ u[j].kind = "module" /\ u[i].id = u[j].id => i = j
  <2> TAKE i \in 1..Len(u), j \in 1..Len(u)
  <2>1. u[i] = ts[i + 1] /\ u[j] = ts[j + 1] /\ i + 1 \in 1..n /\ j + 1 \in 1..n
    BY <1>2, <1>3
  <2>2. ts[i + 1].kind = "module" /\ ts[j + 1].kind = "module" /\ ts[i + 1].id = ts[j + 1].id => i + 1 = j + 1
    BY <2>1 DEF TasksFit, n
  <2> QED BY <1>4, <2>1, <2>2
<1>8. h.kind = "module" => \A i \in 1..Len(u) : u[i].kind = "module" => u[i].id # h.id
  <2> SUFFICES ASSUME h.kind = "module", NEW i \in 1..Len(u), u[i].kind = "module", u[i].id = h.id
               PROVE  FALSE
    OBVIOUS
  <2>1. u[i] = ts[i + 1] /\ i + 1 \in 1..n /\ i + 1 # 1
    BY <1>2, <1>3
  <2> QED BY <1>1, <2>1 DEF TasksFit, n
<1> QED BY <1>1, <1>5, <1>6, <1>7, <1>8 DEF TasksFit, u, h

\* The queue fits when the queued evaluations stay queued.
LEMMA TasksFitStays ==
    ASSUME NEW ts \in Seq(TaskT), NEW ev \in Seq(EvalT), NEW ev2 \in Seq(EvalT), Len(ev2) >= Len(ev),
           TasksFit(ts, ev),
           \A i \in 1..Len(ts) : ts[i].kind = "module" => ev2[ts[i].id].state = "queued"
    PROVE  TasksFit(ts, ev2)
<1>1. \A e \in 1..Len(ev) : e \in 1..Len(ev2)
  OBVIOUS
<1>2. \A i \in 1..Len(ts) : TaskFits(ts[i], ev2)
  BY <1>1 DEF TasksFit, TaskFits
<1> QED BY <1>2 DEF TasksFit

\* Exports recorded are of what is done, still.
LEMMA ExportedStays ==
    ASSUME NEW o, NEW ev \in Seq(EvalT), NEW ev2 \in Seq(EvalT), Grows(ev, ev2, o),
           NEW md \in [Module -> {0} \cup 1..Len(ev)], Exported(md, ev)
    PROVE  Exported(md, ev2) /\ md \in [Module -> {0} \cup 1..Len(ev2)]
<1>1. \A e \in 1..Len(ev) : e \in 1..Len(ev2)
  BY DEF Grows
<1>2. \A e \in {0} \cup 1..Len(ev) : e \in {0} \cup 1..Len(ev2)
  BY <1>1
<1>3. md \in [Module -> {0} \cup 1..Len(ev2)]
  BY <1>2
<1>4. Exported(md, ev2)
  <2> SUFFICES ASSUME NEW m \in Module, md[m] # 0
               PROVE  ev2[md[m]].mod = m /\ ev2[md[m]].state = "done"
    BY DEF Exported
  <2>1. md[m] \in 1..Len(ev) /\ ev[md[m]].mod = m /\ ev[md[m]].state = "done"
    BY DEF Exported
  <2> QED BY <2>1 DEF Grows, Final
<1> QED BY <1>3, <1>4

\* The exports of an evaluation that is done are recorded.
LEMMA ExportedRecorded ==
    ASSUME NEW ev \in Seq(EvalT), NEW md \in [Module -> {0} \cup 1..Len(ev)], Exported(md, ev),
           NEW e \in 1..Len(ev), ev[e].state = "done"
    PROVE  LET md2 == [md EXCEPT ![ev[e].mod] = e]
           IN  /\ md2 \in [Module -> {0} \cup 1..Len(ev)] /\ Exported(md2, ev) /\ Kept(md, md2)
               /\ ev[e].mod \in Module /\ md2[ev[e].mod] # 0
<1>1. ev[e].mod \in Module /\ e # 0 /\ e \in {0} \cup 1..Len(ev)
  BY EvalIs
<1> DEFINE m == ev[e].mod
           md2 == [md EXCEPT ![m] = e]
<1>2. md2 \in [Module -> {0} \cup 1..Len(ev)] /\ \A x \in Module : md2[x] = IF x = m THEN e ELSE md[x]
  BY <1>1
<1>3. Exported(md2, ev) /\ Kept(md, md2) /\ md2[m] # 0
  BY <1>1, <1>2 DEF Exported, Kept
<1> QED BY <1>1, <1>2, <1>3

\* What a module imports stays recorded, and is for the new ones.
LEMMA ImportedStays ==
    ASSUME NEW g \in Graphs, NEW ev \in Seq(EvalT), NEW ev2 \in Seq(EvalT), NEW md, NEW md2,
           Len(ev2) >= Len(ev), \A e \in 1..Len(ev) : ev2[e].mod = ev[e].mod, Kept(md, md2),
           Imported(md, ev, g),
           \A e \in 1..Len(ev2) : e > Len(ev) => \A d \in ToSet(g.static[ev2[e].mod]) : md2[d] # 0
    PROVE  Imported(md2, ev2, g)
<1> SUFFICES ASSUME NEW e \in 1..Len(ev2), NEW d \in ToSet(g.static[ev2[e].mod])
             PROVE  md2[d] # 0
  BY DEF Imported
<1>1. CASE e > Len(ev)
  BY <1>1
<1>2. CASE ~(e > Len(ev))
  <2>1. e \in 1..Len(ev) /\ ev2[e].mod = ev[e].mod /\ ev[e].mod \in Module
    <3>1. e \in 1..Len(ev)
      BY <1>2
    <3> QED BY <3>1, EvalIs
  <2>2. g.static[ev[e].mod] \in Seq(Module)
    BY <2>1, GraphsAssumption
  <2>3. d \in Module
    BY <2>1, <2>2 DEF ToSet
  <2> QED BY <2>1, <2>3 DEF Imported, Kept
<1> QED BY <1>1, <1>2

-----------------------------------------------------------------------------
(* Steps that leave the graph where it is.                                 *)

\* What a started run knows of its order.
LEMMA StartedOrder ==
    ASSUME IInv, Started(stack, evals)
    PROVE  IsOrderOf(Eager, Entry, graph.static) /\ Eager \in Seq(Module) /\ graph \in Graphs
<1>1. IsOrderOf(Eager, Entry, graph.static) /\ graph \in Graphs
  BY DEF IInv, Ordered, Typed
<1> QED BY <1>1 DEF IsOrderOf

\* The parts of the invariant, after a step of a run whose order is known.
LEMMA Assembled ==
    ASSUME graph' = graph, IsOrderOf(Eager, Entry, graph.static),
           Typed', FramesFit(stack', evals'), TasksFit(tasks', evals'),
           Exported(modules', evals'), Imported(modules', evals', graph), InTurn(Eager, modules', evals'),
           Framed(stack', Eager, modules', evals'), Based(stack'),
           Waits(pending', stack', Eager, modules', evals'), Over(pending', stack', Eager, modules', evals')
    PROVE  IInv'
<1>1. Eager' = Eager
  BY DEF Eager
<1>2. Ordered'
  BY <1>1 DEF Ordered
<1> QED BY <1>1, <1>2 DEF IInv

\* A step that leaves the graph's frame, and what it waits for, as they were.
LEMMA StepKeeps ==
    ASSUME IInv, Started(stack, evals), graph' = graph, pending' = pending,
           Typed', Grows(evals, evals', Eager), Kept(modules, modules'),
           FramesFit(stack', evals'), TasksFit(tasks', evals'),
           Exported(modules', evals'), Imported(modules', evals', graph),
           NEW p \in Nat, Same(stack, stack', p),
           OffGraph(stack, p), OffGraph(stack', p), SameAbove(stack, stack', p),
           Based(stack'),
           stack' = << >> /\ pending.eval # 0 => evals'[pending.eval].state \notin {"done", "threw"}
    PROVE  IInv'
<1> DEFINE o == Eager
<1>1. IsOrderOf(o, Entry, graph.static) /\ o \in Seq(Module)
  BY StartedOrder
<1>2. evals \in Seq(EvalT) /\ evals' \in Seq(EvalT) /\ stack \in Seq(FrameT) /\ stack' \in Seq(FrameT)
  BY DEF IInv, Typed
<1>3. /\ Framed(stack, o, modules, evals) /\ InTurn(o, modules, evals)
      /\ Waits(pending, stack, o, modules, evals) /\ Over(pending, stack, o, modules, evals)
  BY DEF IInv
<1>4. Grows(evals, evals', o)
  OBVIOUS
<1> HIDE DEF o
<1>5. InTurn(o, modules', evals')
  BY <1>1, <1>2, <1>3, <1>4, InTurnStays
<1>6. Framed(stack', o, modules', evals') /\ (Graphless(stack) <=> Graphless(stack'))
  BY <1>1, <1>2, <1>3, <1>4, FramedStays
<1>7. Waits(pending', stack', o, modules', evals')
  <2> SUFFICES ASSUME pending.eval # 0
               PROVE  /\ Graphless(stack')
                      /\ \E k \in 1..Len(o) : WaitsAt(pending, k, o, modules', evals')
                      /\ stack' = << >> => evals'[pending.eval].state \notin {"done", "threw"}
    BY DEF Waits
  <2>1. PICK k \in 1..Len(o) : WaitsAt(pending, k, o, modules, evals)
    BY <1>3 DEF Waits
  <2>2. pending.eval \in 1..Len(evals)
    BY DEF IInv, Typed
  <2>3. k \in Nat /\ At(o, k, modules', evals')
    BY <1>1, <1>2, <1>4, <2>1, AtStays DEF WaitsAt
  <2>4. WaitsAt(pending, k, o, modules', evals')
    BY <1>4, <2>1, <2>2, <2>3 DEF WaitsAt, Grows
  <2> QED BY <1>3, <1>6, <2>4 DEF Waits
<1>8. Over(pending', stack', o, modules', evals')
  <2> SUFFICES ASSUME Graphless(stack'), pending.eval = 0
               PROVE  Completed(o, modules', evals')
    BY DEF Over
  <2>1. Completed(o, modules, evals)
    BY <1>3, <1>6 DEF Over
  <2> QED BY <1>1, <1>2, <1>4, <2>1, CompletedStays
<1> QED BY <1>1, <1>5, <1>6, <1>7, <1>8, Assembled DEF o

-----------------------------------------------------------------------------
(* The top of the stack.                                                   *)

\* What is known of the innermost frame and the stack below it.
LEMMA TopIs ==
    ASSUME IInv, stack # << >>
    PROVE  /\ Depth = Len(stack) /\ Depth \in 1..Len(stack) /\ Depth \in Nat /\ Depth - 1 \in Nat
           /\ Top = stack[Depth] /\ Top \in FrameT /\ FrameFits(Top, evals)
           /\ Below(1) \in Seq(FrameT) /\ Len(Below(1)) = Depth - 1
           /\ Same(stack, Below(1), Depth - 1)
           /\ ~Bottom(Top) => Depth - 1 \in 1..Len(stack)
           /\ \A i \in 1..Len(stack) : i > Depth - 1 => i = Depth
<1>1. stack \in Seq(FrameT) /\ Len(stack) \in Nat /\ 1 \in 0..Len(stack)
  BY DEF IInv, Typed
<1>2. Depth = Len(stack) /\ Depth \in 1..Len(stack) /\ Depth \in Nat /\ Depth - 1 \in Nat
  BY <1>1 DEF Depth
<1>3. Top = stack[Depth] /\ Top \in FrameT
  BY <1>1, <1>2 DEF Top
<1>4. FrameFits(Top, evals)
  BY <1>2, <1>3 DEF IInv, FramesFit
<1>5. Below(1) \in Seq(FrameT) /\ Len(Below(1)) = Depth - 1 /\ \A i \in 1..(Depth - 1) : Below(1)[i] = stack[i]
  BY <1>1, <1>2, Popped DEF Below
<1>6. Same(stack, Below(1), Depth - 1)
  BY <1>2, <1>5 DEF Same
<1>7. ~Bottom(Top) => Depth # 1
  BY <1>3 DEF IInv, Based
<1> QED BY <1>2, <1>3, <1>4, <1>5, <1>6, <1>7

\* A stack with the same bottom.
LEMMA SameBased ==
    ASSUME NEW st, NEW st2 \in Seq(FrameT), NEW p \in Nat, p # 0, Same(st, st2, p), Based(st), st # << >>
    PROVE  Based(st2) /\ st2 # << >>
<1>1. 1 \in 1..p /\ Len(st2) # 0
  BY DEF Same
<1> QED BY <1>1 DEF Same, Based

\* An evaluation not over that changes state.
Alters(ev, u, e) ==
    /\ u \in Seq(EvalT) /\ Len(u) = Len(ev)
    /\ \A d \in 1..Len(ev) : (d # e => u[d] = ev[d]) /\ u[d].mod = ev[d].mod

\* To alter one that has not ended is to grow.
LEMMA StateSet ==
    ASSUME NEW ev \in Seq(EvalT), NEW e \in 1..Len(ev), NEW x \in EvalT, x.mod = ev[e].mod,
           ev[e].state \notin Final, NEW o
    PROVE  LET u == [ev EXCEPT ![e] = x] IN Alters(ev, u, e) /\ u[e] = x /\ Grows(ev, u, o)
<1> DEFINE u == [ev EXCEPT ![e] = x]
<1>1. /\ u \in Seq(EvalT) /\ Len(u) = Len(ev) /\ u[e] = x
      /\ \A d \in 1..Len(ev) : (d # e => u[d] = ev[d]) /\ u[d].mod = ev[d].mod
  BY EvalChanged
<1> HIDE DEF u
<1>2. Len(ev) \in Nat /\ Len(u) >= Len(ev) /\ \A d \in 1..Len(u) : ~(d > Len(ev))
  BY <1>1
<1>3. Grows(ev, u, o)
  BY <1>1, <1>2 DEF Grows
<1>4. Alters(ev, u, e)
  BY <1>1 DEF Alters
<1> QED BY <1>1, <1>3, <1>4 DEF u

-----------------------------------------------------------------------------
(* A body leaves the stack.                                                *)

\* It runs no more, and the first time the drain of its evaluation takes its place.
LEMMA LeaveKeeps ==
    ASSUME IInv, NEW e \in Evals, IsTop({"body", "resumed"}), Top.id = e,
           UNCHANGED <<graph, modules, pending, queued, calls>>,
           Alters(evals, evals', e), Grows(evals, evals', Eager),
           tasks' \in Seq(TaskT), TasksFit(tasks', evals'),
           stack' = IF Top.kind = "resumed" THEN Below(1) ELSE On(Below(1), Frame("drain", e, <<>>))
    PROVE  IInv'
<1>1. stack # << >> /\ Runs(Top)
  BY DEF IsTop, Runs
<1>2. /\ evals \in Seq(EvalT) /\ e \in 1..Len(evals) /\ stack \in Seq(FrameT)
      /\ modules \in [Module -> {0} \cup 1..Len(evals)]
      /\ evals' \in Seq(EvalT) /\ Len(evals') = Len(evals)
      /\ \A d \in 1..Len(evals) : (d # e => evals'[d] = evals[d]) /\ evals'[d].mod = evals[d].mod
  BY DEF IInv, Typed, Evals, Alters
<1> DEFINE p == Depth - 1
<1>3. /\ p \in Nat /\ Depth \in 1..Len(stack) /\ Depth = Len(stack) /\ Top = stack[Depth]
      /\ Below(1) \in Seq(FrameT) /\ Len(Below(1)) = p /\ Same(stack, Below(1), p)
      /\ \A i \in 1..Len(stack) : i > p => i = Depth
  BY <1>1, TopIs
<1>4. p \in 1..Len(stack) /\ p + 1 = Depth
  <2>1. ~Bottom(Top)
    BY <1>1 DEF Bottom, Runs
  <2> QED BY <1>1, <1>3, <2>1, TopIs
<1> DEFINE f == Frame("drain", e, <<>>)
<1>5. f \in FrameT /\ f.kind = "drain" /\ f.id = e /\ ~Runs(f) /\ FrameFits(f, evals')
  <2>1. e \in Nat /\ << >> \in Seq(Module) /\ e \in {0} \cup 1..Len(evals')
    BY <1>2
  <2> QED BY <2>1 DEF Frame, FrameT, Kinds, FrameFits, Runs
<1> HIDE DEF f, p
<1>6. /\ On(Below(1), f) \in Seq(FrameT) /\ Len(On(Below(1), f)) = p + 1 /\ On(Below(1), f)[p + 1] = f
      /\ \A i \in 1..p : On(Below(1), f)[i] = Below(1)[i]
  <2> DEFINE b == Below(1)
  <2>1. b \in Seq(FrameT) /\ f \in FrameT /\ Len(b) = p
    BY <1>3, <1>5
  <2> HIDE DEF b
  <2>2. OneMore(b, On(b, f), f)
    BY <2>1, PushedOn
  <2> QED BY <2>1, <2>2 DEF b, OneMore
<1>7. /\ stack' \in Seq(FrameT) /\ Same(stack, stack', p)
      /\ \A i \in 1..Len(stack') : i > p => i = p + 1 /\ stack'[i] = f /\ Top.kind = "body"
      /\ Top.kind = "body" => Len(stack') = p + 1 /\ stack'[p + 1] = f
  <2>1. CASE Top.kind = "resumed"
    <3>1. stack' = Below(1)
      BY <2>1
    <3> QED BY <1>3, <2>1, <3>1
  <2>2. CASE Top.kind = "body"
    <3>1. stack' = On(Below(1), f)
      BY <2>2 DEF f
    <3> QED BY <1>3, <1>6, <2>2, <3>1 DEF Same
  <2> QED BY <1>1, <2>1, <2>2 DEF Runs
<1>8. Based(stack') /\ stack' # << >>
  BY <1>1, <1>3, <1>4, <1>7, SameBased DEF IInv
<1>9. FramesFit(stack', evals')
  <2>1. FramesFit(stack, evals) /\ Len(evals') >= Len(evals)
    BY <1>2 DEF IInv
  <2>2. StillRun(stack, p, evals')
    <3> SUFFICES ASSUME NEW i \in 1..p, Runs(stack[i]) PROVE evals'[stack[i].id].state = "running"
      BY DEF StillRun
    <3>1. i \in 1..Len(stack) /\ i # Depth
      BY <1>3, <1>4
    <3>2. stack[i].id # e
      BY <1>1, <1>3, <2>1, <3>1 DEF FramesFit
    <3>3. stack[i].id \in 1..Len(evals) /\ evals[stack[i].id].state = "running"
      BY <2>1, <3>1 DEF FramesFit, FrameFits
    <3> QED BY <1>2, <3>2, <3>3
  <2>3. \A i \in 1..Len(stack') : i > p => FrameFits(stack'[i], evals') /\ ~Runs(stack'[i])
    BY <1>5, <1>7
  <2>4. AboveFit(stack', p, evals')
    BY <2>3 DEF AboveFit
  <2>5. p \in Nat /\ Same(stack, stack', p) /\ stack' \in Seq(FrameT)
    BY <1>3, <1>7
  <2> QED BY <1>2, <2>1, <2>2, <2>4, <2>5, FramesFitStays
<1>10. Exported(modules', evals') /\ Kept(modules, modules') /\ modules' \in [Module -> {0} \cup 1..Len(evals')]
  BY <1>2, ExportedStays DEF IInv, Kept
<1>11. Imported(modules', evals', graph)
  <2>1. \A d \in 1..Len(evals') : ~(d > Len(evals))
    BY <1>2
  <2>2. graph \in Graphs /\ Len(evals') >= Len(evals)
    BY <1>2 DEF IInv, Typed
  <2> QED BY <1>2, <1>10, <2>1, <2>2, ImportedStays DEF IInv
<1>12. Typed'
  BY <1>2, <1>7, <1>10 DEF IInv, Typed
<1>13. SameAbove(stack, stack', p)
  <2> SUFFICES ASSUME stack[p].kind = "graph"
               PROVE  /\ p < Len(stack) /\ p < Len(stack')
                      /\ stack'[p + 1].kind \in {"body", "drain"} /\ stack'[p + 1].id = stack[p + 1].id
    BY DEF SameAbove
  <2>1. p < Len(stack)
    BY <1>3, <1>4
  <2>2. Top.kind = "body"
    <3>1. \E k \in 0..Len(Eager) : GraphFrame(stack, p, k, Eager, modules, evals)
      BY <1>4 DEF IInv, Framed
    <3>2. stack[p + 1].kind \in {"body", "drain"}
      BY <2>1, <3>1 DEF GraphFrame
    <3> QED BY <1>1, <1>3, <1>4, <3>2 DEF Runs
  <2> QED BY <1>3, <1>4, <1>5, <1>7, <2>1, <2>2
<1>14. OffGraph(stack, p) /\ OffGraph(stack', p)
  <2>1. Top.kind # "graph"
    BY <1>1 DEF Runs
  <2>2. \A i \in 1..Len(stack) : i > p => i = Depth
    BY <1>3 DEF p
  <2> QED BY <1>3, <1>5, <1>7, <2>1, <2>2 DEF OffGraph
<1>15. Started(stack, evals) /\ p \in Nat
  BY <1>1, <1>3 DEF Started
<1> QED BY <1>7, <1>8, <1>9, <1>10, <1>11, <1>12, <1>13, <1>14, <1>15, StepKeeps

\* A body on top belongs to an evaluation that runs, and nothing queues it.
LEMMA RunsNow ==
    ASSUME IInv, NEW e \in Evals, IsTop({"body", "resumed"}), Top.id = e
    PROVE  /\ e \in 1..Len(evals) /\ evals \in Seq(EvalT) /\ evals[e].state = "running"
           /\ tasks \in Seq(TaskT) /\ TasksFit(tasks, evals)
           /\ \A i \in 1..Len(tasks) : tasks[i].kind = "module" =>
                tasks[i].id # e /\ tasks[i].id \in 1..Len(evals) /\ evals[tasks[i].id].state = "queued"
<1>1. evals \in Seq(EvalT) /\ e \in 1..Len(evals) /\ tasks \in Seq(TaskT) /\ TasksFit(tasks, evals)
  BY DEF IInv, Typed, Evals
<1>2. stack # << >> /\ Runs(Top)
  BY DEF IsTop, Runs
<1>3. evals[e].state = "running"
  BY <1>2, TopIs DEF FrameFits
<1>4. \A i \in 1..Len(tasks) : tasks[i].kind = "module" =>
        tasks[i].id \in 1..Len(evals) /\ evals[tasks[i].id].state = "queued"
  BY <1>1 DEF TasksFit, TaskFits
<1> QED BY <1>1, <1>3, <1>4

\* It ends or throws.
LEMMA LeftKeeps ==
    ASSUME IInv, NEW e \in Evals, NEW state \in {"done", "threw", "failed"}, Leave(e, state),
           UNCHANGED <<tasks, queued>>
    PROVE  IInv'
<1>1. /\ IsTop({"body", "resumed"}) /\ Top.id = e /\ evals' = [evals EXCEPT ![e].state = state]
      /\ stack' = IF Top.kind = "resumed" THEN Below(1) ELSE On(Below(1), Frame("drain", e, <<>>))
      /\ UNCHANGED <<graph, modules, pending, queued, calls>> /\ tasks' = tasks
  BY DEF Leave
<1>2. /\ e \in 1..Len(evals) /\ evals \in Seq(EvalT) /\ evals[e].state = "running"
      /\ tasks \in Seq(TaskT) /\ TasksFit(tasks, evals)
      /\ \A i \in 1..Len(tasks) : tasks[i].kind = "module" =>
           tasks[i].id # e /\ tasks[i].id \in 1..Len(evals) /\ evals[tasks[i].id].state = "queued"
  BY <1>1, RunsNow
<1>3. state \in States /\ evals[e].state \notin Final
  BY <1>2 DEF States, Final
<1>4. Alters(evals, evals', e) /\ Grows(evals, evals', Eager)
  <2> DEFINE x == [evals[e] EXCEPT !.state = state]
  <2>1. x \in EvalT /\ x.mod = evals[e].mod
    BY <1>2, <1>3, EvalIs DEF EvalT
  <2>2. evals' = [evals EXCEPT ![e] = x]
    BY <1>1
  <2> HIDE DEF x
  <2> QED BY <1>2, <1>3, <2>1, <2>2, StateSet
<1>5. TasksFit(tasks', evals')
  <2>1. Len(evals') >= Len(evals) /\ \A i \in 1..Len(tasks) : tasks[i].kind = "module" => evals'[tasks[i].id].state = "queued"
    BY <1>2, <1>4 DEF Alters
  <2> QED BY <1>1, <1>2, <1>4, <2>1, TasksFitStays DEF Alters
<1> QED BY <1>1, <1>2, <1>4, <1>5, LeaveKeeps

\* Its top level is over,
LEMMA BodyEndsKeeps == ASSUME IInv, NEW e \in Evals, BodyEnds(e) PROVE IInv'
BY LeftKeeps DEF BodyEnds

\* or throws.
LEMMA BodyThrowsKeeps ==
    ASSUME IInv, NEW e \in Evals, NEW state \in {"threw", "failed"}, BodyThrows(e, state) PROVE IInv'
BY LeftKeeps DEF BodyThrows

\* It awaits: it is queued when what it awaits is settled.
LEMMA BodyAwaitsKeeps ==
    ASSUME IInv, NEW e \in Evals, NEW settled \in BOOLEAN, BodyAwaits(e, settled) PROVE IInv'
<1> DEFINE s == IF settled THEN "queued" ELSE "waiting"
           t == [kind |-> "module", id |-> e]
<1>1. /\ IsTop({"body", "resumed"}) /\ Top.id = e /\ evals[e].awaits < MaxAwaits
      /\ evals' = [evals EXCEPT ![e].state = s, ![e].awaits = @ + 1]
      /\ tasks' = IF settled THEN Append(tasks, t) ELSE tasks
      /\ stack' = IF Top.kind = "resumed" THEN Below(1) ELSE On(Below(1), Frame("drain", e, <<>>))
      /\ UNCHANGED <<graph, modules, pending, queued, calls>>
  BY DEF BodyAwaits
<1>2. /\ e \in 1..Len(evals) /\ evals \in Seq(EvalT) /\ evals[e].state = "running"
      /\ tasks \in Seq(TaskT) /\ TasksFit(tasks, evals)
      /\ \A i \in 1..Len(tasks) : tasks[i].kind = "module" =>
           tasks[i].id # e /\ tasks[i].id \in 1..Len(evals) /\ evals[tasks[i].id].state = "queued"
  BY <1>1, RunsNow
<1>3. s \in States /\ evals[e].state \notin Final
  BY <1>2 DEF States, Final
<1> HIDE DEF s
<1>4. Alters(evals, evals', e) /\ evals'[e].state = s /\ Grows(evals, evals', Eager)
  <2> DEFINE x == [evals[e] EXCEPT !.state = s, !.awaits = @ + 1]
  <2>1. x \in EvalT /\ x.mod = evals[e].mod /\ x.state = s
    <3>1. evals[e] \in EvalT /\ evals[e].awaits + 1 \in 0..MaxAwaits
      BY <1>1, <1>2, EvalIs, GraphBounds
    <3> QED BY <1>3, <3>1 DEF EvalT
  <2>2. evals' = [evals EXCEPT ![e] = x]
    BY <1>1
  <2> HIDE DEF x
  <2> QED BY <1>2, <1>3, <2>1, <2>2, StateSet
<1>5. TasksFit(tasks, evals')
  <2>1. Len(evals') >= Len(evals) /\ \A i \in 1..Len(tasks) : tasks[i].kind = "module" => evals'[tasks[i].id].state = "queued"
    BY <1>2, <1>4 DEF Alters
  <2> QED BY <1>2, <1>4, <2>1, TasksFitStays DEF Alters
<1>6. tasks' \in Seq(TaskT) /\ TasksFit(tasks', evals')
  <2>1. CASE settled = TRUE
    <3>1. t \in TaskT /\ t.kind = "module" /\ t.id = e
      BY <1>2, EvalIs DEF TaskT
    <3>2. evals'[e].state = "queued" /\ e \in 1..Len(evals')
      BY <1>2, <1>4, <2>1 DEF s, Alters
    <3>3. TaskFits(t, evals')
      BY <3>1, <3>2 DEF TaskFits
    <3> HIDE DEF t
    <3> QED BY <1>1, <1>2, <1>5, <2>1, <3>1, <3>3, TaskQueued
  <2>2. CASE settled = FALSE
    BY <1>1, <1>2, <1>5, <2>2
  <2> QED BY <2>1, <2>2
<1> QED BY <1>1, <1>2, <1>4, <1>6, LeaveKeeps

-----------------------------------------------------------------------------
(* Steps that take a frame off, or put frames on.                          *)

\* Nothing happens to the evaluations.
LEMMA SameGrows == ASSUME NEW ev, NEW o, Len(ev) \in Nat PROVE Grows(ev, ev, o)
<1>1. \A e \in 1..Len(ev) : ~(e > Len(ev))
  OBVIOUS
<1> QED BY <1>1 DEF Grows

\* The innermost frame, which is not the graph's nor right above it, goes.
LEMMA PopKeeps ==
    ASSUME IInv, stack # << >>, stack' = Below(1), Top.kind # "graph",
           Depth - 1 \in 1..Len(stack) => stack[Depth - 1].kind # "graph",
           UNCHANGED <<graph, evals, pending, tasks, queued, calls>>,
           modules' \in [Module -> {0} \cup 1..Len(evals)], Exported(modules', evals), Kept(modules, modules'),
           Depth = 1 /\ pending.eval # 0 => evals[pending.eval].state \notin {"done", "threw"}
    PROVE  IInv'
<1> DEFINE p == Depth - 1
<1>1. /\ p \in Nat /\ Depth \in 1..Len(stack) /\ Depth = Len(stack) /\ Top = stack[Depth]
      /\ stack' \in Seq(FrameT) /\ Len(stack') = p /\ Same(stack, stack', p)
      /\ \A i \in 1..Len(stack) : i > p => i = Depth
  BY TopIs
<1>2. p \in 1..Len(stack) => stack[p].kind # "graph"
  OBVIOUS
<1>3. p = 0 <=> Depth = 1
  BY <1>1
<1> HIDE DEF p
<1>4. \A i \in 1..Len(stack') : ~(i > p)
  BY <1>1
<1>5. OffGraph(stack, p) /\ OffGraph(stack', p) /\ SameAbove(stack, stack', p)
  BY <1>1, <1>2, <1>4 DEF OffGraph, SameAbove
<1>6. evals \in Seq(EvalT) /\ stack \in Seq(FrameT) /\ Len(evals) \in Nat /\ graph \in Graphs
  BY DEF IInv, Typed
<1>7. Grows(evals, evals', Eager)
  BY <1>6, SameGrows
<1>8. FramesFit(stack', evals')
  <2>1. FramesFit(stack, evals)
    BY DEF IInv
  <2>2. StillRun(stack, p, evals)
    <3>1. \A i \in 1..p : i \in 1..Len(stack)
      <4>1. p <= Len(stack) /\ Len(stack) \in Nat
        BY <1>1, <1>6 DEF Same
      <4> QED BY <1>1, <4>1
    <3> QED BY <2>1, <3>1 DEF StillRun, FramesFit, FrameFits
  <2>3. AboveFit(stack', p, evals)
    BY <1>4 DEF AboveFit
  <2>4. Len(evals) >= Len(evals)
    BY <1>6
  <2>5. FramesFit(stack', evals)
    BY <1>1, <1>6, <2>1, <2>2, <2>3, <2>4, FramesFitStays
  <2> QED BY <2>5
<1>9. TasksFit(tasks', evals') /\ Exported(modules', evals')
  BY DEF IInv
<1>10. Imported(modules', evals', graph)
  <2>1. \A e \in 1..Len(evals) : ~(e > Len(evals))
    BY <1>6
  <2>2. Len(evals) >= Len(evals) /\ Imported(modules, evals, graph)
    BY <1>6 DEF IInv
  <2>3. Imported(modules', evals, graph)
    BY <1>6, <2>1, <2>2, ImportedStays
  <2> QED BY <2>3
<1>11. Typed'
  BY <1>1 DEF IInv, Typed
<1>12. Based(stack')
  <2>1. CASE p = 0
    BY <1>1, <2>1 DEF Based
  <2>2. CASE p # 0
    BY <1>1, <2>2, SameBased DEF IInv
  <2> QED BY <2>1, <2>2
<1>13. stack' = << >> /\ pending.eval # 0 => evals'[pending.eval].state \notin {"done", "threw"}
  <2>1. stack' = << >> => p = 0
    BY <1>1
  <2> QED BY <1>3, <2>1
<1>14. Started(stack, evals)
  BY DEF Started
<1> QED BY <1>1, <1>5, <1>7, <1>8, <1>9, <1>10, <1>11, <1>12, <1>13, <1>14, StepKeeps

\* Frames that are not a graph's go on a stack whose top is not the graph's, or
\* none does.
LEMMA PushKeeps ==
    ASSUME IInv, Started(stack, evals), UNCHANGED <<graph, modules, pending>>,
           evals' \in Seq(EvalT), Grows(evals, evals', Eager), Imported(modules, evals', graph),
           tasks' \in Seq(TaskT), TasksFit(tasks', evals'), queued' \in 0..MaxTasks, calls' \in 0..MaxCalls,
           stack' \in Seq(FrameT), Same(stack, stack', Len(stack)), OffGraph(stack', Len(stack)),
           AboveFit(stack', Len(stack), evals'), StillRun(stack, Len(stack), evals'),
           Based(stack'), stack' # << >>, stack # << >> => Top.kind # "graph"
    PROVE  IInv'
<1> DEFINE p == Len(stack)
<1>1. /\ evals \in Seq(EvalT) /\ stack \in Seq(FrameT) /\ p \in Nat /\ graph \in Graphs
      /\ modules \in [Module -> {0} \cup 1..Len(evals)] /\ Exported(modules, evals)
      /\ pending \in [eval : {0} \cup 1..Len(evals), rest : Seq(Module)]
  BY DEF IInv, Typed
<1>2. p \in 1..Len(stack) => stack[p].kind # "graph"
  BY <1>1 DEF Top, Depth
<1>3. \A i \in 1..Len(stack) : ~(i > p)
  BY <1>1
<1>4. Same(stack, stack', p) /\ OffGraph(stack', p) /\ AboveFit(stack', p, evals') /\ StillRun(stack, p, evals')
  OBVIOUS
<1> HIDE DEF p
<1>5. OffGraph(stack, p) /\ SameAbove(stack, stack', p)
  BY <1>2, <1>3 DEF OffGraph, SameAbove
<1>6. Len(evals') >= Len(evals) /\ Kept(modules, modules')
  BY DEF Grows, Kept
<1>7. FramesFit(stack', evals')
  BY <1>1, <1>4, <1>6, FramesFitStays DEF IInv
<1>8. Exported(modules, evals') /\ modules \in [Module -> {0} \cup 1..Len(evals')]
  BY <1>1, ExportedStays
<1>9. Typed'
  <2>1. \A e \in {0} \cup 1..Len(evals) : e \in {0} \cup 1..Len(evals')
    BY <1>1, <1>6
  <2>2. pending' \in [eval : {0} \cup 1..Len(evals'), rest : Seq(Module)]
    BY <1>1, <2>1
  <2> QED BY <1>1, <1>8, <2>2 DEF Typed
<1> QED BY <1>1, <1>4, <1>5, <1>6, <1>7, <1>8, <1>9, StepKeeps

-----------------------------------------------------------------------------
(* Code, tasks and the host.                                               *)

\* What is not the evaluation of a module is not right above the graph.
LEMMA NotAboveGraph ==
    ASSUME IInv, stack # << >>, Top.kind \notin {"body", "drain"} \/ Top.id = 0,
           Depth - 1 \in 1..Len(stack)
    PROVE  stack[Depth - 1].kind # "graph"
<1> SUFFICES ASSUME stack[Depth - 1].kind = "graph" PROVE FALSE
  OBVIOUS
<1> DEFINE p == Depth - 1
<1>1. p \in Nat /\ Depth \in Nat /\ Depth = Len(stack) /\ p + 1 = Depth /\ p < Len(stack) /\ Top = stack[Depth]
  BY TopIs
<1>2. PICK k \in 0..Len(Eager) : GraphFrame(stack, p, k, Eager, modules, evals)
  BY DEF IInv, Framed
<1> HIDE DEF p
<1>3. Top.kind \in {"body", "drain"} /\ Top.id \in 1..Len(evals)
  BY <1>1, <1>2 DEF GraphFrame
<1>4. \A e \in 1..Len(evals) : e # 0
  OBVIOUS
<1> QED BY <1>3, <1>4

\* Code that runs is of a module, and the body of an evaluation runs.
LEMMA CodeIs ==
    ASSUME IInv, Code
    PROVE  /\ stack # << >> /\ Top.kind \in {"body", "resumed", "code"} /\ CodeOf \in Module
           /\ Started(stack, evals) /\ Based(stack) /\ stack \in Seq(FrameT)
<1>1. stack # << >> /\ Top.kind \in {"body", "resumed", "code"}
  BY DEF Code, IsTop
<1>2. FrameFits(Top, evals) /\ evals \in Seq(EvalT)
  BY <1>1, TopIs DEF IInv, Typed
<1>3. CASE Top.kind = "code"
  BY <1>1, <1>2, <1>3 DEF CodeOf, FrameFits, IInv, Typed, Started
<1>4. CASE Top.kind # "code"
  <2>1. Top.id \in 1..Len(evals)
    BY <1>1, <1>2, <1>4 DEF FrameFits, Runs
  <2>2. evals[Top.id].mod \in Module
    BY <1>2, <2>1, EvalIs
  <2> QED BY <1>1, <1>4, <2>2 DEF CodeOf, IInv, Typed, Started
<1> QED BY <1>3, <1>4

\* The bodies on the stack run.
LEMMA AllRun ==
    ASSUME IInv
    PROVE  /\ StillRun(stack, Len(stack), evals) /\ AboveFit(stack, Len(stack), evals)
           /\ OffGraph(stack, Len(stack)) /\ Same(stack, stack, Len(stack))
<1>1. stack \in Seq(FrameT) /\ Len(stack) \in Nat /\ FramesFit(stack, evals)
  BY DEF IInv, Typed
<1>2. \A i \in 1..Len(stack) : ~(i > Len(stack))
  BY <1>1
<1>3. StillRun(stack, Len(stack), evals)
  BY <1>1 DEF StillRun, FramesFit, FrameFits
<1>4. Same(stack, stack, Len(stack))
  BY <1>1 DEF Same
<1> QED BY <1>2, <1>3, <1>4 DEF AboveFit, OffGraph

\* One frame put on: it is all that is new.
LEMMA OneOn ==
    ASSUME NEW st \in Seq(FrameT), NEW f \in FrameT, NEW u, OneMore(st, u, f), NEW ev,
           f.kind # "graph", FrameFits(f, ev),
           Runs(f) => \A i \in 1..Len(st) : Runs(st[i]) => st[i].id # f.id
    PROVE  /\ u \in Seq(FrameT) /\ Same(st, u, Len(st)) /\ OffGraph(u, Len(st)) /\ AboveFit(u, Len(st), ev)
           /\ st # << >> /\ Based(st) => Based(u)
           /\ st = << >> /\ Bottom(f) => Based(u)
<1>1. /\ Len(st) \in Nat /\ u \in Seq(FrameT) /\ Len(u) = Len(st) + 1 /\ u[Len(st) + 1] = f
      /\ \A i \in 1..Len(st) : u[i] = st[i]
  BY DEF OneMore
<1> DEFINE n == Len(st)
<1> HIDE DEF n
<1>2. \A i \in 1..(n + 1) : i \in 1..n \/ i = n + 1
  BY <1>1 DEF n
<1>3. \A i \in 1..Len(u) : i > n => i = n + 1 /\ u[i] = f
  BY <1>1 DEF n
<1>4. Same(st, u, n)
  BY <1>1 DEF Same, n
<1>5. OffGraph(u, n)
  BY <1>3 DEF OffGraph
<1>6. AboveFit(u, n, ev)
  <2>1. \A i \in 1..Len(u) : i > n => FrameFits(u[i], ev)
    BY <1>3
  <2>2. ASSUME NEW i \in 1..Len(u), NEW j \in 1..Len(u), i > n, Runs(u[i]), Runs(u[j]), u[i].id = u[j].id
        PROVE  i = j
    <3>1. i = n + 1 /\ u[i] = f
      BY <1>3, <2>2
    <3>2. j \in 1..n => u[j] = st[j] /\ Runs(st[j]) /\ st[j].id = f.id
      BY <1>1, <2>2, <3>1 DEF n
    <3>3. j \notin 1..n
      BY <2>2, <3>1, <3>2 DEF n
    <3> QED BY <1>1, <1>2, <3>1, <3>3 DEF n
  <2> QED BY <2>1, <2>2 DEF AboveFit
<1>7. st # << >> /\ Based(st) => Based(u)
  <2>1. st # << >> => n # 0 /\ n \in Nat
    BY <1>1 DEF n
  <2> QED BY <1>1, <1>4, <2>1, SameBased
<1>8. st = << >> /\ Bottom(f) => Based(u)
  <2>1. st = << >> => u[1] = f
    BY <1>1
  <2> QED BY <2>1 DEF Based
<1> QED BY <1>1, <1>4, <1>5, <1>6, <1>7, <1>8 DEF n

\* Code is over.
LEMMA CodeEndsKeeps == ASSUME IInv, CodeEnds PROVE IInv'
<1>1. /\ stack # << >> /\ Top.kind = "code" /\ stack' = Below(1)
      /\ UNCHANGED <<graph, modules, evals, pending, tasks, queued, calls>>
  BY DEF CodeEnds, IsTop
<1>2. Depth # 1
  <2>1. ~Bottom(Top)
    BY <1>1 DEF Bottom
  <2>2. Depth - 1 \in 1..Len(stack)
    BY <1>1, <2>1, TopIs
  <2> QED BY <2>2
<1>3. Exported(modules', evals) /\ Kept(modules, modules') /\ modules' \in [Module -> {0} \cup 1..Len(evals)]
  BY <1>1 DEF IInv, Typed, Kept
<1>4. Depth - 1 \in 1..Len(stack) => stack[Depth - 1].kind # "graph"
  BY <1>1, NotAboveGraph
<1> QED BY <1>1, <1>2, <1>3, <1>4, PopKeeps

\* A callback's drain is over, and what a graph awaits is not settled.
LEMMA DrainOverKeeps == ASSUME IInv, DrainOver PROVE IInv'
<1>1. /\ stack # << >> /\ Top.kind = "drain" /\ Top.id = 0 /\ stack' = Below(1) /\ ~CanResume
      /\ UNCHANGED <<graph, modules, evals, pending, tasks, queued, calls>>
  BY DEF DrainOver, CallbackDrained, IsTop
<1>2. pending.eval # 0 => evals[pending.eval].state \notin {"done", "threw"}
  BY <1>1 DEF CanResume, Settled
<1>3. Exported(modules', evals) /\ Kept(modules, modules') /\ modules' \in [Module -> {0} \cup 1..Len(evals)]
  BY <1>1 DEF IInv, Typed, Kept
<1>4. Depth - 1 \in 1..Len(stack) => stack[Depth - 1].kind # "graph"
  BY <1>1, NotAboveGraph
<1> QED BY <1>1, <1>2, <1>3, <1>4, PopKeeps

\* A task is queued.
LEMMA QueueTaskKeeps == ASSUME IInv, QueueTask PROVE IInv'
<1> DEFINE t == [kind |-> "code", id |-> CodeOf]
<1>1. /\ Code /\ queued < MaxTasks /\ queued' = queued + 1 /\ tasks' = Append(tasks, t)
      /\ UNCHANGED <<graph, modules, evals, pending, stack, calls>>
  BY DEF QueueTask
<1>2. /\ stack # << >> /\ Top.kind \in {"body", "resumed", "code"} /\ CodeOf \in Module
      /\ Started(stack, evals) /\ Based(stack) /\ stack \in Seq(FrameT)
  BY <1>1, CodeIs
<1>3. tasks \in Seq(TaskT) /\ TasksFit(tasks, evals) /\ evals \in Seq(EvalT) /\ Len(evals) \in Nat
  BY DEF IInv, Typed
<1>4. t \in TaskT /\ TaskFits(t, evals) /\ t.kind # "module"
  BY <1>2 DEF TaskT, TaskFits
<1> HIDE DEF t
<1>5. tasks' \in Seq(TaskT) /\ TasksFit(tasks', evals')
  BY <1>1, <1>3, <1>4, TaskQueued
<1>6. queued' \in 0..MaxTasks /\ calls' \in 0..MaxCalls
  <2>1. queued \in 0..MaxTasks /\ MaxTasks \in Nat /\ calls \in 0..MaxCalls
    BY GraphBounds DEF IInv, Typed
  <2> QED BY <1>1, <2>1
<1>7. Grows(evals, evals', Eager) /\ Imported(modules, evals', graph)
  BY <1>1, <1>3, SameGrows DEF IInv
<1> QED BY <1>1, <1>2, <1>3, <1>5, <1>6, <1>7, AllRun, PushKeeps

\* What an evaluation awaits is settled: it is queued.
LEMMA Awakened ==
    ASSUME IInv, NEW e \in Evals, Awaken(e)
    PROVE  /\ UNCHANGED <<graph, modules, pending, queued, calls>>
           /\ evals' \in Seq(EvalT) /\ Len(evals') = Len(evals) /\ Grows(evals, evals', Eager)
           /\ Imported(modules, evals', graph) /\ tasks' \in Seq(TaskT) /\ TasksFit(tasks', evals')
           /\ StillRun(stack, Len(stack), evals') /\ Started(stack, evals)
           /\ queued' \in 0..MaxTasks /\ calls' \in 0..MaxCalls
<1> DEFINE t == [kind |-> "module", id |-> e]
           x == [evals[e] EXCEPT !.state = "queued"]
<1>1. /\ evals[e].state = "waiting" /\ evals' = [evals EXCEPT ![e] = x] /\ tasks' = Append(tasks, t)
      /\ UNCHANGED <<graph, modules, pending, queued, calls>>
  BY DEF Awaken
<1>2. /\ evals \in Seq(EvalT) /\ e \in 1..Len(evals) /\ tasks \in Seq(TaskT) /\ TasksFit(tasks, evals)
      /\ stack \in Seq(FrameT) /\ graph \in Graphs /\ Imported(modules, evals, graph) /\ FramesFit(stack, evals)
      /\ queued \in 0..MaxTasks /\ calls \in 0..MaxCalls
  BY DEF IInv, Typed, Evals
<1>3. x \in EvalT /\ x.mod = evals[e].mod /\ x.state = "queued"
  <2>1. evals[e] \in EvalT
    BY <1>2, EvalIs
  <2> QED BY <2>1 DEF EvalT, States
<1>4. t \in TaskT /\ t.kind = "module" /\ t.id = e
  BY <1>2, EvalIs DEF TaskT
<1> HIDE DEF t, x
<1>5. Alters(evals, evals', e) /\ evals'[e].state = "queued" /\ Grows(evals, evals', Eager)
  BY <1>1, <1>2, <1>3, StateSet DEF Final
<1>6. /\ evals' \in Seq(EvalT) /\ Len(evals') = Len(evals) /\ Len(evals') >= Len(evals)
      /\ \A d \in 1..Len(evals) : (d # e => evals'[d] = evals[d]) /\ evals'[d].mod = evals[d].mod
  BY <1>2, <1>5 DEF Alters
<1>7. \A i \in 1..Len(tasks) : tasks[i].kind = "module" =>
        tasks[i].id # e /\ tasks[i].id \in 1..Len(evals) /\ evals[tasks[i].id].state = "queued"
  BY <1>1, <1>2 DEF TasksFit, TaskFits
<1>8. TasksFit(tasks, evals')
  <2>1. \A i \in 1..Len(tasks) : tasks[i].kind = "module" => evals'[tasks[i].id].state = "queued"
    BY <1>6, <1>7
  <2> QED BY <1>2, <1>6, <2>1, TasksFitStays
<1>9. TaskFits(t, evals')
  BY <1>2, <1>4, <1>5, <1>6 DEF TaskFits
<1>10. tasks' \in Seq(TaskT) /\ TasksFit(tasks', evals')
  BY <1>1, <1>2, <1>4, <1>7, <1>8, <1>9, TaskQueued
<1>11. StillRun(stack, Len(stack), evals')
  <2>1. \A i \in 1..Len(stack) : Runs(stack[i]) => stack[i].id \in 1..Len(evals) /\ evals[stack[i].id].state = "running"
    BY <1>2 DEF FramesFit, FrameFits
  <2> QED BY <1>1, <1>6, <2>1 DEF StillRun
<1>12. Imported(modules, evals', graph)
  <2>1. \A d \in 1..Len(evals') : ~(d > Len(evals))
    BY <1>2, <1>6
  <2>2. Kept(modules, modules)
    BY DEF Kept
  <2> QED BY <1>2, <1>6, <2>1, <2>2, ImportedStays
<1>13. Started(stack, evals)
  BY <1>2 DEF Started
<1> QED BY <1>1, <1>2, <1>5, <1>6, <1>10, <1>11, <1>12, <1>13

\* Code settles it.
LEMMA CodeSettlesKeeps == ASSUME IInv, NEW e \in Evals, CodeSettles(e) PROVE IInv'
<1>1. Code /\ Awaken(e) /\ stack' = stack
  BY DEF CodeSettles
<1>2. AboveFit(stack, Len(stack), evals')
  <2>1. stack \in Seq(FrameT) /\ Len(stack) \in Nat
    BY DEF IInv, Typed
  <2>2. \A i \in 1..Len(stack) : ~(i > Len(stack))
    BY <2>1
  <2> QED BY <2>2 DEF AboveFit
<1> QED BY <1>1, <1>2, Awakened, AllRun, CodeIs, PushKeeps

\* The drain of a callback.
LEMMA CallbackDrain ==
    ASSUME NEW ev
    PROVE  LET f == Frame("drain", 0, <<>>)
           IN  f \in FrameT /\ f.kind # "graph" /\ ~Runs(f) /\ FrameFits(f, ev) /\ Bottom(f)
<1>1. << >> \in Seq(Module)
  OBVIOUS
<1> QED BY <1>1 DEF Frame, FrameT, Kinds, Runs, FrameFits, Bottom

\* The host settles it, and drains the queue.
LEMMA HostSettlesKeeps == ASSUME IInv, NEW e \in Evals, HostSettles(e) PROVE IInv'
<1> DEFINE f == Frame("drain", 0, <<>>)
<1>1. (stack # <<>> => Code) /\ Awaken(e) /\ stack' = On(stack, f)
  BY DEF HostSettles, HostRuns
<1>2. f \in FrameT /\ f.kind # "graph" /\ ~Runs(f) /\ FrameFits(f, evals') /\ Bottom(f)
  BY CallbackDrain
<1> HIDE DEF f
<1>3. stack \in Seq(FrameT) /\ OneMore(stack, stack', f) /\ Based(stack)
  BY <1>1, <1>2, PushedOn DEF IInv, Typed
<1>4. /\ stack' \in Seq(FrameT) /\ Same(stack, stack', Len(stack)) /\ OffGraph(stack', Len(stack))
      /\ AboveFit(stack', Len(stack), evals') /\ Based(stack') /\ stack' # << >>
  BY <1>2, <1>3, OneOn DEF OneMore
<1>5. stack # << >> => Top.kind # "graph"
  BY <1>1, CodeIs
<1> QED BY <1>1, <1>4, <1>5, Awakened, PushKeeps

\* The host calls a function of a module that has run.
LEMMA HostCallsKeeps == ASSUME IInv, NEW m \in Module, HostCalls(m) PROVE IInv'
<1> DEFINE f == Frame("drain", 0, <<>>)
           c == Frame("code", m, <<>>)
           n == Len(stack)
           s == On(stack, f)
<1>1. /\ (stack # <<>> => Code) /\ Evaluated(m) /\ calls < MaxCalls /\ calls' = calls + 1 /\ stack' = On(s, c)
      /\ UNCHANGED <<graph, modules, evals, pending, tasks, queued>>
  BY DEF HostCalls, HostRuns
<1>2. f \in FrameT /\ f.kind # "graph" /\ ~Runs(f) /\ FrameFits(f, evals) /\ Bottom(f)
  BY CallbackDrain
<1>3. c \in FrameT /\ c.kind # "graph" /\ ~Runs(c) /\ FrameFits(c, evals)
  <2>1. << >> \in Seq(Module)
    OBVIOUS
  <2> QED BY <2>1 DEF Frame, FrameT, Kinds, Runs, FrameFits
<1> HIDE DEF f, c
<1>4. /\ stack \in Seq(FrameT) /\ evals \in Seq(EvalT) /\ Len(evals) \in Nat /\ Based(stack)
      /\ tasks \in Seq(TaskT) /\ TasksFit(tasks, evals) /\ Imported(modules, evals, graph)
  BY DEF IInv, Typed
<1>5. OneMore(stack, s, f)
  BY <1>2, <1>4, PushedOn
<1>6. s \in Seq(FrameT) /\ s # << >> /\ Based(s)
  BY <1>2, <1>4, <1>5, OneOn DEF OneMore
<1> HIDE DEF s
<1>7. OneMore(s, stack', c)
  BY <1>1, <1>3, <1>6, PushedOn
<1>8. stack' \in Seq(FrameT) /\ Based(stack') /\ stack' # << >>
  BY <1>3, <1>6, <1>7, OneOn DEF OneMore
<1>9. /\ n \in Nat /\ Len(s) = n + 1 /\ s[n + 1] = f /\ \A i \in 1..n : s[i] = stack[i]
      /\ Len(stack') = Len(s) + 1 /\ stack'[Len(s) + 1] = c /\ \A i \in 1..Len(s) : stack'[i] = s[i]
  BY <1>4, <1>5, <1>7 DEF OneMore
<1> HIDE DEF n
<1>10. Same(stack, stack', n)
  <2>1. \A i \in 1..n : i \in 1..(n + 1)
    BY <1>9
  <2>2. n <= Len(stack) /\ n <= Len(stack')
    BY <1>9 DEF n
  <2> QED BY <1>9, <2>1, <2>2 DEF Same
<1>11. \A i \in 1..Len(stack') : i > n => stack'[i] \in {f, c}
  <2>1. \A i \in 1..((n + 1) + 1) : i > n => i = n + 1 \/ i = (n + 1) + 1
    BY <1>9
  <2>2. n + 1 \in 1..(n + 1)
    BY <1>9
  <2> QED BY <1>9, <2>1, <2>2
<1>12. OffGraph(stack', n) /\ AboveFit(stack', n, evals)
  BY <1>2, <1>3, <1>11 DEF OffGraph, AboveFit
<1>13. StillRun(stack, n, evals)
  BY AllRun DEF n
<1>14. queued' \in 0..MaxTasks /\ calls' \in 0..MaxCalls
  <2>1. queued \in 0..MaxTasks /\ MaxCalls \in Nat /\ calls \in 0..MaxCalls
    BY GraphBounds DEF IInv, Typed
  <2> QED BY <1>1, <2>1
<1>15. Started(stack, evals)
  <2>1. \E e \in DOMAIN evals : TRUE
    BY <1>1 DEF Evaluated, Evals
  <2> QED BY <2>1 DEF Started
<1>16. Grows(evals, evals', Eager)
  BY <1>1, <1>4, SameGrows
<1>17. stack # << >> => Top.kind # "graph"
  BY <1>1, CodeIs
<1> QED BY <1>1, <1>4, <1>8, <1>10, <1>12, <1>13, <1>14, <1>15, <1>16, <1>17, PushKeeps DEF n

\* A task runs: a function, or a module that goes on.
LEMMA RunTaskKeeps == ASSUME IInv, RunTask PROVE IInv'
<1> DEFINE t == Head(tasks)
<1>1. /\ stack # << >> /\ Top.kind = "drain" /\ tasks # << >> /\ tasks' = Tail(tasks)
      /\ IF t.kind = "code"
         THEN stack' = On(stack, Frame("code", t.id, <<>>)) /\ evals' = evals
         ELSE /\ stack' = On(stack, Frame("resumed", t.id, <<>>))
              /\ evals' = [evals EXCEPT ![t.id].state = "running"]
      /\ UNCHANGED <<graph, modules, pending, queued, calls>>
  BY DEF RunTask, IsTop
<1>2. /\ stack \in Seq(FrameT) /\ evals \in Seq(EvalT) /\ Len(evals) \in Nat /\ Based(stack)
      /\ tasks \in Seq(TaskT) /\ TasksFit(tasks, evals) /\ Imported(modules, evals, graph)
      /\ graph \in Graphs /\ FramesFit(stack, evals)
      /\ queued' \in 0..MaxTasks /\ calls' \in 0..MaxCalls
  BY <1>1 DEF IInv, Typed
<1>3. /\ t \in TaskT /\ TaskFits(t, evals) /\ tasks' \in Seq(TaskT) /\ TasksFit(tasks', evals)
      /\ t.kind = "module" => \A i \in 1..Len(tasks') : tasks'[i].kind = "module" => tasks'[i].id # t.id
  BY <1>1, <1>2, TaskTaken
<1> HIDE DEF t
<1>4. << >> \in Seq(Module) /\ Started(stack, evals)
  BY <1>1 DEF Started
<1>5. CASE t.kind = "code"
  <2> DEFINE f == Frame("code", t.id, <<>>)
  <2>1. f \in FrameT /\ f.kind # "graph" /\ ~Runs(f) /\ FrameFits(f, evals')
    BY <1>3, <1>4, <1>5 DEF Frame, FrameT, Kinds, Runs, FrameFits, TaskFits, TaskT
  <2>2. stack' = On(stack, f) /\ evals' = evals
    BY <1>1, <1>5
  <2> HIDE DEF f
  <2>3. OneMore(stack, stack', f)
    BY <1>2, <2>1, <2>2, PushedOn
  <2>4. /\ stack' \in Seq(FrameT) /\ Same(stack, stack', Len(stack)) /\ OffGraph(stack', Len(stack))
        /\ AboveFit(stack', Len(stack), evals') /\ Based(stack') /\ stack' # << >>
    BY <1>1, <1>2, <2>1, <2>3, OneOn DEF OneMore
  <2>5. StillRun(stack, Len(stack), evals') /\ Grows(evals, evals', Eager)
    BY <1>2, <2>2, AllRun, SameGrows
  <2> QED BY <1>1, <1>2, <1>3, <1>4, <2>2, <2>4, <2>5, PushKeeps
<1>6. CASE t.kind = "module"
  <2> DEFINE e == t.id
             f == Frame("resumed", e, <<>>)
             x == [evals[e] EXCEPT !.state = "running"]
  <2>1. e \in 1..Len(evals) /\ evals[e].state = "queued"
    BY <1>3, <1>6 DEF TaskFits
  <2>2. x \in EvalT /\ x.mod = evals[e].mod /\ x.state = "running"
    <3>1. evals[e] \in EvalT
      BY <1>2, <2>1, EvalIs
    <3> QED BY <3>1 DEF EvalT, States
  <2>3. stack' = On(stack, f) /\ evals' = [evals EXCEPT ![e] = x]
    BY <1>1, <1>6
  <2>4. f \in FrameT /\ f.kind = "resumed" /\ f.kind # "graph" /\ f.id = e
    BY <1>2, <1>4, <2>1, EvalIs DEF Frame, FrameT, Kinds
  <2> HIDE DEF e, f, x
  <2>5. Alters(evals, evals', e) /\ evals'[e].state = "running" /\ Grows(evals, evals', Eager)
    BY <1>2, <2>1, <2>2, <2>3, StateSet DEF Final
  <2>6. /\ evals' \in Seq(EvalT) /\ Len(evals') = Len(evals) /\ Len(evals') >= Len(evals)
        /\ \A d \in 1..Len(evals) : (d # e => evals'[d] = evals[d]) /\ evals'[d].mod = evals[d].mod
    BY <1>2, <2>5 DEF Alters
  <2>7. FrameFits(f, evals')
    BY <2>1, <2>4, <2>5, <2>6 DEF FrameFits
  <2>8. \A i \in 1..Len(stack) : Runs(stack[i]) =>
          stack[i].id \in 1..Len(evals) /\ evals[stack[i].id].state = "running" /\ stack[i].id # e
    BY <1>2, <2>1 DEF FramesFit, FrameFits
  <2>9. StillRun(stack, Len(stack), evals')
    BY <2>6, <2>8 DEF StillRun
  <2>10. OneMore(stack, stack', f)
    BY <1>2, <2>3, <2>4, PushedOn
  <2>11. /\ stack' \in Seq(FrameT) /\ Same(stack, stack', Len(stack)) /\ OffGraph(stack', Len(stack))
         /\ AboveFit(stack', Len(stack), evals') /\ Based(stack') /\ stack' # << >>
    BY <1>1, <1>2, <2>4, <2>7, <2>8, <2>10, OneOn DEF OneMore
  <2>12. TasksFit(tasks', evals')
    <3>1. \A i \in 1..Len(tasks') : tasks'[i].kind = "module" =>
            tasks'[i].id # e /\ tasks'[i].id \in 1..Len(evals) /\ evals[tasks'[i].id].state = "queued"
      BY <1>3, <1>6 DEF TasksFit, TaskFits, e
    <3>2. \A i \in 1..Len(tasks') : tasks'[i].kind = "module" => evals'[tasks'[i].id].state = "queued"
      BY <2>6, <3>1
    <3> QED BY <1>2, <1>3, <2>6, <3>2, TasksFitStays
  <2>13. Imported(modules, evals', graph)
    <3>1. \A d \in 1..Len(evals') : ~(d > Len(evals))
      BY <1>2, <2>6
    <3>2. Kept(modules, modules)
      BY DEF Kept
    <3> QED BY <1>2, <2>6, <3>1, <3>2, ImportedStays
  <2> QED BY <1>1, <1>2, <1>3, <1>4, <2>5, <2>6, <2>9, <2>11, <2>12, <2>13, PushKeeps
<1> QED BY <1>3, <1>5, <1>6 DEF TaskT

-----------------------------------------------------------------------------
(* An evaluation begins.                                                   *)

\* One more evaluation, of a module whose imports are recorded.
LEMMA Begun ==
    ASSUME IInv, NEW m \in Module, BindImports(m),
           evals' = Append(evals, [mod |-> m, state |-> "running", awaits |-> 0]),
           NEW f, f = Frame("body", Len(evals) + 1, <<>>)
    PROVE  /\ evals' \in Seq(EvalT) /\ Len(evals) \in Nat /\ Len(evals') = Len(evals) + 1
           /\ evals'[Len(evals) + 1].mod = m
           /\ \A e \in 1..Len(evals) : evals'[e] = evals[e]
           /\ \A e \in 1..Len(evals') : e > Len(evals) => e = Len(evals) + 1
           /\ m \notin ToSet(Eager) => Grows(evals, evals', Eager)
           /\ Imported(modules, evals', graph) /\ TasksFit(tasks, evals')
           /\ Exported(modules, evals') /\ modules \in [Module -> {0} \cup 1..Len(evals')]
           /\ StillRun(stack, Len(stack), evals')
           /\ f \in FrameT /\ f.kind = "body" /\ f.id = Len(evals) + 1 /\ FrameFits(f, evals')
           /\ \A i \in 1..Len(stack) : Runs(stack[i]) => stack[i].id # f.id
<1> DEFINE x == [mod |-> m, state |-> "running", awaits |-> 0]
           n == Len(evals)
<1>1. x \in EvalT /\ x.mod = m /\ x.state = "running"
  <2>1. 0 \in 0..MaxAwaits
    BY GraphBounds
  <2> QED BY <2>1 DEF EvalT, States
<1>2. /\ evals \in Seq(EvalT) /\ graph \in Graphs /\ tasks \in Seq(TaskT) /\ stack \in Seq(FrameT)
      /\ modules \in [Module -> {0} \cup 1..Len(evals)] /\ evals' = Append(evals, x)
  BY DEF IInv, Typed
<1> HIDE DEF x
<1>3. /\ evals' \in Seq(EvalT) /\ Len(evals') = n + 1 /\ evals'[n + 1] = x /\ n \in Nat
      /\ \A e \in 1..n : evals'[e] = evals[e]
      /\ \A e \in 1..Len(evals') : e > n => e = n + 1
  BY <1>1, <1>2, EvalBegun
<1>4. n = Len(evals)
  OBVIOUS
<1> HIDE DEF n
<1>5. Len(evals') >= Len(evals) /\ n + 1 \in 1..Len(evals') /\ n + 1 \notin 1..n /\ n + 1 \in Nat
  BY <1>3, <1>4
<1>6. m \notin ToSet(Eager) => Grows(evals, evals', Eager)
  BY <1>1, <1>3, <1>4, <1>5 DEF Grows
<1>7. Imported(modules, evals', graph)
  <2>1. \A d \in ToSet(graph.static[m]) : modules[d] # 0
    BY DEF BindImports, Recorded
  <2>2. \A e \in 1..Len(evals') : e > Len(evals) => \A d \in ToSet(graph.static[evals'[e].mod]) : modules[d] # 0
    BY <1>1, <1>3, <1>4, <2>1
  <2>3. Kept(modules, modules) /\ \A e \in 1..Len(evals) : evals'[e].mod = evals[e].mod
    BY <1>3, <1>4 DEF Kept
  <2>4. Imported(modules, evals, graph)
    BY DEF IInv
  <2> QED BY <1>2, <1>3, <1>5, <2>2, <2>3, <2>4, ImportedStays
<1>8. TasksFit(tasks, evals')
  <2>1. \A i \in 1..Len(tasks) : tasks[i].kind = "module" => evals'[tasks[i].id].state = "queued"
    BY <1>3, <1>4 DEF IInv, TasksFit, TaskFits
  <2>2. TasksFit(tasks, evals)
    BY DEF IInv
  <2> QED BY <1>2, <1>3, <1>5, <2>1, <2>2, TasksFitStays
<1>9. Exported(modules, evals') /\ modules \in [Module -> {0} \cup 1..Len(evals')]
  <2>1. Grows(evals, evals', << >>)
    BY <1>3, <1>4, <1>5 DEF Grows, ToSet
  <2> QED BY <1>2, <1>3, <2>1, ExportedStays DEF IInv
<1>10. \A i \in 1..Len(stack) : Runs(stack[i]) =>
         stack[i].id \in 1..n /\ evals[stack[i].id].state = "running" /\ stack[i].id # n + 1
  BY <1>4, <1>5 DEF IInv, FramesFit, FrameFits
<1>11. StillRun(stack, Len(stack), evals')
  BY <1>3, <1>10 DEF StillRun
<1>12. f \in FrameT /\ f.kind = "body" /\ f.id = n + 1
  <2>1. << >> \in Seq(Module)
    OBVIOUS
  <2> QED BY <1>4, <1>5, <2>1 DEF Frame, FrameT, Kinds
<1>13. FrameFits(f, evals')
  BY <1>1, <1>3, <1>5, <1>12 DEF FrameFits
<1> QED BY <1>1, <1>3, <1>4, <1>6, <1>7, <1>8, <1>9, <1>10, <1>11, <1>12, <1>13

\* An import() evaluates a module that the startup order does not.
LEMMA ImportKeeps == ASSUME IInv, NEW t \in Module, Import(t) PROVE IInv'
<1> DEFINE f == Frame("body", Len(evals) + 1, <<>>)
<1>1. /\ Code /\ t \in Lazy /\ BindImports(t)
      /\ evals' = Append(evals, [mod |-> t, state |-> "running", awaits |-> 0])
      /\ stack' = On(stack, f)
      /\ UNCHANGED <<graph, modules, pending, tasks, queued, calls>>
  BY DEF Import, Evaluate
<1>2. t \notin ToSet(Eager)
  BY <1>1 DEF Lazy
<1>3. f = Frame("body", Len(evals) + 1, <<>>)
  OBVIOUS
<1> HIDE DEF f
<1>4. /\ evals' \in Seq(EvalT) /\ Grows(evals, evals', Eager)
      /\ Imported(modules, evals', graph) /\ TasksFit(tasks, evals')
      /\ StillRun(stack, Len(stack), evals')
      /\ f \in FrameT /\ f.kind # "graph" /\ FrameFits(f, evals')
      /\ \A i \in 1..Len(stack) : Runs(stack[i]) => stack[i].id # f.id
  BY <1>1, <1>2, <1>3, Begun
<1>5. /\ stack # << >> /\ Top.kind # "graph" /\ Started(stack, evals) /\ Based(stack) /\ stack \in Seq(FrameT)
  BY <1>1, CodeIs
<1>6. OneMore(stack, stack', f)
  BY <1>1, <1>4, <1>5, PushedOn
<1>7. /\ stack' \in Seq(FrameT) /\ Same(stack, stack', Len(stack)) /\ OffGraph(stack', Len(stack))
      /\ AboveFit(stack', Len(stack), evals') /\ Based(stack') /\ stack' # << >>
  BY <1>4, <1>5, <1>6, OneOn DEF OneMore
<1>8. tasks' \in Seq(TaskT) /\ TasksFit(tasks', evals') /\ queued' \in 0..MaxTasks /\ calls' \in 0..MaxCalls
  BY <1>1, <1>4 DEF IInv, Typed
<1> QED BY <1>1, <1>4, <1>5, <1>7, <1>8, PushKeeps

-----------------------------------------------------------------------------
(* The graph's own steps.                                                  *)

\* What is left of a stack when frames are taken off.
IsBelow(st2, st) == st2 \in Seq(FrameT) /\ Same(st, st2, Len(st2))

\* It fits the evaluations, as the whole did.
LEMMA BelowFits ==
    ASSUME IInv, NEW st2, IsBelow(st2, stack)
    PROVE  /\ FramesFit(st2, evals) /\ Based(st2)
           /\ \A i \in 1..Len(st2) : i \in 1..Len(stack) /\ st2[i] = stack[i]
<1>1. /\ stack \in Seq(FrameT) /\ evals \in Seq(EvalT) /\ Len(evals) \in Nat /\ Len(evals) >= Len(evals)
      /\ FramesFit(stack, evals) /\ Based(stack)
  BY DEF IInv, Typed
<1>2. st2 \in Seq(FrameT) /\ Len(st2) \in Nat /\ Len(stack) \in Nat
  BY <1>1 DEF IsBelow
<1> DEFINE p == Len(st2)
<1>3. p \in Nat /\ p <= Len(stack) /\ Same(stack, st2, p) /\ \A i \in 1..p : st2[i] = stack[i]
  BY <1>2 DEF IsBelow, Same
<1>4. \A i \in 1..Len(st2) : ~(i > p)
  BY <1>2
<1> HIDE DEF p
<1>5. \A i \in 1..p : i \in 1..Len(stack)
  BY <1>2, <1>3
<1>6. StillRun(stack, p, evals)
  BY <1>1, <1>5 DEF StillRun, FramesFit, FrameFits
<1>7. AboveFit(st2, p, evals)
  BY <1>4 DEF AboveFit
<1>8. FramesFit(st2, evals)
  BY <1>1, <1>2, <1>3, <1>6, <1>7, FramesFitStays
<1>9. Based(st2)
  <2>1. ASSUME st2 # << >> PROVE 1 \in 1..p /\ stack # << >>
    BY <1>1, <1>2, <1>3, <2>1 DEF p
  <2> QED BY <1>1, <1>3, <2>1 DEF Based
<1> QED BY <1>3, <1>5, <1>8, <1>9 DEF p

\* Below(1), Below(2) and what an error leaves are.
LEMMA BelowsAre ==
    ASSUME IInv
    PROVE  /\ Depth >= 1 => IsBelow(Below(1), stack) /\ Len(Below(1)) = Depth - 1
           /\ Depth >= 2 => /\ IsBelow(Below(2), stack) /\ Len(Below(2)) = Depth - 2
                            /\ IsBelow(Leaving(Below(2)), stack) /\ Len(Leaving(Below(2))) <= Depth - 2
<1>1. stack \in Seq(FrameT) /\ Len(stack) \in Nat /\ Depth = Len(stack)
  BY DEF IInv, Typed, Depth
<1>2. ASSUME NEW n \in {1, 2}, Depth >= n
      PROVE  /\ IsBelow(Below(n), stack) /\ Len(Below(n)) = Depth - n
  <2>1. n \in 0..Len(stack)
    BY <1>1, <1>2
  <2>2. /\ Below(n) \in Seq(FrameT) /\ Len(Below(n)) = Depth - n
        /\ \A i \in 1..(Depth - n) : Below(n)[i] = stack[i]
    BY <1>1, <2>1, Popped DEF Below
  <2>3. Depth - n <= Len(stack)
    BY <1>1, <1>2
  <2> QED BY <2>2, <2>3 DEF IsBelow, Same
<1>3. ASSUME Depth >= 2
      PROVE  IsBelow(Leaving(Below(2)), stack) /\ Len(Leaving(Below(2))) <= Depth - 2
  <2> DEFINE s == Below(2)
             d == Depth - 2
  <2>1. s \in Seq(FrameT) /\ Len(s) = d /\ Same(stack, s, d) /\ d \in Nat
    BY <1>1, <1>2, <1>3 DEF IsBelow
  <2>2. d <= Len(stack)
    BY <1>1
  <2> HIDE DEF s, d
  <2>3. CASE Leaving(s) = s
    BY <2>1, <2>3 DEF IsBelow, d, s
  <2>4. CASE s # << >> /\ Leaving(s) = SubSeq(s, 1, Len(s) - 1)
    <3>1. 1 \in 0..Len(s) /\ d - 1 \in Nat /\ d - 1 <= d
      BY <2>1, <2>4
    <3>2. /\ Leaving(s) \in Seq(FrameT) /\ Len(Leaving(s)) = d - 1
          /\ \A i \in 1..(d - 1) : Leaving(s)[i] = s[i]
      BY <2>1, <2>4, <3>1, Popped
    <3>3. \A i \in 1..(d - 1) : i \in 1..d
      BY <2>1
    <3>4. Same(stack, Leaving(s), d - 1)
      BY <1>1, <2>1, <2>2, <3>1, <3>2, <3>3 DEF Same
    <3> QED BY <3>1, <3>2, <3>4 DEF IsBelow, s, d
  <2> QED BY <2>3, <2>4 DEF Leaving, s
<1> QED BY <1>2, <1>3

\* The graph's frame, when it is innermost: nothing waits, and no other is there.
LEMMA GraphOnTop ==
    ASSUME IInv, IsTop({"graph"})
    PROVE  /\ stack # << >> /\ Top.kind = "graph" /\ Started(stack, evals) /\ pending.eval = 0
           /\ \A i \in 1..Len(stack) : stack[i].kind = "graph" => i = Depth
           /\ \E k \in 0..Len(Eager) :
                /\ At(Eager, k, modules, evals) /\ IsRest(Top.rest, Eager, k)
                /\ \A j \in 1..Len(Eager) : j <= k => modules[Eager[j]] # 0
<1>1. stack # << >> /\ Top.kind = "graph"
  BY DEF IsTop
<1>2. Depth = Len(stack) /\ Depth \in 1..Len(stack) /\ Top = stack[Depth]
  BY <1>1, TopIs
<1>3. \A i \in 1..Len(stack) : stack[i].kind = "graph" => i = Depth
  BY <1>1, <1>2 DEF IInv, Framed
<1>4. PICK k \in 0..Len(Eager) : GraphFrame(stack, Depth, k, Eager, modules, evals)
  BY <1>1, <1>2 DEF IInv, Framed
<1>5. pending.eval = 0
  BY <1>1, <1>2 DEF IInv, Waits, Graphless
<1>6. \A j \in 1..Len(Eager) : j <= k => modules[Eager[j]] # 0
  BY <1>2, <1>4 DEF GraphFrame
<1> QED BY <1>1, <1>2, <1>3, <1>4, <1>5, <1>6 DEF GraphFrame, Started

\* A stack below the graph's frame has none.
LEMMA BelowGraphless ==
    ASSUME IInv, NEW d \in 1..Len(stack), stack[d].kind = "graph", NEW st2, IsBelow(st2, stack), Len(st2) < d
    PROVE  Graphless(st2)
<1>1. \A i \in 1..Len(stack) : stack[i].kind = "graph" => i = d
  BY DEF IInv, Framed
<1>2. \A i \in 1..Len(st2) : i \in 1..Len(stack) /\ st2[i] = stack[i]
  BY BelowFits
<1>3. Len(st2) \in Nat /\ d \in Nat
  <2>1. st2 \in Seq(FrameT)
    BY DEF IsBelow
  <2> QED BY <2>1
<1>4. \A i \in 1..Len(st2) : i # d
  BY <1>3
<1> QED BY <1>1, <1>2, <1>4 DEF Graphless

\* A stack without the graph's frame, when the graph is done or has failed, or
\* waits.
LEMMA LeftGraph ==
    ASSUME IInv, Started(stack, evals), UNCHANGED <<graph, evals, tasks, queued, calls>>,
           modules' = modules,
           IsBelow(stack', stack), Graphless(stack'),
           pending' \in [eval : {0} \cup 1..Len(evals), rest : Seq(Module)],
           Waits(pending', stack', Eager, modules, evals), Over(pending', stack', Eager, modules, evals)
    PROVE  IInv'
<1>1. FramesFit(stack', evals) /\ Based(stack')
  BY BelowFits
<1>2. Framed(stack', Eager, modules, evals)
  BY DEF Graphless, Framed
<1>3. IsOrderOf(Eager, Entry, graph.static)
  BY StartedOrder
<1>4. Typed'
  BY DEF IInv, Typed, IsBelow
<1>5. /\ FramesFit(stack', evals') /\ TasksFit(tasks', evals') /\ Exported(modules', evals')
      /\ Imported(modules', evals', graph) /\ InTurn(Eager, modules', evals')
  BY <1>1 DEF IInv
<1>6. /\ Framed(stack', Eager, modules', evals')
      /\ Waits(pending', stack', Eager, modules', evals') /\ Over(pending', stack', Eager, modules', evals')
  BY <1>2
<1> QED BY <1>1, <1>3, <1>4, <1>5, <1>6, Assembled

\* Nothing is left to run: every module of the order is recorded.
LEMMA GraphOverKeeps == ASSUME IInv, GraphOver PROVE IInv'
<1>1. /\ IsTop({"graph"}) /\ Top.rest = <<>> /\ stack' = Below(1)
      /\ UNCHANGED <<graph, modules, evals, pending, tasks, queued, calls>>
  BY DEF GraphOver
<1>2. /\ stack # << >> /\ Top.kind = "graph" /\ Started(stack, evals) /\ pending.eval = 0
      /\ \E k \in 0..Len(Eager) :
           /\ At(Eager, k, modules, evals) /\ IsRest(Top.rest, Eager, k)
           /\ \A j \in 1..Len(Eager) : j <= k => modules[Eager[j]] # 0
  BY <1>1, GraphOnTop
<1>3. Completed(Eager, modules, evals)
  <2>1. PICK k \in 0..Len(Eager) :
           /\ IsRest(Top.rest, Eager, k) /\ \A j \in 1..Len(Eager) : j <= k => modules[Eager[j]] # 0
    BY <1>2
  <2>2. Eager \in Seq(Module)
    BY <1>2, StartedOrder
  <2>3. k = Len(Eager)
    BY <1>1, <2>1, <2>2 DEF IsRest
  <2>4. \A j \in 1..Len(Eager) : j <= k
    BY <2>2, <2>3
  <2> QED BY <2>1, <2>4 DEF Completed
<1>4. Depth \in 1..Len(stack) /\ Top = stack[Depth] /\ Depth >= 1 /\ Depth - 1 < Depth
  BY <1>2, TopIs
<1>5. IsBelow(stack', stack) /\ Graphless(stack')
  BY <1>1, <1>2, <1>4, BelowsAre, BelowGraphless
<1>6. pending' \in [eval : {0} \cup 1..Len(evals), rest : Seq(Module)]
  BY <1>1 DEF IInv, Typed
<1>7. Waits(pending', stack', Eager, modules, evals) /\ Over(pending', stack', Eager, modules, evals)
  BY <1>1, <1>2, <1>3 DEF Waits, Over
<1> QED BY <1>1, <1>2, <1>5, <1>6, <1>7, LeftGraph

\* The graph begins, in the order found.
LEMMA RunGraphKeeps == ASSUME IInv, OrderExact, RunGraph PROVE IInv'
<1> DEFINE f == Frame("graph", 0, Eager)
           o == Eager
<1>1. /\ stack = <<>> /\ evals = <<>> /\ TopoOrder(Entry, graph.static).ok
      /\ stack' = <<f>> /\ UNCHANGED <<graph, modules, evals, pending, tasks, queued, calls>>
  BY DEF RunGraph
<1>2. IsOrderOf(o, Entry, graph.static)
  BY <1>1 DEF OrderExact, Eager
<1>3. o \in Seq(Module) /\ Len(o) \in Nat
  BY <1>2 DEF IsOrderOf
<1>4. f \in FrameT /\ f.kind = "graph" /\ f.id = 0 /\ f.rest = o /\ ~Runs(f) /\ FrameFits(f, evals) /\ Bottom(f)
  BY <1>3 DEF Frame, FrameT, Kinds, Runs, FrameFits, Bottom
<1> HIDE DEF f
<1>5. stack' \in Seq(FrameT) /\ Len(stack') = 1 /\ stack'[1] = f /\ 1..1 = {1} /\ stack' # << >>
  BY <1>1, <1>4
<1>6. Len(evals) = 0 /\ 1..0 = {}
  BY <1>1
<1>7. pending.eval = 0
  BY <1>6 DEF IInv, Typed
<1>8. FramesFit(stack', evals')
  BY <1>1, <1>4, <1>5 DEF FramesFit
<1>9. Typed'
  BY <1>1, <1>5 DEF IInv, Typed
<1>10. GraphFrame(stack', 1, 0, o, modules, evals)
  <2>1. \A j \in 1..Len(o) : ~(j < 0) /\ ~(j <= 0)
    BY <1>3
  <2>2. At(o, 0, modules, evals)
    BY <1>6, <2>1 DEF At
  <2>3. IsRest(o, o, 0)
    <3>1. Len(o) = Len(o) - 0 /\ \A j \in 1..Len(o) : 0 + j = j
      BY <1>3
    <3> QED BY <3>1 DEF IsRest
  <2> QED BY <1>4, <1>5, <2>1, <2>2, <2>3 DEF GraphFrame
<1>11. Framed(stack', o, modules, evals)
  <2>1. 0 \in 0..Len(o)
    BY <1>3
  <2> QED BY <1>5, <1>10, <2>1 DEF Framed
<1>12. Based(stack')
  BY <1>4, <1>5 DEF Based
<1>13. Waits(pending', stack', o, modules, evals)
  BY <1>1, <1>7 DEF Waits
<1>14. Over(pending', stack', o, modules, evals)
  <2>1. ~Graphless(stack')
    BY <1>4, <1>5 DEF Graphless
  <2> QED BY <2>1 DEF Over
<1>15. /\ TasksFit(tasks', evals') /\ Exported(modules', evals') /\ Imported(modules', evals', graph)
       /\ InTurn(o, modules', evals')
  BY <1>1 DEF IInv
<1>16. /\ Framed(stack', o, modules', evals') /\ Waits(pending', stack', o, modules', evals')
       /\ Over(pending', stack', o, modules', evals') /\ graph' = graph
  BY <1>1, <1>11, <1>13, <1>14
<1> QED BY <1>2, <1>8, <1>9, <1>12, <1>15, <1>16, Assembled

\* The next module of the graph: all it imports is recorded, so that its body
\* begins, and it has not run before.
LEMMA NextIs ==
    ASSUME IInv, IsTop({"graph"}), Top.rest # <<>>
    PROVE  \E k \in 0..Len(Eager) :
             /\ At(Eager, k, modules, evals) /\ IsRest(Tail(Top.rest), Eager, k + 1)
             /\ \A j \in 1..Len(Eager) : j <= k => modules[Eager[j]] # 0
             /\ k + 1 \in 1..Len(Eager) /\ Head(Top.rest) = Eager[k + 1] /\ BindImports(Eager[k + 1])
             /\ Tail(Top.rest) \in Seq(Module)
<1> DEFINE o == Eager
           r == Top.rest
<1>1. /\ stack # << >> /\ Started(stack, evals)
      /\ \E k \in 0..Len(o) :
           /\ At(o, k, modules, evals) /\ IsRest(r, o, k)
           /\ \A j \in 1..Len(o) : j <= k => modules[o[j]] # 0
  BY GraphOnTop
<1>2. IsOrderOf(o, Entry, graph.static) /\ o \in Seq(Module) /\ graph \in Graphs
  BY <1>1, StartedOrder
<1>3. r \in Seq(Module)
  <2>1. Top \in FrameT
    BY <1>1, TopIs
  <2> QED BY <2>1 DEF FrameT
<1>4. PICK k \in 0..Len(o) :
        /\ At(o, k, modules, evals) /\ IsRest(r, o, k)
        /\ \A j \in 1..Len(o) : j <= k => modules[o[j]] # 0
  BY <1>1
<1>5. r # << >>
  OBVIOUS
<1> HIDE DEF o, r
<1>6. Len(r) \in Nat /\ 1 \in 1..Len(r) /\ Head(r) = r[1] /\ Tail(r) \in Seq(Module) /\ Len(o) \in Nat
  BY <1>2, <1>3, <1>5
<1>7. Len(r) = Len(o) - k /\ k \in Nat /\ \A j \in 1..Len(r) : r[j] = o[k + j]
  BY <1>4, <1>6 DEF IsRest
<1>8. k + 1 \in 1..Len(o) /\ Head(r) = o[k + 1]
  BY <1>6, <1>7
<1>9. IsRest(Tail(r), o, k + 1)
  <2> DEFINE t == Tail(r)
             n == Len(r)
  <2>1. Len(t) = n - 1 /\ \A j \in 1..Len(t) : t[j] = r[j + 1]
    BY <1>3, <1>5
  <2>2. n \in Nat /\ n = Len(o) - k /\ n >= 1
    BY <1>6, <1>7
  <2> HIDE DEF t, n
  <2>3. Len(t) = Len(o) - (k + 1)
    BY <1>6, <1>7, <2>1, <2>2
  <2>4. \A j \in 1..Len(t) : j + 1 \in 1..n /\ k + (j + 1) = (k + 1) + j
    BY <1>7, <2>1, <2>2
  <2>5. \A j \in 1..Len(t) : t[j] = o[(k + 1) + j]
    BY <1>7, <2>1, <2>4 DEF n
  <2> QED BY <2>3, <2>5 DEF IsRest, t
<1>10. BindImports(o[k + 1])
  <2> SUFFICES ASSUME NEW d \in ToSet(graph.static[o[k + 1]]) PROVE Recorded(d)
    BY DEF BindImports
  <2>1. PICK j \in 1..Len(o) : d = o[j] /\ j < k + 1
    BY <1>2, <1>8, OrderFacts
  <2>2. j <= k
    BY <1>7, <2>1
  <2> QED BY <1>4, <2>1, <2>2 DEF Recorded
<1> QED BY <1>4, <1>6, <1>8, <1>9, <1>10 DEF o, r

\* Its body begins on top of the graph, which is then one place further.
LEMMA NextModuleKeeps == ASSUME IInv, NextModule PROVE IInv'
<1> DEFINE o == Eager
           n == Len(evals)
<1>1. IsTop({"graph"}) /\ Top.rest # <<>> /\ UNCHANGED <<graph, modules, pending, tasks, queued, calls>>
  BY DEF NextModule
<1>2. /\ stack # << >> /\ Top.kind = "graph" /\ Started(stack, evals) /\ pending.eval = 0
      /\ \A i \in 1..Len(stack) : stack[i].kind = "graph" => i = Depth
  BY <1>1, GraphOnTop
<1>3. IsOrderOf(o, Entry, graph.static) /\ o \in Seq(Module) /\ graph \in Graphs
  BY <1>2, StartedOrder
<1>4. PICK k \in 0..Len(o) :
        /\ At(o, k, modules, evals) /\ IsRest(Tail(Top.rest), o, k + 1)
        /\ \A j \in 1..Len(o) : j <= k => modules[o[j]] # 0
        /\ k + 1 \in 1..Len(o) /\ Head(Top.rest) = o[k + 1] /\ BindImports(o[k + 1])
        /\ Tail(Top.rest) \in Seq(Module)
  BY <1>1, NextIs
<1> DEFINE m == o[k + 1]
           g == Frame("graph", 0, Tail(Top.rest))
           f == Frame("body", n + 1, <<>>)
           b == Below(1)
           c == On(b, g)
<1>5. m \in Module
  BY <1>3, <1>4
<1>6. evals' = Append(evals, [mod |-> m, state |-> "running", awaits |-> 0]) /\ stack' = On(c, f)
  BY <1>1, <1>4 DEF NextModule, Evaluate
<1>7. g \in FrameT /\ g.kind = "graph" /\ g.id = 0 /\ g.rest = Tail(Top.rest) /\ ~Runs(g) /\ FrameFits(g, evals') /\ Bottom(g)
  BY <1>4 DEF Frame, FrameT, Kinds, Runs, FrameFits, Bottom
<1>8. f = Frame("body", Len(evals) + 1, <<>>)
  OBVIOUS
<1> HIDE DEF o, m, g, f
<1>9. /\ evals' \in Seq(EvalT) /\ n \in Nat /\ Len(evals') = n + 1 /\ evals'[n + 1].mod = m
      /\ \A e \in 1..n : evals'[e] = evals[e]
      /\ \A e \in 1..Len(evals') : e > n => e = n + 1
      /\ Imported(modules, evals', graph) /\ TasksFit(tasks, evals')
      /\ Exported(modules, evals') /\ modules \in [Module -> {0} \cup 1..Len(evals')]
      /\ StillRun(stack, Len(stack), evals')
      /\ f \in FrameT /\ f.kind = "body" /\ f.id = n + 1 /\ FrameFits(f, evals')
      /\ \A i \in 1..Len(stack) : Runs(stack[i]) => stack[i].id # f.id
  <2>1. BindImports(m)
    BY <1>4 DEF m
  <2> QED BY <1>5, <1>6, <1>8, <2>1, Begun
<1> HIDE DEF n
<1> DEFINE p == Depth - 1
<1>10. /\ p \in Nat /\ Depth \in 1..Len(stack) /\ Depth = Len(stack)
       /\ b \in Seq(FrameT) /\ Len(b) = p /\ Same(stack, b, p)
  BY <1>2, TopIs
<1>11. stack \in Seq(FrameT) /\ evals \in Seq(EvalT) /\ Len(stack) \in Nat
  BY DEF IInv, Typed
<1>12. p + 1 = Depth /\ p < Depth /\ \A i \in 1..p : i \in 1..Len(stack) /\ i # Depth
  BY <1>10, <1>11
<1> HIDE DEF b, p
<1>13. OneMore(b, c, g)
  BY <1>7, <1>10, PushedOn
<1>14. c \in Seq(FrameT)
  BY <1>13 DEF OneMore
<1> HIDE DEF c
<1>15. OneMore(c, stack', f)
  BY <1>6, <1>9, <1>14, PushedOn
<1>16. /\ stack' \in Seq(FrameT) /\ Len(stack') = p + 2 /\ stack' # << >>
       /\ stack'[p + 1] = g /\ stack'[p + 2] = f /\ \A i \in 1..p : stack'[i] = stack[i]
  <2>1. Len(c) = p + 1 /\ c[p + 1] = g /\ \A i \in 1..p : c[i] = b[i]
    BY <1>10, <1>13 DEF OneMore
  <2>2. /\ stack' \in Seq(FrameT) /\ Len(stack') = (p + 1) + 1 /\ stack'[(p + 1) + 1] = f /\ stack' # << >>
        /\ \A i \in 1..(p + 1) : stack'[i] = c[i]
    BY <2>1, <1>15 DEF OneMore
  <2>3. (p + 1) + 1 = p + 2 /\ p + 1 \in 1..(p + 1) /\ \A i \in 1..p : i \in 1..(p + 1)
    BY <1>10
  <2>4. \A i \in 1..p : b[i] = stack[i]
    BY <1>10 DEF Same
  <2> QED BY <2>1, <2>2, <2>3, <2>4
<1>17. \A i \in 1..(p + 2) : i \in 1..p \/ i = p + 1 \/ i = p + 2
  BY <1>10
<1>18. Same(stack, stack', p)
  BY <1>10, <1>11, <1>12, <1>16 DEF Same
<1>19. \A i \in 1..Len(stack') : i > p => stack'[i] = g \/ (i = p + 2 /\ stack'[i] = f)
  BY <1>10, <1>16, <1>17
<1>20. FramesFit(stack', evals')
  <2>1. StillRun(stack, p, evals')
    BY <1>9, <1>10, <1>12 DEF StillRun
  <2>2. \A i \in 1..Len(stack') : i > p => FrameFits(stack'[i], evals')
    BY <1>7, <1>9, <1>19
  <2>3. ASSUME NEW i \in 1..Len(stack'), NEW j \in 1..Len(stack'), i > p,
               Runs(stack'[i]), Runs(stack'[j]), stack'[i].id = stack'[j].id
        PROVE  i = j
    <3>1. i = p + 2 /\ stack'[i] = f
      BY <1>7, <1>19, <2>3
    <3>2. j \in 1..p => Runs(stack[j]) /\ stack[j].id = f.id
      BY <1>16, <2>3, <3>1
    <3>3. j \notin 1..p
      BY <1>9, <1>12, <3>2
    <3>4. j # p + 1
      BY <1>7, <1>16, <2>3
    <3> QED BY <1>16, <1>17, <3>1, <3>3, <3>4
  <2>4. AboveFit(stack', p, evals')
    BY <2>2, <2>3 DEF AboveFit
  <2>5. Len(evals') >= Len(evals) /\ FramesFit(stack, evals)
    BY <1>9 DEF IInv, n
  <2> QED BY <1>9, <1>10, <1>11, <1>16, <1>18, <2>1, <2>4, <2>5, FramesFitStays
<1>21. Based(stack')
  <2>1. CASE p = 0
    BY <1>7, <1>16, <2>1 DEF Based
  <2>2. CASE p # 0
    BY <1>2, <1>10, <1>16, <1>18, <2>2, SameBased DEF IInv
  <2> QED BY <2>1, <2>2
<1>22. \A j \in 1..Len(o) : j < k + 1 => j <= k
  BY <1>4
<1>23. At(o, k + 1, modules, evals')
  <2>1. \A j \in 1..Len(o) : j < k + 1 => modules[o[j]] # 0
    BY <1>4, <1>22
  <2>2. ASSUME NEW j \in 1..Len(o), NEW e \in 1..Len(evals'), j > k + 1
        PROVE  evals'[e].mod # o[j]
    <3>1. CASE e \in 1..n
      <4>1. j > k
        BY <1>4, <2>2
      <4> QED BY <1>4, <1>9, <3>1, <4>1 DEF At, n
    <3>2. CASE e = n + 1
      <4>1. j # k + 1
        BY <1>4, <2>2
      <4>2. m # o[j]
        BY <1>3, <1>4, <4>1, OrderFacts DEF m
      <4> QED BY <1>9, <3>2, <4>2
    <3>3. e \in 1..n \/ e = n + 1
      BY <1>9
    <3> QED BY <3>1, <3>2, <3>3
  <2> QED BY <2>1, <2>2 DEF At
<1>24. InTurn(o, modules, evals')
  <2> SUFFICES ASSUME NEW e \in 1..Len(evals'), NEW i \in 1..Len(o), evals'[e].mod = o[i]
               PROVE  /\ \A j \in 1..Len(o) : j < i => modules[o[j]] # 0
                      /\ \A d \in 1..Len(evals') : evals'[d].mod = o[i] => d = e
    BY DEF InTurn
  <2>1. \A d \in 1..Len(evals') : d \in 1..n \/ d = n + 1
    BY <1>9
  <2>2. \A d \in 1..n : evals'[d].mod = evals[d].mod /\ d \in 1..Len(evals)
    BY <1>9 DEF n
  <2>3. \A d \in 1..n : evals[d].mod # m
    <3>1. k + 1 > k
      BY <1>4
    <3> QED BY <1>4, <3>1 DEF At, m, n
  <2>4. CASE e \in 1..n
    <3>1. evals[e].mod = o[i] /\ o[i] # m
      BY <2>2, <2>3, <2>4
    <3>2. /\ \A j \in 1..Len(o) : j < i => modules[o[j]] # 0
          /\ \A d \in 1..n : evals[d].mod = o[i] => d = e
      BY <2>2, <2>4, <3>1 DEF IInv, InTurn, o, n
    <3> QED BY <1>9, <2>1, <2>2, <3>1, <3>2
  <2>5. CASE e = n + 1
    <3>1. o[i] = m /\ i = k + 1
      BY <1>3, <1>4, <1>9, <2>5, OrderFacts DEF m
    <3> QED BY <1>4, <1>22, <2>1, <2>2, <2>3, <2>5, <3>1
  <2> QED BY <2>1, <2>4, <2>5
<1>25. Framed(stack', o, modules, evals')
  <2>1. \A i \in 1..Len(stack') : stack'[i].kind = "graph" => i = p + 1
    <3>1. \A i \in 1..p : stack'[i].kind # "graph"
      BY <1>2, <1>12, <1>16
    <3> QED BY <1>9, <1>16, <1>17, <3>1
  <2>2. GraphFrame(stack', p + 1, k + 1, o, modules, evals')
    <3>1. p + 1 < Len(stack') /\ (p + 1) + 1 = p + 2 /\ p + 1 # Len(stack')
      BY <1>10, <1>16
    <3>2. f.id \in 1..Len(evals') /\ evals'[f.id].mod = o[k + 1]
      BY <1>9 DEF m
    <3> QED BY <1>4, <1>7, <1>9, <1>16, <1>23, <3>1, <3>2 DEF GraphFrame
  <2>3. k + 1 \in 0..Len(o)
    BY <1>4
  <2> QED BY <2>1, <2>2, <2>3 DEF Framed
<1>26. Waits(pending', stack', o, modules, evals')
  BY <1>1, <1>2 DEF Waits
<1>27. Over(pending', stack', o, modules, evals')
  <2>1. p + 1 \in 1..Len(stack')
    BY <1>10, <1>16
  <2>2. ~Graphless(stack')
    BY <1>7, <1>16, <2>1 DEF Graphless
  <2> QED BY <2>2 DEF Over
<1>28. Typed'
  <2>1. pending' \in [eval : {0} \cup 1..Len(evals'), rest : Seq(Module)]
    <3>1. pending \in [eval : {0} \cup 1..Len(evals), rest : Seq(Module)]
      BY DEF IInv, Typed
    <3> QED BY <1>1, <1>2, <3>1
  <2> QED BY <1>1, <1>9, <1>16, <2>1 DEF IInv, Typed
<1>29. /\ modules' = modules /\ tasks' = tasks /\ graph' = graph
  BY <1>1
<1> QED BY <1>3, <1>9, <1>20, <1>21, <1>24, <1>25, <1>26, <1>27, <1>28, <1>29, Assembled DEF o

\* The drain of an evaluation is on top of what began the evaluation.
LEMMA DrainOf ==
    ASSUME IInv, NEW e \in Evals, IsTop({"drain"}), Top.id = e
    PROVE  /\ evals \in Seq(EvalT) /\ e \in 1..Len(evals) /\ Started(stack, evals)
           /\ stack # << >> /\ Top.kind = "drain"
           /\ Depth - 1 \in 1..Len(stack) /\ Depth \in Nat /\ Depth = Len(stack) /\ Depth >= 2 /\ Depth - 1 < Depth
<1>1. evals \in Seq(EvalT) /\ e \in 1..Len(evals) /\ stack # << >> /\ Top.kind = "drain"
  BY DEF IInv, Typed, Evals, IsTop
<1>2. e # 0 /\ ~Bottom(Top)
  BY <1>1 DEF Bottom
<1>3. Depth - 1 \in 1..Len(stack) /\ Depth \in Nat /\ Depth = Len(stack)
  BY <1>1, <1>2, TopIs
<1>4. Depth >= 2 /\ Depth - 1 < Depth
  BY <1>3
<1> QED BY <1>1, <1>3, <1>4 DEF Started

\* When that is the graph, the evaluation is of the module the graph is at.
LEMMA DrainOfGraph ==
    ASSUME IInv, NEW e \in Evals, IsTop({"drain"}), Top.id = e, stack[Depth - 1].kind = "graph"
    PROVE  /\ pending.eval = 0
           /\ \A i \in 1..Len(stack) : stack[i].kind = "graph" => i = Depth - 1
           /\ \E k \in 1..Len(Eager) :
                /\ At(Eager, k, modules, evals) /\ IsRest(stack[Depth - 1].rest, Eager, k)
                /\ evals[e].mod = Eager[k]
<1> DEFINE p == Depth - 1
<1>1. p \in 1..Len(stack) /\ p < Len(stack) /\ p + 1 = Depth
  BY DrainOf
<1>2. Top = stack[p + 1]
  BY <1>1 DEF Top
<1>3. stack[p].kind = "graph"
  OBVIOUS
<1> HIDE DEF p
<1>4. PICK k \in 0..Len(Eager) : GraphFrame(stack, p, k, Eager, modules, evals)
  BY <1>1, <1>3 DEF IInv, Framed
<1>5. /\ At(Eager, k, modules, evals) /\ IsRest(stack[p].rest, Eager, k)
      /\ k \in 1..Len(Eager) /\ evals[e].mod = Eager[k]
  BY <1>1, <1>2, <1>4 DEF GraphFrame
<1>6. pending.eval = 0
  BY <1>1, <1>3 DEF IInv, Waits, Graphless
<1>7. \A i \in 1..Len(stack) : stack[i].kind = "graph" => i = p
  BY <1>1, <1>3 DEF IInv, Framed
<1> QED BY <1>5, <1>6, <1>7 DEF p

\* Its exports are recorded, and the graph goes on.
LEMMA GraphDoneKeeps ==
    ASSUME IInv, NEW e \in Evals, IsTop({"drain"}), Top.id = e, stack[Depth - 1].kind = "graph",
           evals[e].state = "done", modules' = [modules EXCEPT ![evals[e].mod] = e], stack' = Below(1),
           UNCHANGED <<graph, evals, pending, tasks, queued, calls>>
    PROVE  IInv'
<1> DEFINE p == Depth - 1
           o == Eager
<1>1. /\ evals \in Seq(EvalT) /\ e \in 1..Len(evals) /\ Started(stack, evals) /\ stack # << >>
      /\ p \in 1..Len(stack) /\ p \in Nat /\ Depth >= 1
  <2>1. Depth - 1 \in Nat
    BY DrainOf
  <2> QED BY <2>1, DrainOf
<1>2. /\ pending.eval = 0 /\ stack[p].kind = "graph"
      /\ \A i \in 1..Len(stack) : stack[i].kind = "graph" => i = p
      /\ \E k \in 1..Len(o) : At(o, k, modules, evals) /\ IsRest(stack[p].rest, o, k) /\ evals[e].mod = o[k]
  BY DrainOfGraph
<1>3. PICK k \in 1..Len(o) : At(o, k, modules, evals) /\ IsRest(stack[p].rest, o, k) /\ evals[e].mod = o[k]
  BY <1>2
<1>4. IsOrderOf(o, Entry, graph.static) /\ o \in Seq(Module) /\ graph \in Graphs
  BY <1>1, StartedOrder
<1>5. /\ modules' \in [Module -> {0} \cup 1..Len(evals)] /\ Exported(modules', evals)
      /\ Kept(modules, modules') /\ modules'[o[k]] # 0
  <2>1. modules \in [Module -> {0} \cup 1..Len(evals)] /\ Exported(modules, evals)
    BY DEF IInv, Typed
  <2> QED BY <1>1, <1>3, <2>1, ExportedRecorded
<1>6. IsBelow(stack', stack) /\ Len(stack') = p
  BY <1>1, BelowsAre
<1>7. FramesFit(stack', evals) /\ Based(stack') /\ \A i \in 1..Len(stack') : i \in 1..Len(stack) /\ stack'[i] = stack[i]
  BY <1>6, BelowFits
<1>8. Len(evals) \in Nat /\ Grows(evals, evals, o) /\ stack' \in Seq(FrameT) /\ p \in 1..Len(stack')
  <2>1. p \in 1..p
    BY <1>1
  <2> QED BY <1>1, <1>6, <2>1, SameGrows DEF IsBelow
<1> HIDE DEF p, o
<1>9. k \in Nat /\ Len(o) \in Nat /\ \A j \in 1..Len(o) : j <= k => j < k \/ j = k
  BY <1>4
<1>10. At(o, k, modules', evals)
  BY <1>1, <1>3, <1>4, <1>5, <1>8, <1>9, AtStays
<1>11. \A j \in 1..Len(o) : j <= k => modules'[o[j]] # 0
  BY <1>5, <1>9, <1>10 DEF At
<1>12. GraphFrame(stack', p, k, o, modules', evals)
  BY <1>3, <1>6, <1>7, <1>8, <1>10, <1>11, <1>1 DEF GraphFrame
<1>13. Framed(stack', o, modules', evals)
  <2>1. \A i \in 1..Len(stack') : stack'[i].kind = "graph" => i = p
    BY <1>2, <1>7
  <2>2. k \in 0..Len(o)
    BY <1>9
  <2> QED BY <1>12, <2>1, <2>2 DEF Framed
<1>14. InTurn(o, modules', evals)
  BY <1>1, <1>4, <1>5, <1>8, InTurnStays DEF IInv, o
<1>15. Imported(modules', evals, graph)
  <2>1. \A d \in 1..Len(evals) : ~(d > Len(evals))
    BY <1>8
  <2>2. Len(evals) >= Len(evals) /\ Imported(modules, evals, graph)
    BY <1>8 DEF IInv
  <2> QED BY <1>1, <1>4, <1>5, <2>1, <2>2, ImportedStays
<1>16. Typed'
  BY <1>5, <1>8 DEF IInv, Typed
<1>17. Waits(pending', stack', o, modules', evals) /\ Over(pending', stack', o, modules', evals)
  BY <1>2, <1>7, <1>8 DEF Waits, Over, Graphless
<1>18. TasksFit(tasks', evals')
  BY DEF IInv
<1>19. evals' = evals /\ graph' = graph
  OBVIOUS
<1> QED BY <1>4, <1>5, <1>7, <1>13, <1>14, <1>15, <1>16, <1>17, <1>18, <1>19, Assembled DEF o

\* The graph leaves the stack: an error leaves it, or it waits.
LEMMA GraphLeftKeeps ==
    ASSUME IInv, NEW e \in Evals, IsTop({"drain"}), Top.id = e, stack[Depth - 1].kind = "graph",
           \/ /\ evals[e].state \in {"threw", "failed"} /\ stack' = Leaving(Below(2)) /\ pending' = pending
           \/ /\ evals[e].state = "waiting" /\ stack' = Below(2)
              /\ pending' = Suspend(e, stack[Depth - 1].rest),
           UNCHANGED <<graph, modules, evals, tasks, queued, calls>>
    PROVE  IInv'
<1> DEFINE p == Depth - 1
           r == stack[p].rest
           o == Eager
<1>1. /\ evals \in Seq(EvalT) /\ e \in 1..Len(evals) /\ Started(stack, evals) /\ stack # << >>
      /\ p \in 1..Len(stack) /\ Depth >= 2
  BY DrainOf
<1>2. pending.eval = 0 /\ stack[p].kind = "graph" /\ e # 0
  BY <1>1, DrainOfGraph
<1>3. PICK k \in 1..Len(o) : At(o, k, modules, evals) /\ IsRest(r, o, k) /\ evals[e].mod = o[k]
  BY DrainOfGraph
<1>4. IsOrderOf(o, Entry, graph.static) /\ o \in Seq(Module) /\ graph \in Graphs
  BY <1>1, StartedOrder
<1>5. IsBelow(stack', stack) /\ Len(stack') < p
  <2>1. /\ IsBelow(Below(2), stack) /\ Len(Below(2)) = Depth - 2
        /\ IsBelow(Leaving(Below(2)), stack) /\ Len(Leaving(Below(2))) <= Depth - 2
    BY <1>1, BelowsAre
  <2>2. Len(stack') <= Depth - 2 /\ IsBelow(stack', stack)
    BY <1>1, <2>1
  <2>3. Len(stack') \in Nat /\ Depth \in Nat
    BY <2>2, DrainOf DEF IsBelow
  <2> QED BY <2>2, <2>3
<1> HIDE DEF p, o, r
<1>6. Graphless(stack')
  BY <1>1, <1>2, <1>5, BelowGraphless
<1>7. pending \in [eval : {0} \cup 1..Len(evals), rest : Seq(Module)] /\ stack \in Seq(FrameT)
  BY DEF IInv, Typed
<1>8. r \in Seq(Module)
  <2>1. stack[p] \in FrameT
    BY <1>1, <1>7
  <2> QED BY <2>1 DEF FrameT, r
<1>9. CASE evals[e].state \in {"threw", "failed"} /\ pending' = pending
  <2>1. o[k] \in ToSet(o)
    BY <1>4, OrderFacts
  <2>2. Completed(o, modules, evals)
    BY <1>1, <1>3, <1>9, <2>1 DEF Completed
  <2>3. Waits(pending', stack', o, modules, evals) /\ Over(pending', stack', o, modules, evals)
    BY <1>2, <1>9, <2>2 DEF Waits, Over
  <2> QED BY <1>1, <1>5, <1>6, <1>7, <1>9, <2>3, LeftGraph DEF o
<1>10. CASE evals[e].state = "waiting" /\ pending' = Suspend(e, stack[Depth - 1].rest)
  <2>1. pending' = [eval |-> e, rest |-> r]
    BY <1>10 DEF Suspend, r, p
  <2>2. /\ pending' \in [eval : {0} \cup 1..Len(evals), rest : Seq(Module)]
        /\ pending'.eval = e /\ pending'.rest = r
    BY <1>1, <1>8, <2>1
  <2>3. WaitsAt(pending', k, o, modules, evals)
    BY <1>3, <2>2 DEF WaitsAt
  <2>4. Waits(pending', stack', o, modules, evals)
    BY <1>6, <1>10, <2>2, <2>3 DEF Waits
  <2>5. Over(pending', stack', o, modules, evals)
    BY <1>2, <2>2 DEF Over
  <2> QED BY <1>1, <1>5, <1>6, <2>2, <2>4, <2>5, LeftGraph DEF o
<1> QED BY <1>9, <1>10

\* The evaluation of a module is over.
LEMMA EvalOverKeeps == ASSUME IInv, NEW e \in Evals, EvalOver(e) PROVE IInv'
<1> DEFINE c == stack[Depth - 1]
<1>1. IsTop({"drain"}) /\ Top.id = e /\ UNCHANGED <<graph, evals, tasks, queued, calls>>
  BY DEF EvalOver
<1>2. \/ /\ evals[e].state = "done" /\ modules' = [modules EXCEPT ![evals[e].mod] = e]
         /\ stack' = Below(1) /\ pending' = pending
      \/ /\ evals[e].state \in {"threw", "failed"} /\ modules' = modules /\ pending' = pending
         /\ stack' = IF c.kind = "graph" THEN Leaving(Below(2)) ELSE Below(1)
      \/ /\ evals[e].state = "waiting" /\ modules' = modules
         /\ stack' = IF c.kind = "graph" THEN Below(2) ELSE Below(1)
         /\ pending' = IF c.kind = "graph" THEN Suspend(e, c.rest) ELSE pending
  BY DEF EvalOver
<1>3. CASE c.kind = "graph"
  <2>1. CASE evals[e].state = "done"
    BY <1>1, <1>2, <1>3, <2>1, GraphDoneKeeps
  <2>2. CASE evals[e].state # "done"
    BY <1>1, <1>2, <1>3, <2>2, GraphLeftKeeps
  <2> QED BY <2>1, <2>2
<1>4. CASE c.kind # "graph"
  <2>1. /\ stack # << >> /\ Top.kind # "graph" /\ Depth # 1 /\ e \in 1..Len(evals)
    <3>1. Depth >= 2 /\ Depth \in Nat
      BY <1>1, DrainOf
    <3> QED BY <1>1, <3>1, DrainOf
  <2>2. stack' = Below(1) /\ pending' = pending
    BY <1>2, <1>4
  <2>3. /\ modules' \in [Module -> {0} \cup 1..Len(evals)] /\ Exported(modules', evals) /\ Kept(modules, modules')
    <3>1. modules \in [Module -> {0} \cup 1..Len(evals)] /\ Exported(modules, evals) /\ evals \in Seq(EvalT)
      BY DEF IInv, Typed
    <3>2. CASE evals[e].state = "done"
      <4>1. modules' = [modules EXCEPT ![evals[e].mod] = e]
        BY <1>2, <3>2
      <4> QED BY <2>1, <3>1, <3>2, <4>1, ExportedRecorded
    <3>3. CASE evals[e].state # "done"
      BY <1>2, <3>1, <3>3 DEF Kept
    <3> QED BY <3>2, <3>3
  <2> QED BY <1>1, <1>4, <2>1, <2>2, <2>3, PopKeeps
<1> QED BY <1>3, <1>4

\* What the graph awaits has settled: the rest of it runs, or the error leaves
\* the drain.
LEMMA ResumeGraphKeeps == ASSUME IInv, ResumeGraph PROVE IInv'
<1> DEFINE o == Eager
           e == pending.eval
           r == pending.rest
           f == Frame("graph", 0, r)
<1>1. /\ IsTop({"drain"}) /\ Top.id = 0 /\ e # 0 /\ Settled(e)
      /\ pending' = NoGraph /\ UNCHANGED <<graph, evals, tasks, queued, calls>>
      /\ IF evals[e].state = "done"
         THEN /\ modules' = [modules EXCEPT ![evals[e].mod] = e]
              /\ stack' = On(stack, f)
         ELSE stack' = Below(1) /\ modules' = modules
  BY DEF ResumeGraph, CallbackDrained, CanResume
<1>2. stack # << >> /\ Top.kind = "drain" /\ Started(stack, evals)
  BY <1>1 DEF IsTop, Started
<1>3. /\ evals \in Seq(EvalT) /\ stack \in Seq(FrameT) /\ Len(stack) \in Nat
      /\ e \in 1..Len(evals) /\ r \in Seq(Module)
      /\ modules \in [Module -> {0} \cup 1..Len(evals)] /\ Exported(modules, evals)
  BY <1>1 DEF IInv, Typed
<1>4. IsOrderOf(o, Entry, graph.static) /\ o \in Seq(Module) /\ graph \in Graphs
  BY <1>2, StartedOrder
<1>5. Graphless(stack) /\ \E k \in 1..Len(o) : WaitsAt(pending, k, o, modules, evals)
  BY <1>1 DEF IInv, Waits
<1>6. PICK k \in 1..Len(o) : At(o, k, modules, evals) /\ IsRest(r, o, k) /\ evals[e].mod = o[k]
  BY <1>5 DEF WaitsAt
<1>7. f \in FrameT /\ f.kind = "graph" /\ f.id = 0 /\ f.rest = r /\ ~Runs(f) /\ FrameFits(f, evals)
  BY <1>3 DEF Frame, FrameT, Kinds, Runs, FrameFits
<1>8. pending' \in [eval : {0} \cup 1..Len(evals), rest : Seq(Module)] /\ pending'.eval = 0
  <2>1. << >> \in Seq(Module)
    OBVIOUS
  <2> QED BY <1>1, <2>1 DEF NoGraph
<1> HIDE DEF o, r, f, e
<1>9. CASE evals[e].state = "done"
  <2>1. modules' = [modules EXCEPT ![evals[e].mod] = e] /\ stack' = On(stack, f)
    BY <1>1, <1>9
  <2>2. /\ modules' \in [Module -> {0} \cup 1..Len(evals)] /\ Exported(modules', evals)
        /\ Kept(modules, modules') /\ modules'[o[k]] # 0
    BY <1>3, <1>6, <1>9, <2>1, ExportedRecorded
  <2>3. OneMore(stack, stack', f)
    BY <1>3, <1>7, <2>1, PushedOn
  <2> DEFINE n == Len(stack)
  <2>4. /\ stack' \in Seq(FrameT) /\ Len(stack') = n + 1 /\ stack'[n + 1] = f /\ n \in Nat /\ n # 0
        /\ \A i \in 1..n : stack'[i] = stack[i]
    BY <1>2, <1>3, <2>3 DEF OneMore
  <2> HIDE DEF n
  <2>5. /\ \A i \in 1..Len(stack') : ~(i > n) => i \in 1..n
        /\ \A i \in 1..Len(stack') : i > n => i = n + 1
        /\ n + 1 \in 1..Len(stack') /\ 1 \in 1..n /\ n <= n + 1
    BY <2>4
  <2>6. Same(stack, stack', n)
    BY <1>3, <2>4, <2>5 DEF Same, n
  <2>7. FramesFit(stack', evals)
    <3>1. FramesFit(stack, evals) /\ StillRun(stack, n, evals)
      BY AllRun DEF IInv, n
    <3>2. AboveFit(stack', n, evals)
      BY <1>7, <2>4, <2>5 DEF AboveFit
    <3>3. Len(evals) >= Len(evals)
      BY <1>3
    <3> QED BY <1>3, <2>4, <2>6, <3>1, <3>2, <3>3, FramesFitStays
  <2>8. Based(stack')
    <3>1. Based(stack)
      BY DEF IInv
    <3> QED BY <1>2, <2>4, <2>6, <3>1, SameBased
  <2>9. Grows(evals, evals, o) /\ Len(evals) \in Nat
    BY <1>3, SameGrows
  <2>10. k \in Nat /\ Len(o) \in Nat /\ \A j \in 1..Len(o) : j <= k => j < k \/ j = k
    BY <1>4
  <2>11. At(o, k, modules', evals)
    BY <1>3, <1>4, <1>6, <2>2, <2>9, <2>10, AtStays
  <2>12. \A j \in 1..Len(o) : j <= k => modules'[o[j]] # 0
    BY <2>2, <2>10, <2>11 DEF At
  <2>13. GraphFrame(stack', n + 1, k, o, modules', evals)
    <3>1. ~(n + 1 < Len(stack'))
      BY <2>4
    <3> QED BY <1>6, <1>7, <2>4, <2>11, <2>12, <3>1 DEF GraphFrame
  <2>14. \A i \in 1..Len(stack') : stack'[i].kind = "graph" => i = n + 1
    BY <1>5, <2>4, <2>5 DEF Graphless, n
  <2>15. Framed(stack', o, modules', evals)
    <3>1. k \in 0..Len(o)
      BY <2>10
    <3> QED BY <2>13, <2>14, <3>1 DEF Framed
  <2>16. InTurn(o, modules', evals)
    BY <1>3, <1>4, <2>2, <2>9, InTurnStays DEF IInv, o
  <2>17. Imported(modules', evals, graph)
    <3>1. \A d \in 1..Len(evals) : ~(d > Len(evals))
      BY <2>9
    <3>2. Len(evals) >= Len(evals) /\ Imported(modules, evals, graph)
      BY <2>9 DEF IInv
    <3> QED BY <1>3, <1>4, <2>2, <3>1, <3>2, ImportedStays
  <2>18. Typed'
    BY <1>1, <1>8, <2>2, <2>4 DEF IInv, Typed
  <2>19. Waits(pending', stack', o, modules', evals)
    BY <1>8 DEF Waits
  <2>20. Over(pending', stack', o, modules', evals)
    <3>1. ~Graphless(stack')
      BY <1>7, <2>4, <2>5 DEF Graphless
    <3> QED BY <3>1 DEF Over
  <2>21. TasksFit(tasks', evals') /\ evals' = evals /\ graph' = graph
    BY <1>1 DEF IInv
  <2> QED BY <1>4, <2>2, <2>7, <2>8, <2>15, <2>16, <2>17, <2>18, <2>19, <2>20, <2>21, Assembled DEF o
<1>10. CASE evals[e].state # "done"
  <2>1. evals[e].state = "threw" /\ stack' = Below(1) /\ modules' = modules
    BY <1>1, <1>10 DEF Settled
  <2>2. o[k] \in ToSet(o)
    BY <1>4, OrderFacts
  <2>3. Completed(o, modules, evals)
    BY <1>3, <1>6, <2>1, <2>2 DEF Completed
  <2>4. IsBelow(stack', stack)
    <3>1. Depth >= 1
      BY <1>2, TopIs
    <3> QED BY <2>1, <3>1, BelowsAre
  <2>5. Graphless(stack')
    BY <1>5, <2>4, BelowFits DEF Graphless
  <2>6. Waits(pending', stack', o, modules, evals) /\ Over(pending', stack', o, modules, evals)
    BY <1>8, <2>3 DEF Waits, Over
  <2> QED BY <1>1, <1>2, <1>8, <2>1, <2>4, <2>5, <2>6, LeftGraph DEF o
<1> QED BY <1>9, <1>10

-----------------------------------------------------------------------------
(* The invariant.                                                          *)

\* The order of any program is exact, of what runs at startup and of all it may
\* import.
LEMMA ExactOrder == ASSUME graph \in Graphs PROVE OrderExact
<1>1. graph.static \in ImportLists /\ graph.dynamic \in ImportLists
  BY GraphsAssumption DEF ImportLists
<1>2. AllDeps(graph) \in ImportLists
  BY <1>1 DEF AllDeps, ImportLists
<1>3. Entry \in Module
  BY EntryAssumption
<1>4. ASSUME NEW deps \in {graph.static, AllDeps(graph)}
      PROVE  LET found == TopoOrder(Entry, deps)
             IN  /\ found.ok = ~CyclicFrom(Entry, deps)
                 /\ found.ok => IsOrderOf(found.out, Entry, deps)
  <2>1. deps \in ImportLists
    BY <1>1, <1>2
  <2> QED BY <1>3, <2>1, TopoOrderExact
<1> QED BY <1>4 DEF OrderExact

\* A program starts with it.
LEMMA InitGood == Init => IInv
<1> SUFFICES ASSUME Init PROVE IInv
  OBVIOUS
<1>1. /\ graph \in Graphs /\ modules = [m \in Module |-> 0] /\ evals = <<>> /\ pending = NoGraph
      /\ stack = <<>> /\ tasks = <<>> /\ queued = 0 /\ calls = 0
  BY DEF Init
<1>2. /\ evals \in Seq(EvalT) /\ stack \in Seq(FrameT) /\ tasks \in Seq(TaskT) /\ << >> \in Seq(Module)
      /\ Len(evals) = 0 /\ Len(stack) = 0 /\ Len(tasks) = 0 /\ 1..0 = {}
  BY <1>1
<1>3. Typed
  <2>1. queued \in 0..MaxTasks /\ calls \in 0..MaxCalls
    BY <1>1, GraphBounds
  <2>2. modules \in [Module -> {0} \cup 1..Len(evals)]
    BY <1>1
  <2>3. pending \in [eval : {0} \cup 1..Len(evals), rest : Seq(Module)]
    BY <1>1, <1>2 DEF NoGraph
  <2> QED BY <1>1, <1>2, <2>1, <2>2, <2>3 DEF Typed
<1>4. FramesFit(stack, evals) /\ TasksFit(tasks, evals)
  BY <1>2 DEF FramesFit, TasksFit
<1>5. Exported(modules, evals) /\ Imported(modules, evals, graph)
  BY <1>1, <1>2 DEF Exported, Imported
<1>6. InTurn(Eager, modules, evals) /\ Framed(stack, Eager, modules, evals)
  BY <1>2 DEF InTurn, Framed
<1>7. ~Started(stack, evals) /\ pending.eval = 0
  BY <1>1 DEF Started, NoGraph
<1>8. Ordered /\ Based(stack) /\ Waits(pending, stack, Eager, modules, evals) /\ Over(pending, stack, Eager, modules, evals)
  BY <1>1, <1>7 DEF Ordered, Based, Waits, Over
<1> QED BY <1>3, <1>4, <1>5, <1>6, <1>8 DEF IInv

\* Every step keeps it.
LEMMA NextKeeps == IInv /\ [Next]_vars => IInv'
<1> SUFFICES ASSUME IInv, [Next]_vars PROVE IInv'
  OBVIOUS
<1>0. OrderExact
  BY ExactOrder DEF IInv, Typed
<1>1. CASE RunGraph
  BY <1>0, <1>1, RunGraphKeeps
<1>2. CASE \E m \in Module : HostCalls(m)
  BY <1>2, HostCallsKeeps
<1>3. CASE \E e \in Evals : HostSettles(e)
  BY <1>3, HostSettlesKeeps
<1>4. CASE \E t \in Module : Import(t)
  BY <1>4, ImportKeeps
<1>5. CASE QueueTask
  BY <1>5, QueueTaskKeeps
<1>6. CASE \E e \in Evals : CodeSettles(e)
  BY <1>6, CodeSettlesKeeps
<1>7. CASE NextModule
  BY <1>7, NextModuleKeeps
<1>8. CASE GraphOver
  BY <1>8, GraphOverKeeps
<1>9. CASE CodeEnds
  BY <1>9, CodeEndsKeeps
<1>10. CASE \E e \in Evals : BodyEnds(e) \/ EvalOver(e)
  BY <1>10, BodyEndsKeeps, EvalOverKeeps
<1>11. CASE \E e \in Evals, state \in {"threw", "failed"} : BodyThrows(e, state)
  BY <1>11, BodyThrowsKeeps
<1>12. CASE \E e \in Evals, settled \in BOOLEAN : BodyAwaits(e, settled)
  BY <1>12, BodyAwaitsKeeps
<1>13. CASE RunTask
  BY <1>13, RunTaskKeeps
<1>14. CASE ResumeGraph
  BY <1>14, ResumeGraphKeeps
<1>15. CASE DrainOver
  BY <1>15, DrainOverKeeps
<1>16. CASE UNCHANGED vars
  <2>1. UNCHANGED <<graph, modules, evals, pending, stack, tasks, queued, calls>>
    BY <1>16 DEF vars
  <2>2. Eager' = Eager
    BY <2>1 DEF Eager
  <2>3. Typed' /\ Ordered'
    BY <2>1, <2>2 DEF IInv, Typed, Ordered, Started
  <2> QED BY <2>1, <2>2, <2>3 DEF IInv
<1> QED BY <1>1, <1>2, <1>3, <1>4, <1>5, <1>6, <1>7, <1>8, <1>9, <1>10, <1>11, <1>12, <1>13, <1>14,
           <1>15, <1>16 DEF Next, Host, Operate, Proceed

\* The run of a module graph keeps to it.
THEOREM GraphGood == Spec => []IInv
<1>1. Init => IInv
  BY InitGood
<1>2. IInv /\ [Next]_vars => IInv'
  BY NextKeeps
<1> QED BY <1>1, <1>2, PTL DEF Spec

-----------------------------------------------------------------------------
(* What the runs check, of any program.                                    *)

\* Each frame, task and record names an evaluation there has been (the state of
\* Interp, and the Rust stack).
THEOREM TypeCorrect == Spec => []TypeOK
<1>1. IInv => TypeOK
  <2> SUFFICES ASSUME IInv PROVE TypeOK
    OBVIOUS
  <2>1. Typed /\ FramesFit(stack, evals) /\ TasksFit(tasks, evals)
    BY DEF IInv
  <2>2. Evals = 1..Len(evals) /\ DOMAIN stack = 1..Len(stack) /\ DOMAIN tasks = 1..Len(tasks)
    BY <2>1 DEF Typed, Evals
  <2>3. graph \in Graphs /\ queued \in 0..MaxTasks /\ calls \in 0..MaxCalls
        /\ modules \in [Module -> {0} \cup Evals] /\ pending \in [eval : {0} \cup Evals, rest : Seq(Module)]
    BY <2>1, <2>2 DEF Typed
  <2>4. evals \in Seq([mod : Module, awaits : 0..MaxAwaits,
                       state : {"running", "waiting", "queued", "done", "threw", "failed"}])
    <3>1. EvalT = [mod : Module, awaits : 0..MaxAwaits,
                   state : {"running", "waiting", "queued", "done", "threw", "failed"}]
      BY DEF EvalT, States
    <3> QED BY <2>1, <3>1 DEF Typed
  <2>5. ASSUME NEW i \in DOMAIN stack
        PROVE  /\ stack[i].rest \in Seq(Module)
               /\ CASE stack[i].kind \in {"body", "resumed"} -> stack[i].id \in Evals
                    [] stack[i].kind = "drain" -> stack[i].id \in {0} \cup Evals
                    [] stack[i].kind = "code" -> stack[i].id \in Module
                    [] stack[i].kind = "graph" -> stack[i].id = 0
    <3>1. stack[i] \in FrameT /\ FrameFits(stack[i], evals)
      BY <2>1, <2>2, <2>5 DEF Typed, FramesFit
    <3>2. stack[i].rest \in Seq(Module) /\ stack[i].kind \in {"graph", "body", "resumed", "code", "drain"}
      BY <3>1 DEF FrameT, Kinds
    <3> QED BY <2>2, <3>1, <3>2 DEF FrameFits, Runs
  <2>6. ASSUME NEW i \in DOMAIN tasks
        PROVE  tasks[i].id \in (IF tasks[i].kind = "code" THEN Module ELSE Evals)
    <3>1. tasks[i] \in TaskT /\ TaskFits(tasks[i], evals)
      BY <2>1, <2>2, <2>6 DEF Typed, TasksFit
    <3> QED BY <2>2, <3>1 DEF TaskFits, TaskT
  <2> QED BY <2>3, <2>4, <2>5, <2>6 DEF TypeOK
<1> QED BY <1>1, GraphGood, PTL

\* The order is right (topo_order): the modules the entry needs, each once and
\* after those it imports, or a refusal if there is a cycle.
THEOREM OrderRight == Spec => []OrderExact
<1>1. IInv => OrderExact
  BY ExactOrder DEF IInv, Typed
<1> QED BY <1>1, GraphGood, PTL

\* A module's body runs only when what it imports statically has been evaluated
\* (bind_import), in the graph's order, after an await, or by import().
THEOREM ImportsBound == Spec => []DependenciesFirst
<1>1. IInv => DependenciesFirst
  BY DEF IInv, Typed, Imported, DependenciesFirst, Evals, Recorded
<1> QED BY <1>1, GraphGood, PTL

\* The startup modules are evaluated in their order, each once, none before the
\* ones ahead of it are done (run_modules, however often it is suspended).
THEOREM GraphInOrder == Spec => []StartupInOrder
<1>1. IInv => StartupInOrder
  <2> SUFFICES ASSUME IInv, NEW e \in Evals, NEW i \in DOMAIN Eager, evals[e].mod = Eager[i]
               PROVE  /\ \A j \in 1..(i - 1) : Recorded(Eager[j])
                      /\ \A f \in Evals : evals[f].mod = Eager[i] => f = e
    BY DEF StartupInOrder
  <2>1. Evals = 1..Len(evals) /\ e \in 1..Len(evals) /\ evals \in Seq(EvalT)
    BY DEF IInv, Typed, Evals
  <2>2. Started(stack, evals)
    BY <2>1 DEF Started
  <2>3. Eager \in Seq(Module)
    BY <2>2, StartedOrder
  <2>4. i \in 1..Len(Eager) /\ \A j \in 1..(i - 1) : j \in 1..Len(Eager) /\ j < i
    BY <2>3
  <2> QED BY <2>1, <2>4 DEF IInv, InTurn, Recorded
<1> QED BY <1>1, GraphGood, PTL

\* Exports are those of an evaluation of that module that has come to its end
\* (Interp.modules).
THEOREM ExportsComplete == Spec => []ExportsOfTheDone
<1>1. IInv => ExportsOfTheDone
  BY DEF IInv, Exported, ExportsOfTheDone, Recorded
<1> QED BY <1>1, GraphGood, PTL

\* The rest of an order, and the module before it.
LEMMA RestIs ==
    ASSUME NEW o \in Seq(Module), NEW k \in 1..Len(o), NEW r \in Seq(Module), IsRest(r, o, k)
    PROVE  <<o[k]>> \o r = SubSeq(o, Len(o) - Len(r), Len(o))
<1> DEFINE n == Len(o)
           u == <<o[k]>> \o r
           t == SubSeq(o, k, n)
<1>1. n \in Nat /\ k \in Nat /\ k >= 1 /\ k <= n /\ o[k] \in Module
  OBVIOUS
<1>2. Len(r) = n - k /\ \A j \in 1..Len(r) : r[j] = o[k + j]
  BY DEF IsRest
<1>3. n - Len(r) = k
  BY <1>1, <1>2
<1>4. u \in Seq(Module) /\ Len(u) = 1 + Len(r) /\ u[1] = o[k] /\ \A j \in 1..Len(r) : u[1 + j] = r[j]
  BY <1>1
<1>5. t \in Seq(Module) /\ Len(t) = n - k + 1 /\ \A i \in 1..(n - k + 1) : t[i] = o[k + i - 1]
  BY <1>1
<1> HIDE DEF u, t, n
<1>6. Len(u) = n - k + 1
  BY <1>1, <1>2, <1>4
<1>7. ASSUME NEW i \in 1..(n - k + 1) PROVE u[i] = t[i]
  <2>1. CASE i = 1
    <3>1. k + i - 1 = k
      BY <1>1, <2>1
    <3> QED BY <1>4, <1>5, <2>1, <3>1
  <2>2. CASE i # 1
    <3> DEFINE j == i - 1
    <3>1. j \in 1..Len(r) /\ 1 + j = i /\ k + j = k + i - 1
      BY <1>1, <1>2, <2>2
    <3> QED BY <1>2, <1>4, <1>5, <3>1
  <2> QED BY <2>1, <2>2
<1>8. u = t
  <2> DEFINE l == n - k + 1
  <2>1. l \in Nat /\ Len(u) = l /\ Len(t) = l /\ \A i \in 1..l : u[i] = t[i]
    BY <1>1, <1>5, <1>6, <1>7
  <2> HIDE DEF l
  <2> QED BY <1>4, <1>5, <2>1
<1> QED BY <1>3, <1>8 DEF u, t, n

\* When control is with the host, the graph is done, or failed, or waits for a
\* module with exactly the modules after it left (Interp.pending_graph).
THEOREM GraphKept == Spec => []NoGraphLost
<1>1. IInv => NoGraphLost
  <2> DEFINE o == Eager
  <2> SUFFICES ASSUME IInv, stack = <<>>, evals # <<>>
               PROVE  \/ \A m \in ToSet(o) : Recorded(m)
                      \/ \E e \in Evals : evals[e].mod \in ToSet(o) /\ evals[e].state \in {"threw", "failed"}
                      \/ /\ pending.eval # 0 /\ ~Settled(pending.eval)
                         /\ <<evals[pending.eval].mod>> \o pending.rest =
                              SubSeq(o, Len(o) - Len(pending.rest), Len(o))
    BY DEF NoGraphLost
  <2>1. Started(stack, evals) /\ Graphless(stack)
    BY DEF Started, Graphless
  <2>2. o \in Seq(Module) /\ IsOrderOf(o, Entry, graph.static) /\ graph \in Graphs
    BY <2>1, StartedOrder
  <2>3. Evals = 1..Len(evals) /\ pending \in [eval : {0} \cup 1..Len(evals), rest : Seq(Module)]
    BY DEF IInv, Typed, Evals
  <2>4. CASE pending.eval = 0
    <3>1. Completed(o, modules, evals)
      BY <2>1, <2>4 DEF IInv, Over
    <3> HIDE DEF o
    <3>2. CASE \A j \in 1..Len(o) : modules[o[j]] # 0
      <4>1. \A m \in ToSet(o) : \E j \in 1..Len(o) : m = o[j]
        BY <2>2, OrderFacts
      <4>2. \A m \in ToSet(o) : Recorded(m)
        BY <3>2, <4>1 DEF Recorded
      <4> QED BY <4>2
    <3> QED BY <2>3, <3>1, <3>2 DEF Completed
  <2>5. CASE pending.eval # 0
    <3>1. PICK k \in 1..Len(o) : WaitsAt(pending, k, o, modules, evals)
      BY <2>5 DEF IInv, Waits
    <3>2. ~Settled(pending.eval)
      BY <2>5 DEF IInv, Waits, Settled
    <3>3. evals[pending.eval].mod = o[k] /\ IsRest(pending.rest, o, k) /\ pending.rest \in Seq(Module)
      BY <2>3, <3>1 DEF WaitsAt
    <3> HIDE DEF o
    <3>4. <<o[k]>> \o pending.rest = SubSeq(o, Len(o) - Len(pending.rest), Len(o))
      BY <2>2, <3>3, RestIs
    <3> QED BY <2>5, <3>2, <3>3, <3>4
  <2> QED BY <2>4, <2>5
<1> QED BY <1>1, GraphGood, PTL

\* The step that begins an evaluation of m begins one of a module that is not
\* recorded.
LEMMA BegunOnce ==
    ASSUME IInv, NEW m \in Module, NEW s, Evaluate(m, s), ~Recorded(m),
           NEW x \in Module, Recorded(x), NEW e \in DOMAIN evals' \ Evals
    PROVE  evals'[e].mod # x
<1> DEFINE y == [mod |-> m, state |-> "running", awaits |-> 0]
<1>1. evals \in Seq(EvalT) /\ evals' = Append(evals, y) /\ m # x
  BY DEF IInv, Typed, Evaluate
<1>2. y \in EvalT /\ y.mod = m
  BY GraphBounds DEF EvalT, States
<1> HIDE DEF y
<1>3. /\ evals' \in Seq(EvalT) /\ Len(evals') = Len(evals) + 1 /\ evals'[Len(evals) + 1] = y
      /\ Len(evals) \in Nat /\ \A d \in 1..Len(evals') : d > Len(evals) => d = Len(evals) + 1
  BY <1>1, <1>2, EvalBegun
<1>4. DOMAIN evals' = 1..Len(evals') /\ Evals = 1..Len(evals)
  BY <1>1, <1>3 DEF Evals
<1>5. e = Len(evals) + 1
  BY <1>3, <1>4
<1> QED BY <1>1, <1>2, <1>3, <1>5

\* Once a module's exports are recorded it is never evaluated again, by the graph
\* or by import() (run_modules, dynamic_import).
THEOREM EvaluatedOnce == Spec => NoRerunOnceDone
<1> DEFINE A == \A m \in Module : Recorded(m) => \A e \in DOMAIN evals' \ Evals : evals'[e].mod # m
<1>1. IInv /\ [Next]_vars => A
  <2> SUFFICES ASSUME IInv, [Next]_vars, NEW x \in Module, Recorded(x), NEW e \in DOMAIN evals' \ Evals
               PROVE  evals'[e].mod # x
    OBVIOUS
  <2>1. CASE NextModule
    <3>1. IsTop({"graph"}) /\ Top.rest # <<>>
      BY <2>1 DEF NextModule
    <3>2. PICK k \in 0..Len(Eager) :
            /\ At(Eager, k, modules, evals) /\ k + 1 \in 1..Len(Eager)
            /\ Head(Top.rest) = Eager[k + 1] /\ BindImports(Eager[k + 1])
      BY <3>1, NextIs
    <3> DEFINE m == Eager[k + 1]
    <3>3. Evaluate(m, On(Below(1), Frame("graph", 0, Tail(Top.rest))))
      BY <2>1, <3>2 DEF NextModule
    <3>4. m \in Module
      <4>1. Started(stack, evals)
        BY <3>1 DEF IsTop, Started
      <4> QED BY <3>2, <4>1, StartedOrder
    <3>5. ~Recorded(m)
      <4>1. k + 1 > k
        BY <3>2
      <4>2. \A d \in 1..Len(evals) : evals[d].mod # m
        BY <3>2, <4>1 DEF At
      <4>3. modules[m] \in {0} \cup 1..Len(evals) /\ Exported(modules, evals)
        BY <3>4 DEF IInv, Typed
      <4> HIDE DEF m
      <4> QED BY <3>4, <4>2, <4>3 DEF Recorded, Exported
    <3> QED BY <3>3, <3>4, <3>5, BegunOnce
  <2>2. CASE \E t \in Module : Import(t)
    <3>1. PICK t \in Module : Import(t)
      BY <2>2
    <3>2. Evaluate(t, stack) /\ ~Recorded(t)
      BY <3>1 DEF Import, Missing
    <3> QED BY <3>2, BegunOnce
  <2>3. CASE DOMAIN evals' = Evals
    BY <2>3
  <2>4. \/ NextModule \/ (\E t \in Module : Import(t)) \/ DOMAIN evals' = Evals
    <3>1. ASSUME NEW d PROVE Awaken(d) => DOMAIN evals' = Evals
      BY DEF Awaken, Evals
    <3>2. ASSUME NEW d, NEW state PROVE Leave(d, state) => DOMAIN evals' = Evals
      BY DEF Leave, Evals
    <3>3. ASSUME NEW d, NEW settled PROVE BodyAwaits(d, settled) => DOMAIN evals' = Evals
      BY DEF BodyAwaits, Evals
    <3>4. RunTask => DOMAIN evals' = Evals
      BY DEF RunTask, Evals
    <3>5. CASE Host
      BY <3>1, <3>5 DEF Host, RunGraph, HostCalls, HostSettles, Evals
    <3>6. CASE Operate
      BY <3>1, <3>6 DEF Operate, QueueTask, CodeSettles, Evals
    <3>7. CASE Proceed
      BY <3>2, <3>3, <3>4, <3>7
         DEF Proceed, GraphOver, CodeEnds, BodyEnds, EvalOver, BodyThrows, ResumeGraph, DrainOver, Evals
    <3>8. CASE UNCHANGED vars
      BY <3>8 DEF vars, Evals
    <3> QED BY <3>5, <3>6, <3>7, <3>8 DEF Next
  <2> QED BY <2>1, <2>2, <2>3, <2>4
<1>2. IInv /\ [Next]_vars => [A]_vars
  BY <1>1
<1>3. Spec => [][A]_vars
  BY <1>2, GraphGood, PTL DEF Spec
<1> QED BY <1>3 DEF NoRerunOnceDone
=============================================================================
