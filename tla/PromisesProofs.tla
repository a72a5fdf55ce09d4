--------------------------- MODULE PromisesProofs ---------------------------
(***************************************************************************)
(* Proofs about module Promises, for every number of promises, coroutines, *)
(* calls and items: a promise settles once, by the one party that owes it; *)
(* a coroutine is in one place; outcomes arrive unchanged; Promise.all     *)
(* counts right.                                                           *)
(***************************************************************************)
EXTENDS Promises, FiniteSetTheorems, SequenceTheorems, WellFoundedInduction, TLAPS

-----------------------------------------------------------------------------
(* Counting in sequences.                                                  *)

\* How many elements of s are in S, and where.
At(s, S) == {i \in DOMAIN s : s[i] \in S}
CountIn(s, S) == Cardinality(At(s, S))

\* A count is a number.
LEMMA CountNat ==
    ASSUME NEW T, NEW s \in Seq(T), NEW S
    PROVE  IsFiniteSet(At(s, S)) /\ CountIn(s, S) \in Nat
<1>1. IsFiniteSet(1..Len(s))
  BY FS_Interval
<1> QED BY <1>1, FS_Subset, FS_CardinalityType DEF At, CountIn

\* It is 0 when nothing counts, 1 when one element does.
LEMMA CountFew ==
    ASSUME NEW T, NEW s \in Seq(T), NEW S
    PROVE  /\ CountIn(s, S) = 0 <=> \A i \in DOMAIN s : s[i] \notin S
           /\ \A i, j \in DOMAIN s : CountIn(s, S) = 1 /\ s[i] \in S /\ s[j] \in S => i = j
<1>1. IsFiniteSet(At(s, S))
  BY CountNat
<1>2. CountIn(s, S) = 0 <=> At(s, S) = {}
  BY <1>1, FS_EmptySet DEF CountIn
<1>3. CountIn(s, S) = 1 => \E x : At(s, S) = {x}
  BY <1>1, FS_Singleton DEF CountIn
<1> QED BY <1>2, <1>3 DEF At

\* Nothing is counted in an empty sequence.
LEMMA CountEmpty == ASSUME NEW S PROVE CountIn(<<>>, S) = 0
BY FS_EmptySet DEF At, CountIn

\* An element appended counts if it is in S.
LEMMA CountAppend ==
    ASSUME NEW T, NEW s \in Seq(T), NEW e \in T, NEW S
    PROVE  CountIn(Append(s, e), S) = CountIn(s, S) + Flag(e \in S)
<1> DEFINE n == Len(s) + 1
<1>1. IsFiniteSet(At(s, S)) /\ CountIn(s, S) \in Nat
  BY CountNat
<1>2. n \notin At(s, S)
  BY DEF At
<1>3. CASE e \in S
  <2>1. At(Append(s, e), S) = At(s, S) \cup {n}
    BY <1>3 DEF At
  <2> QED BY <1>1, <1>2, <1>3, <2>1, FS_AddElement DEF CountIn, Flag
<1>4. CASE e \notin S
  <2>1. At(Append(s, e), S) = At(s, S)
    BY <1>4 DEF At
  <2> QED BY <1>1, <1>4, <2>1 DEF CountIn, Flag
<1> QED BY <1>3, <1>4

\* The counts of two sequences add up.
LEMMA CountConcat ==
    ASSUME NEW T, NEW s \in Seq(T), NEW t \in Seq(T), NEW S
    PROVE  CountIn(s \o t, S) = CountIn(s, S) + CountIn(t, S)
<1> DEFINE moved == {i + Len(s) : i \in At(t, S)}
           f == [i \in At(t, S) |-> i + Len(s)]
<1>1. IsFiniteSet(At(s, S)) /\ IsFiniteSet(At(t, S))
  BY CountNat
<1>2. f \in Bijection(At(t, S), moved)
  <2>1. f \in [At(t, S) -> moved]
    OBVIOUS
  <2>2. \A i, j \in At(t, S) : f[i] = f[j] => i = j
    BY DEF At
  <2>3. \A y \in moved : \E i \in At(t, S) : f[i] = y
    OBVIOUS
  <2> HIDE DEF f, moved
  <2> QED BY <2>1, <2>2, <2>3 DEF Bijection, Injection, Surjection, IsInjective
<1>3. IsFiniteSet(moved) /\ Cardinality(moved) = CountIn(t, S)
  BY <1>1, <1>2, FS_Bijection DEF ExistsBijection, CountIn
<1>4. At(s \o t, S) = At(s, S) \cup moved
  <2>1. ASSUME NEW x \in At(s \o t, S)
        PROVE  x \in At(s, S) \cup moved
    <3>1. x \in 1..Len(s) + Len(t) /\ (s \o t)[x] \in S
      BY <2>1 DEF At
    <3>2. CASE x <= Len(s)
      BY <3>1, <3>2 DEF At
    <3>3. CASE x > Len(s)
      <4>1. x - Len(s) \in At(t, S) /\ x = (x - Len(s)) + Len(s)
        BY <3>1, <3>3 DEF At
      <4> QED BY <4>1
    <3> QED BY <3>1, <3>2, <3>3
  <2>2. At(s, S) \subseteq At(s \o t, S) /\ moved \subseteq At(s \o t, S)
    BY DEF At
  <2> QED BY <2>1, <2>2
<1>5. At(s, S) \cap moved = {}
  BY DEF At
<1>6. Cardinality(At(s, S) \cap moved) = 0
  BY <1>5, FS_EmptySet
<1> HIDE DEF moved, f
<1>7. Cardinality(At(s, S) \cup moved) = CountIn(s, S) + CountIn(t, S) - 0
  BY <1>1, <1>3, <1>6, FS_Union DEF CountIn
<1>8. CountIn(s, S) \in Nat /\ CountIn(t, S) \in Nat
  BY CountNat
<1> QED BY <1>4, <1>7, <1>8 DEF CountIn

\* Without its head, or its last element, a sequence counts it no more.
LEMMA CountTail ==
    ASSUME NEW T, NEW s \in Seq(T), s # <<>>, NEW S
    PROVE  CountIn(Tail(s), S) = CountIn(s, S) - Flag(Head(s) \in S)
<1>1. Head(s) \in T /\ Tail(s) \in Seq(T) /\ <<Head(s)>> \in Seq(T)
  BY HeadTailProperties
<1>2. s = <<Head(s)>> \o Tail(s)
  BY <1>1
<1>3. CountIn(s, S) = CountIn(<<Head(s)>>, S) + CountIn(Tail(s), S)
  BY <1>1, <1>2, CountConcat, ZenonT(60)
<1>4. <<Head(s)>> = Append(<<>>, Head(s)) /\ <<>> \in Seq(T)
  OBVIOUS
<1>5. CountIn(<<Head(s)>>, S) = Flag(Head(s) \in S)
  <2>1. CountIn(<<Head(s)>>, S) = CountIn(<<>>, S) + Flag(Head(s) \in S)
    BY <1>1, <1>4, CountAppend
  <2> QED BY <2>1, CountEmpty DEF Flag
<1>6. CountIn(s, S) \in Nat /\ CountIn(Tail(s), S) \in Nat
  BY <1>1, CountNat
<1> QED BY <1>3, <1>5, <1>6 DEF Flag

\* What it loses at the end.
LEMMA CountFront ==
    ASSUME NEW T, NEW s \in Seq(T), s # <<>>, NEW S
    PROVE  CountIn(SubSeq(s, 1, Len(s) - 1), S) = CountIn(s, S) - Flag(s[Len(s)] \in S)
<1> DEFINE f == SubSeq(s, 1, Len(s) - 1)
           e == s[Len(s)]
<1>1. f \in Seq(T) /\ e \in T
  OBVIOUS
<1>2. s = Append(f, e)
  OBVIOUS
<1> HIDE DEF f, e
<1>3. CountIn(s, S) = CountIn(f, S) + Flag(e \in S)
  BY <1>1, <1>2, CountAppend
<1>4. CountIn(f, S) = CountIn(s, S) - Flag(e \in S)
  BY <1>1, <1>3, CountNat DEF Flag
<1> QED BY <1>4 DEF f, e

\* An element replaced.
LEMMA CountExcept ==
    ASSUME NEW T, NEW s \in Seq(T), NEW k \in DOMAIN s, NEW e \in T, NEW S
    PROVE  CountIn([s EXCEPT ![k] = e], S) = CountIn(s, S) - Flag(s[k] \in S) + Flag(e \in S)
<1> DEFINE A == At(s, S) \ {k}
           u == [s EXCEPT ![k] = e]
<1>1. u \in Seq(T)
  OBVIOUS
<1>2. IsFiniteSet(At(s, S)) /\ IsFiniteSet(A)
  BY CountNat, FS_RemoveElement
<1>3. At(s, S) = IF s[k] \in S THEN A \cup {k} ELSE A
  BY DEF At
<1>4. At(u, S) = IF e \in S THEN A \cup {k} ELSE A
  BY DEF At
<1>5. Cardinality(A \cup {k}) = Cardinality(A) + 1 /\ Cardinality(A) \in Nat
  BY <1>2, FS_AddElement, FS_CardinalityType
<1> HIDE DEF A, u
<1>6. CountIn(s, S) = Cardinality(A) + Flag(s[k] \in S)
  BY <1>3, <1>5 DEF CountIn, Flag
<1>7. CountIn(u, S) = Cardinality(A) + Flag(e \in S)
  BY <1>4, <1>5 DEF CountIn, Flag
<1> QED BY <1>5, <1>6, <1>7 DEF Flag, u

\* Counts agree when element by element the one counts as the other does.
LEMMA CountSame ==
    ASSUME NEW s, NEW t, NEW S, NEW U, DOMAIN s = DOMAIN t,
           \A i \in DOMAIN s : s[i] \in S <=> t[i] \in U
    PROVE  CountIn(s, S) = CountIn(t, U)
BY DEF CountIn, At

\* What is in a concatenation.
LEMMA InConcat ==
    ASSUME NEW T, NEW s \in Seq(T), NEW t \in Seq(T)
    PROVE  /\ \A k \in DOMAIN (s \o t) : \/ k \in DOMAIN s /\ (s \o t)[k] = s[k]
                                        \/ \E j \in DOMAIN t : (s \o t)[k] = t[j]
           /\ \A k \in DOMAIN s : k \in DOMAIN (s \o t) /\ (s \o t)[k] = s[k]
           /\ \A j \in DOMAIN t : \E k \in DOMAIN (s \o t) : (s \o t)[k] = t[j]
<1>1. /\ DOMAIN (s \o t) = 1..Len(s) + Len(t)
      /\ \A k \in 1..Len(s) + Len(t) : (s \o t)[k] = IF k <= Len(s) THEN s[k] ELSE t[k - Len(s)]
      /\ DOMAIN s = 1..Len(s) /\ DOMAIN t = 1..Len(t) /\ Len(s) \in Nat /\ Len(t) \in Nat
  OBVIOUS
<1>2. ASSUME NEW j \in DOMAIN t PROVE \E k \in DOMAIN (s \o t) : (s \o t)[k] = t[j]
  <2>1. j + Len(s) \in DOMAIN (s \o t) /\ (s \o t)[j + Len(s)] = t[j]
    BY <1>1
  <2> QED BY <2>1
<1>3. ASSUME NEW k \in DOMAIN (s \o t)
      PROVE  \/ k \in DOMAIN s /\ (s \o t)[k] = s[k]
             \/ \E j \in DOMAIN t : (s \o t)[k] = t[j]
  <2>1. CASE k <= Len(s)
    BY <1>1, <2>1
  <2>2. CASE k > Len(s)
    <3>1. k - Len(s) \in DOMAIN t /\ (s \o t)[k] = t[k - Len(s)]
      BY <1>1, <2>2
    <3> QED BY <3>1
  <2> QED BY <1>1, <2>1, <2>2
<1>4. \A k \in DOMAIN s : k \in DOMAIN (s \o t) /\ (s \o t)[k] = s[k]
  BY <1>1
<1> QED BY <1>2, <1>3, <1>4

\* What is in a sequence with an element appended.
LEMMA InAppend ==
    ASSUME NEW T, NEW s \in Seq(T), NEW e \in T
    PROVE  /\ \A i \in DOMAIN Append(s, e) : \/ i \in DOMAIN s /\ Append(s, e)[i] = s[i]
                                             \/ Append(s, e)[i] = e
           /\ \A i \in DOMAIN s : i \in DOMAIN Append(s, e) /\ Append(s, e)[i] = s[i]
           /\ \E i \in DOMAIN Append(s, e) : Append(s, e)[i] = e
<1>1. Len(s) + 1 \in DOMAIN Append(s, e) /\ Append(s, e)[Len(s) + 1] = e
  OBVIOUS
<1>2. \A i \in DOMAIN Append(s, e) : \/ i \in DOMAIN s /\ Append(s, e)[i] = s[i]
                                    \/ Append(s, e)[i] = e
  OBVIOUS
<1>3. \A i \in DOMAIN s : i \in DOMAIN Append(s, e) /\ Append(s, e)[i] = s[i]
  OBVIOUS
<1> QED BY <1>1, <1>2, <1>3

-----------------------------------------------------------------------------
(* Counting in a list of sequences, one for each promise.                  *)

Rows(T) == Seq(Seq(T))

\* How many elements of the sequences of F are in S, and where.
Spots(F, S) == UNION {{q} \X At(F[q], S) : q \in DOMAIN F}
Total(F, S) == Cardinality(Spots(F, S))

\* A total is a number.
LEMMA TotalNat ==
    ASSUME NEW T, NEW F \in Rows(T), NEW S
    PROVE  IsFiniteSet(Spots(F, S)) /\ Total(F, S) \in Nat
<1> DEFINE Row(q) == {q} \X At(F[q], S)
           All == {Row(q) : q \in DOMAIN F}
           f == [q \in DOMAIN F |-> Row(q)]
<1> USE DEF Rows
<1>1. IsFiniteSet(DOMAIN F)
  <2>1. DOMAIN F = 1..Len(F) /\ Len(F) \in Nat
    OBVIOUS
  <2> QED BY <2>1, FS_Interval
<1>2. f \in Surjection(DOMAIN F, All)
  BY DEF Surjection
<1>3. IsFiniteSet(All)
  <2> HIDE DEF f, All
  <2> QED BY <1>1, <1>2, FS_Surjection
<1>4. ASSUME NEW r \in All PROVE IsFiniteSet(r)
  <2>1. PICK q \in DOMAIN F : r = Row(q)
    BY <1>4
  <2>2. F[q] \in Seq(T)
    OBVIOUS
  <2>3. IsFiniteSet(At(F[q], S)) /\ IsFiniteSet({q})
    BY <2>2, CountNat, FS_Singleton
  <2> QED BY <2>1, <2>3, FS_Product
<1>5. IsFiniteSet(UNION All)
  <2> HIDE DEF All
  <2> QED BY <1>3, <1>4, FS_UNION
<1> QED BY <1>5, FS_CardinalityType DEF Spots, Total

\* It is 0 when nothing counts, and when it is 1 only one place counts.
LEMMA TotalFew ==
    ASSUME NEW T, NEW F \in Rows(T), NEW S
    PROVE  /\ Total(F, S) = 0 <=> \A q \in DOMAIN F : \A i \in DOMAIN F[q] : F[q][i] \notin S
           /\ \A q, r \in DOMAIN F : \A i \in DOMAIN F[q], j \in DOMAIN F[r] :
                 Total(F, S) = 1 /\ F[q][i] \in S /\ F[r][j] \in S => q = r /\ i = j
<1>1. IsFiniteSet(Spots(F, S))
  BY TotalNat
<1>2. Total(F, S) = 0 <=> Spots(F, S) = {}
  BY <1>1, FS_EmptySet DEF Total
<1>3. Total(F, S) = 1 => \E x : Spots(F, S) = {x}
  BY <1>1, FS_Singleton DEF Total
<1>4. \A q \in DOMAIN F : \A i \in DOMAIN F[q] : F[q][i] \in S => <<q, i>> \in Spots(F, S)
  BY DEF Spots, At
<1>5. (\A q \in DOMAIN F : \A i \in DOMAIN F[q] : F[q][i] \notin S) => Spots(F, S) = {}
  BY DEF Spots, At
<1>6. (\A q \in DOMAIN F : \A i \in DOMAIN F[q] : F[q][i] \notin S) <=> Spots(F, S) = {}
  BY <1>4, <1>5
<1>7. ASSUME NEW q \in DOMAIN F, NEW r \in DOMAIN F, NEW i \in DOMAIN F[q], NEW j \in DOMAIN F[r],
             Total(F, S) = 1, F[q][i] \in S, F[r][j] \in S
      PROVE  q = r /\ i = j
  <2>1. <<q, i>> = <<r, j>>
    BY <1>3, <1>4, <1>7
  <2> QED BY <2>1
<1> QED BY <1>2, <1>6, <1>7

\* Two lists that differ in one sequence differ by what it counts.
LEMMA TotalUpdate ==
    ASSUME NEW T, NEW F \in Rows(T), NEW G \in Rows(T), NEW S,
           Len(G) = Len(F), NEW q \in DOMAIN F,
           \A x \in DOMAIN F \ {q} : G[x] = F[x]
    PROVE  Total(G, S) = Total(F, S) - CountIn(F[q], S) + CountIn(G[q], S)
<1> DEFINE Others == Spots(F, S) \ ({q} \X At(F[q], S))
<1>1. /\ IsFiniteSet(Spots(F, S)) /\ IsFiniteSet(Others)
      /\ Cardinality(Others) \in Nat
  BY TotalNat, FS_Difference, FS_CardinalityType
<1>2. \A A : IsFiniteSet(A) => /\ IsFiniteSet({q} \X A)
                                /\ Cardinality({q} \X A) = Cardinality(A)
                                /\ Cardinality(A) \in Nat
  <2>1. ASSUME NEW A, IsFiniteSet(A)
        PROVE  /\ IsFiniteSet({q} \X A) /\ Cardinality({q} \X A) = Cardinality(A)
               /\ Cardinality(A) \in Nat
    <3>1. IsFiniteSet({q}) /\ Cardinality({q}) = 1
      BY FS_Singleton
    <3>2. /\ IsFiniteSet({q} \X A)
          /\ Cardinality({q} \X A) = Cardinality({q}) * Cardinality(A)
      BY <2>1, <3>1, FS_Product
    <3> QED BY <2>1, <3>1, <3>2, FS_CardinalityType
  <2> QED BY <2>1
<1>3. ASSUME NEW H \in Rows(T), Len(H) = Len(F), \A x \in DOMAIN F \ {q} : H[x] = F[x]
      PROVE  Total(H, S) = Cardinality(Others) + CountIn(H[q], S)
  <2> DEFINE Row == {q} \X At(H[q], S)
  <2>1. DOMAIN H = DOMAIN F /\ H[q] \in Seq(T)
    BY <1>3 DEF Rows
  <2>2. Spots(H, S) = Others \cup Row
    BY <1>3, <2>1 DEF Spots
  <2>3. Others \cap Row = {}
    BY DEF Spots
  <2>4. /\ IsFiniteSet(Row)
        /\ Cardinality(Row) = CountIn(H[q], S)
        /\ CountIn(H[q], S) \in Nat
    BY <1>2, <2>1, CountNat DEF CountIn
  <2>5. Cardinality(Others \cap Row) = 0
    BY <2>3, FS_EmptySet
  <2> HIDE DEF Others, Row
  <2>6. Cardinality(Others \cup Row) = Cardinality(Others) + Cardinality(Row) - Cardinality(Others \cap Row)
    BY <1>1, <2>4, FS_Union
  <2> QED BY <1>1, <2>2, <2>4, <2>5, <2>6 DEF Total
<1> HIDE DEF Others
<1>4. Total(F, S) = Cardinality(Others) + CountIn(F[q], S)
  BY <1>3
<1>5. Total(G, S) = Cardinality(Others) + CountIn(G[q], S)
  BY <1>3
<1>6. CountIn(F[q], S) \in Nat /\ CountIn(G[q], S) \in Nat
  <2>1. F[q] \in Seq(T) /\ G[q] \in Seq(T)
    BY DEF Rows
  <2> QED BY <2>1, CountNat
<1> QED BY <1>1, <1>4, <1>5, <1>6

\* The total depends on the places that count only.
LEMMA TotalSame ==
    ASSUME NEW F, NEW G, NEW S,
           \A q, i : (q \in DOMAIN F /\ i \in DOMAIN F[q] /\ F[q][i] \in S) <=>
                       (q \in DOMAIN G /\ i \in DOMAIN G[q] /\ G[q][i] \in S)
    PROVE  Total(F, S) = Total(G, S)
<1>1. Spots(F, S) = Spots(G, S)
  BY DEF Spots, At
<1> QED BY <1>1 DEF Total

-----------------------------------------------------------------------------
(* Numbers in increasing order.                                            *)

\* A set of naturals has a least element.
LEMMA LeastElement ==
    ASSUME NEW N, N \subseteq Nat, N # {}
    PROVE  \E m \in N : \A k \in N : m <= k
<1> DEFINE R == OpToRel(<, Nat)
<1>1. IsWellFoundedOn(R, Nat)
  BY NatLessThanWellFounded
<1>2. \A m, k \in Nat : k < m => <<k, m>> \in R
  BY DEF OpToRel
<1> HIDE DEF R
<1>3. PICK m \in N : \A k \in N : ~(<<k, m>> \in R)
  BY <1>1, WFMin
<1>4. \A k \in N : ~(k < m)
  BY <1>2, <1>3
<1>5. \A k \in N : k \in Nat /\ m \in Nat
  OBVIOUS
<1> QED BY <1>4, <1>5

Listings(K) == {s \in [1..Cardinality(K) -> K] : /\ \A j, k \in DOMAIN s : j < k => s[j] < s[k]
                                                /\ \A i \in K : \E k \in DOMAIN s : s[k] = i}

\* A set of numbers up to n can be listed in order.
LEMMA ListingExists ==
    ASSUME NEW n \in Nat, NEW K \in SUBSET (1..n)
    PROVE  Listings(K) # {}
<1> DEFINE Bad == {m \in Nat : \E L \in SUBSET (1..m) : Listings(L) = {}}
<1>1. ASSUME Bad # {} PROVE FALSE
  <2>1. PICK m \in Nat : m \in Bad /\ \A k \in Bad : m <= k
    BY <1>1, LeastElement
  <2>2. PICK L \in SUBSET (1..m) : Listings(L) = {}
    BY <2>1
  <2>0. ASSUME NEW k \in Nat, NEW M \in SUBSET (1..k), k < m PROVE Listings(M) # {}
    <3>1. k \notin Bad
      BY <2>0, <2>1
    <3> QED BY <3>1
  <2> HIDE DEF Bad
  <2>7. \A x \in L : x \in 1..m
    OBVIOUS
  <2>3. IsFiniteSet(L) /\ Cardinality(L) \in Nat
    <3>1. IsFiniteSet(1..m)
      BY FS_Interval
    <3> QED BY <3>1, FS_Subset, FS_CardinalityType
  <2>4. CASE L = {}
    <3>1. Cardinality(L) = 0
      BY <2>4, FS_EmptySet
    <3>2. <<>> \in Listings(L)
      BY <2>4, <3>1 DEF Listings
    <3> QED BY <2>2, <3>2
  <2>5. CASE L # {}
    <3>0. PICK x \in L : TRUE
      BY <2>5
    <3>1. m - 1 \in Nat /\ m - 1 < m
      BY <2>7, <3>0
    <3>3. L \ {m} \in SUBSET (1..(m - 1))
      BY <2>7
    <3>4. PICK s : s \in Listings(L \ {m})
      BY <2>0, <3>1, <3>3
    <3> DEFINE c == Cardinality(L \ {m})
    <3>5. /\ c \in Nat /\ s \in [1..c -> L \ {m}]
          /\ \A j, k \in 1..c : j < k => s[j] < s[k]
          /\ \A i \in L \ {m} : \E k \in 1..c : s[k] = i
      BY <2>3, <3>4, FS_RemoveElement, FS_CardinalityType DEF Listings
    <3>6. CASE m \notin L
      BY <2>2, <3>4, <3>6, L \ {m} = L
    <3>7. CASE m \in L
      <4> DEFINE t == [k \in 1..(c + 1) |-> IF k = c + 1 THEN m ELSE s[k]]
      <4>1. Cardinality(L) = c + 1
        <5>1. c = Cardinality(L) - 1
          BY <2>3, <3>7, FS_RemoveElement
        <5> QED BY <2>3, <5>1
      <4>2. \A j \in 1..c : s[j] \in L /\ s[j] < m
        <5> TAKE j \in 1..c
        <5>1. s[j] \in L \ {m}
          BY <3>5
        <5>2. s[j] \in L /\ s[j] # m
          BY <5>1
        <5>3. s[j] \in 1..m
          BY <2>7, <5>2
        <5> QED BY <5>2, <5>3
      <4> HIDE DEF c
      <4>3. t \in [1..(c + 1) -> L] /\ DOMAIN t = 1..(c + 1)
        BY <3>5, <3>7, <4>2
      <4>4. \A j, k \in 1..(c + 1) : j < k => t[j] < t[k]
        BY <3>5, <4>2
      <4>5. \A i \in L : \E k \in 1..(c + 1) : t[k] = i
        <5> TAKE i \in L
        <5>1. CASE i = m
          <6>1. c + 1 \in 1..(c + 1) /\ t[c + 1] = m
            BY <3>5
          <6> QED BY <5>1, <6>1
        <5>2. CASE i # m
          <6>1. PICK k \in 1..c : s[k] = i
            BY <3>5, <5>2
          <6>2. k \in 1..(c + 1) /\ t[k] = i
            BY <3>5, <6>1
          <6> QED BY <6>2
        <5> QED BY <5>1, <5>2
      <4> HIDE DEF t
      <4>6. t \in Listings(L)
        BY <4>1, <4>3, <4>4, <4>5 DEF Listings, c
      <4> QED BY <2>2, <4>6
    <3> QED BY <3>6, <3>7
  <2> QED BY <2>4, <2>5
<1> QED BY <1>1

\* InOrder lists the numbers of a set, each once.
LEMMA InOrderLists ==
    ASSUME NEW n \in Nat, NEW K \in SUBSET (1..n)
    PROVE  /\ InOrder(K) \in Seq(K)
           /\ \A i \in K : \E k \in DOMAIN InOrder(K) : InOrder(K)[k] = i
           /\ \A j, k \in DOMAIN InOrder(K) : InOrder(K)[j] = InOrder(K)[k] => j = k
<1>1. Cardinality(K) \in Nat
  <2>1. IsFiniteSet(1..n)
    BY FS_Interval
  <2>2. IsFiniteSet(K)
    BY <2>1, FS_Subset
  <2> QED BY <2>2, FS_CardinalityType
<1>2. \E s \in [1..Cardinality(K) -> K] : /\ \A j, k \in DOMAIN s : j < k => s[j] < s[k]
                                         /\ \A i \in K : \E k \in DOMAIN s : s[k] = i
  <2>1. PICK s : s \in Listings(K)
    BY ListingExists
  <2> QED BY <2>1 DEF Listings
<1>3. InOrder(K) \in Listings(K)
  BY <1>2 DEF InOrder, Listings
<1> DEFINE s == InOrder(K)
<1> HIDE DEF s
<1>4. /\ s \in [1..Cardinality(K) -> K]
      /\ \A j, k \in DOMAIN s : j < k => s[j] < s[k]
      /\ \A i \in K : \E k \in DOMAIN s : s[k] = i
  BY <1>3 DEF Listings, s
<1>5. s \in Seq(K)
  BY <1>1, <1>4
<1>6. \A j \in DOMAIN s : s[j] \in Nat /\ j \in Nat
  <2> TAKE j \in DOMAIN s
  <2>1. s[j] \in K /\ j \in 1..Cardinality(K)
    BY <1>4
  <2>2. s[j] \in 1..n
    BY <2>1
  <2> QED BY <1>1, <2>1, <2>2
<1>7. \A j, k \in DOMAIN s : s[j] = s[k] => j = k
  BY <1>4, <1>6
<1> QED BY <1>4, <1>5, <1>7 DEF s

-----------------------------------------------------------------------------
(* Promises and queue, S, and what the operators on them do.               *)

Crew == 1..MaxCoro
PromiseT == [status : {"pending", "fulfilled", "rejected"}, value : Ids, from : Ids,
             waiters : Seq(Crew), reactions : Seq(ReactionType)]
TaskT == [coro : 0..MaxCoro, then : ReactionType, of : Ids,
          status : {"fulfilled", "rejected"}, value : Ids]
Store == [prom : Seq(PromiseT), queue : Seq(TaskT)]

IsOutcome(o) == o.status \in {"fulfilled", "rejected"} /\ o.value \in Ids
Open(S, p) == S.prom[p].status = "pending"

\* Who is owed an outcome by way of a reaction in U, or of coroutine c waiting.
ReactionsOf(P) == [q \in DOMAIN P |-> P[q].reactions]
WaitersOf(P) == [q \in DOMAIN P |-> P[q].waiters]
TasksFor(U) == {t \in TaskT : t.then \in U}
TasksOf(c) == {t \in TaskT : t.coro = c}
Owed(S, U) == Total(ReactionsOf(S.prom), U) + CountIn(S.queue, TasksFor(U))
Waits(S, c) == Total(WaitersOf(S.prom), {c}) + CountIn(S.queue, TasksOf(c))

\* Sets of reactions that resuming a coroutine is not among.
Proper == SUBSET (ReactionType \ {PassOn(0)})

\* The lists of a store are typed.
LEMMA StoreLists ==
    ASSUME NEW S \in Store
    PROVE  /\ ReactionsOf(S.prom) \in Rows(ReactionType)
           /\ WaitersOf(S.prom) \in Rows(Crew)
           /\ Len(ReactionsOf(S.prom)) = Len(S.prom) /\ Len(WaitersOf(S.prom)) = Len(S.prom)
           /\ DOMAIN S.prom = 1..Len(S.prom)
<1>1. S.prom \in Seq(PromiseT)
  BY DEF Store
<1>2. \A q \in DOMAIN S.prom : /\ S.prom[q].reactions \in Seq(ReactionType)
                               /\ S.prom[q].waiters \in Seq(Crew)
  <2> TAKE q \in DOMAIN S.prom
  <2>1. S.prom[q] \in PromiseT
    BY <1>1
  <2> QED BY <2>1 DEF PromiseT
<1>3. DOMAIN S.prom = 1..Len(S.prom) /\ Len(S.prom) \in Nat
  BY <1>1
<1>4. \A T : \A n \in Nat : \A F : DOMAIN F = 1..n /\ (\A i \in 1..n : F[i] \in T) /\ F = [i \in 1..n |-> F[i]]
        => F \in Seq(T) /\ Len(F) = n
  OBVIOUS
<1> QED BY <1>2, <1>3, <1>4 DEF ReactionsOf, WaitersOf, Rows

\* Tasks W deliver p's outcome to waiters and reactions, and to all of those.
Deliver(W, waiters, reactions, p, o) ==
    /\ \A k \in DOMAIN W :
          /\ W[k].of = p /\ W[k].status = o.status /\ W[k].value = o.value
          /\ \/ \E i \in DOMAIN waiters : W[k].coro = waiters[i] /\ W[k].then = PassOn(0)
             \/ \E i \in DOMAIN reactions : W[k].coro = 0 /\ W[k].then = reactions[i]
    /\ \A i \in DOMAIN reactions : \E k \in DOMAIN W : W[k].coro = 0 /\ W[k].then = reactions[i]

\* The tasks a settlement queues: one for each waiter and each reaction.
LEMMA WokenTasks ==
    ASSUME NEW P \in Seq(PromiseT), NEW p \in DOMAIN P, p \in Ids, NEW o, IsOutcome(o)
    PROVE  /\ Woken(P, p, o) \in Seq(TaskT)
           /\ Deliver(Woken(P, p, o), P[p].waiters, P[p].reactions, p, o)
           /\ \A U \in Proper :
                 CountIn(Woken(P, p, o), TasksFor(U)) = CountIn(P[p].reactions, U)
           /\ \A c \in Crew :
                 CountIn(Woken(P, p, o), TasksOf(c)) = CountIn(P[p].waiters, {c})
<1> DEFINE ws == P[p].waiters
           rs == P[p].reactions
           a == Tasks(ws, p, o, Resume)
           b == Tasks(rs, p, o, React)
<1>1. ws \in Seq(Crew) /\ rs \in Seq(ReactionType)
  <2>1. P[p] \in PromiseT
    OBVIOUS
  <2> QED BY <2>1 DEF PromiseT
<1>2. PassOn(0) \in ReactionType
  BY BoundsAssumption, AllSizeAssumption DEF PassOn, Reaction, NoSlot, ReactionType, Ids
<1>0. Woken(P, p, o) = a \o b /\ ws = P[p].waiters /\ rs = P[p].reactions
  BY DEF Woken
<1> HIDE DEF ws, rs
<1> USE BoundsAssumption
<1>3. /\ Len(a) = Len(ws) /\ DOMAIN a = DOMAIN ws
      /\ \A i \in DOMAIN ws : /\ a[i] = Resume(ws[i], p, o)
                              /\ a[i] \in TaskT
  <2>1. a = [i \in 1..Len(ws) |-> Resume(ws[i], p, o)]
    BY DEF Tasks
  <2>2. \A i \in DOMAIN ws : ws[i] \in Crew
    BY <1>1
  <2>3. ASSUME NEW c \in Crew PROVE Resume(c, p, o) \in TaskT
    BY <1>2 DEF Resume, TaskT, IsOutcome, Crew
  <2>4. Len(ws) \in Nat /\ DOMAIN ws = 1..Len(ws)
    BY <1>1
  <2> HIDE DEF a
  <2> QED BY <2>1, <2>2, <2>3, <2>4
<1>4. /\ Len(b) = Len(rs) /\ DOMAIN b = DOMAIN rs
      /\ \A i \in DOMAIN rs : /\ b[i] = React(rs[i], p, o)
                              /\ b[i] \in TaskT
  <2>1. b = [i \in 1..Len(rs) |-> React(rs[i], p, o)]
    BY DEF Tasks
  <2>2. \A i \in DOMAIN rs : rs[i] \in ReactionType
    BY <1>1
  <2>3. ASSUME NEW r \in ReactionType PROVE React(r, p, o) \in TaskT
    BY DEF React, TaskT, IsOutcome
  <2>4. Len(rs) \in Nat /\ DOMAIN rs = 1..Len(rs)
    BY <1>1
  <2> HIDE DEF b
  <2> QED BY <2>1, <2>2, <2>3, <2>4
<1>5. a \in Seq(TaskT) /\ b \in Seq(TaskT)
  <2>1. /\ a = [i \in 1..Len(ws) |-> Resume(ws[i], p, o)]
        /\ b = [i \in 1..Len(rs) |-> React(rs[i], p, o)]
    BY DEF Tasks
  <2>2. /\ Len(ws) \in Nat /\ DOMAIN ws = 1..Len(ws)
        /\ Len(rs) \in Nat /\ DOMAIN rs = 1..Len(rs)
    BY <1>1
  <2> HIDE DEF a, b
  <2>3. a \in [1..Len(ws) -> TaskT] /\ b \in [1..Len(rs) -> TaskT]
    BY <1>3, <1>4, <2>1, <2>2
  <2> QED BY <2>2, <2>3, SMTT(40)
<1> HIDE DEF a, b
<1>7. /\ a \o b \in Seq(TaskT)
      /\ \A k \in DOMAIN (a \o b) : \/ \E i \in DOMAIN a : (a \o b)[k] = a[i]
                                    \/ \E i \in DOMAIN b : (a \o b)[k] = b[i]
      /\ \A i \in DOMAIN b : \E k \in DOMAIN (a \o b) : (a \o b)[k] = b[i]
  <2>1. a \o b \in Seq(TaskT)
    BY <1>5, ConcatProperties
  <2>2. \A k \in DOMAIN (a \o b) : \/ k \in DOMAIN a /\ (a \o b)[k] = a[k]
                                  \/ \E j \in DOMAIN b : (a \o b)[k] = b[j]
    BY <1>5, InConcat, SMTT(40)
  <2>3. \A j \in DOMAIN b : \E k \in DOMAIN (a \o b) : (a \o b)[k] = b[j]
    BY <1>5, InConcat, SMTT(40)
  <2> QED BY <2>1, <2>2, <2>3
<1>8. \A i \in DOMAIN ws : /\ a[i].of = p /\ a[i].status = o.status /\ a[i].value = o.value
                           /\ a[i].coro = ws[i] /\ a[i].then = PassOn(0)
  BY <1>3 DEF Resume
<1>9. \A i \in DOMAIN rs : /\ b[i].of = p /\ b[i].status = o.status /\ b[i].value = o.value
                           /\ b[i].coro = 0 /\ b[i].then = rs[i]
  BY <1>4 DEF React
<1> DEFINE W == Woken(P, p, o)
<1>14. W = a \o b
  BY <1>0
<1> HIDE DEF W
<1>10. ASSUME NEW U \in Proper
       PROVE  CountIn(a \o b, TasksFor(U)) = CountIn(rs, U)
  <2>1. PassOn(0) \notin U
    BY DEF Proper
  <2>2. CountIn(a, TasksFor(U)) = 0
    <3>1. \A i \in DOMAIN a : a[i] \notin TasksFor(U)
      BY <1>3, <1>8, <2>1 DEF TasksFor
    <3> QED BY <1>5, <3>1, CountFew
  <2>3. CountIn(b, TasksFor(U)) = CountIn(rs, U)
    <3>1. DOMAIN b = DOMAIN rs /\ \A i \in DOMAIN b : b[i] \in TasksFor(U) <=> rs[i] \in U
      BY <1>4, <1>9 DEF TasksFor
    <3> QED BY <3>1, CountSame
  <2>4. CountIn(a \o b, TasksFor(U)) = CountIn(a, TasksFor(U)) + CountIn(b, TasksFor(U))
    BY <1>5, CountConcat
  <2>5. CountIn(rs, U) \in Nat
    BY <1>1, CountNat
  <2> QED BY <2>2, <2>3, <2>4, <2>5
<1>11. ASSUME NEW c \in Crew
       PROVE  CountIn(a \o b, TasksOf(c)) = CountIn(ws, {c})
  <2>2. CountIn(b, TasksOf(c)) = 0
    <3>1. \A i \in DOMAIN b : b[i] \notin TasksOf(c)
      BY <1>4, <1>9 DEF TasksOf, Crew
    <3> QED BY <1>5, <3>1, CountFew
  <2>3. CountIn(a, TasksOf(c)) = CountIn(ws, {c})
    <3>1. DOMAIN a = DOMAIN ws /\ \A i \in DOMAIN a : a[i] \in TasksOf(c) <=> ws[i] \in {c}
      BY <1>3, <1>8 DEF TasksOf
    <3> QED BY <3>1, CountSame
  <2>4. CountIn(a \o b, TasksOf(c)) = CountIn(a, TasksOf(c)) + CountIn(b, TasksOf(c))
    BY <1>5, CountConcat
  <2>5. CountIn(ws, {c}) \in Nat
    BY <1>1, CountNat
  <2> QED BY <2>2, <2>3, <2>4, <2>5
<1>12. ASSUME NEW k \in DOMAIN W
       PROVE  LET t == W[k]
              IN  /\ t.of = p /\ t.status = o.status /\ t.value = o.value
                  /\ \/ \E i \in DOMAIN ws : t.coro = ws[i] /\ t.then = PassOn(0)
                     \/ \E i \in DOMAIN rs : t.coro = 0 /\ t.then = rs[i]
  <2>1. CASE \E i \in DOMAIN a : W[k] = a[i]
    BY <1>3, <1>8, <2>1
  <2>2. CASE \E i \in DOMAIN b : W[k] = b[i]
    BY <1>4, <1>9, <2>2
  <2> QED BY <1>7, <1>14, <2>1, <2>2
<1>13. \A i \in DOMAIN rs : \E k \in DOMAIN W : W[k].coro = 0 /\ W[k].then = rs[i]
  <2> TAKE i \in DOMAIN rs
  <2>1. PICK k \in DOMAIN W : W[k] = b[i]
    BY <1>4, <1>7, <1>14
  <2> QED BY <1>9, <2>1
<1>15. /\ \A U \in Proper : CountIn(W, TasksFor(U)) = CountIn(rs, U)
       /\ \A c \in Crew : CountIn(W, TasksOf(c)) = CountIn(ws, {c})
  BY <1>10, <1>11, <1>14
<1>16. Deliver(W, ws, rs, p, o)
  BY <1>12, <1>13 DEF Deliver
<1> QED BY <1>7, <1>14, <1>15, <1>16 DEF W, ws, rs

\* The two settled forms a promise takes.
LEMMA SettledPromise ==
    ASSUME NEW x \in PromiseT, NEW o, IsOutcome(o)
    PROVE  /\ SettledAs(x, o) \in PromiseT
           /\ SettledAs(x, o).status = o.status /\ SettledAs(x, o).value = o.value
           /\ SettledAs(x, o).from = x.from
           /\ SettledAs(x, o).waiters = <<>> /\ SettledAs(x, o).reactions = <<>>
<1>1. <<>> \in Seq(Crew) /\ <<>> \in Seq(ReactionType)
  OBVIOUS
<1>2. x.from \in Ids /\ o.value \in Ids /\ o.status \in {"pending", "fulfilled", "rejected"}
  BY DEF PromiseT, IsOutcome
<1> QED BY <1>1, <1>2 DEF SettledAs, PromiseT

\* Settling a pending promise: it has the outcome and keeps nobody, the others
\* are as before, and what it owed is queued.
LEMMA SettleStore ==
    ASSUME NEW S \in Store, Len(S.prom) <= MaxProm, NEW p \in DOMAIN S.prom, Open(S, p),
           NEW o, IsOutcome(o)
    PROVE  LET R == Settle(S, p, o)
           IN  /\ R \in Store /\ DOMAIN R.prom = DOMAIN S.prom /\ Len(R.prom) = Len(S.prom)
               /\ R.prom[p] = SettledAs(S.prom[p], o)
               /\ \A x \in DOMAIN S.prom \ {p} : R.prom[x] = S.prom[x]
               /\ R.queue = S.queue \o Woken(S.prom, p, o)
               /\ \A U \in Proper : Owed(R, U) = Owed(S, U)
               /\ \A c \in Crew : Waits(R, c) = Waits(S, c)
<1> USE BoundsAssumption
<1> DEFINE R == Settle(S, p, o)
           P == S.prom
           Q == S.queue
           W == Woken(P, p, o)
           a == SettledAs(P[p], o)
<1>1. P \in Seq(PromiseT) /\ Q \in Seq(TaskT) /\ P[p] \in PromiseT
  BY DEF Store
<1>2. p \in Ids /\ DOMAIN P = 1..Len(P)
  <2>1. DOMAIN P = 1..Len(P) /\ Len(P) \in Nat
    BY <1>1
  <2> QED BY <2>1 DEF Ids
<1>3. W \in Seq(TaskT)
  BY <1>1, <1>2, WokenTasks
<1>4. R.prom = [P EXCEPT ![p] = a] /\ R.queue = Q \o W /\ R = [prom |-> R.prom, queue |-> R.queue]
  BY DEF Settle, Open
<1>5. /\ a \in PromiseT /\ a.waiters = <<>> /\ a.reactions = <<>>
  BY <1>1, SettledPromise
<1> HIDE DEF R, W, a, P, Q
<1>6. /\ R.prom \in Seq(PromiseT) /\ Len(R.prom) = Len(P) /\ DOMAIN R.prom = DOMAIN P
      /\ R.prom[p] = a /\ \A x \in DOMAIN P \ {p} : R.prom[x] = P[x]
  BY <1>1, <1>2, <1>4, <1>5, ExceptSeq DEF P
<1>7. R.queue \in Seq(TaskT)
  BY <1>1, <1>3, <1>4, ConcatProperties
<1>8. R \in Store
  BY <1>4, <1>6, <1>7 DEF Store
<1>9. ASSUME NEW U \in Proper PROVE Owed(R, U) = Owed(S, U)
  <2> DEFINE F == ReactionsOf(P)
             G == ReactionsOf(R.prom)
  <2>1. /\ F \in Rows(ReactionType) /\ G \in Rows(ReactionType)
        /\ Len(G) = Len(F) /\ p \in DOMAIN F
    BY <1>6, <1>8, StoreLists DEF P, ReactionsOf
  <2>2. /\ \A x \in DOMAIN F \ {p} : G[x] = F[x]
        /\ F[p] = P[p].reactions /\ G[p] = <<>>
    BY <1>5, <1>6 DEF ReactionsOf, P
  <2> HIDE DEF F, G
  <2>3. Total(G, U) = Total(F, U) - CountIn(F[p], U) + CountIn(G[p], U)
    BY <2>1, <2>2, TotalUpdate
  <2>4. CountIn(R.queue, TasksFor(U)) = CountIn(Q, TasksFor(U)) + CountIn(W, TasksFor(U))
    BY <1>1, <1>3, <1>4, CountConcat
  <2>5. CountIn(W, TasksFor(U)) = CountIn(F[p], U) /\ CountIn(G[p], U) = 0
    BY <1>1, <1>2, <2>2, WokenTasks, CountEmpty DEF W, P
  <2>6. /\ Total(F, U) \in Nat /\ CountIn(F[p], U) \in Nat
        /\ CountIn(Q, TasksFor(U)) \in Nat
    <3>1. F[p] \in Seq(ReactionType)
      BY <2>1 DEF Rows
    <3> QED BY <1>1, <2>1, <3>1, CountNat, TotalNat
  <2> QED BY <2>3, <2>4, <2>5, <2>6 DEF Owed, F, G, P, Q
<1>11. \A d \in Crew : CountIn(W, TasksOf(d)) = CountIn(P[p].waiters, {d})
  <2>1. p \in DOMAIN P /\ p \in Ids /\ P \in Seq(PromiseT)
    BY <1>1, <1>2 DEF P
  <2>2. \A d \in Crew : CountIn(Woken(P, p, o), TasksOf(d)) = CountIn(P[p].waiters, {d})
    BY <2>1, WokenTasks
  <2> QED BY <2>2 DEF W
<1>10. ASSUME NEW c \in Crew PROVE Waits(R, c) = Waits(S, c)
  <2> DEFINE F == WaitersOf(P)
             G == WaitersOf(R.prom)
  <2>1. /\ F \in Rows(Crew) /\ G \in Rows(Crew)
        /\ Len(G) = Len(F) /\ p \in DOMAIN F
    BY <1>6, <1>8, StoreLists DEF P, WaitersOf
  <2>2. /\ \A x \in DOMAIN F \ {p} : G[x] = F[x]
        /\ F[p] = P[p].waiters /\ G[p] = <<>>
    BY <1>5, <1>6 DEF WaitersOf, P
  <2> HIDE DEF F, G
  <2>3. Total(G, {c}) = Total(F, {c}) - CountIn(F[p], {c}) + CountIn(G[p], {c})
    BY <2>1, <2>2, TotalUpdate
  <2>4. CountIn(R.queue, TasksOf(c)) = CountIn(Q, TasksOf(c)) + CountIn(W, TasksOf(c))
    BY <1>1, <1>3, <1>4, CountConcat
  <2>5. CountIn(W, TasksOf(c)) = CountIn(F[p], {c})
    BY <1>11, <2>2
  <2>7. CountIn(G[p], {c}) = 0
    BY <2>2, CountEmpty
  <2>6. /\ Total(F, {c}) \in Nat /\ CountIn(F[p], {c}) \in Nat
        /\ CountIn(Q, TasksOf(c)) \in Nat
    <3>1. F[p] \in Seq(Crew)
      BY <2>1 DEF Rows
    <3> QED BY <1>1, <2>1, <3>1, CountNat, TotalNat
  <2> QED BY <2>3, <2>4, <2>5, <2>6, <2>7 DEF Waits, F, G, P, Q
<1> QED BY <1>4, <1>6, <1>8, <1>9, <1>10 DEF R, P, Q, W, a

-----------------------------------------------------------------------------
(* What fits together in a store, with nc coroutines and the calls A of    *)
(* Promise.all.                                                            *)

\* A reaction at q leads to a promise, or to the slot that is about q.
ReactionFits(q, r, n, A) ==
    \/ r.slot = NoSlot /\ r.down \in 1..n
    \/ /\ r.slot \in (DOMAIN A) \X (1..AllSize) /\ r.down = 0
       /\ A[r.slot[1]].items[r.slot[2]] = q

PromiseFits(q, x, n, nc, A) ==
    /\ x.from \in 0..n
    /\ \A i \in DOMAIN x.waiters : x.waiters[i] \in 1..nc
    /\ \A i \in DOMAIN x.reactions : ReactionFits(q, x.reactions[i], n, A)
    /\ x.status # "pending" => x.waiters = <<>> /\ x.reactions = <<>>

TaskFits(t, P, nc, A) ==
    /\ t.of \in DOMAIN P /\ t.status = P[t.of].status /\ t.value = P[t.of].value
    /\ \/ t.coro \in 1..nc /\ t.then = PassOn(0)
       \/ t.coro = 0 /\ ReactionFits(t.of, t.then, Len(P), A)

Fits(S, nc, A) ==
    /\ \A q \in DOMAIN S.prom : PromiseFits(q, S.prom[q], Len(S.prom), nc, A)
    /\ \A k \in DOMAIN S.queue : TaskFits(S.queue[k], S.prom, nc, A)

\* What is settled stays as it is.
Kept(S, R) ==
    /\ Len(S.prom) <= Len(R.prom)
    /\ \A x \in DOMAIN S.prom : ~Open(S, x) => R.prom[x] = S.prom[x]

\* A promise that has adopted another: what passes the outcome on is on its way,
\* or has come.
PassesOn(t, q, p) == t.then = PassOn(p) /\ t.of = q
Linked(S, p, q) ==
    \/ \E i \in DOMAIN S.prom[q].reactions : S.prom[q].reactions[i] = PassOn(p)
    \/ \E k \in DOMAIN S.queue : PassesOn(S.queue[k], q, p)
Adopted(S, p) ==
    LET q == S.prom[p].from
    IN  q # 0 => IF Open(S, p) THEN Linked(S, p, q)
                 ELSE /\ ~Open(S, q)
                      /\ S.prom[p].status = S.prom[q].status /\ S.prom[p].value = S.prom[q].value

\* A longer list of promises takes nothing away from a reaction.
LEMMA FitsMore ==
    ASSUME NEW q, NEW r, NEW n \in Nat, NEW m \in Nat, n <= m, NEW A, ReactionFits(q, r, n, A)
    PROVE  ReactionFits(q, r, m, A)
BY DEF ReactionFits

\* A task that fits goes on fitting while what is settled is kept.
LEMMA TaskKept ==
    ASSUME NEW S \in Store, NEW R \in Store, Kept(S, R), NEW nc, NEW A,
           NEW t \in TaskT, TaskFits(t, S.prom, nc, A)
    PROVE  TaskFits(t, R.prom, nc, A)
<1>1. /\ Len(S.prom) \in Nat /\ Len(R.prom) \in Nat /\ Len(S.prom) <= Len(R.prom)
      /\ DOMAIN S.prom = 1..Len(S.prom) /\ DOMAIN R.prom = 1..Len(R.prom)
  BY DEF Store, Kept
<1>2. t.of \in DOMAIN S.prom /\ t.of \in DOMAIN R.prom
  BY <1>1 DEF TaskFits
<1>3. t.status # "pending"
  BY DEF TaskT
<1>4. R.prom[t.of] = S.prom[t.of]
  BY <1>2, <1>3 DEF TaskFits, Kept, Open
<1>5. ReactionFits(t.of, t.then, Len(S.prom), A) => ReactionFits(t.of, t.then, Len(R.prom), A)
  BY <1>1, FitsMore
<1> QED BY <1>2, <1>4, <1>5 DEF TaskFits

\* After a settlement all fits, what was settled is kept, and what adopted
\* another is on its way or has come.
LEMMA SettleFits ==
    ASSUME NEW S \in Store, Len(S.prom) <= MaxProm, NEW p \in DOMAIN S.prom, Open(S, p),
           NEW o, IsOutcome(o), NEW nc, NEW A, Fits(S, nc, A)
    PROVE  LET R == Settle(S, p, o)
           IN  /\ Fits(R, nc, A) /\ Kept(S, R)
               /\ \A x \in DOMAIN S.prom \ {p} : Adopted(S, x) => Adopted(R, x)
               /\ S.prom[p].from = 0 => Adopted(R, p)
               /\ ~Open(S, S.prom[p].from) /\ o.status = S.prom[S.prom[p].from].status
                    /\ o.value = S.prom[S.prom[p].from].value => Adopted(R, p)
<1> DEFINE R == Settle(S, p, o)
           W == Woken(S.prom, p, o)
           P == S.prom
<1> USE BoundsAssumption
<1>1. /\ S.prom \in Seq(PromiseT) /\ S.queue \in Seq(TaskT) /\ S.prom[p] \in PromiseT
      /\ Len(P) \in Nat /\ DOMAIN P = 1..Len(P) /\ p \in Ids
  <2>1. S.prom \in Seq(PromiseT) /\ S.queue \in Seq(TaskT)
    BY DEF Store
  <2> QED BY <2>1 DEF Ids
<1>2. /\ R \in Store /\ DOMAIN R.prom = DOMAIN P /\ Len(R.prom) = Len(P)
      /\ R.prom[p] = SettledAs(P[p], o)
      /\ \A x \in DOMAIN P \ {p} : R.prom[x] = P[x]
      /\ R.queue = S.queue \o W
  BY SettleStore, ZenonT(60)
<1>3. W \in Seq(TaskT) /\ Deliver(W, P[p].waiters, P[p].reactions, p, o)
  BY <1>1, WokenTasks
<1>4. /\ R.prom[p].status = o.status /\ R.prom[p].value = o.value /\ R.prom[p].from = P[p].from
      /\ R.prom[p].waiters = <<>> /\ R.prom[p].reactions = <<>>
  BY <1>1, <1>2, SettledPromise
<1> HIDE DEF R, W
<1>5. Kept(S, R)
  BY <1>1, <1>2 DEF Kept, Open
<1>6. ASSUME NEW q \in DOMAIN R.prom PROVE PromiseFits(q, R.prom[q], Len(R.prom), nc, A)
  <2>1. PromiseFits(q, P[q], Len(P), nc, A)
    BY <1>2 DEF Fits
  <2>2. CASE q = p
    BY <1>2, <1>4, <2>1, <2>2 DEF PromiseFits
  <2>3. CASE q # p
    BY <1>2, <2>1, <2>3
  <2> QED BY <2>2, <2>3
<1>7. ASSUME NEW k \in DOMAIN W PROVE TaskFits(W[k], R.prom, nc, A)
  <2>1. /\ W[k].of = p /\ W[k].status = o.status /\ W[k].value = o.value
        /\ \/ \E i \in DOMAIN P[p].waiters : W[k].coro = P[p].waiters[i] /\ W[k].then = PassOn(0)
           \/ \E i \in DOMAIN P[p].reactions : W[k].coro = 0 /\ W[k].then = P[p].reactions[i]
    BY <1>3 DEF Deliver
  <2>2. PromiseFits(p, P[p], Len(P), nc, A)
    BY DEF Fits
  <2>3. \/ W[k].coro \in 1..nc /\ W[k].then = PassOn(0)
        \/ W[k].coro = 0 /\ ReactionFits(p, W[k].then, Len(P), A)
    BY <2>1, <2>2 DEF PromiseFits
  <2> QED BY <1>2, <1>4, <2>1, <2>3 DEF TaskFits
<1>8. ASSUME NEW k \in DOMAIN R.queue PROVE TaskFits(R.queue[k], R.prom, nc, A)
  <2>1. \/ k \in DOMAIN S.queue /\ R.queue[k] = S.queue[k]
        \/ \E j \in DOMAIN W : R.queue[k] = W[j]
    BY <1>1, <1>2, <1>3, InConcat, SMTT(40)
  <2>2. ASSUME k \in DOMAIN S.queue PROVE TaskFits(S.queue[k], R.prom, nc, A)
    <3>1. S.queue[k] \in TaskT /\ TaskFits(S.queue[k], P, nc, A)
      BY <1>1, <2>2 DEF Fits
    <3> QED BY <1>2, <1>5, <3>1, TaskKept
  <2> QED BY <1>7, <2>1, <2>2
<1>9. Fits(R, nc, A)
  BY <1>6, <1>8 DEF Fits
<1>10. ASSUME NEW x \in DOMAIN P \ {p}, Adopted(S, x) PROVE Adopted(R, x)
  <2> DEFINE q == P[x].from
  <2>1. R.prom[x] = P[x] /\ q \in 0..Len(P)
    BY <1>2 DEF Fits, PromiseFits
  <2>2. CASE q = 0
    BY <2>1, <2>2 DEF Adopted
  <2>3. CASE q # 0 /\ ~Open(S, x)
    <3>1. ~Open(S, q) /\ q \in DOMAIN P /\ q # p
      BY <1>1, <1>10, <2>1, <2>3 DEF Adopted
    <3>2. R.prom[q] = P[q]
      BY <1>2, <3>1
    <3> QED BY <1>10, <2>1, <2>3, <3>1, <3>2 DEF Adopted, Open
  <2>4. CASE q # 0 /\ Open(S, x)
    <3>1. Linked(S, x, q) /\ q \in DOMAIN P
      BY <1>1, <1>10, <2>1, <2>4 DEF Adopted
    <3>2. Linked(R, x, q)
      <4>1. CASE \E k \in DOMAIN S.queue : PassesOn(S.queue[k], q, x)
        <5>1. PICK k \in DOMAIN S.queue : PassesOn(S.queue[k], q, x)
          BY <4>1
        <5>2. k \in DOMAIN R.queue /\ R.queue[k] = S.queue[k]
          BY <1>1, <1>2, <1>3, InConcat
        <5> QED BY <5>1, <5>2 DEF Linked
      <4>2. CASE q # p /\ \E i \in DOMAIN P[q].reactions : P[q].reactions[i] = PassOn(x)
        BY <1>2, <3>1, <4>2 DEF Linked
      <4>3. CASE q = p /\ \E i \in DOMAIN P[q].reactions : P[q].reactions[i] = PassOn(x)
        <5>1. PICK j \in DOMAIN W : W[j].then = PassOn(x)
          BY <1>3, <4>3 DEF Deliver
        <5>2. PassesOn(W[j], q, x)
          BY <1>3, <4>3, <5>1 DEF Deliver, PassesOn
        <5>3. \E k \in DOMAIN R.queue : R.queue[k] = W[j]
          <6> DEFINE Q == S.queue
          <6>1. Q \in Seq(TaskT) /\ W \in Seq(TaskT) /\ R.queue = Q \o W
            BY <1>1, <1>2, <1>3
          <6> HIDE DEF Q
          <6>2. \E k \in DOMAIN (Q \o W) : (Q \o W)[k] = W[j]
            BY <6>1, InConcat, SMTT(40)
          <6> QED BY <6>1, <6>2
        <5> QED BY <5>2, <5>3 DEF Linked
      <4> QED BY <3>1, <4>1, <4>2, <4>3 DEF Linked
    <3> QED BY <2>1, <2>4, <3>2 DEF Adopted, Open
  <2> QED BY <2>2, <2>3, <2>4
<1>11. P[p].from = 0 => Adopted(R, p)
  BY <1>4 DEF Adopted
<1>12. ASSUME ~Open(S, P[p].from), o.status = P[P[p].from].status, o.value = P[P[p].from].value
       PROVE  Adopted(R, p)
  <2> DEFINE q == P[p].from
  <2>1. CASE q = 0
    BY <1>11, <2>1
  <2>2. CASE q # 0
    <3>1. q \in DOMAIN P \ {p}
      BY <1>1, <1>12, <2>2 DEF Fits, PromiseFits
    <3>2. R.prom[q] = P[q]
      BY <1>2, <3>1
    <3>3. ~Open(R, p) /\ ~Open(R, q)
      BY <1>4, <1>12, <3>2 DEF Open, IsOutcome
    <3> QED BY <1>4, <1>12, <3>2, <3>3 DEF Adopted
  <2> QED BY <2>1, <2>2
<1> QED BY <1>5, <1>9, <1>10, <1>11, <1>12 DEF R

-----------------------------------------------------------------------------
(* The three small steps operations are made of: a promise written, a task *)
(* queued, a task taken.                                                   *)

Put(S, p, a) == [prom |-> [S.prom EXCEPT ![p] = a], queue |-> S.queue]
Enqueue(S, t) == [prom |-> S.prom, queue |-> Append(S.queue, t)]
Dequeue(S) == [prom |-> S.prom, queue |-> Tail(S.queue)]

\* A store is its two parts.
LEMMA StoreParts ==
    ASSUME NEW S \in Store
    PROVE  /\ S = [prom |-> S.prom, queue |-> S.queue]
           /\ S.prom \in Seq(PromiseT) /\ S.queue \in Seq(TaskT)
           /\ Len(S.prom) \in Nat /\ DOMAIN S.prom = 1..Len(S.prom)
           /\ Len(S.queue) \in Nat /\ DOMAIN S.queue = 1..Len(S.queue)
           /\ \A p \in DOMAIN S.prom : S.prom[p] \in PromiseT
           /\ \A k \in DOMAIN S.queue : S.queue[k] \in TaskT
BY DEF Store

\* A promise written.
LEMMA PutStore ==
    ASSUME NEW S \in Store, NEW p \in DOMAIN S.prom, NEW a \in PromiseT
    PROVE  /\ Put(S, p, a) \in Store
           /\ Len(Put(S, p, a).prom) = Len(S.prom) /\ DOMAIN Put(S, p, a).prom = DOMAIN S.prom
           /\ Put(S, p, a).prom[p] = a /\ Put(S, p, a).queue = S.queue
           /\ \A x \in DOMAIN S.prom \ {p} : Put(S, p, a).prom[x] = S.prom[x]
<1>1. S.prom \in Seq(PromiseT) /\ S.queue \in Seq(TaskT) /\ DOMAIN S.prom = 1..Len(S.prom)
  BY StoreParts
<1> DEFINE P == [S.prom EXCEPT ![p] = a]
<1>2. P \in Seq(PromiseT) /\ Len(P) = Len(S.prom) /\ DOMAIN P = DOMAIN S.prom /\ P[p] = a
      /\ \A x \in DOMAIN S.prom \ {p} : P[x] = S.prom[x]
  BY <1>1, ExceptSeq
<1>3. Put(S, p, a).prom = P /\ Put(S, p, a).queue = S.queue
  BY DEF Put
<1>4. Put(S, p, a) \in Store
  <2> HIDE DEF P
  <2>1. Put(S, p, a) = [prom |-> P, queue |-> S.queue]
    BY DEF Put, P
  <2> QED BY <1>1, <1>2, <2>1 DEF Store
<1> HIDE DEF P
<1> QED BY <1>2, <1>3, <1>4

\* ... changes what is owed by its reactions and its waiters.
LEMMA PutCounts ==
    ASSUME NEW S \in Store, NEW p \in DOMAIN S.prom, NEW a \in PromiseT
    PROVE  /\ \A U : Owed(Put(S, p, a), U)
                       = Owed(S, U) - CountIn(S.prom[p].reactions, U) + CountIn(a.reactions, U)
           /\ \A c : Waits(Put(S, p, a), c)
                       = Waits(S, c) - CountIn(S.prom[p].waiters, {c}) + CountIn(a.waiters, {c})
<1> DEFINE R == Put(S, p, a)
<1>1. /\ R \in Store /\ Len(R.prom) = Len(S.prom) /\ DOMAIN R.prom = DOMAIN S.prom
      /\ R.prom[p] = a /\ R.queue = S.queue
      /\ \A x \in DOMAIN S.prom \ {p} : R.prom[x] = S.prom[x]
  BY PutStore
<1> HIDE DEF R
<1>2. /\ S.prom[p].reactions \in Seq(ReactionType) /\ a.reactions \in Seq(ReactionType)
      /\ S.prom[p].waiters \in Seq(Crew) /\ a.waiters \in Seq(Crew)
  <2>1. S.prom[p] \in PromiseT
    BY StoreParts
  <2> QED BY <2>1 DEF PromiseT
<1>3. S.queue \in Seq(TaskT)
  BY StoreParts
<1>4. ASSUME NEW U
      PROVE  Owed(R, U) = Owed(S, U) - CountIn(S.prom[p].reactions, U) + CountIn(a.reactions, U)
  <2> DEFINE F == ReactionsOf(S.prom)
             G == ReactionsOf(R.prom)
  <2>1. /\ F \in Rows(ReactionType) /\ G \in Rows(ReactionType) /\ Len(G) = Len(F)
    BY <1>1, StoreLists
  <2>2. /\ p \in DOMAIN F /\ F[p] = S.prom[p].reactions /\ G[p] = a.reactions
        /\ \A x \in DOMAIN F \ {p} : G[x] = F[x]
    BY <1>1 DEF ReactionsOf
  <2> HIDE DEF F, G
  <2>3. Total(G, U) = Total(F, U) - CountIn(F[p], U) + CountIn(G[p], U)
    BY <2>1, <2>2, TotalUpdate
  <2>4. /\ CountIn(F[p], U) \in Nat /\ CountIn(G[p], U) \in Nat /\ Total(F, U) \in Nat
        /\ CountIn(S.queue, TasksFor(U)) \in Nat
    BY <1>2, <1>3, <2>1, <2>2, CountNat, TotalNat
  <2>5. /\ Owed(R, U) = Total(G, U) + CountIn(S.queue, TasksFor(U))
        /\ Owed(S, U) = Total(F, U) + CountIn(S.queue, TasksFor(U))
    BY <1>1 DEF Owed, F, G
  <2> QED BY <2>2, <2>3, <2>4, <2>5
<1>5. ASSUME NEW c
      PROVE  Waits(R, c) = Waits(S, c) - CountIn(S.prom[p].waiters, {c}) + CountIn(a.waiters, {c})
  <2> DEFINE F == WaitersOf(S.prom)
             G == WaitersOf(R.prom)
  <2>1. /\ F \in Rows(Crew) /\ G \in Rows(Crew) /\ Len(G) = Len(F)
    BY <1>1, StoreLists
  <2>2. /\ p \in DOMAIN F /\ F[p] = S.prom[p].waiters /\ G[p] = a.waiters
        /\ \A x \in DOMAIN F \ {p} : G[x] = F[x]
    BY <1>1 DEF WaitersOf
  <2> HIDE DEF F, G
  <2>3. Total(G, {c}) = Total(F, {c}) - CountIn(F[p], {c}) + CountIn(G[p], {c})
    BY <2>1, <2>2, TotalUpdate
  <2>4. /\ CountIn(F[p], {c}) \in Nat /\ CountIn(G[p], {c}) \in Nat /\ Total(F, {c}) \in Nat
        /\ CountIn(S.queue, TasksOf(c)) \in Nat
    BY <1>2, <1>3, <2>1, <2>2, CountNat, TotalNat
  <2>5. /\ Waits(R, c) = Total(G, {c}) + CountIn(S.queue, TasksOf(c))
        /\ Waits(S, c) = Total(F, {c}) + CountIn(S.queue, TasksOf(c))
    BY <1>1 DEF Waits, F, G
  <2> QED BY <2>2, <2>3, <2>4, <2>5
<1> QED BY <1>4, <1>5 DEF R

\* What is owed is a number.
LEMMA OwedNat ==
    ASSUME NEW S \in Store
    PROVE  (\A U : Owed(S, U) \in Nat) /\ (\A c : Waits(S, c) \in Nat)
<1>1. /\ ReactionsOf(S.prom) \in Rows(ReactionType) /\ WaitersOf(S.prom) \in Rows(Crew)
      /\ S.queue \in Seq(TaskT)
  BY StoreLists, StoreParts
<1>2. \A U : Total(ReactionsOf(S.prom), U) \in Nat /\ CountIn(S.queue, TasksFor(U)) \in Nat
  BY <1>1, CountNat, TotalNat
<1>3. \A c : Total(WaitersOf(S.prom), {c}) \in Nat /\ CountIn(S.queue, TasksOf(c)) \in Nat
  BY <1>1, CountNat, TotalNat
<1> QED BY <1>2, <1>3 DEF Owed, Waits

\* A task queued.
LEMMA EnqueueStore ==
    ASSUME NEW S \in Store, NEW t \in TaskT
    PROVE  /\ Enqueue(S, t) \in Store /\ Enqueue(S, t).prom = S.prom
           /\ Enqueue(S, t).queue = Append(S.queue, t)
           /\ \A U : Owed(Enqueue(S, t), U) = Owed(S, U) + Flag(t.then \in U)
           /\ \A c : Waits(Enqueue(S, t), c) = Waits(S, c) + Flag(t.coro = c)
<1> DEFINE R == Enqueue(S, t)
<1>1. R.prom = S.prom /\ R.queue = Append(S.queue, t) /\ R = [prom |-> R.prom, queue |-> R.queue]
  BY DEF Enqueue
<1>2. S.prom \in Seq(PromiseT) /\ S.queue \in Seq(TaskT)
  BY StoreParts
<1>3. R.queue \in Seq(TaskT)
  BY <1>1, <1>2, AppendProperties
<1> HIDE DEF R
<1>4. R \in Store
  BY <1>1, <1>2, <1>3 DEF Store
<1>5. ASSUME NEW U PROVE Owed(R, U) = Owed(S, U) + Flag(t.then \in U)
  <2>1. CountIn(R.queue, TasksFor(U)) = CountIn(S.queue, TasksFor(U)) + Flag(t \in TasksFor(U))
    BY <1>1, <1>2, CountAppend
  <2>2. t \in TasksFor(U) <=> t.then \in U
    BY DEF TasksFor
  <2>3. CountIn(S.queue, TasksFor(U)) \in Nat /\ Total(ReactionsOf(S.prom), U) \in Nat
    BY <1>2, CountNat, TotalNat, StoreLists
  <2> QED BY <1>1, <2>1, <2>2, <2>3 DEF Owed, Flag
<1>6. ASSUME NEW c PROVE Waits(R, c) = Waits(S, c) + Flag(t.coro = c)
  <2>1. CountIn(R.queue, TasksOf(c)) = CountIn(S.queue, TasksOf(c)) + Flag(t \in TasksOf(c))
    BY <1>1, <1>2, CountAppend
  <2>2. t \in TasksOf(c) <=> t.coro = c
    BY DEF TasksOf
  <2>3. CountIn(S.queue, TasksOf(c)) \in Nat /\ Total(WaitersOf(S.prom), {c}) \in Nat
    BY <1>2, CountNat, TotalNat, StoreLists
  <2> QED BY <1>1, <2>1, <2>2, <2>3 DEF Waits, Flag
<1> QED BY <1>1, <1>4, <1>5, <1>6 DEF R

\* A task taken.
LEMMA DequeueStore ==
    ASSUME NEW S \in Store, S.queue # <<>>
    PROVE  /\ Dequeue(S) \in Store /\ Dequeue(S).prom = S.prom
           /\ Dequeue(S).queue = Tail(S.queue) /\ Head(S.queue) \in TaskT
           /\ \A U : Owed(Dequeue(S), U) = Owed(S, U) - Flag(Head(S.queue).then \in U)
           /\ \A c : Waits(Dequeue(S), c) = Waits(S, c) - Flag(Head(S.queue).coro = c)
<1> DEFINE R == Dequeue(S)
           t == Head(S.queue)
<1>1. R.prom = S.prom /\ R.queue = Tail(S.queue) /\ R = [prom |-> R.prom, queue |-> R.queue]
  BY DEF Dequeue
<1>2. S.prom \in Seq(PromiseT) /\ S.queue \in Seq(TaskT)
  BY StoreParts
<1>3. R.queue \in Seq(TaskT) /\ t \in TaskT
  BY <1>1, <1>2, HeadTailProperties
<1> HIDE DEF R
<1>4. R \in Store
  BY <1>1, <1>2, <1>3 DEF Store
<1>5. ASSUME NEW U PROVE Owed(R, U) = Owed(S, U) - Flag(t.then \in U)
  <2>1. CountIn(R.queue, TasksFor(U)) = CountIn(S.queue, TasksFor(U)) - Flag(t \in TasksFor(U))
    BY <1>1, <1>2, CountTail
  <2>2. t \in TasksFor(U) <=> t.then \in U
    BY <1>3 DEF TasksFor
  <2>3. CountIn(S.queue, TasksFor(U)) \in Nat /\ Total(ReactionsOf(S.prom), U) \in Nat
    BY <1>2, CountNat, TotalNat, StoreLists
  <2> HIDE DEF t
  <2> QED BY <1>1, <2>1, <2>2, <2>3 DEF Owed, Flag
<1>6. ASSUME NEW c PROVE Waits(R, c) = Waits(S, c) - Flag(t.coro = c)
  <2>1. CountIn(R.queue, TasksOf(c)) = CountIn(S.queue, TasksOf(c)) - Flag(t \in TasksOf(c))
    BY <1>1, <1>2, CountTail
  <2>2. t \in TasksOf(c) <=> t.coro = c
    BY <1>3 DEF TasksOf
  <2>3. CountIn(S.queue, TasksOf(c)) \in Nat /\ Total(WaitersOf(S.prom), {c}) \in Nat
    BY <1>2, CountNat, TotalNat, StoreLists
  <2> HIDE DEF t
  <2> QED BY <1>1, <2>1, <2>2, <2>3 DEF Waits, Flag
<1> HIDE DEF t
<1>7. R.prom = S.prom /\ R.queue = Tail(S.queue) /\ R \in Store /\ t \in TaskT
  BY <1>1, <1>3, <1>4
<1> QED BY <1>5, <1>6, <1>7 DEF R, t

\* A promise as it was, all that was settled kept, and every link kept: what it
\* has adopted is as it was.
LEMMA AdoptedKept ==
    ASSUME NEW S \in Store, NEW R \in Store, Kept(S, R), NEW x \in DOMAIN S.prom,
           R.prom[x].from = S.prom[x].from, S.prom[x].from \in 0..Len(S.prom),
           Open(R, x) <=> Open(S, x), Adopted(S, x),
           \A q \in DOMAIN S.prom : Linked(S, x, q) => Linked(R, x, q)
    PROVE  Adopted(R, x)
<1> DEFINE q == S.prom[x].from
<1>1. q = 0 \/ q \in DOMAIN S.prom
  BY StoreParts
<1>2. CASE q = 0
  BY <1>2 DEF Adopted
<1>3. CASE q \in DOMAIN S.prom /\ q # 0 /\ Open(S, x)
  BY <1>3 DEF Adopted
<1>4. CASE q \in DOMAIN S.prom /\ q # 0 /\ ~Open(S, x)
  <2>1. ~Open(S, q) /\ S.prom[x].status = S.prom[q].status /\ S.prom[x].value = S.prom[q].value
    BY <1>4 DEF Adopted
  <2>2. R.prom[q] = S.prom[q] /\ R.prom[x] = S.prom[x]
    BY <1>4, <2>1 DEF Kept
  <2> QED BY <1>4, <2>1, <2>2 DEF Adopted, Open
<1> QED BY <1>1, <1>2, <1>3, <1>4

\* A pending promise written, with no reaction lost, fits with the rest.
LEMMA PutFits ==
    ASSUME NEW S \in Store, NEW p \in DOMAIN S.prom, NEW a \in PromiseT, Open(S, p),
           a.status = "pending", NEW nc, NEW A, Fits(S, nc, A),
           PromiseFits(p, a, Len(S.prom), nc, A),
           \A i \in DOMAIN S.prom[p].reactions :
              \E j \in DOMAIN a.reactions : a.reactions[j] = S.prom[p].reactions[i]
    PROVE  LET R == Put(S, p, a)
           IN  /\ Fits(R, nc, A) /\ Kept(S, R)
               /\ \A x \in DOMAIN S.prom : Open(R, x) <=> Open(S, x)
               /\ \A x \in DOMAIN S.prom \ {p} : Adopted(S, x) => Adopted(R, x)
               /\ \A x, q \in DOMAIN S.prom : Linked(S, x, q) => Linked(R, x, q)
               /\ a.from = S.prom[p].from /\ Adopted(S, p) => Adopted(R, p)
<1> DEFINE R == Put(S, p, a)
<1>1. /\ R \in Store /\ Len(R.prom) = Len(S.prom) /\ DOMAIN R.prom = DOMAIN S.prom
      /\ R.prom[p] = a /\ R.queue = S.queue
      /\ \A x \in DOMAIN S.prom \ {p} : R.prom[x] = S.prom[x]
  BY PutStore
<1> HIDE DEF R
<1>2. \A x \in DOMAIN S.prom : Open(R, x) <=> Open(S, x)
  BY <1>1 DEF Open
<1>3. Kept(S, R)
  <2>1. \A x \in DOMAIN S.prom : ~Open(S, x) => x # p
    OBVIOUS
  <2>2. Len(S.prom) \in Nat
    BY StoreParts
  <2> QED BY <1>1, <2>1, <2>2 DEF Kept
<1>4. ASSUME NEW q \in DOMAIN R.prom PROVE PromiseFits(q, R.prom[q], Len(R.prom), nc, A)
  <2>1. PromiseFits(q, S.prom[q], Len(S.prom), nc, A)
    BY <1>1 DEF Fits
  <2> QED BY <1>1, <2>1
<1>5. ASSUME NEW k \in DOMAIN R.queue PROVE TaskFits(R.queue[k], R.prom, nc, A)
  <2>1. R.queue[k] \in TaskT /\ TaskFits(R.queue[k], S.prom, nc, A)
    BY <1>1, StoreParts DEF Fits
  <2> QED BY <1>1, <1>3, <2>1, TaskKept
<1>6. Fits(R, nc, A)
  BY <1>4, <1>5 DEF Fits
<1>7. \A x, q \in DOMAIN S.prom : Linked(S, x, q) => Linked(R, x, q)
  <2> TAKE x, q \in DOMAIN S.prom
  <2>1. CASE q = p
    BY <1>1, <2>1 DEF Linked
  <2>2. CASE q # p
    BY <1>1, <2>2 DEF Linked
  <2> QED BY <2>1, <2>2
<1>8. ASSUME NEW x \in DOMAIN S.prom, R.prom[x].from = S.prom[x].from, Adopted(S, x)
      PROVE  Adopted(R, x)
  <2>1. S.prom[x].from \in 0..Len(S.prom)
    BY DEF Fits, PromiseFits
  <2> QED BY <1>1, <1>2, <1>3, <1>7, <1>8, <2>1, AdoptedKept
<1>9. /\ \A x \in DOMAIN S.prom \ {p} : Adopted(S, x) => Adopted(R, x)
      /\ a.from = S.prom[p].from /\ Adopted(S, p) => Adopted(R, p)
  BY <1>1, <1>8
<1> QED BY <1>2, <1>3, <1>6, <1>7, <1>9 DEF R

\* A fitting task queued.
LEMMA EnqueueFits ==
    ASSUME NEW S \in Store, NEW t \in TaskT, NEW nc, NEW A, Fits(S, nc, A), TaskFits(t, S.prom, nc, A)
    PROVE  LET R == Enqueue(S, t)
           IN  /\ Fits(R, nc, A) /\ Kept(S, R)
               /\ \A x \in DOMAIN S.prom : Adopted(S, x) => Adopted(R, x)
<1> DEFINE R == Enqueue(S, t)
<1>1. R \in Store /\ R.prom = S.prom /\ R.queue = Append(S.queue, t)
  BY EnqueueStore
<1> HIDE DEF R
<1>2. Kept(S, R)
  BY <1>1, StoreParts DEF Kept
<1>3. S.queue \in Seq(TaskT)
  BY StoreParts
<1>4. /\ \A k \in DOMAIN R.queue : R.queue[k] = t \/ (k \in DOMAIN S.queue /\ R.queue[k] = S.queue[k])
      /\ \A k \in DOMAIN S.queue : k \in DOMAIN R.queue /\ R.queue[k] = S.queue[k]
  BY <1>1, <1>3
<1>5. Fits(R, nc, A)
  BY <1>1, <1>4 DEF Fits
<1>6. ASSUME NEW x \in DOMAIN S.prom, Adopted(S, x) PROVE Adopted(R, x)
  <2>1. S.prom[x].from \in 0..Len(S.prom)
    BY DEF Fits, PromiseFits
  <2>2. \A q \in DOMAIN S.prom : Linked(S, x, q) => Linked(R, x, q)
    BY <1>1, <1>4 DEF Linked
  <2> QED BY <1>1, <1>2, <1>6, <2>1, <2>2, AdoptedKept DEF Open
<1> QED BY <1>2, <1>5, <1>6 DEF R

\* A task taken that passes no outcome on to x.
LEMMA DequeueFits ==
    ASSUME NEW S \in Store, S.queue # <<>>, NEW nc, NEW A, Fits(S, nc, A)
    PROVE  LET R == Dequeue(S)
           IN  /\ Fits(R, nc, A) /\ Kept(S, R)
               /\ TaskFits(Head(S.queue), S.prom, nc, A)
               /\ \A x \in DOMAIN S.prom : Head(S.queue).then # PassOn(x) /\ Adopted(S, x) => Adopted(R, x)
<1> DEFINE R == Dequeue(S)
<1>1. R \in Store /\ R.prom = S.prom /\ R.queue = Tail(S.queue)
  BY DequeueStore
<1> HIDE DEF R
<1>2. Kept(S, R)
  BY <1>1, StoreParts DEF Kept
<1>3. S.queue \in Seq(TaskT) /\ S.queue # <<>>
  BY StoreParts
<1>4. /\ Head(S.queue) = S.queue[1] /\ 1 \in DOMAIN S.queue
      /\ \A k \in DOMAIN R.queue : k + 1 \in DOMAIN S.queue /\ R.queue[k] = S.queue[k + 1]
      /\ \A k \in DOMAIN S.queue : k # 1 => k - 1 \in DOMAIN R.queue /\ R.queue[k - 1] = S.queue[k]
  BY <1>1, <1>3
<1>5. Fits(R, nc, A)
  BY <1>1, <1>4 DEF Fits
<1>6. TaskFits(Head(S.queue), S.prom, nc, A)
  BY <1>4 DEF Fits
<1>7. ASSUME NEW x \in DOMAIN S.prom, Head(S.queue).then # PassOn(x), Adopted(S, x)
      PROVE  Adopted(R, x)
  <2>1. S.prom[x].from \in 0..Len(S.prom)
    BY DEF Fits, PromiseFits
  <2>2. ASSUME NEW q \in DOMAIN S.prom, Linked(S, x, q) PROVE Linked(R, x, q)
    <3>1. CASE \E i \in DOMAIN S.prom[q].reactions : S.prom[q].reactions[i] = PassOn(x)
      BY <1>1, <3>1 DEF Linked
    <3>2. CASE \E k \in DOMAIN S.queue : PassesOn(S.queue[k], q, x)
      <4>1. PICK k \in DOMAIN S.queue : PassesOn(S.queue[k], q, x)
        BY <3>2
      <4>2. k # 1
        BY <1>4, <1>7, <4>1 DEF PassesOn
      <4>3. k - 1 \in DOMAIN R.queue /\ PassesOn(R.queue[k - 1], q, x)
        BY <1>4, <4>1, <4>2
      <4> QED BY <4>3 DEF Linked
    <3> QED BY <2>2, <3>1, <3>2 DEF Linked
  <2> QED BY <1>1, <1>2, <1>7, <2>1, <2>2, AdoptedKept DEF Open
<1> QED BY <1>2, <1>5, <1>6, <1>7 DEF R

-----------------------------------------------------------------------------
(* The operators on promises and queue.                                    *)

\* A promise created is pending, and nothing leads to it.
LEMMA CreateStore ==
    ASSUME NEW S \in Store
    PROVE  LET R == Create(S)
               n == Len(S.prom) + 1
           IN  /\ R \in Store /\ Len(R.prom) = n /\ R.prom[n] = Fresh
               /\ \A x \in DOMAIN S.prom : R.prom[x] = S.prom[x]
               /\ R.queue = S.queue
               /\ \A U : Owed(R, U) = Owed(S, U)
               /\ \A c : Waits(R, c) = Waits(S, c)
<1> DEFINE R == Create(S)
           n == Len(S.prom) + 1
<1>1. S.prom \in Seq(PromiseT) /\ S.queue \in Seq(TaskT) /\ S = [prom |-> S.prom, queue |-> S.queue]
  BY StoreParts
<1>2. R.prom = Append(S.prom, Fresh) /\ R.queue = S.queue
  BY DEF Create, Store
<1>3. Fresh \in PromiseT
  <2>1. <<>> \in Seq(Crew) /\ <<>> \in Seq(ReactionType) /\ 0 \in Ids
    BY BoundsAssumption DEF Ids
  <2> QED BY <2>1 DEF Fresh, PromiseT, Null
<1>10. R.prom \in Seq(PromiseT) => R \in Store
  BY <1>2 DEF Create, Store
<1> HIDE DEF R
<1>4. /\ R.prom \in Seq(PromiseT) /\ Len(R.prom) = n /\ R.prom[n] = Fresh
      /\ \A x \in DOMAIN S.prom : R.prom[x] = S.prom[x]
      /\ DOMAIN R.prom = DOMAIN S.prom \cup {n} /\ n \notin DOMAIN S.prom
  <2> HIDE DEF Fresh
  <2> QED BY <1>1, <1>2, <1>3
<1>5. R \in Store
  BY <1>4, <1>10
<1>6. Fresh.waiters = <<>> /\ Fresh.reactions = <<>>
  BY DEF Fresh
<1>7. \A U : Total(ReactionsOf(R.prom), U) = Total(ReactionsOf(S.prom), U)
  <2> TAKE U
  <2> DEFINE F == ReactionsOf(S.prom)
             G == ReactionsOf(R.prom)
  <2>1. /\ DOMAIN F = DOMAIN S.prom /\ DOMAIN G = DOMAIN S.prom \cup {n}
        /\ \A q \in DOMAIN F : G[q] = F[q]
        /\ G[n] = <<>>
    BY <1>4, <1>6 DEF ReactionsOf
  <2> HIDE DEF F, G
  <2>2. DOMAIN <<>> = {}
    OBVIOUS
  <2>3. \A q, i : (q \in DOMAIN F /\ i \in DOMAIN F[q] /\ F[q][i] \in U) <=>
                       (q \in DOMAIN G /\ i \in DOMAIN G[q] /\ G[q][i] \in U)
    BY <1>4, <2>1, <2>2
  <2>4. Total(F, U) = Total(G, U)
    BY <2>3, TotalSame
  <2> QED BY <2>4 DEF F, G
<1>8. \A c : Total(WaitersOf(R.prom), {c}) = Total(WaitersOf(S.prom), {c})
  <2> TAKE c
  <2> DEFINE F == WaitersOf(S.prom)
             G == WaitersOf(R.prom)
  <2>1. /\ DOMAIN F = DOMAIN S.prom /\ DOMAIN G = DOMAIN S.prom \cup {n}
        /\ \A q \in DOMAIN F : G[q] = F[q]
        /\ G[n] = <<>>
    BY <1>4, <1>6 DEF WaitersOf
  <2> HIDE DEF F, G
  <2>2. DOMAIN <<>> = {}
    OBVIOUS
  <2>3. \A q, i : (q \in DOMAIN F /\ i \in DOMAIN F[q] /\ F[q][i] \in {c}) <=>
                       (q \in DOMAIN G /\ i \in DOMAIN G[q] /\ G[q][i] \in {c})
    BY <1>4, <2>1, <2>2
  <2>4. Total(F, {c}) = Total(G, {c})
    BY <2>3, TotalSame
  <2> QED BY <2>4 DEF F, G
<1>9. R.queue = S.queue
  BY <1>2
<1> QED BY <1>4, <1>5, <1>7, <1>8, <1>9 DEF R, Owed, Waits

\* ... and all fits as before.
LEMMA CreateFits ==
    ASSUME NEW S \in Store, NEW nc, NEW A, Fits(S, nc, A)
    PROVE  LET R == Create(S)
               n == Len(S.prom) + 1
           IN  /\ Fits(R, nc, A) /\ Kept(S, R) /\ Open(R, n) /\ Adopted(R, n)
               /\ \A x \in DOMAIN S.prom : /\ Open(R, x) <=> Open(S, x)
                                           /\ Adopted(S, x) => Adopted(R, x)
<1> DEFINE R == Create(S)
           n == Len(S.prom) + 1
<1>1. /\ R \in Store /\ Len(R.prom) = n /\ R.prom[n] = Fresh /\ R.queue = S.queue
      /\ \A x \in DOMAIN S.prom : R.prom[x] = S.prom[x]
  BY CreateStore
<1> HIDE DEF R
<1>2. Len(S.prom) \in Nat /\ DOMAIN S.prom = 1..Len(S.prom) /\ DOMAIN R.prom = 1..n
  BY <1>1, StoreParts
<1>3. Kept(S, R)
  BY <1>1, <1>2 DEF Kept
<1>4. ASSUME NEW q \in DOMAIN R.prom PROVE PromiseFits(q, R.prom[q], Len(R.prom), nc, A)
  <2>1. CASE q = n
    <3>1. /\ Fresh.from = 0 /\ Fresh.waiters = <<>> /\ Fresh.reactions = <<>>
          /\ DOMAIN <<>> = {}
      BY DEF Fresh
    <3> QED BY <1>1, <1>2, <2>1, <3>1 DEF PromiseFits
  <2>2. CASE q # n
    <3>1. q \in DOMAIN S.prom /\ PromiseFits(q, S.prom[q], Len(S.prom), nc, A)
      BY <1>2, <2>2 DEF Fits
    <3>2. ASSUME NEW r, ReactionFits(q, r, Len(S.prom), A) PROVE ReactionFits(q, r, n, A)
      BY <1>2, <3>2, FitsMore
    <3> QED BY <1>1, <1>2, <3>1, <3>2 DEF PromiseFits
  <2> QED BY <2>1, <2>2
<1>5. ASSUME NEW k \in DOMAIN R.queue PROVE TaskFits(R.queue[k], R.prom, nc, A)
  <2>1. R.queue[k] \in TaskT /\ TaskFits(R.queue[k], S.prom, nc, A)
    BY <1>1, StoreParts DEF Fits
  <2> QED BY <1>1, <1>3, <2>1, TaskKept
<1>6. Fits(R, nc, A)
  BY <1>4, <1>5 DEF Fits
<1>7. Open(R, n) /\ Adopted(R, n)
  <2>1. Fresh.status = "pending" /\ Fresh.from = 0
    BY DEF Fresh
  <2> QED BY <1>1, <2>1 DEF Open, Adopted
<1>8. ASSUME NEW x \in DOMAIN S.prom
      PROVE  (Open(R, x) <=> Open(S, x)) /\ (Adopted(S, x) => Adopted(R, x))
  <2>1. S.prom[x].from \in 0..Len(S.prom)
    BY DEF Fits, PromiseFits
  <2>2. \A q \in DOMAIN S.prom : Linked(S, x, q) => Linked(R, x, q)
    BY <1>1 DEF Linked
  <2>3. Open(R, x) <=> Open(S, x)
    BY <1>1 DEF Open
  <2> QED BY <1>1, <1>3, <2>1, <2>2, <2>3, AdoptedKept
<1> QED BY <1>3, <1>6, <1>7, <1>8 DEF R

\* p, which was pending and had adopted nothing, is settled, or will be by a
\* reaction.
HandsOver(S, R, p, nc, A) ==
    /\ R \in Store /\ Len(R.prom) = Len(S.prom) /\ Fits(R, nc, A) /\ Kept(S, R)
    /\ \A x \in DOMAIN S.prom : Adopted(R, x)
    /\ \A x \in DOMAIN S.prom \ {p} : Open(R, x) <=> Open(S, x)
    /\ \A U \in Proper : Owed(R, U) = Owed(S, U) + Flag(PassOn(p) \in U /\ Open(R, p))
    /\ \A c \in Crew : Waits(R, c) = Waits(S, c)

Free(S, p, nc, A) ==
    /\ S \in Store /\ Len(S.prom) <= MaxProm /\ p \in DOMAIN S.prom /\ Open(S, p) /\ S.prom[p].from = 0
    /\ Fits(S, nc, A) /\ \A x \in DOMAIN S.prom : Adopted(S, x)

\* The outcome is p's to choose, or that of the settled promise p has adopted.
Due(S, p, o) ==
    LET q == S.prom[p].from
    IN  q = 0 \/ (~Open(S, q) /\ o.status = S.prom[q].status /\ o.value = S.prom[q].value)

\* Settling hands over, when the outcome is due.
LEMMA SettleHands ==
    ASSUME NEW S \in Store, Len(S.prom) <= MaxProm, NEW p \in DOMAIN S.prom, Open(S, p),
           NEW nc, NEW A, Fits(S, nc, A), \A x \in DOMAIN S.prom \ {p} : Adopted(S, x),
           NEW o, IsOutcome(o), Due(S, p, o)
    PROVE  HandsOver(S, Settle(S, p, o), p, nc, A) /\ ~Open(Settle(S, p, o), p)
<1> DEFINE R == Settle(S, p, o)
<1>1. /\ R \in Store /\ DOMAIN R.prom = DOMAIN S.prom /\ Len(R.prom) = Len(S.prom)
      /\ R.prom[p] = SettledAs(S.prom[p], o)
      /\ \A x \in DOMAIN S.prom \ {p} : R.prom[x] = S.prom[x]
      /\ \A U \in Proper : Owed(R, U) = Owed(S, U)
      /\ \A c \in Crew : Waits(R, c) = Waits(S, c)
  BY SettleStore, ZenonT(60)
<1>2. /\ Fits(R, nc, A) /\ Kept(S, R)
      /\ \A x \in DOMAIN S.prom \ {p} : Adopted(S, x) => Adopted(R, x)
      /\ Adopted(R, p)
  BY SettleFits DEF Due
<1>3. R.prom[p].status = o.status
  BY <1>1, SettledPromise, StoreParts
<1> HIDE DEF R
<1>4. ~Open(R, p)
  BY <1>3 DEF Open, IsOutcome
<1>5. \A x \in DOMAIN S.prom \ {p} : Open(R, x) <=> Open(S, x)
  BY <1>1 DEF Open
<1>6. ASSUME NEW U \in Proper
      PROVE  Owed(R, U) = Owed(S, U) + Flag(PassOn(p) \in U /\ Open(R, p))
  BY <1>1, <1>4, OwedNat DEF Flag
<1>7. \A x \in DOMAIN S.prom : Adopted(R, x)
  BY <1>2
<1> QED BY <1>1, <1>2, <1>4, <1>5, <1>6, <1>7 DEF R, HandsOver

\* A store with other promises.
LEMMA WithPromises ==
    ASSUME NEW S \in Store, NEW P
    PROVE  [S EXCEPT !.prom = P] = [prom |-> P, queue |-> S.queue]
BY DEF Store

\* Adopting a promise: the last reaction of one that is pending settles p, and
\* one that is settled settles p at once.
LEMMA AdoptHands ==
    ASSUME NEW S, NEW p, NEW nc, NEW A, Free(S, p, nc, A), NEW q \in DOMAIN S.prom
    PROVE  HandsOver(S, Adopt(S, p, q), p, nc, A)
<1> USE DEF Free
<1> USE BoundsAssumption
<1> DEFINE a == [S.prom[p] EXCEPT !.from = q]
           Q == Put(S, p, a)
<1>1. /\ DOMAIN S.prom = 1..Len(S.prom) /\ Len(S.prom) \in Nat /\ S.prom[p] \in PromiseT
      /\ q \in 1..Len(S.prom) /\ p \in 1..Len(S.prom)
  BY StoreParts
<1>2. /\ a \in PromiseT /\ a.status = S.prom[p].status /\ a.status = "pending" /\ a.from = q
      /\ a.waiters = S.prom[p].waiters /\ a.reactions = S.prom[p].reactions
  <2>1. q \in Ids
    BY <1>1 DEF Ids
  <2> QED BY <1>1, <2>1 DEF PromiseT, Open
<1>3. [S EXCEPT !.prom[p].from = q] = Q
  <2>1. [S EXCEPT !.prom[p].from = q] = [S EXCEPT !.prom = [S.prom EXCEPT ![p] = [S.prom[p] EXCEPT !.from = q]]]
    OBVIOUS
  <2> QED BY <2>1, WithPromises, SMTT(40) DEF Put
<1> HIDE DEF a
<1>4. PromiseFits(p, a, Len(S.prom), nc, A)
  <2>1. PromiseFits(p, S.prom[p], Len(S.prom), nc, A)
    BY DEF Fits
  <2> QED BY <1>1, <1>2, <2>1 DEF PromiseFits
<1>5. /\ Q \in Store /\ Len(Q.prom) = Len(S.prom) /\ DOMAIN Q.prom = DOMAIN S.prom
      /\ Q.prom[p] = a /\ Q.queue = S.queue
      /\ \A x \in DOMAIN S.prom \ {p} : Q.prom[x] = S.prom[x]
  BY <1>2, PutStore
<1>6. /\ Fits(Q, nc, A) /\ Kept(S, Q)
      /\ \A x \in DOMAIN S.prom : Open(Q, x) <=> Open(S, x)
      /\ \A x \in DOMAIN S.prom \ {p} : Adopted(Q, x)
  BY <1>2, <1>4, PutFits
<1>7. /\ \A U : Owed(Q, U) = Owed(S, U)
      /\ \A c : Waits(Q, c) = Waits(S, c)
  <2>1. /\ S.prom[p].reactions \in Seq(ReactionType) /\ S.prom[p].waiters \in Seq(Crew)
    BY <1>1 DEF PromiseT
  <2>2. /\ \A U : Owed(Q, U) = Owed(S, U) - CountIn(S.prom[p].reactions, U) + CountIn(a.reactions, U)
        /\ \A c : Waits(Q, c) = Waits(S, c) - CountIn(S.prom[p].waiters, {c}) + CountIn(a.waiters, {c})
    BY <1>2, PutCounts
  <2>3. ASSUME NEW U PROVE Owed(Q, U) = Owed(S, U)
    <3>1. CountIn(a.reactions, U) = CountIn(S.prom[p].reactions, U) /\ CountIn(a.reactions, U) \in Nat
      BY <1>2, <2>1, CountNat
    <3>2. Owed(S, U) \in Nat
      BY OwedNat
    <3> QED BY <2>2, <3>1, <3>2
  <2>4. ASSUME NEW c PROVE Waits(Q, c) = Waits(S, c)
    <3>1. CountIn(a.waiters, {c}) = CountIn(S.prom[p].waiters, {c}) /\ CountIn(a.waiters, {c}) \in Nat
      BY <1>2, <2>1, CountNat
    <3>2. Waits(S, c) \in Nat
      BY OwedNat
    <3> QED BY <2>2, <3>1, <3>2
  <2> QED BY <2>3, <2>4
<1> HIDE DEF Q
<1>8. CASE S.prom[q].status # "pending"
  <2> DEFINE o == S.prom[q]
             R == Settle(Q, p, o)
  <2>1. Adopt(S, p, q) = R
    BY <1>3, <1>8 DEF Adopt, Open
  <2>2. IsOutcome(o) /\ q # p /\ Q.prom[q] = o
    <3>1. o \in PromiseT
      BY StoreParts
    <3>2. q # p
      BY <1>8 DEF Open
    <3> QED BY <1>5, <1>8, <3>1, <3>2 DEF IsOutcome, PromiseT
  <2>3. Q \in Store /\ Len(Q.prom) <= MaxProm /\ p \in DOMAIN Q.prom /\ Open(Q, p) /\ Fits(Q, nc, A)
    BY <1>5, <1>6
  <2>4. ~Open(Q, Q.prom[p].from) /\ o.status = Q.prom[Q.prom[p].from].status
          /\ o.value = Q.prom[Q.prom[p].from].value
    BY <1>2, <1>5, <1>8, <2>2 DEF Open
  <2> HIDE DEF o
  <2>5. HandsOver(Q, R, p, nc, A) /\ ~Open(R, p)
    BY <1>5, <1>6, <2>2, <2>3, <2>4, SettleHands DEF Due
  <2> HIDE DEF R
  <2>6. /\ R \in Store /\ Len(R.prom) = Len(Q.prom) /\ Fits(R, nc, A) /\ Kept(Q, R)
        /\ \A x \in DOMAIN Q.prom : Adopted(R, x)
        /\ \A x \in DOMAIN Q.prom \ {p} : Open(R, x) <=> Open(Q, x)
        /\ \A U \in Proper : Owed(R, U) = Owed(Q, U) + Flag(PassOn(p) \in U /\ Open(R, p))
        /\ \A c \in Crew : Waits(R, c) = Waits(Q, c)
    BY <2>5 DEF HandsOver
  <2>7. \A x \in DOMAIN S.prom \ {p} : Open(R, x) <=> Open(S, x)
    BY <1>5, <1>6, <2>6
  <2>8. Kept(S, R)
    BY <1>5, <1>6, <2>6 DEF Kept
  <2>9. HandsOver(S, R, p, nc, A)
    BY <1>5, <1>7, <2>6, <2>7, <2>8 DEF HandsOver
  <2> QED BY <2>1, <2>9
<1>9. CASE S.prom[q].status = "pending"
  <2> DEFINE b == [Q.prom[q] EXCEPT !.reactions = Append(@, PassOn(p))]
             R == Put(Q, q, b)
  <2>1. Adopt(S, p, q) = R
    <3>1. Adopt(S, p, q) = [S EXCEPT !.prom[p].from = q, !.prom[q].reactions = Append(@, PassOn(p))]
      BY <1>9 DEF Adopt, Open
    <3>2. @ = [[S EXCEPT !.prom[p].from = q] EXCEPT !.prom[q].reactions = Append(@, PassOn(p))]
      OBVIOUS
    <3>3. @ = [Q EXCEPT !.prom[q].reactions = Append(@, PassOn(p))]
      BY <1>3
    <3>4. @ = [Q EXCEPT !.prom = [Q.prom EXCEPT ![q] = b]]
      OBVIOUS
    <3>5. @ = R
      BY <1>5, WithPromises DEF Put
    <3> QED BY <3>1, <3>2, <3>3, <3>4, <3>5
  <2>2. Open(Q, q) /\ q \in DOMAIN Q.prom /\ Q.prom[q] \in PromiseT
    BY <1>5, <1>6, <1>9, StoreParts DEF Open
  <2>3. PassOn(p) \in ReactionType /\ PassOn(p).slot = NoSlot /\ PassOn(p).down = p
    <3>1. p \in Ids
      BY <1>1 DEF Ids
    <3> QED BY <3>1, AllSizeAssumption DEF PassOn, Reaction, NoSlot, ReactionType
  <2>4. /\ Q.prom[q].reactions \in Seq(ReactionType)
        /\ Append(Q.prom[q].reactions, PassOn(p)) \in Seq(ReactionType)
    BY <2>2, <2>3 DEF PromiseT
  <2>5. /\ b \in PromiseT /\ b.status = "pending" /\ b.from = Q.prom[q].from
        /\ b.waiters = Q.prom[q].waiters
        /\ b.reactions = Append(Q.prom[q].reactions, PassOn(p))
    BY <2>2, <2>4 DEF PromiseT, Open
  <2> HIDE DEF b
  <2>6. PromiseFits(q, b, Len(Q.prom), nc, A)
    <3>1. PromiseFits(q, Q.prom[q], Len(Q.prom), nc, A)
      BY <1>6, <2>2 DEF Fits
    <3>2. ReactionFits(q, PassOn(p), Len(Q.prom), A)
      BY <1>1, <1>5, <2>3 DEF ReactionFits
    <3>3. \A i \in DOMAIN b.reactions : ReactionFits(q, b.reactions[i], Len(Q.prom), A)
      <4>1. \A i \in DOMAIN b.reactions :
               \/ i \in DOMAIN Q.prom[q].reactions /\ b.reactions[i] = Q.prom[q].reactions[i]
               \/ b.reactions[i] = PassOn(p)
        BY <2>3, <2>4, <2>5, InAppend, SMTT(40)
      <4> QED BY <3>1, <3>2, <4>1 DEF PromiseFits
    <3> QED BY <2>5, <3>1, <3>3 DEF PromiseFits
  <2>7. /\ \A i \in DOMAIN Q.prom[q].reactions :
              \E j \in DOMAIN b.reactions : b.reactions[j] = Q.prom[q].reactions[i]
        /\ \E j \in DOMAIN b.reactions : b.reactions[j] = PassOn(p)
    <3> DEFINE rs == Q.prom[q].reactions
               bs == b.reactions
    <3>1. rs \in Seq(ReactionType) /\ bs = Append(rs, PassOn(p))
      BY <2>4, <2>5
    <3> HIDE DEF rs, bs
    <3>2. /\ \A i \in DOMAIN rs : i \in DOMAIN bs /\ bs[i] = rs[i]
          /\ \E j \in DOMAIN bs : bs[j] = PassOn(p)
      BY <2>3, <3>1, InAppend
    <3>3. \A i \in DOMAIN rs : \E j \in DOMAIN bs : bs[j] = rs[i]
      BY <3>2
    <3> QED BY <3>2, <3>3 DEF rs, bs
  <2>8. /\ R \in Store /\ Len(R.prom) = Len(Q.prom) /\ DOMAIN R.prom = DOMAIN Q.prom
        /\ R.prom[q] = b /\ R.queue = Q.queue
        /\ \A x \in DOMAIN Q.prom \ {q} : R.prom[x] = Q.prom[x]
    BY <1>5, <2>2, <2>5, PutStore
  <2>9. /\ Fits(R, nc, A) /\ Kept(Q, R)
        /\ \A x \in DOMAIN Q.prom : Open(R, x) <=> Open(Q, x)
        /\ \A x \in DOMAIN Q.prom \ {q} : Adopted(Q, x) => Adopted(R, x)
        /\ Adopted(Q, q) => Adopted(R, q)
    BY <1>5, <1>6, <2>2, <2>5, <2>6, <2>7, PutFits
  <2>10. /\ \A U : Owed(R, U) = Owed(Q, U) + Flag(PassOn(p) \in U)
         /\ \A c : Waits(R, c) = Waits(Q, c)
    <3>1. /\ \A U : Owed(R, U) = Owed(Q, U) - CountIn(Q.prom[q].reactions, U) + CountIn(b.reactions, U)
          /\ \A c : Waits(R, c) = Waits(Q, c) - CountIn(Q.prom[q].waiters, {c}) + CountIn(b.waiters, {c})
      BY <1>5, <2>2, <2>5, PutCounts
    <3>2. \A U : CountIn(b.reactions, U) = CountIn(Q.prom[q].reactions, U) + Flag(PassOn(p) \in U)
      BY <2>3, <2>4, <2>5, CountAppend
    <3>3. ASSUME NEW U PROVE Owed(R, U) = Owed(Q, U) + Flag(PassOn(p) \in U)
      <4>1. CountIn(Q.prom[q].reactions, U) \in Nat /\ Owed(Q, U) \in Nat
        BY <1>5, <2>4, CountNat, OwedNat
      <4> QED BY <3>1, <3>2, <4>1 DEF Flag
    <3>4. ASSUME NEW c PROVE Waits(R, c) = Waits(Q, c)
      <4>1. Q.prom[q].waiters \in Seq(Crew)
        BY <2>2 DEF PromiseT
      <4>2. CountIn(b.waiters, {c}) = CountIn(Q.prom[q].waiters, {c}) /\ CountIn(b.waiters, {c}) \in Nat
        BY <2>5, <4>1, CountNat
      <4>3. Waits(Q, c) \in Nat
        BY <1>5, OwedNat
      <4> QED BY <3>1, <4>2, <4>3
    <3> QED BY <3>3, <3>4
  <2> HIDE DEF R
  <2>11. Open(R, p)
    BY <1>5, <1>6, <2>9
  <2>12. Adopted(R, p)
    <3>1. R.prom[p].from = q
      BY <1>2, <1>5, <2>5, <2>8
    <3>2. Linked(R, p, q)
      BY <2>7, <2>8 DEF Linked
    <3> QED BY <2>11, <3>1, <3>2 DEF Adopted
  <2>13. \A x \in DOMAIN S.prom : Adopted(R, x)
    BY <1>5, <1>6, <2>9, <2>12
  <2>14. Kept(S, R)
    BY <1>5, <1>6, <2>8, <2>9 DEF Kept
  <2>15. \A x \in DOMAIN S.prom \ {p} : Open(R, x) <=> Open(S, x)
    BY <1>5, <1>6, <2>9
  <2>16. \A U \in Proper : Owed(R, U) = Owed(S, U) + Flag(PassOn(p) \in U /\ Open(R, p))
    BY <1>7, <2>10, <2>11
  <2>17. \A c \in Crew : Waits(R, c) = Waits(S, c)
    BY <1>7, <2>10
  <2>18. HandsOver(S, R, p, nc, A)
    BY <1>5, <2>8, <2>9, <2>13, <2>14, <2>15, <2>16, <2>17 DEF HandsOver
  <2> QED BY <2>1, <2>18
<1> QED BY <1>8, <1>9

\* However code ends, its promise is settled or handed over.
LEMMA SettleWithHands ==
    ASSUME NEW S, NEW p, NEW nc, NEW A, Free(S, p, nc, A), NEW r, r.rejected \in BOOLEAN,
           r.with \in 0..Len(S.prom)
    PROVE  HandsOver(S, SettleWith(S, p, r), p, nc, A)
<1>1. DOMAIN S.prom = 1..Len(S.prom) /\ Len(S.prom) \in Nat /\ Len(S.prom) <= MaxProm /\ p \in DOMAIN S.prom
  BY StoreParts DEF Free
<1>2. CASE r.with = 0
  <2>1. IsOutcome(Outcome(Status(r.rejected), p))
    BY <1>1, BoundsAssumption DEF IsOutcome, Outcome, Status, Ids
  <2> QED BY <1>2, <2>1, SettleHands DEF SettleWith, Free, Due
<1>3. CASE r.with # 0
  <2>1. r.with \in DOMAIN S.prom
    BY <1>1, <1>3
  <2> QED BY <1>3, <2>1, AdoptHands DEF SettleWith
<1> QED BY <1>2, <1>3

\* What is settled by nothing stays pending, and all that held holds.
Holds(S, nc, A) ==
    /\ S \in Store /\ Len(S.prom) <= MaxProm
    /\ Fits(S, nc, A) /\ \A x \in DOMAIN S.prom : Adopted(S, x)
SettlesNone(S, R) ==
    /\ Len(R.prom) = Len(S.prom) /\ Kept(S, R)
    /\ \A x \in DOMAIN S.prom : Open(R, x) <=> Open(S, x)

\* A pending promise written, keeping what it had adopted and its reactions.
LEMMA PutHolds ==
    ASSUME NEW S, NEW nc, NEW A, Holds(S, nc, A), NEW p \in DOMAIN S.prom, Open(S, p),
           NEW a \in PromiseT, a.status = "pending", a.from = S.prom[p].from,
           PromiseFits(p, a, Len(S.prom), nc, A),
           \A i \in DOMAIN S.prom[p].reactions :
              \E j \in DOMAIN a.reactions : a.reactions[j] = S.prom[p].reactions[i]
    PROVE  Holds(Put(S, p, a), nc, A) /\ SettlesNone(S, Put(S, p, a))
<1> DEFINE R == Put(S, p, a)
<1>1. S \in Store /\ Fits(S, nc, A) /\ (\A x \in DOMAIN S.prom : Adopted(S, x)) /\ Len(S.prom) <= MaxProm
  BY DEF Holds
<1>2. /\ Fits(R, nc, A) /\ Kept(S, R)
      /\ \A x \in DOMAIN S.prom : Open(R, x) <=> Open(S, x)
      /\ \A x \in DOMAIN S.prom \ {p} : Adopted(S, x) => Adopted(R, x)
      /\ Adopted(S, p) => Adopted(R, p)
  BY <1>1, PutFits
<1>3. R \in Store /\ Len(R.prom) = Len(S.prom) /\ DOMAIN R.prom = DOMAIN S.prom
  BY <1>1, PutStore
<1> HIDE DEF R
<1>4. \A x \in DOMAIN R.prom : Adopted(R, x)
  BY <1>1, <1>2, <1>3
<1> QED BY <1>1, <1>2, <1>3, <1>4 DEF R, Holds, SettlesNone

\* A fitting task queued.
LEMMA EnqueueHolds ==
    ASSUME NEW S, NEW nc, NEW A, Holds(S, nc, A), NEW t \in TaskT, TaskFits(t, S.prom, nc, A)
    PROVE  Holds(Enqueue(S, t), nc, A) /\ SettlesNone(S, Enqueue(S, t))
<1> DEFINE R == Enqueue(S, t)
<1>1. S \in Store /\ Fits(S, nc, A) /\ (\A x \in DOMAIN S.prom : Adopted(S, x)) /\ Len(S.prom) <= MaxProm
  BY DEF Holds
<1>2. /\ Fits(R, nc, A) /\ Kept(S, R)
      /\ \A x \in DOMAIN S.prom : Adopted(S, x) => Adopted(R, x)
  BY <1>1, EnqueueFits
<1>3. R \in Store /\ R.prom = S.prom
  BY <1>1, EnqueueStore
<1> HIDE DEF R
<1>4. \A x \in DOMAIN S.prom : Open(R, x) <=> Open(S, x)
  BY <1>3 DEF Open
<1> QED BY <1>1, <1>2, <1>3, <1>4 DEF R, Holds, SettlesNone

\* A reaction added: it is owed the outcome, by q or by a task.
Expects(S, R, r, nc, A) ==
    /\ Holds(R, nc, A) /\ SettlesNone(S, R)
    /\ \A U : Owed(R, U) = Owed(S, U) + Flag(r \in U)
    /\ \A c \in Crew : Waits(R, c) = Waits(S, c)

\* That is what Then does.
LEMMA ThenStore ==
    ASSUME NEW S, NEW nc, NEW A, Holds(S, nc, A), NEW q \in DOMAIN S.prom,
           NEW r \in ReactionType, ReactionFits(q, r, Len(S.prom), A)
    PROVE  Expects(S, Then(S, q, r), r, nc, A)
<1>1. /\ S \in Store /\ Fits(S, nc, A) /\ Len(S.prom) <= MaxProm
      /\ S.prom[q] \in PromiseT /\ Len(S.prom) \in Nat /\ q \in 1..Len(S.prom)
  BY StoreParts DEF Holds
<1>2. (\A U : Owed(S, U) \in Nat) /\ (\A c : Waits(S, c) \in Nat)
  BY <1>1, OwedNat
<1>3. CASE Open(S, q)
  <2> DEFINE a == [S.prom[q] EXCEPT !.reactions = Append(@, r)]
             rs == S.prom[q].reactions
             R == Put(S, q, a)
  <2>1. Then(S, q, r) = R
    <3>1. Then(S, q, r) = [S EXCEPT !.prom[q].reactions = Append(@, r)]
      BY <1>3 DEF Then, Open
    <3>2. @ = [S EXCEPT !.prom = [S.prom EXCEPT ![q] = a]]
      OBVIOUS
    <3> QED BY <1>1, <3>1, <3>2, WithPromises DEF Put
  <2>2. /\ rs \in Seq(ReactionType) /\ Append(rs, r) \in Seq(ReactionType)
        /\ S.prom[q].waiters \in Seq(Crew)
    BY <1>1 DEF PromiseT
  <2>3. /\ a \in PromiseT /\ a.status = "pending" /\ a.from = S.prom[q].from
        /\ a.waiters = S.prom[q].waiters /\ a.reactions = Append(rs, r)
    BY <1>1, <1>3, <2>2 DEF PromiseT, Open
  <2> HIDE DEF a
  <2>4. PromiseFits(q, S.prom[q], Len(S.prom), nc, A)
    BY <1>1 DEF Fits
  <2>5. \A i \in DOMAIN a.reactions : \/ i \in DOMAIN rs /\ a.reactions[i] = rs[i]
                                      \/ a.reactions[i] = r
    BY <2>2, <2>3, InAppend
  <2>6. PromiseFits(q, a, Len(S.prom), nc, A)
    BY <2>3, <2>4, <2>5 DEF PromiseFits
  <2>7. \A i \in DOMAIN rs : \E j \in DOMAIN a.reactions : a.reactions[j] = rs[i]
    <3>1. \A i \in DOMAIN rs : i \in DOMAIN Append(rs, r) /\ Append(rs, r)[i] = rs[i]
      BY <2>2, InAppend
    <3> HIDE DEF rs
    <3> QED BY <2>3, <3>1
  <2>8. Holds(R, nc, A) /\ SettlesNone(S, R)
    BY <1>3, <2>3, <2>6, <2>7, PutHolds
  <2>9. /\ \A U : Owed(R, U) = Owed(S, U) - CountIn(rs, U) + CountIn(a.reactions, U)
        /\ \A c : Waits(R, c) = Waits(S, c) - CountIn(S.prom[q].waiters, {c}) + CountIn(a.waiters, {c})
    BY <1>1, <2>3, PutCounts
  <2> HIDE DEF R, rs
  <2>10. ASSUME NEW U PROVE Owed(R, U) = Owed(S, U) + Flag(r \in U)
    <3>1. CountIn(a.reactions, U) = CountIn(rs, U) + Flag(r \in U) /\ CountIn(rs, U) \in Nat
      BY <2>2, <2>3, CountAppend, CountNat
    <3> QED BY <1>2, <2>9, <3>1 DEF Flag
  <2>11. ASSUME NEW c PROVE Waits(R, c) = Waits(S, c)
    <3>1. CountIn(a.waiters, {c}) = CountIn(S.prom[q].waiters, {c}) /\ CountIn(a.waiters, {c}) \in Nat
      BY <2>2, <2>3, CountNat
    <3> QED BY <1>2, <2>9, <3>1
  <2> QED BY <2>1, <2>8, <2>10, <2>11 DEF Expects
<1>4. CASE ~Open(S, q)
  <2> DEFINE t == React(r, q, S.prom[q])
             R == Enqueue(S, t)
  <2>1. Then(S, q, r) = R
    BY <1>1, <1>4 DEF Then, Open, Enqueue, Store
  <2>2. /\ t \in TaskT /\ t.then = r /\ t.coro = 0 /\ t.of = q
        /\ t.status = S.prom[q].status /\ t.value = S.prom[q].value
    <3>1. S.prom[q].status \in {"fulfilled", "rejected"} /\ S.prom[q].value \in Ids /\ q \in Ids
      BY <1>1, <1>4, BoundsAssumption DEF PromiseT, Open, Ids
    <3> QED BY <3>1, BoundsAssumption DEF React, TaskT
  <2> HIDE DEF t
  <2>3. TaskFits(t, S.prom, nc, A)
    BY <2>2 DEF TaskFits
  <2>4. Holds(R, nc, A) /\ SettlesNone(S, R)
    BY <2>2, <2>3, EnqueueHolds
  <2>5. /\ \A U : Owed(R, U) = Owed(S, U) + Flag(t.then \in U)
        /\ \A c : Waits(R, c) = Waits(S, c) + Flag(t.coro = c)
    BY <1>1, <2>2, EnqueueStore
  <2> HIDE DEF R
  <2>6. \A c \in Crew : Waits(R, c) = Waits(S, c)
    BY <1>2, <2>2, <2>5, BoundsAssumption DEF Crew, Flag
  <2> QED BY <2>1, <2>2, <2>4, <2>5, <2>6 DEF Expects
<1> QED BY <1>3, <1>4

\* A coroutine that awaits q waits there, or its resumption is queued.
Joins(S, R, c, nc, A) ==
    /\ Holds(R, nc, A) /\ SettlesNone(S, R)
    /\ \A U \in Proper : Owed(R, U) = Owed(S, U)
    /\ \A d \in Crew : Waits(R, d) = Waits(S, d) + Flag(d = c)

\* That is what WaitFor does.
LEMMA WaitForStore ==
    ASSUME NEW S, NEW nc, NEW A, Holds(S, nc, A), NEW q \in DOMAIN S.prom,
           NEW c \in Crew, c \in 1..nc
    PROVE  Joins(S, WaitFor(S, c, q), c, nc, A)
<1>1. /\ S \in Store /\ Fits(S, nc, A) /\ Len(S.prom) <= MaxProm
      /\ S.prom[q] \in PromiseT /\ Len(S.prom) \in Nat /\ q \in 1..Len(S.prom)
  BY StoreParts DEF Holds
<1>2. (\A U : Owed(S, U) \in Nat) /\ (\A d : Waits(S, d) \in Nat)
  BY <1>1, OwedNat
<1>3. CASE Open(S, q)
  <2> DEFINE a == [S.prom[q] EXCEPT !.waiters = Append(@, c)]
             ws == S.prom[q].waiters
             R == Put(S, q, a)
  <2>1. WaitFor(S, c, q) = R
    <3>1. WaitFor(S, c, q) = [S EXCEPT !.prom[q].waiters = Append(@, c)]
      BY <1>3 DEF WaitFor, Open
    <3>2. @ = [S EXCEPT !.prom = [S.prom EXCEPT ![q] = a]]
      OBVIOUS
    <3> QED BY <1>1, <3>1, <3>2, WithPromises DEF Put
  <2>2. /\ ws \in Seq(Crew) /\ Append(ws, c) \in Seq(Crew)
        /\ S.prom[q].reactions \in Seq(ReactionType)
    BY <1>1 DEF PromiseT
  <2>3. /\ a \in PromiseT /\ a.status = "pending" /\ a.from = S.prom[q].from
        /\ a.reactions = S.prom[q].reactions /\ a.waiters = Append(ws, c)
    BY <1>1, <1>3, <2>2 DEF PromiseT, Open
  <2> HIDE DEF a
  <2>4. PromiseFits(q, S.prom[q], Len(S.prom), nc, A)
    BY <1>1 DEF Fits
  <2>5. \A i \in DOMAIN a.waiters : \/ i \in DOMAIN ws /\ a.waiters[i] = ws[i]
                                    \/ a.waiters[i] = c
    BY <2>2, <2>3, InAppend
  <2>6. PromiseFits(q, a, Len(S.prom), nc, A)
    BY <2>3, <2>4, <2>5 DEF PromiseFits
  <2>8. Holds(R, nc, A) /\ SettlesNone(S, R)
    BY <1>3, <2>3, <2>6, PutHolds
  <2>9. /\ \A U : Owed(R, U) = Owed(S, U) - CountIn(S.prom[q].reactions, U) + CountIn(a.reactions, U)
        /\ \A d : Waits(R, d) = Waits(S, d) - CountIn(ws, {d}) + CountIn(a.waiters, {d})
    BY <1>1, <2>3, PutCounts
  <2> HIDE DEF R, ws
  <2>10. ASSUME NEW U PROVE Owed(R, U) = Owed(S, U)
    <3>1. CountIn(a.reactions, U) = CountIn(S.prom[q].reactions, U) /\ CountIn(a.reactions, U) \in Nat
      BY <2>2, <2>3, CountNat
    <3> QED BY <1>2, <2>9, <3>1
  <2>11. ASSUME NEW d PROVE Waits(R, d) = Waits(S, d) + Flag(d = c)
    <3>1. CountIn(a.waiters, {d}) = CountIn(ws, {d}) + Flag(c \in {d}) /\ CountIn(ws, {d}) \in Nat
      BY <2>2, <2>3, CountAppend, CountNat
    <3> QED BY <1>2, <2>9, <3>1 DEF Flag
  <2> QED BY <2>1, <2>8, <2>10, <2>11 DEF Joins
<1>4. CASE ~Open(S, q)
  <2> DEFINE t == Resume(c, q, S.prom[q])
             R == Enqueue(S, t)
  <2>1. WaitFor(S, c, q) = R
    BY <1>1, <1>4 DEF WaitFor, Open, Enqueue, Store
  <2>2. /\ t \in TaskT /\ t.then = PassOn(0) /\ t.coro = c /\ t.of = q
        /\ t.status = S.prom[q].status /\ t.value = S.prom[q].value
    <3>1. S.prom[q].status \in {"fulfilled", "rejected"} /\ S.prom[q].value \in Ids /\ q \in Ids
      BY <1>1, <1>4, BoundsAssumption DEF PromiseT, Open, Ids
    <3>2. PassOn(0) \in ReactionType
      BY BoundsAssumption, AllSizeAssumption DEF PassOn, Reaction, NoSlot, ReactionType, Ids
    <3> QED BY <3>1, <3>2, BoundsAssumption DEF Resume, TaskT, Crew
  <2> HIDE DEF t
  <2>3. TaskFits(t, S.prom, nc, A)
    BY <2>2 DEF TaskFits
  <2>4. Holds(R, nc, A) /\ SettlesNone(S, R)
    BY <2>2, <2>3, EnqueueHolds
  <2>5. /\ \A U : Owed(R, U) = Owed(S, U) + Flag(t.then \in U)
        /\ \A d : Waits(R, d) = Waits(S, d) + Flag(t.coro = d)
    BY <1>1, <2>2, EnqueueStore
  <2> HIDE DEF R
  <2>6. \A U \in Proper : Owed(R, U) = Owed(S, U)
    <3> TAKE U \in Proper
    <3>1. PassOn(0) \notin U
      BY DEF Proper
    <3> QED BY <1>2, <2>2, <2>5, <3>1 DEF Flag
  <2>7. \A d \in Crew : Waits(R, d) = Waits(S, d) + Flag(d = c)
    BY <2>2, <2>5 DEF Flag
  <2> QED BY <2>1, <2>4, <2>6, <2>7 DEF Joins
<1> QED BY <1>3, <1>4

\* What fits goes on fitting with more coroutines and more calls of Promise.all.
LEMMA HoldsMore ==
    ASSUME NEW S, NEW nc \in Nat, NEW A, Holds(S, nc, A), NEW mc \in Nat, nc <= mc, NEW B,
           DOMAIN A \subseteq DOMAIN B, \A a \in DOMAIN A : B[a].items = A[a].items
    PROVE  Holds(S, mc, B)
<1>1. S \in Store /\ Fits(S, nc, A) /\ Len(S.prom) <= MaxProm /\ \A x \in DOMAIN S.prom : Adopted(S, x)
  BY DEF Holds
<1>2. \A q, r, n : ReactionFits(q, r, n, A) => ReactionFits(q, r, n, B)
  BY DEF ReactionFits
<1>3. 1..nc \subseteq 1..mc
  OBVIOUS
<1>4. ASSUME NEW q \in DOMAIN S.prom PROVE PromiseFits(q, S.prom[q], Len(S.prom), mc, B)
  <2>1. PromiseFits(q, S.prom[q], Len(S.prom), nc, A)
    BY <1>1 DEF Fits
  <2> QED BY <1>2, <1>3, <2>1 DEF PromiseFits
<1>5. ASSUME NEW k \in DOMAIN S.queue PROVE TaskFits(S.queue[k], S.prom, mc, B)
  <2>1. TaskFits(S.queue[k], S.prom, nc, A)
    BY <1>1 DEF Fits
  <2> QED BY <1>2, <1>3, <2>1 DEF TaskFits
<1> QED BY <1>1, <1>4, <1>5 DEF Holds, Fits

\* In a sequence made from a listing each listed number counts once.
LEMMA ListedOnce ==
    ASSUME NEW n \in Nat, NEW K \in SUBSET (1..n), NEW T, NEW w \in Seq(T), NEW U, NEW i,
           DOMAIN w = DOMAIN InOrder(K), \A k \in DOMAIN w : w[k] \in U <=> InOrder(K)[k] = i
    PROVE  CountIn(w, U) = Flag(i \in K)
<1> DEFINE s == InOrder(K)
<1>1. /\ s \in Seq(K)
      /\ \A j \in K : \E k \in DOMAIN s : s[k] = j
      /\ \A j, k \in DOMAIN s : s[j] = s[k] => j = k
  BY InOrderLists
<1>2. DOMAIN w = DOMAIN s /\ \A k \in DOMAIN w : w[k] \in U <=> s[k] = i
  OBVIOUS
<1> HIDE DEF s
<1>3. CASE i \in K
  <2>1. PICK k \in DOMAIN s : s[k] = i
    BY <1>1, <1>3
  <2>2. At(w, U) = {k}
    BY <1>1, <1>2, <2>1 DEF At
  <2> QED BY <1>3, <2>2, FS_Singleton DEF CountIn, Flag
<1>4. CASE i \notin K
  <2>1. \A k \in DOMAIN s : s[k] \in K
    BY <1>1
  <2>2. At(w, U) = {}
    BY <1>2, <1>4, <2>1 DEF At
  <2> QED BY <1>4, <2>2, FS_EmptySet DEF CountIn, Flag
<1> QED BY <1>3, <1>4

\* When one sequence only counts, the total is its count.
LEMMA TotalOneRow ==
    ASSUME NEW T, NEW F \in Rows(T), NEW U, NEW q \in DOMAIN F,
           \A x \in DOMAIN F \ {q} : \A i \in DOMAIN F[x] : F[x][i] \notin U
    PROVE  Total(F, U) = CountIn(F[q], U)
<1> DEFINE E == [F EXCEPT ![q] = <<>>]
<1>1. F \in Seq(Seq(T)) /\ <<>> \in Seq(T)
  BY DEF Rows
<1>2. E \in Seq(Seq(T)) /\ Len(E) = Len(F) /\ DOMAIN E = DOMAIN F /\ E[q] = <<>>
      /\ \A x \in DOMAIN F \ {q} : E[x] = F[x]
  BY <1>1, ExceptSeq
<1> HIDE DEF E
<1>3. E \in Rows(T)
  BY <1>2 DEF Rows
<1>4. \A x \in DOMAIN E : \A i \in DOMAIN E[x] : E[x][i] \notin U
  <2> TAKE x \in DOMAIN E
  <2>1. CASE x = q
    <3>1. DOMAIN <<>> = {}
      OBVIOUS
    <3> QED BY <1>2, <2>1, <3>1
  <2>2. CASE x # q
    BY <1>2, <2>2
  <2> QED BY <2>1, <2>2
<1>5. Total(E, U) = 0
  BY <1>3, <1>4, TotalFew
<1>6. CountIn(E[q], U) = 0
  BY <1>2, CountEmpty
<1>7. Total(F, U) = Total(E, U) - CountIn(E[q], U) + CountIn(F[q], U)
  <2>1. Len(F) = Len(E) /\ q \in DOMAIN E /\ \A x \in DOMAIN E \ {q} : F[x] = E[x]
    BY <1>2
  <2> QED BY <1>3, <2>1, TotalUpdate
<1>8. CountIn(F[q], U) \in Nat
  <2>1. F[q] \in Seq(T)
    BY <1>1
  <2> QED BY <2>1, CountNat
<1> QED BY <1>5, <1>6, <1>7, <1>8

-----------------------------------------------------------------------------
(* Promise.all on items, the call with number a.                           *)

SlotReaction(a, i) == Reaction({"fulfilled", "rejected"}, <<a, i>>, 0)
SlotOf(a, i) == {r \in ReactionType : r.slot = <<a, i>>}
Places(items, q) == {i \in 1..AllSize : items[i] = q}
Answered(P, items) == {i \in 1..AllSize : ~(P[items[i]].status = "pending")}
SlotsAt(items, a, q) ==
    [k \in 1..Len(InOrder(Places(items, q))) |-> SlotReaction(a, InOrder(Places(items, q))[k])]
Answers(P, items, a) ==
    LET now == InOrder(Answered(P, items))
    IN  [k \in 1..Len(now) |-> React(SlotReaction(a, now[k]), items[now[k]], P[items[now[k]]])]
Asked(P, items, a) ==
    [q \in DOMAIN P |-> IF P[q].status = "pending"
                        THEN [P[q] EXCEPT !.reactions = @ \o SlotsAt(items, a, q)]
                        ELSE P[q]]
Gather(S, items, a) ==
    [prom |-> Asked(S.prom, items, a), queue |-> S.queue \o Answers(S.prom, items, a)]

\* The reactions w are those of the slots for item q, one for each.
OneForEach(w, items, a, q) ==
    /\ \A k \in DOMAIN w : \E i \in 1..AllSize : items[i] = q /\ w[k] = SlotReaction(a, i)
    /\ \A i \in 1..AllSize : CountIn(w, SlotOf(a, i)) = Flag(items[i] = q)

\* The reactions put on one item.
LEMMA SlotsAtItem ==
    ASSUME NEW items, NEW a \in 1..MaxAll, NEW q
    PROVE  /\ SlotsAt(items, a, q) \in Seq(ReactionType)
           /\ OneForEach(SlotsAt(items, a, q), items, a, q)
<1> DEFINE K == Places(items, q)
           s == InOrder(K)
           w == SlotsAt(items, a, q)
<1>0. AllSize \in Nat /\ K \in SUBSET (1..AllSize)
  BY AllSizeAssumption DEF Places
<1>1. s \in Seq(K)
  BY <1>0, InOrderLists
<1>2. w = [k \in 1..Len(s) |-> SlotReaction(a, s[k])]
  BY DEF SlotsAt
<1>3. \A i \in K : i \in 1..AllSize /\ items[i] = q
  BY DEF Places
<1>10. \A i \in 1..AllSize : i \in K <=> items[i] = q
  BY DEF Places
<1>4. ASSUME NEW i \in 1..AllSize
      PROVE  SlotReaction(a, i) \in ReactionType /\ SlotReaction(a, i).slot = <<a, i>>
  BY <1>0, BoundsAssumption DEF SlotReaction, Reaction, ReactionType, Ids
<1> HIDE DEF K, w
<1> HIDE DEF s
<1>5. Len(s) \in Nat /\ DOMAIN s = 1..Len(s) /\ DOMAIN w = DOMAIN s
      /\ \A k \in DOMAIN s : s[k] \in K /\ w[k] = SlotReaction(a, s[k])
  BY <1>1, <1>2
<1>6. \A k \in DOMAIN w : \E i \in 1..AllSize : items[i] = q /\ w[k] = SlotReaction(a, i)
  BY <1>3, <1>5
<1>7. w \in Seq(ReactionType)
  <2>1. \A k \in 1..Len(s) : SlotReaction(a, s[k]) \in ReactionType
    BY <1>3, <1>4, <1>5
  <2> QED BY <1>2, <1>5, <2>1
<1>8. ASSUME NEW i \in 1..AllSize PROVE CountIn(w, SlotOf(a, i)) = Flag(items[i] = q)
  <2>1. ASSUME NEW k \in DOMAIN w PROVE w[k] \in SlotOf(a, i) <=> s[k] = i
    <3>1. s[k] \in 1..AllSize /\ w[k] = SlotReaction(a, s[k])
      BY <1>3, <1>5
    <3>2. w[k] \in ReactionType /\ w[k].slot = <<a, s[k]>>
      BY <1>4, <3>1
    <3> QED BY <3>2 DEF SlotOf
  <2>2. CountIn(w, SlotOf(a, i)) = Flag(i \in K)
    BY <1>0, <1>5, <1>7, <2>1, ListedOnce DEF s
  <2> QED BY <1>10, <2>2
<1> QED BY <1>6, <1>7, <1>8 DEF w, OneForEach

\* The tasks for the items that are settled.
LEMMA AnswersOfSettled ==
    ASSUME NEW P \in Seq(PromiseT), NEW items \in [1..AllSize -> DOMAIN P],
           DOMAIN P \subseteq Ids, NEW a \in 1..MaxAll
    PROVE  /\ Answers(P, items, a) \in Seq(TaskT)
           /\ \A k \in DOMAIN Answers(P, items, a) :
                 \E i \in 1..AllSize :
                    /\ P[items[i]].status # "pending"
                    /\ Answers(P, items, a)[k] = React(SlotReaction(a, i), items[i], P[items[i]])
           /\ \A i \in 1..AllSize :
                 CountIn(Answers(P, items, a), TasksFor(SlotOf(a, i))) = Flag(P[items[i]].status # "pending")
<1> DEFINE K == Answered(P, items)
           s == InOrder(K)
           w == Answers(P, items, a)
           Answer(i) == React(SlotReaction(a, i), items[i], P[items[i]])
<1>0. AllSize \in Nat /\ K \in SUBSET (1..AllSize)
  BY AllSizeAssumption DEF Answered
<1>1. s \in Seq(K)
  BY <1>0, InOrderLists
<1>2. w = [k \in 1..Len(s) |-> Answer(s[k])]
  BY DEF Answers
<1>3. \A i \in K : i \in 1..AllSize
  BY DEF Answered
<1>10. \A i \in 1..AllSize : i \in K <=> P[items[i]].status # "pending"
  BY DEF Answered
<1>4. ASSUME NEW i \in 1..AllSize
      PROVE  SlotReaction(a, i) \in ReactionType /\ SlotReaction(a, i).slot = <<a, i>>
  BY <1>0, BoundsAssumption DEF SlotReaction, Reaction, ReactionType, Ids
<1>9. ASSUME NEW i \in K PROVE Answer(i) \in TaskT /\ Answer(i).then.slot = <<a, i>>
  <2>1. i \in 1..AllSize /\ items[i] \in DOMAIN P /\ P[items[i]] \in PromiseT
        /\ P[items[i]].status # "pending"
    BY <1>3, <1>10
  <2>2. P[items[i]].status \in {"fulfilled", "rejected"} /\ P[items[i]].value \in Ids /\ items[i] \in Ids
    BY <2>1 DEF PromiseT
  <2>3. Answer(i).then = SlotReaction(a, i)
    BY DEF React
  <2> QED BY <1>4, <2>1, <2>2, <2>3, BoundsAssumption DEF React, TaskT
<1> HIDE DEF K, w
<1> HIDE DEF s
<1>5. Len(s) \in Nat /\ DOMAIN s = 1..Len(s) /\ DOMAIN w = DOMAIN s
      /\ \A k \in DOMAIN s : s[k] \in K /\ w[k] = Answer(s[k])
  <2> HIDE DEF Answer
  <2> QED BY <1>1, <1>2
<1>6. \A k \in DOMAIN w : \E i \in 1..AllSize : P[items[i]].status # "pending" /\ w[k] = Answer(i)
  <2> TAKE k \in DOMAIN w
  <2>1. s[k] \in 1..AllSize /\ P[items[s[k]]].status # "pending" /\ w[k] = Answer(s[k])
    BY <1>3, <1>5, <1>10
  <2> QED BY <2>1
<1>7. w \in Seq(TaskT)
  <2> HIDE DEF Answer
  <2>1. \A k \in 1..Len(s) : Answer(s[k]) \in TaskT
    BY <1>5, <1>9
  <2> QED BY <1>2, <1>5, <2>1
<1>8. ASSUME NEW i \in 1..AllSize
      PROVE  CountIn(w, TasksFor(SlotOf(a, i))) = Flag(P[items[i]].status # "pending")
  <2>1. ASSUME NEW k \in DOMAIN w PROVE w[k] \in TasksFor(SlotOf(a, i)) <=> s[k] = i
    <3>1. s[k] \in K /\ w[k] = Answer(s[k])
      BY <1>5
    <3> HIDE DEF Answer
    <3>2. w[k] \in TaskT /\ w[k].then.slot = <<a, s[k]>>
      BY <1>9, <3>1
    <3>3. w[k].then \in ReactionType
      BY <3>2 DEF TaskT
    <3> QED BY <3>2, <3>3 DEF SlotOf, TasksFor
  <2>2. CountIn(w, TasksFor(SlotOf(a, i))) = Flag(i \in K)
    BY <1>0, <1>5, <1>7, <2>1, ListedOnce, ZenonT(60) DEF s
  <2> QED BY <1>10, <2>2
<1> QED BY <1>6, <1>7, <1>8 DEF w

\* Promise.all on the items: every slot of the call is owed an outcome once, and
\* nothing else changes.
Gathers(S, R, a, nc, A) ==
    /\ Holds(R, nc, A) /\ SettlesNone(S, R)
    /\ \A i \in 1..AllSize : Owed(R, SlotOf(a, i)) = 1
    /\ \A U : (\A i \in 1..AllSize : SlotReaction(a, i) \notin U) => Owed(R, U) = Owed(S, U)
    /\ \A c \in Crew : Waits(R, c) = Waits(S, c)

\* That is what Gather does.
LEMMA GatherStore ==
    ASSUME NEW S, NEW nc, NEW A, Holds(S, nc, A), NEW items \in [1..AllSize -> DOMAIN S.prom],
           NEW a \in 1..MaxAll, a \in DOMAIN A, A[a].items = items,
           \A i \in 1..AllSize : Owed(S, SlotOf(a, i)) = 0
    PROVE  Gathers(S, Gather(S, items, a), a, nc, A)
<1> DEFINE P == S.prom
           Q == Asked(P, items, a)
           W == Answers(P, items, a)
           R == Gather(S, items, a)
<1>1. /\ S \in Store /\ Fits(S, nc, A) /\ Len(P) <= MaxProm
      /\ P \in Seq(PromiseT) /\ S.queue \in Seq(TaskT) /\ Len(P) \in Nat /\ DOMAIN P = 1..Len(P)
      /\ \A q \in DOMAIN P : P[q] \in PromiseT
      /\ \A x \in DOMAIN P : Adopted(S, x)
  BY StoreParts DEF Holds
<1>2. DOMAIN P \subseteq Ids
  BY <1>1, BoundsAssumption DEF Ids
<1>3. R.prom = Q /\ R.queue = S.queue \o W /\ R = [prom |-> R.prom, queue |-> R.queue]
  BY DEF Gather
<1>4. ASSUME NEW q \in DOMAIN P
      PROVE  /\ q \in DOMAIN Q /\ Q[q] \in PromiseT
             /\ Q[q].status = P[q].status /\ Q[q].value = P[q].value
             /\ Q[q].from = P[q].from /\ Q[q].waiters = P[q].waiters
             /\ P[q].status = "pending" => Q[q].reactions = P[q].reactions \o SlotsAt(items, a, q)
             /\ P[q].status # "pending" => Q[q] = P[q]
             /\ P[q].reactions \in Seq(ReactionType)
  <2>1. P[q] \in PromiseT
    BY <1>1
  <2>2. P[q].reactions \in Seq(ReactionType) /\ SlotsAt(items, a, q) \in Seq(ReactionType)
    BY <2>1, SlotsAtItem DEF PromiseT
  <2>3. P[q].reactions \o SlotsAt(items, a, q) \in Seq(ReactionType)
    BY <2>2, ConcatProperties
  <2>4. Q[q] = IF P[q].status = "pending"
               THEN [P[q] EXCEPT !.reactions = @ \o SlotsAt(items, a, q)] ELSE P[q]
    BY DEF Asked
  <2>5. q \in DOMAIN Q
    BY DEF Asked
  <2> HIDE DEF P, Q
  <2>6. CASE P[q].status = "pending"
    BY <2>1, <2>2, <2>3, <2>4, <2>5, <2>6 DEF PromiseT
  <2>7. CASE P[q].status # "pending"
    BY <2>1, <2>2, <2>4, <2>5, <2>7
  <2> QED BY <2>6, <2>7
<1>5. Q \in Seq(PromiseT) /\ Len(Q) = Len(P) /\ DOMAIN Q = DOMAIN P
  <2>1. Q = [q \in 1..Len(P) |-> Q[q]]
    BY <1>1 DEF Asked
  <2>2. \A q \in 1..Len(P) : Q[q] \in PromiseT
    BY <1>1, <1>4
  <2> HIDE DEF Q, P
  <2> QED BY <1>1, <2>1, <2>2
<1>6. /\ W \in Seq(TaskT)
      /\ \A k \in DOMAIN W :
                 \E i \in 1..AllSize :
                    /\ P[items[i]].status # "pending"
                    /\ W[k] = React(SlotReaction(a, i), items[i], P[items[i]])
      /\ \A i \in 1..AllSize :
                 CountIn(W, TasksFor(SlotOf(a, i))) = Flag(P[items[i]].status # "pending")
  BY <1>1, <1>2, AnswersOfSettled
<1> HIDE DEF Q, W, R
<1>7. R \in Store /\ Len(R.prom) = Len(P) /\ DOMAIN R.prom = DOMAIN P
  <2>1. R.queue \in Seq(TaskT)
    BY <1>1, <1>3, <1>6, ConcatProperties
  <2> QED BY <1>3, <1>5, <2>1 DEF Store
<1>8. Kept(S, R) /\ \A x \in DOMAIN P : Open(R, x) <=> Open(S, x)
  BY <1>1, <1>3, <1>4, <1>7 DEF Kept, Open
<1>9. SettlesNone(S, R)
  BY <1>7, <1>8 DEF SettlesNone
<1>10. \A i \in 1..AllSize : /\ SlotReaction(a, i) \in ReactionType /\ SlotReaction(a, i).slot = <<a, i>>
                             /\ SlotReaction(a, i).down = 0
                             /\ ReactionFits(items[i], SlotReaction(a, i), Len(P), A)
  BY AllSizeAssumption, BoundsAssumption DEF SlotReaction, Reaction, ReactionType, Ids, ReactionFits
<1>19. \A q : SlotsAt(items, a, q) \in Seq(ReactionType) /\ OneForEach(SlotsAt(items, a, q), items, a, q)
  BY SlotsAtItem
<1>11. ASSUME NEW q \in DOMAIN P
       PROVE  \A i \in DOMAIN Q[q].reactions :
                 \/ i \in DOMAIN P[q].reactions /\ Q[q].reactions[i] = P[q].reactions[i]
                 \/ \E j \in 1..AllSize : items[j] = q /\ Q[q].reactions[i] = SlotReaction(a, j)
  <2> DEFINE rs == P[q].reactions
             w == SlotsAt(items, a, q)
  <2>1. /\ rs \in Seq(ReactionType) /\ w \in Seq(ReactionType)
        /\ \A k \in DOMAIN w : \E i \in 1..AllSize : items[i] = q /\ w[k] = SlotReaction(a, i)
    <3>1. rs \in Seq(ReactionType)
      BY <1>4
    <3>2. /\ w \in Seq(ReactionType)
          /\ \A k \in DOMAIN w : \E i \in 1..AllSize : items[i] = q /\ w[k] = SlotReaction(a, i)
      BY <1>19 DEF OneForEach
    <3> QED BY <3>1, <3>2
  <2>2. Q[q].reactions = rs \o w \/ Q[q].reactions = rs
    BY <1>4
  <2> HIDE DEF rs, w
  <2>3. \A k \in DOMAIN (rs \o w) : \/ k \in DOMAIN rs /\ (rs \o w)[k] = rs[k]
                                    \/ \E j \in DOMAIN w : (rs \o w)[k] = w[j]
    BY <2>1, InConcat
  <2>4. \A k \in DOMAIN (rs \o w) : \/ k \in DOMAIN rs /\ (rs \o w)[k] = rs[k]
                                    \/ \E i \in 1..AllSize : items[i] = q /\ (rs \o w)[k] = SlotReaction(a, i)
    BY <2>1, <2>3
  <2> QED BY <2>2, <2>4 DEF rs
<1>12. ASSUME NEW q \in DOMAIN P
       PROVE  \A i \in DOMAIN P[q].reactions : /\ i \in DOMAIN Q[q].reactions
                                               /\ Q[q].reactions[i] = P[q].reactions[i]
  <2> DEFINE rs == P[q].reactions
             w == SlotsAt(items, a, q)
  <2>1. rs \in Seq(ReactionType) /\ w \in Seq(ReactionType)
    BY <1>4, SlotsAtItem
  <2>2. Q[q].reactions = rs \o w \/ Q[q].reactions = rs
    BY <1>4
  <2> HIDE DEF rs, w
  <2>3. \A k \in DOMAIN rs : k \in DOMAIN (rs \o w) /\ (rs \o w)[k] = rs[k]
    BY <2>1, InConcat
  <2> QED BY <2>2, <2>3 DEF rs
<1>13. ASSUME NEW q \in DOMAIN R.prom PROVE PromiseFits(q, R.prom[q], Len(R.prom), nc, A)
  <2>1. PromiseFits(q, P[q], Len(P), nc, A) /\ q \in DOMAIN P /\ R.prom[q] = Q[q]
    BY <1>1, <1>3, <1>7 DEF Fits
  <2>2. CASE P[q].status # "pending"
    BY <1>4, <1>7, <2>1, <2>2
  <2>3. CASE P[q].status = "pending"
    <3>1. \A i \in DOMAIN Q[q].reactions : ReactionFits(q, Q[q].reactions[i], Len(P), A)
      BY <1>10, <1>11, <2>1 DEF PromiseFits
    <3>2. Q[q].status = "pending" /\ Q[q].from = P[q].from /\ Q[q].waiters = P[q].waiters
      BY <1>4, <2>1, <2>3
    <3> QED BY <1>7, <2>1, <3>1, <3>2 DEF PromiseFits
  <2> QED BY <2>2, <2>3
<1>14. ASSUME NEW k \in DOMAIN W PROVE TaskFits(W[k], R.prom, nc, A)
  <2>1. PICK i \in 1..AllSize : /\ P[items[i]].status # "pending"
                                /\ W[k] = React(SlotReaction(a, i), items[i], P[items[i]])
    BY <1>6
  <2>2. /\ W[k].coro = 0 /\ W[k].then = SlotReaction(a, i) /\ W[k].of = items[i]
        /\ W[k].status = P[items[i]].status /\ W[k].value = P[items[i]].value
    BY <2>1 DEF React
  <2>3. items[i] \in DOMAIN P /\ R.prom[items[i]] = P[items[i]]
    BY <1>3, <1>4, <2>1
  <2> QED BY <1>7, <1>10, <2>2, <2>3 DEF TaskFits
<1>15. ASSUME NEW k \in DOMAIN R.queue PROVE TaskFits(R.queue[k], R.prom, nc, A)
  <2>1. \/ k \in DOMAIN S.queue /\ R.queue[k] = S.queue[k]
        \/ \E j \in DOMAIN W : R.queue[k] = W[j]
    BY <1>1, <1>3, <1>6, InConcat
  <2>2. ASSUME k \in DOMAIN S.queue PROVE TaskFits(S.queue[k], R.prom, nc, A)
    <3>1. S.queue[k] \in TaskT /\ TaskFits(S.queue[k], P, nc, A)
      BY <1>1, <2>2 DEF Fits
    <3> QED BY <1>1, <1>7, <1>8, <3>1, TaskKept
  <2> QED BY <1>14, <2>1, <2>2
<1>16. Fits(R, nc, A)
  BY <1>13, <1>15 DEF Fits
<1>17. ASSUME NEW x \in DOMAIN P PROVE Adopted(R, x)
  <2>1. P[x].from \in 0..Len(P) /\ R.prom[x].from = P[x].from
    BY <1>1, <1>3, <1>4 DEF Fits, PromiseFits
  <2>2. ASSUME NEW q \in DOMAIN P, Linked(S, x, q) PROVE Linked(R, x, q)
    <3>1. CASE \E i \in DOMAIN P[q].reactions : P[q].reactions[i] = PassOn(x)
      BY <1>3, <1>12, <3>1 DEF Linked
    <3>2. CASE \E k \in DOMAIN S.queue : PassesOn(S.queue[k], q, x)
      <4>1. \A k \in DOMAIN S.queue : k \in DOMAIN R.queue /\ R.queue[k] = S.queue[k]
        BY <1>1, <1>3, <1>6, InConcat
      <4> QED BY <3>2, <4>1 DEF Linked
    <3> QED BY <2>2, <3>1, <3>2 DEF Linked
  <2> QED BY <1>1, <1>7, <1>8, <2>1, <2>2, AdoptedKept
<1>18. Holds(R, nc, A)
  BY <1>1, <1>7, <1>16, <1>17 DEF Holds
<1> DEFINE F == ReactionsOf(P)
           G == ReactionsOf(R.prom)
<1>20. /\ F \in Rows(ReactionType) /\ G \in Rows(ReactionType) /\ Len(G) = Len(F)
       /\ DOMAIN F = DOMAIN P /\ DOMAIN G = DOMAIN P
       /\ \A q \in DOMAIN P : F[q] = P[q].reactions /\ G[q] = Q[q].reactions
  BY <1>1, <1>3, <1>7, StoreLists DEF ReactionsOf
<1> HIDE DEF F, G
<1>21. ASSUME NEW U
       PROVE  /\ Owed(S, U) = Total(F, U) + CountIn(S.queue, TasksFor(U))
              /\ Owed(R, U) = Total(G, U) + (CountIn(S.queue, TasksFor(U)) + CountIn(W, TasksFor(U)))
              /\ Total(F, U) \in Nat /\ Total(G, U) \in Nat
              /\ CountIn(S.queue, TasksFor(U)) \in Nat /\ CountIn(W, TasksFor(U)) \in Nat
  <2>1. CountIn(R.queue, TasksFor(U)) = CountIn(S.queue, TasksFor(U)) + CountIn(W, TasksFor(U))
    BY <1>1, <1>3, <1>6, CountConcat
  <2>2. /\ Total(F, U) \in Nat /\ Total(G, U) \in Nat
        /\ CountIn(S.queue, TasksFor(U)) \in Nat /\ CountIn(W, TasksFor(U)) \in Nat
    BY <1>1, <1>6, <1>20, TotalNat, CountNat
  <2> QED BY <2>1, <2>2 DEF Owed, F, G
<1>22. ASSUME NEW U, \A i \in 1..AllSize : SlotReaction(a, i) \notin U
       PROVE  Owed(R, U) = Owed(S, U)
  <2>1. \A q, i : (q \in DOMAIN F /\ i \in DOMAIN F[q] /\ F[q][i] \in U) <=>
                       (q \in DOMAIN G /\ i \in DOMAIN G[q] /\ G[q][i] \in U)
    BY <1>11, <1>12, <1>20, <1>22
  <2>2. Total(F, U) = Total(G, U)
    BY <2>1, TotalSame
  <2>3. \A k \in DOMAIN W : W[k] \notin TasksFor(U)
    <3> TAKE k \in DOMAIN W
    <3>1. \E i \in 1..AllSize : W[k].then = SlotReaction(a, i)
      BY <1>6 DEF React
    <3> QED BY <1>22, <3>1 DEF TasksFor
  <2>4. CountIn(W, TasksFor(U)) = 0
    BY <1>6, <2>3, CountFew
  <2> QED BY <1>21, <2>2, <2>4
<1>23. ASSUME NEW i \in 1..AllSize PROVE Owed(R, SlotOf(a, i)) = 1
  <2> DEFINE U == SlotOf(a, i)
             q == items[i]
  <2>0. q \in DOMAIN P
    OBVIOUS
  <2>1. Total(F, U) = 0 /\ CountIn(S.queue, TasksFor(U)) = 0
    BY <1>21
  <2>2. \A x \in DOMAIN P : \A j \in DOMAIN P[x].reactions : P[x].reactions[j] \notin U
    BY <1>20, <2>1, TotalFew
  <2>3. ASSUME NEW x \in DOMAIN P \ {q}, NEW j \in DOMAIN Q[x].reactions PROVE Q[x].reactions[j] \notin U
    <3>1. CASE j \in DOMAIN P[x].reactions /\ Q[x].reactions[j] = P[x].reactions[j]
      BY <2>2, <3>1
    <3>2. CASE \E m \in 1..AllSize : items[m] = x /\ Q[x].reactions[j] = SlotReaction(a, m)
      <4>1. PICK m \in 1..AllSize : items[m] = x /\ Q[x].reactions[j] = SlotReaction(a, m)
        BY <3>2
      <4>2. m # i /\ SlotReaction(a, m).slot = <<a, m>>
        BY <1>10, <4>1
      <4> QED BY <4>1, <4>2 DEF SlotOf
    <3> QED BY <1>11, <2>3, <3>1, <3>2
  <2>4. Total(G, U) = CountIn(Q[q].reactions, U)
    <3>1. \A x \in DOMAIN G \ {q} : \A j \in DOMAIN G[x] : G[x][j] \notin U
      BY <1>20, <2>3
    <3>2. G \in Rows(ReactionType) /\ q \in DOMAIN G /\ G[q] = Q[q].reactions
      BY <1>20
    <3> HIDE DEF U, q
    <3> QED BY <3>1, <3>2, TotalOneRow
  <2>5. CountIn(W, TasksFor(U)) = Flag(P[q].status # "pending")
    BY <1>6
  <2>6. CountIn(P[q].reactions, U) = 0
    BY <1>4, <2>0, <2>2, CountFew
  <2>7. CASE P[q].status = "pending"
    <3>1. Q[q].reactions = P[q].reactions \o SlotsAt(items, a, q)
      BY <1>4, <2>0, <2>7
    <3>2. CountIn(SlotsAt(items, a, q), U) = 1 /\ SlotsAt(items, a, q) \in Seq(ReactionType)
      <4>1. /\ SlotsAt(items, a, q) \in Seq(ReactionType)
            /\ \A j \in 1..AllSize : CountIn(SlotsAt(items, a, q), SlotOf(a, j)) = Flag(items[j] = q)
        <5> HIDE DEF q
        <5> QED BY <1>19 DEF OneForEach
      <4>2. CountIn(SlotsAt(items, a, q), SlotOf(a, i)) = Flag(items[i] = q)
        <5> HIDE DEF q
        <5> QED BY <4>1
      <4> QED BY <4>1, <4>2 DEF Flag
    <3>3. CountIn(Q[q].reactions, U) = CountIn(P[q].reactions, U) + CountIn(SlotsAt(items, a, q), U)
      BY <1>4, <2>0, <3>1, <3>2, CountConcat
    <3> QED BY <1>21, <2>1, <2>4, <2>5, <2>6, <2>7, <3>2, <3>3 DEF Flag
  <2>8. CASE P[q].status # "pending"
    <3>1. Q[q].reactions = P[q].reactions
      BY <1>4, <2>0, <2>8
    <3> QED BY <1>21, <2>1, <2>4, <2>5, <2>6, <2>8, <3>1 DEF Flag
  <2> QED BY <2>7, <2>8
<1>24. ASSUME NEW c \in Crew PROVE Waits(R, c) = Waits(S, c)
  <2> DEFINE E == WaitersOf(P)
             H == WaitersOf(R.prom)
  <2>1. E = H
    BY <1>3, <1>4, <1>7 DEF WaitersOf
  <2>2. \A k \in DOMAIN W : W[k] \notin TasksOf(c)
    <3> TAKE k \in DOMAIN W
    <3>1. W[k].coro = 0
      BY <1>6 DEF React
    <3> QED BY <3>1, BoundsAssumption DEF TasksOf, Crew
  <2>3. CountIn(W, TasksOf(c)) = 0 /\ CountIn(S.queue, TasksOf(c)) \in Nat
    BY <1>1, <1>6, <2>2, CountFew, CountNat
  <2>4. CountIn(R.queue, TasksOf(c)) = CountIn(S.queue, TasksOf(c)) + CountIn(W, TasksOf(c))
    BY <1>1, <1>3, <1>6, CountConcat
  <2>5. CountIn(R.queue, TasksOf(c)) = CountIn(S.queue, TasksOf(c))
    BY <2>3, <2>4
  <2> QED BY <2>1, <2>5 DEF Waits
<1> QED BY <1>9, <1>18, <1>22, <1>23, <1>24 DEF R, Gathers

-----------------------------------------------------------------------------
(* The inductive invariant, of a store S, coroutines C, calls A of         *)
(* Promise.all, a stack K and promises H the host holds.                   *)

CoroT == [gen : BOOLEAN, owes : Ids, state : {"live", "ended", "dropped"},
          parked : BOOLEAN, done : BOOLEAN]
AllT == [items : [1..AllSize -> Ids], out : Ids, results : [1..AllSize -> Ids], remaining : Int]
FrameT == [kind : {"call", "drain", "coro", "react", "adopt"}, id : Nat]

\* A coroutine that is under way owes a promise, one that is over or has
\* nothing to do does not; only generators park.
CoroFits(x, n) ==
    /\ x.owes \in 0..n
    /\ x.state = "live" /\ ~x.parked => x.owes # 0
    /\ x.parked => x.gen /\ x.state = "live" /\ x.owes = 0
    /\ x.state = "ended" => x.owes = 0

\* A frame names what there is; a coroutine has a driver below it, and the
\* host's `then' is called by one.
FrameFits(K, d, n, nc) ==
    /\ K[d].kind = "react" => K[d].id \in 1..n
    /\ K[d].kind = "coro" => d >= 2 /\ K[d].id \in 1..nc
    /\ K[d].kind = "adopt" => d >= 2 /\ K[d - 1].kind = "coro" /\ K[d].id \in 1..n

AllFits(x, n) == (\A i \in 1..AllSize : x.items[i] \in 1..n) /\ x.out \in 1..n

CorosFit(C, n) == C \in Seq(CoroT) /\ Len(C) <= MaxCoro /\ \A c \in DOMAIN C : CoroFits(C[c], n)
AllsFit(A, n) == A \in Seq(AllT) /\ Len(A) <= MaxAll /\ \A a \in DOMAIN A : AllFits(A[a], n)
FramesFit(K, n, nc) == K \in Seq(FrameT) /\ \A d \in DOMAIN K : FrameFits(K, d, n, nc)
Shaped(S, C, A, K, H) ==
    /\ Holds(S, Len(C), A) /\ CorosFit(C, Len(S.prom)) /\ AllsFit(A, Len(S.prom))
    /\ FramesFit(K, Len(S.prom), Len(C)) /\ H \subseteq DOMAIN S.prom

\* Where coroutine c is, in numbers.
Placed(S, C, K) ==
    \A c \in DOMAIN C :
        CountIn(K, {Frame("coro", c)}) + Waits(S, c) + Flag(C[c].parked) = Flag(C[c].state = "live")

\* Who will settle p besides reactions, and whose coroutine was dropped.
Down(p) == {r \in ReactionType : r.down = p}
Owers(p) == {x \in CoroT : x.owes = p /\ x.state = "live"}
Outs(p) == {x \in AllT : x.out = p}
Hands(C, K, H, p) == CountIn(C, Owers(p)) + CountIn(K, {Frame("react", p)}) + Flag(p \in H)
Dropped(C, p) == \E c \in DOMAIN C : C[c].owes = p /\ C[c].state = "dropped"
SettledAt(S, C, A, K, H, p) ==
    Hands(C, K, H, p) + Owed(S, Down(p)) + (IF Open(S, p) THEN CountIn(A, Outs(p)) ELSE 0)
      = Flag(Open(S, p) /\ ~Dropped(C, p))
Settled(S, C, A, K, H) == \A p \in DOMAIN S.prom : SettledAt(S, C, A, K, H, p)

\* A slot is owed an outcome until it has had it.
Over(S, a) == {i \in 1..AllSize : Owed(S, SlotOf(a, i)) = 0}
Failed(S, x, a) == {i \in Over(S, a) : S.prom[x.items[i]].status = "rejected"}
Exact(S, x, a) ==
    LET over == Over(S, a)
        failed == Failed(S, x, a)
        out == S.prom[x.out]
    IN  /\ \A i \in 1..AllSize : Owed(S, SlotOf(a, i)) \in {0, 1}
        /\ \A i \in over : ~Open(S, x.items[i])
        /\ x.remaining = AllSize - Cardinality(over \ failed)
        /\ \A i \in 1..AllSize :
              x.results[i] = IF i \in over \ failed THEN S.prom[x.items[i]].value ELSE Null
        /\ out.status = IF failed # {} THEN "rejected"
                        ELSE IF over = 1..AllSize THEN "fulfilled" ELSE "pending"
        /\ failed # {} => \E i \in failed : out.value = S.prom[x.items[i]].value
AllsExact(S, A) == \A a \in DOMAIN A : Exact(S, A[a], a)

Good(S, C, A, K, H) ==
    /\ Shaped(S, C, A, K, H) /\ Placed(S, C, K) /\ Settled(S, C, A, K, H) /\ AllsExact(S, A)

IInv == Good(Now, coro, alls, stack, hosted) /\ calls \in 0..MaxCalls

\* The counts of the invariant are numbers.
LEMMA HandsNat ==
    ASSUME NEW C \in Seq(CoroT), NEW A \in Seq(AllT), NEW K \in Seq(FrameT), NEW H, NEW p
    PROVE  /\ Hands(C, K, H, p) \in Nat /\ CountIn(A, Outs(p)) \in Nat
           /\ CountIn(C, Owers(p)) \in Nat /\ CountIn(K, {Frame("react", p)}) \in Nat
<1>1. CountIn(C, Owers(p)) \in Nat
  BY CountNat
<1>2. CountIn(K, {Frame("react", p)}) \in Nat
  BY CountNat
<1>3. CountIn(A, Outs(p)) \in Nat
  BY CountNat
<1> QED BY <1>1, <1>2, <1>3 DEF Hands, Flag

\* Reactions that settle a promise or fill a slot are not resumptions.
LEMMA ProperSets ==
    ASSUME NEW n \in Nat, NEW p \in 1..n
    PROVE  Down(p) \in Proper /\ \A a \in 1..n : \A i : SlotOf(a, i) \in Proper
<1>1. PassOn(0).down = 0 /\ PassOn(0).slot = <<0, 0>>
  BY DEF PassOn, Reaction, NoSlot
<1>2. Down(p) \in Proper
  BY <1>1 DEF Down, Proper
<1>3. ASSUME NEW a \in 1..n, NEW i PROVE SlotOf(a, i) \in Proper
  <2>1. PassOn(0) \notin SlotOf(a, i)
    BY <1>1 DEF SlotOf
  <2> QED BY <2>1 DEF SlotOf, Proper
<1> QED BY <1>2, <1>3

\* A promise that nobody settles in a step keeps its settlers.
LEMMA BalanceKept ==
    ASSUME NEW S, NEW R, NEW C, NEW C2, NEW A, NEW A2, NEW K, NEW K2, NEW H, NEW H2, NEW p,
           SettledAt(S, C, A, K, H, p), Open(R, p) <=> Open(S, p),
           Dropped(C2, p) <=> Dropped(C, p), CountIn(A2, Outs(p)) = CountIn(A, Outs(p)),
           Hands(C2, K2, H2, p) + Owed(R, Down(p)) = Hands(C, K, H, p) + Owed(S, Down(p))
    PROVE  SettledAt(R, C2, A2, K2, H2, p)
BY DEF SettledAt

\* One that is settled has none left.
LEMMA BalanceSettled ==
    ASSUME NEW R, NEW C, NEW A, NEW K, NEW H, NEW p, ~Open(R, p),
           Hands(C, K, H, p) = 0, Owed(R, Down(p)) = 0
    PROVE  SettledAt(R, C, A, K, H, p)
BY DEF SettledAt, Flag

\* A reaction that leads to p, or its task, is counted.
LEMMA OwedSome ==
    ASSUME NEW S \in Store, NEW U
    PROVE  /\ Owed(S, U) = 0 => /\ \A q \in DOMAIN S.prom : \A i \in DOMAIN S.prom[q].reactions :
                                       S.prom[q].reactions[i] \notin U
                                /\ \A k \in DOMAIN S.queue : S.queue[k].then \notin U
           /\ \A q \in DOMAIN S.prom : \A i \in DOMAIN S.prom[q].reactions :
                 \A k \in DOMAIN S.queue :
                    Owed(S, U) = 1 /\ S.queue[k].then \in U => S.prom[q].reactions[i] \notin U
           /\ \A j, k \in DOMAIN S.queue :
                 Owed(S, U) = 1 /\ S.queue[j].then \in U /\ S.queue[k].then \in U => j = k
<1> DEFINE F == ReactionsOf(S.prom)
<1>1. /\ F \in Rows(ReactionType) /\ S.queue \in Seq(TaskT) /\ DOMAIN F = DOMAIN S.prom
      /\ \A q \in DOMAIN S.prom : F[q] = S.prom[q].reactions
      /\ \A k \in DOMAIN S.queue : S.queue[k] \in TaskT
  BY StoreLists, StoreParts DEF ReactionsOf
<1>2. Owed(S, U) = Total(F, U) + CountIn(S.queue, TasksFor(U))
  BY DEF Owed
<1> HIDE DEF F
<1>3. Total(F, U) \in Nat /\ CountIn(S.queue, TasksFor(U)) \in Nat
  BY <1>1, TotalNat, CountNat
<1>4. Total(F, U) = 0 => \A q \in DOMAIN F : \A i \in DOMAIN F[q] : F[q][i] \notin U
  BY <1>1, TotalFew
<1>5. /\ CountIn(S.queue, TasksFor(U)) = 0 <=> \A k \in DOMAIN S.queue : S.queue[k] \notin TasksFor(U)
      /\ \A j, k \in DOMAIN S.queue :
            CountIn(S.queue, TasksFor(U)) = 1 /\ S.queue[j] \in TasksFor(U) /\ S.queue[k] \in TasksFor(U)
              => j = k
  BY <1>1, CountFew
<1>6. \A k \in DOMAIN S.queue : S.queue[k] \in TasksFor(U) <=> S.queue[k].then \in U
  BY <1>1 DEF TasksFor
<1>7. ASSUME Owed(S, U) = 0
      PROVE  /\ \A q \in DOMAIN S.prom : \A i \in DOMAIN S.prom[q].reactions :
                                       S.prom[q].reactions[i] \notin U
             /\ \A k \in DOMAIN S.queue : S.queue[k].then \notin U
  BY <1>1, <1>2, <1>3, <1>4, <1>5, <1>6, <1>7
<1>8. ASSUME NEW k \in DOMAIN S.queue, Owed(S, U) = 1, S.queue[k].then \in U
      PROVE  CountIn(S.queue, TasksFor(U)) = 1 /\ Total(F, U) = 0
  BY <1>2, <1>3, <1>5, <1>6, <1>8
<1>9. ASSUME NEW q \in DOMAIN S.prom, NEW i \in DOMAIN S.prom[q].reactions, NEW k \in DOMAIN S.queue,
             Owed(S, U) = 1, S.queue[k].then \in U
      PROVE  S.prom[q].reactions[i] \notin U
  BY <1>1, <1>4, <1>8, <1>9
<1>10. ASSUME NEW j \in DOMAIN S.queue, NEW k \in DOMAIN S.queue,
              Owed(S, U) = 1, S.queue[j].then \in U, S.queue[k].then \in U
       PROVE  j = k
  BY <1>5, <1>6, <1>8, <1>10
<1> QED BY <1>7, <1>9, <1>10

\* What an adopted promise waits for is counted.
LEMMA LinkedOwed ==
    ASSUME NEW S \in Store, NEW nc, NEW A, Fits(S, nc, A), Len(S.prom) <= MaxProm,
           NEW p \in DOMAIN S.prom, Open(S, p), Adopted(S, p), Owed(S, Down(p)) = 0
    PROVE  S.prom[p].from = 0
<1> DEFINE q == S.prom[p].from
<1>1. PassOn(p) \in Down(p)
  <2>1. p \in Ids
    BY StoreParts, BoundsAssumption DEF Ids
  <2> QED BY <2>1, BoundsAssumption, AllSizeAssumption DEF PassOn, Reaction, NoSlot, ReactionType, Down
<1>2. q \in 0..Len(S.prom) /\ DOMAIN S.prom = 1..Len(S.prom) /\ Len(S.prom) \in Nat
  BY StoreParts DEF Fits, PromiseFits
<1>3. ASSUME q # 0 PROVE FALSE
  <2>1. Linked(S, p, q) /\ q \in DOMAIN S.prom
    BY <1>2, <1>3 DEF Adopted
  <2>2. /\ \A i \in DOMAIN S.prom[q].reactions : S.prom[q].reactions[i] \notin Down(p)
        /\ \A k \in DOMAIN S.queue : S.queue[k].then \notin Down(p)
    BY <2>1, OwedSome
  <2> QED BY <1>1, <2>1, <2>2 DEF Linked, PassesOn
<1> QED BY <1>3

\* A pending promise that a coroutine, a handler or the host will settle is
\* settled by that one alone.
LEMMA SoleSettler ==
    ASSUME NEW S, NEW C, NEW A, NEW K, NEW H, Good(S, C, A, K, H), NEW p \in DOMAIN S.prom,
           Hands(C, K, H, p) # 0
    PROVE  /\ Free(S, p, Len(C), A) /\ Hands(C, K, H, p) = 1 /\ Owed(S, Down(p)) = 0
           /\ \A a \in DOMAIN A : A[a].out # p
<1>1. /\ S \in Store /\ Len(S.prom) <= MaxProm /\ Fits(S, Len(C), A) /\ \A x \in DOMAIN S.prom : Adopted(S, x)
      /\ C \in Seq(CoroT) /\ A \in Seq(AllT) /\ K \in Seq(FrameT)
      /\ SettledAt(S, C, A, K, H, p)
  BY DEF Good, Shaped, Settled, Holds, CorosFit, AllsFit, FramesFit
<1>2. Hands(C, K, H, p) \in Nat /\ CountIn(A, Outs(p)) \in Nat /\ Owed(S, Down(p)) \in Nat
  BY <1>1, HandsNat, OwedNat
<1>3. /\ Open(S, p) /\ Hands(C, K, H, p) = 1 /\ Owed(S, Down(p)) = 0 /\ CountIn(A, Outs(p)) = 0
  BY <1>1, <1>2 DEF SettledAt, Flag
<1>4. S.prom[p].from = 0
  BY <1>1, <1>3, LinkedOwed
<1>5. \A a \in DOMAIN A : A[a].out # p
  <2>1. \A a \in DOMAIN A : A[a] \notin Outs(p) /\ A[a] \in AllT
    BY <1>1, <1>3, CountFew
  <2> QED BY <2>1 DEF Outs
<1> QED BY <1>1, <1>3, <1>4, <1>5 DEF Free

\* The out promise of a call of Promise.all, while pending, is settled by the
\* call alone.
LEMMA OutSettler ==
    ASSUME NEW S, NEW C, NEW A, NEW K, NEW H, Good(S, C, A, K, H), NEW a \in DOMAIN A,
           Open(S, A[a].out)
    PROVE  LET p == A[a].out
           IN  /\ Free(S, p, Len(C), A) /\ Hands(C, K, H, p) = 0 /\ Owed(S, Down(p)) = 0
               /\ \A b \in DOMAIN A : A[b].out = p => b = a
<1> DEFINE p == A[a].out
<1>0. p \in DOMAIN S.prom
  BY StoreParts DEF Good, Shaped, Holds, AllsFit, AllFits
<1>1. /\ S \in Store /\ Len(S.prom) <= MaxProm /\ Fits(S, Len(C), A) /\ \A x \in DOMAIN S.prom : Adopted(S, x)
      /\ C \in Seq(CoroT) /\ A \in Seq(AllT) /\ K \in Seq(FrameT)
      /\ SettledAt(S, C, A, K, H, p)
  BY <1>0 DEF Good, Shaped, Settled, Holds, CorosFit, AllsFit, FramesFit
<1>2. Hands(C, K, H, p) \in Nat /\ CountIn(A, Outs(p)) \in Nat /\ Owed(S, Down(p)) \in Nat
  BY <1>1, HandsNat, OwedNat
<1>3. /\ CountIn(A, Outs(p)) # 0
      /\ \A b \in DOMAIN A : CountIn(A, Outs(p)) = 1 /\ A[b].out = p => b = a
  <2>1. \A b \in DOMAIN A : A[b].out = p => A[b] \in Outs(p)
    BY <1>1 DEF Outs
  <2>2. /\ CountIn(A, Outs(p)) = 0 <=> \A b \in DOMAIN A : A[b] \notin Outs(p)
        /\ \A b, c \in DOMAIN A : CountIn(A, Outs(p)) = 1 /\ A[b] \in Outs(p) /\ A[c] \in Outs(p) => b = c
    BY <1>1, CountFew
  <2> QED BY <2>1, <2>2
<1> HIDE DEF p
<1>4. Open(S, p)
  BY DEF p
<1>5. /\ Hands(C, K, H, p) = 0 /\ Owed(S, Down(p)) = 0 /\ CountIn(A, Outs(p)) = 1
  BY <1>1, <1>2, <1>3, <1>4 DEF SettledAt, Flag
<1>6. S.prom[p].from = 0
  BY <1>0, <1>1, <1>4, <1>5, LinkedOwed
<1> QED BY <1>0, <1>1, <1>3, <1>4, <1>5, <1>6 DEF Free, p

\* A call of Promise.all stays exact while its slots and its promise are left
\* alone and what is settled is kept.
LEMMA ExactKept ==
    ASSUME NEW S \in Store, NEW R \in Store, Kept(S, R), NEW x, NEW a, AllFits(x, Len(S.prom)),
           Exact(S, x, a), \A i \in 1..AllSize : Owed(R, SlotOf(a, i)) = Owed(S, SlotOf(a, i)),
           Open(S, x.out) => Open(R, x.out)
    PROVE  Exact(R, x, a)
<1>1. /\ x.out \in DOMAIN S.prom /\ \A i \in 1..AllSize : x.items[i] \in DOMAIN S.prom
  BY StoreParts DEF AllFits
<1>2. Over(R, a) = Over(S, a) /\ Over(S, a) \subseteq 1..AllSize
  BY DEF Over
<1>3. \A i \in Over(S, a) : ~Open(S, x.items[i]) /\ R.prom[x.items[i]] = S.prom[x.items[i]]
  BY <1>1, <1>2 DEF Exact, Kept
<1>4. Failed(R, x, a) = Failed(S, x, a) /\ Failed(S, x, a) \subseteq Over(S, a)
  BY <1>2, <1>3 DEF Failed
<1>5. R.prom[x.out].status = S.prom[x.out].status
  BY <1>1 DEF Kept, Open
<1>6. Failed(S, x, a) # {} => R.prom[x.out] = S.prom[x.out]
  BY <1>1 DEF Exact, Kept, Open
<1>7. \A i \in Over(S, a) : ~Open(R, x.items[i])
  BY <1>3 DEF Open
<1>8. \A i \in 1..AllSize :
         x.results[i] = IF i \in Over(R, a) \ Failed(R, x, a) THEN R.prom[x.items[i]].value ELSE Null
  BY <1>2, <1>3, <1>4 DEF Exact
<1>9. Failed(R, x, a) # {} => \E i \in Failed(R, x, a) : R.prom[x.out].value = R.prom[x.items[i]].value
  BY <1>3, <1>4, <1>6 DEF Exact
<1> QED BY <1>2, <1>4, <1>5, <1>7, <1>8, <1>9 DEF Exact

\* Nothing is owed by what nothing leads to; nobody waits who is nowhere.
LEMMA OwedNone ==
    ASSUME NEW S \in Store, NEW U,
           \A q \in DOMAIN S.prom : \A i \in DOMAIN S.prom[q].reactions : S.prom[q].reactions[i] \notin U,
           \A k \in DOMAIN S.queue : S.queue[k].then \notin U
    PROVE  Owed(S, U) = 0
<1> DEFINE F == ReactionsOf(S.prom)
<1>1. /\ F \in Rows(ReactionType) /\ S.queue \in Seq(TaskT)
      /\ \A q \in DOMAIN F : \A i \in DOMAIN F[q] : F[q][i] \notin U
  BY StoreLists, StoreParts DEF ReactionsOf
<1>2. \A k \in DOMAIN S.queue : S.queue[k] \notin TasksFor(U)
  BY DEF TasksFor
<1>3. CountIn(S.queue, TasksFor(U)) = 0
  BY <1>1, <1>2, CountFew
<1> HIDE DEF F
<1>4. Total(F, U) = 0
  BY <1>1, TotalFew
<1> QED BY <1>3, <1>4 DEF Owed, F

\* A coroutine that is in no list of waiters and no task waits nowhere.
LEMMA WaitsNone ==
    ASSUME NEW S \in Store, NEW c,
           \A q \in DOMAIN S.prom : \A i \in DOMAIN S.prom[q].waiters : S.prom[q].waiters[i] # c,
           \A k \in DOMAIN S.queue : S.queue[k].coro # c
    PROVE  Waits(S, c) = 0
<1> DEFINE F == WaitersOf(S.prom)
<1>1. /\ F \in Rows(Crew) /\ S.queue \in Seq(TaskT)
      /\ \A q \in DOMAIN F : \A i \in DOMAIN F[q] : F[q][i] \notin {c}
  BY StoreLists, StoreParts DEF WaitersOf
<1>2. \A k \in DOMAIN S.queue : S.queue[k] \notin TasksOf(c)
  BY DEF TasksOf
<1>3. CountIn(S.queue, TasksOf(c)) = 0
  BY <1>1, <1>2, CountFew
<1> HIDE DEF F
<1>4. Total(F, {c}) = 0
  BY <1>1, TotalFew
<1> QED BY <1>3, <1>4 DEF Waits, F

\* The parts of a good state.
LEMMA GoodParts ==
    ASSUME NEW S, NEW C, NEW A, NEW K, NEW H, Good(S, C, A, K, H)
    PROVE  /\ S \in Store /\ Len(S.prom) \in Nat /\ Len(S.prom) <= MaxProm
           /\ DOMAIN S.prom = 1..Len(S.prom)
           /\ Holds(S, Len(C), A) /\ Fits(S, Len(C), A) /\ \A x \in DOMAIN S.prom : Adopted(S, x)
           /\ CorosFit(C, Len(S.prom)) /\ C \in Seq(CoroT) /\ Len(C) \in Nat /\ DOMAIN C = 1..Len(C)
           /\ Len(C) <= MaxCoro
           /\ AllsFit(A, Len(S.prom)) /\ A \in Seq(AllT) /\ Len(A) \in Nat /\ DOMAIN A = 1..Len(A)
           /\ Len(A) <= MaxAll
           /\ FramesFit(K, Len(S.prom), Len(C)) /\ K \in Seq(FrameT) /\ Len(K) \in Nat
           /\ DOMAIN K = 1..Len(K)
           /\ H \subseteq DOMAIN S.prom
           /\ Placed(S, C, K) /\ Settled(S, C, A, K, H) /\ AllsExact(S, A)
<1>1. /\ S \in Store /\ Holds(S, Len(C), A) /\ CorosFit(C, Len(S.prom)) /\ AllsFit(A, Len(S.prom))
      /\ FramesFit(K, Len(S.prom), Len(C)) /\ H \subseteq DOMAIN S.prom
      /\ Placed(S, C, K) /\ Settled(S, C, A, K, H) /\ AllsExact(S, A)
  BY DEF Good, Shaped, Holds
<1>2. Len(S.prom) \in Nat /\ DOMAIN S.prom = 1..Len(S.prom)
  BY <1>1, StoreParts
<1>3. C \in Seq(CoroT) /\ Len(C) <= MaxCoro
  BY <1>1 DEF CorosFit
<1>4. A \in Seq(AllT) /\ Len(A) <= MaxAll
  BY <1>1 DEF AllsFit
<1>5. K \in Seq(FrameT)
  BY <1>1 DEF FramesFit
<1>6. /\ Len(C) \in Nat /\ DOMAIN C = 1..Len(C) /\ Len(A) \in Nat /\ DOMAIN A = 1..Len(A)
      /\ Len(K) \in Nat /\ DOMAIN K = 1..Len(K)
  BY <1>3, <1>4, <1>5
<1>7. Len(S.prom) <= MaxProm /\ Fits(S, Len(C), A) /\ \A x \in DOMAIN S.prom : Adopted(S, x)
  BY <1>1 DEF Holds
<1> QED BY <1>1, <1>2, <1>3, <1>4, <1>5, <1>6, <1>7

\* Nothing leads to a promise that is not there yet.
LEMMA Newcomer ==
    ASSUME NEW S, NEW C, NEW A, NEW K, NEW H, Good(S, C, A, K, H)
    PROVE  LET n == Len(S.prom) + 1
           IN  /\ Hands(C, K, H, n) = 0 /\ CountIn(A, Outs(n)) = 0 /\ ~Dropped(C, n)
               /\ Owed(S, Down(n)) = 0
<1> DEFINE n == Len(S.prom) + 1
<1>1. /\ S \in Store /\ Len(S.prom) \in Nat /\ DOMAIN S.prom = 1..Len(S.prom)
      /\ Fits(S, Len(C), A) /\ CorosFit(C, Len(S.prom)) /\ C \in Seq(CoroT)
      /\ AllsFit(A, Len(S.prom)) /\ A \in Seq(AllT)
      /\ FramesFit(K, Len(S.prom), Len(C)) /\ K \in Seq(FrameT)
      /\ H \subseteq DOMAIN S.prom
  BY GoodParts
<1>2. \A c \in DOMAIN C : C[c].owes # n
  BY <1>1 DEF CorosFit, CoroFits
<1>3. CountIn(C, Owers(n)) = 0 /\ ~Dropped(C, n)
  <2>1. \A c \in DOMAIN C : C[c] \notin Owers(n)
    BY <1>2 DEF Owers
  <2>2. CountIn(C, Owers(n)) = 0
    BY <1>1, <2>1, CountFew
  <2> QED BY <1>2, <2>2 DEF Dropped
<1>4. CountIn(K, {Frame("react", n)}) = 0
  <2>1. \A d \in DOMAIN K : K[d] \notin {Frame("react", n)}
    <3> TAKE d \in DOMAIN K
    <3>1. K[d].kind = "react" => K[d].id # n
      BY <1>1 DEF FramesFit, FrameFits
    <3>2. Frame("react", n).kind = "react" /\ Frame("react", n).id = n
      BY DEF Frame
    <3> QED BY <3>1, <3>2
  <2> QED BY <1>1, <2>1, CountFew
<1>5. CountIn(A, Outs(n)) = 0
  <2>1. \A a \in DOMAIN A : A[a] \notin Outs(n)
    BY <1>1 DEF AllsFit, AllFits, Outs
  <2> QED BY <1>1, <2>1, CountFew
<1>6. n \notin H
  BY <1>1
<1>7. Owed(S, Down(n)) = 0
  <2>1. ASSUME NEW q, NEW r, ReactionFits(q, r, Len(S.prom), A) PROVE r \notin Down(n)
    BY <1>1, <2>1 DEF ReactionFits, Down
  <2>2. \A q \in DOMAIN S.prom : \A i \in DOMAIN S.prom[q].reactions : S.prom[q].reactions[i] \notin Down(n)
    BY <1>1, <2>1 DEF Fits, PromiseFits
  <2>3. PassOn(0) \notin Down(n)
    BY <1>1 DEF PassOn, Reaction, Down
  <2>4. \A k \in DOMAIN S.queue : S.queue[k].then \notin Down(n)
    BY <1>1, <2>1, <2>3 DEF Fits, TaskFits
  <2> QED BY <1>1, <2>2, <2>4, OwedNone
<1> HIDE DEF n
<1>8. Hands(C, K, H, n) = 0
  BY <1>3, <1>4, <1>6 DEF Hands, Flag
<1> QED BY <1>3, <1>5, <1>7, <1>8 DEF n

\* Every call of Promise.all stays exact while no promise of theirs is settled
\* and no slot is touched.
LEMMA ExactsKept ==
    ASSUME NEW S, NEW C, NEW A, NEW K, NEW H, Good(S, C, A, K, H), NEW R \in Store, Kept(S, R),
           \A a \in DOMAIN A : \A i \in 1..AllSize : Owed(R, SlotOf(a, i)) = Owed(S, SlotOf(a, i)),
           \A a \in DOMAIN A : Open(S, A[a].out) => Open(R, A[a].out)
    PROVE  AllsExact(R, A)
<1>1. S \in Store /\ AllsFit(A, Len(S.prom)) /\ AllsExact(S, A)
  BY GoodParts
<1>2. ASSUME NEW a \in DOMAIN A PROVE Exact(R, A[a], a)
  <2>1. AllFits(A[a], Len(S.prom)) /\ Exact(S, A[a], a)
    BY <1>1 DEF AllsFit, AllsExact
  <2> QED BY <1>1, <2>1, ExactKept
<1> QED BY <1>2 DEF AllsExact

\* Slots of the calls there are.
LEMMA ProperSlots ==
    ASSUME NEW S, NEW C, NEW A, NEW K, NEW H, Good(S, C, A, K, H)
    PROVE  /\ \A a \in DOMAIN A : \A i : SlotOf(a, i) \in Proper
           /\ \A p \in DOMAIN S.prom : Down(p) \in Proper
           /\ Down(Len(S.prom) + 1) \in Proper
<1>1. /\ Len(S.prom) \in Nat /\ DOMAIN S.prom = 1..Len(S.prom)
      /\ Len(A) \in Nat /\ DOMAIN A = 1..Len(A)
  BY GoodParts
<1>2. PassOn(0).down = 0 /\ PassOn(0).slot = <<0, 0>>
  BY DEF PassOn, Reaction, NoSlot
<1>3. ASSUME NEW p \in Nat, p # 0 PROVE Down(p) \in Proper
  BY <1>2, <1>3 DEF Down, Proper
<1>4. ASSUME NEW a \in Nat, a # 0, NEW i PROVE SlotOf(a, i) \in Proper
  <2>1. PassOn(0) \notin SlotOf(a, i)
    BY <1>2, <1>4 DEF SlotOf
  <2> QED BY <2>1 DEF SlotOf, Proper
<1> QED BY <1>1, <1>3, <1>4

\* A step in which the party that settles p does so, or hands it to a promise.
LEMMA StepSettles ==
    ASSUME NEW S, NEW C, NEW A, NEW K, NEW H, Good(S, C, A, K, H), NEW p \in DOMAIN S.prom,
           Hands(C, K, H, p) # 0,
           NEW R, HandsOver(S, R, p, Len(C), A),
           NEW C2, NEW K2, NEW H2, CorosFit(C2, Len(S.prom)), Len(C2) = Len(C),
           FramesFit(K2, Len(S.prom), Len(C)), H2 \subseteq DOMAIN S.prom, Placed(S, C2, K2),
           \A x \in DOMAIN S.prom : /\ Hands(C2, K2, H2, x) = Hands(C, K, H, x) - Flag(x = p)
                                    /\ Dropped(C2, x) <=> Dropped(C, x)
    PROVE  Good(R, C2, A, K2, H2)
<1>1. /\ S \in Store /\ Len(S.prom) \in Nat /\ Len(S.prom) <= MaxProm
      /\ DOMAIN S.prom = 1..Len(S.prom)
      /\ AllsFit(A, Len(S.prom)) /\ A \in Seq(AllT) /\ DOMAIN A = 1..Len(A)
      /\ K \in Seq(FrameT) /\ C \in Seq(CoroT) /\ Settled(S, C, A, K, H)
      /\ Len(C) \in Nat /\ Len(C) <= MaxCoro
  BY GoodParts
<1>2. /\ Open(S, p) /\ Hands(C, K, H, p) = 1 /\ Owed(S, Down(p)) = 0
      /\ \A a \in DOMAIN A : A[a].out # p
  BY SoleSettler DEF Free
<1>3. /\ R \in Store /\ Len(R.prom) = Len(S.prom) /\ Fits(R, Len(C), A) /\ Kept(S, R)
      /\ \A x \in DOMAIN S.prom : Adopted(R, x)
      /\ \A x \in DOMAIN S.prom \ {p} : Open(R, x) <=> Open(S, x)
      /\ \A U \in Proper : Owed(R, U) = Owed(S, U) + Flag(PassOn(p) \in U /\ Open(R, p))
      /\ \A c \in Crew : Waits(R, c) = Waits(S, c)
  BY DEF HandsOver
<1>4. DOMAIN R.prom = DOMAIN S.prom
  BY <1>1, <1>3, StoreParts
<1>5. Holds(R, Len(C2), A)
  BY <1>1, <1>3, <1>4 DEF Holds
<1>6. Shaped(R, C2, A, K2, H2)
  BY <1>1, <1>3, <1>4, <1>5 DEF Shaped
<1>7. Placed(R, C2, K2)
  <2>1. \A c \in DOMAIN C2 : c \in Crew
    BY <1>1, BoundsAssumption DEF CorosFit, Crew
  <2> QED BY <1>3, <2>1 DEF Placed
<1>8. ASSUME NEW a \in DOMAIN A
      PROVE  /\ \A i \in 1..AllSize : Owed(R, SlotOf(a, i)) = Owed(S, SlotOf(a, i))
             /\ Open(S, A[a].out) => Open(R, A[a].out)
  <2>1. ASSUME NEW i \in 1..AllSize PROVE Owed(R, SlotOf(a, i)) = Owed(S, SlotOf(a, i))
    <3>1. SlotOf(a, i) \in Proper /\ Owed(S, SlotOf(a, i)) \in Nat
      BY <1>1, ProperSlots, OwedNat
    <3>2. PassOn(p) \notin SlotOf(a, i)
      <4>1. PassOn(p).slot = <<0, 0>>
        BY DEF PassOn, Reaction, NoSlot
      <4> QED BY <1>1, <4>1 DEF SlotOf
    <3> QED BY <1>3, <3>1, <3>2 DEF Flag
  <2>2. A[a].out \in DOMAIN S.prom \ {p}
    BY <1>1, <1>2 DEF AllsFit, AllFits
  <2> QED BY <1>3, <2>1, <2>2
<1>9. AllsExact(R, A)
  BY <1>3, <1>8, ExactsKept
<1>10. PassOn(p) \in ReactionType /\ PassOn(p).down = p
  <2>1. p \in Ids
    BY <1>1, BoundsAssumption DEF Ids
  <2> QED BY <2>1, BoundsAssumption, AllSizeAssumption DEF PassOn, Reaction, NoSlot, ReactionType
<1>11. ASSUME NEW x \in DOMAIN S.prom PROVE SettledAt(R, C2, A, K2, H2, x)
  <2>1. Down(x) \in Proper /\ SettledAt(S, C, A, K, H, x) /\ Owed(S, Down(x)) \in Nat
    BY <1>1, ProperSlots, OwedNat DEF Settled
  <2>2. Hands(C, K, H, x) \in Nat
    BY <1>1, HandsNat
  <2>3. Owed(R, Down(x)) = Owed(S, Down(x)) + Flag(PassOn(p) \in Down(x) /\ Open(R, p))
    BY <1>3, <2>1
  <2>4. PassOn(p) \in Down(x) <=> x = p
    BY <1>10 DEF Down
  <2>5. CASE x = p /\ ~Open(R, p)
    <3>1. Hands(C2, K2, H2, x) = 0 /\ Owed(R, Down(x)) = 0
      BY <1>2, <2>3, <2>5 DEF Flag
    <3> QED BY <2>5, <3>1, BalanceSettled
  <2>6. CASE x = p /\ Open(R, p)
    <3>1. Hands(C2, K2, H2, x) = 0 /\ Owed(R, Down(x)) = 1
      BY <1>2, <2>3, <2>4, <2>6 DEF Flag
    <3> QED BY <1>2, <2>1, <2>6, <3>1, BalanceKept
  <2>7. CASE x # p
    <3>1. Hands(C2, K2, H2, x) = Hands(C, K, H, x) /\ Owed(R, Down(x)) = Owed(S, Down(x))
      BY <2>1, <2>2, <2>3, <2>4, <2>7 DEF Flag
    <3>2. Open(R, x) <=> Open(S, x)
      BY <1>3, <2>7
    <3> QED BY <2>1, <3>1, <3>2, BalanceKept
  <2> QED BY <2>5, <2>6, <2>7
<1> QED BY <1>4, <1>6, <1>7, <1>9, <1>11 DEF Good, Settled

\* The slots are owed as before; the promises have the same parties to settle them.
SlotsSame(S, R, A) ==
    \A a \in DOMAIN A : \A i \in 1..AllSize : Owed(R, SlotOf(a, i)) = Owed(S, SlotOf(a, i))
HandsSame(S, C, K, H, R, C2, K2, H2) ==
    \A x \in DOMAIN S.prom :
       /\ Hands(C2, K2, H2, x) + Owed(R, Down(x)) = Hands(C, K, H, x) + Owed(S, Down(x))
       /\ Dropped(C2, x) <=> Dropped(C, x)

\* A step in which no promise is settled and none created.
LEMMA StepKeeps ==
    ASSUME NEW S, NEW C, NEW A, NEW K, NEW H, Good(S, C, A, K, H), NEW R, SettlesNone(S, R),
           NEW C2, NEW K2, NEW H2, Holds(R, Len(C2), A), CorosFit(C2, Len(S.prom)),
           FramesFit(K2, Len(S.prom), Len(C2)), H2 \subseteq DOMAIN S.prom, Placed(R, C2, K2),
           SlotsSame(S, R, A), HandsSame(S, C, K, H, R, C2, K2, H2)
    PROVE  Good(R, C2, A, K2, H2)
<1>1. /\ S \in Store /\ Len(S.prom) \in Nat /\ DOMAIN S.prom = 1..Len(S.prom)
      /\ AllsFit(A, Len(S.prom)) /\ Settled(S, C, A, K, H) /\ DOMAIN A = 1..Len(A)
  BY GoodParts
<1>2. R \in Store /\ Len(R.prom) = Len(S.prom) /\ Kept(S, R) /\ \A x \in DOMAIN S.prom : Open(R, x) <=> Open(S, x)
  BY DEF SettlesNone, Holds
<1>3. DOMAIN R.prom = DOMAIN S.prom
  BY <1>1, <1>2, StoreParts
<1>4. Shaped(R, C2, A, K2, H2)
  BY <1>1, <1>2, <1>3 DEF Shaped
<1>5. \A a \in DOMAIN A : Open(S, A[a].out) => Open(R, A[a].out)
  BY <1>1, <1>2 DEF AllsFit, AllFits
<1>6. AllsExact(R, A)
  BY <1>2, <1>5, ExactsKept DEF SlotsSame
<1>7. ASSUME NEW x \in DOMAIN S.prom PROVE SettledAt(R, C2, A, K2, H2, x)
  BY <1>1, <1>2, BalanceKept DEF Settled, HandsSame
<1> QED BY <1>3, <1>4, <1>6, <1>7 DEF Good, Settled

\* The newest promise has one party to settle it, or is settled.
OneHand(R, C, K, H) ==
    LET n == Len(R.prom)
    IN  ~Dropped(C, n) /\ Hands(C, K, H, n) + Owed(R, Down(n)) = Flag(Open(R, n))

\* A step in which one promise is created, which has a settler or is settled.
LEMMA StepCreates ==
    ASSUME NEW S, NEW C, NEW A, NEW K, NEW H, Good(S, C, A, K, H),
           NEW R, NEW C2, NEW K2, NEW H2, Holds(R, Len(C2), A), Len(R.prom) = Len(S.prom) + 1,
           Kept(S, R), \A x \in DOMAIN S.prom : Open(R, x) <=> Open(S, x),
           CorosFit(C2, Len(R.prom)), FramesFit(K2, Len(R.prom), Len(C2)),
           H2 \subseteq DOMAIN R.prom, Placed(R, C2, K2),
           SlotsSame(S, R, A), HandsSame(S, C, K, H, R, C2, K2, H2), OneHand(R, C2, K2, H2)
    PROVE  Good(R, C2, A, K2, H2)
<1> DEFINE n == Len(R.prom)
<1>1. /\ S \in Store /\ Len(S.prom) \in Nat /\ DOMAIN S.prom = 1..Len(S.prom)
      /\ AllsFit(A, Len(S.prom)) /\ Settled(S, C, A, K, H) /\ DOMAIN A = 1..Len(A)
  BY GoodParts
<1>2. R \in Store /\ DOMAIN R.prom = 1..n
  BY StoreParts DEF Holds
<1>3. \A a \in DOMAIN A : AllFits(A[a], n) /\ A[a].out \in DOMAIN S.prom
  BY <1>1 DEF AllsFit, AllFits
<1>4. AllsFit(A, n)
  BY <1>1, <1>3 DEF AllsFit
<1>5. Shaped(R, C2, A, K2, H2)
  BY <1>4 DEF Shaped
<1>6. AllsExact(R, A)
  BY <1>2, <1>3, ExactsKept DEF SlotsSame
<1>7. ASSUME NEW x \in DOMAIN S.prom PROVE SettledAt(R, C2, A, K2, H2, x)
  BY <1>1, BalanceKept DEF Settled, HandsSame
<1>8. SettledAt(R, C2, A, K2, H2, n)
  <2>1. CountIn(A, Outs(n)) = 0
    BY Newcomer
  <2>2. C2 \in Seq(CoroT) /\ K2 \in Seq(FrameT) /\ A \in Seq(AllT)
    BY <1>1 DEF CorosFit, FramesFit, AllsFit
  <2>3. Hands(C2, K2, H2, n) \in Nat /\ Owed(R, Down(n)) \in Nat
    BY <1>2, <2>2, HandsNat, OwedNat
  <2> HIDE DEF n
  <2>4. ~Dropped(C2, n) /\ Hands(C2, K2, H2, n) + Owed(R, Down(n)) = Flag(Open(R, n))
    BY DEF n, OneHand
  <2> QED BY <2>1, <2>3, <2>4 DEF SettledAt, Flag
<1>9. \A x \in DOMAIN R.prom : x = n \/ x \in DOMAIN S.prom
  BY <1>1, <1>2
<1> QED BY <1>5, <1>6, <1>7, <1>8, <1>9 DEF Good, Settled

-----------------------------------------------------------------------------
(* Frames and coroutines.                                                  *)

\* More promises and coroutines take nothing away.
LEMMA ShapesMore ==
    ASSUME NEW n \in Nat, NEW m \in Nat, n <= m, NEW nc \in Nat, NEW mc \in Nat, nc <= mc,
           NEW C, NEW K
    PROVE  /\ CorosFit(C, n) => CorosFit(C, m)
           /\ FramesFit(K, n, nc) => FramesFit(K, m, mc)
<1>1. CorosFit(C, n) => CorosFit(C, m)
  BY DEF CorosFit, CoroFits
<1>2. 1..n \subseteq 1..m /\ 1..nc \subseteq 1..mc
  OBVIOUS
<1>3. FramesFit(K, n, nc) => FramesFit(K, m, mc)
  BY <1>2 DEF FramesFit, FrameFits
<1> QED BY <1>1, <1>3

\* ... nor do more promises alone.
LEMMA MorePromises ==
    ASSUME NEW n \in Nat, NEW m \in Nat, n <= m, NEW nc \in Nat,
           NEW C, NEW K, CorosFit(C, n), FramesFit(K, n, nc)
    PROVE  CorosFit(C, m) /\ FramesFit(K, m, nc)
<1>1. nc <= nc
  OBVIOUS
<1> QED BY <1>1, ShapesMore

\* A frame pushed.
LEMMA PushFrame ==
    ASSUME NEW n, NEW nc, NEW K, FramesFit(K, n, nc), NEW f \in FrameT,
           f.kind = "react" => f.id \in 1..n,
           f.kind = "coro" => K # <<>> /\ f.id \in 1..nc,
           f.kind = "adopt" => K # <<>> /\ K[Len(K)].kind = "coro" /\ f.id \in 1..n
    PROVE  FramesFit(Append(K, f), n, nc)
<1> DEFINE L == Append(K, f)
<1>1. K \in Seq(FrameT) /\ Len(K) \in Nat /\ DOMAIN K = 1..Len(K)
  BY DEF FramesFit
<1>2. /\ L \in Seq(FrameT) /\ DOMAIN L = 1..(Len(K) + 1) /\ L[Len(K) + 1] = f
      /\ \A d \in DOMAIN K : L[d] = K[d]
  BY <1>1
<1>4. K # <<>> => Len(K) >= 1
  BY <1>1
<1> HIDE DEF L
<1>5. ASSUME NEW d \in DOMAIN L PROVE FrameFits(L, d, n, nc)
  <2>1. CASE d = Len(K) + 1
    <3>1. f.kind = "coro" \/ f.kind = "adopt" => d >= 2 /\ d - 1 = Len(K) /\ Len(K) \in DOMAIN K
      BY <1>1, <1>4, <2>1
    <3> QED BY <1>2, <2>1, <3>1 DEF FrameFits
  <2>2. CASE d # Len(K) + 1
    <3>1. d \in DOMAIN K /\ FrameFits(K, d, n, nc) /\ (d >= 2 => d - 1 \in DOMAIN K)
      BY <1>1, <1>2, <2>2 DEF FramesFit
    <3> QED BY <1>2, <3>1 DEF FrameFits
  <2> QED BY <2>1, <2>2
<1>6. FramesFit(L, n, nc)
  BY <1>2, <1>5 DEF FramesFit
<1> QED BY <1>6 DEF L

\* ... that is no coroutine's and no handler's.
Plain(K, K2) ==
    \A x : /\ CountIn(K2, {Frame("coro", x)}) = CountIn(K, {Frame("coro", x)})
           /\ CountIn(K2, {Frame("react", x)}) = CountIn(K, {Frame("react", x)})

\* Such a frame pushed fits.
LEMMA PushPlain ==
    ASSUME NEW n, NEW nc, NEW K, FramesFit(K, n, nc), NEW kind \in {"call", "drain", "adopt"},
           NEW id \in Nat, kind = "adopt" => K # <<>> /\ K[Len(K)].kind = "coro" /\ id \in 1..n
    PROVE  FramesFit(Append(K, Frame(kind, id)), n, nc) /\ Plain(K, Append(K, Frame(kind, id)))
<1> DEFINE f == Frame(kind, id)
           K2 == Append(K, f)
<1>1. f \in FrameT /\ f.kind = kind /\ f.id = id
  BY DEF Frame, FrameT
<1>2. K \in Seq(FrameT)
  BY DEF FramesFit
<1>3. ASSUME NEW x
      PROVE  /\ CountIn(K2, {Frame("coro", x)}) = CountIn(K, {Frame("coro", x)})
             /\ CountIn(K2, {Frame("react", x)}) = CountIn(K, {Frame("react", x)})
  <2>1. f # Frame("coro", x) /\ f # Frame("react", x)
    BY DEF Frame
  <2> HIDE DEF f
  <2>2. ASSUME NEW g, f # g PROVE CountIn(K2, {g}) = CountIn(K, {g})
    <3>1. CountIn(K2, {g}) = CountIn(K, {g}) + Flag(f \in {g})
      BY <1>1, <1>2, CountAppend
    <3>2. CountIn(K, {g}) \in Nat
      BY <1>2, CountNat
    <3> QED BY <2>2, <3>1, <3>2 DEF Flag
  <2> QED BY <2>1, <2>2
<1>4. Plain(K, K2)
  BY <1>3 DEF Plain
<1> HIDE DEF f
<1>5. FramesFit(K2, n, nc)
  BY <1>1, PushFrame
<1> QED BY <1>4, <1>5 DEF f

\* A frame popped.
LEMMA PopFrame ==
    ASSUME NEW n, NEW nc, NEW K, FramesFit(K, n, nc), K # <<>>
    PROVE  LET L == SubSeq(K, 1, Len(K) - 1)
           IN  FramesFit(L, n, nc) /\ Len(L) = Len(K) - 1 /\ \A d \in DOMAIN L : L[d] = K[d]
<1> DEFINE L == SubSeq(K, 1, Len(K) - 1)
<1>1. K \in Seq(FrameT) /\ Len(K) \in Nat /\ DOMAIN K = 1..Len(K) /\ Len(K) # 0
  BY DEF FramesFit
<1>2. /\ L \in Seq(FrameT) /\ Len(L) = Len(K) - 1 /\ DOMAIN L = 1..(Len(K) - 1)
      /\ \A d \in DOMAIN L : L[d] = K[d]
  BY <1>1
<1> HIDE DEF L
<1>5. ASSUME NEW d \in DOMAIN L PROVE FrameFits(L, d, n, nc)
  <2>1. d \in DOMAIN K /\ FrameFits(K, d, n, nc) /\ (d >= 2 => d - 1 \in DOMAIN L)
    BY <1>1, <1>2 DEF FramesFit
  <2> QED BY <1>2, <2>1 DEF FrameFits
<1>6. FramesFit(L, n, nc)
  BY <1>2, <1>5 DEF FramesFit
<1> QED BY <1>2, <1>6 DEF L

\* Without its top frame the stack counts that frame no more.
LEMMA PopCounts ==
    ASSUME NEW n, NEW nc, NEW K, FramesFit(K, n, nc), K # <<>>, NEW kind, NEW x
    PROVE  LET L == SubSeq(K, 1, Len(K) - 1)
               f == Frame(kind, x)
               top == K[Len(K)]
           IN  /\ FramesFit(L, n, nc)
               /\ CountIn(L, {f}) = IF top.kind = kind /\ top.id = x
                                    THEN CountIn(K, {f}) - 1 ELSE CountIn(K, {f})
<1> DEFINE L == SubSeq(K, 1, Len(K) - 1)
           f == Frame(kind, x)
           top == K[Len(K)]
<1>1. FramesFit(L, n, nc) /\ CountIn(L, {f}) = CountIn(K, {f}) - Flag(top \in {f})
  <2>1. FramesFit(L, n, nc)
    BY PopFrame
  <2>2. K \in Seq(FrameT)
    BY DEF FramesFit
  <2> QED BY <2>1, <2>2, CountFront
<1>2. top \in FrameT /\ CountIn(K, {f}) \in Nat
  <2>1. K \in Seq(FrameT) /\ Len(K) \in DOMAIN K
    BY DEF FramesFit
  <2> QED BY <2>1, CountNat
<1>3. top \in {f} <=> top.kind = kind /\ top.id = x
  BY <1>2 DEF FrameT, Frame
<1> HIDE DEF L, f, top
<1>5. CountIn(L, {f}) = IF top.kind = kind /\ top.id = x THEN CountIn(K, {f}) - 1 ELSE CountIn(K, {f})
  <2>1. CASE top \in {f}
    BY <1>1, <1>2, <1>3, <2>1 DEF Flag
  <2>2. CASE top \notin {f}
    BY <1>1, <1>2, <1>3, <2>2 DEF Flag
  <2> QED BY <2>1, <2>2
<1> QED BY <1>1, <1>5 DEF L, f, top

\* With a frame pushed it counts that one once more.
LEMMA PushCounts ==
    ASSUME NEW T, NEW K \in Seq(T), NEW k, NEW y, Frame(k, y) \in T, NEW kind, NEW x
    PROVE  LET L == Append(K, Frame(k, y))
               f == Frame(kind, x)
           IN  CountIn(L, {f}) = IF k = kind /\ y = x THEN CountIn(K, {f}) + 1 ELSE CountIn(K, {f})
<1> DEFINE e == Frame(k, y)
           L == Append(K, e)
           f == Frame(kind, x)
<1>1. CountIn(L, {f}) = CountIn(K, {f}) + Flag(e \in {f})
  BY CountAppend
<1>2. CountIn(K, {f}) \in Nat
  BY CountNat
<1>3. e \in {f} <=> k = kind /\ y = x
  BY DEF Frame
<1> HIDE DEF L, e, f
<1>4. CASE e \in {f}
  BY <1>1, <1>2, <1>3, <1>4 DEF Flag, L, e, f
<1>5. CASE e \notin {f}
  BY <1>1, <1>2, <1>3, <1>5 DEF Flag, L, e, f
<1> QED BY <1>4, <1>5

\* A frame popped that is no coroutine's and no handler's.
LEMMA PopPlain ==
    ASSUME NEW n, NEW nc, NEW K, FramesFit(K, n, nc), K # <<>>,
           K[Len(K)].kind \in {"call", "drain", "adopt"}
    PROVE  LET L == SubSeq(K, 1, Len(K) - 1)
           IN  FramesFit(L, n, nc) /\ Plain(K, L)
<1> DEFINE L == SubSeq(K, 1, Len(K) - 1)
<1>1. FramesFit(L, n, nc)
  BY PopCounts
<1>2. ASSUME NEW x, NEW kind \in {"coro", "react"}
      PROVE  CountIn(L, {Frame(kind, x)}) = CountIn(K, {Frame(kind, x)})
  <2>1. ~(K[Len(K)].kind = kind /\ K[Len(K)].id = x)
    OBVIOUS
  <2> QED BY <2>1, PopCounts
<1> QED BY <1>1, <1>2 DEF Plain

\* The frame on top.
LEMMA TopFrame ==
    ASSUME NEW n, NEW nc, NEW K, FramesFit(K, n, nc), K # <<>>
    PROVE  /\ K \in Seq(FrameT) /\ Len(K) \in DOMAIN K /\ K[Len(K)] \in FrameT
           /\ FrameFits(K, Len(K), n, nc)
           /\ \A g : K[Len(K)] = g => CountIn(K, {g}) # 0
           /\ \A g : CountIn(K, {g}) \in Nat
<1>1. K \in Seq(FrameT) /\ Len(K) \in DOMAIN K /\ K[Len(K)] \in FrameT
  BY DEF FramesFit
<1>2. FrameFits(K, Len(K), n, nc)
  BY <1>1 DEF FramesFit
<1>3. ASSUME NEW g
      PROVE  CountIn(K, {g}) \in Nat /\ (K[Len(K)] = g => CountIn(K, {g}) # 0)
  <2>1. CountIn(K, {g}) = 0 => K[Len(K)] \notin {g}
    BY <1>1, CountFew
  <2> QED BY <1>1, <2>1, CountNat
<1> QED BY <1>1, <1>2, <1>3

\* A coroutine replaced.
Recast(C, c, y) == [C EXCEPT ![c] = y]

\* The others are as they were, and fit.
LEMMA PutCoro ==
    ASSUME NEW n, NEW C, CorosFit(C, n), NEW c \in DOMAIN C, NEW y \in CoroT, CoroFits(y, n)
    PROVE  LET B == Recast(C, c, y)
           IN  /\ CorosFit(B, n) /\ Len(B) = Len(C) /\ DOMAIN B = DOMAIN C
               /\ B[c] = y /\ \A d \in DOMAIN C \ {c} : B[d] = C[d]
               /\ \A x : CountIn(B, Owers(x))
                           = CountIn(C, Owers(x)) - Flag(C[c] \in Owers(x)) + Flag(y \in Owers(x))
<1> DEFINE B == Recast(C, c, y)
<1>1. C \in Seq(CoroT) /\ Len(C) <= MaxCoro
  BY DEF CorosFit
<1>2. /\ B \in Seq(CoroT) /\ Len(B) = Len(C) /\ DOMAIN B = DOMAIN C
      /\ B[c] = y /\ \A d \in DOMAIN C \ {c} : B[d] = C[d]
  BY <1>1, ExceptSeq DEF Recast
<1>3. \A x : CountIn(B, Owers(x))
               = CountIn(C, Owers(x)) - Flag(C[c] \in Owers(x)) + Flag(y \in Owers(x))
  BY <1>1, CountExcept DEF Recast
<1> HIDE DEF B
<1>4. \A d \in DOMAIN B : CoroFits(B[d], n)
  BY <1>2 DEF CorosFit
<1>5. CorosFit(B, n)
  BY <1>1, <1>2, <1>4 DEF CorosFit
<1> QED BY <1>2, <1>3, <1>5 DEF B

\* A coroutine that is under way and owes p counts among p's settlers.
LEMMA OwerCounts ==
    ASSUME NEW C \in Seq(CoroT), NEW c \in DOMAIN C, NEW p, C[c].owes = p, C[c].state = "live"
    PROVE  C[c] \in Owers(p) /\ CountIn(C, Owers(p)) # 0
<1>1. C[c] \in Owers(p)
  BY DEF Owers
<1> QED BY <1>1, CountFew

-----------------------------------------------------------------------------
(* Every action preserves the invariant.                                   *)

\* What a step makes of the promises and the queue.
LEMMA BecomeStore ==
    ASSUME NEW R \in Store, Become(R)
    PROVE  Now' = R
<1>1. R = [prom |-> R.prom, queue |-> R.queue]
  BY StoreParts
<1> QED BY <1>1 DEF Become, Now

\* The invariant now, by its parts.
LEMMA GoodNow ==
    ASSUME IInv
    PROVE  /\ Good(Now, coro, alls, stack, hosted) /\ Now \in Store
           /\ Now.prom = prom /\ Now.queue = queue /\ calls \in 0..MaxCalls
           /\ Len(prom) \in Nat /\ Proms = 1..Len(prom) /\ Coros = 1..Len(coro)
           /\ \A p : Open(Now, p) <=> Pending(p)
<1>1. Good(Now, coro, alls, stack, hosted) /\ calls \in 0..MaxCalls
  BY DEF IInv
<1>2. Now.prom = prom /\ Now.queue = queue
  BY DEF Now
<1>3. Now \in Store /\ Len(prom) \in Nat /\ Proms = 1..Len(prom) /\ Coros = 1..Len(coro)
  BY <1>1, <1>2, GoodParts DEF Proms, Coros
<1> QED BY <1>1, <1>2, <1>3 DEF Open, Pending

\* A step that only pushes or pops frames of no coroutine and no handler.
LEMMA Reframe ==
    ASSUME NEW S, NEW C, NEW A, NEW K, NEW H, Good(S, C, A, K, H),
           NEW K2, FramesFit(K2, Len(S.prom), Len(C)),
           Plain(K, K2)
    PROVE  Good(S, C, A, K2, H)
<1>1. Placed(S, C, K2)
  BY DEF Good, Placed, Plain
<1>2. \A x : Hands(C, K2, H, x) = Hands(C, K, H, x)
  BY DEF Hands, Plain
<1>3. Settled(S, C, A, K2, H)
  BY <1>2 DEF Good, Settled, SettledAt
<1>4. Shaped(S, C, A, K2, H)
  BY DEF Good, Shaped
<1> QED BY <1>1, <1>3, <1>4 DEF Good

\* A promise created, before anything is done with it.
Born(S, R, nc, A) ==
    LET n == Len(S.prom) + 1
    IN  /\ Holds(R, nc, A) /\ Free(R, n, nc, A) /\ Len(R.prom) = n /\ Kept(S, R)
        /\ R \in Store /\ DOMAIN R.prom = 1..n
        /\ \A x \in DOMAIN S.prom : Open(R, x) <=> Open(S, x)
        /\ Open(R, n) /\ Owed(R, Down(n)) = 0
        /\ \A U : Owed(R, U) = Owed(S, U)
        /\ \A c : Waits(R, c) = Waits(S, c)

\* That is what Create does.
LEMMA Created ==
    ASSUME NEW S, NEW C, NEW A, NEW K, NEW H, Good(S, C, A, K, H), Len(S.prom) + 1 <= MaxProm
    PROVE  Born(S, Create(S), Len(C), A)
<1> DEFINE R == Create(S)
           n == Len(S.prom) + 1
<1>1. /\ S \in Store /\ Fits(S, Len(C), A) /\ (\A x \in DOMAIN S.prom : Adopted(S, x))
      /\ Len(S.prom) \in Nat /\ DOMAIN S.prom = 1..Len(S.prom)
  BY GoodParts
<1>2. /\ R \in Store /\ Len(R.prom) = n /\ R.prom[n] = Fresh
      /\ \A U : Owed(R, U) = Owed(S, U)
      /\ \A c : Waits(R, c) = Waits(S, c)
  BY <1>1, CreateStore
<1>3. /\ Fits(R, Len(C), A) /\ Kept(S, R) /\ Open(R, n) /\ Adopted(R, n)
      /\ \A x \in DOMAIN S.prom : /\ Open(R, x) <=> Open(S, x)
                                  /\ Adopted(S, x) => Adopted(R, x)
  BY <1>1, CreateFits
<1> HIDE DEF R
<1>4. DOMAIN R.prom = 1..n
  BY <1>2, StoreParts
<1>5. \A x \in DOMAIN R.prom : Adopted(R, x)
  <2> TAKE x \in DOMAIN R.prom
  <2>1. x = n \/ x \in DOMAIN S.prom
    BY <1>1, <1>4
  <2> QED BY <1>1, <1>3, <2>1
<1>6. Holds(R, Len(C), A)
  BY <1>2, <1>3, <1>5 DEF Holds
<1>7. R.prom[n].from = 0
  BY <1>2 DEF Fresh
<1>8. n \in DOMAIN R.prom
  BY <1>1, <1>4
<1>9. Free(R, n, Len(C), A)
  BY <1>2, <1>3, <1>5, <1>7, <1>8 DEF Free
<1>10. Owed(R, Down(n)) = 0
  BY <1>2, Newcomer
<1> QED BY <1>2, <1>3, <1>4, <1>6, <1>9, <1>10 DEF R, Born

\* What every step does.
Stepped == IInv' /\ Kept(Now, Now')

\* A step that leaves promises and queue alone.
LEMMA SameStore ==
    ASSUME IInv, UNCHANGED <<prom, queue>>
    PROVE  Now' = Now /\ Kept(Now, Now')
<1>1. Now' = Now
  BY DEF Now
<1>2. Len(Now.prom) \in Nat
  BY GoodNow
<1>3. Kept(Now, Now)
  BY <1>2 DEF Kept
<1> QED BY <1>1, <1>3

\* Nothing happens.
LEMMA StutterKeeps ==
    ASSUME IInv, UNCHANGED vars
    PROVE  Stepped
<1>1. Now' = Now /\ Kept(Now, Now')
  BY SameStore DEF vars
<1> QED BY <1>1 DEF vars, IInv, Stepped

\* The host calls a callback.
LEMMA HostCallsKeeps ==
    ASSUME IInv, HostCalls
    PROVE  Stepped
<1> DEFINE f == Frame("call", 0)
           K2 == Append(stack, f)
<1>1. Good(Now, coro, alls, stack, hosted) /\ FramesFit(stack, Len(prom), Len(coro)) /\ Now.prom = prom
      /\ calls \in 0..MaxCalls
  BY GoodNow, GoodParts
<1>2. FramesFit(K2, Len(prom), Len(coro)) /\ Plain(stack, K2)
  BY <1>1, PushPlain
<1>3. Good(Now, coro, alls, K2, hosted)
  BY <1>1, <1>2, Reframe
<1>4. stack' = K2 /\ Now' = Now /\ coro' = coro /\ alls' = alls /\ hosted' = hosted /\ calls' \in 0..MaxCalls
  BY <1>1, BoundsAssumption DEF HostCalls, Push, Now, f
<1>5. Kept(Now, Now')
  BY SameStore DEF HostCalls
<1> QED BY <1>3, <1>4, <1>5 DEF IInv, Stepped

\* The host settles a promise it was given.
LEMMA HostSettlesKeeps ==
    ASSUME IInv, NEW p \in hosted, NEW rejected \in BOOLEAN, HostSettles(p, rejected)
    PROVE  Stepped
<1> DEFINE S == Now
           f == Frame("drain", 0)
           K2 == Append(stack, f)
           H2 == hosted \ {p}
           o == Outcome(Status(rejected), p)
           R == Settle(S, p, o)
<1>1. /\ Good(S, coro, alls, stack, hosted) /\ FramesFit(stack, Len(S.prom), Len(coro))
      /\ calls \in 0..MaxCalls /\ hosted \subseteq DOMAIN S.prom /\ S \in Store
      /\ coro \in Seq(CoroT) /\ alls \in Seq(AllT) /\ stack \in Seq(FrameT)
      /\ CorosFit(coro, Len(S.prom)) /\ Placed(S, coro, stack)
  BY GoodNow, GoodParts
<1> HIDE DEF S
<1>2. p \in DOMAIN S.prom /\ Hands(coro, stack, hosted, p) # 0
  <2>1. CountIn(coro, Owers(p)) \in Nat /\ CountIn(stack, {Frame("react", p)}) \in Nat
    BY <1>1, HandsNat
  <2> QED BY <1>1, <2>1 DEF Hands, Flag
<1>3. Free(S, p, Len(coro), alls)
  BY <1>1, <1>2, SoleSettler
<1>4. IsOutcome(o)
  <2>1. p \in Ids
    BY <1>2, <1>3, StoreParts, BoundsAssumption DEF Free, Ids
  <2> QED BY <2>1 DEF IsOutcome, Outcome, Status
<1> HIDE DEF o
<1>5. HandsOver(S, R, p, Len(coro), alls)
  BY <1>3, <1>4, SettleHands DEF Free, Due
<1>6. FramesFit(K2, Len(S.prom), Len(coro)) /\ Plain(stack, K2)
  BY <1>1, PushPlain
<1>7. \A x : /\ CountIn(K2, {Frame("coro", x)}) = CountIn(stack, {Frame("coro", x)})
             /\ CountIn(K2, {Frame("react", x)}) = CountIn(stack, {Frame("react", x)})
  BY <1>6 DEF Plain
<1>8. p \in hosted
  OBVIOUS
<1>9. ASSUME NEW x \in DOMAIN S.prom
      PROVE  Hands(coro, K2, H2, x) = Hands(coro, stack, hosted, x) - Flag(x = p)
  <2>1. CountIn(coro, Owers(x)) \in Nat /\ CountIn(stack, {Frame("react", x)}) \in Nat
    BY <1>1, HandsNat
  <2>2. x \in H2 <=> x \in hosted /\ x # p
    OBVIOUS
  <2> HIDE DEF H2, K2
  <2>3. CountIn(K2, {Frame("react", x)}) = CountIn(stack, {Frame("react", x)})
    BY <1>7
  <2>4. CASE x = p
    BY <1>8, <2>1, <2>2, <2>3, <2>4 DEF Hands, Flag
  <2>5. CASE x # p
    BY <2>1, <2>2, <2>3, <2>5 DEF Hands, Flag
  <2> QED BY <2>4, <2>5
<1>10. Placed(S, coro, K2)
  BY <1>1, <1>7 DEF Placed
<1> HIDE DEF K2, H2, R
<1>11. H2 \subseteq DOMAIN S.prom
  BY <1>1 DEF H2
<1>12. Good(R, coro, alls, K2, H2)
  BY <1>1, <1>2, <1>5, <1>6, <1>9, <1>10, <1>11, StepSettles
<1>13. Now' = R
  <2>1. R \in Store
    BY <1>5 DEF HandsOver
  <2>2. Become(R)
    BY DEF HostSettles, R, S, o
  <2> QED BY <2>1, <2>2, BecomeStore
<1>14. stack' = K2 /\ coro' = coro /\ alls' = alls /\ hosted' = H2 /\ calls' = calls
  BY DEF HostSettles, Push, K2, H2, f
<1>15. Kept(S, R)
  BY <1>5 DEF HandsOver
<1> QED BY <1>1, <1>12, <1>13, <1>14, <1>15 DEF IInv, Stepped, S

\* The callback returns, or throws.
LEMMA CallEndsKeeps ==
    ASSUME IInv, NEW thrown \in BOOLEAN, CallEnds(thrown)
    PROVE  Stepped
<1> DEFINE L == SubSeq(stack, 1, Len(stack) - 1)
           K2 == IF thrown THEN L ELSE Append(L, Frame("drain", 0))
<1>1. Good(Now, coro, alls, stack, hosted) /\ FramesFit(stack, Len(prom), Len(coro)) /\ Now.prom = prom
      /\ calls \in 0..MaxCalls
  BY GoodNow, GoodParts
<1>2. FramesFit(L, Len(prom), Len(coro)) /\ Plain(stack, L)
  BY <1>1, PopPlain DEF CallEnds, Top, Depth
<1> HIDE DEF L
<1>3. Good(Now, coro, alls, L, hosted)
  BY <1>1, <1>2, Reframe
<1>4. Good(Now, coro, alls, Append(L, Frame("drain", 0)), hosted)
  <2>1. FramesFit(Append(L, Frame("drain", 0)), Len(prom), Len(coro)) /\ Plain(L, Append(L, Frame("drain", 0)))
    BY <1>2, PushPlain
  <2> QED BY <1>1, <1>3, <2>1, Reframe
<1>5. Good(Now, coro, alls, K2, hosted)
  BY <1>3, <1>4
<1>6. stack' = K2 /\ coro' = coro /\ alls' = alls /\ hosted' = hosted /\ calls' = calls
  BY DEF CallEnds, Below, Depth, K2, L
<1>7. Now' = Now /\ Kept(Now, Now')
  BY SameStore DEF CallEnds
<1> QED BY <1>1, <1>5, <1>6, <1>7 DEF IInv, Stepped

\* The drain ends.
LEMMA DrainEndsKeeps ==
    ASSUME IInv, DrainEnds
    PROVE  Stepped
<1> DEFINE L == SubSeq(stack, 1, Len(stack) - 1)
<1>1. Good(Now, coro, alls, stack, hosted) /\ FramesFit(stack, Len(prom), Len(coro)) /\ Now.prom = prom
      /\ calls \in 0..MaxCalls
  BY GoodNow, GoodParts
<1>2. FramesFit(L, Len(prom), Len(coro)) /\ Plain(stack, L)
  BY <1>1, PopPlain DEF DrainEnds, Draining, Top, Depth
<1>3. stack' = L /\ coro' = coro /\ alls' = alls /\ hosted' = hosted /\ calls' = calls
  BY DEF DrainEnds, Pop, Below, Depth
<1> HIDE DEF L
<1>4. Good(Now, coro, alls, L, hosted)
  BY <1>1, <1>2, Reframe
<1>5. Now' = Now /\ Kept(Now, Now')
  BY SameStore DEF DrainEnds
<1> QED BY <1>1, <1>3, <1>4, <1>5 DEF IInv, Stepped

\* What is asked of a result.
LEMMA ResultParts ==
    ASSUME IInv, NEW r \in Results
    PROVE  r.rejected \in BOOLEAN /\ r.with \in 0..Len(prom)
<1>1. Len(prom) \in Nat
  BY GoodNow
<1>2. CASE r \in [rejected : BOOLEAN, with : {0}]
  BY <1>1, <1>2
<1>3. CASE r \in [rejected : {FALSE}, with : 1..Len(prom)]
  <2>1. r.rejected \in {FALSE} /\ r.with \in 1..Len(prom)
    BY <1>3
  <2>2. r.rejected \in BOOLEAN
    BY <2>1, Zenon
  <2> QED BY <1>1, <2>1, <2>2
<1> QED BY <1>2, <1>3 DEF Results

\* A handler returns or throws.
LEMMA HandlerEndsKeeps ==
    ASSUME IInv, NEW r \in Results, HandlerEnds(r)
    PROVE  Stepped
<1> DEFINE S == Now
           K2 == SubSeq(stack, 1, Len(stack) - 1)
           p == stack[Len(stack)].id
           R == SettleWith(S, p, r)
<1>1. /\ Good(S, coro, alls, stack, hosted) /\ FramesFit(stack, Len(S.prom), Len(coro))
      /\ calls \in 0..MaxCalls /\ hosted \subseteq DOMAIN S.prom /\ S \in Store
      /\ coro \in Seq(CoroT) /\ alls \in Seq(AllT) /\ stack \in Seq(FrameT)
      /\ CorosFit(coro, Len(S.prom)) /\ Placed(S, coro, stack) /\ DOMAIN S.prom = 1..Len(S.prom)
  BY GoodNow, GoodParts
<1>2. stack # <<>> /\ stack[Len(stack)].kind = "react"
  BY DEF HandlerEnds, Top, Depth
<1>3. r.rejected \in BOOLEAN /\ r.with \in 0..Len(S.prom)
  BY ResultParts, GoodNow
<1>4. Become(R) /\ stack' = K2 /\ coro' = coro /\ alls' = alls /\ hosted' = hosted /\ calls' = calls
  BY DEF HandlerEnds, Pop, Below, Depth, Top
<1> HIDE DEF S
<1>5. p \in DOMAIN S.prom /\ CountIn(stack, {Frame("react", p)}) # 0
  <2>1. stack[Len(stack)] \in FrameT /\ FrameFits(stack, Len(stack), Len(S.prom), Len(coro))
        /\ (stack[Len(stack)] = Frame("react", p) => CountIn(stack, {Frame("react", p)}) # 0)
    BY <1>1, <1>2, TopFrame
  <2>2. stack[Len(stack)] = Frame("react", p)
    BY <1>2, <2>1 DEF FrameT, Frame
  <2> QED BY <1>1, <1>2, <2>1, <2>2 DEF FrameFits
<1>6. ASSUME NEW x
      PROVE  /\ CountIn(K2, {Frame("coro", x)}) = CountIn(stack, {Frame("coro", x)})
             /\ CountIn(K2, {Frame("react", x)}) = IF p = x THEN CountIn(stack, {Frame("react", x)}) - 1
                                                   ELSE CountIn(stack, {Frame("react", x)})
  BY <1>1, <1>2, PopCounts, SMTT(40)
<1>7. FramesFit(K2, Len(S.prom), Len(coro))
  BY <1>1, <1>2, PopCounts
<1> HIDE DEF K2, p, R
<1>8. Hands(coro, stack, hosted, p) # 0
  <2>1. CountIn(coro, Owers(p)) \in Nat /\ CountIn(stack, {Frame("react", p)}) \in Nat
    BY <1>1, HandsNat
  <2> QED BY <1>5, <2>1 DEF Hands, Flag
<1>9. Free(S, p, Len(coro), alls)
  BY <1>1, <1>5, <1>8, SoleSettler
<1>10. HandsOver(S, R, p, Len(coro), alls)
  BY <1>3, <1>9, SettleWithHands DEF R
<1>11. ASSUME NEW x \in DOMAIN S.prom
       PROVE  Hands(coro, K2, hosted, x) = Hands(coro, stack, hosted, x) - Flag(x = p)
  <2>1. CountIn(coro, Owers(x)) \in Nat /\ CountIn(stack, {Frame("react", x)}) \in Nat
    BY <1>1, HandsNat
  <2>2. CASE x = p
    <3>1. CountIn(K2, {Frame("react", x)}) = CountIn(stack, {Frame("react", x)}) - 1
      BY <1>6, <2>2
    <3> QED BY <2>1, <2>2, <3>1 DEF Hands, Flag
  <2>3. CASE x # p
    <3>1. CountIn(K2, {Frame("react", x)}) = CountIn(stack, {Frame("react", x)})
      BY <1>6, <2>3
    <3> QED BY <2>1, <2>3, <3>1 DEF Hands, Flag
  <2> QED BY <2>2, <2>3
<1>12. Placed(S, coro, K2)
  BY <1>1, <1>6 DEF Placed
<1>13. Good(R, coro, alls, K2, hosted)
  BY <1>1, <1>5, <1>7, <1>8, <1>10, <1>11, <1>12, StepSettles
<1>14. R \in Store /\ Kept(S, R)
  BY <1>10 DEF HandsOver
<1>15. Now' = R
  BY <1>4, <1>14, BecomeStore
<1> QED BY <1>1, <1>4, <1>13, <1>14, <1>15 DEF IInv, Stepped, S

\* The coroutine on top of the stack is under way, is nowhere else, and owes a
\* promise that it alone will settle.
Drives(K, c) == K # <<>> /\ K[Len(K)] = Frame("coro", c)
Driven(S, C, A, K, H, c) ==
    /\ C[c] \in CoroT /\ C[c].state = "live" /\ ~C[c].parked
    /\ CountIn(K, {Frame("coro", c)}) = 1 /\ Waits(S, c) = 0
    /\ C[c].owes \in DOMAIN S.prom /\ Hands(C, K, H, C[c].owes) # 0
    /\ Free(S, C[c].owes, Len(C), A)
    /\ c \in Crew /\ c \in 1..Len(C)

\* The one the top frame is of is driven.
LEMMA DrivenCoro ==
    ASSUME NEW S, NEW C, NEW A, NEW K, NEW H, Good(S, C, A, K, H), NEW c \in DOMAIN C,
           Drives(K, c)
    PROVE  Driven(S, C, A, K, H, c)
<1> DEFINE p == C[c].owes
           there == CountIn(K, {Frame("coro", c)})
<1>1. /\ S \in Store /\ DOMAIN S.prom = 1..Len(S.prom) /\ Len(S.prom) \in Nat
      /\ C \in Seq(CoroT) /\ CorosFit(C, Len(S.prom)) /\ Len(C) <= MaxCoro /\ DOMAIN C = 1..Len(C)
      /\ Len(C) \in Nat /\ A \in Seq(AllT)
      /\ FramesFit(K, Len(S.prom), Len(C)) /\ K \in Seq(FrameT) /\ Placed(S, C, K)
  BY GoodParts
<1>2. C[c] \in CoroT /\ CoroFits(C[c], Len(S.prom))
  BY <1>1 DEF CorosFit
<1>3. there \in Nat /\ there # 0
  BY <1>1, TopFrame DEF Drives
<1>4. Waits(S, c) \in Nat
  BY <1>1, OwedNat
<1>5. there + Waits(S, c) + Flag(C[c].parked) = Flag(C[c].state = "live")
  BY <1>1 DEF Placed
<1>6. C[c].parked \in BOOLEAN
  BY <1>2 DEF CoroT
<1> HIDE DEF there
<1>7. /\ C[c].state = "live" /\ ~C[c].parked /\ there = 1 /\ Waits(S, c) = 0
  BY <1>3, <1>4, <1>5, <1>6 DEF Flag
<1>8. p \in DOMAIN S.prom
  BY <1>1, <1>2, <1>7 DEF CoroFits
<1>9. Hands(C, K, H, p) # 0
  <2>1. CountIn(C, Owers(p)) # 0
    BY <1>1, <1>7, OwerCounts
  <2>2. CountIn(C, Owers(p)) \in Nat /\ CountIn(K, {Frame("react", p)}) \in Nat
    BY <1>1, HandsNat
  <2> QED BY <2>1, <2>2 DEF Hands, Flag
<1>10. Free(S, p, Len(C), A)
  BY <1>8, <1>9, SoleSettler
<1>11. c \in 1..Len(C) /\ c \in Crew
  BY <1>1, BoundsAssumption DEF Crew
<1> QED BY <1>2, <1>7, <1>8, <1>9, <1>10, <1>11 DEF there, Driven

\* A coroutine that owes nothing: it is over, or parked.
Quiet(y) == /\ y.owes = 0 /\ y.state # "dropped"
            /\ IF y.parked THEN y.state = "live" ELSE y.state # "live"

\* A coroutine's stretch of code ends and settles what it owed, or hands it over.
LEMMA CoroReturns ==
    ASSUME NEW S, NEW C, NEW A, NEW K, NEW H, Good(S, C, A, K, H), NEW c \in DOMAIN C,
           Drives(K, c),
           NEW y \in CoroT, CoroFits(y, Len(S.prom)), Quiet(y),
           NEW R, HandsOver(S, R, C[c].owes, Len(C), A)
    PROVE  Good(R, Recast(C, c, y), A, SubSeq(K, 1, Len(K) - 1), H)
<1> DEFINE p == C[c].owes
           K2 == SubSeq(K, 1, Len(K) - 1)
           C2 == Recast(C, c, y)
<1>1. /\ S \in Store /\ DOMAIN S.prom = 1..Len(S.prom) /\ Len(S.prom) \in Nat
      /\ C \in Seq(CoroT) /\ CorosFit(C, Len(S.prom)) /\ DOMAIN C = 1..Len(C) /\ A \in Seq(AllT)
      /\ FramesFit(K, Len(S.prom), Len(C)) /\ K \in Seq(FrameT) /\ Placed(S, C, K)
      /\ H \subseteq DOMAIN S.prom
  BY GoodParts
<1>2. /\ C[c] \in CoroT /\ C[c].state = "live" /\ CountIn(K, {Frame("coro", c)}) = 1 /\ Waits(S, c) = 0
      /\ p \in DOMAIN S.prom /\ Hands(C, K, H, p) # 0
  <2>1. Driven(S, C, A, K, H, c)
    BY DrivenCoro
  <2> QED BY <2>1 DEF Driven
<1>3. /\ CorosFit(C2, Len(S.prom)) /\ Len(C2) = Len(C) /\ DOMAIN C2 = DOMAIN C
      /\ C2[c] = y /\ \A d \in DOMAIN C \ {c} : C2[d] = C[d]
  BY <1>1, PutCoro
<1>4. \A x : CountIn(C2, Owers(x)) = CountIn(C, Owers(x)) - Flag(C[c] \in Owers(x)) + Flag(y \in Owers(x))
  BY <1>1, PutCoro
<1>5. FramesFit(K2, Len(S.prom), Len(C))
  BY <1>1, PopCounts DEF Drives
<1>6. K # <<>> /\ K[Len(K)].kind = "coro" /\ K[Len(K)].id = c
  BY DEF Frame, Drives
<1>7. ASSUME NEW x
      PROVE  /\ CountIn(K2, {Frame("react", x)}) = CountIn(K, {Frame("react", x)})
             /\ CountIn(K2, {Frame("coro", x)}) = IF x = c THEN CountIn(K, {Frame("coro", x)}) - 1
                                                  ELSE CountIn(K, {Frame("coro", x)})
  <2>0. FramesFit(K, Len(S.prom), Len(C)) /\ K # <<>>
    BY <1>1, <1>6
  <2>1. ASSUME NEW kind
        PROVE  CountIn(K2, {Frame(kind, x)}) = IF K[Len(K)].kind = kind /\ K[Len(K)].id = x
                                               THEN CountIn(K, {Frame(kind, x)}) - 1
                                               ELSE CountIn(K, {Frame(kind, x)})
    BY <2>0, PopCounts
  <2> HIDE DEF K2
  <2>2. CountIn(K2, {Frame("react", x)}) = CountIn(K, {Frame("react", x)})
    BY <2>1, <1>6
  <2>3. CountIn(K2, {Frame("coro", x)}) = IF x = c THEN CountIn(K, {Frame("coro", x)}) - 1
                                          ELSE CountIn(K, {Frame("coro", x)})
    BY <2>1, <1>6
  <2> QED BY <2>2, <2>3
<1> HIDE DEF K2, C2, p
<1>8. ASSUME NEW x \in DOMAIN S.prom
      PROVE  Hands(C2, K2, H, x) = Hands(C, K, H, x) - Flag(x = p)
  <2>1. C[c] \in Owers(x) <=> x = p
    BY <1>2 DEF Owers, p
  <2>2. y \notin Owers(x)
    BY <1>1 DEF Owers, Quiet
  <2>3. CountIn(C2, Owers(x)) = CountIn(C, Owers(x)) - Flag(C[c] \in Owers(x)) + Flag(y \in Owers(x))
    BY <1>4
  <2>4. CountIn(K2, {Frame("react", x)}) = CountIn(K, {Frame("react", x)})
    BY <1>7
  <2>5. CountIn(C, Owers(x)) \in Nat /\ CountIn(K, {Frame("react", x)}) \in Nat
    BY <1>1, HandsNat
  <2>6. CASE x = p
    BY <2>1, <2>2, <2>3, <2>4, <2>5, <2>6 DEF Hands, Flag
  <2>7. CASE x # p
    BY <2>1, <2>2, <2>3, <2>4, <2>5, <2>7 DEF Hands, Flag
  <2> QED BY <2>6, <2>7
<1>9. ASSUME NEW x PROVE Dropped(C2, x) <=> Dropped(C, x)
  BY <1>2, <1>3 DEF Dropped, Quiet
<1>10. Placed(S, C2, K2)
  <2>1. ASSUME NEW d \in DOMAIN C2
        PROVE  CountIn(K2, {Frame("coro", d)}) + Waits(S, d) + Flag(C2[d].parked) = Flag(C2[d].state = "live")
    <3>1. CASE d = c
      <4>1. CountIn(K2, {Frame("coro", d)}) = 0
        <5>1. CountIn(K2, {Frame("coro", c)}) = CountIn(K, {Frame("coro", c)}) - 1
          BY <1>7
        <5> QED BY <1>2, <3>1, <5>1
      <4>2. C2[d] = y
        BY <1>3, <3>1
      <4> QED BY <1>2, <3>1, <4>1, <4>2 DEF Flag, Quiet
    <3>2. CASE d # c
      BY <1>1, <1>3, <1>7, <3>2 DEF Placed
    <3> QED BY <3>1, <3>2
  <2> QED BY <2>1 DEF Placed
<1>11. HandsOver(S, R, p, Len(C), A)
  BY DEF p
<1>12. Good(R, C2, A, K2, H)
  BY <1>1, <1>2, <1>3, <1>5, <1>8, <1>9, <1>10, <1>11, StepSettles, SMTT(40)
<1> QED BY <1>12 DEF C2, K2

\* What is there when code of a coroutine runs.
LEMMA DrivingNow ==
    ASSUME IInv, NEW c \in Coros, NEW gen, Driving(c, gen)
    PROVE  /\ Driven(Now, coro, alls, stack, hosted, c) /\ Drives(stack, c)
           /\ Good(Now, coro, alls, stack, hosted) /\ c \in DOMAIN coro
           /\ coro[c] \in CoroT /\ CoroFits(coro[c], Len(Now.prom)) /\ ~coro[c].parked
           /\ coro[c].owes \in 1..Len(prom) /\ coro[c].owes \in Ids
           /\ Free(Now, coro[c].owes, Len(coro), alls)
<1>1. Good(Now, coro, alls, stack, hosted) /\ Now.prom = prom
  BY GoodNow
<1>2. Drives(stack, c) /\ c \in DOMAIN coro
  BY DEF Driving, Drives, Top, Depth, Coros
<1>3. Driven(Now, coro, alls, stack, hosted, c)
  BY <1>1, <1>2, DrivenCoro
<1>4. CoroFits(coro[c], Len(Now.prom)) /\ DOMAIN Now.prom = 1..Len(Now.prom) /\ Len(Now.prom) <= MaxProm
      /\ Len(Now.prom) \in Nat
  <2>1. CorosFit(coro, Len(Now.prom)) /\ DOMAIN Now.prom = 1..Len(Now.prom) /\ Len(Now.prom) <= MaxProm
        /\ Len(Now.prom) \in Nat
    BY <1>1, GoodParts
  <2> QED BY <1>2, <2>1 DEF CorosFit
<1>5. coro[c].owes \in Ids
  BY <1>3, <1>4, BoundsAssumption DEF Driven, Ids
<1> QED BY <1>1, <1>2, <1>3, <1>4, <1>5 DEF Driven

\* ... and how its stretch of code ends.
LEMMA CoroStops ==
    ASSUME IInv, NEW c \in Coros, NEW gen, Driving(c, gen),
           NEW y \in CoroT, CoroFits(y, Len(Now.prom)), Quiet(y),
           NEW R, HandsOver(Now, R, coro[c].owes, Len(coro), alls), Become(R),
           coro' = Recast(coro, c, y), Pop, UNCHANGED <<alls, hosted, calls>>
    PROVE  Stepped
<1>1. Good(Now, coro, alls, stack, hosted) /\ Drives(stack, c) /\ c \in DOMAIN coro
  BY DrivingNow
<1>2. Good(R, Recast(coro, c, y), alls, SubSeq(stack, 1, Len(stack) - 1), hosted)
  BY <1>1, CoroReturns
<1>3. stack' = SubSeq(stack, 1, Len(stack) - 1)
  BY DEF Pop, Below, Depth
<1>4. R \in Store /\ Kept(Now, R)
  BY DEF HandsOver
<1>5. Now' = R
  BY <1>4, BecomeStore
<1>6. calls \in 0..MaxCalls
  BY GoodNow
<1> QED BY <1>2, <1>3, <1>4, <1>5, <1>6 DEF IInv, Stepped

\* The forms a coroutine takes when it stops.
LEMMA CoroOver ==
    ASSUME NEW x \in CoroT, ~x.parked, NEW n \in Nat
    PROVE  /\ LET y == [x EXCEPT !.state = "ended", !.owes = 0]
              IN  y \in CoroT /\ CoroFits(y, n) /\ Quiet(y)
           /\ LET y == [x EXCEPT !.state = "ended", !.done = TRUE, !.owes = 0]
              IN  y \in CoroT /\ CoroFits(y, n) /\ Quiet(y)
           /\ x.state = "live" /\ x.gen =>
              LET y == [x EXCEPT !.parked = TRUE, !.owes = 0]
              IN  y \in CoroT /\ CoroFits(y, n) /\ Quiet(y)
<1>1. x = [gen |-> x.gen, owes |-> x.owes, state |-> x.state, parked |-> x.parked, done |-> x.done]
  BY DEF CoroT
<1>2. /\ x.gen \in BOOLEAN /\ x.parked \in BOOLEAN /\ x.done \in BOOLEAN /\ 0 \in Ids
      /\ x.state \in {"live", "ended", "dropped"}
  BY BoundsAssumption DEF CoroT, Ids
<1>3. 0 \in 0..n
  OBVIOUS
<1>4. ASSUME NEW y, y = [x EXCEPT !.state = "ended", !.owes = 0]
      PROVE  y \in CoroT /\ CoroFits(y, n) /\ Quiet(y)
  <2>1. y = [gen |-> x.gen, owes |-> 0, state |-> "ended", parked |-> x.parked, done |-> x.done]
    BY <1>1, <1>4
  <2>2. y \in CoroT
    BY <1>2, <2>1 DEF CoroT
  <2>3. y.owes = 0 /\ y.state = "ended" /\ ~y.parked
    BY <1>2, <1>4, <2>1
  <2> QED BY <1>3, <2>2, <2>3 DEF CoroFits, Quiet
<1>5. ASSUME NEW y, y = [x EXCEPT !.state = "ended", !.done = TRUE, !.owes = 0]
      PROVE  y \in CoroT /\ CoroFits(y, n) /\ Quiet(y)
  <2>1. y = [gen |-> x.gen, owes |-> 0, state |-> "ended", parked |-> x.parked, done |-> TRUE]
    BY <1>1, <1>5
  <2>2. y \in CoroT
    BY <1>2, <2>1 DEF CoroT
  <2>3. y.owes = 0 /\ y.state = "ended" /\ ~y.parked
    BY <1>2, <1>5, <2>1
  <2> QED BY <1>3, <2>2, <2>3 DEF CoroFits, Quiet
<1>6. ASSUME x.state = "live", x.gen, NEW y, y = [x EXCEPT !.parked = TRUE, !.owes = 0]
      PROVE  y \in CoroT /\ CoroFits(y, n) /\ Quiet(y)
  <2>1. y = [gen |-> x.gen, owes |-> 0, state |-> "live", parked |-> TRUE, done |-> x.done]
    BY <1>1, <1>6
  <2>2. y \in CoroT
    BY <1>2, <2>1 DEF CoroT
  <2>3. y.owes = 0 /\ y.state = "live" /\ y.parked /\ y.gen
    BY <1>2, <1>6, <2>1
  <2> QED BY <1>3, <2>2, <2>3 DEF CoroFits, Quiet
<1> QED BY <1>4, <1>5, <1>6

\* An async function returns or throws.
LEMMA CoroEndsKeeps ==
    ASSUME IInv, NEW c \in Coros, NEW r \in Results, CoroEnds(c, r)
    PROVE  Stepped
<1> DEFINE y == [coro[c] EXCEPT !.state = "ended", !.owes = 0]
           R == SettleWith(Now, coro[c].owes, r)
<1>1. Driving(c, FALSE)
  BY DEF CoroEnds
<1>2. coro[c] \in CoroT /\ CoroFits(coro[c], Len(Now.prom)) /\ ~coro[c].parked
      /\ Free(Now, coro[c].owes, Len(coro), alls)
  BY <1>1, DrivingNow
<1>3. r.rejected \in BOOLEAN /\ r.with \in 0..Len(Now.prom) /\ Len(Now.prom) \in Nat
  BY ResultParts, GoodNow
<1>4. HandsOver(Now, R, coro[c].owes, Len(coro), alls)
  BY <1>2, <1>3, SettleWithHands
<1>5. y \in CoroT /\ CoroFits(y, Len(Now.prom)) /\ Quiet(y)
  BY <1>2, <1>3, CoroOver
<1>6. Become(R) /\ Pop /\ UNCHANGED <<alls, hosted, calls>> /\ coro' = Recast(coro, c, y)
  BY DEF CoroEnds, Recast
<1> HIDE DEF y, R
<1> QED BY <1>1, <1>4, <1>5, <1>6, CoroStops

\* A generator's body yields.
LEMMA YieldsKeeps ==
    ASSUME IInv, NEW c \in Coros, NEW r \in Results, Yields(c, r)
    PROVE  Stepped
<1> DEFINE y == [coro[c] EXCEPT !.parked = TRUE, !.owes = 0]
           R == SettleWith(Now, coro[c].owes, r)
<1>1. Driving(c, TRUE)
  BY DEF Yields
<1>2. coro[c] \in CoroT /\ CoroFits(coro[c], Len(Now.prom)) /\ ~coro[c].parked
      /\ Free(Now, coro[c].owes, Len(coro), alls) /\ coro[c].state = "live"
  BY <1>1, DrivingNow DEF Driven
<1>3. r.rejected \in BOOLEAN /\ r.with \in 0..Len(Now.prom) /\ Len(Now.prom) \in Nat
  BY ResultParts, GoodNow
<1>4. HandsOver(Now, R, coro[c].owes, Len(coro), alls)
  BY <1>2, <1>3, SettleWithHands
<1>5. coro[c].gen
  BY DEF Yields, Driving
<1>6. y \in CoroT /\ CoroFits(y, Len(Now.prom)) /\ Quiet(y)
  BY <1>2, <1>3, <1>5, CoroOver
<1>7. Become(R) /\ Pop /\ UNCHANGED <<alls, hosted, calls>> /\ coro' = Recast(coro, c, y)
  BY DEF Yields, Recast
<1> HIDE DEF y, R
<1> QED BY <1>1, <1>4, <1>6, <1>7, CoroStops

\* A generator's body ends or throws.
LEMMA GenEndsKeeps ==
    ASSUME IInv, NEW c \in Coros, NEW thrown \in BOOLEAN, GenEnds(c, thrown)
    PROVE  Stepped
<1> DEFINE y == [coro[c] EXCEPT !.state = "ended", !.done = TRUE, !.owes = 0]
           p == coro[c].owes
           o == Outcome(Status(thrown), IF thrown THEN p ELSE Null)
           R == Settle(Now, p, o)
<1>1. Driving(c, TRUE)
  BY DEF GenEnds
<1>2. coro[c] \in CoroT /\ CoroFits(coro[c], Len(Now.prom)) /\ ~coro[c].parked
      /\ Free(Now, p, Len(coro), alls) /\ p \in Ids
  BY <1>1, DrivingNow
<1>3. Len(Now.prom) \in Nat
  BY GoodNow
<1>4. IsOutcome(o)
  <2>1. Null \in Ids
    BY BoundsAssumption DEF Null, Ids
  <2> QED BY <1>2, <2>1 DEF IsOutcome, Outcome, Status
<1> HIDE DEF o
<1>5. HandsOver(Now, R, p, Len(coro), alls)
  BY <1>2, <1>4, SettleHands DEF Free, Due
<1>6. y \in CoroT /\ CoroFits(y, Len(Now.prom)) /\ Quiet(y)
  BY <1>2, <1>3, CoroOver
<1>7. Become(R) /\ Pop /\ UNCHANGED <<alls, hosted, calls>> /\ coro' = Recast(coro, c, y)
  BY DEF GenEnds, Recast, o
<1> HIDE DEF y, R
<1> QED BY <1>1, <1>5, <1>6, <1>7, CoroStops

\* What a coroutine's frame leaves behind.
Undriven(K, K2, c) ==
    /\ \A x : CountIn(K2, {Frame("react", x)}) = CountIn(K, {Frame("react", x)})
    /\ \A x : x # c => CountIn(K2, {Frame("coro", x)}) = CountIn(K, {Frame("coro", x)})
    /\ CountIn(K2, {Frame("coro", c)}) = CountIn(K, {Frame("coro", c)}) - 1

\* That is what popping it does.
LEMMA PopCoro ==
    ASSUME NEW n, NEW nc, NEW K, FramesFit(K, n, nc), NEW c, Drives(K, c)
    PROVE  LET K2 == SubSeq(K, 1, Len(K) - 1)
           IN  FramesFit(K2, n, nc) /\ Undriven(K, K2, c)
<1> DEFINE K2 == SubSeq(K, 1, Len(K) - 1)
<1>1. K # <<>> /\ K[Len(K)].kind = "coro" /\ K[Len(K)].id = c
  BY DEF Frame, Drives
<1>2. FramesFit(K2, n, nc)
  BY <1>1, PopCounts
<1>3. ASSUME NEW kind, NEW x
      PROVE  CountIn(K2, {Frame(kind, x)}) = IF K[Len(K)].kind = kind /\ K[Len(K)].id = x
                                             THEN CountIn(K, {Frame(kind, x)}) - 1
                                             ELSE CountIn(K, {Frame(kind, x)})
  BY <1>1, PopCounts
<1> HIDE DEF K2
<1>4. ASSUME NEW x PROVE CountIn(K2, {Frame("react", x)}) = CountIn(K, {Frame("react", x)})
  BY <1>1, <1>3
<1>5. ASSUME NEW x, x # c PROVE CountIn(K2, {Frame("coro", x)}) = CountIn(K, {Frame("coro", x)})
  BY <1>1, <1>3, <1>5
<1>6. CountIn(K2, {Frame("coro", c)}) = CountIn(K, {Frame("coro", c)}) - 1
  BY <1>1, <1>3
<1>7. Undriven(K, K2, c)
  BY <1>4, <1>5, <1>6 DEF Undriven
<1> QED BY <1>2, <1>7 DEF K2

\* A coroutine is suspended until q is settled.
LEMMA CoroWaits ==
    ASSUME NEW S, NEW C, NEW A, NEW K, NEW H, Good(S, C, A, K, H), NEW c \in DOMAIN C,
           Drives(K, c), NEW q \in DOMAIN S.prom
    PROVE  /\ Good(WaitFor(S, c, q), C, A, SubSeq(K, 1, Len(K) - 1), H)
           /\ WaitFor(S, c, q) \in Store /\ Kept(S, WaitFor(S, c, q))
<1> DEFINE K2 == SubSeq(K, 1, Len(K) - 1)
           R == WaitFor(S, c, q)
<1>1. /\ S \in Store /\ Holds(S, Len(C), A) /\ DOMAIN S.prom = 1..Len(S.prom) /\ Len(S.prom) \in Nat
      /\ C \in Seq(CoroT) /\ CorosFit(C, Len(S.prom)) /\ DOMAIN C = 1..Len(C) /\ A \in Seq(AllT)
      /\ DOMAIN A = 1..Len(A) /\ H \subseteq DOMAIN S.prom /\ Placed(S, C, K) /\ Len(C) <= MaxCoro
      /\ Len(C) \in Nat
  BY GoodParts
<1>2. FramesFit(K, Len(S.prom), Len(C))
  BY GoodParts
<1>3. /\ Waits(S, c) = 0 /\ c \in Crew /\ c \in 1..Len(C) /\ CountIn(K, {Frame("coro", c)}) = 1
  <2>1. Driven(S, C, A, K, H, c)
    BY DrivenCoro
  <2> QED BY <2>1 DEF Driven
<1>4. FramesFit(K2, Len(S.prom), Len(C)) /\ Undriven(K, K2, c)
  BY <1>2, PopCoro
<1> HIDE DEF K2, R
<1>5. \A x : CountIn(K2, {Frame("react", x)}) = CountIn(K, {Frame("react", x)})
  BY <1>4 DEF Undriven
<1>6. \A x : x # c => CountIn(K2, {Frame("coro", x)}) = CountIn(K, {Frame("coro", x)})
  BY <1>4 DEF Undriven
<1>7. CountIn(K2, {Frame("coro", c)}) = CountIn(K, {Frame("coro", c)}) - 1
  BY <1>4 DEF Undriven
<1>8. /\ Holds(R, Len(C), A) /\ SettlesNone(S, R)
      /\ \A U \in Proper : Owed(R, U) = Owed(S, U)
      /\ \A d \in Crew : Waits(R, d) = Waits(S, d) + Flag(d = c)
  <2>1. Joins(S, R, c, Len(C), A)
    BY <1>1, <1>3, WaitForStore DEF R
  <2> QED BY <2>1 DEF Joins
<1>9. Placed(R, C, K2)
  <2>1. ASSUME NEW d \in DOMAIN C
        PROVE  CountIn(K2, {Frame("coro", d)}) + Waits(R, d) + Flag(C[d].parked) = Flag(C[d].state = "live")
    <3>1. CountIn(K, {Frame("coro", d)}) + Waits(S, d) + Flag(C[d].parked) = Flag(C[d].state = "live")
      BY <1>1 DEF Placed
    <3>2. d \in Crew
      BY <1>1, BoundsAssumption DEF Crew
    <3>3. CASE d = c
      <4>1. Waits(R, d) = 1
        BY <1>3, <1>8, <3>2, <3>3 DEF Flag
      <4> QED BY <1>3, <1>7, <3>1, <3>3, <4>1
    <3>4. CASE d # c
      <4>1. Waits(R, d) = Waits(S, d) + 0
        BY <1>8, <3>2, <3>4 DEF Flag
      <4>2. Waits(S, d) \in Nat
        BY <1>1, OwedNat
      <4> QED BY <1>6, <3>1, <3>4, <4>1, <4>2
    <3> QED BY <3>3, <3>4
  <2> QED BY <2>1 DEF Placed
<1>10. ASSUME NEW a \in DOMAIN A, NEW i \in 1..AllSize PROVE Owed(R, SlotOf(a, i)) = Owed(S, SlotOf(a, i))
  BY <1>8, ProperSlots
<1>11. ASSUME NEW x \in DOMAIN S.prom
       PROVE  Hands(C, K2, H, x) + Owed(R, Down(x)) = Hands(C, K, H, x) + Owed(S, Down(x))
  <2>1. Owed(R, Down(x)) = Owed(S, Down(x))
    BY <1>8, ProperSlots
  <2> QED BY <1>5, <2>1 DEF Hands
<1>12. SlotsSame(S, R, A) /\ HandsSame(S, C, K, H, R, C, K2, H)
  BY <1>10, <1>11 DEF SlotsSame, HandsSame
<1>13. Good(R, C, A, K2, H)
  BY <1>1, <1>4, <1>8, <1>9, <1>12, StepKeeps
<1> QED BY <1>8, <1>13 DEF K2, R, SettlesNone, Holds

\* A coroutine that awaits.
LEMMA AwaitsKeeps ==
    ASSUME IInv, NEW c \in Coros, NEW q \in Proms, Awaits(c, q)
    PROVE  Stepped
<1> DEFINE R == WaitFor(Now, c, q)
           K2 == SubSeq(stack, 1, Len(stack) - 1)
<1>1. Driving(c, coro[c].gen)
  BY DEF Awaits
<1>2. Good(Now, coro, alls, stack, hosted) /\ Drives(stack, c) /\ c \in DOMAIN coro
  BY <1>1, DrivingNow
<1>3. q \in DOMAIN Now.prom /\ calls \in 0..MaxCalls
  BY GoodNow DEF Proms
<1>4. Good(R, coro, alls, K2, hosted) /\ R \in Store /\ Kept(Now, R)
  BY <1>2, <1>3, CoroWaits
<1>5. Become(R) /\ stack' = K2 /\ coro' = coro /\ alls' = alls /\ hosted' = hosted /\ calls' = calls
  BY DEF Awaits, Pop, Below, Depth
<1> HIDE DEF R, K2
<1>6. Now' = R
  BY <1>4, <1>5, BecomeStore
<1> QED BY <1>3, <1>4, <1>5, <1>6 DEF IInv, Stepped

\* Two frames popped.
LEMMA FrontTwice ==
    ASSUME NEW T, NEW K \in Seq(T), NEW m \in Nat, m >= 1, m < Len(K)
    PROVE  LET L == SubSeq(K, 1, Len(K) - m)
           IN  /\ SubSeq(L, 1, Len(L) - 1) = SubSeq(K, 1, Len(K) - (m + 1))
               /\ L # <<>> /\ L[Len(L)] = K[Len(K) - m] /\ Len(L) = Len(K) - m
<1> DEFINE L == SubSeq(K, 1, Len(K) - m)
           M == SubSeq(L, 1, Len(L) - 1)
           N == SubSeq(K, 1, Len(K) - (m + 1))
<1>1. L \in Seq(T) /\ Len(L) = Len(K) - m /\ \A i \in 1..Len(L) : L[i] = K[i]
  OBVIOUS
<1>2. L # <<>> /\ L[Len(L)] = K[Len(K) - m] /\ Len(L) \in Nat /\ Len(L) >= 1
  <2>1. Len(K) \in Nat
    OBVIOUS
  <2> HIDE DEF L
  <2>2. Len(L) \in Nat /\ Len(L) >= 1 /\ Len(L) \in 1..Len(L)
    BY <1>1, <2>1
  <2> QED BY <1>1, <2>2
<1>3. N \in Seq(T) /\ Len(N) = Len(K) - (m + 1) /\ \A i \in 1..Len(N) : N[i] = K[i]
  OBVIOUS
<1> HIDE DEF L, N
<1>4. M \in Seq(T) /\ Len(M) = Len(L) - 1 /\ \A i \in 1..Len(M) : M[i] = L[i]
  BY <1>1, <1>2
<1> HIDE DEF M
<1>5. Len(M) = Len(N) /\ \A i \in 1..Len(M) : M[i] = N[i]
  BY <1>1, <1>3, <1>4
<1>6. M = N
  BY <1>3, <1>4, <1>5, SMTT(40)
<1> QED BY <1>1, <1>2, <1>6 DEF L, M, N

\* The host's `then', called for a coroutine that awaits a host promise.
LEMMA AdoptFrame ==
    ASSUME NEW n, NEW C, NEW K, FramesFit(K, n, Len(C)), Len(C) \in Nat, DOMAIN C = 1..Len(C),
           K # <<>>, K[Len(K)].kind = "adopt"
    PROVE  LET L == SubSeq(K, 1, Len(K) - 1)
               c == K[Len(K) - 1].id
           IN  /\ FramesFit(L, n, Len(C)) /\ Plain(K, L) /\ c \in DOMAIN C /\ Drives(L, c)
               /\ Len(K) \in Nat /\ Len(K) >= 2 /\ K[Len(K)].id \in 1..n
               /\ SubSeq(L, 1, Len(L) - 1) = SubSeq(K, 1, Len(K) - 2) /\ Len(L) = Len(K) - 1
<1> DEFINE L == SubSeq(K, 1, Len(K) - 1)
           c == K[Len(K) - 1].id
<1>1. FramesFit(L, n, Len(C)) /\ Plain(K, L)
  BY PopPlain
<1>2. K \in Seq(FrameT) /\ Len(K) \in DOMAIN K /\ FrameFits(K, Len(K), n, Len(C))
  BY TopFrame
<1>3. Len(K) \in Nat /\ Len(K) >= 2 /\ K[Len(K) - 1].kind = "coro" /\ K[Len(K)].id \in 1..n
  BY <1>2 DEF FrameFits
<1>4. Len(K) - 1 \in DOMAIN K
  BY <1>2, <1>3
<1>5. FrameFits(K, Len(K) - 1, n, Len(C)) /\ K[Len(K) - 1] \in FrameT
  BY <1>2, <1>4 DEF FramesFit
<1>6. c \in DOMAIN C
  BY <1>3, <1>5 DEF FrameFits
<1>7. K[Len(K) - 1] = Frame("coro", c)
  BY <1>3, <1>5 DEF FrameT, Frame
<1>8. /\ L # <<>> /\ L[Len(L)] = K[Len(K) - 1] /\ Len(L) = Len(K) - 1
      /\ SubSeq(L, 1, Len(L) - 1) = SubSeq(K, 1, Len(K) - 2)
  <2>1. Len(K) - (1 + 1) = Len(K) - 2
    BY <1>3
  <2> QED BY <1>2, <1>3, <2>1, FrontTwice
<1>9. Drives(L, c)
  BY <1>7, <1>8 DEF Drives
<1> QED BY <1>1, <1>3, <1>6, <1>8, <1>9

\* The host's `then' returns: the coroutine waits for the promise.
LEMMA HostThenReturnsKeeps ==
    ASSUME IInv, HostThenReturns
    PROVE  Stepped
<1> DEFINE L == SubSeq(stack, 1, Len(stack) - 1)
           K2 == SubSeq(L, 1, Len(L) - 1)
           c == stack[Len(stack) - 1].id
           q == stack[Len(stack)].id
           R == WaitFor(Now, c, q)
<1>1. Good(Now, coro, alls, stack, hosted) /\ calls \in 0..MaxCalls
  BY GoodNow
<1>2. FramesFit(stack, Len(Now.prom), Len(coro)) /\ Len(coro) \in Nat /\ DOMAIN coro = 1..Len(coro)
      /\ DOMAIN Now.prom = 1..Len(Now.prom)
  BY <1>1, GoodParts
<1>3. stack # <<>> /\ stack[Len(stack)].kind = "adopt"
  BY DEF HostThenReturns, Top, Depth
<1>4. /\ FramesFit(L, Len(Now.prom), Len(coro)) /\ Plain(stack, L) /\ c \in DOMAIN coro /\ Drives(L, c)
      /\ q \in DOMAIN Now.prom /\ K2 = SubSeq(stack, 1, Len(stack) - 2)
  BY <1>2, <1>3, AdoptFrame
<1>5. Become(R) /\ stack' = K2 /\ coro' = coro /\ alls' = alls /\ hosted' = hosted /\ calls' = calls
  BY <1>4 DEF HostThenReturns, Below, Depth, Top
<1> HIDE DEF L, c, q
<1>6. Good(Now, coro, alls, L, hosted)
  BY <1>1, <1>4, Reframe
<1>7. Good(R, coro, alls, K2, hosted) /\ R \in Store /\ Kept(Now, R)
  BY <1>4, <1>6, CoroWaits
<1> HIDE DEF R, K2
<1>8. Now' = R
  BY <1>5, <1>7, BecomeStore
<1> QED BY <1>1, <1>5, <1>7, <1>8 DEF IInv, Stepped

\* A coroutine dropped: what it owed is settled by nobody.
LEMMA CoroDrops ==
    ASSUME NEW S, NEW C, NEW A, NEW K, NEW H, Good(S, C, A, K, H), NEW c \in DOMAIN C, Drives(K, c)
    PROVE  Good(S, Recast(C, c, [C[c] EXCEPT !.state = "dropped"]), A, SubSeq(K, 1, Len(K) - 1), H)
<1> DEFINE p == C[c].owes
           y == [C[c] EXCEPT !.state = "dropped"]
           K2 == SubSeq(K, 1, Len(K) - 1)
           C2 == Recast(C, c, y)
<1>1. /\ S \in Store /\ DOMAIN S.prom = 1..Len(S.prom) /\ Len(S.prom) \in Nat
      /\ C \in Seq(CoroT) /\ CorosFit(C, Len(S.prom)) /\ DOMAIN C = 1..Len(C) /\ A \in Seq(AllT)
      /\ FramesFit(K, Len(S.prom), Len(C)) /\ K \in Seq(FrameT) /\ Placed(S, C, K)
      /\ Settled(S, C, A, K, H)
  BY GoodParts
<1>2. /\ C[c] \in CoroT /\ C[c].state = "live" /\ ~C[c].parked
      /\ CountIn(K, {Frame("coro", c)}) = 1 /\ Waits(S, c) = 0
      /\ p \in DOMAIN S.prom /\ Hands(C, K, H, p) # 0
  <2>1. Driven(S, C, A, K, H, c)
    BY DrivenCoro
  <2> QED BY <2>1 DEF Driven
<1>3. /\ Free(S, p, Len(C), A) /\ Hands(C, K, H, p) = 1 /\ Owed(S, Down(p)) = 0
      /\ \A a \in DOMAIN A : A[a].out # p
  BY <1>2, SoleSettler
<1>4. y \in CoroT /\ y.owes = p /\ y.state = "dropped" /\ ~y.parked
  <2>1. y = [gen |-> C[c].gen, owes |-> C[c].owes, state |-> "dropped", parked |-> C[c].parked,
             done |-> C[c].done]
    BY <1>2 DEF CoroT
  <2>2. /\ C[c].gen \in BOOLEAN /\ C[c].parked \in BOOLEAN /\ C[c].done \in BOOLEAN /\ C[c].owes \in Ids
    BY <1>2 DEF CoroT
  <2>3. y \in CoroT
    BY <2>1, <2>2 DEF CoroT
  <2> QED BY <1>2, <2>1, <2>3
<1>5. CoroFits(y, Len(S.prom))
  <2>1. CoroFits(C[c], Len(S.prom))
    BY <1>1 DEF CorosFit
  <2> HIDE DEF y
  <2> QED BY <1>4, <2>1 DEF CoroFits
<1> HIDE DEF y
<1>6. /\ CorosFit(C2, Len(S.prom)) /\ Len(C2) = Len(C) /\ DOMAIN C2 = DOMAIN C
      /\ C2[c] = y /\ \A d \in DOMAIN C \ {c} : C2[d] = C[d]
  BY <1>1, <1>4, <1>5, PutCoro
<1>7. \A x : CountIn(C2, Owers(x)) = CountIn(C, Owers(x)) - Flag(C[c] \in Owers(x)) + Flag(y \in Owers(x))
  BY <1>1, <1>4, <1>5, PutCoro
<1>8. FramesFit(K2, Len(S.prom), Len(C)) /\ Undriven(K, K2, c)
  BY <1>1, PopCoro
<1> HIDE DEF K2, C2, p
<1>9. ASSUME NEW x \in DOMAIN S.prom
      PROVE  Hands(C2, K2, H, x) = Hands(C, K, H, x) - Flag(x = p)
  <2>1. C[c] \in Owers(x) <=> x = p
    BY <1>2 DEF Owers, p
  <2>2. y \notin Owers(x)
    BY <1>4 DEF Owers
  <2>3. CountIn(C2, Owers(x)) = CountIn(C, Owers(x)) - Flag(C[c] \in Owers(x)) + Flag(y \in Owers(x))
    BY <1>7
  <2>4. CountIn(K2, {Frame("react", x)}) = CountIn(K, {Frame("react", x)})
    BY <1>8 DEF Undriven
  <2>5. CountIn(C, Owers(x)) \in Nat /\ CountIn(K, {Frame("react", x)}) \in Nat
    BY <1>1, HandsNat
  <2>6. CASE x = p
    BY <2>1, <2>2, <2>3, <2>4, <2>5, <2>6 DEF Hands, Flag
  <2>7. CASE x # p
    BY <2>1, <2>2, <2>3, <2>4, <2>5, <2>7 DEF Hands, Flag
  <2> QED BY <2>6, <2>7
<1>10. Dropped(C2, p) /\ \A x : x # p => (Dropped(C2, x) <=> Dropped(C, x))
  BY <1>2, <1>4, <1>6 DEF Dropped, p
<1>11. Placed(S, C2, K2)
  <2>1. ASSUME NEW d \in DOMAIN C2
        PROVE  CountIn(K2, {Frame("coro", d)}) + Waits(S, d) + Flag(C2[d].parked) = Flag(C2[d].state = "live")
    <3>1. CASE d = c
      <4>1. CountIn(K2, {Frame("coro", d)}) = 0
        BY <1>2, <1>8, <3>1 DEF Undriven
      <4>2. C2[d] = y
        BY <1>6, <3>1
      <4> QED BY <1>2, <1>4, <3>1, <4>1, <4>2 DEF Flag
    <3>2. CASE d # c
      <4>1. CountIn(K2, {Frame("coro", d)}) = CountIn(K, {Frame("coro", d)}) /\ C2[d] = C[d] /\ d \in DOMAIN C
        BY <1>6, <1>8, <3>2 DEF Undriven
      <4> QED BY <1>1, <4>1 DEF Placed
    <3> QED BY <3>1, <3>2
  <2> QED BY <2>1 DEF Placed
<1>12. ASSUME NEW x \in DOMAIN S.prom PROVE SettledAt(S, C2, A, K2, H, x)
  <2>1. SettledAt(S, C, A, K, H, x) /\ Hands(C, K, H, x) \in Nat
    BY <1>1, HandsNat DEF Settled
  <2>2. CASE x = p
    <3>1. Hands(C2, K2, H, x) = 0
      BY <1>3, <1>9, <2>2 DEF Flag
    <3>2. CountIn(A, Outs(x)) = 0
      <4>1. \A a \in DOMAIN A : A[a] \notin Outs(x)
        BY <1>3, <2>2 DEF Outs
      <4> QED BY <1>1, <4>1, CountFew
    <3> QED BY <1>3, <1>10, <2>2, <3>1, <3>2 DEF SettledAt, Flag
  <2>3. CASE x # p
    <3>1. Hands(C2, K2, H, x) = Hands(C, K, H, x)
      BY <1>9, <2>1, <2>3 DEF Flag
    <3> QED BY <1>10, <2>1, <2>3, <3>1, BalanceKept
  <2> QED BY <2>2, <2>3
<1>13. Shaped(S, C2, A, K2, H)
  BY <1>6, <1>8 DEF Good, Shaped
<1>14. Good(S, C2, A, K2, H)
  BY <1>11, <1>12, <1>13 DEF Good, Settled
<1> QED BY <1>14 DEF K2, C2, y

\* The host's `then' fails: the coroutine is dropped, and a drain that drove it
\* ends.
LEMMA HostThenFailsKeeps ==
    ASSUME IInv, HostThenFails
    PROVE  Stepped
<1> DEFINE L == SubSeq(stack, 1, Len(stack) - 1)
           K2 == SubSeq(stack, 1, Len(stack) - 2)
           K3 == SubSeq(K2, 1, Len(K2) - 1)
           c == stack[Len(stack) - 1].id
           C2 == Recast(coro, c, [coro[c] EXCEPT !.state = "dropped"])
<1>1. Good(Now, coro, alls, stack, hosted) /\ calls \in 0..MaxCalls
  BY GoodNow
<1>2. FramesFit(stack, Len(Now.prom), Len(coro)) /\ Len(coro) \in Nat /\ DOMAIN coro = 1..Len(coro)
      /\ DOMAIN Now.prom = 1..Len(Now.prom) /\ stack \in Seq(FrameT)
  BY <1>1, GoodParts
<1>3. stack # <<>> /\ stack[Len(stack)].kind = "adopt"
  BY DEF HostThenFails, Top, Depth
<1>4. /\ FramesFit(L, Len(Now.prom), Len(coro)) /\ Plain(stack, L) /\ c \in DOMAIN coro /\ Drives(L, c)
      /\ SubSeq(L, 1, Len(L) - 1) = K2 /\ Len(stack) \in Nat /\ Len(stack) >= 2 /\ Len(L) = Len(stack) - 1
  BY <1>2, <1>3, AdoptFrame
<1>5. Good(Now, coro, alls, L, hosted)
  BY <1>1, <1>4, Reframe
<1>6. Good(Now, C2, alls, K2, hosted)
  BY <1>4, <1>5, CoroDrops
<1>7. stack[Len(stack) - 2].kind = "drain" => Len(stack) > 2
  <2>1. FrameFits(L, Len(L), Len(Now.prom), Len(coro)) /\ L[Len(L)].kind = "coro"
    <3>1. L # <<>> /\ L[Len(L)].kind = "coro"
      BY <1>4 DEF Drives, Frame
    <3> QED BY <1>4, <3>1, TopFrame
  <2> QED BY <1>4, <2>1 DEF FrameFits
<1>8. CASE stack[Len(stack) - 2].kind = "drain"
  <2>1. K2 # <<>> /\ K2[Len(K2)] = stack[Len(stack) - 2] /\ K3 = SubSeq(stack, 1, Len(stack) - 3)
    <3>1. Len(stack) - (2 + 1) = Len(stack) - 3
      BY <1>4
    <3> QED BY <1>2, <1>4, <1>7, <1>8, <3>1, FrontTwice
  <2> HIDE DEF K2, C2
  <2>2. FramesFit(K2, Len(Now.prom), Len(C2))
    BY <1>6, GoodParts
  <2>3. FramesFit(K3, Len(Now.prom), Len(C2)) /\ Plain(K2, K3)
    BY <1>8, <2>1, <2>2, PopPlain
  <2>4. Good(Now, C2, alls, K3, hosted)
    BY <1>6, <2>3, Reframe
  <2>5. stack' = K3 /\ coro' = C2 /\ alls' = alls /\ hosted' = hosted /\ calls' = calls
    BY <1>8, <2>1 DEF HostThenFails, Below, Depth, C2, Recast
  <2>6. Now' = Now /\ Kept(Now, Now')
    BY SameStore DEF HostThenFails
  <2> QED BY <1>1, <2>4, <2>5, <2>6 DEF IInv, Stepped
<1>9. CASE stack[Len(stack) - 2].kind # "drain"
  <2>1. stack' = K2 /\ coro' = C2 /\ alls' = alls /\ hosted' = hosted /\ calls' = calls
    BY <1>9 DEF HostThenFails, Below, Depth, Recast
  <2>2. Now' = Now /\ Kept(Now, Now')
    BY SameStore DEF HostThenFails
  <2> QED BY <1>1, <1>6, <2>1, <2>2 DEF IInv, Stepped
<1> QED BY <1>8, <1>9

\* What is settled is kept from step to step.
LEMMA KeptTrans ==
    ASSUME NEW S \in Store, NEW B \in Store, NEW R \in Store, Kept(S, B), Kept(B, R)
    PROVE  Kept(S, R)
<1>1. /\ Len(S.prom) \in Nat /\ Len(B.prom) \in Nat /\ Len(R.prom) \in Nat
      /\ DOMAIN S.prom = 1..Len(S.prom) /\ DOMAIN B.prom = 1..Len(B.prom)
  BY StoreParts
<1>2. Len(S.prom) <= Len(B.prom) /\ Len(B.prom) <= Len(R.prom)
  BY DEF Kept
<1>3. Len(S.prom) <= Len(R.prom) /\ DOMAIN S.prom \subseteq DOMAIN B.prom
  BY <1>1, <1>2
<1>4. ASSUME NEW x \in DOMAIN S.prom, ~Open(S, x) PROVE R.prom[x] = S.prom[x]
  <2>1. B.prom[x] = S.prom[x]
    BY <1>4 DEF Kept
  <2>2. ~Open(B, x) /\ x \in DOMAIN B.prom
    BY <1>3, <1>4, <2>1 DEF Open
  <2> QED BY <2>1, <2>2 DEF Kept
<1> QED BY <1>3, <1>4 DEF Kept

\* The reaction that passes an outcome on to p leads to p and is no slot's.
LEMMA PassOnLeads ==
    ASSUME NEW n \in Nat, n <= MaxProm, NEW p \in 1..n
    PROVE  /\ PassOn(p) \in ReactionType
           /\ \A x : PassOn(p) \in Down(x) <=> x = p
           /\ \A a, i : a # 0 => PassOn(p) \notin SlotOf(a, i)
<1>1. PassOn(p) \in ReactionType /\ PassOn(p).down = p /\ PassOn(p).slot = <<0, 0>>
  <2>1. p \in Ids
    BY BoundsAssumption DEF Ids
  <2> QED BY <2>1, BoundsAssumption, AllSizeAssumption DEF PassOn, Reaction, NoSlot, ReactionType
<1>2. \A x : PassOn(p) \in Down(x) <=> x = p
  BY <1>1 DEF Down
<1>3. \A a, i : a # 0 => PassOn(p) \notin SlotOf(a, i)
  BY <1>1 DEF SlotOf
<1> QED BY <1>1, <1>2, <1>3

\* A promise is created and at once settled or handed over.
LEMMA CreateHands ==
    ASSUME NEW S, NEW C, NEW A, NEW K, NEW H, Good(S, C, A, K, H), Len(S.prom) + 1 <= MaxProm,
           NEW R, HandsOver(Create(S), R, Len(S.prom) + 1, Len(C), A),
           NEW C2, CorosFit(C2, Len(S.prom)), Len(C2) = Len(C), Placed(S, C2, K),
           \A x : CountIn(C2, Owers(x)) = CountIn(C, Owers(x)) /\ (Dropped(C2, x) <=> Dropped(C, x))
    PROVE  Good(R, C2, A, K, H) /\ R \in Store /\ Kept(S, R)
<1> DEFINE n == Len(S.prom) + 1
           B == Create(S)
<1>1. /\ S \in Store /\ DOMAIN S.prom = 1..Len(S.prom) /\ Len(S.prom) \in Nat
      /\ Len(C) \in Nat /\ DOMAIN A = 1..Len(A) /\ FramesFit(K, Len(S.prom), Len(C))
      /\ H \subseteq DOMAIN S.prom /\ Len(C) <= MaxCoro
  BY GoodParts
<1>2. /\ Len(B.prom) = n /\ Kept(S, B)
      /\ B \in Store /\ DOMAIN B.prom = 1..n
      /\ \A x \in DOMAIN S.prom : Open(B, x) <=> Open(S, x)
      /\ Open(B, n) /\ Owed(B, Down(n)) = 0
      /\ \A U : Owed(B, U) = Owed(S, U)
      /\ \A c : Waits(B, c) = Waits(S, c)
  <2>1. Born(S, B, Len(C), A)
    BY Created
  <2> HIDE DEF B
  <2> QED BY <2>1 DEF Born
<1> HIDE DEF B, n
<1>3. /\ R \in Store /\ Len(R.prom) = Len(B.prom) /\ Fits(R, Len(C), A) /\ Kept(B, R)
      /\ \A x \in DOMAIN B.prom : Adopted(R, x)
      /\ \A x \in DOMAIN B.prom \ {n} : Open(R, x) <=> Open(B, x)
      /\ \A U \in Proper : Owed(R, U) = Owed(B, U) + Flag(PassOn(n) \in U /\ Open(R, n))
      /\ \A c \in Crew : Waits(R, c) = Waits(B, c)
  BY DEF HandsOver, B, n
<1>4. n \in Nat /\ n <= MaxProm /\ n \in 1..n /\ n = Len(S.prom) + 1 /\ n \notin DOMAIN S.prom
      /\ DOMAIN R.prom = 1..n /\ DOMAIN S.prom \subseteq 1..n
  <2>1. DOMAIN R.prom = 1..Len(R.prom)
    BY <1>3, StoreParts
  <2> QED BY <1>1, <1>2, <1>3, <2>1 DEF n
<1>5. Kept(S, R)
  BY <1>1, <1>2, <1>3, KeptTrans
<1>6. Holds(R, Len(C2), A)
  BY <1>2, <1>3, <1>4 DEF Holds
<1>7. \A x \in DOMAIN S.prom : Open(R, x) <=> Open(S, x)
  BY <1>2, <1>3, <1>4
<1>8. CorosFit(C2, Len(R.prom)) /\ FramesFit(K, Len(R.prom), Len(C2)) /\ H \subseteq DOMAIN R.prom
  <2>1. Len(R.prom) = n /\ Len(S.prom) <= n
    BY <1>1, <1>2, <1>3, <1>4
  <2>2. CorosFit(C2, n) /\ FramesFit(K, n, Len(C))
    BY <1>1, <1>4, <2>1, ShapesMore
  <2> QED BY <1>1, <1>4, <2>1, <2>2
<1>9. Placed(R, C2, K)
  <2>1. \A c \in DOMAIN C2 : c \in Crew
    <3>1. C2 \in Seq(CoroT) /\ Len(C2) <= MaxCoro
      BY DEF CorosFit
    <3> QED BY <3>1, BoundsAssumption DEF Crew
  <2> QED BY <1>2, <1>3, <2>1 DEF Placed
<1>10. /\ \A x : PassOn(n) \in Down(x) <=> x = n
       /\ \A a, i : a # 0 => PassOn(n) \notin SlotOf(a, i)
  BY <1>4, PassOnLeads
<1>11. /\ \A a \in DOMAIN A : \A i : SlotOf(a, i) \in Proper
       /\ \A x \in DOMAIN S.prom : Down(x) \in Proper
       /\ Down(n) \in Proper
  BY ProperSlots DEF n
<1>12. (\A U : Owed(S, U) \in Nat) /\ (\A U : Owed(B, U) \in Nat)
  BY <1>1, <1>2, OwedNat
<1>13. SlotsSame(S, R, A)
  <2>1. ASSUME NEW a \in DOMAIN A, NEW i \in 1..AllSize PROVE Owed(R, SlotOf(a, i)) = Owed(S, SlotOf(a, i))
    <3>1. PassOn(n) \notin SlotOf(a, i) /\ SlotOf(a, i) \in Proper
      BY <1>1, <1>10, <1>11
    <3>2. Owed(R, SlotOf(a, i)) = Owed(B, SlotOf(a, i)) + 0
      BY <1>3, <3>1 DEF Flag
    <3> QED BY <1>2, <1>12, <3>2
  <2> QED BY <2>1 DEF SlotsSame
<1>14. HandsSame(S, C, K, H, R, C2, K, H)
  <2>1. ASSUME NEW x \in DOMAIN S.prom
        PROVE  Hands(C2, K, H, x) + Owed(R, Down(x)) = Hands(C, K, H, x) + Owed(S, Down(x))
    <3>1. PassOn(n) \notin Down(x) /\ Down(x) \in Proper
      BY <1>4, <1>10, <1>11
    <3>2. Owed(R, Down(x)) = Owed(B, Down(x)) + 0
      BY <1>3, <3>1 DEF Flag
    <3>3. Owed(R, Down(x)) = Owed(S, Down(x))
      BY <1>2, <1>12, <3>2
    <3>4. Hands(C2, K, H, x) = Hands(C, K, H, x)
      BY DEF Hands
    <3> QED BY <3>3, <3>4
  <2> QED BY <2>1 DEF HandsSame
<1>15. OneHand(R, C2, K, H)
  <2>1. Hands(C, K, H, n) = 0 /\ ~Dropped(C, n)
    BY Newcomer DEF n
  <2>2. Hands(C2, K, H, n) = 0 /\ ~Dropped(C2, n)
    BY <2>1 DEF Hands
  <2>3. Owed(R, Down(n)) = Owed(B, Down(n)) + Flag(PassOn(n) \in Down(n) /\ Open(R, n))
    BY <1>3, <1>11
  <2>4. Owed(R, Down(n)) = Flag(Open(R, n))
    BY <1>2, <1>10, <2>3 DEF Flag
  <2>5. Len(R.prom) = n
    BY <1>2, <1>3
  <2> QED BY <2>2, <2>4, <2>5 DEF OneHand, Flag
<1>16. Len(R.prom) = Len(S.prom) + 1
  BY <1>2, <1>3, <1>4
<1>17. Good(R, C2, A, K, H)
  BY <1>5, <1>6, <1>7, <1>8, <1>9, <1>13, <1>14, <1>15, <1>16, StepCreates
<1> QED BY <1>3, <1>5, <1>17

\* Promise.resolve and Promise.reject.
LEMMA PromiseOfKeeps ==
    ASSUME IInv, NEW r \in Results, PromiseOf(r)
    PROVE  Stepped
<1> DEFINE S == Now
           n == Len(S.prom) + 1
           R == SettleWith(Create(S), n, r)
<1>1. /\ Good(S, coro, alls, stack, hosted) /\ calls \in 0..MaxCalls /\ S.prom = prom
  BY GoodNow
<1>2. CorosFit(coro, Len(S.prom)) /\ Placed(S, coro, stack) /\ Len(S.prom) \in Nat
  BY <1>1, GoodParts
<1>3. Len(S.prom) + 1 <= MaxProm /\ n = NewProm
  BY <1>1 DEF PromiseOf, MayCreate, NewProm
<1>4. Become(R) /\ stack' = stack /\ coro' = coro /\ alls' = alls /\ hosted' = hosted /\ calls' = calls
  BY <1>3 DEF PromiseOf
<1>5. r.rejected \in BOOLEAN /\ r.with \in 0..Len(S.prom)
  BY <1>1, ResultParts
<1> HIDE DEF S
<1>6. Free(Create(S), n, Len(coro), alls) /\ Len(Create(S).prom) = n
  <2>1. Born(S, Create(S), Len(coro), alls)
    BY <1>1, <1>3, Created
  <2> QED BY <2>1 DEF Born
<1>7. r.with \in 0..Len(Create(S).prom)
  BY <1>2, <1>5, <1>6
<1>8. HandsOver(Create(S), R, n, Len(coro), alls)
  BY <1>5, <1>6, <1>7, SettleWithHands
<1> HIDE DEF R
<1>9. Good(R, coro, alls, stack, hosted) /\ R \in Store /\ Kept(S, R)
  BY <1>1, <1>2, <1>3, <1>8, CreateHands
<1>10. Now' = R
  BY <1>4, <1>9, BecomeStore
<1> QED BY <1>1, <1>4, <1>9, <1>10 DEF IInv, Stepped, S

\* then and catch.
LEMMA PromiseThenKeeps ==
    ASSUME IInv, NEW q \in Proms, NEW handles \in SUBSET {"fulfilled", "rejected"},
           PromiseThen(q, handles)
    PROVE  Stepped
<1> DEFINE S == Now
           n == Len(S.prom) + 1
           B == Create(S)
           r == Reaction(handles, NoSlot, n)
           R == Then(B, q, r)
<1>1. /\ Good(S, coro, alls, stack, hosted) /\ calls \in 0..MaxCalls /\ S.prom = prom
      /\ q \in DOMAIN S.prom
  BY GoodNow DEF Proms
<1>2. /\ CorosFit(coro, Len(S.prom)) /\ Placed(S, coro, stack) /\ Len(S.prom) \in Nat
      /\ DOMAIN S.prom = 1..Len(S.prom) /\ FramesFit(stack, Len(S.prom), Len(coro))
      /\ hosted \subseteq DOMAIN S.prom /\ Len(coro) \in Nat /\ DOMAIN coro = 1..Len(coro)
      /\ Len(coro) <= MaxCoro /\ DOMAIN alls = 1..Len(alls)
      /\ S \in Store
  BY <1>1, GoodParts
<1>3. Len(S.prom) + 1 <= MaxProm /\ n = NewProm
  BY <1>1 DEF PromiseThen, MayCreate, NewProm
<1>4. Become(R) /\ stack' = stack /\ coro' = coro /\ alls' = alls /\ hosted' = hosted /\ calls' = calls
  BY <1>3 DEF PromiseThen
<1> HIDE DEF S, B
<1>5. /\ Len(B.prom) = n /\ Kept(S, B) /\ Holds(B, Len(coro), alls)
      /\ B \in Store /\ DOMAIN B.prom = 1..n
      /\ \A x \in DOMAIN S.prom : Open(B, x) <=> Open(S, x)
      /\ Open(B, n) /\ Owed(B, Down(n)) = 0
      /\ \A U : Owed(B, U) = Owed(S, U)
      /\ \A c : Waits(B, c) = Waits(S, c)
  <2>1. Born(S, B, Len(coro), alls)
    BY <1>1, <1>3, Created DEF B
  <2> QED BY <2>1 DEF Born
<1>6. r \in ReactionType /\ r.down = n /\ r.slot = NoSlot
  <2>1. n \in Ids
    BY <1>2, <1>3, BoundsAssumption DEF Ids
  <2>2. NoSlot \in (0..MaxAll) \X (0..AllSize)
    BY BoundsAssumption, AllSizeAssumption DEF NoSlot
  <2> QED BY <2>1, <2>2 DEF Reaction, ReactionType
<1> HIDE DEF r
<1>7. ReactionFits(q, r, Len(B.prom), alls) /\ q \in DOMAIN B.prom
  BY <1>1, <1>2, <1>5, <1>6 DEF ReactionFits
<1>8. Expects(B, R, r, Len(coro), alls)
  BY <1>5, <1>6, <1>7, ThenStore
<1> HIDE DEF R, n
<1>9. /\ Holds(R, Len(coro), alls) /\ SettlesNone(B, R)
      /\ \A U : Owed(R, U) = Owed(B, U) + Flag(r \in U)
      /\ \A c \in Crew : Waits(R, c) = Waits(B, c)
  BY <1>8 DEF Expects
<1>10. R \in Store /\ Len(R.prom) = n /\ Kept(B, R) /\ \A x \in DOMAIN B.prom : Open(R, x) <=> Open(B, x)
  BY <1>5, <1>9 DEF SettlesNone, Holds
<1>11. Kept(S, R)
  BY <1>2, <1>5, <1>10, KeptTrans
<1>12. n = Len(S.prom) + 1 /\ DOMAIN S.prom \subseteq DOMAIN B.prom /\ n \in DOMAIN B.prom
       /\ n \notin DOMAIN S.prom /\ Len(S.prom) <= n /\ n \in Nat
  <2>1. n = Len(S.prom) + 1
    BY DEF n
  <2> QED BY <1>2, <1>5, <2>1
<1>13. \A x \in DOMAIN S.prom : Open(R, x) <=> Open(S, x)
  BY <1>5, <1>10, <1>12
<1>14. CorosFit(coro, n) /\ FramesFit(stack, n, Len(coro)) /\ hosted \subseteq DOMAIN B.prom
  <2>1. CorosFit(coro, n) /\ FramesFit(stack, n, Len(coro))
    BY <1>2, <1>12, MorePromises
  <2> QED BY <1>2, <1>12, <2>1
<1>15. Placed(R, coro, stack)
  <2>1. \A c \in DOMAIN coro : c \in Crew
    BY <1>2, BoundsAssumption DEF Crew
  <2> QED BY <1>2, <1>5, <1>9, <2>1 DEF Placed
<1>16. (\A U : Owed(S, U) \in Nat) /\ (\A U : Owed(B, U) \in Nat)
  BY <1>2, <1>5, OwedNat
<1>17. ASSUME NEW U, r \notin U PROVE Owed(R, U) = Owed(S, U)
  <2>1. Owed(R, U) = Owed(B, U) + 0
    BY <1>9, <1>17 DEF Flag
  <2> QED BY <1>5, <1>16, <2>1
<1>18. SlotsSame(S, R, alls)
  <2>1. ASSUME NEW a \in DOMAIN alls, NEW i \in 1..AllSize PROVE r \notin SlotOf(a, i)
    BY <1>2, <1>6 DEF SlotOf, NoSlot
  <2> QED BY <1>17, <2>1 DEF SlotsSame
<1>19. HandsSame(S, coro, stack, hosted, R, coro, stack, hosted)
  <2>1. ASSUME NEW x \in DOMAIN S.prom PROVE r \notin Down(x)
    BY <1>6, <1>12 DEF Down
  <2> QED BY <1>17, <2>1 DEF HandsSame
<1>20. OneHand(R, coro, stack, hosted)
  <2>1. Hands(coro, stack, hosted, n) = 0 /\ ~Dropped(coro, n)
    BY <1>1, Newcomer DEF n
  <2>2. r \in Down(n)
    BY <1>6 DEF Down
  <2>3. Owed(R, Down(n)) = 0 + 1
    BY <1>5, <1>9, <2>2 DEF Flag
  <2>4. Open(R, n)
    BY <1>5, <1>10, <1>12
  <2> QED BY <1>10, <2>1, <2>3, <2>4 DEF OneHand, Flag
<1>21. DOMAIN R.prom = DOMAIN B.prom /\ Len(R.prom) = Len(S.prom) + 1
  BY <1>5, <1>10, <1>12, StoreParts
<1>22. Good(R, coro, alls, stack, hosted)
  BY <1>1, <1>9, <1>10, <1>11, <1>13, <1>14, <1>15, <1>18, <1>19, <1>20, <1>21, StepCreates
<1>23. Now' = R
  BY <1>4, <1>10, BecomeStore
<1> QED BY <1>1, <1>4, <1>11, <1>22, <1>23 DEF IInv, Stepped, S

\* A promise is created for a coroutine, or for the host, to settle.
HandsAs(S, C, K, H, C2, K2, H2) ==
    \A x \in DOMAIN S.prom : /\ Hands(C2, K2, H2, x) = Hands(C, K, H, x)
                             /\ Dropped(C2, x) <=> Dropped(C, x)

\* The invariant holds with the new one, if somebody is to settle it.
LEMMA CreateOwed ==
    ASSUME NEW S, NEW C, NEW A, NEW K, NEW H, Good(S, C, A, K, H), Len(S.prom) + 1 <= MaxProm,
           NEW C2, NEW K2, NEW H2, CorosFit(C2, Len(S.prom) + 1), Len(C) <= Len(C2),
           FramesFit(K2, Len(S.prom) + 1, Len(C2)), H2 \subseteq 1..(Len(S.prom) + 1),
           Placed(S, C2, K2),
           HandsAs(S, C, K, H, C2, K2, H2),
           Hands(C2, K2, H2, Len(S.prom) + 1) = 1, ~Dropped(C2, Len(S.prom) + 1)
    PROVE  /\ Good(Create(S), C2, A, K2, H2)
           /\ Create(S) \in Store /\ Kept(S, Create(S))
<1> DEFINE n == Len(S.prom) + 1
           R == Create(S)
<1>1. /\ S \in Store /\ DOMAIN S.prom = 1..Len(S.prom) /\ Len(S.prom) \in Nat /\ Len(C) \in Nat
  BY GoodParts
<1>2. /\ Len(R.prom) = n /\ Kept(S, R) /\ Holds(R, Len(C), A)
      /\ R \in Store /\ DOMAIN R.prom = 1..n
      /\ \A x \in DOMAIN S.prom : Open(R, x) <=> Open(S, x)
      /\ Open(R, n) /\ Owed(R, Down(n)) = 0
      /\ \A U : Owed(R, U) = Owed(S, U)
      /\ \A c : Waits(R, c) = Waits(S, c)
  <2>1. Born(S, R, Len(C), A)
    BY Created
  <2> HIDE DEF R
  <2> QED BY <2>1 DEF Born
<1> HIDE DEF R
<1>3. Holds(R, Len(C2), A)
  <2>1. Len(C2) \in Nat
    BY DEF CorosFit
  <2> QED BY <1>1, <1>2, <2>1, HoldsMore
<1>4. Placed(R, C2, K2)
  BY <1>2 DEF Placed
<1>5. SlotsSame(S, R, A) /\ HandsSame(S, C, K, H, R, C2, K2, H2)
  BY <1>2 DEF SlotsSame, HandsSame, HandsAs
<1>6. OneHand(R, C2, K2, H2)
  BY <1>2 DEF OneHand, Flag
<1>7. Good(R, C2, A, K2, H2)
  BY <1>2, <1>3, <1>4, <1>5, <1>6, StepCreates
<1> QED BY <1>2, <1>7 DEF R

\* A coroutine awaits a host promise: the host's `then' is called.
LEMMA AwaitsHostKeeps ==
    ASSUME IInv, NEW c \in Coros, AwaitsHost(c)
    PROVE  Stepped
<1> DEFINE S == Now
           n == Len(S.prom) + 1
           R == Create(S)
           K2 == Append(stack, Frame("adopt", n))
           H2 == hosted \cup {n}
<1>1. /\ Good(S, coro, alls, stack, hosted) /\ calls \in 0..MaxCalls /\ S.prom = prom
  BY GoodNow
<1>2. /\ CorosFit(coro, Len(S.prom)) /\ Placed(S, coro, stack) /\ Len(S.prom) \in Nat
      /\ DOMAIN S.prom = 1..Len(S.prom) /\ FramesFit(stack, Len(S.prom), Len(coro))
      /\ hosted \subseteq DOMAIN S.prom /\ Len(coro) \in Nat /\ coro \in Seq(CoroT) /\ alls \in Seq(AllT)
      /\ stack \in Seq(FrameT)
  BY <1>1, GoodParts
<1>3. Len(S.prom) + 1 <= MaxProm /\ n = NewProm
  BY <1>1 DEF AwaitsHost, MayCreate, NewProm
<1>4. Become(R) /\ stack' = K2 /\ coro' = coro /\ alls' = alls /\ hosted' = H2 /\ calls' = calls
  BY <1>3 DEF AwaitsHost, Push
<1>5. stack # <<>> /\ stack[Len(stack)].kind = "coro"
  BY DEF AwaitsHost, Driving, Top, Depth, Frame
<1> HIDE DEF S
<1>6. n \in Nat /\ n \in 1..n /\ Len(S.prom) <= n
  BY <1>2
<1>7. CorosFit(coro, n) /\ FramesFit(stack, n, Len(coro))
  BY <1>2, <1>6, MorePromises
<1>8. FramesFit(K2, n, Len(coro)) /\ Plain(stack, K2)
  BY <1>5, <1>6, <1>7, PushPlain
<1>9. H2 \subseteq 1..n
  BY <1>2
<1>10. Hands(coro, stack, hosted, n) = 0 /\ ~Dropped(coro, n)
  BY <1>1, Newcomer
<1> HIDE DEF K2
<1>11. Placed(S, coro, K2)
  BY <1>2, <1>8 DEF Placed, Plain
<1>12. ASSUME NEW x \in DOMAIN S.prom PROVE Hands(coro, K2, H2, x) = Hands(coro, stack, hosted, x)
  <2>1. x \in H2 <=> x \in hosted
    BY <1>2
  <2>2. CountIn(K2, {Frame("react", x)}) = CountIn(stack, {Frame("react", x)})
    BY <1>8 DEF Plain
  <2> HIDE DEF H2
  <2> QED BY <2>1, <2>2 DEF Hands, Flag
<1>13. Hands(coro, K2, H2, n) = 1
  <2>1. n \notin hosted /\ n \in H2
    BY <1>2
  <2>2. CountIn(K2, {Frame("react", n)}) = CountIn(stack, {Frame("react", n)})
    BY <1>8 DEF Plain
  <2>3. CountIn(coro, Owers(n)) \in Nat /\ CountIn(stack, {Frame("react", n)}) \in Nat
    BY <1>2, HandsNat
  <2> HIDE DEF H2
  <2> QED BY <1>10, <2>1, <2>2, <2>3 DEF Hands, Flag
<1> HIDE DEF H2, R
<1>14. Good(R, coro, alls, K2, H2) /\ R \in Store /\ Kept(S, R)
  <2>1. HandsAs(S, coro, stack, hosted, coro, K2, H2)
    BY <1>12 DEF HandsAs
  <2>2. Len(coro) <= Len(coro)
    BY <1>2
  <2> QED BY <1>1, <1>3, <1>7, <1>8, <1>9, <1>10, <1>11, <1>13, <2>1, <2>2, CreateOwed DEF R
<1>15. Now' = R
  BY <1>4, <1>14, BecomeStore
<1> QED BY <1>1, <1>4, <1>14, <1>15 DEF IInv, Stepped, S

\* The frame of a coroutine pushed.
LEMMA PushCoro ==
    ASSUME NEW n, NEW nc, NEW K, FramesFit(K, n, nc), K # <<>>, NEW c \in 1..nc, nc \in Nat
    PROVE  LET K2 == Append(K, Frame("coro", c))
           IN  FramesFit(K2, n, nc) /\ Undriven(K2, K, c)
<1> DEFINE f == Frame("coro", c)
           K2 == Append(K, f)
<1>1. f \in FrameT /\ f.kind = "coro" /\ f.id = c
  BY DEF Frame, FrameT
<1>2. K \in Seq(FrameT)
  BY DEF FramesFit
<1>3. ASSUME NEW kind, NEW x
      PROVE  CountIn(K2, {Frame(kind, x)}) = IF "coro" = kind /\ c = x THEN CountIn(K, {Frame(kind, x)}) + 1
                                             ELSE CountIn(K, {Frame(kind, x)})
  BY <1>1, <1>2, PushCounts
<1> HIDE DEF f
<1>4. FramesFit(K2, n, nc)
  BY <1>1, PushFrame
<1> HIDE DEF K2
<1>5. ASSUME NEW x PROVE CountIn(K, {Frame("react", x)}) = CountIn(K2, {Frame("react", x)})
  BY <1>3
<1>6. ASSUME NEW x, x # c PROVE CountIn(K, {Frame("coro", x)}) = CountIn(K2, {Frame("coro", x)})
  BY <1>3, <1>6
<1>7. CountIn(K, {Frame("coro", c)}) = CountIn(K2, {Frame("coro", c)}) - 1
  <2>1. CountIn(K, {Frame("coro", c)}) \in Nat
    BY <1>2, CountNat
  <2> QED BY <1>3, <2>1
<1>8. Undriven(K2, K, c)
  BY <1>5, <1>6, <1>7 DEF Undriven
<1> QED BY <1>4, <1>8 DEF K2, f

\* A coroutine added.
LEMMA AddCoro ==
    ASSUME NEW n, NEW C, CorosFit(C, n), Len(C) + 1 <= MaxCoro, NEW y \in CoroT, CoroFits(y, n)
    PROVE  LET C2 == Append(C, y)
           IN  /\ CorosFit(C2, n) /\ Len(C2) = Len(C) + 1 /\ DOMAIN C2 = 1..(Len(C) + 1)
               /\ C2[Len(C) + 1] = y /\ \A d \in DOMAIN C : C2[d] = C[d]
               /\ \A x : CountIn(C2, Owers(x)) = CountIn(C, Owers(x)) + Flag(y \in Owers(x))
               /\ \A x : y.state = "live" => (Dropped(C2, x) <=> Dropped(C, x))
<1> DEFINE C2 == Append(C, y)
<1>1. C \in Seq(CoroT) /\ Len(C) \in Nat /\ DOMAIN C = 1..Len(C)
  BY DEF CorosFit
<1>2. /\ C2 \in Seq(CoroT) /\ Len(C2) = Len(C) + 1 /\ DOMAIN C2 = 1..(Len(C) + 1)
      /\ C2[Len(C) + 1] = y /\ \A d \in DOMAIN C : C2[d] = C[d]
  BY <1>1
<1>3. \A x : CountIn(C2, Owers(x)) = CountIn(C, Owers(x)) + Flag(y \in Owers(x))
  BY <1>1, CountAppend
<1> HIDE DEF C2
<1>4. \A d \in DOMAIN C2 : d \in DOMAIN C \/ d = Len(C) + 1
  BY <1>1, <1>2
<1>5. CorosFit(C2, n)
  <2>1. \A d \in DOMAIN C2 : CoroFits(C2[d], n)
    BY <1>2, <1>4 DEF CorosFit
  <2> QED BY <1>2, <2>1 DEF CorosFit
<1>6. ASSUME NEW x, y.state = "live" PROVE Dropped(C2, x) <=> Dropped(C, x)
  <2>1. DOMAIN C \subseteq DOMAIN C2
    BY <1>1, <1>2
  <2> QED BY <1>2, <1>4, <1>6, <2>1 DEF Dropped
<1> QED BY <1>2, <1>3, <1>5, <1>6 DEF C2

\* A coroutine that is not there yet is nowhere.
LEMMA NewcomerCoro ==
    ASSUME NEW S, NEW C, NEW A, NEW K, NEW H, Good(S, C, A, K, H)
    PROVE  LET c == Len(C) + 1
           IN  CountIn(K, {Frame("coro", c)}) = 0 /\ Waits(S, c) = 0
<1> DEFINE c == Len(C) + 1
<1>1. /\ S \in Store /\ Fits(S, Len(C), A) /\ FramesFit(K, Len(S.prom), Len(C))
      /\ Len(C) \in Nat /\ K \in Seq(FrameT)
  BY GoodParts
<1>2. CountIn(K, {Frame("coro", c)}) = 0
  <2>1. \A d \in DOMAIN K : K[d] \notin {Frame("coro", c)}
    <3> TAKE d \in DOMAIN K
    <3>1. K[d].kind = "coro" => K[d].id # c
      BY <1>1 DEF FramesFit, FrameFits
    <3>2. Frame("coro", c).kind = "coro" /\ Frame("coro", c).id = c
      BY DEF Frame
    <3> QED BY <3>1, <3>2
  <2> QED BY <1>1, <2>1, CountFew
<1>3. Waits(S, c) = 0
  <2>1. \A q \in DOMAIN S.prom : \A i \in DOMAIN S.prom[q].waiters : S.prom[q].waiters[i] # c
    BY <1>1 DEF Fits, PromiseFits
  <2>2. \A k \in DOMAIN S.queue : S.queue[k].coro # c
    BY <1>1 DEF Fits, TaskFits
  <2> QED BY <1>1, <2>1, <2>2, WaitsNone
<1> QED BY <1>2, <1>3

\* An async function is called.
LEMMA StartAsyncKeeps ==
    ASSUME IInv, StartAsync
    PROVE  Stepped
<1> DEFINE S == Now
           n == Len(S.prom) + 1
           c == Len(coro) + 1
           y == [gen |-> FALSE, owes |-> n, state |-> "live", parked |-> FALSE, done |-> FALSE]
           R == Create(S)
           C2 == Append(coro, y)
           K2 == Append(stack, Frame("coro", c))
<1>1. /\ Good(S, coro, alls, stack, hosted) /\ calls \in 0..MaxCalls /\ S.prom = prom
  BY GoodNow
<1>2. /\ CorosFit(coro, Len(S.prom)) /\ Placed(S, coro, stack) /\ Len(S.prom) \in Nat
      /\ DOMAIN S.prom = 1..Len(S.prom) /\ FramesFit(stack, Len(S.prom), Len(coro))
      /\ hosted \subseteq DOMAIN S.prom /\ Len(coro) \in Nat /\ coro \in Seq(CoroT) /\ alls \in Seq(AllT)
      /\ stack \in Seq(FrameT) /\ DOMAIN coro = 1..Len(coro)
  BY <1>1, GoodParts
<1>3. Len(S.prom) + 1 <= MaxProm /\ n = NewProm /\ c = NewCoro /\ c <= MaxCoro
  BY <1>1 DEF StartAsync, MayCreate, NewProm, NewCoro
<1>4. Become(R) /\ stack' = K2 /\ coro' = C2 /\ alls' = alls /\ hosted' = hosted /\ calls' = calls
  BY <1>3 DEF StartAsync, Push
<1>5. stack # <<>>
  BY DEF StartAsync, Code
<1> HIDE DEF S
<1>6. n \in Nat /\ n \in 1..n /\ Len(S.prom) <= n /\ c \in Nat /\ c \in 1..c /\ Len(coro) <= c
  BY <1>2
<1>7. CorosFit(coro, n) /\ FramesFit(stack, n, c)
  <2>1. CorosFit(coro, n)
    BY <1>2, <1>6, ShapesMore
  <2>2. FramesFit(stack, n, Len(coro))
    BY <1>2, <1>6, MorePromises
  <2>3. n <= n
    BY <1>6
  <2>4. FramesFit(stack, n, c)
    BY <1>2, <1>6, <2>2, <2>3, ShapesMore
  <2> QED BY <2>1, <2>4
<1>8. y \in CoroT /\ CoroFits(y, n) /\ y.owes = n /\ y.state = "live" /\ ~y.parked
  <2>1. n \in Ids
    BY <1>3, <1>6, BoundsAssumption DEF Ids
  <2>2. y \in CoroT
    BY <2>1 DEF CoroT
  <2> QED BY <1>6, <2>2 DEF CoroFits
<1> HIDE DEF y, n
<1>9. FramesFit(K2, n, c) /\ Undriven(K2, stack, c)
  BY <1>5, <1>6, <1>7, PushCoro
<1>10. /\ CorosFit(C2, n) /\ Len(C2) = c /\ DOMAIN C2 = 1..c
       /\ C2[c] = y /\ \A d \in DOMAIN coro : C2[d] = coro[d]
  BY <1>3, <1>7, <1>8, AddCoro
<1>11. \A x : CountIn(C2, Owers(x)) = CountIn(coro, Owers(x)) + Flag(y \in Owers(x))
  BY <1>3, <1>7, <1>8, AddCoro
<1>12. \A x : Dropped(C2, x) <=> Dropped(coro, x)
  BY <1>3, <1>7, <1>8, AddCoro
<1>13. Hands(coro, stack, hosted, n) = 0 /\ ~Dropped(coro, n)
  BY <1>1, Newcomer DEF n
<1>14. CountIn(stack, {Frame("coro", c)}) = 0 /\ Waits(S, c) = 0
  BY <1>1, NewcomerCoro
<1> HIDE DEF K2, C2, c
<1>15. Placed(S, C2, K2)
  <2>1. ASSUME NEW d \in DOMAIN C2
        PROVE  CountIn(K2, {Frame("coro", d)}) + Waits(S, d) + Flag(C2[d].parked) = Flag(C2[d].state = "live")
    <3>1. CASE d = c
      <4>1. CountIn(stack, {Frame("coro", c)}) = CountIn(K2, {Frame("coro", c)}) - 1
            /\ CountIn(K2, {Frame("coro", c)}) \in Int
        <5>1. K2 \in Seq(FrameT)
          BY <1>9 DEF FramesFit
        <5>2. CountIn(K2, {Frame("coro", c)}) \in Nat
          BY <5>1, CountNat
        <5> QED BY <1>9, <5>2 DEF Undriven
      <4>2. CountIn(K2, {Frame("coro", c)}) = 1
        BY <1>14, <4>1
      <4> QED BY <1>8, <1>10, <1>14, <3>1, <4>2 DEF Flag
    <3>2. CASE d # c
      <4>1. CountIn(K2, {Frame("coro", d)}) = CountIn(stack, {Frame("coro", d)})
        BY <1>9, <3>2 DEF Undriven
      <4>2. d \in DOMAIN coro
        BY <1>2, <1>10, <3>2 DEF c
      <4> QED BY <1>2, <1>10, <4>1, <4>2 DEF Placed
    <3> QED BY <3>1, <3>2
  <2> QED BY <2>1 DEF Placed
<1>16. HandsAs(S, coro, stack, hosted, C2, K2, hosted)
  <2>1. ASSUME NEW x \in DOMAIN S.prom PROVE Hands(C2, K2, hosted, x) = Hands(coro, stack, hosted, x)
    <3>1. y \notin Owers(x)
      BY <1>2, <1>6, <1>8 DEF Owers, n
    <3>2. CountIn(C2, Owers(x)) = CountIn(coro, Owers(x))
      <4>1. CountIn(coro, Owers(x)) \in Nat
        BY <1>2, HandsNat
      <4> QED BY <1>11, <3>1, <4>1 DEF Flag
    <3>3. CountIn(K2, {Frame("react", x)}) = CountIn(stack, {Frame("react", x)})
      BY <1>9 DEF Undriven
    <3> QED BY <3>2, <3>3 DEF Hands
  <2> QED BY <1>12, <2>1 DEF HandsAs
<1>17. Hands(C2, K2, hosted, n) = 1 /\ ~Dropped(C2, n)
  <2>1. y \in Owers(n)
    BY <1>8 DEF Owers
  <2>2. CountIn(K2, {Frame("react", n)}) = CountIn(stack, {Frame("react", n)})
    BY <1>9 DEF Undriven
  <2>3. CountIn(coro, Owers(n)) \in Nat /\ CountIn(stack, {Frame("react", n)}) \in Nat
    BY <1>2, HandsNat
  <2>4. CountIn(C2, Owers(n)) = CountIn(coro, Owers(n)) + 1
    BY <1>11, <2>1 DEF Flag
  <2> QED BY <1>12, <1>13, <2>2, <2>3, <2>4 DEF Hands, Flag
<1>18. hosted \subseteq 1..n
  BY <1>2 DEF n
<1> HIDE DEF R
<1>19. Good(R, C2, alls, K2, hosted) /\ R \in Store /\ Kept(S, R)
  <2>1. Len(coro) <= Len(C2) /\ n = Len(S.prom) + 1 /\ Len(C2) = c
    BY <1>6, <1>10 DEF n
  <2> QED BY <1>1, <1>3, <1>9, <1>10, <1>15, <1>16, <1>17, <1>18, <2>1, CreateOwed DEF R
<1>20. Now' = R
  BY <1>4, <1>19, BecomeStore
<1> QED BY <1>1, <1>4, <1>19, <1>20 DEF IInv, Stepped, S

\* An async generator is called.
LEMMA NewGeneratorKeeps ==
    ASSUME IInv, NewGenerator
    PROVE  Stepped
<1> DEFINE S == Now
           c == Len(coro) + 1
           y == [gen |-> TRUE, owes |-> 0, state |-> "live", parked |-> TRUE, done |-> FALSE]
           C2 == Append(coro, y)
<1>1. /\ Good(S, coro, alls, stack, hosted) /\ calls \in 0..MaxCalls
  BY GoodNow
<1>2. /\ CorosFit(coro, Len(S.prom)) /\ Placed(S, coro, stack) /\ Len(S.prom) \in Nat
      /\ FramesFit(stack, Len(S.prom), Len(coro)) /\ Holds(S, Len(coro), alls)
      /\ Len(coro) \in Nat /\ coro \in Seq(CoroT) /\ DOMAIN coro = 1..Len(coro)
      /\ Settled(S, coro, alls, stack, hosted)
      /\ DOMAIN S.prom = 1..Len(S.prom)
  BY <1>1, GoodParts
<1>3. c <= MaxCoro
  BY DEF NewGenerator, NewCoro
<1>4. stack' = stack /\ coro' = C2 /\ alls' = alls /\ hosted' = hosted /\ calls' = calls
  BY DEF NewGenerator
<1> HIDE DEF S
<1>5. y \in CoroT /\ CoroFits(y, Len(S.prom)) /\ y.owes = 0 /\ y.state = "live" /\ y.parked
  <2>1. 0 \in Ids
    BY BoundsAssumption DEF Ids
  <2>2. y \in CoroT
    BY <2>1 DEF CoroT
  <2> QED BY <1>2, <2>2 DEF CoroFits
<1> HIDE DEF y
<1>6. /\ CorosFit(C2, Len(S.prom)) /\ Len(C2) = c /\ DOMAIN C2 = 1..c
      /\ C2[c] = y /\ \A d \in DOMAIN coro : C2[d] = coro[d]
  BY <1>2, <1>3, <1>5, AddCoro
<1>7. \A x : CountIn(C2, Owers(x)) = CountIn(coro, Owers(x)) + Flag(y \in Owers(x))
  BY <1>2, <1>3, <1>5, AddCoro
<1>8. \A x : Dropped(C2, x) <=> Dropped(coro, x)
  BY <1>2, <1>3, <1>5, AddCoro
<1>9. CountIn(stack, {Frame("coro", c)}) = 0 /\ Waits(S, c) = 0
  BY <1>1, NewcomerCoro
<1>10. Len(coro) <= c /\ c \in Nat
  BY <1>2
<1>11. FramesFit(stack, Len(S.prom), c)
  <2>1. Len(S.prom) <= Len(S.prom)
    BY <1>2
  <2> QED BY <1>2, <1>10, <2>1, ShapesMore
<1>12. Holds(S, Len(C2), alls)
  BY <1>2, <1>6, <1>10, HoldsMore
<1> HIDE DEF C2
<1>13. Placed(S, C2, stack)
  <2>1. ASSUME NEW d \in DOMAIN C2
        PROVE  CountIn(stack, {Frame("coro", d)}) + Waits(S, d) + Flag(C2[d].parked) = Flag(C2[d].state = "live")
    <3>1. CASE d = c
      BY <1>5, <1>6, <1>9, <3>1 DEF Flag
    <3>2. CASE d # c
      <4>1. d \in DOMAIN coro
        BY <1>2, <1>6, <3>2
      <4> QED BY <1>2, <1>6, <4>1 DEF Placed
    <3> QED BY <3>1, <3>2
  <2> QED BY <2>1 DEF Placed
<1>14. ASSUME NEW x \in DOMAIN S.prom PROVE SettledAt(S, C2, alls, stack, hosted, x)
  <2>1. y \notin Owers(x)
    BY <1>2, <1>5 DEF Owers
  <2>2. CountIn(coro, Owers(x)) \in Nat
    BY <1>2, CountNat
  <2>3. CountIn(C2, Owers(x)) = CountIn(coro, Owers(x))
    BY <1>7, <2>1, <2>2 DEF Flag
  <2>4. Hands(C2, stack, hosted, x) = Hands(coro, stack, hosted, x)
    BY <2>3 DEF Hands
  <2>5. SettledAt(S, coro, alls, stack, hosted, x)
    BY <1>2 DEF Settled
  <2> QED BY <1>8, <2>4, <2>5, BalanceKept
<1>15. Shaped(S, C2, alls, stack, hosted)
  BY <1>1, <1>6, <1>11, <1>12 DEF Good, Shaped
<1>16. Good(S, C2, alls, stack, hosted)
  BY <1>1, <1>13, <1>14, <1>15 DEF Good, Settled
<1>17. Now' = Now /\ Kept(Now, Now')
  BY SameStore DEF NewGenerator
<1> QED BY <1>1, <1>4, <1>16, <1>17 DEF IInv, Stepped, S

\* The drain takes the first task off the queue.
Taken(S, R, t, nc, A) ==
    /\ Holds(R, nc, A) /\ SettlesNone(S, R) /\ R \in Store /\ Kept(S, R)
    /\ t \in TaskT /\ TaskFits(t, S.prom, nc, A)
    /\ \A U : Owed(R, U) = Owed(S, U) - Flag(t.then \in U)
    /\ \A c : Waits(R, c) = Waits(S, c) - Flag(t.coro = c)

\* A task that only resumes or calls a handler settles nothing when it is taken
\* (lib.rs, drain_tasks).
LEMMA TakeTask ==
    ASSUME NEW S, NEW nc, NEW A, Holds(S, nc, A), S.queue # <<>>,
           \A x \in DOMAIN S.prom : Head(S.queue).then # PassOn(x)
    PROVE  Taken(S, Dequeue(S), Head(S.queue), nc, A)
<1> DEFINE R == Dequeue(S)
<1>1. /\ S \in Store /\ Len(S.prom) <= MaxProm
      /\ Fits(S, nc, A) /\ \A x \in DOMAIN S.prom : Adopted(S, x)
  BY DEF Holds
<1>2. /\ R \in Store /\ R.prom = S.prom /\ Head(S.queue) \in TaskT
      /\ \A U : Owed(R, U) = Owed(S, U) - Flag(Head(S.queue).then \in U)
      /\ \A c : Waits(R, c) = Waits(S, c) - Flag(Head(S.queue).coro = c)
  BY <1>1, DequeueStore
<1>3. /\ Fits(R, nc, A) /\ Kept(S, R)
      /\ TaskFits(Head(S.queue), S.prom, nc, A)
      /\ \A x \in DOMAIN S.prom : Head(S.queue).then # PassOn(x) /\ Adopted(S, x) => Adopted(R, x)
  BY <1>1, DequeueFits
<1> HIDE DEF R
<1>4. \A x \in DOMAIN R.prom : Adopted(R, x)
  BY <1>1, <1>2, <1>3
<1>5. Holds(R, nc, A) /\ SettlesNone(S, R)
  BY <1>1, <1>2, <1>3, <1>4 DEF Holds, SettlesNone, Open
<1>6. Taken(S, R, Head(S.queue), nc, A)
  BY <1>2, <1>3, <1>5 DEF Taken
<1> QED BY <1>6 DEF R

\* The queue after a task is taken.
LEMMA TakenNow ==
    ASSUME IInv, queue # <<>>, prom' = prom, queue' = Tail(queue)
    PROVE  /\ Now' = Dequeue(Now) /\ Now.queue # <<>> /\ Head(Now.queue) = Task
           /\ Task \in TaskT /\ TaskFits(Task, Now.prom, Len(coro), alls)
<1>1. Now' = Dequeue(Now) /\ Now.queue # <<>> /\ Head(Now.queue) = Task
  BY DEF Now, Dequeue, Task
<1>2. Holds(Now, Len(coro), alls)
  BY GoodNow, GoodParts
<1>3. Task \in TaskT
  BY <1>1, <1>2, DequeueStore DEF Holds
<1>4. TaskFits(Task, Now.prom, Len(coro), alls)
  BY <1>1, <1>2, DequeueFits DEF Holds
<1> QED BY <1>1, <1>3, <1>4

\* A queued coroutine is resumed.
LEMMA RunResumeKeeps ==
    ASSUME IInv, RunResume
    PROVE  Stepped
<1> DEFINE S == Now
           R == Dequeue(S)
           t == Task
           c == t.coro
           K2 == Append(stack, Frame("coro", c))
<1>1. /\ Good(S, coro, alls, stack, hosted) /\ calls \in 0..MaxCalls
  BY GoodNow
<1>2. /\ S \in Store /\ CorosFit(coro, Len(S.prom)) /\ Placed(S, coro, stack) /\ Len(S.prom) \in Nat
      /\ DOMAIN S.prom = 1..Len(S.prom) /\ FramesFit(stack, Len(S.prom), Len(coro))
      /\ hosted \subseteq DOMAIN S.prom /\ Len(coro) \in Nat /\ DOMAIN coro = 1..Len(coro)
      /\ DOMAIN alls = 1..Len(alls) /\ Holds(S, Len(coro), alls)
  BY <1>1, GoodParts
<1>3. /\ stack' = K2 /\ coro' = coro /\ alls' = alls /\ hosted' = hosted /\ calls' = calls
      /\ stack # <<>> /\ c # 0 /\ queue # <<>> /\ prom' = prom /\ queue' = Tail(queue)
  BY DEF RunResume, Draining, Push
<1>4. /\ Now' = R /\ S.queue # <<>> /\ Head(S.queue) = t
      /\ t \in TaskT /\ TaskFits(t, S.prom, Len(coro), alls)
  BY <1>3, TakenNow
<1> HIDE DEF S, t, R
<1>5. c \in 1..Len(coro) /\ t.then = PassOn(0)
  BY <1>3, <1>4 DEF TaskFits
<1>6. t.then.down = 0 /\ t.then.slot = NoSlot
  BY <1>5 DEF PassOn, Reaction
<1>7. Taken(S, R, t, Len(coro), alls)
  <2>1. \A x \in DOMAIN S.prom : t.then # PassOn(x)
    BY <1>2, <1>6 DEF PassOn, Reaction
  <2> QED BY <1>2, <1>4, <2>1, TakeTask DEF R
<1>8. /\ Holds(R, Len(coro), alls) /\ SettlesNone(S, R) /\ Kept(S, R)
      /\ \A U : Owed(R, U) = Owed(S, U) - Flag(t.then \in U)
      /\ \A d : Waits(R, d) = Waits(S, d) - Flag(t.coro = d)
  BY <1>7 DEF Taken
<1>9. (\A U : Owed(S, U) \in Nat) /\ (\A d : Waits(S, d) \in Nat)
  BY <1>2, OwedNat
<1>10. FramesFit(K2, Len(S.prom), Len(coro)) /\ Undriven(K2, stack, c)
  BY <1>2, <1>3, <1>5, PushCoro
<1> HIDE DEF K2
<1>11. K2 \in Seq(FrameT) /\ stack \in Seq(FrameT) /\ coro \in Seq(CoroT)
  BY <1>2, <1>10 DEF FramesFit, CorosFit
<1>12. \A g : CountIn(K2, g) \in Nat /\ CountIn(stack, g) \in Nat
  BY <1>11, CountNat
<1>13. ASSUME NEW U, t.then \notin U PROVE Owed(R, U) = Owed(S, U)
  BY <1>8, <1>9, <1>13 DEF Flag
<1>14. SlotsSame(S, R, alls)
  <2>1. ASSUME NEW a \in DOMAIN alls, NEW i \in 1..AllSize PROVE t.then \notin SlotOf(a, i)
    BY <1>2, <1>6 DEF SlotOf, NoSlot
  <2> QED BY <1>13, <2>1 DEF SlotsSame
<1>15. HandsSame(S, coro, stack, hosted, R, coro, K2, hosted)
  <2>1. ASSUME NEW x \in DOMAIN S.prom
        PROVE  Owed(R, Down(x)) = Owed(S, Down(x)) /\ Hands(coro, K2, hosted, x) = Hands(coro, stack, hosted, x)
    <3>1. t.then \notin Down(x)
      BY <1>2, <1>6 DEF Down
    <3>2. CountIn(K2, {Frame("react", x)}) = CountIn(stack, {Frame("react", x)})
      BY <1>10 DEF Undriven
    <3> QED BY <1>13, <3>1, <3>2 DEF Hands
  <2> QED BY <2>1 DEF HandsSame
<1>16. Placed(R, coro, K2)
  <2>1. ASSUME NEW d \in DOMAIN coro
        PROVE  CountIn(K2, {Frame("coro", d)}) + Waits(R, d) = CountIn(stack, {Frame("coro", d)}) + Waits(S, d)
    <3>1. CASE d = c
      <4>1. Waits(R, d) = Waits(S, d) - 1
        BY <1>8, <3>1 DEF Flag
      <4>2. CountIn(stack, {Frame("coro", d)}) = CountIn(K2, {Frame("coro", d)}) - 1
        BY <1>10, <3>1 DEF Undriven
      <4> QED BY <1>9, <1>12, <4>1, <4>2
    <3>2. CASE d # c
      <4>1. Waits(R, d) = Waits(S, d) - 0
        BY <1>8, <3>2 DEF Flag
      <4>2. CountIn(stack, {Frame("coro", d)}) = CountIn(K2, {Frame("coro", d)})
        BY <1>10, <3>2 DEF Undriven
      <4> QED BY <1>9, <1>12, <4>1, <4>2
    <3> QED BY <3>1, <3>2
  <2> QED BY <1>2, <2>1 DEF Placed
<1>17. Good(R, coro, alls, K2, hosted)
  BY <1>1, <1>2, <1>8, <1>10, <1>14, <1>15, <1>16, StepKeeps
<1> QED BY <1>1, <1>3, <1>4, <1>8, <1>17 DEF IInv, Stepped, S

\* A then or catch handler is called.
LEMMA RunHandlerKeeps ==
    ASSUME IInv, RunHandler
    PROVE  Stepped
<1> DEFINE S == Now
           R == Dequeue(S)
           t == Task
           p == t.then.down
           K2 == Append(stack, Frame("react", p))
<1>1. /\ Good(S, coro, alls, stack, hosted) /\ calls \in 0..MaxCalls
  BY GoodNow
<1>2. /\ S \in Store /\ CorosFit(coro, Len(S.prom)) /\ Placed(S, coro, stack) /\ Len(S.prom) \in Nat
      /\ DOMAIN S.prom = 1..Len(S.prom) /\ FramesFit(stack, Len(S.prom), Len(coro))
      /\ hosted \subseteq DOMAIN S.prom /\ Len(coro) \in Nat /\ DOMAIN coro = 1..Len(coro)
      /\ DOMAIN alls = 1..Len(alls) /\ Holds(S, Len(coro), alls)
  BY <1>1, GoodParts
<1>3. /\ stack' = K2 /\ coro' = coro /\ alls' = alls /\ hosted' = hosted /\ calls' = calls
      /\ stack # <<>> /\ t.coro = 0 /\ queue # <<>> /\ prom' = prom /\ queue' = Tail(queue)
      /\ t.then.slot = NoSlot /\ t.then.handles # {}
  BY DEF RunHandler, Reacting, Draining, Push, IsSlot, Handled
<1>4. /\ Now' = R /\ S.queue # <<>> /\ Head(S.queue) = t
      /\ t \in TaskT /\ TaskFits(t, S.prom, Len(coro), alls)
  BY <1>3, TakenNow
<1> HIDE DEF S, t, R
<1>5. p \in 1..Len(S.prom) /\ t.then \in ReactionType
  <2>1. ReactionFits(t.of, t.then, Len(S.prom), alls)
    BY <1>2, <1>3, <1>4 DEF TaskFits
  <2> QED BY <1>2, <1>3, <1>4, <2>1 DEF ReactionFits, NoSlot, TaskT
<1>6. Taken(S, R, t, Len(coro), alls)
  <2>1. \A x \in DOMAIN S.prom : t.then # PassOn(x)
    BY <1>3 DEF PassOn, Reaction
  <2> QED BY <1>2, <1>4, <2>1, TakeTask DEF R
<1>7. /\ Holds(R, Len(coro), alls) /\ SettlesNone(S, R) /\ Kept(S, R)
      /\ \A U : Owed(R, U) = Owed(S, U) - Flag(t.then \in U)
      /\ \A d : Waits(R, d) = Waits(S, d) - Flag(t.coro = d)
  BY <1>6 DEF Taken
<1>8. (\A U : Owed(S, U) \in Nat) /\ (\A d : Waits(S, d) \in Nat)
  BY <1>2, OwedNat
<1>9. Frame("react", p) \in FrameT /\ Frame("react", p).kind = "react" /\ Frame("react", p).id = p
  BY <1>5 DEF Frame, FrameT
<1>10. FramesFit(K2, Len(S.prom), Len(coro))
  <2> DEFINE f == Frame("react", p)
  <2>1. f \in FrameT /\ f.kind = "react" /\ f.id \in 1..Len(S.prom)
    BY <1>5, <1>9
  <2> HIDE DEF f
  <2>2. FramesFit(Append(stack, f), Len(S.prom), Len(coro))
    BY <1>2, <2>1, PushFrame
  <2> QED BY <2>2 DEF f
<1>11. stack \in Seq(FrameT) /\ coro \in Seq(CoroT)
  BY <1>2 DEF FramesFit, CorosFit
<1>12. ASSUME NEW kind, NEW x
       PROVE  CountIn(K2, {Frame(kind, x)}) = IF "react" = kind /\ p = x THEN CountIn(stack, {Frame(kind, x)}) + 1
                                              ELSE CountIn(stack, {Frame(kind, x)})
  BY <1>9, <1>11, PushCounts
<1> HIDE DEF K2
<1>13. ASSUME NEW x PROVE CountIn(K2, {Frame("coro", x)}) = CountIn(stack, {Frame("coro", x)})
  BY <1>12
<1>14. ASSUME NEW x \in DOMAIN S.prom
       PROVE  Hands(coro, K2, hosted, x) + Owed(R, Down(x)) = Hands(coro, stack, hosted, x) + Owed(S, Down(x))
  <2>1. t.then \in Down(x) <=> p = x
    BY <1>5 DEF Down
  <2>2. CountIn(coro, Owers(x)) \in Nat /\ CountIn(stack, {Frame("react", x)}) \in Nat /\ Owed(S, Down(x)) \in Nat
        /\ Flag(x \in hosted) \in Nat
    BY <1>8, <1>11, CountNat DEF Flag
  <2>3. CASE p = x
    <3>1. Owed(R, Down(x)) = Owed(S, Down(x)) - 1
      BY <1>7, <2>1, <2>3 DEF Flag
    <3>2. CountIn(K2, {Frame("react", x)}) = CountIn(stack, {Frame("react", x)}) + 1
      BY <1>12, <2>3
    <3> QED BY <2>2, <3>1, <3>2 DEF Hands
  <2>4. CASE p # x
    <3>1. Owed(R, Down(x)) = Owed(S, Down(x)) - 0
      BY <1>7, <2>1, <2>4 DEF Flag
    <3>2. CountIn(K2, {Frame("react", x)}) = CountIn(stack, {Frame("react", x)})
      BY <1>12, <2>4
    <3> QED BY <2>2, <3>1, <3>2 DEF Hands
  <2> QED BY <2>3, <2>4
<1>15. HandsSame(S, coro, stack, hosted, R, coro, K2, hosted)
  BY <1>14 DEF HandsSame
<1>16. SlotsSame(S, R, alls)
  <2>1. ASSUME NEW a \in DOMAIN alls, NEW i \in 1..AllSize PROVE t.then \notin SlotOf(a, i)
    BY <1>2, <1>3 DEF SlotOf, NoSlot
  <2>2. ASSUME NEW U, t.then \notin U PROVE Owed(R, U) = Owed(S, U)
    BY <1>7, <1>8, <2>2 DEF Flag
  <2> QED BY <2>1, <2>2 DEF SlotsSame
<1>17. Placed(R, coro, K2)
  <2>1. ASSUME NEW d \in DOMAIN coro PROVE Waits(R, d) = Waits(S, d)
    <3>1. d # 0
      BY <1>2
    <3>2. Waits(R, d) = Waits(S, d) - 0
      BY <1>3, <1>7, <3>1 DEF Flag
    <3> QED BY <1>8, <3>2
  <2> QED BY <1>2, <1>13, <2>1 DEF Placed
<1>18. Good(R, coro, alls, K2, hosted)
  BY <1>1, <1>2, <1>7, <1>10, <1>15, <1>16, <1>17, StepKeeps
<1> QED BY <1>1, <1>3, <1>4, <1>7, <1>18 DEF IInv, Stepped, S

\* The first task is taken off the queue and nothing but p settled with it.
Delivered(S, R, t, p, nc, A) ==
    /\ Holds(R, nc, A) /\ R \in Store /\ Len(R.prom) = Len(S.prom) /\ DOMAIN R.prom = DOMAIN S.prom
    /\ Kept(S, R)
    /\ \A x \in DOMAIN S.prom \ {p} : Open(R, x) <=> Open(S, x)
    /\ \A U \in Proper : Owed(R, U) = Owed(S, U) - Flag(t.then \in U)
    /\ \A c \in Crew : Waits(R, c) = Waits(S, c) - Flag(t.coro = c)

\* A task that settles p, if that is still pending (settle, lib.rs).
LEMMA TaskDelivers ==
    ASSUME NEW S, NEW nc, NEW A, Holds(S, nc, A), S.queue # <<>>, NEW p \in DOMAIN S.prom,
           NEW o, IsOutcome(o), Open(S, p) => Due(S, p, o),
           Open(S, p) \/ Head(S.queue).then # PassOn(p),
           \A x \in DOMAIN S.prom \ {p} : Head(S.queue).then # PassOn(x)
    PROVE  LET R == Settle(Dequeue(S), p, o)
           IN  Delivered(S, R, Head(S.queue), p, nc, A) /\ ~Open(R, p)
               /\ (Open(S, p) => R.prom[p] = SettledAs(S.prom[p], o))
               /\ (~Open(S, p) => R.prom[p] = S.prom[p])
<1> DEFINE D == Dequeue(S)
           R == Settle(D, p, o)
           t == Head(S.queue)
<1>1. /\ S \in Store /\ Len(S.prom) <= MaxProm
      /\ Fits(S, nc, A) /\ \A x \in DOMAIN S.prom : Adopted(S, x)
  BY DEF Holds
<1>2. /\ D \in Store /\ D.prom = S.prom /\ t \in TaskT
      /\ \A U : Owed(D, U) = Owed(S, U) - Flag(t.then \in U)
      /\ \A c : Waits(D, c) = Waits(S, c) - Flag(t.coro = c)
  BY <1>1, DequeueStore
<1>3. /\ Fits(D, nc, A) /\ Kept(S, D)
      /\ \A x \in DOMAIN S.prom : t.then # PassOn(x) /\ Adopted(S, x) => Adopted(D, x)
  BY <1>1, DequeueFits
<1>4. (\A U : Owed(S, U) \in Nat) /\ (\A c : Waits(S, c) \in Nat)
  BY <1>1, OwedNat
<1>5. \A x \in DOMAIN S.prom : Open(D, x) <=> Open(S, x)
  BY <1>2 DEF Open
<1>6. \A x \in DOMAIN S.prom \ {p} : Adopted(D, x)
  BY <1>1, <1>3
<1> HIDE DEF D, t
<1>7. CASE Open(S, p)
  <2>1. Due(D, p, o)
    BY <1>2, <1>7 DEF Due, Open
  <2>2. HandsOver(D, R, p, nc, A) /\ ~Open(R, p)
    BY <1>1, <1>2, <1>3, <1>5, <1>6, <1>7, <2>1, SettleHands
  <2>3. R.prom[p] = SettledAs(S.prom[p], o)
    <3>1. p \in DOMAIN D.prom /\ Len(D.prom) <= MaxProm /\ Open(D, p)
      BY <1>1, <1>2, <1>5, <1>7
    <3>2. R.prom[p] = SettledAs(D.prom[p], o)
      BY <3>1 DEF Settle, Open
    <3> HIDE DEF R
    <3> QED BY <1>2, <3>2
  <2> HIDE DEF R
  <2>4. /\ R \in Store /\ Len(R.prom) = Len(D.prom) /\ Fits(R, nc, A) /\ Kept(D, R)
        /\ \A x \in DOMAIN D.prom : Adopted(R, x)
        /\ \A x \in DOMAIN D.prom \ {p} : Open(R, x) <=> Open(D, x)
        /\ \A U \in Proper : Owed(R, U) = Owed(D, U) + Flag(PassOn(p) \in U /\ Open(R, p))
        /\ \A c \in Crew : Waits(R, c) = Waits(D, c)
    BY <2>2 DEF HandsOver
  <2>5. DOMAIN R.prom = DOMAIN S.prom /\ Len(R.prom) = Len(S.prom)
    BY <1>1, <1>2, <2>4, StoreParts
  <2>6. Kept(S, R)
    BY <1>1, <1>2, <1>3, <2>4, KeptTrans
  <2>7. Holds(R, nc, A)
    BY <1>1, <1>2, <2>4, <2>5 DEF Holds
  <2>8. ASSUME NEW U \in Proper PROVE Owed(R, U) = Owed(S, U) - Flag(t.then \in U)
    <3>1. Owed(R, U) = Owed(D, U) + 0
      BY <2>2, <2>4 DEF Flag
    <3> QED BY <1>2, <1>4, <3>1 DEF Flag
  <2>9. \A c \in Crew : Waits(R, c) = Waits(S, c) - Flag(t.coro = c)
    BY <1>2, <2>4
  <2>10. Delivered(S, R, t, p, nc, A)
    BY <1>2, <1>5, <2>4, <2>5, <2>6, <2>7, <2>8, <2>9 DEF Delivered
  <2> QED BY <1>7, <2>2, <2>3, <2>10 DEF R, D, t
<1>8. CASE ~Open(S, p)
  <2>1. R = D
    BY <1>2, <1>8 DEF Settle, Open
  <2>2. Adopted(D, p)
    BY <1>1, <1>3, <1>8 DEF t
  <2>3. Holds(D, nc, A)
    BY <1>1, <1>2, <1>3, <1>6, <2>2 DEF Holds
  <2>4. Delivered(S, D, t, p, nc, A)
    BY <1>2, <1>3, <1>5, <2>3 DEF Delivered
  <2> HIDE DEF R
  <2>5. Delivered(S, R, t, p, nc, A) /\ ~Open(R, p) /\ R.prom[p] = S.prom[p]
    BY <1>2, <1>8, <2>1, <2>4 DEF Open
  <2> QED BY <1>8, <2>5 DEF R, D, t
<1> QED BY <1>7, <1>8

\* The first task in the queue is the only settler its promise has, and when it
\* ends an adoption it brings the outcome of the promise that was adopted.
LEMMA TaskSettler ==
    ASSUME NEW S, NEW C, NEW A, NEW K, NEW H, Good(S, C, A, K, H), S.queue # <<>>,
           NEW p \in DOMAIN S.prom, Head(S.queue).then.down = p
    PROVE  /\ Open(S, p) /\ Hands(C, K, H, p) = 0 /\ Owed(S, Down(p)) = 1
           /\ \A a \in DOMAIN A : A[a].out # p
           /\ Due(S, p, Head(S.queue))
<1> DEFINE t == Head(S.queue)
<1>1. /\ S \in Store /\ DOMAIN S.prom = 1..Len(S.prom) /\ Len(S.prom) \in Nat /\ Len(S.prom) <= MaxProm
      /\ C \in Seq(CoroT) /\ A \in Seq(AllT) /\ K \in Seq(FrameT)
      /\ Settled(S, C, A, K, H) /\ Fits(S, Len(C), A) /\ Adopted(S, p)
  BY GoodParts
<1>2. /\ 1 \in DOMAIN S.queue /\ t = S.queue[1] /\ t \in TaskT /\ TaskFits(t, S.prom, Len(C), A)
  <2>1. S.queue \in Seq(TaskT)
    BY <1>1, StoreParts
  <2>2. 1 \in DOMAIN S.queue /\ t = S.queue[1]
    BY <2>1
  <2> QED BY <1>1, <2>1, <2>2 DEF Fits
<1>3. t.then \in Down(p)
  BY <1>2 DEF Down, TaskT
<1>4. Hands(C, K, H, p) \in Nat /\ Owed(S, Down(p)) \in Nat /\ CountIn(A, Outs(p)) \in Nat
  BY <1>1, HandsNat, OwedNat
<1>5. Owed(S, Down(p)) # 0
  BY <1>1, <1>2, <1>3, OwedSome
<1>6. SettledAt(S, C, A, K, H, p)
  BY <1>1 DEF Settled
<1>7. Open(S, p) /\ Hands(C, K, H, p) = 0 /\ Owed(S, Down(p)) = 1 /\ CountIn(A, Outs(p)) = 0
  BY <1>4, <1>5, <1>6 DEF SettledAt, Flag
<1>8. \A a \in DOMAIN A : A[a].out # p
  <2>1. \A a \in DOMAIN A : A[a] \notin Outs(p)
    BY <1>1, <1>7, CountFew
  <2> QED BY <1>1, <2>1 DEF Outs
<1>9. Due(S, p, t)
  <2> DEFINE q == S.prom[p].from
  <2>1. CASE q = 0
    BY <2>1 DEF Due
  <2>2. CASE q # 0
    <3>1. Linked(S, p, q)
      BY <1>1, <1>7, <2>2 DEF Adopted
    <3>2. q \in DOMAIN S.prom
      BY <1>1, <2>2 DEF Fits, PromiseFits
    <3>3. PassOn(p) \in Down(p)
      BY <1>1, PassOnLeads
    <3>4. \A i \in DOMAIN S.prom[q].reactions : S.prom[q].reactions[i] # PassOn(p)
      BY <1>1, <1>2, <1>3, <1>7, <3>2, <3>3, OwedSome
    <3>5. \E k \in DOMAIN S.queue : PassesOn(S.queue[k], q, p)
      BY <3>1, <3>4 DEF Linked
    <3>6. PICK k \in DOMAIN S.queue : PassesOn(S.queue[k], q, p)
      BY <3>5
    <3>7. S.queue[k].then \in Down(p)
      BY <3>3, <3>6 DEF PassesOn
    <3>8. k = 1
      BY <1>1, <1>2, <1>3, <1>7, <3>7, OwedSome
    <3>9. t.of = q
      BY <1>2, <3>6, <3>8 DEF PassesOn
    <3>10. t.status = S.prom[q].status /\ t.value = S.prom[q].value /\ t.status # "pending"
      BY <1>2, <3>9 DEF TaskFits, TaskT
    <3> HIDE DEF t
    <3> QED BY <3>10 DEF Due, Open
  <2> QED BY <2>1, <2>2
<1> QED BY <1>7, <1>8, <1>9

\* A reaction with no handler for the outcome passes it on.
LEMMA PassOutcomeOnKeeps ==
    ASSUME IInv, PassOutcomeOn
    PROVE  Stepped
<1> DEFINE S == Now
           t == Task
           p == t.then.down
           R == Settle(Dequeue(S), p, t)
<1>1. /\ Good(S, coro, alls, stack, hosted) /\ calls \in 0..MaxCalls
  BY GoodNow
<1>2. /\ S \in Store /\ CorosFit(coro, Len(S.prom)) /\ Placed(S, coro, stack) /\ Len(S.prom) \in Nat
      /\ DOMAIN S.prom = 1..Len(S.prom) /\ FramesFit(stack, Len(S.prom), Len(coro))
      /\ hosted \subseteq DOMAIN S.prom /\ Len(coro) \in Nat /\ DOMAIN coro = 1..Len(coro)
      /\ Len(coro) <= MaxCoro /\ Settled(S, coro, alls, stack, hosted) /\ AllsFit(alls, Len(S.prom))
      /\ DOMAIN alls = 1..Len(alls) /\ Holds(S, Len(coro), alls)
  BY <1>1, GoodParts
<1>3. /\ stack' = stack /\ coro' = coro /\ alls' = alls /\ hosted' = hosted /\ calls' = calls
      /\ t.coro = 0 /\ t.then.slot = NoSlot /\ S.queue # <<>> /\ Head(S.queue) = t
      /\ Become(R)
  BY DEF PassOutcomeOn, Reacting, IsSlot, Now, Task, Rest, Dequeue
<1> HIDE DEF S, t
<1>4. t \in TaskT /\ TaskFits(t, S.prom, Len(coro), alls)
  BY <1>2, <1>3, DequeueStore, DequeueFits DEF Holds
<1>5. p \in 1..Len(S.prom) /\ t.then \in ReactionType
  <2>1. ReactionFits(t.of, t.then, Len(S.prom), alls)
    BY <1>2, <1>3, <1>4 DEF TaskFits
  <2> QED BY <1>2, <1>3, <1>4, <2>1 DEF ReactionFits, NoSlot, TaskT
<1>6. /\ Open(S, p) /\ Hands(coro, stack, hosted, p) = 0 /\ Owed(S, Down(p)) = 1
      /\ \A a \in DOMAIN alls : alls[a].out # p
      /\ Due(S, p, t)
  <2>1. p \in DOMAIN S.prom
    BY <1>2, <1>5
  <2> QED BY <1>1, <1>3, <2>1, TaskSettler
<1>7. IsOutcome(t)
  BY <1>4 DEF IsOutcome, TaskT
<1>8. Delivered(S, R, t, p, Len(coro), alls) /\ ~Open(R, p)
  <2>1. \A x \in DOMAIN S.prom \ {p} : t.then # PassOn(x)
    BY DEF PassOn, Reaction
  <2>2. p \in DOMAIN S.prom
    BY <1>2, <1>5
  <2> HIDE DEF p
  <2> QED BY <1>2, <1>3, <1>6, <1>7, <2>1, <2>2, TaskDelivers
<1> HIDE DEF R
<1>9. /\ Holds(R, Len(coro), alls) /\ R \in Store /\ Len(R.prom) = Len(S.prom) /\ DOMAIN R.prom = DOMAIN S.prom
      /\ Kept(S, R)
      /\ \A x \in DOMAIN S.prom \ {p} : Open(R, x) <=> Open(S, x)
      /\ \A U \in Proper : Owed(R, U) = Owed(S, U) - Flag(t.then \in U)
      /\ \A c \in Crew : Waits(R, c) = Waits(S, c) - Flag(t.coro = c)
  BY <1>8 DEF Delivered
<1>10. (\A U : Owed(S, U) \in Nat) /\ (\A d : Waits(S, d) \in Nat)
  BY <1>2, OwedNat
<1>11. /\ \A a \in DOMAIN alls : \A i : SlotOf(a, i) \in Proper
       /\ \A x \in DOMAIN S.prom : Down(x) \in Proper
  BY <1>1, ProperSlots
<1>12. AllsExact(R, alls)
  <2>1. ASSUME NEW a \in DOMAIN alls, NEW i \in 1..AllSize
        PROVE  Owed(R, SlotOf(a, i)) = Owed(S, SlotOf(a, i))
    <3>1. t.then \notin SlotOf(a, i)
      BY <1>2, <1>3 DEF SlotOf, NoSlot
    <3>2. Owed(R, SlotOf(a, i)) = Owed(S, SlotOf(a, i)) - 0
      BY <1>9, <1>11, <3>1 DEF Flag
    <3> QED BY <1>10, <3>2
  <2>2. \A a \in DOMAIN alls : Open(S, alls[a].out) => Open(R, alls[a].out)
    BY <1>2, <1>6, <1>9 DEF AllsFit, AllFits
  <2> QED BY <1>1, <1>9, <2>1, <2>2, ExactsKept
<1>13. Placed(R, coro, stack)
  <2>1. ASSUME NEW d \in DOMAIN coro PROVE Waits(R, d) = Waits(S, d)
    <3>1. d # 0 /\ d \in Crew
      BY <1>2, BoundsAssumption DEF Crew
    <3>2. Waits(R, d) = Waits(S, d) - 0
      BY <1>3, <1>9, <3>1 DEF Flag
    <3> QED BY <1>10, <3>2
  <2> QED BY <1>2, <2>1 DEF Placed
<1>14. ASSUME NEW x \in DOMAIN S.prom PROVE SettledAt(R, coro, alls, stack, hosted, x)
  <2>1. t.then \in Down(x) <=> x = p
    BY <1>5 DEF Down
  <2>2. CASE x = p
    <3>1. Owed(R, Down(x)) = 1 - 1
      BY <1>6, <1>9, <1>11, <2>1, <2>2 DEF Flag
    <3> QED BY <1>6, <1>8, <2>2, <3>1, BalanceSettled
  <2>3. CASE x # p
    <3>1. Owed(R, Down(x)) = Owed(S, Down(x)) - 0
      BY <1>9, <1>11, <2>1, <2>3 DEF Flag
    <3>2. Owed(R, Down(x)) = Owed(S, Down(x)) /\ Open(R, x) <=> Open(S, x)
      BY <1>9, <1>10, <2>3, <3>1
    <3>3. SettledAt(S, coro, alls, stack, hosted, x)
      BY <1>2 DEF Settled
    <3> QED BY <3>1, <3>2, <3>3, <1>10, BalanceKept
  <2> QED BY <2>2, <2>3
<1>15. Shaped(R, coro, alls, stack, hosted)
  BY <1>2, <1>9 DEF Shaped
<1>16. Good(R, coro, alls, stack, hosted)
  BY <1>9, <1>12, <1>13, <1>14, <1>15 DEF Good, Settled
<1>17. Now' = R
  BY <1>3, <1>9, BecomeStore
<1> QED BY <1>1, <1>3, <1>9, <1>16, <1>17 DEF IInv, Stepped, S

\* What the reaction of one slot of Promise.all does to its call (AllSlot,
\* lib.rs): x is the call before, y after, i the slot.
Answer(S, R, x, y, i) ==
    LET item == S.prom[x.items[i]]
    IN  /\ y.items = x.items /\ y.out = x.out
        /\ IF item.status = "rejected"
           THEN /\ y.results = x.results /\ y.remaining = x.remaining
                /\ Open(S, x.out) => R.prom[x.out].status = "rejected" /\ R.prom[x.out].value = item.value
           ELSE /\ y.results = [x.results EXCEPT ![i] = item.value] /\ y.remaining = x.remaining - 1
                /\ y.remaining = 0 /\ Open(S, x.out) => R.prom[x.out].status = "fulfilled"
                /\ y.remaining # 0 => R.prom[x.out] = S.prom[x.out]

\* One slot of a call of Promise.all is answered, and its count is exact again.
LEMMA SlotAnswered ==
    ASSUME NEW S \in Store, NEW R \in Store, Kept(S, R), NEW x \in AllT, NEW y, NEW a,
           AllFits(x, Len(S.prom)), Exact(S, x, a), NEW i \in 1..AllSize,
           Owed(S, SlotOf(a, i)) # 0, ~Open(S, x.items[i]),
           \A j \in 1..AllSize : Owed(R, SlotOf(a, j)) = IF j = i THEN 0 ELSE Owed(S, SlotOf(a, j)),
           Answer(S, R, x, y, i)
    PROVE  Exact(R, y, a)
<1> DEFINE over == Over(S, a)
           failed == Failed(S, x, a)
           over2 == Over(R, a)
           failed2 == Failed(R, y, a)
           ok == over \ failed
           ok2 == over2 \ failed2
           item == S.prom[x.items[i]]
           out == S.prom[x.out]
           all == 1..AllSize
<1>1. /\ \A j \in all : Owed(S, SlotOf(a, j)) \in {0, 1}
      /\ \A j \in over : ~Open(S, x.items[j])
      /\ x.remaining = AllSize - Cardinality(ok)
      /\ \A j \in all : x.results[j] = IF j \in ok THEN S.prom[x.items[j]].value ELSE Null
      /\ out.status = IF failed # {} THEN "rejected"
                      ELSE IF over = all THEN "fulfilled" ELSE "pending"
      /\ failed # {} => \E j \in failed : out.value = S.prom[x.items[j]].value
  BY DEF Exact
<1>2. y.items = x.items /\ y.out = x.out
  BY DEF Answer
<1>3. DOMAIN S.prom = 1..Len(S.prom) /\ x.out \in DOMAIN S.prom /\ \A j \in all : x.items[j] \in DOMAIN S.prom
  BY StoreParts DEF AllFits
<1>4. over2 = over \cup {i} /\ i \notin over /\ over \subseteq all /\ over2 \subseteq all
  BY DEF Over
<1>5. \A j \in over2 : ~Open(S, x.items[j]) /\ R.prom[x.items[j]] = S.prom[x.items[j]]
  BY <1>1, <1>3, <1>4 DEF Kept
<1>6. failed2 = {j \in over2 : S.prom[x.items[j]].status = "rejected"}
  BY <1>2, <1>5 DEF Failed
<1>7. failed = {j \in over : S.prom[x.items[j]].status = "rejected"}
  BY DEF Failed
<1>8. IsFiniteSet(all) /\ Cardinality(all) = AllSize /\ AllSize \in Nat
  <2>1. 1 \in Int /\ AllSize \in Int /\ AllSize \in Nat /\ ~(1 > AllSize)
    BY AllSizeAssumption
  <2>2. IsFiniteSet(all) /\ Cardinality(all) = IF 1 > AllSize THEN 0 ELSE AllSize - 1 + 1
    BY <2>1, FS_Interval
  <2> QED BY <2>1, <2>2
<1>9. IsFiniteSet(ok) /\ Cardinality(ok) \in Nat /\ ok \subseteq all
  BY <1>4, <1>8, FS_Subset, FS_CardinalityType
<1>10. /\ \A j \in all : Owed(R, SlotOf(a, j)) \in {0, 1}
  BY <1>1
<1>11. \A j \in over2 : ~Open(R, y.items[j])
  BY <1>2, <1>5 DEF Open
<1>12. out.status # "pending" => R.prom[x.out] = out
  BY <1>3 DEF Kept, Open
<1>13. out.status = "pending" <=> Open(S, x.out)
  BY DEF Open
<1>14. over # all /\ x.results \in [all -> Ids]
  BY <1>4 DEF AllT
<1>15. CASE item.status = "rejected"
  <2>1. failed2 = failed \cup {i} /\ ok2 = ok
    BY <1>4, <1>6, <1>7, <1>15
  <2>2. /\ y.results = x.results /\ y.remaining = x.remaining
        /\ Open(S, x.out) => R.prom[x.out].status = "rejected" /\ R.prom[x.out].value = item.value
    BY <1>15 DEF Answer
  <2> HIDE DEF over, failed, over2, failed2, ok, ok2, out
  <2>3. y.remaining = AllSize - Cardinality(ok2)
    BY <1>1, <2>1, <2>2
  <2>4. \A j \in all : y.results[j] = IF j \in ok2 THEN R.prom[y.items[j]].value ELSE Null
    <3>1. \A j \in ok2 : j \in over2
      BY DEF ok2
    <3> QED BY <1>1, <1>2, <1>5, <2>1, <2>2, <3>1
  <2>5. R.prom[x.out].status = "rejected"
    BY <1>1, <1>12, <1>13, <1>14, <2>2
  <2>6. \E j \in failed2 : R.prom[x.out].value = R.prom[y.items[j]].value
    <3>1. \A j \in failed2 : j \in over2
      BY DEF failed2, Failed, over2
    <3>2. CASE Open(S, x.out)
      <4>1. i \in failed2 /\ R.prom[x.out].value = item.value
        BY <2>1, <2>2, <3>2
      <4> QED BY <1>2, <1>5, <3>1, <4>1
    <3>3. CASE ~Open(S, x.out)
      <4>1. R.prom[x.out] = out /\ failed # {}
        BY <1>1, <1>12, <1>13, <1>14, <3>3
      <4>2. PICK j \in failed : out.value = S.prom[x.items[j]].value
        BY <1>1, <4>1
      <4> QED BY <1>2, <1>5, <2>1, <3>1, <4>1, <4>2
    <3> QED BY <3>2, <3>3
  <2>7. failed2 # {}
    BY <2>1
  <2> QED BY <1>2, <1>10, <1>11, <2>3, <2>4, <2>5, <2>6, <2>7 DEF Exact, over2, failed2, ok2
<1>16. CASE item.status # "rejected"
  <2>1. failed2 = failed /\ ok2 = ok \cup {i} /\ i \notin ok
    BY <1>4, <1>6, <1>7, <1>16
  <2>2. /\ y.results = [x.results EXCEPT ![i] = item.value] /\ y.remaining = x.remaining - 1
        /\ y.remaining = 0 /\ Open(S, x.out) => R.prom[x.out].status = "fulfilled"
        /\ y.remaining # 0 => R.prom[x.out] = S.prom[x.out]
    BY <1>16 DEF Answer
  <2>3. Cardinality(ok2) = Cardinality(ok) + 1
    BY <1>9, <2>1, FS_AddElement
  <2>4. y.remaining = AllSize - Cardinality(ok2)
    BY <1>1, <1>8, <1>9, <2>2, <2>3
  <2>5. ok2 \subseteq all /\ (Cardinality(ok2) = AllSize => ok2 = all)
    <3>1. ok2 \subseteq all
      BY <1>4
    <3> QED BY <1>8, <3>1, FS_Subset
  <2>6. failed2 # {} => ok2 # all
    BY <1>6, <1>4
  <2>7. over2 = all /\ failed2 = {} => ok2 = all
    OBVIOUS
  <2> HIDE DEF ok, over, failed, ok2, over2, failed2, out
  <2>8. \A j \in all : y.results[j] = IF j \in ok2 THEN R.prom[y.items[j]].value ELSE Null
    <3>1. \A j \in ok2 : j \in over2
      BY DEF ok2
    <3>2. \A j \in all : y.results[j] = IF j = i THEN item.value ELSE x.results[j]
      BY <1>14, <2>2
    <3>3. ASSUME NEW j \in all PROVE y.results[j] = IF j \in ok2 THEN R.prom[y.items[j]].value ELSE Null
      <4>1. j \in ok2 => R.prom[y.items[j]].value = S.prom[x.items[j]].value
        BY <1>2, <1>5, <3>1
      <4>2. CASE j = i
        BY <2>1, <3>2, <4>1, <4>2
      <4>3. CASE j # i
        BY <1>1, <2>1, <3>2, <4>1, <4>3
      <4> QED BY <4>2, <4>3
    <3> QED BY <3>3
  <2>9. y.remaining = 0 <=> ok2 = all
    <3>1. Cardinality(ok2) \in Nat
      BY <1>9, <2>3
    <3> QED BY <1>8, <2>4, <2>5, <3>1
  <2>10. R.prom[x.out].status = IF failed2 # {} THEN "rejected"
                                ELSE IF over2 = all THEN "fulfilled" ELSE "pending"
    <3>1. CASE ok2 = all
      <4>1. failed2 = {} /\ over2 = all /\ y.remaining = 0
        BY <1>4, <2>6, <2>9, <3>1 DEF ok2
      <4>2. Open(S, x.out)
        BY <1>1, <1>13, <1>14, <2>1, <4>1
      <4> QED BY <2>2, <4>1, <4>2
    <3>2. CASE ok2 # all
      <4>1. R.prom[x.out] = out
        BY <2>2, <2>9, <3>2 DEF out
      <4>2. out.status = IF failed2 # {} THEN "rejected" ELSE "pending"
        BY <1>1, <1>14, <2>1
      <4> QED BY <2>7, <3>2, <4>1, <4>2
    <3> QED BY <3>1, <3>2
  <2>11. failed2 # {} => \E j \in failed2 : R.prom[x.out].value = R.prom[y.items[j]].value
    <3>1. SUFFICES ASSUME failed2 # {} PROVE \E j \in failed2 : R.prom[x.out].value = R.prom[y.items[j]].value
      OBVIOUS
    <3>2. R.prom[x.out] = out
      BY <2>2, <2>6, <2>9, <3>1 DEF out
    <3>3. PICK j \in failed : out.value = S.prom[x.items[j]].value
      BY <1>1, <2>1, <3>1
    <3>4. j \in over2
      BY <2>1, <3>3 DEF failed2, Failed, over2
    <3> QED BY <1>2, <1>5, <2>1, <3>2, <3>3, <3>4
  <2> QED BY <1>2, <1>10, <1>11, <2>4, <2>8, <2>10, <2>11 DEF Exact, over2, failed2, ok2
<1> QED BY <1>15, <1>16

\* Task t answers slot i of the call number a of Promise.all.
Asks(S, A, t, a, i) ==
    /\ t \in TaskT /\ t.then \in ReactionType /\ t.then.slot = <<a, i>> /\ t.then.down = 0 /\ t.coro = 0
    /\ a \in DOMAIN A /\ i \in 1..AllSize /\ t.then \in SlotOf(a, i)
    /\ A[a] \in AllT /\ AllFits(A[a], Len(S.prom)) /\ A[a].out \in DOMAIN S.prom
    /\ t.status = S.prom[A[a].items[i]].status /\ t.value = S.prom[A[a].items[i]].value
    /\ ~Open(S, A[a].items[i]) /\ Owed(S, SlotOf(a, i)) # 0 /\ IsOutcome(t)
    /\ \A x : t.then # PassOn(x)

\* The slot of the first task, and the call of Promise.all it belongs to.
LEMMA SlotOfTask ==
    ASSUME NEW S, NEW C, NEW A, NEW K, NEW H, Good(S, C, A, K, H), S.queue # <<>>,
           Head(S.queue).coro = 0, Head(S.queue).then.slot # NoSlot
    PROVE  LET t == Head(S.queue)
           IN  Asks(S, A, t, t.then.slot[1], t.then.slot[2])
<1> DEFINE t == Head(S.queue)
           a == t.then.slot[1]
           i == t.then.slot[2]
<1>1. /\ S \in Store /\ DOMAIN S.prom = 1..Len(S.prom) /\ Len(S.prom) \in Nat
      /\ A \in Seq(AllT) /\ Fits(S, Len(C), A) /\ AllsFit(A, Len(S.prom))
  BY GoodParts
<1>2. t \in TaskT /\ TaskFits(t, S.prom, Len(C), A)
  BY <1>1, DequeueStore, DequeueFits
<1>3. 1 \in DOMAIN S.queue /\ t = S.queue[1]
  <2>1. S.queue \in Seq(TaskT)
    BY <1>1, StoreParts
  <2> QED BY <2>1
<1>4. t.coro = 0 /\ t.then.slot # NoSlot
  OBVIOUS
<1> HIDE DEF t
<1>5. ReactionFits(t.of, t.then, Len(S.prom), A) /\ t.then \in ReactionType /\ IsOutcome(t)
  BY <1>2, <1>4 DEF TaskFits, TaskT, IsOutcome
<1>6. t.then.slot \in (DOMAIN A) \X (1..AllSize) /\ t.then.down = 0 /\ A[a].items[i] = t.of
  BY <1>4, <1>5 DEF ReactionFits
<1>7. t.then.slot = <<a, i>> /\ a \in DOMAIN A /\ i \in 1..AllSize
  BY <1>6
<1> HIDE DEF a, i
<1>8. t.then \in SlotOf(a, i)
  BY <1>5, <1>7 DEF SlotOf
<1>9. A[a] \in AllT /\ AllFits(A[a], Len(S.prom)) /\ A[a].out \in DOMAIN S.prom
  BY <1>1, <1>7 DEF AllsFit, AllFits
<1>10. t.status = S.prom[A[a].items[i]].status /\ t.value = S.prom[A[a].items[i]].value
       /\ ~Open(S, A[a].items[i])
  BY <1>2, <1>5, <1>6 DEF TaskFits, Open, IsOutcome
<1>11. Owed(S, SlotOf(a, i)) # 0
  BY <1>1, <1>3, <1>8, OwedSome
<1>12. \A x : t.then # PassOn(x)
  BY <1>4 DEF PassOn, Reaction
<1>13. Asks(S, A, t, a, i)
  BY <1>2, <1>4, <1>5, <1>6, <1>7, <1>8, <1>9, <1>10, <1>11, <1>12 DEF Asks
<1> QED BY <1>13 DEF t, a, i

\* Everything but the call of the slot goes on as before.
LEMMA SlotSteps ==
    ASSUME NEW S, NEW C, NEW A, NEW K, NEW H, Good(S, C, A, K, H),
           NEW t, NEW a, NEW i, Asks(S, A, t, a, i),
           NEW R, Delivered(S, R, t, A[a].out, Len(C), A),
           NEW y \in AllT, Answer(S, R, A[a], y, i)
    PROVE  Good(R, C, [A EXCEPT ![a] = y], K, H)
<1> DEFINE p == A[a].out
           A2 == [A EXCEPT ![a] = y]
<1>1. /\ S \in Store /\ CorosFit(C, Len(S.prom)) /\ Placed(S, C, K) /\ Len(S.prom) \in Nat
      /\ DOMAIN S.prom = 1..Len(S.prom) /\ FramesFit(K, Len(S.prom), Len(C))
      /\ H \subseteq DOMAIN S.prom /\ Len(C) \in Nat /\ DOMAIN C = 1..Len(C)
      /\ Len(C) <= MaxCoro /\ Settled(S, C, A, K, H) /\ AllsFit(A, Len(S.prom))
      /\ A \in Seq(AllT) /\ AllsExact(S, A) /\ Len(A) <= MaxAll
      /\ DOMAIN A = 1..Len(A) /\ Holds(S, Len(C), A)
  BY GoodParts
<1>2. /\ t \in TaskT /\ t.then \in ReactionType /\ t.then.slot = <<a, i>> /\ t.then.down = 0
      /\ a \in DOMAIN A /\ i \in 1..AllSize /\ t.then \in SlotOf(a, i)
      /\ A[a] \in AllT /\ AllFits(A[a], Len(S.prom)) /\ p \in DOMAIN S.prom
      /\ ~Open(S, A[a].items[i]) /\ Owed(S, SlotOf(a, i)) # 0 /\ t.coro = 0
  BY DEF Asks
<1>3. /\ Holds(R, Len(C), A) /\ R \in Store /\ Len(R.prom) = Len(S.prom) /\ DOMAIN R.prom = DOMAIN S.prom
      /\ Kept(S, R)
      /\ \A x \in DOMAIN S.prom \ {p} : Open(R, x) <=> Open(S, x)
      /\ \A U \in Proper : Owed(R, U) = Owed(S, U) - Flag(t.then \in U)
      /\ \A c \in Crew : Waits(R, c) = Waits(S, c) - Flag(t.coro = c)
  BY DEF Delivered
<1>4. (\A U : Owed(S, U) \in Nat) /\ (\A d : Waits(S, d) \in Nat)
  BY <1>1, OwedNat
<1>5. /\ \A b \in DOMAIN A : \A j : SlotOf(b, j) \in Proper
      /\ \A x \in DOMAIN S.prom : Down(x) \in Proper
  BY ProperSlots
<1>6. y.items = A[a].items /\ y.out = p
  BY DEF Answer
<1>7. DOMAIN A2 = DOMAIN A /\ Len(A2) = Len(A) /\ A2 \in Seq(AllT) /\ A2[a] = y
      /\ \A b \in DOMAIN A \ {a} : A2[b] = A[b]
  BY <1>1, <1>2
<1> HIDE DEF A2, p
<1>8. \A b \in DOMAIN A : A2[b].items = A[b].items /\ A2[b].out = A[b].out
  BY <1>6, <1>7 DEF p
<1>9. Holds(R, Len(C), A2)
  <2>1. Len(C) <= Len(C)
    BY <1>1
  <2> QED BY <1>1, <1>3, <1>7, <1>8, <2>1, HoldsMore
<1>10. AllsFit(A2, Len(R.prom))
  BY <1>1, <1>3, <1>7, <1>8 DEF AllsFit, AllFits
<1>11. ASSUME NEW b \in DOMAIN A, NEW j \in 1..AllSize
       PROVE  Owed(R, SlotOf(b, j)) = Owed(S, SlotOf(b, j)) - Flag(b = a /\ j = i)
  <2>1. t.then \in SlotOf(b, j) <=> b = a /\ j = i
    BY <1>2 DEF SlotOf
  <2>2. Owed(R, SlotOf(b, j)) = Owed(S, SlotOf(b, j)) - Flag(t.then \in SlotOf(b, j))
    BY <1>3, <1>5
  <2> QED BY <2>1, <2>2 DEF Flag
<1>12. Open(S, p) => \A b \in DOMAIN A : A[b].out = p => b = a
  BY <1>2, OutSettler DEF p
<1>13. AllsExact(R, A2)
  <2>1. Exact(R, y, a)
    <3>1. \A j \in 1..AllSize : Owed(S, SlotOf(a, j)) \in {0, 1}
      BY <1>1, <1>2 DEF AllsExact, Exact
    <3>2. ASSUME NEW j \in 1..AllSize
          PROVE  Owed(R, SlotOf(a, j)) = IF j = i THEN 0 ELSE Owed(S, SlotOf(a, j))
      <4>1. CASE j = i
        BY <1>2, <1>11, <3>1, <4>1 DEF Flag
      <4>2. CASE j # i
        <5>1. Owed(R, SlotOf(a, j)) = Owed(S, SlotOf(a, j)) - 0
          BY <1>2, <1>11, <4>2 DEF Flag
        <5> QED BY <1>4, <4>2, <5>1
      <4> QED BY <4>1, <4>2
    <3>3. Exact(S, A[a], a)
      BY <1>1, <1>2 DEF AllsExact
    <3> QED BY <1>1, <1>2, <1>3, <3>2, <3>3, SlotAnswered
  <2>2. ASSUME NEW b \in DOMAIN A2, b # a PROVE Exact(R, A2[b], b)
    <3>1. b \in DOMAIN A /\ A2[b] = A[b]
      BY <1>7, <2>2
    <3>2. ASSUME NEW j \in 1..AllSize PROVE Owed(R, SlotOf(b, j)) = Owed(S, SlotOf(b, j))
      <4>1. Owed(R, SlotOf(b, j)) = Owed(S, SlotOf(b, j)) - 0
        BY <1>11, <2>2, <3>1 DEF Flag
      <4> QED BY <1>4, <4>1
    <3>3. Open(S, A[b].out) => Open(R, A[b].out)
      <4>1. A[b].out \in DOMAIN S.prom
        BY <1>1, <3>1 DEF AllsFit, AllFits
      <4>2. Open(S, A[b].out) => A[b].out # p
        BY <1>12, <2>2, <3>1
      <4> QED BY <1>3, <4>1, <4>2
    <3>4. Exact(S, A[b], b) /\ AllFits(A[b], Len(S.prom))
      BY <1>1, <3>1 DEF AllsExact, AllsFit
    <3>5. Exact(R, A[b], b)
      BY <1>1, <1>3, <3>2, <3>3, <3>4, ExactKept
    <3> QED BY <3>1, <3>5
  <2> QED BY <1>7, <2>1, <2>2 DEF AllsExact
<1>14. Placed(R, C, K)
  <2>1. ASSUME NEW d \in DOMAIN C PROVE Waits(R, d) = Waits(S, d)
    <3>1. d # 0 /\ d \in Crew
      BY <1>1, BoundsAssumption DEF Crew
    <3>2. Waits(R, d) = Waits(S, d) - 0
      BY <1>2, <1>3, <3>1 DEF Flag
    <3> QED BY <1>4, <3>2
  <2> QED BY <1>1, <2>1 DEF Placed
<1>15. ASSUME NEW x \in DOMAIN S.prom PROVE SettledAt(R, C, A2, K, H, x)
  <2>1. Owed(R, Down(x)) = Owed(S, Down(x))
    <3>1. t.then \notin Down(x)
      BY <1>1, <1>2 DEF Down
    <3>2. Owed(R, Down(x)) = Owed(S, Down(x)) - 0
      BY <1>3, <1>5, <3>1 DEF Flag
    <3> QED BY <1>4, <3>2
  <2>2. CountIn(A2, Outs(x)) = CountIn(A, Outs(x))
    <3>1. \A b \in DOMAIN A2 : A2[b] \in Outs(x) <=> A[b] \in Outs(x)
      BY <1>1, <1>7, <1>8 DEF Outs
    <3> QED BY <1>7, <3>1, CountSame
  <2>3. SettledAt(S, C, A, K, H, x)
    BY <1>1 DEF Settled
  <2>4. CASE Open(R, x) <=> Open(S, x)
    BY <2>1, <2>2, <2>3, <2>4, BalanceKept
  <2>5. CASE ~(Open(R, x) <=> Open(S, x))
    <3>1. x = p
      BY <1>3, <2>5
    <3>2. Open(S, x) /\ ~Open(R, x)
      BY <1>3, <2>5 DEF Kept, Open
    <3>3. Hands(C, K, H, x) = 0 /\ Owed(S, Down(x)) = 0
      BY <1>2, <3>1, <3>2, OutSettler DEF p
    <3> QED BY <2>1, <3>2, <3>3, BalanceSettled
  <2> QED BY <2>4, <2>5
<1>16. Shaped(R, C, A2, K, H)
  BY <1>1, <1>3, <1>9, <1>10 DEF Shaped
<1>17. Good(R, C, A2, K, H)
  BY <1>3, <1>13, <1>14, <1>15, <1>16 DEF Good, Settled
<1> QED BY <1>17 DEF A2

\* The first task is taken off the queue, and settles nothing.
LEMMA TaskOnly ==
    ASSUME NEW S, NEW nc, NEW A, Holds(S, nc, A), S.queue # <<>>, NEW p \in DOMAIN S.prom,
           \A x \in DOMAIN S.prom : Head(S.queue).then # PassOn(x)
    PROVE  Delivered(S, Dequeue(S), Head(S.queue), p, nc, A)
<1>1. Taken(S, Dequeue(S), Head(S.queue), nc, A)
  BY TakeTask
<1>2. Dequeue(S).prom = S.prom
  BY DEF Dequeue
<1> QED BY <1>1, <1>2 DEF Taken, Delivered, SettlesNone

\* The result of one item is put in its place.
Scored(x, i, v) ==
    [[x EXCEPT !.results = [@ EXCEPT ![i] = v]] EXCEPT !.remaining = @ - 1]

\* Only the result and the count change (AllSlot, lib.rs).
LEMMA ScoredCall ==
    ASSUME NEW x \in AllT, NEW i \in 1..AllSize, NEW v \in Ids
    PROVE  /\ Scored(x, i, v) \in AllT
           /\ Scored(x, i, v).items = x.items /\ Scored(x, i, v).out = x.out
           /\ Scored(x, i, v).results = [x.results EXCEPT ![i] = v]
           /\ Scored(x, i, v).remaining = x.remaining - 1
<1> DEFINE y == Scored(x, i, v)
<1>1. x.results \in [1..AllSize -> Ids] /\ x.remaining \in Int
      /\ x.items \in [1..AllSize -> Ids] /\ x.out \in Ids
  BY DEF AllT
<1>2. y = [items |-> x.items, out |-> x.out, results |-> [x.results EXCEPT ![i] = v],
           remaining |-> x.remaining - 1]
  <2> DEFINE w == [x.results EXCEPT ![i] = v]
             z == [x EXCEPT !.results = w]
  <2>1. z = [items |-> x.items, out |-> x.out, results |-> w, remaining |-> x.remaining]
    BY DEF AllT
  <2>2. y = [z EXCEPT !.remaining = @ - 1]
    BY DEF Scored
  <2> HIDE DEF z, y
  <2> QED BY <2>1, <2>2
<1> HIDE DEF y
<1>3. y \in AllT
  <2>1. [x.results EXCEPT ![i] = v] \in [1..AllSize -> Ids] /\ x.remaining - 1 \in Int
    BY <1>1
  <2> QED BY <1>1, <1>2, <2>1 DEF AllT
<1>4. y.items = x.items /\ y.out = x.out /\ y.results = [x.results EXCEPT ![i] = v]
      /\ y.remaining = x.remaining - 1
  BY <1>2
<1> QED BY <1>3, <1>4 DEF y

\* The assignments of the action, as one.
ScoreAt(A, a, i, v) == [A EXCEPT ![a].results[i] = v, ![a].remaining = @ - 1]
Recall(A, a, y) == [A EXCEPT ![a] = y]

\* They are the one assignment of the call with the result put in (lib.rs, AllSlot).
LEMMA PutResult ==
    ASSUME NEW A \in Seq(AllT), NEW a \in DOMAIN A, NEW i, NEW v
    PROVE  ScoreAt(A, a, i, v) = Recall(A, a, Scored(A[a], i, v))
  BY DEF Scored, ScoreAt, Recall

\* A reaction of Promise.all runs: it fails the call, or puts a result in its
\* place and fulfils the call if that was the last.
LEMMA RunSlotKeeps ==
    ASSUME IInv, RunSlot
    PROVE  Stepped
<1> DEFINE S == Now
           t == Task
           a == t.then.slot[1]
           i == t.then.slot[2]
           p == alls[a].out
           D == Dequeue(S)
           v == t.value
           y == Scored(alls[a], i, v)
           B == ScoreAt(alls, a, i, v)
<1>1. /\ Good(S, coro, alls, stack, hosted) /\ calls \in 0..MaxCalls
  BY GoodNow
<1>2. /\ S \in Store /\ alls \in Seq(AllT) /\ Holds(S, Len(coro), alls) /\ Len(S.prom) <= MaxProm
      /\ DOMAIN S.prom = 1..Len(S.prom) /\ Len(S.prom) \in Nat
  BY <1>1, GoodParts
<1>3. /\ stack' = stack /\ coro' = coro /\ hosted' = hosted /\ calls' = calls
      /\ t.coro = 0 /\ t.then.slot # NoSlot /\ S.queue # <<>> /\ Head(S.queue) = t
      /\ IF t.status = "rejected"
         THEN Become(Settle(D, p, t)) /\ alls' = alls
         ELSE /\ alls' = B
              /\ Become(IF alls'[a].remaining = 0 THEN Settle(D, p, Outcome("fulfilled", p)) ELSE D)
  BY DEF RunSlot, Reacting, IsSlot, Now, Task, Rest, Dequeue, ScoreAt
<1> HIDE DEF S, t
<1>4. Asks(S, alls, t, a, i)
  BY <1>1, <1>3, SlotOfTask
<1> HIDE DEF a, i, p, v
<1>5. /\ a \in DOMAIN alls /\ i \in 1..AllSize /\ alls[a] \in AllT /\ p \in DOMAIN S.prom
      /\ t.status = S.prom[alls[a].items[i]].status /\ v = S.prom[alls[a].items[i]].value
      /\ IsOutcome(t) /\ v \in Ids /\ \A x : t.then # PassOn(x)
  BY <1>4 DEF Asks, p, v, IsOutcome
<1>6. ASSUME NEW o PROVE Open(S, p) => Due(S, p, o)
  BY <1>1, <1>5, OutSettler DEF p, Free, Due
<1>7. ASSUME NEW o, IsOutcome(o)
      PROVE  /\ Delivered(S, Settle(D, p, o), t, p, Len(coro), alls)
             /\ Open(S, p) => Settle(D, p, o).prom[p] = SettledAs(S.prom[p], o)
  <2>1. S.queue # <<>> /\ Head(S.queue) = t
    BY <1>3
  <2>2. \A x : Head(S.queue).then # PassOn(x)
    BY <1>5, <2>1
  <2>3. Open(S, p) => Due(S, p, o)
    BY <1>6
  <2>4. p \in DOMAIN S.prom /\ Holds(S, Len(coro), alls)
    BY <1>2, <1>5
  <2> HIDE DEF y, B, D
  <2>5. /\ Delivered(S, Settle(Dequeue(S), p, o), Head(S.queue), p, Len(coro), alls)
        /\ (Open(S, p) => Settle(Dequeue(S), p, o).prom[p] = SettledAs(S.prom[p], o))
    BY <1>7, <2>1, <2>2, <2>3, <2>4, TaskDelivers
  <2> QED BY <2>1, <2>5 DEF D
<1>8. Delivered(S, D, t, p, Len(coro), alls)
  BY <1>2, <1>3, <1>5, TaskOnly
<1>9. S.prom[p] \in PromiseT
  BY <1>2, <1>5, StoreParts
<1>10. D.prom = S.prom
  BY DEF Dequeue
<1> HIDE DEF D, y, B
<1>11. ASSUME NEW R, Delivered(S, R, t, p, Len(coro), alls), Become(R),
              NEW z \in AllT, Answer(S, R, alls[a], z, i), alls' = [alls EXCEPT ![a] = z]
       PROVE  Stepped
  <2> DEFINE A2 == [alls EXCEPT ![a] = z]
  <2>1. Good(R, coro, A2, stack, hosted)
    BY <1>1, <1>4, <1>11, SlotSteps DEF p
  <2>2. R \in Store /\ Kept(S, R)
    BY <1>11 DEF Delivered
  <2>3. Now' = R
    BY <1>11, <2>2, BecomeStore
  <2>4. alls' = A2
    BY <1>11
  <2> HIDE DEF A2
  <2> QED BY <1>1, <1>3, <2>1, <2>2, <2>3, <2>4 DEF IInv, Stepped, S
<1>12. CASE t.status = "rejected"
  <2> DEFINE R == Settle(D, p, t)
  <2>1. Delivered(S, R, t, p, Len(coro), alls) /\ (Open(S, p) => R.prom[p] = SettledAs(S.prom[p], t))
    BY <1>5, <1>7
  <2>2. Become(R) /\ alls' = alls
    BY <1>3, <1>12
  <2>3. alls' = [alls EXCEPT ![a] = alls[a]]
    BY <1>2, <1>5, <2>2
  <2>4. SettledAs(S.prom[p], t).status = "rejected" /\ SettledAs(S.prom[p], t).value = v
    BY <1>5, <1>9, <1>12, SettledPromise DEF v
  <2> HIDE DEF R
  <2>5. Open(S, p) => R.prom[p].status = "rejected" /\ R.prom[p].value = v
    BY <2>1, <2>4
  <2>6. Answer(S, R, alls[a], alls[a], i)
    BY <1>5, <1>12, <2>5 DEF Answer, p
  <2> QED BY <1>5, <1>11, <2>1, <2>2, <2>3, <2>6
<1>13. CASE t.status # "rejected"
  <2>1. /\ y \in AllT /\ y.items = alls[a].items /\ y.out = alls[a].out
        /\ y.results = [alls[a].results EXCEPT ![i] = v] /\ y.remaining = alls[a].remaining - 1
    BY <1>5, ScoredCall DEF y
  <2>20. B = [alls EXCEPT ![a] = y] /\ B[a] = y
    <3>1. B = Recall(alls, a, y)
      BY <1>2, <1>5, PutResult DEF y, B
    <3> QED BY <1>2, <1>5, <3>1 DEF Recall
  <2>2. alls' = [alls EXCEPT ![a] = y] /\ alls'[a].remaining = y.remaining
    BY <1>3, <1>13, <2>20
  <2> DEFINE o == Outcome("fulfilled", p)
             R == IF y.remaining = 0 THEN Settle(D, p, o) ELSE D
  <2>3. Become(R)
    BY <1>3, <1>13, <2>2
  <2>4. IsOutcome(o) /\ o.status = "fulfilled"
    <3>1. p \in Ids
      BY <1>2, <1>5, BoundsAssumption DEF Ids
    <3> QED BY <3>1 DEF IsOutcome, Outcome
  <2> HIDE DEF o
  <2>5. CASE y.remaining = 0
    <3> DEFINE Q == Settle(D, p, o)
    <3>1. Delivered(S, Q, t, p, Len(coro), alls) /\ (Open(S, p) => Q.prom[p] = SettledAs(S.prom[p], o))
      BY <1>7, <2>4
    <3>2. SettledAs(S.prom[p], o).status = "fulfilled"
      BY <1>9, <2>4, SettledPromise
    <3>3. Become(Q)
      BY <2>3, <2>5
    <3> HIDE DEF Q
    <3>4. Open(S, p) => Q.prom[p].status = "fulfilled"
      BY <3>1, <3>2
    <3>5. Answer(S, Q, alls[a], y, i)
      BY <1>5, <1>13, <2>1, <2>5, <3>4 DEF Answer, p
    <3> QED BY <1>11, <2>1, <2>2, <3>1, <3>3, <3>5
  <2>6. CASE y.remaining # 0
    <3>1. Become(D)
      BY <2>3, <2>6
    <3>2. Answer(S, D, alls[a], y, i)
      BY <1>5, <1>10, <1>13, <2>1, <2>6 DEF Answer
    <3> QED BY <1>8, <1>11, <2>1, <2>2, <3>1, <3>2
  <2> QED BY <2>5, <2>6
<1> QED BY <1>12, <1>13

\* Promise.all leaves a reaction on every item and a promise of its own.
Collects(S, R, a, nc, A) ==
    LET n == Len(S.prom) + 1
    IN  /\ Holds(R, nc, A) /\ R \in Store /\ Len(R.prom) = n /\ DOMAIN R.prom = 1..n /\ Kept(S, R)
        /\ \A x \in DOMAIN S.prom : Open(R, x) <=> Open(S, x)
        /\ R.prom[n].status = "pending"
        /\ \A i \in 1..AllSize : Owed(R, SlotOf(a, i)) = 1
        /\ \A U : (\A i \in 1..AllSize : SlotReaction(a, i) \notin U) => Owed(R, U) = Owed(S, U)
        /\ \A c \in Crew : Waits(R, c) = Waits(S, c)

\* What the store holds after Promise.all (lib.rs, promise_all).
LEMMA CollectStore ==
    ASSUME NEW S, NEW G, NEW nc, NEW A, NEW a, S \in Store, Gathers(S, G, a, nc, A),
           Len(S.prom) + 1 <= MaxProm
    PROVE  Collects(S, Create(G), a, nc, A)
<1> DEFINE R == Create(G)
           n == Len(S.prom) + 1
<1>1. /\ Holds(G, nc, A) /\ SettlesNone(S, G)
      /\ \A i \in 1..AllSize : Owed(G, SlotOf(a, i)) = 1
      /\ \A U : (\A i \in 1..AllSize : SlotReaction(a, i) \notin U) => Owed(G, U) = Owed(S, U)
      /\ \A c \in Crew : Waits(G, c) = Waits(S, c)
  BY DEF Gathers
<1>2. /\ G \in Store /\ Fits(G, nc, A) /\ (\A x \in DOMAIN G.prom : Adopted(G, x))
      /\ Len(G.prom) = Len(S.prom) /\ Kept(S, G)
      /\ \A x \in DOMAIN S.prom : Open(G, x) <=> Open(S, x)
  BY <1>1 DEF Holds, SettlesNone
<1>3. /\ DOMAIN S.prom = 1..Len(S.prom) /\ Len(S.prom) \in Nat /\ DOMAIN G.prom = DOMAIN S.prom
  BY <1>2, StoreParts
<1>4. /\ R \in Store /\ Len(R.prom) = Len(G.prom) + 1 /\ R.prom[Len(G.prom) + 1] = Fresh
      /\ \A U : Owed(R, U) = Owed(G, U)
      /\ \A c : Waits(R, c) = Waits(G, c)
  BY <1>2, CreateStore
<1>5. /\ Fits(R, nc, A) /\ Kept(G, R) /\ Adopted(R, Len(G.prom) + 1)
      /\ \A x \in DOMAIN G.prom : /\ Open(R, x) <=> Open(G, x)
                                  /\ Adopted(G, x) => Adopted(R, x)
  BY <1>2, CreateFits
<1> HIDE DEF R
<1>6. Len(R.prom) = n /\ DOMAIN R.prom = 1..n
  BY <1>2, <1>4, StoreParts
<1>7. \A x \in DOMAIN R.prom : Adopted(R, x)
  <2> TAKE x \in DOMAIN R.prom
  <2>1. x = n \/ x \in DOMAIN G.prom
    BY <1>3, <1>6
  <2> QED BY <1>2, <1>5, <2>1
<1>8. Holds(R, nc, A)
  BY <1>4, <1>5, <1>6, <1>7 DEF Holds
<1>9. Kept(S, R)
  BY <1>2, <1>4, <1>5, KeptTrans
<1>10. R.prom[n].status = "pending"
  BY <1>2, <1>4 DEF Fresh
<1>11. Collects(S, R, a, nc, A)
  BY <1>1, <1>2, <1>3, <1>4, <1>5, <1>6, <1>8, <1>9, <1>10 DEF Collects
<1> QED BY <1>11 DEF R

\* Nothing answers a slot of a call that has not been made.
LEMMA NoSlotYet ==
    ASSUME NEW S \in Store, NEW nc, NEW A \in Seq(AllT), Fits(S, nc, A), NEW i
    PROVE  Owed(S, SlotOf(Len(A) + 1, i)) = 0
<1> DEFINE a == Len(A) + 1
<1>1. DOMAIN A = 1..Len(A) /\ a \notin DOMAIN A /\ a # 0
  OBVIOUS
<1> HIDE DEF a
<1>2. ASSUME NEW q, NEW r, NEW n, ReactionFits(q, r, n, A) PROVE r \notin SlotOf(a, i)
  BY <1>1, <1>2 DEF ReactionFits, SlotOf, NoSlot
<1>3. \A q \in DOMAIN S.prom : \A j \in DOMAIN S.prom[q].reactions : S.prom[q].reactions[j] \notin SlotOf(a, i)
  BY <1>2 DEF Fits, PromiseFits
<1>4. PassOn(0) \notin SlotOf(a, i)
  BY <1>1 DEF PassOn, Reaction, SlotOf, NoSlot
<1>5. \A k \in DOMAIN S.queue : S.queue[k].then \notin SlotOf(a, i)
  BY <1>2, <1>4 DEF Fits, TaskFits
<1> QED BY <1>3, <1>5, OwedNone DEF a

\* A call of Promise.all that nothing has answered is exact.
LEMMA NewCallExact ==
    ASSUME NEW R, NEW x, NEW a, x.results = [i \in 1..AllSize |-> Null], x.remaining = AllSize,
           \A i \in 1..AllSize : Owed(R, SlotOf(a, i)) = 1, R.prom[x.out].status = "pending"
    PROVE  Exact(R, x, a)
<1>1. Over(R, a) = {}
  BY DEF Over
<1>2. Failed(R, x, a) = {} /\ Over(R, a) \ Failed(R, x, a) = {}
  BY <1>1 DEF Failed
<1>3. Cardinality({}) = 0
  BY FS_EmptySet
<1>4. 1 \in 1..AllSize /\ AllSize - 0 = AllSize
  BY AllSizeAssumption
<1> QED BY <1>1, <1>2, <1>3, <1>4 DEF Exact

\* Promise.all is called.
LEMMA PromiseAllKeeps ==
    ASSUME IInv, NEW items \in [1..AllSize -> Proms], PromiseAll(items)
    PROVE  Stepped
<1> DEFINE S == Now
           n == Len(S.prom) + 1
           a == Len(alls) + 1
           y == [items |-> items, out |-> n, results |-> [i \in 1..AllSize |-> Null], remaining |-> AllSize]
           A2 == Append(alls, y)
           G == Gather(S, items, a)
           R == Create(G)
<1>1. /\ Good(S, coro, alls, stack, hosted) /\ calls \in 0..MaxCalls /\ S.prom = prom
  BY GoodNow
<1>2. /\ S \in Store /\ CorosFit(coro, Len(S.prom)) /\ Placed(S, coro, stack) /\ Len(S.prom) \in Nat
      /\ DOMAIN S.prom = 1..Len(S.prom) /\ FramesFit(stack, Len(S.prom), Len(coro))
      /\ hosted \subseteq DOMAIN S.prom /\ Len(coro) \in Nat /\ DOMAIN coro = 1..Len(coro)
      /\ Len(coro) <= MaxCoro /\ Settled(S, coro, alls, stack, hosted) /\ AllsFit(alls, Len(S.prom))
      /\ alls \in Seq(AllT) /\ AllsExact(S, alls) /\ Len(alls) \in Nat /\ Fits(S, Len(coro), alls)
      /\ DOMAIN alls = 1..Len(alls) /\ Holds(S, Len(coro), alls)
  BY <1>1, GoodParts
<1>3. Len(S.prom) + 1 <= MaxProm /\ n = NewProm /\ Len(alls) < MaxAll
  BY <1>1 DEF PromiseAll, MayCreate, NewProm
<1>4. stack' = stack /\ coro' = coro /\ alls' = A2 /\ hosted' = hosted /\ calls' = calls
  BY <1>3 DEF PromiseAll, StillToCome
<1>5. Become(R)
  BY DEF PromiseAll, Become, Create, Gather, Asked, Answers, SlotsAt, SlotReaction, Places, Answered,
         Pending, Now
<1>6. items \in [1..AllSize -> DOMAIN S.prom]
  BY <1>1 DEF Proms
<1> HIDE DEF S
<1>7. a \in 1..MaxAll /\ a \notin DOMAIN alls /\ a # 0
  BY <1>2, <1>3, BoundsAssumption
<1>8. y \in AllT /\ y.items = items /\ y.out = n /\ y.remaining = AllSize
      /\ y.results = [i \in 1..AllSize |-> Null] /\ AllFits(y, n)
  <2>1. n \in Ids /\ DOMAIN S.prom \subseteq Ids /\ 0 \in Ids /\ AllSize \in Int
    BY <1>2, <1>3, BoundsAssumption, AllSizeAssumption DEF Ids
  <2>2. items \in [1..AllSize -> Ids] /\ [i \in 1..AllSize |-> Null] \in [1..AllSize -> Ids]
    BY <1>6, <2>1 DEF Null
  <2>3. y \in AllT
    BY <2>1, <2>2 DEF AllT
  <2>4. AllFits(y, n)
    BY <1>2, <1>6 DEF AllFits
  <2> QED BY <2>3, <2>4
<1> HIDE DEF y, n
<1>9. /\ A2 \in Seq(AllT) /\ Len(A2) = a /\ DOMAIN A2 = 1..a /\ A2[a] = y
      /\ \A b \in DOMAIN alls : A2[b] = alls[b]
      /\ \A U : CountIn(A2, U) = CountIn(alls, U) + Flag(y \in U)
      /\ \A U : CountIn(alls, U) \in Nat
  <2>1. \A U : CountIn(A2, U) = CountIn(alls, U) + Flag(y \in U)
    BY <1>2, <1>8, CountAppend
  <2>2. \A U : CountIn(alls, U) \in Nat
    BY <1>2, CountNat
  <2>3. /\ A2 \in Seq(AllT) /\ Len(A2) = a /\ DOMAIN A2 = 1..a /\ A2[a] = y
        /\ \A b \in DOMAIN alls : A2[b] = alls[b]
    BY <1>2, <1>8
  <2> QED BY <2>1, <2>2, <2>3
<1>10. \A i \in 1..AllSize : Owed(S, SlotOf(a, i)) = 0
  BY <1>2, NoSlotYet
<1> HIDE DEF A2, a
<1>11. \A b \in DOMAIN A2 : b = a \/ b \in DOMAIN alls
  BY <1>2, <1>9 DEF a
<1>12. DOMAIN alls \subseteq DOMAIN A2 /\ a \in DOMAIN A2
  BY <1>2, <1>7, <1>9 DEF a
<1>13. Holds(S, Len(coro), A2)
  <2>1. \A b \in DOMAIN alls : A2[b].items = alls[b].items
    BY <1>9
  <2>2. Len(coro) <= Len(coro)
    BY <1>2
  <2> QED BY <1>2, <1>12, <2>1, <2>2, HoldsMore
<1>14. Gathers(S, G, a, Len(coro), A2)
  <2>1. A2[a].items = items
    BY <1>8, <1>9
  <2> QED BY <1>6, <1>7, <1>10, <1>12, <1>13, <2>1, GatherStore
<1> HIDE DEF G
<1>15. Collects(S, R, a, Len(coro), A2)
  BY <1>2, <1>3, <1>14, CollectStore
<1> HIDE DEF R
<1>16. /\ Holds(R, Len(coro), A2) /\ R \in Store /\ Len(R.prom) = n /\ DOMAIN R.prom = 1..n /\ Kept(S, R)
       /\ \A x \in DOMAIN S.prom : Open(R, x) <=> Open(S, x)
       /\ R.prom[n].status = "pending"
       /\ \A i \in 1..AllSize : Owed(R, SlotOf(a, i)) = 1
       /\ \A U : (\A i \in 1..AllSize : SlotReaction(a, i) \notin U) => Owed(R, U) = Owed(S, U)
       /\ \A c \in Crew : Waits(R, c) = Waits(S, c)
  BY <1>15 DEF Collects, n
<1>17. n \in Nat /\ Len(S.prom) <= n /\ n \notin DOMAIN S.prom /\ DOMAIN S.prom \subseteq 1..n
       /\ \A x \in 1..n : x = n \/ x \in DOMAIN S.prom
  BY <1>2 DEF n
<1>18. CorosFit(coro, n) /\ FramesFit(stack, n, Len(coro))
  BY <1>2, <1>17, MorePromises
<1>19. AllsFit(A2, n)
  <2>1. ASSUME NEW b \in DOMAIN A2 PROVE AllFits(A2[b], n)
    <3>1. CASE b = a
      BY <1>8, <1>9, <3>1
    <3>2. CASE b \in DOMAIN alls
      BY <1>2, <1>9, <1>17, <3>2 DEF AllsFit, AllFits
    <3> QED BY <1>11, <3>1, <3>2
  <2> QED BY <1>7, <1>9, <2>1 DEF AllsFit
<1>20. Shaped(R, coro, A2, stack, hosted)
  BY <1>2, <1>16, <1>17, <1>18, <1>19 DEF Shaped
<1>21. Placed(R, coro, stack)
  <2>1. \A c \in DOMAIN coro : c \in Crew
    BY <1>2, BoundsAssumption DEF Crew
  <2> QED BY <1>2, <1>16, <2>1 DEF Placed
<1>22. \A i : SlotReaction(a, i).slot = <<a, i>> /\ SlotReaction(a, i).down = 0
  BY DEF SlotReaction, Reaction
<1>23. ASSUME NEW x, x # 0 PROVE Owed(R, Down(x)) = Owed(S, Down(x))
  BY <1>16, <1>22, <1>23 DEF Down
<1>24. ASSUME NEW x \in DOMAIN S.prom PROVE SettledAt(R, coro, A2, stack, hosted, x)
  <2>1. x # 0 /\ x # n
    BY <1>2, <1>17
  <2>2. CountIn(A2, Outs(x)) = CountIn(alls, Outs(x))
    <3>1. y \notin Outs(x)
      BY <1>8, <2>1 DEF Outs
    <3>2. CountIn(A2, Outs(x)) = CountIn(alls, Outs(x)) + 0
      BY <1>9, <3>1 DEF Flag
    <3> QED BY <1>9, <3>2
  <2>3. SettledAt(S, coro, alls, stack, hosted, x)
    BY <1>2 DEF Settled
  <2>4. Open(R, x) <=> Open(S, x)
    BY <1>16
  <2>5. Owed(R, Down(x)) = Owed(S, Down(x))
    BY <1>23, <2>1
  <2> QED BY <2>2, <2>3, <2>4, <2>5, BalanceKept
<1>25. SettledAt(R, coro, A2, stack, hosted, n)
  <2>1. Hands(coro, stack, hosted, n) = 0 /\ ~Dropped(coro, n) /\ CountIn(alls, Outs(n)) = 0
        /\ Owed(S, Down(n)) = 0
    BY <1>1, Newcomer DEF n
  <2>2. y \in Outs(n)
    BY <1>8 DEF Outs
  <2>3. CountIn(A2, Outs(n)) = 0 + 1
    BY <1>9, <2>1, <2>2 DEF Flag
  <2>4. Owed(R, Down(n)) = 0
    BY <1>17, <1>23, <2>1, <1>2 DEF n
  <2>5. Open(R, n)
    BY <1>16 DEF Open
  <2> QED BY <2>1, <2>3, <2>4, <2>5 DEF SettledAt, Flag
<1>26. AllsExact(R, A2)
  <2>1. Exact(R, y, a)
    BY <1>8, <1>16, NewCallExact
  <2>2. ASSUME NEW b \in DOMAIN alls PROVE Exact(R, alls[b], b)
    <3>1. b # a
      BY <1>7
    <3>2. ASSUME NEW j \in 1..AllSize PROVE Owed(R, SlotOf(b, j)) = Owed(S, SlotOf(b, j))
      <4>1. \A i \in 1..AllSize : SlotReaction(a, i) \notin SlotOf(b, j)
        BY <1>22, <3>1 DEF SlotOf
      <4> QED BY <1>16, <4>1
    <3>3. Exact(S, alls[b], b) /\ AllFits(alls[b], Len(S.prom))
      BY <1>2 DEF AllsExact, AllsFit
    <3>4. Open(S, alls[b].out) => Open(R, alls[b].out)
      BY <1>2, <1>16, <3>3 DEF AllFits
    <3> QED BY <1>2, <1>16, <3>2, <3>3, <3>4, ExactKept
  <2> QED BY <1>9, <1>11, <2>1, <2>2 DEF AllsExact
<1>27. Good(R, coro, A2, stack, hosted)
  BY <1>16, <1>17, <1>20, <1>21, <1>24, <1>25, <1>26 DEF Good, Settled
<1>28. Now' = R
  BY <1>5, <1>16, BecomeStore
<1> QED BY <1>1, <1>4, <1>16, <1>27, <1>28 DEF IInv, Stepped, S

\* A coroutine's generator marked as done, or set going for a new next().
MarkedDone(x) == [x EXCEPT !.done = TRUE]
SetGoing(x, n) == [x EXCEPT !.parked = FALSE, !.owes = n]

\* Nothing else of the coroutine changes (lib.rs, gen_next).
LEMMA GenStates ==
    ASSUME NEW x \in CoroT, NEW n \in Ids
    PROVE  /\ MarkedDone(x) \in CoroT /\ MarkedDone(x).owes = x.owes /\ MarkedDone(x).state = x.state
           /\ MarkedDone(x).gen = x.gen /\ MarkedDone(x).parked = x.parked
           /\ SetGoing(x, n) \in CoroT /\ SetGoing(x, n).owes = n /\ SetGoing(x, n).state = x.state
           /\ ~SetGoing(x, n).parked
<1>1. /\ x.gen \in BOOLEAN /\ x.owes \in Ids /\ x.state \in {"live", "ended", "dropped"}
      /\ x.parked \in BOOLEAN /\ x.done \in BOOLEAN
  BY DEF CoroT
<1>6. x = [gen |-> x.gen, owes |-> x.owes, state |-> x.state, parked |-> x.parked, done |-> x.done]
  BY DEF CoroT
<1>2. MarkedDone(x) = [gen |-> x.gen, owes |-> x.owes, state |-> x.state, parked |-> x.parked, done |-> TRUE]
  <2>1. ASSUME NEW y, y = [x EXCEPT !.done = TRUE]
        PROVE  y = [gen |-> x.gen, owes |-> x.owes, state |-> x.state, parked |-> x.parked, done |-> TRUE]
    BY <1>6, <2>1
  <2> QED BY <2>1 DEF MarkedDone
<1>3. SetGoing(x, n) = [gen |-> x.gen, owes |-> n, state |-> x.state, parked |-> FALSE, done |-> x.done]
  <2>1. ASSUME NEW y, y = [x EXCEPT !.parked = FALSE, !.owes = n]
        PROVE  y = [gen |-> x.gen, owes |-> n, state |-> x.state, parked |-> FALSE, done |-> x.done]
    BY <1>6, <2>1
  <2> QED BY <2>1 DEF SetGoing
<1>4. MarkedDone(x) \in CoroT
  BY <1>1, <1>2 DEF CoroT
<1>5. SetGoing(x, n) \in CoroT
  BY <1>1, <1>3 DEF CoroT
<1> QED BY <1>2, <1>3, <1>4, <1>5

\* next() of a generator that is over or busy: its promise is settled at once.
LEMMA GenExhausted ==
    ASSUME IInv, NEW c \in Coros, GenNext(c), Exhausted(c)
    PROVE  Stepped
<1> DEFINE S == Now
           n == Len(S.prom) + 1
           B == Create(S)
           o == Outcome("fulfilled", Null)
           R == Settle(B, n, o)
           y == MarkedDone(coro[c])
           C2 == Recast(coro, c, y)
<1>1. /\ Good(S, coro, alls, stack, hosted) /\ calls \in 0..MaxCalls /\ S.prom = prom /\ c \in DOMAIN coro
  BY GoodNow DEF Coros
<1>2. /\ CorosFit(coro, Len(S.prom)) /\ Placed(S, coro, stack) /\ Len(S.prom) \in Nat
      /\ Len(coro) \in Nat /\ coro \in Seq(CoroT) /\ DOMAIN coro = 1..Len(coro)
      /\ DOMAIN S.prom = 1..Len(S.prom)
  BY <1>1, GoodParts
<1>3. Len(S.prom) + 1 <= MaxProm /\ n = NewProm
  BY <1>1 DEF GenNext, MayCreate, NewProm
<1>4. Become(R) /\ stack' = stack /\ coro' = C2 /\ alls' = alls /\ hosted' = hosted /\ calls' = calls
  BY <1>3 DEF GenNext, Recast, MarkedDone
<1> HIDE DEF S, B
<1>5. Free(B, n, Len(coro), alls) /\ Len(B.prom) = n
  <2>1. Born(S, B, Len(coro), alls)
    BY <1>1, <1>3, Created DEF B
  <2> QED BY <2>1 DEF Born
<1>6. IsOutcome(o)
  <2>1. 0 \in Ids
    BY BoundsAssumption DEF Ids
  <2> QED BY <2>1 DEF IsOutcome, Outcome, Null
<1> HIDE DEF o
<1>7. HandsOver(B, R, n, Len(coro), alls)
  <2> HIDE DEF n
  <2> QED BY <1>5, <1>6, SettleHands DEF Free, Due
<1>8. /\ coro[c] \in CoroT /\ CoroFits(coro[c], Len(S.prom))
  BY <1>1, <1>2 DEF CorosFit
<1>9. /\ y \in CoroT /\ y.owes = coro[c].owes /\ y.state = coro[c].state
      /\ y.gen = coro[c].gen /\ y.parked = coro[c].parked
  <2>1. 0 \in Ids
    BY BoundsAssumption DEF Ids
  <2> QED BY <1>8, <2>1, GenStates
<1> HIDE DEF y
<1>10. CoroFits(y, Len(S.prom))
  BY <1>8, <1>9 DEF CoroFits
<1>11. /\ CorosFit(C2, Len(S.prom)) /\ Len(C2) = Len(coro) /\ DOMAIN C2 = DOMAIN coro
       /\ C2[c] = y /\ \A d \in DOMAIN coro \ {c} : C2[d] = coro[d]
  BY <1>1, <1>2, <1>9, <1>10, PutCoro
<1>12. C2 \in Seq(CoroT)
  BY <1>11 DEF CorosFit
<1> HIDE DEF C2
<1>13. \A d \in DOMAIN coro : /\ C2[d].owes = coro[d].owes /\ C2[d].state = coro[d].state
                              /\ C2[d].parked = coro[d].parked
                              /\ C2[d] \in CoroT /\ coro[d] \in CoroT
  BY <1>2, <1>9, <1>11, <1>12
<1>14. ASSUME NEW x
       PROVE  CountIn(C2, Owers(x)) = CountIn(coro, Owers(x)) /\ (Dropped(C2, x) <=> Dropped(coro, x))
  <2>1. \A d \in DOMAIN C2 : C2[d] \in Owers(x) <=> coro[d] \in Owers(x)
    BY <1>11, <1>13 DEF Owers
  <2>2. CountIn(C2, Owers(x)) = CountIn(coro, Owers(x))
    BY <1>11, <2>1, CountSame
  <2> QED BY <1>11, <1>13, <2>2 DEF Dropped
<1>15. Placed(S, C2, stack)
  BY <1>2, <1>11, <1>13 DEF Placed
<1> HIDE DEF R, n
<1>16. Good(R, C2, alls, stack, hosted) /\ R \in Store /\ Kept(S, R)
  <2>1. HandsOver(Create(S), R, Len(S.prom) + 1, Len(coro), alls)
    BY <1>7 DEF B, n
  <2> QED BY <1>1, <1>3, <1>11, <1>14, <1>15, <2>1, CreateHands
<1>17. Now' = R
  BY <1>4, <1>16, BecomeStore
<1> QED BY <1>1, <1>4, <1>16, <1>17 DEF IInv, Stepped, S

\* next() of a generator that is parked: its body goes on.
LEMMA GenGoesOn ==
    ASSUME IInv, NEW c \in Coros, GenNext(c), ~Exhausted(c)
    PROVE  Stepped
<1> DEFINE S == Now
           n == Len(S.prom) + 1
           R == Create(S)
           y == SetGoing(coro[c], n)
           C2 == Recast(coro, c, y)
           K2 == Append(stack, Frame("coro", c))
<1>1. /\ Good(S, coro, alls, stack, hosted) /\ calls \in 0..MaxCalls /\ S.prom = prom /\ c \in DOMAIN coro
  BY GoodNow DEF Coros
<1>2. /\ CorosFit(coro, Len(S.prom)) /\ Placed(S, coro, stack) /\ Len(S.prom) \in Nat
      /\ DOMAIN S.prom = 1..Len(S.prom) /\ FramesFit(stack, Len(S.prom), Len(coro))
      /\ hosted \subseteq DOMAIN S.prom /\ Len(coro) \in Nat /\ coro \in Seq(CoroT) /\ alls \in Seq(AllT)
      /\ stack \in Seq(FrameT) /\ DOMAIN coro = 1..Len(coro) /\ S \in Store
  BY <1>1, GoodParts
<1>3. Len(S.prom) + 1 <= MaxProm /\ n = NewProm
  BY <1>1 DEF GenNext, MayCreate, NewProm
<1>4. Become(R) /\ stack' = K2 /\ coro' = C2 /\ alls' = alls /\ hosted' = hosted /\ calls' = calls
  BY <1>3 DEF GenNext, Push, Recast, SetGoing
<1>5. stack # <<>> /\ coro[c].parked
  BY DEF GenNext, Code, Exhausted
<1> HIDE DEF S
<1>6. n \in Nat /\ n \in 1..n /\ Len(S.prom) <= n /\ c \in 1..Len(coro)
  BY <1>1, <1>2
<1>7. CorosFit(coro, n) /\ FramesFit(stack, n, Len(coro))
  BY <1>2, <1>6, MorePromises
<1>8. /\ coro[c] \in CoroT /\ coro[c].state = "live" /\ coro[c].owes = 0
  BY <1>1, <1>2, <1>5 DEF CorosFit, CoroFits
<1>9. y \in CoroT /\ CoroFits(y, n) /\ y.owes = n /\ y.state = "live" /\ ~y.parked
  <2>1. n \in Ids
    BY <1>3, <1>6, BoundsAssumption DEF Ids
  <2>2. y \in CoroT /\ y.owes = n /\ y.state = "live" /\ ~y.parked
    BY <1>8, <2>1, GenStates, SMTT(40)
  <2> HIDE DEF y
  <2> QED BY <1>6, <2>2 DEF CoroFits
<1> HIDE DEF y, n
<1>10. FramesFit(K2, n, Len(coro)) /\ Undriven(K2, stack, c)
  BY <1>2, <1>5, <1>6, <1>7, PushCoro
<1>11. /\ CorosFit(C2, n) /\ Len(C2) = Len(coro) /\ DOMAIN C2 = DOMAIN coro
       /\ C2[c] = y /\ \A d \in DOMAIN coro \ {c} : C2[d] = coro[d]
  BY <1>1, <1>7, <1>9, PutCoro
<1>12. \A x : CountIn(C2, Owers(x)) = CountIn(coro, Owers(x)) - Flag(coro[c] \in Owers(x)) + Flag(y \in Owers(x))
  BY <1>1, <1>7, <1>9, PutCoro
<1> HIDE DEF K2, C2
<1>13. \A x : Dropped(C2, x) <=> Dropped(coro, x)
  BY <1>1, <1>8, <1>9, <1>11 DEF Dropped
<1>14. Hands(coro, stack, hosted, n) = 0 /\ ~Dropped(coro, n)
  BY <1>1, Newcomer DEF n
<1>15. K2 \in Seq(FrameT) /\ \A g : CountIn(K2, g) \in Nat /\ CountIn(stack, g) \in Nat
  <2>1. K2 \in Seq(FrameT)
    BY <1>10 DEF FramesFit
  <2> QED BY <1>2, <2>1, CountNat
<1>16. Placed(S, C2, K2)
  <2>1. ASSUME NEW d \in DOMAIN C2
        PROVE  CountIn(K2, {Frame("coro", d)}) + Waits(S, d) + Flag(C2[d].parked) = Flag(C2[d].state = "live")
    <3>0. CountIn(stack, {Frame("coro", d)}) + Waits(S, d) + Flag(coro[d].parked) = Flag(coro[d].state = "live")
      BY <1>2, <1>11 DEF Placed
    <3>1. CASE d = c
      <4>1. CountIn(stack, {Frame("coro", d)}) = CountIn(K2, {Frame("coro", d)}) - 1
        BY <1>10, <3>1 DEF Undriven
      <4>2. CountIn(stack, {Frame("coro", d)}) + Waits(S, d) + 1 = 1
        BY <1>5, <1>8, <3>0, <3>1 DEF Flag
      <4>3. Waits(S, d) \in Nat
        BY <1>2, OwedNat
      <4>4. CountIn(K2, {Frame("coro", d)}) = 1 /\ Waits(S, d) = 0
        BY <1>15, <4>1, <4>2, <4>3
      <4> QED BY <1>9, <1>11, <3>1, <4>4 DEF Flag
    <3>2. CASE d # c
      <4>1. CountIn(K2, {Frame("coro", d)}) = CountIn(stack, {Frame("coro", d)})
        BY <1>10, <3>2 DEF Undriven
      <4>2. C2[d] = coro[d]
        BY <1>11, <3>2
      <4> QED BY <3>0, <4>1, <4>2
    <3> QED BY <3>1, <3>2
  <2> QED BY <2>1 DEF Placed
<1>17. HandsAs(S, coro, stack, hosted, C2, K2, hosted)
  <2>1. ASSUME NEW x \in DOMAIN S.prom PROVE Hands(C2, K2, hosted, x) = Hands(coro, stack, hosted, x)
    <3>1. y \notin Owers(x) /\ coro[c] \notin Owers(x)
      BY <1>2, <1>6, <1>8, <1>9 DEF Owers, n
    <3>2. CountIn(C2, Owers(x)) = CountIn(coro, Owers(x))
      <4>1. CountIn(coro, Owers(x)) \in Nat
        BY <1>2, HandsNat
      <4> QED BY <1>12, <3>1, <4>1 DEF Flag
    <3>3. CountIn(K2, {Frame("react", x)}) = CountIn(stack, {Frame("react", x)})
      BY <1>10 DEF Undriven
    <3> QED BY <3>2, <3>3 DEF Hands
  <2> QED BY <1>13, <2>1 DEF HandsAs
<1>18. Hands(C2, K2, hosted, n) = 1 /\ ~Dropped(C2, n)
  <2>1. y \in Owers(n) /\ coro[c] \notin Owers(n)
    BY <1>2, <1>8, <1>9 DEF Owers, n
  <2>2. CountIn(K2, {Frame("react", n)}) = CountIn(stack, {Frame("react", n)})
    BY <1>10 DEF Undriven
  <2>3. CountIn(coro, Owers(n)) \in Nat /\ CountIn(stack, {Frame("react", n)}) \in Nat
    BY <1>2, HandsNat
  <2>4. CountIn(C2, Owers(n)) = CountIn(coro, Owers(n)) + 1
    BY <1>12, <2>1, <2>3 DEF Flag
  <2> QED BY <1>13, <1>14, <2>2, <2>3, <2>4 DEF Hands, Flag
<1>19. hosted \subseteq 1..n
  BY <1>2 DEF n
<1> HIDE DEF R
<1>20. Good(R, C2, alls, K2, hosted) /\ R \in Store /\ Kept(S, R)
  <2>1. Len(coro) <= Len(C2) /\ n = Len(S.prom) + 1 /\ Len(C2) = Len(coro)
    BY <1>2, <1>11 DEF n
  <2> QED BY <1>1, <1>3, <1>10, <1>11, <1>16, <1>17, <1>18, <1>19, <2>1, CreateOwed DEF R
<1>21. Now' = R
  BY <1>4, <1>20, BecomeStore
<1> QED BY <1>1, <1>4, <1>20, <1>21 DEF IInv, Stepped, S

\* next() is called.
LEMMA GenNextKeeps ==
    ASSUME IInv, NEW c \in Coros, GenNext(c)
    PROVE  Stepped
  BY GenExhausted, GenGoesOn

-----------------------------------------------------------------------------
(* The inductive invariant.                                                *)

\* Nothing has been created and nobody has called.
LEMMA InitGood == Init => IInv
<1> SUFFICES ASSUME Init PROVE IInv
  OBVIOUS
<1>1. /\ Now.prom = <<>> /\ Now.queue = <<>> /\ Now = [prom |-> <<>>, queue |-> <<>>]
      /\ coro = <<>> /\ alls = <<>> /\ stack = <<>> /\ hosted = {} /\ calls = 0
  BY DEF Init, Now
<1>2. Len(<<>>) = 0 /\ DOMAIN <<>> = {} /\ \A T : <<>> \in Seq(T)
  OBVIOUS
<1>3. Now \in Store
  BY <1>1, <1>2 DEF Store
<1>4. 0 <= MaxProm /\ 0 <= MaxCoro /\ 0 <= MaxAll /\ 0 \in 0..MaxCalls
  BY BoundsAssumption
<1>5. Holds(Now, 0, <<>>)
  BY <1>1, <1>2, <1>3, <1>4 DEF Holds, Fits
<1>6. CorosFit(<<>>, 0) /\ AllsFit(<<>>, 0) /\ FramesFit(<<>>, 0, 0)
  <2>1. CorosFit(<<>>, 0)
    BY <1>2, <1>4 DEF CorosFit
  <2>2. AllsFit(<<>>, 0)
    BY <1>2, <1>4 DEF AllsFit
  <2>3. FramesFit(<<>>, 0, 0)
    BY <1>2 DEF FramesFit
  <2> QED BY <2>1, <2>2, <2>3
<1>7. Shaped(Now, <<>>, <<>>, <<>>, {})
  BY <1>1, <1>2, <1>5, <1>6 DEF Shaped
<1>8. Placed(Now, <<>>, <<>>) /\ Settled(Now, <<>>, <<>>, <<>>, {}) /\ AllsExact(Now, <<>>)
  BY <1>1, <1>2 DEF Placed, Settled, AllsExact
<1> QED BY <1>1, <1>4, <1>7, <1>8 DEF IInv, Good

\* Every step keeps the invariant, and every settled promise as it is.
LEMMA NextKeeps ==
    ASSUME IInv, [Next]_vars
    PROVE  Stepped
<1>1. CASE UNCHANGED vars
  BY <1>1, StutterKeeps
<1>2. CASE Host
  BY <1>2, HostCallsKeeps, HostSettlesKeeps DEF Host
<1>3. CASE Operate
  <2>1. CASE \E r \in Results : PromiseOf(r)
    BY <2>1, PromiseOfKeeps
  <2>2. CASE \E q \in Proms, handles \in SUBSET {"fulfilled", "rejected"} : PromiseThen(q, handles)
    BY <2>2, PromiseThenKeeps
  <2>3. CASE \E items \in [1..AllSize -> Proms] : PromiseAll(items)
    BY <2>3, PromiseAllKeeps
  <2>4. CASE StartAsync \/ NewGenerator
    BY <2>4, StartAsyncKeeps, NewGeneratorKeeps
  <2>5. CASE \E c \in Coros : GenNext(c)
    BY <2>5, GenNextKeeps
  <2> QED BY <1>3, <2>1, <2>2, <2>3, <2>4, <2>5 DEF Operate
<1>4. CASE Finish
  <2>1. CASE \E thrown \in BOOLEAN : CallEnds(thrown)
    BY <2>1, CallEndsKeeps
  <2>2. CASE \E r \in Results : HandlerEnds(r)
    BY <2>2, HandlerEndsKeeps
  <2>3. CASE \E c \in Coros, r \in Results : CoroEnds(c, r) \/ Yields(c, r)
    BY <2>3, CoroEndsKeeps, YieldsKeeps
  <2>4. CASE \E c \in Coros, thrown \in BOOLEAN : GenEnds(c, thrown)
    BY <2>4, GenEndsKeeps
  <2>5. CASE \E c \in Coros, q \in Proms : Awaits(c, q)
    BY <2>5, AwaitsKeeps
  <2>6. CASE \E c \in Coros : AwaitsHost(c)
    BY <2>6, AwaitsHostKeeps
  <2>7. CASE HostThenReturns \/ HostThenFails
    BY <2>7, HostThenReturnsKeeps, HostThenFailsKeeps
  <2> QED BY <1>4, <2>1, <2>2, <2>3, <2>4, <2>5, <2>6, <2>7 DEF Finish
<1>5. CASE Drain
  BY <1>5, RunResumeKeeps, RunHandlerKeeps, PassOutcomeOnKeeps, RunSlotKeeps, DrainEndsKeeps DEF Drain
<1> QED BY <1>1, <1>2, <1>3, <1>4, <1>5 DEF Next

\* The inductive invariant holds in every state: settlers are counted, each
\* coroutine is in one place, and each call of Promise.all is exact.
THEOREM AlwaysGood == Spec => []IInv
<1>1. Init => IInv
  BY InitGood
<1>2. IInv /\ [Next]_vars => IInv'
  BY NextKeeps DEF Stepped
<1> QED BY <1>1, <1>2, PTL DEF Spec

\* A promise that is settled never changes again, whatever handlers, adopted
\* promises, slots and hosts still mean to settle it (settle, lib.rs).
THEOREM SettledOnce == Spec => SettledForGood
<1>1. IInv /\ [Next]_vars => [\A p \in Proms : ~Pending(p) => prom'[p] = prom[p]]_vars
  <2> SUFFICES ASSUME IInv, [Next]_vars PROVE \A p \in Proms : ~Pending(p) => prom'[p] = prom[p]
    OBVIOUS
  <2>1. Kept(Now, Now')
    BY NextKeeps DEF Stepped
  <2> QED BY <2>1 DEF Kept, Open, Pending, Proms, Now
<1> QED BY <1>1, AlwaysGood, PTL DEF Spec, SettledForGood

-----------------------------------------------------------------------------
(* What the invariant says of the states.                                  *)

\* A settled promise keeps nobody waiting.
LEMMA GoodStrands == IInv => NothingStranded
<1> SUFFICES ASSUME IInv PROVE NothingStranded
  OBVIOUS
<1>1. Fits(Now, Len(coro), alls) /\ Now.prom = prom
  BY GoodNow, GoodParts
<1> QED BY <1>1 DEF NothingStranded, Fits, PromiseFits, Pending, Proms

\* A task delivers what its promise ended with.
LEMMA GoodTasks == IInv => TasksFaithful
<1> SUFFICES ASSUME IInv PROVE TasksFaithful
  OBVIOUS
<1>1. Fits(Now, Len(coro), alls) /\ Now.prom = prom /\ Now.queue = queue
  BY GoodNow, GoodParts
<1> QED BY <1>1 DEF TasksFaithful, Fits, TaskFits

\* An adopting promise ends as the adopted one did.
LEMMA GoodAdoption == IInv => AdoptionFaithful
<1> SUFFICES ASSUME IInv PROVE AdoptionFaithful
  OBVIOUS
<1>1. /\ \A x \in DOMAIN Now.prom : Adopted(Now, x)
      /\ Now.prom = prom
  BY GoodNow, GoodParts
<1> QED BY <1>1 DEF AdoptionFaithful, Adopted, Open, Pending, Proms

\* The counts of OneSettler are those of the invariant.
LEMMA SettlersCounted ==
    ASSUME IInv, NEW p \in Proms
    PROVE  /\ Settlers(p) = Hands(coro, stack, hosted, p) + Owed(Now, Down(p))
                              + (IF Open(Now, p) THEN CountIn(alls, Outs(p)) ELSE 0)
           /\ Abandoned(p) <=> Dropped(coro, p)
<1>1. /\ Good(Now, coro, alls, stack, hosted) /\ Now \in Store /\ Now.prom = prom /\ Now.queue = queue
      /\ \A x : Open(Now, x) <=> Pending(x)
  BY GoodNow
<1>2. coro \in Seq(CoroT) /\ alls \in Seq(AllT) /\ stack \in Seq(FrameT) /\ queue \in Seq(TaskT)
      /\ prom \in Seq(PromiseT)
  BY <1>1, GoodParts, StoreParts
<1>3. Cardinality({c \in Coros : coro[c].owes = p /\ coro[c].state = "live"}) = CountIn(coro, Owers(p))
  <2>1. {c \in Coros : coro[c].owes = p /\ coro[c].state = "live"} = At(coro, Owers(p))
    BY <1>2 DEF At, Owers, Coros
  <2> QED BY <2>1 DEF CountIn
<1>4. Cardinality({at \in Reactions : prom[at[1]].reactions[at[2]].down = p})
        = Total(ReactionsOf(prom), Down(p))
  <2>1. ASSUME NEW q \in DOMAIN prom, NEW i \in DOMAIN prom[q].reactions
        PROVE  prom[q].reactions[i] \in ReactionType
    <3>1. prom[q] \in PromiseT
      BY <1>2
    <3>2. prom[q].reactions \in Seq(ReactionType)
      BY <3>1 DEF PromiseT
    <3> QED BY <3>2
  <2>2. DOMAIN ReactionsOf(prom) = DOMAIN prom
        /\ \A q \in DOMAIN prom : ReactionsOf(prom)[q] = prom[q].reactions
    BY DEF ReactionsOf
  <2>3. ASSUME NEW at PROVE at \in Spots(ReactionsOf(prom), Down(p)) <=>
                              at \in {x \in Reactions : prom[x[1]].reactions[x[2]].down = p}
    <3>1. at \in Spots(ReactionsOf(prom), Down(p)) <=>
            \E q \in DOMAIN prom : \E i \in DOMAIN prom[q].reactions :
               at = <<q, i>> /\ prom[q].reactions[i].down = p
      BY <2>1, <2>2 DEF Spots, At, Down
    <3>2. at \in {x \in Reactions : prom[x[1]].reactions[x[2]].down = p} <=>
            \E q \in DOMAIN prom : \E i \in DOMAIN prom[q].reactions :
               at = <<q, i>> /\ prom[q].reactions[i].down = p
      BY DEF Reactions, Proms
    <3> QED BY <3>1, <3>2
  <2>4. Spots(ReactionsOf(prom), Down(p)) = {at \in Reactions : prom[at[1]].reactions[at[2]].down = p}
    BY <2>3
  <2> QED BY <2>4 DEF Total
<1>5. Count(queue, LAMBDA t : t.then.down = p) = CountIn(queue, TasksFor(Down(p)))
  <2>1. {i \in DOMAIN queue : queue[i].then.down = p} = At(queue, TasksFor(Down(p)))
    <3>1. ASSUME NEW i \in DOMAIN queue
          PROVE  queue[i] \in TaskT /\ queue[i].then \in ReactionType
      <4>1. queue[i] \in TaskT
        BY <1>2
      <4> QED BY <4>1 DEF TaskT
    <3> QED BY <3>1 DEF At, TasksFor, Down
  <2> QED BY <2>1 DEF CountIn, Count
<1>6. Count(stack, LAMBDA f : f = Frame("react", p)) = CountIn(stack, {Frame("react", p)})
  <2>1. {i \in DOMAIN stack : stack[i] = Frame("react", p)} = At(stack, {Frame("react", p)})
    BY DEF At
  <2> QED BY <2>1 DEF CountIn, Count
<1>7. Cardinality({a \in DOMAIN alls : alls[a].out = p /\ Pending(p)})
        = IF Open(Now, p) THEN CountIn(alls, Outs(p)) ELSE 0
  <2>1. CASE Pending(p)
    <3>1. {a \in DOMAIN alls : alls[a].out = p /\ Pending(p)} = At(alls, Outs(p))
      BY <1>2, <2>1 DEF At, Outs
    <3> QED BY <1>1, <2>1, <3>1 DEF CountIn
  <2>2. CASE ~Pending(p)
    <3>1. {a \in DOMAIN alls : alls[a].out = p /\ Pending(p)} = {}
      BY <2>2
    <3> QED BY <1>1, <2>2, <3>1, FS_EmptySet
  <2> QED BY <2>1, <2>2
<1>8. Abandoned(p) <=> Dropped(coro, p)
  BY DEF Abandoned, Dropped, Coros
<1>9. /\ CountIn(coro, Owers(p)) \in Nat /\ CountIn(stack, {Frame("react", p)}) \in Nat
      /\ CountIn(alls, Outs(p)) \in Nat /\ CountIn(queue, TasksFor(Down(p))) \in Nat
  BY <1>2, CountNat
<1>10. Total(ReactionsOf(prom), Down(p)) \in Nat
  <2>1. ReactionsOf(prom) \in Rows(ReactionType)
    BY <1>1, StoreLists
  <2> QED BY <2>1, TotalNat
<1>11. Flag(p \in hosted) \in Nat
  BY DEF Flag
<1> DEFINE rest == IF Open(Now, p) THEN CountIn(alls, Outs(p)) ELSE 0
<1>12. rest \in Nat
  BY <1>9
<1>13. Settlers(p) = CountIn(coro, Owers(p)) + Total(ReactionsOf(prom), Down(p))
                       + CountIn(queue, TasksFor(Down(p))) + CountIn(stack, {Frame("react", p)})
                       + rest + Flag(p \in hosted)
  BY <1>3, <1>4, <1>5, <1>6, <1>7 DEF Settlers
<1> HIDE DEF rest
<1>14. Settlers(p) = Hands(coro, stack, hosted, p) + Owed(Now, Down(p)) + rest
  BY <1>1, <1>9, <1>10, <1>11, <1>12, <1>13 DEF Hands, Owed
<1> QED BY <1>8, <1>14 DEF rest

\* Every pending promise has its one settler, every other one none.
LEMMA GoodSettlers == IInv => OneSettler
<1> SUFFICES ASSUME IInv, NEW p \in Proms PROVE Settlers(p) = Flag(Pending(p) /\ ~Abandoned(p))
  BY DEF OneSettler
<1>1. SettledAt(Now, coro, alls, stack, hosted, p)
  <2>1. Settled(Now, coro, alls, stack, hosted) /\ Now.prom = prom
    BY GoodNow, GoodParts
  <2> QED BY <2>1 DEF Settled, Proms
<1>2. Open(Now, p) <=> Pending(p)
  BY GoodNow
<1> QED BY <1>1, <1>2, SettlersCounted DEF SettledAt

\* Where a coroutine waits: at most one promise, once.
LEMMA WaitingOnce ==
    ASSUME IInv, NEW c \in Coros
    PROVE  LET waiting == {p \in Proms : WaitsAt(p, c) > 0}
           IN  /\ \A p \in waiting : WaitsAt(p, c) = 1
               /\ Cardinality(waiting) = Total(WaitersOf(prom), {c})
<1> DEFINE waiting == {p \in Proms : WaitsAt(p, c) > 0}
           W == WaitersOf(prom)
<1>1. /\ Good(Now, coro, alls, stack, hosted) /\ Now \in Store /\ Now.prom = prom /\ Now.queue = queue
      /\ Placed(Now, coro, stack) /\ stack \in Seq(FrameT) /\ queue \in Seq(TaskT)
      /\ c \in DOMAIN coro
  <2>1. Good(Now, coro, alls, stack, hosted) /\ Now \in Store /\ Now.prom = prom /\ Now.queue = queue
    BY GoodNow
  <2>2. Placed(Now, coro, stack) /\ stack \in Seq(FrameT) /\ queue \in Seq(TaskT)
    BY <2>1, GoodParts, StoreParts
  <2> QED BY <2>1, <2>2 DEF Coros
<1>2. W \in Rows(Crew) /\ DOMAIN W = Proms /\ \A p \in Proms : W[p] = prom[p].waiters /\ W[p] \in Seq(Crew)
  <2>1. W \in Rows(Crew)
    BY <1>1, StoreLists
  <2>2. DOMAIN W = Proms /\ \A p \in Proms : W[p] = prom[p].waiters
    BY DEF WaitersOf, Proms
  <2> HIDE DEF W
  <2>3. \A p \in DOMAIN W : W[p] \in Seq(Crew)
    BY <2>1 DEF Rows
  <2> QED BY <2>1, <2>2, <2>3
<1>3. \A p \in Proms : WaitsAt(p, c) = CountIn(W[p], {c}) /\ WaitsAt(p, c) \in Nat
  <2> TAKE p \in Proms
  <2>1. {i \in DOMAIN prom[p].waiters : prom[p].waiters[i] = c} = At(W[p], {c})
    BY <1>2 DEF At
  <2>2. WaitsAt(p, c) = CountIn(W[p], {c})
    BY <2>1 DEF WaitsAt, Count, CountIn
  <2>3. CountIn(W[p], {c}) \in Nat
    BY <1>2, CountNat
  <2> QED BY <2>2, <2>3
<1>4. Total(W, {c}) \in {0, 1}
  <2>1. Total(W, {c}) \in Nat
    BY <1>2, TotalNat
  <2>2. CountIn(stack, {Frame("coro", c)}) \in Nat /\ CountIn(queue, TasksOf(c)) \in Nat
    BY <1>1, CountNat
  <2>3. CountIn(stack, {Frame("coro", c)}) + Waits(Now, c) + Flag(coro[c].parked) = Flag(coro[c].state = "live")
    BY <1>1 DEF Placed
  <2>4. Waits(Now, c) = Total(W, {c}) + CountIn(queue, TasksOf(c))
    BY <1>1 DEF Waits
  <2> QED BY <2>1, <2>2, <2>3, <2>4 DEF Flag
<1> HIDE DEF W
<1>5. \A p \in Proms : WaitsAt(p, c) > 0 <=> \E i \in DOMAIN W[p] : W[p][i] = c
  <2> TAKE p \in Proms
  <2>1. CountIn(W[p], {c}) = 0 <=> \A i \in DOMAIN W[p] : W[p][i] \notin {c}
    BY <1>2, CountFew
  <2> QED BY <1>3, <2>1
<1>6. CASE Total(W, {c}) = 0
  <2>1. \A q \in DOMAIN W : \A i \in DOMAIN W[q] : W[q][i] \notin {c}
    BY <1>2, <1>6, TotalFew
  <2>2. waiting = {}
    BY <1>2, <1>5, <2>1
  <2> QED BY <1>6, <2>2, FS_EmptySet DEF W
<1>7. CASE Total(W, {c}) = 1
  <2>1. \A q, r \in DOMAIN W : \A i \in DOMAIN W[q], j \in DOMAIN W[r] :
           W[q][i] = c /\ W[r][j] = c => q = r /\ i = j
    <3>1. \A q, r \in DOMAIN W : \A i \in DOMAIN W[q], j \in DOMAIN W[r] :
             Total(W, {c}) = 1 /\ W[q][i] \in {c} /\ W[r][j] \in {c} => q = r /\ i = j
      BY <1>2, TotalFew
    <3> QED BY <1>7, <3>1
  <2>2. \E q \in DOMAIN W : \E i \in DOMAIN W[q] : W[q][i] = c
    <3>1. Total(W, {c}) = 0 <=> \A q \in DOMAIN W : \A i \in DOMAIN W[q] : W[q][i] \notin {c}
      BY <1>2, TotalFew
    <3> QED BY <1>7, <3>1
  <2>3. PICK q \in Proms : \E i \in DOMAIN W[q] : W[q][i] = c
    BY <1>2, <2>2
  <2>4. PICK i \in DOMAIN W[q] : W[q][i] = c
    BY <2>3
  <2>5. waiting = {q}
    BY <1>2, <1>5, <2>1, <2>3
  <2>6. At(W[q], {c}) = {i}
    BY <1>2, <2>1, <2>4 DEF At
  <2>7. WaitsAt(q, c) = 1
    BY <1>3, <2>6, FS_Singleton DEF CountIn
  <2>8. Cardinality(waiting) = 1
    BY <2>5, FS_Singleton
  <2> HIDE DEF waiting
  <2>9. \A p \in waiting : WaitsAt(p, c) = 1
    BY <2>5, <2>7
  <2> QED BY <1>7, <2>8, <2>9 DEF W, waiting
<1> QED BY <1>4, <1>6, <1>7

\* A coroutine that is not over is in exactly one place.
LEMMA GoodPlaces == IInv => OnePlace
<1> SUFFICES ASSUME IInv, NEW c \in Coros
             PROVE  LET waiting == {p \in Proms : WaitsAt(p, c) > 0}
                    IN  /\ \A p \in waiting : WaitsAt(p, c) = 1
                        /\ Count(stack, LAMBDA f : f = Frame("coro", c)) + Count(queue, LAMBDA t : t.coro = c)
                             + Cardinality(waiting) + Flag(coro[c].parked) = Flag(coro[c].state = "live")
  BY DEF OnePlace
<1> DEFINE waiting == {p \in Proms : WaitsAt(p, c) > 0}
<1>1. /\ Good(Now, coro, alls, stack, hosted) /\ Now \in Store /\ Now.prom = prom /\ Now.queue = queue
      /\ Placed(Now, coro, stack) /\ stack \in Seq(FrameT) /\ queue \in Seq(TaskT)
      /\ c \in DOMAIN coro
  <2>1. Good(Now, coro, alls, stack, hosted) /\ Now \in Store /\ Now.prom = prom /\ Now.queue = queue
    BY GoodNow
  <2>2. Placed(Now, coro, stack) /\ stack \in Seq(FrameT) /\ queue \in Seq(TaskT)
    BY <2>1, GoodParts, StoreParts
  <2> QED BY <2>1, <2>2 DEF Coros
<1>2. (\A p \in waiting : WaitsAt(p, c) = 1) /\ Cardinality(waiting) = Total(WaitersOf(prom), {c})
  BY WaitingOnce
<1>3. Count(stack, LAMBDA f : f = Frame("coro", c)) = CountIn(stack, {Frame("coro", c)})
  <2>1. {i \in DOMAIN stack : stack[i] = Frame("coro", c)} = At(stack, {Frame("coro", c)})
    BY DEF At
  <2> QED BY <2>1 DEF CountIn, Count
<1>4. Count(queue, LAMBDA t : t.coro = c) = CountIn(queue, TasksOf(c))
  <2>1. {i \in DOMAIN queue : queue[i].coro = c} = At(queue, TasksOf(c))
    BY <1>1 DEF At, TasksOf
  <2> QED BY <2>1 DEF CountIn, Count
<1>5. CountIn(stack, {Frame("coro", c)}) + Waits(Now, c) + Flag(coro[c].parked) = Flag(coro[c].state = "live")
  BY <1>1 DEF Placed
<1>6. Waits(Now, c) = Total(WaitersOf(prom), {c}) + CountIn(queue, TasksOf(c))
  BY <1>1 DEF Waits
<1>7. /\ CountIn(stack, {Frame("coro", c)}) \in Nat /\ CountIn(queue, TasksOf(c)) \in Nat
      /\ Total(WaitersOf(prom), {c}) \in Nat
  <2>1. WaitersOf(prom) \in Rows(Crew)
    BY <1>1, StoreLists
  <2> QED BY <1>1, <2>1, CountNat, TotalNat
<1>8. Flag(coro[c].parked) \in Nat
  BY DEF Flag
<1> HIDE DEF waiting
<1>9. Count(stack, LAMBDA f : f = Frame("coro", c)) + Count(queue, LAMBDA t : t.coro = c)
         + Cardinality(waiting) + Flag(coro[c].parked)
       = CountIn(stack, {Frame("coro", c)}) + CountIn(queue, TasksOf(c)) + Total(WaitersOf(prom), {c})
           + Flag(coro[c].parked)
  BY <1>2, <1>3, <1>4
<1>10. CountIn(stack, {Frame("coro", c)}) + CountIn(queue, TasksOf(c)) + Total(WaitersOf(prom), {c})
           + Flag(coro[c].parked) = Flag(coro[c].state = "live")
  BY <1>5, <1>6, <1>7, <1>8
<1> QED BY <1>2, <1>9, <1>10 DEF waiting

\* A slot is open when its outcome is still owed.
LEMMA OpenSlots ==
    ASSUME IInv, NEW a, NEW i
    PROVE  OpenSlot(a, i) <=> Owed(Now, SlotOf(a, i)) # 0
<1>1. /\ Now \in Store /\ Now.prom = prom /\ Now.queue = queue
      /\ prom \in Seq(PromiseT) /\ queue \in Seq(TaskT)
  BY GoodNow, StoreParts
<1>2. ASSUME NEW q \in DOMAIN prom, NEW k \in DOMAIN prom[q].reactions
      PROVE  prom[q].reactions[k] \in SlotOf(a, i) <=> prom[q].reactions[k].slot = <<a, i>>
  <2>1. prom[q] \in PromiseT
    BY <1>1
  <2>2. prom[q].reactions \in Seq(ReactionType)
    BY <2>1 DEF PromiseT
  <2>3. prom[q].reactions[k] \in ReactionType
    BY <2>2
  <2> QED BY <2>3 DEF SlotOf
<1>3. ASSUME NEW k \in DOMAIN queue
      PROVE  queue[k].then \in SlotOf(a, i) <=> queue[k].then.slot = <<a, i>>
  <2>1. queue[k] \in TaskT
    BY <1>1
  <2>2. queue[k].then \in ReactionType
    BY <2>1 DEF TaskT
  <2> QED BY <2>2 DEF SlotOf
<1>4. ASSUME Owed(Now, SlotOf(a, i)) = 0 PROVE ~OpenSlot(a, i)
  <2>1. /\ \A q \in DOMAIN prom : \A k \in DOMAIN prom[q].reactions : prom[q].reactions[k] \notin SlotOf(a, i)
        /\ \A k \in DOMAIN queue : queue[k].then \notin SlotOf(a, i)
    BY <1>1, <1>4, OwedSome
  <2> QED BY <1>2, <1>3, <2>1 DEF OpenSlot, Proms
<1>5. ASSUME ~OpenSlot(a, i) PROVE Owed(Now, SlotOf(a, i)) = 0
  <2>1. /\ \A q \in DOMAIN prom : \A k \in DOMAIN prom[q].reactions : prom[q].reactions[k] \notin SlotOf(a, i)
        /\ \A k \in DOMAIN queue : queue[k].then \notin SlotOf(a, i)
    BY <1>2, <1>3, <1>5 DEF OpenSlot, Proms
  <2> QED BY <1>1, <2>1, OwedNone
<1> QED BY <1>4, <1>5

\* Promise.all counts its slots right.
LEMMA GoodExact == IInv => AllExact
<1> SUFFICES ASSUME IInv, NEW a \in DOMAIN alls
             PROVE  LET item(i) == prom[alls[a].items[i]]
                        over == {i \in 1..AllSize : ~OpenSlot(a, i)}
                        failed == {i \in over : item(i).status = "rejected"}
                        out == prom[alls[a].out]
                    IN  /\ \A i \in over : item(i).status # "pending"
                        /\ alls[a].remaining = AllSize - Cardinality(over \ failed)
                        /\ \A i \in 1..AllSize :
                              alls[a].results[i] = IF i \in over \ failed THEN item(i).value ELSE Null
                        /\ out.status = IF failed # {} THEN "rejected"
                                        ELSE IF over = 1..AllSize THEN "fulfilled" ELSE "pending"
                        /\ failed # {} => \E i \in failed : out.value = item(i).value
  BY DEF AllExact
<1>1. Exact(Now, alls[a], a) /\ Now.prom = prom
  <2>1. AllsExact(Now, alls) /\ Now.prom = prom
    BY GoodNow, GoodParts
  <2> QED BY <2>1 DEF AllsExact
<1>2. {i \in 1..AllSize : ~OpenSlot(a, i)} = Over(Now, a)
  BY OpenSlots DEF Over
<1>3. {i \in Over(Now, a) : prom[alls[a].items[i]].status = "rejected"} = Failed(Now, alls[a], a)
  BY <1>1 DEF Failed
<1> QED BY <1>1, <1>2, <1>3 DEF Exact, Open

\* The types of TypeOK; Promise.all's count is between 0 and its items.
LEMMA GoodTypes == IInv => TypeOK
<1> SUFFICES ASSUME IInv PROVE TypeOK
  OBVIOUS
<1>1. /\ Good(Now, coro, alls, stack, hosted) /\ Now \in Store /\ Now.prom = prom /\ Now.queue = queue
      /\ calls \in 0..MaxCalls
  BY GoodNow
<1>2. /\ prom \in Seq(PromiseT) /\ queue \in Seq(TaskT) /\ coro \in Seq(CoroT) /\ alls \in Seq(AllT)
      /\ stack \in Seq(FrameT) /\ hosted \subseteq 1..Len(prom) /\ Len(prom) <= MaxProm /\ Len(prom) \in Nat
      /\ AllsExact(Now, alls)
  BY <1>1, GoodParts, StoreParts
<1>3. hosted \subseteq Ids
  BY <1>2, BoundsAssumption DEF Ids
<1>4. ASSUME NEW a \in DOMAIN alls PROVE alls[a].remaining \in 0..AllSize
  <2> DEFINE K == Over(Now, a) \ Failed(Now, alls[a], a)
  <2>1. alls[a].remaining = AllSize - Cardinality(K)
    BY <1>2 DEF AllsExact, Exact
  <2>2. K \subseteq 1..AllSize
    BY DEF Over
  <2> HIDE DEF K
  <2>3. IsFiniteSet(1..AllSize) /\ Cardinality(1..AllSize) = AllSize
    BY AllSizeAssumption, FS_Interval
  <2>4. Cardinality(K) \in Nat /\ Cardinality(K) <= AllSize
    BY <2>2, <2>3, FS_Subset, FS_CardinalityType
  <2> QED BY <2>1, <2>4, AllSizeAssumption
<1> DEFINE CallT == [items : [1..AllSize -> Ids], out : Ids, results : [1..AllSize -> Ids], remaining : 0..AllSize]
<1>5. \A a \in DOMAIN alls : alls[a] \in CallT
  <2> TAKE a \in DOMAIN alls
  <2>1. alls[a] \in AllT
    BY <1>2
  <2>2. alls[a].remaining \in 0..AllSize
    BY <1>4
  <2> QED BY <2>1, <2>2 DEF AllT
<1> HIDE DEF CallT
<1>6. alls \in Seq(CallT)
  BY <1>2, <1>5
<1> QED BY <1>1, <1>2, <1>3, <1>6 DEF TypeOK, PromiseT, TaskT, CoroT, FrameT, Crew, CallT

-----------------------------------------------------------------------------
(* The properties of Promises, in every state.                             *)

\* Every state is typed: no promise, coroutine, task or frame names another that
\* cannot be, and AllCells.remaining never underflows.
THEOREM TypeCorrect == Spec => []TypeOK
BY AlwaysGood, GoodTypes, PTL

\* settle takes every waiter and reaction of a promise, and none is added later.
THEOREM NoneStranded == Spec => []NothingStranded
BY AlwaysGood, GoodStrands, PTL

\* Of a coroutine, a reaction, a handler, a call of Promise.all and the host,
\* exactly one will settle a pending promise, and none a settled one.
THEOREM OneSettles == Spec => []OneSettler
BY AlwaysGood, GoodSettlers, PTL

\* A microtask delivers the outcome of the promise it was queued for, however
\* long it waits.
THEOREM TasksDeliver == Spec => []TasksFaithful
BY AlwaysGood, GoodTasks, PTL

\* A promise resolved with another ends with that one's outcome.
THEOREM AdoptionDelivers == Spec => []AdoptionFaithful
BY AlwaysGood, GoodAdoption, PTL

\* Promise.all decrements once for each item, puts each result in its place,
\* is fulfilled by the last item and rejected by the first rejection.
THEOREM AllsCountRight == Spec => []AllExact
BY AlwaysGood, GoodExact, PTL

\* A coroutine is resumed by what it waits for and by nothing else.
THEOREM CoroutinesInPlace == Spec => []OnePlace
BY AlwaysGood, GoodPlaces, PTL
=============================================================================
