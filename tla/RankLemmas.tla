----------------------------- MODULE RankLemmas -----------------------------
(***************************************************************************)
(* Facts about finite sets of natural numbers that the proofs about queues *)
(* and lists need: they have a least and a greatest element, and the rank  *)
(* of an element, the number of elements that are not greater, goes        *)
(* through 1 .. Cardinality(S).  A queue from which entries are taken out  *)
(* keeps the entries whose places have the ranks of the new places.        *)
(***************************************************************************)
EXTENDS Integers, Sequences, FiniteSets, FiniteSetTheorems, WellFoundedInduction, TLAPS

\* How many elements of S are not greater than i.
Rank(S, i) == Cardinality({j \in S : j <= i})

\* A set of natural numbers that is not empty has a least element.
LEMMA LeastNatural ==
    ASSUME NEW S \in SUBSET Nat, S # {}
    PROVE  \E x \in S : \A y \in S : x <= y
<1> DEFINE Less == {ss \in Nat \X Nat : ss[1] < ss[2]}
<1>1. IsWellFoundedOn(Less, Nat)
  BY NatLessThanWellFounded DEF OpToRel
<1>2. PICK x \in S : \A y \in S : ~(<<y, x>> \in Less)
  <2> HIDE DEF Less
  <2> QED  BY <1>1, WFMin
<1>3. \A y \in S : ~(y < x)  BY <1>2
<1>4. \A y \in S : y \in Nat /\ x \in Nat  OBVIOUS
<1> QED  BY <1>3, <1>4

\* A set of natural numbers that is bounded has a greatest one.
LEMMA GreatestNatural ==
    ASSUME NEW S \in SUBSET Nat, S # {}, NEW n \in Nat, \A s \in S : s <= n
    PROVE  \E x \in S : \A y \in S : y <= x
<1> DEFINE Gap == {m \in Nat : n - m \in S}
<1>1. PICK s \in S : TRUE  OBVIOUS
<1>2. \A y \in S : y \in Nat /\ n - y \in Nat /\ n - (n - y) = y  OBVIOUS
<1>3. \A y \in S : n - y \in Gap  BY <1>2
<1>4. Gap \in SUBSET Nat /\ Gap # {}  BY <1>1, <1>3
<1>5. PICK g \in Gap : \A h \in Gap : g <= h
  <2> HIDE DEF Gap
  <2> QED  BY <1>4, LeastNatural
<1>6. \A y \in S : y <= n - g
  <2> TAKE y \in S
  <2>1. g <= n - y /\ g \in Nat /\ y \in Nat  BY <1>2, <1>3, <1>4, <1>5
  <2> QED  BY <2>1
<1> QED  BY <1>5, <1>6

\* The subsets of 1 .. n are finite.
LEMMA FiniteBounded ==
    ASSUME NEW n \in Nat, NEW S \in SUBSET (1 .. n)
    PROVE  /\ IsFiniteSet(S)
           /\ Cardinality(S) \in Nat
           /\ \A T \in SUBSET S : IsFiniteSet(T) /\ Cardinality(T) \in Nat
                                  /\ Cardinality(T) <= Cardinality(S)
<1>1. IsFiniteSet(1 .. n)  BY FS_Interval
<1>2. IsFiniteSet(S)  BY <1>1, FS_Subset
<1> QED  BY <1>2, FS_Subset, FS_CardinalityType

\* Of two elements the greater one has the greater rank.
LEMMA RankGrows ==
    ASSUME NEW n \in Nat, NEW S \in SUBSET (1 .. n), NEW i \in S, NEW j \in S, i < j
    PROVE  Rank(S, i) < Rank(S, j)
<1> DEFINE A == {k \in S : k <= i}
           B == {k \in S : k <= j}
<1>0. i \in Nat /\ j \in Nat /\ \A k \in S : k \in Nat  OBVIOUS
<1>1. /\ \A k \in A : k \in B
      /\ j \in B
      /\ j \notin A
  BY <1>0
<1>2. IsFiniteSet(B) /\ Cardinality(B) \in Nat /\ Cardinality(A) \in Nat  BY FiniteBounded
<1>3. Cardinality(A) <= Cardinality(B) /\ (Cardinality(B) = Cardinality(A) => A = B)
  <2> HIDE DEF A, B
  <2> QED  BY <1>1, <1>2, FS_Subset
<1> QED  BY <1>1, <1>2, <1>3 DEF Rank

\* So no two elements have the same rank.
LEMMA RankInjective ==
    ASSUME NEW n \in Nat, NEW S \in SUBSET (1 .. n), NEW i \in S, NEW j \in S,
           Rank(S, i) = Rank(S, j)
    PROVE  i = j
<1>1. i \in Nat /\ j \in Nat  OBVIOUS
<1>2. Rank(S, i) \in Nat  BY FiniteBounded DEF Rank
<1>3. CASE i < j
  <2>1. Rank(S, i) < Rank(S, j)  BY <1>3, RankGrows
  <2> QED  BY <2>1, <1>2
<1>4. CASE j < i
  <2>1. Rank(S, j) < Rank(S, i)  BY <1>4, RankGrows
  <2> QED  BY <2>1, <1>2
<1> QED  BY <1>1, <1>3, <1>4

\* A rank is one of 1 .. Cardinality(S).
LEMMA RankType ==
    ASSUME NEW n \in Nat, NEW S \in SUBSET (1 .. n), NEW i \in S
    PROVE  Rank(S, i) \in 1 .. Cardinality(S)
<1> DEFINE R == {j \in S : j <= i}
<1>1. i \in Nat  OBVIOUS
<1>2. i \in R /\ R \in SUBSET S  BY <1>1
<1>3. /\ IsFiniteSet(R) /\ Cardinality(R) \in Nat
      /\ Cardinality(R) <= Cardinality(S) /\ Cardinality(S) \in Nat
  BY <1>2, FiniteBounded
<1>4. Cardinality(R) # 0
  <2> HIDE DEF R
  <2> QED  BY <1>2, <1>3, FS_EmptySet
<1> QED  BY <1>3, <1>4 DEF Rank

\* Every rank is the rank of an element.
LEMMA RankReached ==
    ASSUME NEW n \in Nat, NEW S \in SUBSET (1 .. n), NEW k \in 1 .. Cardinality(S)
    PROVE  \E i \in S : Rank(S, i) = k
<1> DEFINE M == {i \in S : Rank(S, i) >= k}
<1>0. IsFiniteSet(S) /\ Cardinality(S) \in Nat  BY FiniteBounded
<1>1. S # {} /\ S \in SUBSET Nat /\ \A s \in S : s \in Nat /\ s <= n  BY <1>0, FS_EmptySet
<1>2. M # {}
  <2>1. PICK x \in S : \A y \in S : y <= x  BY <1>1, GreatestNatural
  <2>2. {j \in S : j <= x} = S  BY <2>1
  <2>3. Rank(S, x) = Cardinality(S)  BY <2>2 DEF Rank
  <2> QED  BY <2>3, <1>0
<1>3. PICK i \in M : \A j \in M : i <= j
  <2>1. M \in SUBSET Nat  BY <1>1
  <2> HIDE DEF M
  <2> QED  BY <1>2, <2>1, LeastNatural
<1>4. CASE Rank(S, i) # k
  <2> DEFINE R == {j \in S : j <= i}
             P == R \ {i}
  <2>1. IsFiniteSet(R) /\ Cardinality(R) \in Nat /\ Cardinality(R) >= k /\ i \in R
    BY <1>3, FiniteBounded DEF Rank
  <2>2. IsFiniteSet(P) /\ Cardinality(P) = Cardinality(R) - 1 /\ Cardinality(P) >= k
    <3>1. Cardinality(R) # k  BY <1>4 DEF Rank
    <3>2. k \in Nat  OBVIOUS
    <3> HIDE DEF R
    <3>3. IsFiniteSet(P) /\ Cardinality(P) = Cardinality(R) - 1  BY <2>1, FS_RemoveElement
    <3> QED  BY <2>1, <3>1, <3>2, <3>3
  <2>3. P # {}
    <3> HIDE DEF P
    <3> QED  BY <2>2, FS_EmptySet
  <2>4. PICK x \in P : \A y \in P : y <= x
    <3>1. P \in SUBSET Nat /\ \A y \in P : y <= n  BY <1>1
    <3> HIDE DEF P
    <3> QED  BY <2>3, <3>1, GreatestNatural
  <2>5. x \in S /\ x < i /\ i \in Nat  BY <2>4, <1>1, <1>3
  <2>6. {j \in S : j <= x} = P
    <3>1. \A j \in S : j <= x => j \in P  BY <2>5, <1>1
    <3>2. \A j \in P : j \in S /\ j <= x  BY <2>4
    <3> QED  BY <3>1, <3>2
  <2>7. x \in M  BY <2>5, <2>6, <2>2 DEF Rank
  <2> QED  BY <2>5, <2>7, <1>1, <1>3
<1> QED  BY <1>3, <1>4

\* Of the elements of S no more than m have a rank up to m.
LEMMA RankBounds ==
    ASSUME NEW n \in Nat, NEW S \in SUBSET (1 .. n), NEW m \in Nat
    PROVE  /\ IsFiniteSet({i \in S : Rank(S, i) <= m})
           /\ Cardinality({i \in S : Rank(S, i) <= m}) <= m
<1> DEFINE T == {i \in S : Rank(S, i) <= m}
<1>0. IsFiniteSet(T) /\ Cardinality(T) \in Nat  BY FiniteBounded
<1>1. CASE T = {}
  BY <1>1, <1>0, FS_EmptySet
<1>2. CASE T # {}
  <2>1. PICK x \in T : \A y \in T : y <= x
    <3>1. \A y \in T : y \in Nat /\ y <= n  OBVIOUS
    <3> HIDE DEF T
    <3> QED  BY <1>2, <3>1, GreatestNatural
  <2>2. T \in SUBSET {j \in S : j <= x} /\ Cardinality({j \in S : j <= x}) <= m  BY <2>1 DEF Rank
  <2>3. IsFiniteSet({j \in S : j <= x}) /\ Cardinality({j \in S : j <= x}) \in Nat  BY FiniteBounded
  <2>4. Cardinality(T) <= Cardinality({j \in S : j <= x})
    <3> HIDE DEF T
    <3> QED  BY <2>2, <2>3, FS_Subset
  <2> QED  BY <2>2, <2>3, <2>4, <1>0
<1> QED  BY <1>0, <1>1, <1>2

\* The entries of a queue with places of S, in their order, are a sequence of
\* these entries.
Picked(q, S) ==
    [k \in 1 .. Cardinality(S) |-> q[CHOOSE i \in S : Cardinality({j \in S : j <= i}) = k]]

EntriesOf(q) == {q[i] : i \in DOMAIN q}

\* Picking entries keeps their type, and the entries are those of the places.
LEMMA PickedType ==
    ASSUME NEW C, NEW q \in Seq(C), NEW S \in SUBSET DOMAIN q
    PROVE  /\ Picked(q, S) \in Seq(C)
           /\ EntriesOf(Picked(q, S)) = {q[i] : i \in S}
<1> DEFINE at(k) == CHOOSE i \in S : Cardinality({j \in S : j <= i}) = k
           r == [k \in 1 .. Cardinality(S) |-> q[at(k)]]
<1>0. Len(q) \in Nat /\ DOMAIN q = 1 .. Len(q) /\ S \in SUBSET (1 .. Len(q))  OBVIOUS
<1>1. IsFiniteSet(S) /\ Cardinality(S) \in Nat  BY <1>0, FiniteBounded
<1>2. \A k \in 1 .. Cardinality(S) : at(k) \in S /\ Cardinality({j \in S : j <= at(k)}) = k
  <2>1. \A k \in 1 .. Cardinality(S) : \E i \in S : Cardinality({j \in S : j <= i}) = k
    BY <1>0, RankReached DEF Rank
  <2> QED  BY <2>1
<1>3. \A i \in S : Rank(S, i) \in 1 .. Cardinality(S) /\ at(Rank(S, i)) = i
  <2> TAKE i \in S
  <2>1. Rank(S, i) \in 1 .. Cardinality(S)  BY <1>0, RankType
  <2> DEFINE y == at(Rank(S, i))
  <2>2. y \in S /\ Rank(S, y) = Rank(S, i)  BY <2>1, <1>2 DEF Rank
  <2>3. y = i
    <3> HIDE DEF y
    <3> QED  BY <2>2, <1>0, RankInjective
  <2> QED  BY <2>1, <2>3
<1> HIDE DEF at
<1>4. r \in Seq(C)
  <2>0. \A i \in 1 .. Len(q) : q[i] \in C  OBVIOUS
  <2>1. \A k \in 1 .. Cardinality(S) : q[at(k)] \in C  BY <1>0, <1>2, <2>0
  <2>2. r \in [1 .. Cardinality(S) -> C]  BY <2>1
  <2> QED  BY <2>2, <1>1
<1>5. EntriesOf(r) = {q[i] : i \in S}  BY <1>2, <1>3 DEF EntriesOf
<1>6. r = Picked(q, S)  BY DEF Picked, at
<1> HIDE DEF r
<1> QED  BY <1>4, <1>5, <1>6
=============================================================================
