----------------------------- MODULE OrderLemmas -----------------------------
(***************************************************************************)
(* Facts about numbers and orders that the proofs of the components share: *)
(* least and greatest elements, the ranks of a strict order, and what a    *)
(* set picks of a sequence.                                                *)
(***************************************************************************)
EXTENDS Integers, Sequences, Subsequence, FiniteSets, FiniteSetTheorems, FunctionTheorems, WellFoundedInduction, TLAPS

(* A set of naturals that is not empty has a least element: what min() of  *)
(* the fallback chain and every "first" of the reranker rely on.           *)
LEMMA LeastNumber ==
  ASSUME NEW S \in SUBSET Nat, S # {}
  PROVE  \E m \in S : \A k \in S : m <= k
<1> DEFINE R == {ss \in Nat \X Nat : ss[1] < ss[2]}
<1>1. IsWellFoundedOn(R, Nat)
  BY NatLessThanWellFounded DEF OpToRel
<1>2. PICK x \in S : \A y \in S : ~ (<<y, x>> \in R)
  <2> HIDE DEF R
  <2> QED
    BY <1>1, WFMin
<1>3. \A y \in S : <<y, x>> \in R <=> y < x
  OBVIOUS
<1> HIDE DEF R
<1>4. \A y \in S : ~ (y < x)
  BY <1>2, <1>3, Zenon
<1>5. x \in Nat /\ \A y \in S : y \in Nat
  OBVIOUS
<1>6. \A y \in S : x <= y
  BY <1>4, <1>5
<1> QED
  BY <1>6

(* Induction over the naturals, for a set of them.                         *)
LEMMA SetInduction ==
  ASSUME NEW S \in SUBSET Nat, 0 \in S, \A n \in S : n + 1 \in S
  PROVE  \A n \in Nat : n \in S
<1> SUFFICES ASSUME Nat \ S # {} PROVE FALSE
  OBVIOUS
<1>1. PICK m \in Nat \ S : \A k \in Nat \ S : m <= k
  BY LeastNumber
<1>2. m # 0 /\ m - 1 \in Nat
  OBVIOUS
<1>3. m - 1 \in S
  BY <1>1, <1>2
<1>4. (m - 1) + 1 = m
  OBVIOUS
<1> QED
  BY <1>3, <1>4

(* A finite set of integers that is not empty has a greatest element.      *)
LEMMA GreatestNumber ==
  ASSUME NEW S \in SUBSET Int, IsFiniteSet(S), S # {}
  PROVE  \E m \in S : \A k \in S : m >= k
<1> DEFINE Topped(T) == \E m \in T : \A k \in T : m >= k
           Good == {n \in Nat : \A T \in SUBSET Int :
                      IsFiniteSet(T) /\ Cardinality(T) = n /\ T # {} => Topped(T)}
<1>1. 0 \in Good
  BY FS_EmptySet
<1>2. ASSUME NEW n \in Good PROVE n + 1 \in Good
  <2> SUFFICES ASSUME NEW T \in SUBSET Int, IsFiniteSet(T), Cardinality(T) = n + 1, T # {}
               PROVE  Topped(T)
    OBVIOUS
  <2>1. PICK x \in T : TRUE
    OBVIOUS
  <2>2. IsFiniteSet(T \ {x}) /\ Cardinality(T \ {x}) = n
    <3>1. n \in Nat /\ (n + 1) - 1 = n
      BY <1>2
    <3> QED
      BY <2>1, <3>1, FS_RemoveElement
  <2>3. CASE T \ {x} = {}
    <3>1. \A k \in T : k = x
      BY <2>3
    <3>2. x \in Int /\ x >= x
      BY <2>1
    <3> QED
      BY <2>1, <3>1, <3>2
  <2>4. CASE T \ {x} # {}
    <3>1. Topped(T \ {x})
      BY <1>2, <2>2, <2>4
    <3>2. PICK m \in T \ {x} : \A k \in T \ {x} : m >= k
      BY <3>1
    <3>3. CASE m >= x
      <4>1. \A k \in T : m >= k
        BY <3>2, <3>3
      <4> QED
        BY <4>1
    <3>4. CASE ~(m >= x)
      <4>1. \A k \in T : x >= k
        BY <3>2, <3>4
      <4> QED
        BY <4>1
    <3> QED
      BY <3>3, <3>4
  <2> QED
    BY <2>3, <2>4
<1>3. \A n \in Nat : n \in Good
  <2> HIDE DEF Good
  <2>1. Good \in SUBSET Nat
    BY DEF Good
  <2> QED
    BY <1>1, <1>2, <2>1, SetInduction
<1>4. Cardinality(S) \in Nat
  BY FS_CardinalityType
<1> QED
  BY <1>3, <1>4

-----------------------------------------------------------------------------
(* The elements that come before i.                                        *)
Below(S, R, i) == {j \in S : <<j, i>> \in R}

StrictOrder(S, R) ==
  /\ \A i \in S : <<i, i>> \notin R
  /\ \A i, j, k \in S : <<i, j>> \in R /\ <<j, k>> \in R => <<i, k>> \in R
  /\ \A i, j \in S : i # j => <<i, j>> \in R \/ <<j, i>> \in R

(* Ranks are below the size of the set, and grow along the order.          *)
LEMMA RanksGrow ==
  ASSUME NEW S, IsFiniteSet(S), NEW R, StrictOrder(S, R)
  PROVE  /\ \A i \in S : /\ IsFiniteSet(Below(S, R, i))
                        /\ Cardinality(Below(S, R, i)) \in 0..(Cardinality(S) - 1)
         /\ \A i, j \in S : <<i, j>> \in R =>
              Cardinality(Below(S, R, i)) < Cardinality(Below(S, R, j))
<1> DEFINE n == Cardinality(S)
<1>1. n \in Nat
  BY FS_CardinalityType
<1>2. ASSUME NEW i \in S
      PROVE  /\ IsFiniteSet(Below(S, R, i)) /\ Cardinality(Below(S, R, i)) \in Nat
             /\ Cardinality(Below(S, R, i)) <= n - 1
  <2>1. i \notin Below(S, R, i) /\ Below(S, R, i) \subseteq S \ {i}
    BY DEF StrictOrder, Below
  <2>2. IsFiniteSet(S \ {i}) /\ Cardinality(S \ {i}) = n - 1
    BY FS_RemoveElement
  <2>3. /\ IsFiniteSet(Below(S, R, i))
        /\ Cardinality(Below(S, R, i)) <= n - 1
    BY <2>1, <2>2, FS_Subset
  <2>4. Cardinality(Below(S, R, i)) \in Nat
    BY <2>3, FS_CardinalityType
  <2> QED
    BY <2>3, <2>4
<1>3. ASSUME NEW i \in S, NEW j \in S, <<i, j>> \in R
      PROVE  Cardinality(Below(S, R, i)) < Cardinality(Below(S, R, j))
  <2>1. Below(S, R, i) \subseteq Below(S, R, j) \ {i} /\ i \in Below(S, R, j)
    BY <1>3 DEF StrictOrder, Below
  <2>2. /\ IsFiniteSet(Below(S, R, j)) /\ Cardinality(Below(S, R, i)) \in Nat
        /\ Cardinality(Below(S, R, j)) \in Nat
    BY <1>2
  <2>3. /\ IsFiniteSet(Below(S, R, j) \ {i})
        /\ Cardinality(Below(S, R, j) \ {i}) = Cardinality(Below(S, R, j)) - 1
    BY <2>1, <2>2, FS_RemoveElement
  <2>4. Cardinality(Below(S, R, i)) <= Cardinality(Below(S, R, j) \ {i})
    BY <2>1, <2>3, FS_Subset
  <2> QED
    BY <2>2, <2>3, <2>4
<1> QED
  BY <1>1, <1>2, <1>3

(* In a strict order of a finite set every rank below the size of the set  *)
(* is that of an element: what sorted() returns has no holes.              *)
LEMMA RanksExist ==
  ASSUME NEW S, IsFiniteSet(S), NEW R, StrictOrder(S, R), NEW k \in 1..Cardinality(S)
  PROVE  \E i \in S : Cardinality(Below(S, R, i)) = k - 1
<1> DEFINE n == Cardinality(S)
           rank == [i \in S |-> Cardinality(Below(S, R, i))]
           Ranks == {rank[i] : i \in S}
<1>1. n \in Nat
  BY FS_CardinalityType
<1>2. ASSUME NEW i \in S PROVE rank[i] \in Nat /\ rank[i] <= n - 1
  BY <1>1, RanksGrow
<1>3. ASSUME NEW i \in S, NEW j \in S, <<i, j>> \in R PROVE rank[i] < rank[j]
  BY <1>3, RanksGrow
<1>4. ASSUME NEW i \in S, NEW j \in S, rank[i] = rank[j] PROVE i = j
  <2> SUFFICES ASSUME i # j PROVE FALSE
    OBVIOUS
  <2>1. rank[i] \in Nat /\ rank[j] \in Nat
    BY <1>2
  <2>2. <<i, j>> \in R \/ <<j, i>> \in R
    BY DEF StrictOrder
  <2>3. rank[i] < rank[j] \/ rank[j] < rank[i]
    BY <1>3, <2>2
  <2> HIDE DEF rank
  <2> QED
    BY <1>4, <2>1, <2>3
<1>5. rank \in Bijection(S, Ranks)
  <2>1. rank \in [S -> Ranks]
    OBVIOUS
  <2>2. \A t \in Ranks : \E i \in S : rank[i] = t
    OBVIOUS
  <2> HIDE DEF rank, Ranks
  <2>3. rank \in Injection(S, Ranks)
    BY <1>4, <2>1 DEF Injection, IsInjective
  <2>4. rank \in Surjection(S, Ranks)
    BY <2>1, <2>2 DEF Surjection
  <2> QED
    BY <2>3, <2>4 DEF Bijection
<1>6. IsFiniteSet(Ranks) /\ Cardinality(Ranks) = n
  <2> HIDE DEF rank, Ranks, n
  <2>1. ExistsBijection(S, Ranks)
    BY <1>5 DEF ExistsBijection
  <2> QED
    BY <2>1, FS_Bijection DEF n
<1>7. Ranks \subseteq 0..(n - 1)
  BY <1>1, <1>2
<1>8. IsFiniteSet(0..(n - 1)) /\ Cardinality(0..(n - 1)) = n
  <2>1. (n - 1) - 0 + 1 = n /\ (0 > n - 1 => n = 0) /\ n - 1 \in Int
    BY <1>1
  <2> QED
    BY <2>1, FS_Interval
<1>9. Ranks = 0..(n - 1)
  <2> HIDE DEF rank, Ranks, n
  <2> QED
    BY <1>6, <1>7, <1>8, FS_Subset
<1>10. k - 1 \in Ranks
  <2> HIDE DEF rank, Ranks
  <2> QED
    BY <1>1, <1>9
<1> QED
  BY <1>10

(* What a function of a finite domain takes on is finite.                  *)
LEMMA ImageIsFinite ==
  ASSUME NEW S, IsFiniteSet(S), NEW T, NEW f \in [S -> T]
  PROVE  IsFiniteSet({f[x] : x \in S})
<1> DEFINE U == {f[x] : x \in S}
<1>1. f \in [S -> U] /\ \A u \in U : \E x \in S : f[x] = u
  OBVIOUS
<1> HIDE DEF U
<1>2. f \in Surjection(S, U)
  BY <1>1 DEF Surjection
<1>3. IsFiniteSet(U)
  BY <1>2, FS_Surjection
<1> QED
  BY <1>3 DEF U

-----------------------------------------------------------------------------
(* Sequences a set picks from *)

\* What KeptOf has kept of the first n.
Keeps(s, S, f) ==
  f = [n \in 0..Len(s) |-> IF n = 0 THEN <<>>
                           ELSE IF s[n] \in S THEN Append(f[n - 1], s[n]) ELSE f[n - 1]]

(* There is such a function for every sequence.                            *)
LEMMA KeepsExists ==
  ASSUME NEW T, NEW s \in Seq(T), NEW S
  PROVE  \E f : Keeps(s, S, f)
<1> DEFINE Upto(n, g) == g = [i \in 0..n |-> IF i = 0 THEN <<>>
                                ELSE IF s[i] \in S THEN Append(g[i - 1], s[i]) ELSE g[i - 1]]
           Good == {n \in Nat : \E g : Upto(n, g)}
<1>1. 0 \in Good
  <2> DEFINE g == [i \in 0..0 |-> <<>>]
  <2>1. Upto(0, g)
    OBVIOUS
  <2> QED
    BY <2>1
<1>2. ASSUME NEW n \in Good PROVE n + 1 \in Good
  <2>1. PICK g : Upto(n, g)
    OBVIOUS
  <2> DEFINE h == [i \in 0..(n + 1) |-> IF i <= n THEN g[i]
                     ELSE IF s[i] \in S THEN Append(g[i - 1], s[i]) ELSE g[i - 1]]
  <2>2. \A i \in 0..n : h[i] = g[i]
    OBVIOUS
  <2>3. h[n + 1] = IF s[n + 1] \in S THEN Append(h[n], s[n + 1]) ELSE h[n]
    BY <2>2
  <2>4. ASSUME NEW i \in 0..(n + 1)
        PROVE  h[i] = IF i = 0 THEN <<>>
                      ELSE IF s[i] \in S THEN Append(h[i - 1], s[i]) ELSE h[i - 1]
    <3>1. CASE i = n + 1
      BY <3>1, <2>3
    <3>2. CASE i = 0
      BY <3>2, <2>1, <2>2
    <3>3. CASE i \in 1..n
      <4>1. g[i] = IF s[i] \in S THEN Append(g[i - 1], s[i]) ELSE g[i - 1]
        <5>1. i \in 0..n /\ i # 0
          BY <3>3
        <5> QED
          BY <2>1, <5>1, Zenon
      <4>2. i \in 0..n /\ i - 1 \in 0..n /\ i # 0
        BY <3>3
      <4>3. h[i] = g[i] /\ h[i - 1] = g[i - 1]
        BY <2>2, <4>2
      <4> QED
        BY <4>1, <4>2, <4>3
    <3> QED
      BY <3>1, <3>2, <3>3
  <2>5. Upto(n + 1, h)
    <3> DEFINE m == n + 1
    <3>1. h = [i \in 0..m |-> h[i]]
      OBVIOUS
    <3> HIDE DEF h, m
    <3>2. h = [i \in 0..m |-> IF i = 0 THEN <<>>
                      ELSE IF s[i] \in S THEN Append(h[i - 1], s[i]) ELSE h[i - 1]]
      BY <2>4, <3>1 DEF m
    <3> QED
      BY <3>2 DEF m
  <2> HIDE DEF h
  <2>6. \E u : Upto(n + 1, u)
    BY <2>5, Zenon
  <2>7. n + 1 \in Nat
    OBVIOUS
  <2> HIDE DEF Upto
  <2> QED
    BY <2>6, <2>7
<1>0. Good \in SUBSET Nat
  OBVIOUS
<1> HIDE DEF Good
<1>3. \A n \in Nat : n \in Good
  BY <1>0, <1>1, <1>2, SetInduction
<1>4. Len(s) \in Good
  BY <1>3
<1> QED
  BY <1>4 DEF Good, Keeps

\* The same said element by element.
KeptBy(T, s, S, f) ==
  /\ f \in [0..Len(s) -> Seq(T)] /\ f[0] = <<>>
  /\ \A n \in 1..Len(s) : f[n] = IF s[n] \in S THEN Append(f[n - 1], s[n]) ELSE f[n - 1]
  /\ KeptOf(s, S) = f[Len(s)]

(* KeptOf is where such a function ends.                                   *)
LEMMA KeptStep ==
  ASSUME NEW T, NEW s \in Seq(T), NEW S
  PROVE  \E f : KeptBy(T, s, S, f)
<1> DEFINE f == CHOOSE g : Keeps(s, S, g)
<1>1. Keeps(s, S, f)
  BY KeepsExists
<1>2. KeptOf(s, S) = f[Len(s)]
  BY DEF KeptOf, Keeps
<1> HIDE DEF f
<1>3. /\ DOMAIN f = 0..Len(s) /\ f[0] = <<>>
      /\ \A n \in 1..Len(s) :
           f[n] = IF s[n] \in S THEN Append(f[n - 1], s[n]) ELSE f[n - 1]
  <2>1. DOMAIN f = 0..Len(s)
    BY <1>1 DEF Keeps
  <2>2. \A n \in 0..Len(s) : f[n] = IF n = 0 THEN <<>>
                           ELSE IF s[n] \in S THEN Append(f[n - 1], s[n]) ELSE f[n - 1]
    BY <1>1, Zenon DEF Keeps
  <2>3. f[0] = <<>>
    <3>1. 0 \in 0..Len(s)
      OBVIOUS
    <3> QED
      BY <2>2, <3>1, Zenon
  <2>4. ASSUME NEW n \in 1..Len(s)
        PROVE  f[n] = IF s[n] \in S THEN Append(f[n - 1], s[n]) ELSE f[n - 1]
    <3>1. n \in 0..Len(s) /\ n # 0
      OBVIOUS
    <3> QED
      BY <2>2, <3>1, Zenon
  <2> QED
    BY <2>1, <2>3, <2>4
<1> DEFINE Good == {n \in Nat : n <= Len(s) => f[n] \in Seq(T)}
<1>0. Good \in SUBSET Nat
  OBVIOUS
<1>4. 0 \in Good
  <2>1. <<>> \in Seq(T)
    OBVIOUS
  <2> QED
    BY <1>3, <2>1
<1>5. ASSUME NEW n \in Good PROVE n + 1 \in Good
  <2> SUFFICES ASSUME n + 1 <= Len(s) PROVE f[n + 1] \in Seq(T)
    OBVIOUS
  <2>1. n + 1 \in 1..Len(s) /\ f[n] \in Seq(T)
    OBVIOUS
  <2>2. s[n + 1] \in T
    BY <2>1
  <2>3. f[n + 1] = IF s[n + 1] \in S THEN Append(f[n], s[n + 1]) ELSE f[n]
    BY <2>1, <1>3
  <2> QED
    BY <2>1, <2>2, <2>3
<1> HIDE DEF Good
<1>6. \A n \in Nat : n \in Good
  BY <1>0, <1>4, <1>5, SetInduction
<1>7. f \in [0..Len(s) -> Seq(T)]
  <2>1. \A n \in 0..Len(s) : f[n] \in Seq(T)
    BY <1>6 DEF Good
  <2>2. f = [n \in 0..Len(s) |-> f[n]]
    BY <1>1 DEF Keeps
  <2> QED
    BY <2>1, <2>2
<1>8. KeptBy(T, s, S, f)
  BY <1>2, <1>3, <1>7 DEF KeptBy
<1> QED
  BY <1>8

\* k is what S picks of the first n of s, in their order.
PickedOf(s, S, n, k) ==
  /\ \A i \in 1..n : s[i] \in S => \E x \in DOMAIN k : k[x] = s[i]
  /\ \A x \in DOMAIN k : \E i \in 1..n : s[i] \in S /\ k[x] = s[i]
  /\ \A x, y \in DOMAIN k : x < y =>
       \E i, j \in 1..n : i < j /\ s[i] \in S /\ s[j] \in S /\ k[x] = s[i] /\ k[y] = s[j]

(* What is kept are the elements in the set, in the order of the sequence. *)
LEMMA KeptIs ==
  ASSUME NEW T, NEW s \in Seq(T), NEW S
  PROVE  KeptOf(s, S) \in Seq(T) /\ PickedOf(s, S, Len(s), KeptOf(s, S))
<1>0. PICK f : KeptBy(T, s, S, f)
  BY KeptStep
<1>1. /\ f \in [0..Len(s) -> Seq(T)] /\ f[0] = <<>>
      /\ \A n \in 1..Len(s) : f[n] = IF s[n] \in S THEN Append(f[n - 1], s[n]) ELSE f[n - 1]
      /\ KeptOf(s, S) = f[Len(s)]
  BY <1>0 DEF KeptBy
<1> DEFINE Good == {n \in Nat : n <= Len(s) => PickedOf(s, S, n, f[n])}
<1>2. 0 \in Good
  BY <1>1 DEF PickedOf
<1>3. ASSUME NEW n \in Good PROVE n + 1 \in Good
  <2> SUFFICES ASSUME n + 1 <= Len(s) PROVE PickedOf(s, S, n + 1, f[n + 1])
    OBVIOUS
  <2>1. n \in 0..Len(s) /\ n + 1 \in 1..Len(s) /\ PickedOf(s, S, n, f[n])
    OBVIOUS
  <2>2. PICK old \in Seq(T) : old = f[n]
    BY <1>1, <2>1
  <2>3. PICK new \in Seq(T) : new = f[n + 1]
    BY <1>1, <2>1
  <2>4. PICK x \in T : x = s[n + 1]
    BY <2>1
  <2>5. new = IF x \in S THEN Append(old, x) ELSE old
    BY <1>1, <2>1, <2>2, <2>3, <2>4
  <2>6. CASE x \notin S
    <3>1. new = old
      BY <2>5, <2>6
    <3>2. \A i \in 1..(n + 1) : s[i] \in S => i \in 1..n
      BY <2>6, <2>4
    <3>3. \A i \in 1..n : i \in 1..(n + 1)
      BY <2>1
    <3>4. PickedOf(s, S, n, old) /\ f[n + 1] = old
      BY <2>1, <2>2, <2>3, <3>1
    <3> DEFINE all == 1..n  more == 1..(n + 1)
    <3>5. /\ \A i \in more : s[i] \in S => i \in all
          /\ \A i \in all : i \in more
      BY <3>2, <3>3
    <3>6. /\ \A i \in all : s[i] \in S => \E k \in DOMAIN old : old[k] = s[i]
          /\ \A k \in DOMAIN old : \E i \in all : s[i] \in S /\ old[k] = s[i]
          /\ \A k, l \in DOMAIN old : k < l =>
               \E i, j \in all : i < j /\ s[i] \in S /\ s[j] \in S /\ old[k] = s[i] /\ old[l] = s[j]
      BY <3>4 DEF PickedOf
    <3> HIDE DEF all, more
    <3>7. /\ \A i \in more : s[i] \in S => \E k \in DOMAIN old : old[k] = s[i]
          /\ \A k \in DOMAIN old : \E i \in more : s[i] \in S /\ old[k] = s[i]
          /\ \A k, l \in DOMAIN old : k < l =>
               \E i, j \in more : i < j /\ s[i] \in S /\ s[j] \in S /\ old[k] = s[i] /\ old[l] = s[j]
      BY <3>5, <3>6
    <3> QED
      BY <3>4, <3>7 DEF PickedOf, more
  <2>7. CASE x \in S
    <3>1. /\ new = Append(old, x) /\ Len(new) = Len(old) + 1 /\ new[Len(new)] = x
          /\ \A k \in DOMAIN old : new[k] = old[k] /\ k \in DOMAIN new
          /\ \A k \in DOMAIN new : k \in DOMAIN old \/ k = Len(new)
      BY <2>5, <2>7
    <3>2. ASSUME NEW i \in 1..(n + 1), s[i] \in S PROVE \E k \in DOMAIN new : new[k] = s[i]
      <4>1. CASE i = n + 1
        BY <4>1, <3>1, <2>4
      <4>2. CASE i \in 1..n
        <5>1. PICK k \in DOMAIN old : old[k] = s[i]
          BY <4>2, <2>1, <2>2, <3>2 DEF PickedOf
        <5> QED
          BY <5>1, <3>1
      <4> QED
        BY <4>1, <4>2
    <3>3. ASSUME NEW k \in DOMAIN new PROVE \E i \in 1..(n + 1) : s[i] \in S /\ new[k] = s[i]
      <4>1. CASE k = Len(new)
        BY <4>1, <3>1, <2>4, <2>7
      <4>2. CASE k \in DOMAIN old
        <5>1. PICK i \in 1..n : s[i] \in S /\ old[k] = s[i]
          BY <4>2, <2>1, <2>2 DEF PickedOf
        <5> QED
          BY <5>1, <3>1, <4>2
      <4> QED
        BY <4>1, <4>2, <3>1
    <3>4. ASSUME NEW k \in DOMAIN new, NEW l \in DOMAIN new, k < l
          PROVE  \E i, j \in 1..(n + 1) : /\ i < j /\ s[i] \in S /\ s[j] \in S
                                          /\ new[k] = s[i] /\ new[l] = s[j]
      <4>0. k \in DOMAIN old
        BY <3>1, <3>4
      <4>1. CASE l = Len(new)
        <5>1. PICK i \in 1..n : s[i] \in S /\ old[k] = s[i]
          BY <4>0, <2>1, <2>2 DEF PickedOf
        <5>2. i < n + 1 /\ i \in 1..(n + 1) /\ n + 1 \in 1..(n + 1)
          BY <2>1
        <5>3. new[k] = s[i] /\ new[l] = s[n + 1] /\ s[n + 1] \in S
          BY <5>1, <4>0, <4>1, <3>1, <2>4, <2>7
        <5> QED
          BY <5>1, <5>2, <5>3
      <4>2. CASE l \in DOMAIN old
        <5>0. \A a, b \in DOMAIN old : a < b =>
                \E i, j \in 1..n : /\ i < j /\ s[i] \in S /\ s[j] \in S
                                   /\ old[a] = s[i] /\ old[b] = s[j]
          <6>1. PickedOf(s, S, n, old)
            BY <2>1, <2>2, Zenon
          <6> QED
            BY <6>1 DEF PickedOf
        <5>1. PICK i, j \in 1..n : /\ i < j /\ s[i] \in S /\ s[j] \in S
                                   /\ old[k] = s[i] /\ old[l] = s[j]
          BY <4>0, <4>2, <3>4, <5>0, Zenon
        <5>2. i \in 1..(n + 1) /\ j \in 1..(n + 1)
          BY <2>1
        <5>3. \A m \in DOMAIN old : new[m] = old[m]
          BY <3>1
        <5>4. new[k] = old[k] /\ new[l] = old[l]
          BY <4>0, <4>2, <5>3, Zenon
        <5> QED
          BY <5>1, <5>2, <5>4
      <4> QED
        BY <4>1, <4>2, <3>1
    <3> QED
      BY <2>3, <3>2, <3>3, <3>4 DEF PickedOf
  <2> QED
    BY <2>6, <2>7
<1>a. Good \in SUBSET Nat
  OBVIOUS
<1> HIDE DEF Good
<1>4. \A n \in Nat : n \in Good
  BY <1>a, <1>2, <1>3, SetInduction
<1>5. PickedOf(s, S, Len(s), f[Len(s)])
  <2>1. Len(s) \in Good /\ Len(s) <= Len(s)
    BY <1>4
  <2> QED
    BY <2>1 DEF Good
<1> QED
  BY <1>1, <1>5

(* What is kept of the beginning of a sequence is kept in the same order   *)
(* of the whole of it.                                                     *)
LEMMA KeptAgree ==
  ASSUME NEW T, NEW s \in Seq(T), NEW t \in Seq(T), NEW S, NEW R, NEW f, NEW g,
         KeptBy(T, s, S, f), KeptBy(T, t, R, g), Len(s) <= Len(t),
         \A i \in 1..Len(s) : s[i] = t[i] /\ (s[i] \in S <=> t[i] \in R)
  PROVE  \A n \in 0..Len(s) : f[n] = g[n]
<1> DEFINE Good == {n \in Nat : n <= Len(s) => f[n] = g[n]}
<1>0. Good \in SUBSET Nat
  OBVIOUS
<1>1. 0 \in Good
  BY DEF KeptBy
<1>2. ASSUME NEW n \in Good PROVE n + 1 \in Good
  <2> SUFFICES ASSUME n + 1 <= Len(s) PROVE f[n + 1] = g[n + 1]
    OBVIOUS
  <2> DEFINE m == n + 1
  <2>1. m \in 1..Len(s) /\ m \in 1..Len(t) /\ m - 1 = n /\ f[n] = g[n]
    OBVIOUS
  <2> HIDE DEF m
  <2>2. f[m] = IF s[m] \in S THEN Append(f[n], s[m]) ELSE f[n]
    BY <2>1 DEF KeptBy
  <2>3. g[m] = IF t[m] \in R THEN Append(g[n], t[m]) ELSE g[n]
    BY <2>1 DEF KeptBy
  <2>4. s[m] = t[m] /\ (s[m] \in S <=> t[m] \in R)
    BY <2>1
  <2> QED
    BY <2>1, <2>2, <2>3, <2>4 DEF m
<1> HIDE DEF Good
<1>3. \A n \in Nat : n \in Good
  BY <1>0, <1>1, <1>2, SetInduction
<1> QED
  BY <1>3 DEF Good

(* Nothing is kept of nothing.                                             *)
LEMMA KeptEmpty ==
  ASSUME NEW S
  PROVE  KeptOf(<<>>, S) = <<>>
<1>1. PICK f : KeptBy({}, <<>>, S, f)
  <2>1. <<>> \in Seq({})
    OBVIOUS
  <2> QED
    BY <2>1, KeptStep
<1> QED
  BY <1>1 DEF KeptBy

(* Sets that agree on the elements of a sequence keep the same of it.      *)
LEMMA KeptSame ==
  ASSUME NEW T, NEW s \in Seq(T), NEW S, NEW R, \A i \in 1..Len(s) : s[i] \in S <=> s[i] \in R
  PROVE  KeptOf(s, S) = KeptOf(s, R)
<1>1. PICK f : KeptBy(T, s, S, f)
  BY KeptStep
<1>2. PICK g : KeptBy(T, s, R, g)
  BY KeptStep
<1>3. \A n \in 0..Len(s) : f[n] = g[n]
  BY <1>1, <1>2, KeptAgree
<1> QED
  BY <1>1, <1>2, <1>3 DEF KeptBy

(* What is appended is kept at the end, or not at all.                     *)
LEMMA KeptAppend ==
  ASSUME NEW T, NEW s \in Seq(T), NEW x \in T, NEW S
  PROVE  KeptOf(Append(s, x), S) = IF x \in S THEN Append(KeptOf(s, S), x) ELSE KeptOf(s, S)
<1>0. Append(s, x) \in Seq(T)
  OBVIOUS
<1>1. PICK t \in Seq(T) : t = Append(s, x)
  BY <1>0, Zenon
<1>2. /\ Len(t) = Len(s) + 1 /\ t[Len(t)] = x
      /\ \A i \in 1..Len(s) : s[i] = t[i]
  BY <1>1
<1>3. PICK f : KeptBy(T, s, S, f)
  BY KeptStep
<1>4. PICK g : KeptBy(T, t, S, g)
  BY KeptStep
<1>5. \A n \in 0..Len(s) : f[n] = g[n]
  BY <1>2, <1>3, <1>4, KeptAgree
<1>6. g[Len(s)] = f[Len(s)]
  BY <1>5
<1>7. Len(t) \in 1..Len(t) /\ Len(t) - 1 = Len(s)
  BY <1>2
<1>8. g[Len(t)] = IF x \in S THEN Append(g[Len(s)], x) ELSE g[Len(s)]
  BY <1>4, <1>7, <1>2 DEF KeptBy
<1> QED
  BY <1>1, <1>3, <1>4, <1>6, <1>8 DEF KeptBy

(* A set that has all elements of a sequence keeps all of it.              *)
LEMMA KeptAll ==
  ASSUME NEW T, NEW s \in Seq(T), NEW S, \A i \in 1..Len(s) : s[i] \in S
  PROVE  KeptOf(s, S) = s
<1>1. PICK f : KeptBy(T, s, S, f)
  BY KeptStep
<1> DEFINE Good == {n \in Nat : n <= Len(s) => /\ Len(f[n]) = n
                                               /\ \A i \in 1..n : f[n][i] = s[i]}
<1>0. Good \in SUBSET Nat
  OBVIOUS
<1>2. 0 \in Good
  BY <1>1 DEF KeptBy
<1>3. ASSUME NEW n \in Good PROVE n + 1 \in Good
  <2> SUFFICES ASSUME n + 1 <= Len(s)
               PROVE  Len(f[n + 1]) = n + 1 /\ \A i \in 1..(n + 1) : f[n + 1][i] = s[i]
    OBVIOUS
  <2> DEFINE m == n + 1
  <2>1. m \in 1..Len(s) /\ m - 1 = n /\ n \in 0..Len(s) /\ m = n + 1
    OBVIOUS
  <2>2. PICK old \in Seq(T) : old = f[n]
    BY <1>1, <2>1 DEF KeptBy
  <2>3. Len(old) = n /\ \A i \in 1..n : old[i] = s[i]
    BY <2>1, <2>2
  <2>4. PICK x \in T : x = s[m]
    BY <2>1
  <2> HIDE DEF m
  <2>5. f[m] = IF s[m] \in S THEN Append(f[m - 1], s[m]) ELSE f[m - 1]
    BY <1>1, <2>1 DEF KeptBy
  <2>6. s[m] \in S
    BY <2>1
  <2>7. f[m] = Append(old, x)
    BY <2>1, <2>2, <2>4, <2>5, <2>6
  <2> QED
    BY <2>1, <2>3, <2>4, <2>7
<1> HIDE DEF Good
<1>4. \A n \in Nat : n \in Good
  BY <1>0, <1>2, <1>3, SetInduction
<1>5. f[Len(s)] \in Seq(T) /\ Len(f[Len(s)]) = Len(s) /\ \A i \in 1..Len(s) : f[Len(s)][i] = s[i]
  BY <1>1, <1>4 DEF Good, KeptBy
<1>6. f[Len(s)] = s
  BY <1>5
<1> QED
  BY <1>1, <1>6 DEF KeptBy
=============================================================================
