---------------------------- MODULE MCQueryPathProofs --------------------------
(***************************************************************************)
(* A question, for every library of chunks, score and answer, and for any  *)
(* change of the stores meanwhile: the theorems of QueryPath (a selection  *)
(* of sources is kept, the confidence reported is earned, a marker points  *)
(* to the passage the model was shown, a stream has its shape), of the     *)
(* algorithms it calls (fusion, selection, the estimate and the markers of *)
(* Retrieval, on any input), and of what MCQueryPath checks of the chain of models.   *)
(***************************************************************************)
EXTENDS MCQueryPath, OrderLemmas, SequenceTheorems

-----------------------------------------------------------------------------
(* Sequences that are put in order.                                        *)

OneToOne(f) == \A i, j \in DOMAIN f : f[i] = f[j] => i = j

(* Ordered enumerates a finite set: nothing is left out or comes twice.    *)
LEMMA OrderedIs ==
  ASSUME NEW S, IsFiniteSet(S), NEW R, StrictOrder(S, R)
  PROVE  /\ Cardinality(S) \in Nat
         /\ Ordered(S, R) \in [1..Cardinality(S) -> S]
         /\ OneToOne(Ordered(S, R))
         /\ \A i \in S : \E k \in 1..Cardinality(S) : Ordered(S, R)[k] = i
         /\ \A k \in 1..Cardinality(S) :
              Cardinality(Below(S, R, Ordered(S, R)[k])) = k - 1
<1> DEFINE n == Cardinality(S)
           o == Ordered(S, R)
<1>1. n \in Nat
  BY FS_CardinalityType
<1>2. o = [k \in 1..n |-> CHOOSE i \in S : Cardinality(Below(S, R, i)) = k - 1]
  BY DEF Ordered, Below
<1>3. ASSUME NEW k \in 1..n
      PROVE  o[k] \in S /\ Cardinality(Below(S, R, o[k])) = k - 1
  <2>1. \E i \in S : Cardinality(Below(S, R, i)) = k - 1
    BY RanksExist
  <2>2. o[k] = CHOOSE i \in S : Cardinality(Below(S, R, i)) = k - 1
    BY <1>2
  <2> HIDE DEF o
  <2> QED
    BY <2>1, <2>2
<1>4. o \in [1..n -> S]
  BY <1>2, <1>3
<1> HIDE DEF o, n
<1>5. OneToOne(o)
  <2> SUFFICES ASSUME NEW i \in 1..n, NEW j \in 1..n, o[i] = o[j] PROVE i = j
    BY <1>4 DEF OneToOne
  <2>1. i - 1 = j - 1
    BY <1>3
  <2> QED
    BY <1>1, <2>1
<1>6. \A i \in S : \E k \in 1..n : o[k] = i
  <2> DEFINE T == {o[k] : k \in 1..n}
  <2>1. o \in Bijection(1..n, T)
    <3>1. o \in [1..n -> T]
      BY <1>4
    <3>2. \A t \in T : \E k \in 1..n : o[k] = t
      OBVIOUS
    <3>3. DOMAIN o = 1..n
      BY <1>4
    <3> HIDE DEF T
    <3>4. o \in Injection(1..n, T)
      BY <1>5, <3>1, <3>3 DEF Injection, IsInjective, OneToOne
    <3>5. o \in Surjection(1..n, T)
      BY <3>1, <3>2 DEF Surjection
    <3> QED
      BY <3>4, <3>5 DEF Bijection
  <2>2. IsFiniteSet(1..n) /\ Cardinality(1..n) = n
    <3>1. n - 1 + 1 = n /\ (1 > n => n = 0)
      BY <1>1
    <3> QED
      BY <1>1, <3>1, FS_Interval
  <2>3. Cardinality(T) = n
    <3> HIDE DEF T
    <3>1. ExistsBijection(1..n, T)
      BY <2>1 DEF ExistsBijection
    <3> QED
      BY <2>2, <3>1, FS_Bijection
  <2>4. T \subseteq S
    BY <1>4
  <2>5. T = S
    <3> HIDE DEF T
    <3> QED
      BY <2>3, <2>4, FS_Subset DEF n
  <2> QED
    BY <2>5
<1> QED
  BY <1>1, <1>3, <1>4, <1>5, <1>6 DEF o, n

(* What comes before in the order comes before in Ordered.                 *)
LEMMA OrderedKeeps ==
  ASSUME NEW S, IsFiniteSet(S), NEW R, StrictOrder(S, R),
         NEW i \in 1..Cardinality(S), NEW j \in 1..Cardinality(S),
         <<Ordered(S, R)[i], Ordered(S, R)[j]>> \in R
  PROVE  i < j
<1> DEFINE o == Ordered(S, R)
<1>1. /\ Cardinality(S) \in Nat /\ o[i] \in S /\ o[j] \in S
      /\ Cardinality(Below(S, R, o[i])) = i - 1
      /\ Cardinality(Below(S, R, o[j])) = j - 1
  <2>1. /\ Cardinality(S) \in Nat /\ o \in [1..Cardinality(S) -> S]
        /\ \A k \in 1..Cardinality(S) : Cardinality(Below(S, R, o[k])) = k - 1
    BY OrderedIs
  <2> HIDE DEF o
  <2> QED
    BY <2>1
<1> HIDE DEF o
<1>2. Cardinality(Below(S, R, o[i])) < Cardinality(Below(S, R, o[j]))
  BY <1>1, RanksGrow DEF o
<1> QED
  BY <1>1, <1>2

(* The positions of a sequence.                                            *)
LEMMA PlacesIn ==
  ASSUME NEW X, NEW s \in Seq(X)
  PROVE  /\ Len(s) \in Nat /\ DOMAIN s = 1..Len(s)
         /\ IsFiniteSet(DOMAIN s) /\ Cardinality(DOMAIN s) = Len(s)
<1>1. Len(s) \in Nat /\ DOMAIN s = 1..Len(s)
  BY LenProperties
<1>2. Len(s) - 1 + 1 = Len(s) /\ (1 > Len(s) => Len(s) = 0)
  BY <1>1
<1>3. IsFiniteSet(1..Len(s)) /\ Cardinality(1..Len(s)) = Len(s)
  BY <1>1, <1>2, FS_Interval
<1> QED
  BY <1>1, <1>3

(* PickedFrom keeps chosen positions, each once and in the order of s.     *)
LEMMA PickedIs ==
  ASSUME NEW X, NEW s \in Seq(X), NEW P \in SUBSET DOMAIN s
  PROVE  \E n \in Nat : \E f \in [1..n -> P] :
           OneToOne(f) /\ PickedFrom(s, P) = [k \in 1..n |-> s[f[k]]]
<1> DEFINE R == {r \in P \X P : r[1] < r[2]}
           f == Ordered(P, R)
           n == Cardinality(P)
<1>1. IsFiniteSet(P) /\ P \subseteq Nat
  BY PlacesIn, FS_Subset
<1>2. \A i, j \in P : <<i, j>> \in R <=> i < j
  OBVIOUS
<1>3. StrictOrder(P, R)
  <2> HIDE DEF R
  <2>1. \A i \in P : i \in Nat
    BY <1>1
  <2> QED
    BY <1>2, <2>1 DEF StrictOrder
<1>4. n \in Nat /\ f \in [1..n -> P] /\ OneToOne(f)
  <2> HIDE DEF R
  <2> QED
    BY <1>1, <1>3, OrderedIs
<1>5. PickedFrom(s, P) = [k \in DOMAIN f |-> s[f[k]]]
  BY DEF PickedFrom
<1>6. DOMAIN f = 1..n
  <2> HIDE DEF f
  <2> QED
    BY <1>4
<1> HIDE DEF f, n
<1> QED
  BY <1>4, <1>5, <1>6

(* A larger number first, then the earlier place: a strict order.          *)
LEMMA LargerFirst ==
  ASSUME NEW D, NEW key \in [D -> Int], NEW place \in [D -> Int], OneToOne(place), NEW R,
         \A i, j \in D : <<i, j>> \in R
                         <=> (key[i] > key[j] \/ (key[i] = key[j] /\ place[i] < place[j]))
  PROVE  StrictOrder(D, R)
<1>1. \A i \in D : key[i] \in Int /\ place[i] \in Int
  OBVIOUS
<1>2. ASSUME NEW i \in D PROVE <<i, i>> \notin R
  BY <1>1
<1>3. ASSUME NEW i \in D, NEW j \in D, i # j PROVE <<i, j>> \in R \/ <<j, i>> \in R
  <2>1. place[i] # place[j]
    BY <1>3 DEF OneToOne
  <2> QED
    BY <1>1, <2>1
<1>4. ASSUME NEW i \in D, NEW j \in D, NEW k \in D, <<i, j>> \in R, <<j, k>> \in R
      PROVE  <<i, k>> \in R
  <2>1. /\ key[i] > key[j] \/ (key[i] = key[j] /\ place[i] < place[j])
        /\ key[j] > key[k] \/ (key[j] = key[k] /\ place[j] < place[k])
    BY <1>4
  <2>2. key[i] > key[k] \/ (key[i] = key[k] /\ place[i] < place[k])
    BY <1>1, <2>1
  <2> QED
    BY <2>2
<1> QED
  BY <1>2, <1>3, <1>4, Zenon DEF StrictOrder

(* A one-to-one function of 1..m takes on m values.                        *)
LEMMA ValuesOf ==
  ASSUME NEW m \in Nat, NEW X, NEW f \in [1..m -> X], OneToOne(f)
  PROVE  IsFiniteSet({f[k] : k \in 1..m}) /\ Cardinality({f[k] : k \in 1..m}) = m
<1> DEFINE T == {f[k] : k \in 1..m}
<1>1. f \in Bijection(1..m, T)
  <2>1. f \in [1..m -> T]
    OBVIOUS
  <2>2. \A t \in T : \E k \in 1..m : f[k] = t
    OBVIOUS
  <2> HIDE DEF T
  <2>3. f \in Injection(1..m, T)
    BY <2>1 DEF Injection, IsInjective, OneToOne
  <2>4. f \in Surjection(1..m, T)
    BY <2>1, <2>2 DEF Surjection
  <2> QED
    BY <2>3, <2>4 DEF Bijection
<1>2. IsFiniteSet(1..m) /\ Cardinality(1..m) = m
  <2>1. m - 1 + 1 = m /\ (1 > m => m = 0)
    OBVIOUS
  <2> QED
    BY <2>1, FS_Interval
<1> HIDE DEF T
<1>3. ExistsBijection(1..m, T)
  BY <1>1 DEF ExistsBijection
<1>4. IsFiniteSet(T) /\ Cardinality(T) = m
  BY <1>2, <1>3, FS_Bijection
<1> QED
  BY <1>4 DEF T

(* The first places of a list are different places.                        *)
LEMMA FirstPlaces ==
  ASSUME NEW m \in Nat
  PROVE  /\ {[k \in 1..m |-> k][i] : i \in 1..m} = 1..m
         /\ IsFiniteSet(1..m) /\ Cardinality(1..m) = m
<1>1. m - 1 + 1 = m /\ (1 > m => m = 0)
  OBVIOUS
<1>2. IsFiniteSet(1..m) /\ Cardinality(1..m) = m
  BY <1>1, FS_Interval
<1> QED
  BY <1>2

(* A list.                                                                 *)
List(s) == Len(s) \in Nat /\ DOMAIN s = 1..Len(s) /\ s = [i \in DOMAIN s |-> s[i]]

(* A list of chunks, each with a score.                                    *)
Graded(s) == List(s) /\ \A i \in DOMAIN s : s[i].p \in Int

(* BestFirst only reorders, and the best come first.                       *)
LEMMA BestFirstIs ==
  ASSUME NEW s, Graded(s)
  PROVE  \E o \in [1..Len(s) -> 1..Len(s)] :
           /\ OneToOne(o) /\ \A i \in 1..Len(s) : \E k \in 1..Len(s) : o[k] = i
           /\ BestFirst(s) = [k \in 1..Len(s) |-> s[o[k]]]
           /\ \A i, j \in 1..Len(s) : i < j => s[o[i]].p >= s[o[j]].p
<1> DEFINE D == DOMAIN s
           n == Len(s)
           R == {r \in D \X D : \/ s[r[1]].p > s[r[2]].p
                                \/ s[r[1]].p = s[r[2]].p /\ r[1] < r[2]}
           o == Ordered(D, R)
           key == [i \in D |-> s[i].p]
           place == [i \in D |-> i]
<1>1. n \in Nat /\ D = 1..n
  BY DEF Graded, List
<1>2. IsFiniteSet(D) /\ Cardinality(D) = n
  <2>1. n - 1 + 1 = n /\ (1 > n => n = 0)
    BY <1>1
  <2> QED
    BY <1>1, <2>1, FS_Interval
<1>3. \A i, j \in D : <<i, j>> \in R
                      <=> (key[i] > key[j] \/ (key[i] = key[j] /\ place[i] < place[j]))
  OBVIOUS
<1>4. key \in [D -> Int] /\ place \in [D -> Int] /\ OneToOne(place)
  BY <1>1 DEF OneToOne, Graded
<1>5. StrictOrder(D, R)
  <2> HIDE DEF D, R, key, place
  <2> QED
    BY <1>3, <1>4, LargerFirst
<1>6. o \in [1..n -> D] /\ OneToOne(o) /\ \A i \in D : \E k \in 1..n : o[k] = i
  <2> HIDE DEF D, R
  <2> QED
    BY <1>2, <1>5, OrderedIs
<1>7. ASSUME NEW i \in 1..n, NEW j \in 1..n, i < j PROVE s[o[i]].p >= s[o[j]].p
  <2>1. o[i] \in D /\ o[j] \in D
    <3> HIDE DEF o, D
    <3> QED
      BY <1>6
  <2>2. s[o[i]].p \in Int /\ s[o[j]].p \in Int
    BY <2>1 DEF Graded
  <2>3. <<o[j], o[i]>> \notin R
    <3> HIDE DEF D, R
    <3>1. ASSUME <<o[j], o[i]>> \in R PROVE j < i
      BY <1>2, <1>5, <3>1, OrderedKeeps
    <3> QED
      BY <1>1, <1>7, <3>1
  <2>4. ~(s[o[j]].p > s[o[i]].p)
    <3> HIDE DEF o
    <3> QED
      BY <2>1, <2>3
  <2> HIDE DEF o
  <2> QED
    BY <2>2, <2>4
<1>8. BestFirst(s) = [k \in DOMAIN o |-> s[o[k]]]
  BY DEF BestFirst
<1>9. DOMAIN o = 1..n
  <2> HIDE DEF o
  <2> QED
    BY <1>6
<1> HIDE DEF o
<1>10. BestFirst(s) = [k \in 1..n |-> s[o[k]]]
  BY <1>8, <1>9
<1>11. o \in [1..n -> 1..n] /\ \A i \in 1..n : \E k \in 1..n : o[k] = i
  BY <1>1, <1>6
<1> QED
  BY <1>6, <1>7, <1>10, <1>11

-----------------------------------------------------------------------------
(* Lists of chunks of a selection of sources.                              *)

(* Lists whose entries are told apart by their ids.                        *)
Listed(s) == /\ Len(s) \in Nat /\ DOMAIN s = 1..Len(s)
             /\ \A i, j \in DOMAIN s : s[i].id = s[j].id => i = j

(* Lists of chunks: no chunk twice, all of sources in some set.            *)
Proper(s, held) ==
  /\ s \in Seq(Chunks)
  /\ \A i, j \in DOMAIN s : s[i].id = s[j].id => i = j
  /\ \A i \in DOMAIN s : s[i].src \in held

(* A list of chunks of a selection is both.                                *)
LEMMA ProperIsGraded ==
  ASSUME NEW held, NEW s, Proper(s, held)
  PROVE  Listed(s) /\ Graded(s) /\ DOMAIN s = 1..Len(s)
<1>1. s \in Seq(Chunks) /\ Len(s) \in Nat /\ DOMAIN s = 1..Len(s)
  BY PlacesIn DEF Proper
<1>2. s = [i \in DOMAIN s |-> s[i]]
  BY <1>1
<1>3. \A i \in DOMAIN s : s[i].p \in Int
  <2>1. \A i \in DOMAIN s : s[i] \in Chunks
    BY <1>1
  <2>2. \A c \in Chunks : c.p \in Int
    BY DEF Chunks
  <2> QED
    BY <2>1, <2>2
<1>4. \A i, j \in DOMAIN s : s[i].id = s[j].id => i = j
  BY DEF Proper
<1> QED
  BY <1>1, <1>2, <1>3, <1>4 DEF Listed, Graded, List

(* A list made of some entries of a proper one, each at most once, is      *)
(* proper,                                                                 *)
LEMMA Rearranged ==
  ASSUME NEW held, NEW s, Proper(s, held), NEW n \in Nat,
         NEW f \in [1..n -> DOMAIN s], OneToOne(f)
  PROVE  Proper([k \in 1..n |-> s[f[k]]], held)
<1> DEFINE t == [k \in 1..n |-> s[f[k]]]
<1>1. \A k \in 1..n : f[k] \in DOMAIN s /\ t[k] = s[f[k]]
  OBVIOUS
<1>2. \A i \in DOMAIN s : s[i] \in Chunks
  BY DEF Proper
<1>3. t \in [1..n -> Chunks]
  BY <1>1, <1>2
<1>4. DOMAIN t = 1..n
  OBVIOUS
<1>5. t \in Seq(Chunks)
  BY <1>3, SeqDef
<1> HIDE DEF t
<1>6. ASSUME NEW i \in 1..n, NEW j \in 1..n, t[i].id = t[j].id PROVE i = j
  <2>1. f[i] \in DOMAIN s /\ f[j] \in DOMAIN s /\ s[f[i]].id = s[f[j]].id
    BY <1>1, <1>6
  <2>2. f[i] = f[j]
    BY <2>1 DEF Proper
  <2>3. DOMAIN f = 1..n
    OBVIOUS
  <2> QED
    BY <2>2, <2>3 DEF OneToOne
<1>7. \A k \in 1..n : t[k].src \in held
  BY <1>1 DEF Proper
<1> QED
  BY <1>4, <1>5, <1>6, <1>7 DEF Proper, t

(* the first entries of one too,                                           *)
LEMMA TakeProper ==
  ASSUME NEW held, NEW s, Proper(s, held), NEW n \in Nat
  PROVE  /\ Proper(Take(s, n), held)
         /\ Len(Take(s, n)) = Least(n, Len(s))
         /\ \A i \in DOMAIN Take(s, n) : i \in DOMAIN s /\ Take(s, n)[i] = s[i]
<1>1. s \in Seq(Chunks) /\ Len(s) \in Nat
  BY PlacesIn DEF Proper
<1>2. Least(n, Len(s)) \in 0..Len(s)
  BY <1>1 DEF Least
<1> DEFINE m == Least(n, Len(s))
           f == [k \in 1..m |-> k]
<1>3. Take(s, n) = [k \in 1..m |-> s[k]]
  BY <1>1, <1>2 DEF Take
<1>4. m \in Nat /\ f \in [1..m -> DOMAIN s] /\ OneToOne(f) /\ DOMAIN s = 1..Len(s)
  BY <1>1, <1>2, PlacesIn DEF OneToOne
<1>5. [k \in 1..m |-> s[k]] = [k \in 1..m |-> s[f[k]]]
  OBVIOUS
<1>6. Proper([k \in 1..m |-> s[f[k]]], held)
  BY <1>4, Rearranged
<1>7. Len([k \in 1..m |-> s[k]]) = m
  BY <1>4
<1> QED
  BY <1>2, <1>3, <1>4, <1>5, <1>6, <1>7

(* and so is one put in order.                                             *)
LEMMA BestFirstProper ==
  ASSUME NEW held, NEW s, Proper(s, held)
  PROVE  Proper(BestFirst(s), held)
<1>1. Graded(s) /\ DOMAIN s = 1..Len(s) /\ Len(s) \in Nat
  BY ProperIsGraded DEF Graded, List
<1>2. PICK o \in [1..Len(s) -> 1..Len(s)] :
        OneToOne(o) /\ BestFirst(s) = [k \in 1..Len(s) |-> s[o[k]]]
  BY <1>1, BestFirstIs
<1>3. Proper([k \in 1..Len(s) |-> s[o[k]]], held)
  BY <1>1, <1>2, Rearranged
<1> QED
  BY <1>2, <1>3

-----------------------------------------------------------------------------
(* Arithmetic.                                                             *)

(* A quotient of two numbers is one, and not too small.                    *)
LEMMA QuotientIs ==
  ASSUME NEW x \in Nat, NEW y \in Nat \ {0}
  PROVE  x \div y \in Nat /\ y * (x \div y) <= x /\ x < y * (x \div y) + y
OBVIOUS

(* A common factor cancels.                                                *)
LEMMA Cancels ==
  ASSUME NEW u \in Int, NEW v \in Int, NEW n \in Nat \ {0}, u * n < v * n
  PROVE  u < v
<1> SUFFICES ASSUME u >= v PROVE FALSE
  OBVIOUS
<1> PICK d \in Nat : d = u - v
  OBVIOUS
<1>1. d * n >= 0
  OBVIOUS
<1>2. u * n = v * n + d * n
  OBVIOUS
<1>3. u * n \in Int /\ v * n \in Int
  OBVIOUS
<1> QED
  BY <1>1, <1>2, <1>3

(* The lesser of two numbers is the greatest below both.                   *)
LEMMA LeastIs ==
  ASSUME NEW a \in Nat, NEW b \in Nat
  PROVE  /\ Least(a, b) \in Nat /\ Least(a, b) <= a /\ Least(a, b) <= b
         /\ \A c \in Nat : c <= a /\ c <= b => c <= Least(a, b)
BY DEF Least

(* The least of three numbers is one of them.                              *)
LEMMA LeastOfThree ==
  ASSUME NEW a \in Nat, NEW b \in Nat, NEW c \in Nat, NEW m, m = Least(Least(a, b), c)
  PROVE  m \in Nat /\ m <= a /\ m <= b /\ m <= c /\ (m = a \/ m = b \/ m = c)
BY DEF Least

(* The greatest of finitely many numbers.                                  *)
LEMMA MaxIs ==
  ASSUME NEW S \in SUBSET Int, IsFiniteSet(S), S # {}
  PROVE  Max(S) \in S /\ \A k \in S : Max(S) >= k
BY GreatestNumber DEF Max

-----------------------------------------------------------------------------
(* Fusion.                                                                 *)

(* The rank of an id in a list is its place, or 0 when it is not in it.    *)
LEMMA RankOf ==
  ASSUME NEW s, Listed(s), NEW id
  PROVE  /\ RankIn(s, id) \in Nat /\ RankIn(s, id) <= Len(s)
         /\ RankIn(s, id) # 0 => RankIn(s, id) \in DOMAIN s /\ s[RankIn(s, id)].id = id
         /\ \A i \in DOMAIN s : s[i].id = id => RankIn(s, id) = i
<1> DEFINE at == {i \in DOMAIN s : s[i].id = id}
<1>1. DOMAIN s = 1..Len(s) /\ Len(s) \in Nat
  BY DEF Listed
<1>2. CASE at = {}
  BY <1>1, <1>2 DEF RankIn
<1>3. CASE at # {}
  <2>1. RankIn(s, id) = CHOOSE i \in at : TRUE
    BY <1>3 DEF RankIn
  <2>2. RankIn(s, id) \in at
    BY <1>3, <2>1
  <2>3. \A i \in at : i = RankIn(s, id)
    BY <2>2 DEF Listed
  <2> QED
    BY <1>1, <2>2, <2>3
<1> QED
  BY <1>2, <1>3

(* Its share of the sum is a number.                                       *)
LEMMA ShareOf ==
  ASSUME NEW s, Listed(s), NEW id
  PROVE  Share(s, id) \in Nat
<1>1. RankIn(s, id) \in Nat /\ RrfK \in Nat \ {0}
  BY RankOf, RetrievalAssumption
<1>2. RrfK + RankIn(s, id) \in Nat \ {0}
  BY <1>1
<1>3. 1000000 \div (RrfK + RankIn(s, id)) \in Nat
  BY <1>2, QuotientIs
<1> QED
  BY <1>3 DEF Share

(* The larger the rank, the smaller the share.                             *)
LEMMA ShareFalls ==
  ASSUME NEW s, Listed(s), NEW x, NEW y, RankIn(s, x) # 0,
         RankIn(s, y) = 0 \/ RankIn(s, x) < RankIn(s, y)
  PROVE  Share(s, x) >= Share(s, y)
<1>1. RankIn(s, x) \in Nat /\ RankIn(s, y) \in Nat /\ RrfK \in Nat \ {0}
  BY RankOf, RetrievalAssumption
<1>2. Share(s, x) \in Nat /\ Share(s, y) \in Nat
  BY ShareOf
<1>3. CASE RankIn(s, y) = 0
  BY <1>2, <1>3 DEF Share
<1>4. CASE RankIn(s, y) # 0
  <2> DEFINE a == RrfK + RankIn(s, x)
             b == RrfK + RankIn(s, y)
  <2>1. a \in Nat \ {0} /\ b \in Nat \ {0} /\ a < b
    BY <1>1, <1>4
  <2>2. Share(s, x) = 1000000 \div a /\ Share(s, y) = 1000000 \div b
    BY <1>4 DEF Share
  <2> HIDE DEF a, b
  <2> DEFINE p == 1000000 \div a
             q == 1000000 \div b
  <2>3. /\ p \in Nat /\ 1000000 < a * p + a
        /\ q \in Nat /\ b * q <= 1000000
    BY <2>1, QuotientIs
  <2> HIDE DEF p, q
  <2>4. a * q <= b * q
    BY <2>1, <2>3
  <2>5. a * q < (p + 1) * a
    BY <2>1, <2>3, <2>4
  <2>6. q * a < (p + 1) * a
    BY <2>1, <2>3, <2>5
  <2>7. q < p + 1
    BY <2>1, <2>3, <2>6, Cancels
  <2> QED
    BY <2>2, <2>3, <2>7 DEF p, q
<1> QED
  BY <1>3, <1>4

(* The sum fuse sorts by, where it met an id, and the chunk it took.       *)
SumOf(bm25, from, id) == Share(bm25, id) + Share(from, id)
MetAt(bm25, from, id) == IF RankIn(bm25, id) # 0 THEN RankIn(bm25, id)
                         ELSE Len(bm25) + RankIn(from, id)
ChunkOf(bm25, from, id) == IF RankIn(bm25, id) # 0 THEN bm25[RankIn(bm25, id)]
                           ELSE from[RankIn(from, id)]
IdsOf(s) == {s[i].id : i \in DOMAIN s}

(* A list has finitely many ids.                                           *)
LEMMA IdsFinite ==
  ASSUME NEW s, Listed(s)
  PROVE  IsFiniteSet(IdsOf(s))
<1> DEFINE f == [i \in DOMAIN s |-> s[i].id]
<1>1. IsFiniteSet(DOMAIN s)
  <2>1. DOMAIN s = 1..Len(s) /\ Len(s) \in Nat
    BY DEF Listed
  <2>2. IsFiniteSet(1..Len(s))
    BY <2>1, FS_Interval
  <2> QED
    BY <2>1, <2>2
<1>2. PICK T : f \in [DOMAIN s -> T]
  <2>1. f \in [DOMAIN s -> {s[i].id : i \in DOMAIN s}]
    OBVIOUS
  <2> HIDE DEF f
  <2> QED
    BY <2>1
<1>3. IdsOf(s) = {f[i] : i \in DOMAIN s}
  BY DEF IdsOf
<1> HIDE DEF f
<1>4. IsFiniteSet({f[i] : i \in DOMAIN s})
  BY <1>1, <1>2, ImageIsFinite
<1> QED
  BY <1>3, <1>4

(* The chunk it took of an id has that id, and is of one of the lists.     *)
LEMMA ChunkIs ==
  ASSUME NEW bm25, Listed(bm25), NEW from, Listed(from), NEW id \in IdsOf(bm25) \cup IdsOf(from)
  PROVE  /\ ChunkOf(bm25, from, id).id = id
         /\ \/ /\ RankIn(bm25, id) \in DOMAIN bm25
               /\ ChunkOf(bm25, from, id) = bm25[RankIn(bm25, id)]
            \/ /\ RankIn(bm25, id) = 0 /\ RankIn(from, id) \in DOMAIN from
               /\ ChunkOf(bm25, from, id) = from[RankIn(from, id)]
<1>1. \/ \E i \in DOMAIN bm25 : bm25[i].id = id
      \/ \E i \in DOMAIN from : from[i].id = id
  BY DEF IdsOf
<1>2. CASE RankIn(bm25, id) # 0
  <2>1. RankIn(bm25, id) \in DOMAIN bm25 /\ bm25[RankIn(bm25, id)].id = id
    BY <1>2, RankOf
  <2> QED
    BY <1>2, <2>1 DEF ChunkOf
<1>3. CASE RankIn(bm25, id) = 0
  <2>1. ~ \E i \in DOMAIN bm25 : bm25[i].id = id
    <3>1. \A i \in DOMAIN bm25 : bm25[i].id = id => RankIn(bm25, id) = i
      BY RankOf
    <3>2. 0 \notin DOMAIN bm25
      BY DEF Listed
    <3> QED
      BY <1>3, <3>1, <3>2
  <2>2. PICK i \in DOMAIN from : from[i].id = id
    BY <1>1, <2>1
  <2>3. RankIn(from, id) = i
    BY <2>2, RankOf
  <2> QED
    BY <1>3, <2>2, <2>3 DEF ChunkOf
<1> QED
  BY <1>2, <1>3

(* No two ids were met at one place.                                       *)
LEMMA MetOnce ==
  ASSUME NEW bm25, Listed(bm25), NEW from, Listed(from),
         NEW x \in IdsOf(bm25) \cup IdsOf(from), NEW y \in IdsOf(bm25) \cup IdsOf(from),
         MetAt(bm25, from, x) = MetAt(bm25, from, y)
  PROVE  x = y
<1> DEFINE bx == RankIn(bm25, x)  by == RankIn(bm25, y)
           fx == RankIn(from, x)  fy == RankIn(from, y)  len == Len(bm25)
<1>1. (IF bx # 0 THEN bx ELSE len + fx) = (IF by # 0 THEN by ELSE len + fy)
  BY DEF MetAt
<1>2. /\ bx \in 1..len \/ (bx = 0 /\ fx \in Nat \ {0})
      /\ by \in 1..len \/ (by = 0 /\ fy \in Nat \ {0})
  <2>1. DOMAIN bm25 = 1..len /\ DOMAIN from = 1..Len(from)
    BY DEF Listed
  <2>2. ASSUME NEW id \in IdsOf(bm25) \cup IdsOf(from)
        PROVE  \/ RankIn(bm25, id) \in 1..len
               \/ RankIn(bm25, id) = 0 /\ RankIn(from, id) \in Nat \ {0}
    BY <2>1, ChunkIs
  <2> QED
    BY <2>2
<1>3. len \in Nat
  BY DEF Listed
<1>4. (bx # 0 <=> by # 0) /\ (bx # 0 => bx = by) /\ (bx = 0 => fx = fy)
  <2> HIDE DEF bx, by, fx, fy, len
  <2> QED
    BY <1>1, <1>2, <1>3
<1>5. ChunkOf(bm25, from, x) = ChunkOf(bm25, from, y)
  BY <1>4 DEF ChunkOf
<1>6. ChunkOf(bm25, from, x).id = x /\ ChunkOf(bm25, from, y).id = y
  BY ChunkIs
<1> QED
  BY <1>5, <1>6

(* One id before another, as fuse sorts them.                              *)
Prefers(bm25, from, x, y) ==
  \/ SumOf(bm25, from, x) > SumOf(bm25, from, y)
  \/ /\ SumOf(bm25, from, x) = SumOf(bm25, from, y)
     /\ MetAt(bm25, from, x) < MetAt(bm25, from, y)

(* What fuse returns: the chunk of each id, in the order of their sums.    *)
LEMMA FuseLists ==
  ASSUME NEW bm25, Listed(bm25), NEW from, Listed(from)
  PROVE  LET ids == IdsOf(bm25) \cup IdsOf(from)
         IN  /\ Cardinality(ids) \in Nat
             /\ \E f \in [1..Cardinality(ids) -> ids] :
                  /\ OneToOne(f)
                  /\ \A id \in ids : \E k \in 1..Cardinality(ids) : f[k] = id
                  /\ Fuse(bm25, from)
                       = [k \in 1..Cardinality(ids) |-> ChunkOf(bm25, from, f[k])]
                  /\ \A i, j \in 1..Cardinality(ids) :
                       Prefers(bm25, from, f[i], f[j]) => i < j
<1> DEFINE ids == IdsOf(bm25) \cup IdsOf(from)
           sum == [id \in ids |-> SumOf(bm25, from, id)]
           met == [id \in ids |-> MetAt(bm25, from, id)]
           R == {r \in ids \X ids : Prefers(bm25, from, r[1], r[2])}
           f == Ordered(ids, R)
           n == Cardinality(ids)
<1>1. IsFiniteSet(ids)
  <2>1. IsFiniteSet(IdsOf(bm25)) /\ IsFiniteSet(IdsOf(from))
    BY IdsFinite
  <2> QED
    BY <2>1, FS_Union
<1>2. sum \in [ids -> Int] /\ met \in [ids -> Int]
  <2>1. \A id : Share(bm25, id) \in Nat /\ Share(from, id) \in Nat
    BY ShareOf
  <2>2. \A id : RankIn(bm25, id) \in Nat /\ RankIn(from, id) \in Nat
    BY RankOf
  <2>3. Len(bm25) \in Nat
    BY DEF Listed
  <2>4. \A id : SumOf(bm25, from, id) \in Int
    BY <2>1 DEF SumOf
  <2>5. \A id : MetAt(bm25, from, id) \in Int
    BY <2>2, <2>3 DEF MetAt
  <2> HIDE DEF ids
  <2> QED
    BY <2>4, <2>5
<1>3. OneToOne(met)
  <2> SUFFICES ASSUME NEW x \in ids, NEW y \in ids, met[x] = met[y] PROVE x = y
    BY DEF OneToOne
  <2> QED
    BY MetOnce
<1>4. \A i, j \in ids : <<i, j>> \in R
                        <=> (sum[i] > sum[j] \/ (sum[i] = sum[j] /\ met[i] < met[j]))
  <2> HIDE DEF ids
  <2> QED
    BY DEF Prefers
<1>5. StrictOrder(ids, R)
  <2> HIDE DEF ids, R, sum, met
  <2> QED
    BY <1>2, <1>3, <1>4, LargerFirst
<1>6. /\ n \in Nat /\ f \in [1..n -> ids] /\ OneToOne(f)
      /\ \A i \in ids : \E k \in 1..n : f[k] = i
  <2> HIDE DEF ids, R
  <2> QED
    BY <1>1, <1>5, OrderedIs
<1>7. ASSUME NEW i \in 1..n, NEW j \in 1..n, Prefers(bm25, from, f[i], f[j]) PROVE i < j
  <2>1. f[i] \in ids /\ f[j] \in ids
    <3> HIDE DEF f, n, ids
    <3> QED
      BY <1>6
  <2>2. <<f[i], f[j]>> \in R
    <3> HIDE DEF f, ids
    <3> QED
      BY <1>7, <2>1
  <2> HIDE DEF ids, R
  <2> QED
    BY <1>1, <1>5, <2>2, OrderedKeeps
<1>8. Fuse(bm25, from) = [k \in DOMAIN f |-> ChunkOf(bm25, from, f[k])]
  BY DEF Fuse, IdsOf, Prefers, SumOf, MetAt, ChunkOf
<1>9. DOMAIN f = 1..n
  <2> HIDE DEF f, n
  <2> QED
    BY <1>6
<1> HIDE DEF f, n, ids, R
<1>10. Fuse(bm25, from) = [k \in 1..n |-> ChunkOf(bm25, from, f[k])]
  BY <1>8, <1>9
<1>11. /\ n \in Nat
       /\ \E g \in [1..n -> ids] :
            /\ OneToOne(g) /\ \A id \in ids : \E k \in 1..n : g[k] = id
            /\ Fuse(bm25, from) = [k \in 1..n |-> ChunkOf(bm25, from, g[k])]
            /\ \A i, j \in 1..n : Prefers(bm25, from, g[i], g[j]) => i < j
  BY <1>6, <1>7, <1>10, Zenon
<1> QED
  BY <1>11 DEF n, ids

(* One list prefers an id to another: it has the first, and the other      *)
(* later or not at all.                                                    *)
Before(list, x, y) == /\ RankIn(list, x) # 0
                      /\ RankIn(list, y) = 0 \/ RankIn(list, x) < RankIn(list, y)

(* RRFFusion.fuse, of any two lists: each id comes out once, and one that  *)
(* both lists prefer to another comes out before it.                       *)
THEOREM FusesInOrder ==
  ASSUME NEW bm25, Listed(bm25), NEW from, Listed(from)
  PROVE  LET ids == IdsOf(bm25) \cup IdsOf(from)
             fused == Fuse(bm25, from)
         IN  /\ Listed(fused) /\ Len(fused) = Cardinality(ids) /\ IdsOf(fused) = ids
             /\ \A i, j \in DOMAIN fused :
                  Before(bm25, fused[i].id, fused[j].id) /\ Before(from, fused[i].id, fused[j].id)
                    => i < j
<1> DEFINE ids == IdsOf(bm25) \cup IdsOf(from)
           n == Cardinality(ids)
           fused == Fuse(bm25, from)
<1>1. n \in Nat
  BY FuseLists
<1>2. PICK f \in [1..n -> ids] :
        /\ OneToOne(f) /\ \A id \in ids : \E k \in 1..n : f[k] = id
        /\ fused = [k \in 1..n |-> ChunkOf(bm25, from, f[k])]
        /\ \A i, j \in 1..n : Prefers(bm25, from, f[i], f[j]) => i < j
  BY FuseLists
<1>3. \A k \in 1..n : f[k] \in ids /\ fused[k].id = f[k]
  <2> SUFFICES ASSUME NEW k \in 1..n PROVE f[k] \in ids /\ fused[k].id = f[k]
    OBVIOUS
  <2>1. f[k] \in ids /\ fused[k] = ChunkOf(bm25, from, f[k])
    <3> HIDE DEF n, fused, ids
    <3> QED
      BY <1>2
  <2>2. ChunkOf(bm25, from, f[k]).id = f[k]
    BY <2>1, ChunkIs
  <2> QED
    BY <2>1, <2>2
<1>4. DOMAIN fused = 1..n /\ Len(fused) = n
  BY <1>1, <1>2
<1> HIDE DEF n, fused, ids
<1>5. Listed(fused)
  BY <1>1, <1>2, <1>3, <1>4 DEF Listed, OneToOne
<1>6. IdsOf(fused) = ids
  BY <1>2, <1>3, <1>4 DEF IdsOf
<1>7. ASSUME NEW i \in 1..n, NEW j \in 1..n, Before(bm25, f[i], f[j]), Before(from, f[i], f[j])
      PROVE  i < j
  <2> PICK x : x = f[i]
    OBVIOUS
  <2> PICK y : y = f[j]
    OBVIOUS
  <2>1. Share(bm25, x) >= Share(bm25, y) /\ Share(from, x) >= Share(from, y)
    BY <1>7, ShareFalls DEF Before
  <2>2. /\ Share(bm25, x) \in Nat /\ Share(bm25, y) \in Nat
        /\ Share(from, x) \in Nat /\ Share(from, y) \in Nat
    BY ShareOf
  <2>3. SumOf(bm25, from, x) > SumOf(bm25, from, y) \/ SumOf(bm25, from, x) = SumOf(bm25, from, y)
    BY <2>1, <2>2 DEF SumOf
  <2>4. MetAt(bm25, from, x) < MetAt(bm25, from, y)
    <3>1. /\ RankIn(bm25, x) # 0 /\ RankIn(from, x) # 0
          /\ RankIn(bm25, y) = 0 \/ RankIn(bm25, x) < RankIn(bm25, y)
          /\ RankIn(from, y) = 0 \/ RankIn(from, x) < RankIn(from, y)
      BY <1>7 DEF Before
    <3>2. /\ RankIn(bm25, x) \in Nat /\ RankIn(bm25, x) <= Len(bm25)
          /\ RankIn(bm25, y) \in Nat /\ RankIn(from, y) \in Nat /\ Len(bm25) \in Nat
      BY RankOf DEF Listed
    <3>3. RankIn(bm25, y) = 0 => RankIn(from, y) # 0
      <4>1. y \in ids
        BY <1>3
      <4>2. RankIn(bm25, y) = 0 => RankIn(from, y) \in DOMAIN from
        <5>1. RankIn(bm25, y) \notin DOMAIN bm25 \/ RankIn(bm25, y) # 0
          BY DEF Listed
        <5> QED
          BY <4>1, <5>1, ChunkIs DEF ids
      <4> QED
        BY <4>2 DEF Listed
    <3> QED
      BY <3>1, <3>2, <3>3 DEF MetAt
  <2>5. Prefers(bm25, from, x, y)
    BY <2>3, <2>4 DEF Prefers
  <2> QED
    BY <1>2, <2>5
<1>8. \A i, j \in DOMAIN fused :
        Before(bm25, fused[i].id, fused[j].id) /\ Before(from, fused[i].id, fused[j].id) => i < j
  BY <1>3, <1>4, <1>7
<1> QED
  BY <1>4, <1>5, <1>6, <1>8 DEF ids, fused, n

(* "Deduplicates": every chunk of either leg comes out, and none twice.    *)
LEMMA FuseIs ==
  ASSUME NEW held, NEW bm25, Proper(bm25, held), NEW from, Proper(from, held)
  PROVE  /\ Proper(Fuse(bm25, from), held)
         /\ IdsOf(Fuse(bm25, from)) = IdsOf(bm25) \cup IdsOf(from)
<1> DEFINE ids == IdsOf(bm25) \cup IdsOf(from)
           n == Cardinality(ids)
           t == Fuse(bm25, from)
<1>1. Listed(bm25) /\ Listed(from)
  BY ProperIsGraded
<1>2. Listed(t) /\ Len(t) = n /\ IdsOf(t) = ids
  BY <1>1, FusesInOrder
<1>3. PICK f \in [1..n -> ids] :
        /\ OneToOne(f) /\ \A id \in ids : \E k \in 1..n : f[k] = id
        /\ t = [k \in 1..n |-> ChunkOf(bm25, from, f[k])]
        /\ \A i, j \in 1..n : Prefers(bm25, from, f[i], f[j]) => i < j
  BY <1>1, FuseLists
<1> HIDE DEF t, n, ids
<1>4. ASSUME NEW k \in 1..n PROVE t[k] \in Chunks /\ t[k].src \in held
  <2>1. t[k] = ChunkOf(bm25, from, f[k]) /\ f[k] \in ids
    BY <1>3
  <2>2. (\E i \in DOMAIN bm25 : t[k] = bm25[i]) \/ (\E i \in DOMAIN from : t[k] = from[i])
    BY <1>1, <2>1, ChunkIs DEF ids
  <2> QED
    BY <2>2 DEF Proper
<1>5. DOMAIN t = 1..n /\ n \in Nat
  BY <1>2 DEF Listed
<1>6. t \in Seq(Chunks)
  <2>1. t \in [1..n -> Chunks]
    BY <1>3, <1>4, <1>5
  <2> QED
    BY <1>5, <2>1, SeqDef
<1>7. Proper(t, held)
  BY <1>2, <1>4, <1>5, <1>6 DEF Proper, Listed
<1> QED
  BY <1>2, <1>7 DEF t, ids

-----------------------------------------------------------------------------
(* Selection.                                                              *)

(* The chunks up to i that are of the same file or source.                 *)
Company(s, i) == {j \in 1..i : Group(s[j]) = Group(s[i])}

(* The positions of one file or source, and the first of them.             *)
OfGroup(s, g) == {i \in DOMAIN s : Group(s[i]) = g}
GroupsOf(s) == {Group(s[i]) : i \in DOMAIN s}
FirstOf(s, g) == CHOOSE i \in DOMAIN s :
                   Group(s[i]) = g /\ \A j \in 1..(i - 1) : Group(s[j]) # g

(* How many of its group come up to i: its rank among them.                *)
LEMMA CompanyIs ==
  ASSUME NEW s, List(s), NEW g, NEW i \in OfGroup(s, g)
  PROVE  LET G == OfGroup(s, g)
             R == {r \in G \X G : r[1] < r[2]}
         IN  /\ IsFiniteSet(G) /\ StrictOrder(G, R)
             /\ Cardinality(Company(s, i)) = Cardinality(Below(G, R, i)) + 1
<1> DEFINE G == OfGroup(s, g)
           R == {r \in G \X G : r[1] < r[2]}
           B == Below(G, R, i)
<1>1. G \subseteq 1..Len(s) /\ Len(s) \in Nat
  BY DEF OfGroup, List
<1>2. IsFiniteSet(G)
  <2>1. IsFiniteSet(1..Len(s))
    BY <1>1, FS_Interval
  <2> QED
    BY <1>1, <2>1, FS_Subset
<1>3. \A j, k \in G : <<j, k>> \in R <=> j < k
  OBVIOUS
<1>4. \A j \in G : j \in Nat
  BY <1>1
<1>5. StrictOrder(G, R)
  <2> HIDE DEF R, G
  <2> QED
    BY <1>3, <1>4 DEF StrictOrder
<1>6. IsFiniteSet(B) /\ Cardinality(B) \in Nat
  <2>1. i \in G
    OBVIOUS
  <2> HIDE DEF R, G
  <2> QED
    BY <1>2, <1>5, <2>1, RanksGrow
<1>7. i \notin B /\ Company(s, i) = B \cup {i}
  <2>1. \A j \in G : j \in B <=> j < i
    <3> HIDE DEF R, G
    <3> QED
      BY <1>3 DEF Below, G
  <2>2. B \subseteq G
    BY DEF Below
  <2>3. ASSUME NEW j PROVE j \in Company(s, i) <=> j \in G /\ j <= i
    <3>1. i \in 1..Len(s) /\ Group(s[i]) = g
      BY <1>1 DEF OfGroup
    <3>2. j \in Company(s, i) <=> j \in 1..i /\ Group(s[j]) = g
      BY <3>1 DEF Company
    <3>3. j \in G <=> j \in 1..Len(s) /\ Group(s[j]) = g
      BY DEF OfGroup, List
    <3> HIDE DEF G
    <3> QED
      BY <1>1, <3>1, <3>2, <3>3
  <2>4. i \in G /\ i \in Nat
    BY <1>4
  <2> HIDE DEF B, G
  <2>5. i \notin B
    BY <2>1, <2>4
  <2>6. ASSUME NEW j PROVE j \in Company(s, i) <=> j \in B \/ j = i
    <3>1. j \in G => (j <= i <=> j < i \/ j = i)
      BY <1>4, <2>4
    <3> QED
      BY <2>1, <2>2, <2>3, <2>4, <3>1
  <2>7. Company(s, i) = B \cup {i}
    BY <2>6
  <2> QED
    BY <2>5, <2>7
<1> HIDE DEF B
<1>8. Cardinality(B \cup {i}) = Cardinality(B) + 1
  BY <1>6, <1>7, FS_AddElement
<1> QED
  BY <1>2, <1>5, <1>7, <1>8 DEF B

(* Of a group there are as many with at most c of it up to them as c says, *)
(* or all.                                                                 *)
LEMMA FirstFew ==
  ASSUME NEW s, List(s), NEW g, NEW c \in Nat
  PROVE  LET few == {i \in OfGroup(s, g) : Cardinality(Company(s, i)) <= c}
         IN  /\ IsFiniteSet(OfGroup(s, g)) /\ IsFiniteSet(few)
             /\ Cardinality(few) \in Nat /\ Cardinality(few) <= c
             /\ few = OfGroup(s, g) \/ Cardinality(few) = c
<1> DEFINE G == OfGroup(s, g)
           R == {r \in G \X G : r[1] < r[2]}
           n == Cardinality(G)
           m == Least(c, n)
           o == Ordered(G, R)
           few == {i \in G : Cardinality(Company(s, i)) <= c}
<1>1. CASE G = {}
  <2>1. few = {} /\ IsFiniteSet(G)
    BY <1>1, FS_EmptySet
  <2>2. Cardinality(few) = 0
    BY <2>1, FS_EmptySet
  <2>3. few = G
    BY <1>1, <2>1
  <2> HIDE DEF few, G
  <2>4. Cardinality(few) \in Nat /\ Cardinality(few) <= c
    BY <2>2
  <2> QED
    BY <2>1, <2>3, <2>4 DEF few, G
<1>2. CASE G # {}
  <2>1. IsFiniteSet(G) /\ StrictOrder(G, R)
    BY <1>2, CompanyIs
  <2>2. \A i \in G : Cardinality(Company(s, i)) = Cardinality(Below(G, R, i)) + 1
    BY CompanyIs
  <2> HIDE DEF G, R
  <2>3. /\ n \in Nat /\ o \in [1..n -> G] /\ OneToOne(o)
        /\ \A i \in G : \E k \in 1..n : o[k] = i
        /\ \A k \in 1..n : Cardinality(Below(G, R, o[k])) = k - 1
    BY <2>1, OrderedIs
  <2> HIDE DEF n, o
  <2>4. m \in Nat /\ m <= c /\ m <= n /\ (m = c \/ m = n)
    BY <2>3 DEF Least
  <2>5. ASSUME NEW k \in 1..n PROVE Cardinality(Company(s, o[k])) = k /\ o[k] \in G
    BY <2>2, <2>3
  <2>6. few = {o[k] : k \in 1..m}
    <3>1. ASSUME NEW i \in few PROVE \E k \in 1..m : o[k] = i
      <4>1. PICK k \in 1..n : o[k] = i
        BY <2>3
      <4>2. k <= c
        BY <2>5, <4>1
      <4>3. k <= m
        BY <2>3, <4>2 DEF Least
      <4> QED
        BY <2>4, <4>1, <4>3
    <3>2. ASSUME NEW k \in 1..m PROVE o[k] \in few
      <4>1. k \in 1..n /\ k <= c
        BY <2>3, <2>4
      <4> QED
        BY <2>5, <4>1
    <3> HIDE DEF few, m
    <3> QED
      BY <3>1, <3>2
  <2> DEFINE p == [k \in 1..m |-> o[k]]
  <2>7. p \in [1..m -> G] /\ OneToOne(p)
    <3>1. \A k \in 1..m : k \in 1..n
      BY <2>3, <2>4
    <3> HIDE DEF m
    <3> QED
      BY <2>3, <3>1 DEF OneToOne
  <2>8. IsFiniteSet({p[k] : k \in 1..m}) /\ Cardinality({p[k] : k \in 1..m}) = m
    <3> HIDE DEF p, m
    <3> QED
      BY <2>4, <2>7, ValuesOf
  <2>9. {p[k] : k \in 1..m} = {o[k] : k \in 1..m}
    OBVIOUS
  <2>10. m = n => few = G
    <3>1. ASSUME m = n, NEW i \in G PROVE i \in {o[k] : k \in 1..m}
      BY <2>3, <3>1
    <3> HIDE DEF m, p
    <3> QED
      BY <2>6, <3>1
  <2> HIDE DEF few, m, p
  <2>11. IsFiniteSet(few) /\ Cardinality(few) = m
    BY <2>6, <2>8, <2>9
  <2> QED
    BY <2>1, <2>4, <2>10, <2>11 DEF few, G
<1> QED
  BY <1>1, <1>2

(* A group's first position is the one that nothing of it comes before.    *)
LEMMA FirstIs ==
  ASSUME NEW s, List(s), NEW i \in DOMAIN s
  PROVE  /\ FirstOf(s, Group(s[i])) \in DOMAIN s
         /\ Group(s[FirstOf(s, Group(s[i]))]) = Group(s[i])
         /\ FirstOf(s, Group(s[i])) <= i
         /\ Cardinality(Company(s, FirstOf(s, Group(s[i])))) = 1
         /\ Cardinality(Company(s, i)) = 1 => i = FirstOf(s, Group(s[i]))
<1> DEFINE g == Group(s[i])
           G == OfGroup(s, g)
           First(j) == Group(s[j]) = g /\ \A k \in 1..(j - 1) : Group(s[k]) # g
           f == FirstOf(s, g)
<1>1. DOMAIN s = 1..Len(s) /\ Len(s) \in Nat /\ i \in Nat
  BY DEF List
<1>2. i \in G /\ G \in SUBSET Nat
  BY <1>1 DEF OfGroup
<1>3. PICK m \in G : \A k \in G : m <= k
  BY <1>2, LeastNumber
<1>4. m \in DOMAIN s /\ First(m)
  <2>1. m \in DOMAIN s /\ Group(s[m]) = g
    BY <1>3 DEF OfGroup
  <2>2. ASSUME NEW k \in 1..(m - 1), Group(s[k]) = g PROVE FALSE
    <3>1. k \in 1..Len(s) /\ k < m
      BY <1>1, <2>1
    <3>2. k \in G
      BY <1>1, <2>2, <3>1 DEF OfGroup
    <3>3. m <= k
      BY <1>3, <3>2
    <3> QED
      BY <1>1, <2>1, <3>1, <3>3
  <2> QED
    BY <2>1, <2>2
<1>5. f \in DOMAIN s /\ First(f)
  <2>1. f = CHOOSE j \in DOMAIN s : First(j)
    BY DEF FirstOf
  <2> HIDE DEF f, First
  <2> QED
    BY <1>4, <2>1
<1> HIDE DEF f
<1>6. f <= i
  <2> SUFFICES ASSUME ~(f <= i) PROVE FALSE
    OBVIOUS
  <2>1. i \in 1..(f - 1)
    BY <1>1, <1>5
  <2> QED
    BY <1>5, <2>1
<1>7. Company(s, f) = {f}
  <2>1. f \in Nat /\ 1 <= f /\ Group(s[f]) = g
    BY <1>1, <1>5
  <2>2. ASSUME NEW j \in 1..f, Group(s[j]) = g PROVE j = f
    <3>1. j \notin 1..(f - 1)
      BY <1>5, <2>2
    <3> QED
      BY <2>1, <3>1
  <2> HIDE DEF g
  <2> QED
    BY <2>1, <2>2 DEF Company
<1>8. Cardinality(Company(s, f)) = 1
  BY <1>7, FS_Singleton
<1>9. ASSUME Cardinality(Company(s, i)) = 1 PROVE i = f
  <2>1. i \in Company(s, i) /\ f \in Company(s, i)
    <3>1. f \in 1..i
      BY <1>1, <1>5, <1>6
    <3> QED
      BY <1>1, <1>5, <3>1 DEF Company
  <2>2. IsFiniteSet(Company(s, i))
    <3>1. Company(s, i) \subseteq 1..i /\ IsFiniteSet(1..i)
      BY <1>1, FS_Interval DEF Company
    <3> QED
      BY <3>1, FS_Subset
  <2>3. PICK x : Company(s, i) = {x}
    BY <1>9, <2>2, FS_Singleton
  <2> QED
    BY <2>1, <2>3
<1> QED
  BY <1>5, <1>6, <1>8, <1>9 DEF f

(* What is taken in an order from a first set, then from a second, until   *)
(* there are k: each place once; the first set comes first, and its best   *)
(* before its others.                                                      *)
ChosenWell(D, R, k, A, B) ==
  LET chosen == Ordered(A, R) \o Ordered(B, R)
      m == Least(k, Len(chosen))
      E == {chosen[i] : i \in 1..m}
  IN  /\ m \in Nat /\ m <= k
      /\ [i \in 1..m |-> chosen[i]] \in [1..m -> D]
      /\ OneToOne([i \in 1..m |-> chosen[i]])
      /\ E \subseteq A \cup B
      /\ Cardinality(A) <= k => A \subseteq E
      /\ \A i \in A \cap E, j \in A \ E : <<j, i>> \notin R
      /\ m < k => A \cup B \subseteq E

(* That holds of any order, for any two sets that have nothing in common.  *)
LEMMA ChosenIs ==
  ASSUME NEW D, IsFiniteSet(D), NEW R, StrictOrder(D, R), NEW k \in Nat,
         NEW A \in SUBSET D, NEW B \in SUBSET D, A \cap B = {}
  PROVE  ChosenWell(D, R, k, A, B)
<1> DEFINE f == Ordered(A, R)
           g == Ordered(B, R)
           h == f \o g
           m == Least(k, Len(h))
           E == {h[i] : i \in 1..m}
           a == Cardinality(A)
           b == Cardinality(B)
<1>1. IsFiniteSet(A) /\ IsFiniteSet(B)
  BY FS_Subset
<1>2. StrictOrder(A, R) /\ StrictOrder(B, R)
  BY DEF StrictOrder
<1>3. /\ a \in Nat /\ f \in [1..a -> A] /\ OneToOne(f) /\ \A i \in A : \E n \in 1..a : f[n] = i
      /\ b \in Nat /\ g \in [1..b -> B] /\ OneToOne(g) /\ \A i \in B : \E n \in 1..b : g[n] = i
  BY <1>1, <1>2, OrderedIs
<1>4. \A i, j \in 1..a : <<f[i], f[j]>> \in R => i < j
  BY <1>1, <1>2, OrderedKeeps
<1>5. f \in Seq(D) /\ g \in Seq(D) /\ Len(f) = a /\ Len(g) = b
  <2> HIDE DEF f, g, a, b
  <2>1. f \in [1..a -> D] /\ g \in [1..b -> D]
    BY <1>3
  <2> QED
    BY <1>3, <2>1, SeqDef
<1> HIDE DEF f, g, a, b
<1>6. /\ Len(h) = a + b
      /\ \A i \in 1..(a + b) : h[i] = IF i <= a THEN f[i] ELSE g[i - a]
  <2>1. Len(f \o g) = Len(f) + Len(g)
    BY <1>5, ConcatProperties
  <2>2. \A i \in 1..(Len(f) + Len(g)) :
          (f \o g)[i] = IF i <= Len(f) THEN f[i] ELSE g[i - Len(f)]
    BY <1>5, ConcatProperties
  <2> QED
    BY <1>5, <2>1, <2>2
<1> HIDE DEF h
<1>7. ASSUME NEW i \in 1..(a + b)
      PROVE  /\ i <= a => i \in 1..a /\ h[i] = f[i] /\ h[i] \in A
             /\ ~(i <= a) => i - a \in 1..b /\ h[i] = g[i - a] /\ h[i] \in B
  <2>1. i <= a => i \in 1..a
    OBVIOUS
  <2>2. ~(i <= a) => i - a \in 1..b
    BY <1>3
  <2> QED
    BY <1>3, <1>6, <2>1, <2>2
<1>8. ASSUME NEW i \in 1..(a + b), NEW j \in 1..(a + b), h[i] = h[j] PROVE i = j
  <2>1. CASE i <= a /\ j <= a
    BY <1>3, <1>7, <1>8, <2>1 DEF OneToOne
  <2>2. CASE ~(i <= a) /\ ~(j <= a)
    <3>1. i - a = j - a
      BY <1>3, <1>7, <1>8, <2>2 DEF OneToOne
    <3> QED
      BY <1>3, <3>1
  <2>3. CASE ~((i <= a) <=> (j <= a))
    BY <1>7, <1>8, <2>3
  <2> QED
    BY <2>1, <2>2, <2>3
<1>9. m \in Nat /\ m <= k /\ m <= a + b /\ (m = k \/ m = a + b)
  BY <1>3, <1>6 DEF Least
<1> HIDE DEF m
<1>10. \A i \in 1..m : i \in 1..(a + b)
  BY <1>3, <1>9
<1>11. /\ [i \in 1..m |-> h[i]] \in [1..m -> D]
       /\ OneToOne([i \in 1..m |-> h[i]])
  <2>1. \A i \in 1..m : h[i] \in D
    BY <1>7, <1>10
  <2>2. \A i, j \in 1..m : h[i] = h[j] => i = j
    BY <1>8, <1>10
  <2> QED
    BY <2>1, <2>2 DEF OneToOne
<1>12. E \subseteq A \cup B
  BY <1>7, <1>10
<1>13. ASSUME a <= k PROVE A \subseteq E
  <2> SUFFICES ASSUME NEW i \in A PROVE i \in E
    OBVIOUS
  <2>1. PICK n \in 1..a : f[n] = i
    BY <1>3
  <2>2. n \in 1..m /\ n \in 1..(a + b) /\ n <= a
    BY <1>3, <1>9, <1>13
  <2>3. h[n] = i
    BY <1>7, <2>1, <2>2
  <2> QED
    BY <2>2, <2>3
<1>14. ASSUME NEW i \in A \cap E, NEW j \in A \ E, <<j, i>> \in R PROVE FALSE
  <2>1. PICK n \in 1..a : f[n] = i
    BY <1>3
  <2>2. PICK l \in 1..a : f[l] = j
    BY <1>3
  <2>3. l < n
    BY <1>4, <1>14, <2>1, <2>2
  <2>4. n \in 1..(a + b) /\ n <= a /\ l \in 1..(a + b) /\ l <= a
    BY <1>3
  <2>5. h[n] = i /\ h[l] = j
    BY <1>7, <2>1, <2>2, <2>4
  <2>6. PICK q \in 1..m : h[q] = i
    OBVIOUS
  <2>7. q = n
    BY <1>8, <1>10, <2>4, <2>5, <2>6
  <2>8. l \in 1..m
    BY <1>9, <2>3, <2>7
  <2>9. j \in E
    BY <2>5, <2>8
  <2> QED
    BY <2>9
<1>15. ASSUME m < k PROVE A \cup B \subseteq E
  <2>1. m = a + b
    BY <1>9, <1>15
  <2>2. ASSUME NEW i \in A PROVE i \in E
    <3>1. PICK n \in 1..a : f[n] = i
      BY <1>3
    <3>2. n \in 1..(a + b) /\ n <= a
      BY <1>3
    <3>3. h[n] = i
      BY <1>7, <3>1, <3>2
    <3> QED
      BY <2>1, <3>2, <3>3
  <2>3. ASSUME NEW i \in B PROVE i \in E
    <3>1. PICK n \in 1..b : g[n] = i
      BY <1>3
    <3>2. n + a \in 1..(a + b) /\ ~(n + a <= a) /\ (n + a) - a = n
      BY <1>3
    <3>3. h[n + a] = i
      BY <1>7, <3>1, <3>2
    <3> QED
      BY <2>1, <3>2, <3>3
  <2> HIDE DEF E
  <2> QED
    BY <2>2, <2>3
<1>16. m < k => A \cup B \subseteq E
  BY <1>15
<1>17. a <= k => A \subseteq E
  BY <1>13
<1>18. \A i \in A \cap E, j \in A \ E : <<j, i>> \notin R
  BY <1>14
<1> HIDE DEF E
<1>19. /\ m \in Nat /\ m <= k
       /\ [i \in 1..m |-> h[i]] \in [1..m -> D] /\ OneToOne([i \in 1..m |-> h[i]])
       /\ E \subseteq A \cup B
       /\ (a <= k => A \subseteq E)
       /\ (\A i \in A \cap E, j \in A \ E : <<j, i>> \notin R)
       /\ (m < k => A \cup B \subseteq E)
  BY <1>9, <1>11, <1>12, <1>16, <1>17, <1>18
<1> QED
  BY <1>19 DEF ChosenWell, E, m, h, f, g, a

(* The seeds of _diversify, the first of each group, and the positions     *)
(* within the ceiling.                                                     *)
Seeds(s) == {i \in DOMAIN s : Cardinality(Company(s, i)) = 1}
Within(s, cap) == {i \in DOMAIN s : Cardinality(Company(s, i)) <= cap}

(* Which places _diversify takes, by the path it goes.                     *)
TakesAll(s, topK, cap, m, e) ==
  \/ Cardinality(Seeds(s)) <= 1 /\ m = Least(Least(topK, cap), Len(s)) /\ e = [k \in 1..m |-> k]
  \/ ~(Cardinality(Seeds(s)) <= 1) /\ Len(s) <= topK /\ m = Len(s) /\ e = [k \in 1..m |-> k]
TakesSome(s, topK, cap, m, e) ==
  LET E == {e[k] : k \in 1..m}
  IN  /\ ~(Cardinality(Seeds(s)) <= 1) /\ ~(Len(s) <= topK) /\ m <= topK
      /\ E \subseteq Seeds(s) \cup Within(s, cap)
      /\ Cardinality(Seeds(s)) <= topK => Seeds(s) \subseteq E
      /\ \A i \in Seeds(s) \cap E, j \in Seeds(s) \ E : ~(s[j].p > s[i].p)
      /\ m < topK => Seeds(s) \cup Within(s, cap) \subseteq E
      /\ \A i, j \in 1..m : i < j => s[e[i]].p >= s[e[j]].p

(* _diversify takes some places of the list, each once, by one of its paths. *)
LEMMA DiversifyIs ==
  ASSUME NEW s, Graded(s), NEW topK \in Nat, NEW cap \in Nat
  PROVE  \E m \in Nat : \E e \in [1..m -> DOMAIN s] :
           /\ OneToOne(e) /\ Diversify(s, topK, cap) = [k \in 1..m |-> s[e[k]]]
           /\ TakesAll(s, topK, cap, m, e) \/ TakesSome(s, topK, cap, m, e)
<1> DEFINE D == DOMAIN s
           within(i) == Cardinality({j \in 1..i : Group(s[j]) = Group(s[i])})
           first(i) == CHOOSE j \in 1..i : Group(s[j]) = Group(s[i]) /\ within(j) = 1
           seeds == {i \in D : within(i) = 1}
           ahead(i, j) == \/ s[i].p > s[j].p
                          \/ s[i].p = s[j].p /\ first(i) < first(j)
                          \/ s[i].p = s[j].p /\ first(i) = first(j) /\ i < j
           R == {r \in D \X D : ahead(r[1], r[2])}
           spare == {i \in D \ seeds : within(i) <= cap}
           chosen == Ordered(seeds, R) \o Ordered(spare, R)
           picked == [k \in 1..Least(topK, Len(chosen)) |-> s[chosen[k]]]
<1>1. D = 1..Len(s) /\ Len(s) \in Nat /\ IsFiniteSet(D) /\ List(s)
  <2>1. D = 1..Len(s) /\ Len(s) \in Nat
    BY DEF Graded, List
  <2>2. IsFiniteSet(1..Len(s))
    BY <2>1, FS_Interval
  <2> QED
    BY <2>1, <2>2 DEF Graded, List
<1>2. ASSUME NEW i \in D PROVE s[i].p \in Int /\ first(i) \in Int /\ i \in Int
  <2>1. \E j \in 1..i : Group(s[j]) = Group(s[i]) /\ within(j) = 1
    <3> DEFINE f == FirstOf(s, Group(s[i]))
    <3>1. f \in D /\ f <= i /\ Group(s[f]) = Group(s[i]) /\ Cardinality(Company(s, f)) = 1
      BY <1>1, FirstIs
    <3>2. f \in 1..i
      BY <1>1, <3>1
    <3>3. within(f) = 1
      BY <3>1 DEF Company
    <3> HIDE DEF f, within
    <3> QED
      BY <3>1, <3>2, <3>3
  <2>2. first(i) \in 1..i
    <3> HIDE DEF within
    <3> QED
      BY <2>1
  <2> HIDE DEF first
  <2> QED
    BY <1>1, <2>2 DEF Graded
<1>3. StrictOrder(D, R)
  <2> DEFINE key == [i \in D |-> s[i].p]
             head == [i \in D |-> first(i)]
  <2>1. \A i \in D : key[i] \in Int /\ head[i] \in Int /\ i \in Int
    BY <1>2
  <2>2. \A i, j \in D : <<i, j>> \in R
          <=> (\/ key[i] > key[j]
               \/ key[i] = key[j] /\ head[i] < head[j]
               \/ key[i] = key[j] /\ head[i] = head[j] /\ i < j)
    <3> HIDE DEF first
    <3> QED
      OBVIOUS
  <2> HIDE DEF key, head, R, D
  <2>3. \A i \in D : <<i, i>> \notin R
    BY <2>1, <2>2
  <2>4. \A i, j \in D : i # j => <<i, j>> \in R \/ <<j, i>> \in R
    BY <2>1, <2>2
  <2>5. ASSUME NEW i \in D, NEW j \in D, NEW k \in D, <<i, j>> \in R, <<j, k>> \in R
        PROVE  <<i, k>> \in R
    <3>1. /\ \/ key[i] > key[j]
             \/ key[i] = key[j] /\ head[i] < head[j]
             \/ key[i] = key[j] /\ head[i] = head[j] /\ i < j
          /\ \/ key[j] > key[k]
             \/ key[j] = key[k] /\ head[j] < head[k]
             \/ key[j] = key[k] /\ head[j] = head[k] /\ j < k
      BY <2>2, <2>5
    <3>2. \/ key[i] > key[k]
          \/ key[i] = key[k] /\ head[i] < head[k]
          \/ key[i] = key[k] /\ head[i] = head[k] /\ i < k
      BY <2>1, <3>1
    <3> QED
      BY <2>2, <3>2
  <2> QED
    BY <2>3, <2>4, <2>5, Zenon DEF StrictOrder
<1>4. ASSUME NEW i \in D, NEW j \in D, <<j, i>> \notin R PROVE ~(s[j].p > s[i].p)
  <2> HIDE DEF D, first
  <2> QED
    BY <1>4
<1>5. seeds = Seeds(s) /\ spare = Within(s, cap) \ Seeds(s)
  BY DEF Seeds, Within, Company
<1>6. Diversify(s, topK, cap) = IF Cardinality(seeds) <= 1 THEN Take(s, Least(topK, cap))
                                ELSE IF Len(s) <= topK THEN s ELSE BestFirst(picked)
  BY DEF Diversify
<1> HIDE DEF R, seeds, spare
<1>7. CASE Cardinality(Seeds(s)) <= 1
  <2> DEFINE m == Least(Least(topK, cap), Len(s))
             e == [k \in 1..m |-> k]
  <2>1. m \in Nat /\ m <= Len(s)
    BY <1>1 DEF Least
  <2>2. Diversify(s, topK, cap) = SubSeq(s, 1, m)
    BY <1>5, <1>6, <1>7 DEF Take
  <2> HIDE DEF m
  <2>3. \A k \in 1..m : k \in D
    BY <1>1, <2>1
  <2>4. SubSeq(s, 1, m) = [k \in 1..m |-> s[k]]
    BY <2>1
  <2>5. e \in [1..m -> D] /\ OneToOne(e)
    BY <2>3 DEF OneToOne
  <2>6. Diversify(s, topK, cap) = [k \in 1..m |-> s[e[k]]]
    BY <2>2, <2>4
  <2>7. TakesAll(s, topK, cap, m, e)
    BY <1>7 DEF TakesAll, m
  <2> HIDE DEF e
  <2> QED
    BY <2>1, <2>5, <2>6, <2>7
<1>8. CASE ~(Cardinality(Seeds(s)) <= 1) /\ Len(s) <= topK
  <2> DEFINE m == Len(s)
             e == [k \in 1..m |-> k]
  <2>1. Diversify(s, topK, cap) = s
    BY <1>5, <1>6, <1>8
  <2>2. e \in [1..m -> D] /\ OneToOne(e)
    BY <1>1 DEF OneToOne
  <2>3. TakesAll(s, topK, cap, m, e)
    BY <1>8 DEF TakesAll
  <2>4. s = [k \in 1..m |-> s[e[k]]]
    <3>1. s = [k \in DOMAIN s |-> s[k]]
      BY DEF Graded, List
    <3> QED
      BY <1>1, <3>1
  <2> HIDE DEF e
  <2> QED
    BY <1>1, <2>1, <2>2, <2>3, <2>4
<1>9. CASE ~(Cardinality(Seeds(s)) <= 1) /\ ~(Len(s) <= topK)
  <2> DEFINE m == Least(topK, Len(chosen))
             c == [i \in 1..m |-> chosen[i]]
             C == {chosen[i] : i \in 1..m}
  <2>1. seeds \in SUBSET D /\ spare \in SUBSET D /\ seeds \cap spare = {}
    BY <1>5 DEF Seeds, Within
  <2>2. /\ m \in Nat /\ m <= topK /\ c \in [1..m -> D] /\ OneToOne(c)
        /\ C \subseteq seeds \cup spare
        /\ Cardinality(seeds) <= topK => seeds \subseteq C
        /\ \A i \in seeds \cap C, j \in seeds \ C : <<j, i>> \notin R
        /\ m < topK => seeds \cup spare \subseteq C
    <3> HIDE DEF D
    <3>1. ChosenWell(D, R, topK, seeds, spare)
      BY <1>1, <1>3, <2>1, ChosenIs
    <3> QED
      BY <3>1 DEF ChosenWell
  <2>3. C = {c[i] : i \in 1..m}
    OBVIOUS
  <2>4. picked = [k \in 1..m |-> s[c[k]]]
    OBVIOUS
  <2> HIDE DEF m, c, C, chosen, picked
  <2>5. Len(picked) = m /\ DOMAIN picked = 1..m /\ Graded(picked)
    BY <2>2, <2>4 DEF Graded, List
  <2>6. PICK o \in [1..m -> 1..m] :
          /\ OneToOne(o) /\ \A i \in 1..m : \E k \in 1..m : o[k] = i
          /\ BestFirst(picked) = [k \in 1..m |-> picked[o[k]]]
          /\ \A i, j \in 1..m : i < j => picked[o[i]].p >= picked[o[j]].p
    BY <2>5, BestFirstIs
  <2> DEFINE e == [k \in 1..m |-> c[o[k]]]
             E == {e[k] : k \in 1..m}
  <2>7. e \in [1..m -> D]
    BY <2>2, <2>6
  <2>8. OneToOne(e)
    BY <2>2, <2>6 DEF OneToOne
  <2>9. Diversify(s, topK, cap) = [k \in 1..m |-> s[e[k]]]
    BY <1>5, <1>6, <1>9, <2>4, <2>6
  <2>10. E = C
    <3>1. ASSUME NEW k \in 1..m PROVE e[k] \in C
      BY <2>3, <2>6
    <3>2. ASSUME NEW i \in 1..m PROVE c[i] \in E
      <4>1. PICK k \in 1..m : o[k] = i
        BY <2>6
      <4>2. e[k] = c[i]
        BY <4>1
      <4> HIDE DEF e
      <4> QED
        BY <4>2
    <3> HIDE DEF e
    <3>3. E \subseteq C
      BY <3>1
    <3> HIDE DEF E
    <3>4. C \subseteq E
      BY <2>3, <3>2
    <3> QED
      BY <3>3, <3>4
  <2>11. \A i, j \in 1..m : i < j => s[e[i]].p >= s[e[j]].p
    BY <2>4, <2>6
  <2>12. \A i \in seeds \cap C, j \in seeds \ C : ~(s[j].p > s[i].p)
    <3>1. \A i \in seeds : i \in D
      BY <2>1
    <3> HIDE DEF D
    <3> QED
      BY <1>4, <2>2, <3>1
  <2>13. seeds \cup spare = Seeds(s) \cup Within(s, cap)
    BY <1>5
  <2> HIDE DEF e
  <2>14. TakesSome(s, topK, cap, m, e)
    <3> DEFINE S == Seeds(s)
    <3>1. seeds = S
      BY <1>5
    <3> HIDE DEF S, E
    <3>2. m <= topK /\ E \subseteq S \cup Within(s, cap)
      BY <2>2, <2>10, <2>13, <3>1 DEF S
    <3>3. Cardinality(S) <= topK => S \subseteq E
      BY <2>2, <2>10, <3>1
    <3>4. \A i \in S \cap E, j \in S \ E : ~(s[j].p > s[i].p)
      BY <2>10, <2>12, <3>1
    <3>5. m < topK => S \cup Within(s, cap) \subseteq E
      BY <2>2, <2>10, <2>13, <3>1 DEF S
    <3> QED
      BY <1>9, <2>11, <3>2, <3>3, <3>4, <3>5, Zenon DEF TakesSome, S, E
  <2> QED
    BY <2>2, <2>7, <2>8, <2>9, <2>14
<1> QED
  BY <1>7, <1>8, <1>9

(* The best first.                                                         *)
Falls(s) == \A i, j \in DOMAIN s : i < j => s[i].p >= s[j].p

(* What _diversify promises of the places it takes, m of them, in the      *)
(* order e.                                                                *)
FairPick(s, topK, cap, m, e) ==
  LET E == {e[k] : k \in 1..m}
  IN  /\ \A i, j \in 1..m : i < j => s[e[i]].p >= s[e[j]].p
      /\ Cardinality(GroupsOf(s)) <= topK => \A g \in GroupsOf(s) : FirstOf(s, g) \in E
      /\ \A g, h \in GroupsOf(s) : FirstOf(s, g) \in E /\ FirstOf(s, h) \notin E =>
           s[FirstOf(s, g)].p >= s[FirstOf(s, h)].p
      /\ Cardinality(GroupsOf(s)) = 1 \/ Len(s) > topK =>
           \A g \in GroupsOf(s) : Cardinality(E \cap OfGroup(s, g)) <= cap
      /\ m < topK => \A i \in DOMAIN s \ E : Cardinality(E \cap OfGroup(s, Group(s[i]))) >= cap

(* There are as many seeds as groups.                                      *)
LEMMA SeedsAre ==
  ASSUME NEW s, Graded(s)
  PROVE  /\ \A g \in GroupsOf(s) : /\ FirstOf(s, g) \in Seeds(s) /\ FirstOf(s, g) \in DOMAIN s
                                   /\ Group(s[FirstOf(s, g)]) = g
         /\ \A i \in Seeds(s) : i = FirstOf(s, Group(s[i]))
         /\ IsFiniteSet(Seeds(s)) /\ Cardinality(Seeds(s)) \in Nat
         /\ Cardinality(GroupsOf(s)) = Cardinality(Seeds(s))
<1> DEFINE f == [i \in Seeds(s) |-> Group(s[i])]
           S == Seeds(s)
           T == GroupsOf(s)
<1>1. List(s) /\ DOMAIN s = 1..Len(s) /\ Len(s) \in Nat
  BY DEF Graded, List
<1>2. \A g \in T : /\ FirstOf(s, g) \in S /\ FirstOf(s, g) \in DOMAIN s
                   /\ Group(s[FirstOf(s, g)]) = g
  <2> SUFFICES ASSUME NEW i \in DOMAIN s
               PROVE  LET g == Group(s[i])
                      IN  /\ FirstOf(s, g) \in S /\ FirstOf(s, g) \in DOMAIN s
                          /\ Group(s[FirstOf(s, g)]) = g
    BY DEF GroupsOf
  <2> QED
    BY <1>1, FirstIs DEF Seeds
<1>3. \A i \in S : i \in DOMAIN s /\ i = FirstOf(s, Group(s[i])) /\ Group(s[i]) \in T
  BY <1>1, FirstIs DEF Seeds, GroupsOf
<1>4. IsFiniteSet(S) /\ Cardinality(S) \in Nat
  <2>1. IsFiniteSet(1..Len(s)) /\ S \subseteq 1..Len(s)
    BY <1>1, FS_Interval DEF Seeds
  <2> HIDE DEF S
  <2> QED
    BY <2>1, FS_Subset, FS_CardinalityType
<1>5. f \in Bijection(S, T)
  <2>1. f \in [S -> T]
    BY <1>3
  <2>2. \A i, j \in S : f[i] = f[j] => i = j
    BY <1>3, Zenon
  <2>3. \A g \in T : \E i \in S : f[i] = g
    BY <1>2
  <2> HIDE DEF f, S, T
  <2>4. f \in Injection(S, T)
    BY <2>1, <2>2 DEF Injection, IsInjective
  <2>5. f \in Surjection(S, T)
    BY <2>1, <2>3 DEF Surjection
  <2> QED
    BY <2>4, <2>5 DEF Bijection
<1> HIDE DEF f, S, T
<1>6. Cardinality(T) = Cardinality(S)
  BY <1>4, <1>5, FS_Bijection DEF ExistsBijection
<1> QED
  BY <1>2, <1>3, <1>4, <1>6 DEF S, T

(* One group, or room for everything.                                      *)
LEMMA AllIsFair ==
  ASSUME NEW s, Graded(s), Falls(s), NEW topK \in Nat \ {0}, NEW cap \in Nat \ {0},
         NEW m \in Nat, NEW e, TakesAll(s, topK, cap, m, e)
  PROVE  FairPick(s, topK, cap, m, e) /\ m <= topK
<1> DEFINE D == DOMAIN s
           E == {e[k] : k \in 1..m}
<1>1. List(s) /\ D = 1..Len(s) /\ Len(s) \in Nat
  BY DEF Graded, List
<1>2. m <= Len(s) /\ m <= topK /\ e = [k \in 1..m |-> k]
  <2>1. m = Least(Least(topK, cap), Len(s)) \/ (Len(s) <= topK /\ m = Len(s))
    BY DEF TakesAll
  <2>2. e = [k \in 1..m |-> k]
    BY DEF TakesAll
  <2>3. m <= Len(s) /\ m <= topK
    <3>1. topK \in Nat /\ cap \in Nat /\ Len(s) \in Nat
      BY <1>1
    <3>2. CASE m = Least(Least(topK, cap), Len(s))
      BY <3>1, <3>2, LeastOfThree
    <3> QED
      BY <2>1, <3>1, <3>2
  <2> QED
    BY <2>2, <2>3
<1>3. E = 1..m /\ IsFiniteSet(1..m) /\ Cardinality(1..m) = m
  BY <1>2, FirstPlaces
<1>4. \A i, j \in 1..m : i < j => s[e[i]].p >= s[e[j]].p
  BY <1>1, <1>2 DEF Falls
<1> HIDE DEF E
<1>5. CASE Cardinality(Seeds(s)) <= 1 /\ m = Least(Least(topK, cap), Len(s))
  <2> DEFINE least == m <= cap /\ (m = topK \/ m = cap \/ m = Len(s))
  <2>0. least
    BY <1>1, <1>5, LeastOfThree
  <2>1. ASSUME NEW g \in GroupsOf(s) PROVE FirstOf(s, g) = 1 /\ g = Group(s[1]) /\ 1 \in E
    <3>1. FirstOf(s, g) \in Seeds(s) /\ FirstOf(s, g) \in D /\ Group(s[FirstOf(s, g)]) = g
      BY SeedsAre
    <3>2. 1 \in D
      BY <1>1, <3>1
    <3> DEFINE o == FirstOf(s, Group(s[1]))
    <3>3. o \in Seeds(s) /\ o \in D /\ o <= 1
      <4>1. Group(s[1]) \in GroupsOf(s)
        BY <3>2 DEF GroupsOf
      <4>2. o <= 1
        BY <1>1, <3>2, FirstIs
      <4> QED
        BY <4>1, <4>2, SeedsAre
    <3> HIDE DEF o
    <3>4. o = 1
      BY <1>1, <3>3
    <3>5. FirstOf(s, g) = 1
      <4>1. IsFiniteSet(Seeds(s)) /\ Cardinality(Seeds(s)) \in Nat
        BY SeedsAre
      <4>2. Cardinality(Seeds(s)) # 0
        BY <3>1, <4>1, FS_EmptySet
      <4>3. Cardinality(Seeds(s)) = 1
        BY <1>5, <4>1, <4>2
      <4>4. PICK x : Seeds(s) = {x}
        BY <4>1, <4>3, FS_Singleton
      <4> QED
        BY <3>1, <3>3, <3>4, <4>4
    <3>6. 1 \in 1..m
      <4>1. Len(s) >= 1 /\ topK >= 1 /\ cap >= 1
        BY <1>1, <3>2
      <4>2. m >= 1
        BY <2>0, <4>1
      <4> QED
        BY <4>2
    <3> QED
      BY <1>3, <3>1, <3>5, <3>6
  <2>2. ASSUME NEW g \in GroupsOf(s) PROVE Cardinality(E \cap OfGroup(s, g)) <= cap
    <3>1. E \cap OfGroup(s, g) \subseteq 1..m
      BY <1>3
    <3>2. /\ Cardinality(E \cap OfGroup(s, g)) <= m
          /\ Cardinality(E \cap OfGroup(s, g)) \in Nat
      BY <1>3, <3>1, FS_Subset, FS_CardinalityType
    <3>3. m <= cap
      BY <2>0
    <3> QED
      BY <3>2, <3>3
  <2>3. ASSUME m < topK, NEW i \in D \ E
        PROVE  Cardinality(E \cap OfGroup(s, Group(s[i]))) >= cap
    <3>1. m < Len(s)
      BY <1>1, <1>2, <1>3, <2>3
    <3>2. m = cap
      <4>1. m # topK /\ m # Len(s)
        <5>1. m < topK
          BY <2>3
        <5>2. m \in Int /\ topK \in Int /\ Len(s) \in Int
          BY <1>1
        <5> HIDE DEF D
        <5> QED
          BY <3>1, <5>1, <5>2
      <4> QED
        BY <2>0, <4>1, Zenon
    <3>3. \A j \in D : Group(s[j]) = Group(s[1])
      BY <2>1 DEF GroupsOf
    <3>4. E \cap OfGroup(s, Group(s[i])) = 1..m
      <4>1. OfGroup(s, Group(s[i])) = D
        BY <3>3 DEF OfGroup
      <4>2. 1..m \subseteq D
        BY <1>1, <1>2
      <4> QED
        BY <1>3, <4>1, <4>2
    <3>5. Cardinality(E \cap OfGroup(s, Group(s[i]))) = cap
      BY <1>3, <3>2, <3>4, Zenon
    <3> QED
      BY <3>5
  <2>4. \A g \in GroupsOf(s) : FirstOf(s, g) \in E
    BY <2>1
  <2> HIDE DEF D
  <2>5. FairPick(s, topK, cap, m, e)
    BY <1>4, <2>2, <2>3, <2>4 DEF FairPick, E, D
  <2> QED
    BY <1>2, <2>5
<1>6. CASE ~(Cardinality(Seeds(s)) <= 1) /\ Len(s) <= topK /\ m = Len(s)
  <2>1. E = D
    BY <1>1, <1>3, <1>6
  <2>2. \A g \in GroupsOf(s) : FirstOf(s, g) \in E
    BY <2>1, SeedsAre
  <2>3. Cardinality(GroupsOf(s)) # 1 /\ ~(Len(s) > topK)
    BY <1>1, <1>6, SeedsAre
  <2>4. D \ E = {}
    BY <2>1
  <2> HIDE DEF D
  <2>5. FairPick(s, topK, cap, m, e)
    BY <1>4, <2>2, <2>3, <2>4 DEF FairPick, E, D
  <2> QED
    BY <1>2, <2>5
<1> QED
  BY <1>5, <1>6 DEF TakesAll

(* Several groups that do not all fit.                                     *)
LEMMA SomeIsFair ==
  ASSUME NEW s, Graded(s), NEW topK \in Nat \ {0}, NEW cap \in Nat \ {0},
         NEW m \in Nat, NEW e \in [1..m -> DOMAIN s], TakesSome(s, topK, cap, m, e)
  PROVE  FairPick(s, topK, cap, m, e) /\ m <= topK
<1> DEFINE D == DOMAIN s
           E == {e[k] : k \in 1..m}
           S == Seeds(s)
           W == Within(s, cap)
           few(g) == {i \in OfGroup(s, g) : Cardinality(Company(s, i)) <= cap}
<1>1. List(s) /\ D = 1..Len(s) /\ Len(s) \in Nat
  BY DEF Graded, List
<1>2. S \subseteq W
  BY DEF Seeds, Within
<1>3. /\ m <= topK
      /\ E \subseteq W
      /\ Cardinality(S) <= topK => S \subseteq E
      /\ \A i \in S \cap E, j \in S \ E : ~(s[j].p > s[i].p)
      /\ m < topK => W \subseteq E
      /\ \A i, j \in 1..m : i < j => s[e[i]].p >= s[e[j]].p
  BY <1>2 DEF TakesSome
<1>4. /\ \A g \in GroupsOf(s) : FirstOf(s, g) \in S /\ FirstOf(s, g) \in D
      /\ Cardinality(GroupsOf(s)) = Cardinality(S)
  BY SeedsAre
<1>5. E \subseteq D
  OBVIOUS
<1> HIDE DEF E, S, W
<1>6. Cardinality(GroupsOf(s)) <= topK => \A g \in GroupsOf(s) : FirstOf(s, g) \in E
  BY <1>3, <1>4
<1>7. ASSUME NEW g \in GroupsOf(s), NEW h \in GroupsOf(s),
             FirstOf(s, g) \in E, FirstOf(s, h) \notin E
      PROVE  s[FirstOf(s, g)].p >= s[FirstOf(s, h)].p
  <2>1. ~(s[FirstOf(s, h)].p > s[FirstOf(s, g)].p)
    BY <1>3, <1>4, <1>7
  <2>2. s[FirstOf(s, h)].p \in Int /\ s[FirstOf(s, g)].p \in Int
    BY <1>4 DEF Graded
  <2> QED
    BY <2>1, <2>2
<1>8. ASSUME NEW g PROVE /\ E \cap OfGroup(s, g) \subseteq few(g)
                         /\ m < topK => E \cap OfGroup(s, g) = few(g)
  <2>1. \A i \in W : Cardinality(Company(s, i)) <= cap
    BY DEF W, Within
  <2>2. \A i \in OfGroup(s, g) : Cardinality(Company(s, i)) <= cap => i \in W
    BY DEF W, Within, OfGroup
  <2> QED
    BY <1>3, <2>1, <2>2
<1>9. ASSUME NEW g
      PROVE  /\ IsFiniteSet(few(g)) /\ Cardinality(few(g)) \in Nat /\ Cardinality(few(g)) <= cap
             /\ few(g) = OfGroup(s, g) \/ Cardinality(few(g)) = cap
  BY <1>1, FirstFew
<1>10. ASSUME NEW g \in GroupsOf(s) PROVE Cardinality(E \cap OfGroup(s, g)) <= cap
  <2> HIDE DEF few
  <2>1. /\ Cardinality(E \cap OfGroup(s, g)) <= Cardinality(few(g))
        /\ Cardinality(E \cap OfGroup(s, g)) \in Nat
    BY <1>8, <1>9, FS_Subset, FS_CardinalityType
  <2> QED
    BY <1>9, <2>1
<1>11. ASSUME m < topK, NEW i \in D \ E
       PROVE  Cardinality(E \cap OfGroup(s, Group(s[i]))) >= cap
  <2> DEFINE g == Group(s[i])
  <2>1. i \in OfGroup(s, g)
    BY DEF OfGroup
  <2>2. E \cap OfGroup(s, g) = few(g)
    BY <1>8, <1>11
  <2>3. i \notin few(g)
    <3> HIDE DEF few
    <3> QED
      BY <2>2
  <2>4. Cardinality(few(g)) = cap
    <3> HIDE DEF few, g
    <3> QED
      BY <1>9, <2>1, <2>3
  <2>5. Cardinality(E \cap OfGroup(s, g)) = cap
    BY <2>2, <2>4, Zenon
  <2> QED
    BY <2>5
<1> HIDE DEF few, D
<1>12. FairPick(s, topK, cap, m, e)
  BY <1>3, <1>6, <1>7, <1>10, <1>11 DEF FairPick, E, D
<1> QED
  BY <1>3, <1>12

(* _diversify, of any list the best of which comes first, for any number of *)
(* passages and ceiling: see FairPick.                                     *)
THEOREM SelectsFairly ==
  ASSUME NEW s, Graded(s), Falls(s), NEW topK \in Nat \ {0}, NEW cap \in Nat \ {0}
  PROVE  \E m \in 0..topK : \E e \in [1..m -> DOMAIN s] :
           /\ OneToOne(e) /\ Diversify(s, topK, cap) = [k \in 1..m |-> s[e[k]]]
           /\ FairPick(s, topK, cap, m, e)
<1>1. PICK m \in Nat : \E e \in [1..m -> DOMAIN s] :
        /\ OneToOne(e) /\ Diversify(s, topK, cap) = [k \in 1..m |-> s[e[k]]]
        /\ TakesAll(s, topK, cap, m, e) \/ TakesSome(s, topK, cap, m, e)
  BY DiversifyIs
<1>2. PICK e \in [1..m -> DOMAIN s] :
        /\ OneToOne(e) /\ Diversify(s, topK, cap) = [k \in 1..m |-> s[e[k]]]
        /\ TakesAll(s, topK, cap, m, e) \/ TakesSome(s, topK, cap, m, e)
  BY <1>1
<1>3. FairPick(s, topK, cap, m, e) /\ m <= topK
  BY <1>2, AllIsFair, SomeIsFair
<1>4. m \in 0..topK
  BY <1>3
<1> QED
  BY <1>2, <1>3, <1>4

(* So it selects from the list it is given.                                *)
LEMMA DiversifyProper ==
  ASSUME NEW held, NEW s, Proper(s, held), NEW topK \in Nat, NEW cap \in Nat
  PROVE  Proper(Diversify(s, topK, cap), held)
<1>1. Graded(s)
  BY ProperIsGraded
<1>2. PICK m \in Nat : \E e \in [1..m -> DOMAIN s] :
        /\ OneToOne(e) /\ Diversify(s, topK, cap) = [k \in 1..m |-> s[e[k]]]
        /\ TakesAll(s, topK, cap, m, e) \/ TakesSome(s, topK, cap, m, e)
  BY <1>1, DiversifyIs
<1>3. PICK e \in [1..m -> DOMAIN s] :
        OneToOne(e) /\ Diversify(s, topK, cap) = [k \in 1..m |-> s[e[k]]]
  BY <1>2
<1>4. Proper([k \in 1..m |-> s[e[k]]], held)
  BY <1>3, Rearranged
<1> QED
  BY <1>3, <1>4

(* Selection.                                                              *)

(* To score a list changes only how relevant its chunks are.               *)
LEMMA RescoredProper ==
  ASSUME NEW held, NEW s, Proper(s, held), NEW score \in [DOMAIN s -> 0..100]
  PROVE  Proper([i \in DOMAIN s |-> [s[i] EXCEPT !.p = score[i]]], held)
<1> DEFINE t == [i \in DOMAIN s |-> [s[i] EXCEPT !.p = score[i]]]
<1>1. s \in Seq(Chunks) /\ Len(s) \in Nat /\ DOMAIN s = 1..Len(s)
  BY PlacesIn DEF Proper
<1>2. ASSUME NEW i \in DOMAIN s
      PROVE  t[i] \in Chunks /\ t[i].id = s[i].id /\ t[i].src = s[i].src
  <2>1. s[i] \in Chunks /\ score[i] \in 0..100
    BY <1>1
  <2>2. t[i] = [s[i] EXCEPT !.p = score[i]]
    OBVIOUS
  <2> HIDE DEF t
  <2> QED
    BY <2>1, <2>2 DEF Chunks
<1>3. DOMAIN t = DOMAIN s
  OBVIOUS
<1>4. t \in Seq(Chunks)
  <2>1. t \in [1..Len(s) -> Chunks]
    BY <1>1, <1>2
  <2> QED
    BY <1>1, <2>1, SeqDef
<1> HIDE DEF t
<1>5. Proper(t, held)
  BY <1>2, <1>3, <1>4 DEF Proper
<1> QED
  BY <1>5 DEF t

(* What the cross-encoder scores is what it was given, in another order.   *)
LEMMA ScoredProper ==
  ASSUME NEW held, NEW s, Proper(s, held), NEW score \in [DOMAIN s -> 0..100]
  PROVE  Proper(Scored(s, score), held)
<1>1. Proper([i \in DOMAIN s |-> [s[i] EXCEPT !.p = score[i]]], held)
  BY RescoredProper
<1> QED
  BY <1>1, BestFirstProper DEF Scored

(* How relevant the best chunk of a list is.                               *)
LEMMA BestIs ==
  ASSUME NEW held, NEW s, Proper(s, held), s # <<>>
  PROVE  Max({s[i].p : i \in DOMAIN s}) \in 0..100
<1> DEFINE f == [i \in DOMAIN s |-> s[i].p]
           S == {f[i] : i \in DOMAIN s}
<1>1. s \in Seq(Chunks) /\ Len(s) \in Nat /\ DOMAIN s = 1..Len(s) /\ IsFiniteSet(DOMAIN s)
  BY PlacesIn DEF Proper
<1>2. f \in [DOMAIN s -> 0..100]
  <2>1. \A i \in DOMAIN s : s[i] \in Chunks
    BY <1>1
  <2>2. \A c \in Chunks : c.p \in 0..100
    BY DEF Chunks
  <2> QED
    BY <2>1, <2>2
<1>3. S = {s[i].p : i \in DOMAIN s}
  OBVIOUS
<1> HIDE DEF f
<1>4. IsFiniteSet(S)
  <2> DEFINE D == DOMAIN s  T == 0..100
  <2>1. IsFiniteSet(D) /\ f \in [D -> T]
    BY <1>1, <1>2
  <2> HIDE DEF D, T
  <2>2. IsFiniteSet({f[i] : i \in D})
    BY <2>1, ImageIsFinite
  <2> QED
    BY <2>2 DEF D
<1>5. S # {} /\ S \subseteq 0..100
  <2>1. Len(s) # 0
    BY <1>1, EmptySeq
  <2>2. 1 \in DOMAIN s
    BY <1>1, <2>1
  <2> QED
    BY <1>2, <2>2
<1> HIDE DEF S
<1>6. Max(S) \in S
  BY <1>4, <1>5, MaxIs
<1> QED
  BY <1>3, <1>5, <1>6

(* The confidence of a selection that the reranker made is at most whole.  *)
Worth(chunks) == Larger(100 * Max({chunks[i].p : i \in DOMAIN chunks}), 1500)

(* The whole is a number.                                                  *)
LEMMA WholeIs == Whole \in Nat
BY DEF Whole

(* What is worth the best chunk is between the floor and the whole.        *)
LEMMA WorthIs ==
  ASSUME NEW held, NEW s, Proper(s, held), s # <<>>
  PROVE  Worth(s) \in 0..Whole /\ Larger(Worth(s), 1500) = Worth(s)
<1>1. Max({s[i].p : i \in DOMAIN s}) \in 0..100
  BY BestIs
<1>2. PICK m : m = Max({s[i].p : i \in DOMAIN s})
  OBVIOUS
<1>3. Worth(s) = Larger(100 * m, 1500)
  BY <1>2 DEF Worth
<1>4. m \in 0..100
  BY <1>1, <1>2
<1>5. Larger(100 * m, 1500) \in Nat /\ Larger(100 * m, 1500) <= Whole
  BY <1>4 DEF Larger, Whole
<1>6. Larger(Larger(100 * m, 1500), 1500) = Larger(100 * m, 1500)
  BY <1>4 DEF Larger
<1> QED
  BY <1>3, <1>5, <1>6, WholeIs

(* Reranker.rerank selects from what was scored and vouches for the best.  *)
LEMMA RerankIs ==
  ASSUME NEW held, NEW s, Proper(s, held), NEW topK \in Nat, NEW cap \in Nat
  PROVE  LET k == Rerank(s, topK, cap)
         IN  /\ Proper(k.chunks, held) /\ k.base \in 0..Whole
             /\ k.chunks # <<>> => k.base = Worth(k.chunks)
<1>1. PICK d : d = Diversify(s, topK, cap)
  OBVIOUS
<1>2. Proper(d, held)
  BY <1>1, DiversifyProper
<1>3. Rerank(s, topK, cap) = [chunks |-> d, base |-> IF d = <<>> THEN 0 ELSE Worth(d)]
  BY <1>1 DEF Rerank, Worth
<1>4. d # <<>> => Worth(d) \in 0..Whole
  BY <1>2, WorthIs
<1>5. 0 \in 0..Whole
  BY DEF Whole
<1> QED
  BY <1>2, <1>3, <1>4, <1>5

(* Without the reranker the fused order is kept, at one half.              *)
LEMMA UnrankedIs ==
  ASSUME NEW held, NEW s, Proper(s, held), NEW topK \in Nat
  PROVE  Proper(Unranked(s, topK).chunks, held) /\ Unranked(s, topK).base \in 0..Whole
<1> DEFINE t == Take(s, topK)
           half == [i \in DOMAIN t |-> 50]
<1>1. Proper(t, held) /\ \A i \in DOMAIN t : t[i] = s[i]
  BY TakeProper
<1> HIDE DEF t
<1>2. half \in [DOMAIN t -> 0..100]
  OBVIOUS
<1>3. Proper([i \in DOMAIN t |-> [t[i] EXCEPT !.p = half[i]]], held)
  <2> HIDE DEF half
  <2> QED
    BY <1>1, <1>2, RescoredProper
<1>4. [i \in DOMAIN t |-> [t[i] EXCEPT !.p = half[i]]] = [i \in DOMAIN t |-> [s[i] EXCEPT !.p = 50]]
  BY <1>1
<1> DEFINE u == [i \in DOMAIN t |-> [s[i] EXCEPT !.p = 50]]
<1>5. Unranked(s, topK) = [chunks |-> u, base |-> 5000]
  BY DEF Unranked, t
<1>6. Proper(u, held)
  <2> QED
    BY <1>3, <1>4
<1> HIDE DEF u
<1>7. 5000 \in 0..Whole
  BY DEF Whole
<1> QED
  BY <1>5, <1>6, <1>7

(* What a leg may find: chunks of the sources it holds and may look in.    *)
LEMMA FoundIs ==
  ASSUME NEW held, NEW f \in Found(held)
  PROVE  Proper(f, held \ (IF exclude = <<>> THEN {} ELSE exclude[1]))
<1> DEFINE free == held \ (IF exclude = <<>> THEN {} ELSE exclude[1])
           mine == {t \in Texts : t.src \in free}
<1>1. CASE f = <<>>
  BY <1>1 DEF Proper
<1>2. CASE f # <<>>
  <2>1. PICK s \in SetToSeqs(mine) : f = Take(s, TopK)
    BY <1>2 DEF Found
  <2>2. /\ s \in [1..Cardinality(mine) -> mine]
        /\ \A i, j \in DOMAIN s : s[i] = s[j] => i = j
    BY DEF SetToSeqs, IsInjective
  <2>3. IsFiniteSet(mine) /\ mine \subseteq Chunks /\ \A t, u \in mine : t.id = u.id => t = u
    <3>1. IsFiniteSet(Texts) /\ mine \subseteq Texts
      BY QueryAssumption
    <3> QED
      BY <3>1, FS_Subset, QueryAssumption
  <2>4. Cardinality(mine) \in Nat
    BY <2>3, FS_CardinalityType
  <2>5. \A t \in mine : t.src \in free
    OBVIOUS
  <2> HIDE DEF mine, free
  <2>6. DOMAIN s = 1..Cardinality(mine)
    BY <2>2
  <2>7. \A i \in DOMAIN s : s[i] \in mine
    BY <2>2, <2>6
  <2>8. s \in [1..Cardinality(mine) -> Chunks]
    BY <2>2, <2>3
  <2>9. s \in Seq(Chunks)
    BY <2>4, <2>8, SeqDef
  <2>10. Proper(s, free)
    BY <2>2, <2>3, <2>5, <2>7, <2>9 DEF Proper
  <2>11. Proper(f, free)
    BY <2>1, <2>10, TakeProper, QueryAssumption
  <2> QED
    BY <2>11 DEF free
<1> QED
  BY <1>1, <1>2

-----------------------------------------------------------------------------
(* The inductive invariant.                                                *)

Early == {"idle", "manifest", "retrieve", "hyde", "embed", "scope", "legs"}
Unsent == {"idle", "manifest", "retrieve"}
Over == {"done", "failed"}
Events == {"retrieving", "sources", "generating", "token", "latency", "confidence",
           "done", "error"}
Terminators == {"done", "error"}

(* The sources an answer to this request may use.                          *)
InScope == IF req.scope # {} /\ ~unscoped THEN req.scope \cup (SourceIds \ listed)
           ELSE SourceIds

(* The sources a leg may look in.                                          *)
Open == IF exclude = <<>> THEN SourceIds ELSE SourceIds \ exclude[1]

(* The exclusions last while the legs run, and are those of the list that  *)
(* was read; a leg is run on no other request.                             *)
LegsIn ==
  /\ pc # "legs" => exclude = <<>> /\ legs = Waiting
  /\ pc = "legs" => Open \subseteq InScope
  /\ \A l \in {"bm25", "dense"} : /\ legs[l].in \in BOOLEAN
                                  /\ Proper(legs[l].found, InScope)
  /\ legs = [l \in {"bm25", "dense"} |-> [in |-> legs[l].in, found |-> legs[l].found]]

(* What was kept is in scope, and worth its best chunk when it was ranked. *)
KeptIn ==
  /\ pc \in Early => kept = Nothing /\ result = <<>>
  /\ kept = [chunks |-> kept.chunks, base |-> kept.base]
  /\ Proper(kept.chunks, InScope) /\ kept.base \in 0..Whole
  /\ ranked /\ kept.chunks # <<>> => kept.base = Worth(kept.chunks)

(* The metrics reported are those of what was kept.                        *)
Reported ==
  \/ result = <<>>
  \/ /\ pc = "done"
     /\ \E a \in Answers :
          result = <<[metrics |-> Metrics(req.q, kept.chunks,
                                    ApplyConfidence(req.q, kept.chunks, kept.base), a),
                      answer |-> a]>>

(* The events up to now: a stream that is at the model has announced the   *)
(* sources and that it generates, before any token.                        *)
Begun == \E g \in DOMAIN sent : /\ sent[g] = "generating"
                                /\ kept.chunks # <<>> => g - 1 \in DOMAIN sent /\ sent[g - 1] = "sources"
                                /\ \A i \in DOMAIN sent : sent[i] = "token" => g < i
SentSoFar ==
  /\ sent \in Seq(Events)
  /\ ~req.stream => sent = <<>>
  /\ pc \in Unsent => sent = <<>>
  /\ pc \in {"hyde", "embed", "scope", "legs"} => sent \in {<<>>, <<"retrieving">>}
  /\ pc = "generate" /\ req.stream => Begun
  /\ pc \notin Over => \A i \in DOMAIN sent : sent[i] \notin Terminators
Asked == req \in Requests \cup {NoRequest}
IInv == TypeOK /\ Asked /\ LegsIn /\ KeptIn /\ Reported /\ SentSoFar /\ StreamShape

-----------------------------------------------------------------------------
(* The invariant is inductive.                                             *)

(* The sources of a proper list are sources of the library.                *)
LEMMA ProperSources ==
  ASSUME NEW held, NEW s, Proper(s, held)
  PROVE  SourcesOf(s) \subseteq SourceIds \cap held
<1>1. \A i \in DOMAIN s : s[i] \in Chunks
  BY DEF Proper
<1>2. \A c \in Chunks : c.src \in SourceIds
  BY DEF Chunks
<1> QED
  BY <1>1, <1>2 DEF Proper, SourcesOf

(* The empty list is proper, whatever the scope.                           *)
LEMMA NothingIsProper == \A held : Proper(<<>>, held)
BY DEF Proper

(* One event.                                                              *)
LEMMA OneEvent ==
  ASSUME NEW x \in Events
  PROVE  <<x>> \in Seq(Events) /\ Len(<<x>>) = 1 /\ DOMAIN <<x>> = 1..1 /\ <<x>>[1] = x
OBVIOUS

(* Two events, one sent after the other.                                   *)
LEMMA PairOfEvents ==
  ASSUME NEW x \in Events, NEW y \in Events
  PROVE  /\ <<x>> \o <<y>> \in Seq(Events) /\ DOMAIN (<<x>> \o <<y>>) = 1..2
         /\ (<<x>> \o <<y>>)[1] = x /\ (<<x>> \o <<y>>)[2] = y
<1> DEFINE a == <<x>>  b == <<y>>  c == a \o b
<1>1. /\ a \in Seq(Events) /\ Len(a) = 1 /\ a[1] = x
      /\ b \in Seq(Events) /\ Len(b) = 1 /\ b[1] = y
  BY OneEvent
<1> HIDE DEF a, b
<1>2. /\ c \in Seq(Events) /\ Len(c) = 2
      /\ \A i \in 1..2 : c[i] = IF i <= 1 THEN a[i] ELSE b[i - 1]
  <2>1. a \in Seq(Events) /\ b \in Seq(Events)
    BY <1>1
  <2>2. /\ c \in Seq(Events) /\ Len(c) = Len(a) + Len(b)
        /\ \A i \in 1..(Len(a) + Len(b)) :
             c[i] = IF i <= Len(a) THEN a[i] ELSE b[i - Len(a)]
    BY <2>1, ConcatProperties, Zenon
  <2> HIDE DEF c
  <2>3. Len(a) + Len(b) = 2
    BY <1>1
  <2> QED
    BY <1>1, <2>2, <2>3
<1> HIDE DEF c
<1>3. DOMAIN c = 1..2 /\ c[1] = x /\ c[2] = y
  BY <1>1, <1>2, LenProperties
<1> QED
  BY <1>2, <1>3 DEF a, b, c

(* What is sent stays, and the new events follow it.                       *)
LEMMA SendIs ==
  ASSUME sent \in Seq(Events), NEW e \in Seq(Events), Send(e)
  PROVE  /\ sent' \in Seq(Events)
         /\ ~req.stream => sent' = sent
         /\ req.stream => /\ Len(sent') = Len(sent) + Len(e) /\ Len(e) \in Nat
                          /\ DOMAIN sent' = 1..(Len(sent) + Len(e))
                          /\ \A i \in 1..Len(e) : sent'[Len(sent) + i] = e[i]
                          /\ \A i \in DOMAIN sent' \ DOMAIN sent :
                               i - Len(sent) \in 1..Len(e) /\ sent'[i] = e[i - Len(sent)]
         /\ Len(sent) \in Nat /\ DOMAIN sent = 1..Len(sent)
         /\ \A i \in DOMAIN sent : i \in DOMAIN sent' /\ sent'[i] = sent[i]
<1>1. Len(sent) \in Nat /\ DOMAIN sent = 1..Len(sent) /\ Len(e) \in Nat
  BY LenProperties
<1>2. CASE ~req.stream
  BY <1>1, <1>2 DEF Send
<1>3. CASE req.stream
  <2>1. sent' = sent \o e
    BY <1>3 DEF Send
  <2>2. /\ sent' \in Seq(Events) /\ Len(sent') = Len(sent) + Len(e)
        /\ \A i \in 1..(Len(sent) + Len(e)) :
             sent'[i] = IF i <= Len(sent) THEN sent[i] ELSE e[i - Len(sent)]
    BY <2>1, ConcatProperties
  <2>3. DOMAIN sent' = 1..(Len(sent) + Len(e))
    BY <2>2, LenProperties
  <2>4. \A i \in 1..Len(e) : sent'[Len(sent) + i] = e[i]
    <3> SUFFICES ASSUME NEW i \in 1..Len(e) PROVE sent'[Len(sent) + i] = e[i]
      OBVIOUS
    <3>1. Len(sent) + i \in 1..(Len(sent) + Len(e)) /\ ~(Len(sent) + i <= Len(sent))
          /\ Len(sent) + i - Len(sent) = i
      BY <1>1
    <3> QED
      BY <2>2, <3>1
  <2> QED
    BY <1>1, <1>3, <2>2, <2>3, <2>4
<1> QED
  BY <1>2, <1>3

(* StreamShape, with each of its parts a statement about the events alone. *)
LEMMA ShapeIs ==
  StreamShape' <=>
    /\ \A i \in DOMAIN sent' : sent'[i] = "token" =>
          \E j \in 1..(i - 1) :
             /\ j \in DOMAIN sent' /\ sent'[j] = "generating"
             /\ kept'.chunks # <<>> => j - 1 \in DOMAIN sent' /\ sent'[j - 1] = "sources"
    /\ \A i \in DOMAIN sent' : sent'[i] \in {"done", "error"} => i = Len(sent')
    /\ req'.stream /\ pc' \in {"done", "failed"} => Last(sent') \in {"done", "error"}
BY DEF StreamShape, At

(* A request that fails is told so last, after what it has sent.           *)
LEMMA FailShape ==
  ASSUME SentSoFar, StreamShape, pc \notin Over, Fail, UNCHANGED <<req, kept>>
  PROVE  SentSoFar' /\ StreamShape'
<1> DEFINE e == <<"error">>
<1>1. e \in Seq(Events) /\ Len(e) = 1 /\ e[1] = "error"
  BY DEF Events
<1>2. sent \in Seq(Events) /\ Send(e)
  BY DEF SentSoFar, Fail
<1> HIDE DEF e
<1>3. /\ sent' \in Seq(Events) /\ Len(sent) \in Nat /\ DOMAIN sent = 1..Len(sent)
      /\ ~req.stream => sent' = sent
      /\ req.stream => /\ Len(sent') = Len(sent) + 1 /\ DOMAIN sent' = 1..(Len(sent) + 1)
                       /\ sent'[Len(sent) + 1] = "error"
      /\ \A i \in DOMAIN sent : i \in DOMAIN sent' /\ sent'[i] = sent[i]
  <2>1. /\ sent' \in Seq(Events) /\ Len(sent) \in Nat /\ DOMAIN sent = 1..Len(sent)
        /\ ~req.stream => sent' = sent
        /\ req.stream => /\ Len(sent') = Len(sent) + Len(e)
                         /\ DOMAIN sent' = 1..(Len(sent) + Len(e))
                         /\ \A i \in 1..Len(e) : sent'[Len(sent) + i] = e[i]
        /\ \A i \in DOMAIN sent : i \in DOMAIN sent' /\ sent'[i] = sent[i]
    BY <1>1, <1>2, SendIs
  <2> QED
    BY <1>1, <2>1
<1>4. pc' = "failed"
  BY DEF Fail
<1>5. SentSoFar'
  BY <1>3, <1>4 DEF SentSoFar, Unsent, Over
<1>6. CASE ~req.stream
  <2>1. sent = <<>> /\ sent' = <<>>
    BY <1>3, <1>6 DEF SentSoFar
  <2>2. \A i \in DOMAIN sent' : FALSE
    BY <2>1
  <2>3. ~req'.stream
    BY <1>6
  <2> QED
    BY <1>5, <2>2, <2>3, ShapeIs
<1>7. CASE req.stream
  <2>1. \A i \in DOMAIN sent : sent[i] \notin Terminators
    BY DEF SentSoFar
  <2>2. \A i \in DOMAIN sent' : i \in DOMAIN sent \/ i = Len(sent) + 1
    BY <1>3, <1>7
  <2>3. ASSUME NEW i \in DOMAIN sent', sent'[i] = "token"
        PROVE  \E j \in 1..(i - 1) :
                  /\ j \in DOMAIN sent' /\ sent'[j] = "generating"
                  /\ kept'.chunks # <<>> => j - 1 \in DOMAIN sent' /\ sent'[j - 1] = "sources"
    <3>1. i \in DOMAIN sent /\ sent[i] = "token"
      BY <1>3, <1>7, <2>2, <2>3
    <3>2. PICK j \in 1..(i - 1) :
            /\ j \in DOMAIN sent /\ sent[j] = "generating"
            /\ kept.chunks # <<>> => j - 1 \in DOMAIN sent /\ sent[j - 1] = "sources"
      BY <3>1 DEF StreamShape, At
    <3> QED
      BY <1>3, <3>2
  <2>4. \A i \in DOMAIN sent' : sent'[i] \in {"done", "error"} => i = Len(sent')
    BY <1>3, <1>7, <2>1, <2>2 DEF Terminators
  <2>5. Last(sent') \in {"done", "error"}
    BY <1>3, <1>7 DEF Last
  <2> QED
    BY <1>5, <2>3, <2>4, <2>5, ShapeIs
<1> QED
  BY <1>5, <1>6, <1>7

(* Nothing has been asked at first.                                        *)
LEMMA InitInv == Init => IInv
<1> SUFFICES ASSUME Init PROVE IInv
  OBVIOUS
<1>1. /\ pc = "idle" /\ kept = Nothing /\ sent = <<>> /\ result = <<>> /\ legs = Waiting
      /\ exclude = <<>> /\ req = NoRequest /\ listed = {} /\ unscoped = FALSE /\ ranked = FALSE
      /\ dense \subseteq SourceIds /\ lexical \subseteq SourceIds
  BY DEF Init
<1>2. 0 \in 0..Whole
  BY WholeIs
<1>3. kept = [chunks |-> <<>>, base |-> 0]
  BY <1>1 DEF Nothing
<1>4. SourcesOf(kept.chunks) = {}
  BY <1>3 DEF SourcesOf
<1>5. TypeOK
  <2>1. kept.base = 0 /\ SourcesOf(kept.chunks) \subseteq SourceIds
    BY <1>3, <1>4
  <2>2. unscoped \in BOOLEAN /\ ranked \in BOOLEAN /\ listed \subseteq SourceIds
    BY <1>1
  <2> QED
    BY <1>1, <1>2, <2>1, <2>2 DEF TypeOK
<1>6. Asked
  BY <1>1 DEF Asked
<1>7. LegsIn
  BY <1>1, NothingIsProper DEF LegsIn, Waiting
<1>8. KeptIn
  BY <1>1, <1>2, <1>3, NothingIsProper DEF KeptIn
<1>9. Reported
  BY <1>1 DEF Reported
<1>10. <<>> \in Seq(Events)
  OBVIOUS
<1>11. SentSoFar
  BY <1>1, <1>10 DEF SentSoFar, Over
<1>12. StreamShape
  BY <1>1 DEF StreamShape, At
<1> QED
  BY <1>5, <1>6, <1>7, <1>8, <1>9, <1>11, <1>12 DEF IInv

(* The limits of a request are numbers.                                    *)
LEMMA LimitsAre ==
  ASSUME Asked
  PROVE  req.limits.topK \in Nat /\ req.limits.cap \in Nat
<1>1. NoRequest.limits.topK \in Nat /\ NoRequest.limits.cap \in Nat
  BY DEF NoRequest
<1> QED
  BY <1>1, QueryAssumption DEF Asked

(* A step that sends nothing and goes on keeps what was sent in shape.     *)
LEMMA Quiet ==
  ASSUME SentSoFar, StreamShape, UNCHANGED <<req, sent, kept>>,
         pc' \notin Over, pc \notin Over, pc' # "generate" \/ pc = "generate",
         pc' \in Unsent => pc \in Unsent,
         pc' \in {"hyde", "embed", "scope", "legs"} => pc \in {"hyde", "embed", "scope", "legs"}
  PROVE  SentSoFar' /\ StreamShape'
<1>1. SentSoFar'
  BY DEF SentSoFar, Begun
<1>2. StreamShape'
  BY DEF StreamShape, At, Over
<1> QED
  BY <1>1, <1>2

(* The answer to a request is of its scope while the request is the same.  *)
LEMMA KeptStays ==
  ASSUME KeptIn, UNCHANGED <<req, kept, listed, unscoped, ranked>>,
         pc' \in Early => pc \in Early /\ UNCHANGED result
  PROVE  KeptIn'
BY DEF KeptIn, InScope

(* So do the legs,                                                         *)
LEMMA LegsStay ==
  ASSUME LegsIn, UNCHANGED <<req, exclude, legs, listed, unscoped>>, (pc' = "legs") <=> (pc = "legs")
  PROVE  LegsIn'
BY DEF LegsIn, InScope, Open

(* and the metrics reported.                                               *)
LEMMA ReportStays ==
  ASSUME Reported, UNCHANGED <<req, kept, result>>, pc = "done" => pc' = "done"
  PROVE  Reported'
BY DEF Reported
Pcs == {"idle", "manifest", "retrieve", "hyde", "embed", "scope", "legs", "generate",
        "done", "failed"}

(* What is kept has its type because it is proper.                         *)
LEMMA TypeFrom ==
  ASSUME dense' \subseteq SourceIds, lexical' \subseteq SourceIds, pc' \in Pcs, KeptIn',
         listed' \subseteq SourceIds, unscoped' \in BOOLEAN, ranked' \in BOOLEAN
  PROVE  TypeOK'
<1>1. Proper(kept'.chunks, InScope') /\ kept'.base \in 0..Whole
  BY DEF KeptIn
<1>2. SourcesOf(kept'.chunks) \subseteq SourceIds
  BY <1>1, ProperSources
<1> QED
  BY <1>1, <1>2 DEF TypeOK, Pcs

(* A proper list is one of any larger scope.                               *)
LEMMA ProperOfMore ==
  ASSUME NEW held, NEW more, held \subseteq more, NEW s, Proper(s, held)
  PROVE  Proper(s, more)
BY DEF Proper

(* Steps that only move on.                                                *)
LEMMA MovesOn ==
  ASSUME IInv, UNCHANGED <<stores, req, exclude, legs, kept, sent, result, ghosts>>,
         pc \notin Over, pc' \in Pcs, pc' \notin Over, (pc' = "legs") <=> (pc = "legs"),
         (pc' = "generate") <=> (pc = "generate"), (pc' \in Unsent) <=> (pc \in Unsent)
  PROVE  IInv'
<1>1. TypeOK /\ Asked /\ LegsIn /\ KeptIn /\ Reported /\ SentSoFar /\ StreamShape
  BY DEF IInv
<1>2. UNCHANGED <<dense, lexical, req, exclude, legs, kept, sent, result, listed, unscoped, ranked>>
  BY DEF stores, ghosts
<1>3. Asked'
  BY <1>1, <1>2 DEF Asked
<1>4. LegsIn'
  BY <1>1, <1>2, LegsStay
<1>5. KeptIn'
  BY <1>1, <1>2, KeptStays DEF Early, Pcs, Over, TypeOK
<1>6. Reported'
  BY <1>1, <1>2, ReportStays DEF Over
<1>7. TypeOK'
  BY <1>1, <1>2, <1>5, TypeFrom DEF TypeOK
<1>8. SentSoFar' /\ StreamShape'
  BY <1>1, <1>2, Quiet DEF Over, Pcs, TypeOK, Unsent
<1> QED
  BY <1>3, <1>4, <1>5, <1>6, <1>7, <1>8 DEF IInv

(* A request that fails at an await.                                       *)
LEMMA Fails ==
  ASSUME IInv, Fail, UNCHANGED <<stores, req, exclude, legs, kept, result, ghosts>>,
         pc \in {"manifest", "embed", "generate"}
  PROVE  IInv'
<1>1. TypeOK /\ Asked /\ LegsIn /\ KeptIn /\ Reported /\ SentSoFar /\ StreamShape
  BY DEF IInv
<1>2. /\ UNCHANGED <<dense, lexical, req, exclude, legs, kept, result, listed, unscoped, ranked>>
      /\ pc' = "failed"
  BY DEF stores, ghosts, Fail
<1>3. Asked'
  BY <1>1, <1>2 DEF Asked
<1>4. LegsIn'
  BY <1>1, <1>2, LegsStay
<1>5. KeptIn'
  BY <1>1, <1>2, KeptStays DEF Early
<1>6. Reported'
  BY <1>1, <1>2, ReportStays
<1>7. TypeOK'
  BY <1>1, <1>2, <1>5, TypeFrom DEF TypeOK, Pcs
<1>8. SentSoFar' /\ StreamShape'
  BY <1>1, <1>2, FailShape DEF Over
<1> QED
  BY <1>3, <1>4, <1>5, <1>6, <1>7, <1>8 DEF IInv

(* A question comes in, and nothing has been done for it.                  *)
LEMMA AskInv == ASSUME IInv, NEW r \in Requests, Ask(r) PROVE IInv'
<1>1. TypeOK /\ Asked /\ LegsIn /\ KeptIn /\ Reported /\ SentSoFar /\ StreamShape
  BY DEF IInv
<1>2. /\ UNCHANGED <<dense, lexical, exclude, legs, kept, sent, result, listed, unscoped, ranked>>
      /\ pc = "idle" /\ pc' \in {"manifest", "retrieve"} /\ req' = r
  BY DEF stores, ghosts, Ask
<1>3. /\ kept = Nothing /\ result = <<>> /\ legs = Waiting /\ exclude = <<>> /\ sent = <<>>
  BY <1>1, <1>2 DEF KeptIn, LegsIn, SentSoFar, Early, Unsent
<1>4. Asked'
  BY <1>2 DEF Asked
<1>5. LegsIn'
  BY <1>2, <1>3, NothingIsProper DEF LegsIn, Waiting
<1>6. KeptIn'
  <2>1. kept = [chunks |-> <<>>, base |-> 0] /\ 0 \in 0..Whole
    BY <1>3, WholeIs DEF Nothing
  <2> QED
    BY <1>2, <1>3, <2>1, NothingIsProper DEF KeptIn
<1>7. Reported'
  BY <1>2, <1>3 DEF Reported
<1>8. TypeOK'
  BY <1>1, <1>2, <1>6, TypeFrom DEF TypeOK, Pcs
<1>9. sent' = <<>> /\ <<>> \in Seq(Events) /\ pc' \notin Over
  BY <1>2, <1>3 DEF Over
<1>10. SentSoFar'
  BY <1>2, <1>9 DEF SentSoFar
<1>11. StreamShape'
  BY <1>2, <1>9, ShapeIs DEF Over
<1> QED
  BY <1>4, <1>5, <1>6, <1>7, <1>8, <1>10, <1>11 DEF IInv

(* The next request finds nothing of this one.                             *)
LEMMA CloseInv == ASSUME IInv, Close PROVE IInv'
<1>1. TypeOK
  BY DEF IInv
<1>2. /\ pc' = "idle" /\ kept' = Nothing /\ sent' = <<>> /\ result' = <<>> /\ legs' = Waiting
      /\ exclude' = <<>> /\ req' = NoRequest /\ listed' = {} /\ unscoped' = FALSE
      /\ ranked' = FALSE /\ dense' = dense /\ lexical' = lexical
  BY DEF Close, stores
<1>3. Asked'
  BY <1>2 DEF Asked
<1>4. LegsIn'
  BY <1>2, NothingIsProper DEF LegsIn, Waiting
<1>5. KeptIn'
  <2>1. kept' = [chunks |-> <<>>, base |-> 0] /\ 0 \in 0..Whole
    BY <1>2, WholeIs DEF Nothing
  <2> QED
    BY <1>2, <2>1, NothingIsProper DEF KeptIn
<1>6. Reported'
  BY <1>2 DEF Reported
<1>7. TypeOK'
  BY <1>1, <1>2, <1>5, TypeFrom DEF TypeOK, Pcs
<1>8. <<>> \in Seq(Events)
  OBVIOUS
<1>9. SentSoFar'
  BY <1>2, <1>8 DEF SentSoFar
<1>10. StreamShape'
  BY <1>2, ShapeIs
<1> QED
  BY <1>3, <1>4, <1>5, <1>6, <1>7, <1>9, <1>10 DEF IInv

(* What a list of events with no token and no end needs for its shape.     *)
LEMMA ShapeOfStart ==
  ASSUME NEW e \in Seq(Events), sent' = e, pc' \notin Over,
         \A i \in DOMAIN e : e[i] \notin Terminators /\ e[i] # "token",
         req'.stream \/ e = <<>>,
         pc' \notin Unsent, pc' \in {"hyde", "embed", "scope", "legs"} => e \in {<<>>, <<"retrieving">>},
         pc' = "generate" /\ req'.stream =>
           \E g \in DOMAIN e : /\ e[g] = "generating"
                               /\ kept'.chunks # <<>> => g - 1 \in DOMAIN e /\ e[g - 1] = "sources"
  PROVE  SentSoFar' /\ StreamShape'
<1>1. pc' = "generate" /\ req'.stream => Begun'
  BY DEF Begun
<1>2. SentSoFar'
  BY <1>1 DEF SentSoFar
<1>3. StreamShape'
  BY ShapeIs DEF Over, Terminators
<1> QED
  BY <1>2, <1>3

(* The search begins, or the answer at once.                               *)
LEMMA RetrieveInv == ASSUME IInv, NEW setting, Retrieve(setting) PROVE IInv'
<1>1. TypeOK /\ Asked /\ LegsIn /\ KeptIn /\ Reported /\ SentSoFar /\ StreamShape
  BY DEF IInv
<1>2. /\ UNCHANGED <<dense, lexical, req, exclude, legs, kept, result, listed, unscoped, ranked>>
      /\ pc = "retrieve" /\ pc' \in {"generate", "hyde", "embed"}
      /\ Send(<<"retrieving">> \o IF pc' = "generate" THEN <<"generating">> ELSE <<>>)
  BY DEF stores, ghosts, Retrieve
<1>3. kept = Nothing /\ result = <<>> /\ sent = <<>>
  BY <1>1, <1>2 DEF KeptIn, SentSoFar, Early, Unsent
<1>4. kept = [chunks |-> <<>>, base |-> 0] /\ 0 \in 0..Whole
  BY <1>3, WholeIs DEF Nothing
<1>5. Asked'
  BY <1>1, <1>2 DEF Asked
<1>6. LegsIn'
  BY <1>1, <1>2, LegsStay
<1>7. KeptIn'
  BY <1>2, <1>3, <1>4, NothingIsProper DEF KeptIn
<1>8. Reported'
  BY <1>2, <1>3 DEF Reported
<1>9. TypeOK'
  BY <1>1, <1>2, <1>7, TypeFrom DEF TypeOK, Pcs
<1>10. SentSoFar' /\ StreamShape'
  <2>1. CASE ~req.stream
    <3> DEFINE e == <<>>
    <3>1. sent' = e /\ ~req'.stream
      BY <1>2, <1>3, <2>1 DEF Send
    <3>2. e \in Seq(Events) /\ e = <<>> /\ \A i \in DOMAIN e : FALSE
      OBVIOUS
    <3> HIDE DEF e
    <3>3. e \in {<<>>, <<"retrieving">>}
      BY <3>2
    <3> QED
      BY <1>2, <3>1, <3>2, <3>3, ShapeOfStart DEF Over, Unsent
  <2>2. CASE req.stream /\ pc' = "generate"
    <3> DEFINE e == <<"retrieving">> \o <<"generating">>
    <3>1. sent' = <<>> \o e
      BY <1>2, <1>3, <2>2, Zenon DEF Send
    <3>2. "retrieving" \in Events /\ "generating" \in Events
      BY DEF Events
    <3>3. e \in Seq(Events) /\ DOMAIN e = 1..2 /\ e[1] = "retrieving" /\ e[2] = "generating"
      BY <3>2, PairOfEvents
    <3> HIDE DEF e
    <3>4. sent' = e
      BY <3>1, <3>3, ConcatEmptySeq
    <3>5. \A i \in DOMAIN e : e[i] \notin Terminators /\ e[i] # "token"
      BY <3>3 DEF Terminators
    <3>6. 2 \in DOMAIN e /\ e[2] = "generating" /\ kept'.chunks = <<>>
      BY <1>2, <1>4, <3>3
    <3> QED
      BY <1>2, <2>2, <3>3, <3>4, <3>5, <3>6, ShapeOfStart DEF Over, Unsent
  <2>3. CASE req.stream /\ pc' # "generate"
    <3> DEFINE e == <<"retrieving">>
    <3>1. sent' = e
      BY <1>2, <1>3, <2>3 DEF Send
    <3>2. /\ e \in Seq(Events) /\ \A i \in DOMAIN e : e[i] \notin Terminators /\ e[i] # "token"
          /\ e \in {<<>>, <<"retrieving">>}
      BY DEF Events, Terminators
    <3> HIDE DEF e
    <3> QED
      BY <1>2, <2>3, <3>1, <3>2, ShapeOfStart DEF Over, Unsent
  <2> QED
    BY <2>1, <2>2, <2>3
<1> QED
  BY <1>5, <1>6, <1>7, <1>8, <1>9, <1>10 DEF IInv

(* The exclusions are read, and the legs set out with them.                *)
LEMMA ReadScopeInv == ASSUME IInv, ReadScope PROVE IInv'
<1>1. TypeOK /\ Asked /\ LegsIn /\ KeptIn /\ Reported /\ SentSoFar /\ StreamShape
  BY DEF IInv
<1>2. /\ UNCHANGED <<dense, lexical, req, legs, kept, sent, result, ranked>>
      /\ pc = "scope" /\ pc' = "legs"
  BY DEF stores, ReadScope
<1>3. kept = Nothing /\ result = <<>> /\ legs = Waiting /\ exclude = <<>>
  BY <1>1, <1>2 DEF KeptIn, LegsIn, Early
<1>4. kept = [chunks |-> <<>>, base |-> 0] /\ 0 \in 0..Whole
  BY <1>3, WholeIs DEF Nothing
<1>5. Asked'
  BY <1>1, <1>2 DEF Asked
<1>6. Open' \subseteq InScope'
  <2>1. CASE req.scope = {}
    BY <1>2, <2>1 DEF Open, InScope
  <2>2. CASE req.scope # {} /\ exclude' = <<dense \ req.scope>> /\ listed' = dense
    BY <1>2, <2>2 DEF Open, InScope
  <2>3. CASE unscoped' = TRUE
    BY <1>2, <2>3 DEF Open, InScope
  <2> QED
    BY <2>1, <2>2, <2>3 DEF ReadScope
<1>7. LegsIn'
  BY <1>2, <1>3, <1>6, NothingIsProper DEF LegsIn, Waiting
<1>8. KeptIn'
  BY <1>2, <1>3, <1>4, NothingIsProper DEF KeptIn
<1>9. Reported'
  BY <1>2, <1>3 DEF Reported
<1>10. listed' \subseteq SourceIds /\ unscoped' \in BOOLEAN
  BY <1>1 DEF ReadScope, TypeOK
<1>11. TypeOK'
  BY <1>1, <1>2, <1>8, <1>10, TypeFrom DEF TypeOK, Pcs
<1>12. SentSoFar' /\ StreamShape'
  BY <1>1, <1>2, Quiet DEF Over, Unsent
<1> QED
  BY <1>5, <1>7, <1>8, <1>9, <1>11, <1>12 DEF IInv

(* A leg comes in with chunks of the sources it may look in.               *)
LEMMA LegInv ==
  ASSUME IInv, NEW name \in {"bm25", "dense"}, NEW held \in SUBSET SourceIds, Leg(name, held)
  PROVE  IInv'
<1>1. TypeOK /\ Asked /\ LegsIn /\ KeptIn /\ Reported /\ SentSoFar /\ StreamShape
  BY DEF IInv
<1>2. /\ UNCHANGED <<dense, lexical, pc, req, exclude, kept, sent, result, listed, unscoped, ranked>>
      /\ pc = "legs"
  BY DEF stores, ghosts, Leg
<1>3. PICK f \in Found(held) : legs' = [legs EXCEPT ![name] = [in |-> TRUE, found |-> f]]
  BY DEF Leg
<1>4. Proper(f, InScope)
  <2>1. Proper(f, held \ (IF exclude = <<>> THEN {} ELSE exclude[1]))
    BY FoundIs
  <2>2. held \ (IF exclude = <<>> THEN {} ELSE exclude[1]) \subseteq InScope
    BY <1>1, <1>2 DEF LegsIn, Open
  <2> QED
    BY <2>1, <2>2, ProperOfMore
<1>5. InScope' = InScope /\ Open' = Open
  BY <1>2 DEF InScope, Open
<1>6. LegsIn'
  <2>1. DOMAIN legs = {"bm25", "dense"}
    BY <1>1 DEF LegsIn
  <2>2. DOMAIN legs' = {"bm25", "dense"} /\ legs'[name] = [in |-> TRUE, found |-> f]
        /\ \A l \in {"bm25", "dense"} : l # name => legs'[l] = legs[l]
    BY <1>3, <2>1
  <2>3. \A l \in {"bm25", "dense"} : legs[l] = [in |-> legs[l].in, found |-> legs[l].found]
    BY <1>1 DEF LegsIn
  <2>4. \A l \in {"bm25", "dense"} : /\ legs'[l].in \in BOOLEAN
                                     /\ Proper(legs'[l].found, InScope)
                                     /\ legs'[l] = [in |-> legs'[l].in, found |-> legs'[l].found]
    <3>1. /\ legs'[name].in \in BOOLEAN /\ Proper(legs'[name].found, InScope)
          /\ legs'[name] = [in |-> legs'[name].in, found |-> legs'[name].found]
      BY <1>4, <2>2
    <3>2. ASSUME NEW l \in {"bm25", "dense"}, l # name
          PROVE  /\ legs'[l].in \in BOOLEAN /\ Proper(legs'[l].found, InScope)
                 /\ legs'[l] = [in |-> legs'[l].in, found |-> legs'[l].found]
      <4>1. legs'[l] = legs[l] /\ legs[l].in \in BOOLEAN /\ Proper(legs[l].found, InScope)
        BY <1>1, <2>2, <3>2 DEF LegsIn
      <4> QED
        BY <2>3, <4>1
    <3> QED
      BY <3>1, <3>2
  <2>5. legs' = [l \in {"bm25", "dense"} |-> legs'[l]]
    BY <1>3, <2>1
  <2>6. legs' = [l \in {"bm25", "dense"} |-> [in |-> legs'[l].in, found |-> legs'[l].found]]
    BY <2>4, <2>5
  <2> QED
    BY <1>1, <1>2, <1>5, <2>4, <2>6 DEF LegsIn
<1>7. Asked'
  BY <1>1, <1>2 DEF Asked
<1>8. KeptIn'
  BY <1>1, <1>2, KeptStays
<1>9. Reported'
  BY <1>1, <1>2, ReportStays
<1>10. TypeOK'
  BY <1>1, <1>2, <1>8, TypeFrom DEF TypeOK, Pcs
<1>11. SentSoFar' /\ StreamShape'
  BY <1>1, <1>2, Quiet DEF Over
<1> QED
  BY <1>6, <1>7, <1>8, <1>9, <1>10, <1>11 DEF IInv

(* What the legs found is fused, ranked and chosen from: it is in scope,   *)
(* and announced before the answer is begun.                               *)
LEMMA SelectInv == ASSUME IInv, Select PROVE IInv'
<1>1. TypeOK /\ Asked /\ LegsIn /\ KeptIn /\ Reported /\ SentSoFar /\ StreamShape
  BY DEF IInv
<1>2. /\ UNCHANGED <<dense, lexical, req, result, listed, unscoped>>
      /\ pc = "legs" /\ pc' = "generate" /\ exclude' = <<>> /\ legs' = Waiting
      /\ Send((IF kept'.chunks = <<>> THEN <<>> ELSE <<"sources">>) \o <<"generating">>)
  BY DEF stores, Select
<1>3. PICK fused : /\ fused = Take(Fuse(legs.bm25.found, legs.dense.found), TopK)
                   /\ \/ /\ ranked' = TRUE
                         /\ \E score \in [DOMAIN fused -> Scores] :
                              \E scored \in {Scored(fused, score)} :
                                kept' = Rerank(scored, req.limits.topK, req.limits.cap)
                      \/ /\ ranked' = FALSE
                         /\ kept' = Unranked(fused, req.limits.topK)
  BY DEF Select
<1>4. Proper(fused, InScope)
  <2>1. Proper(legs["bm25"].found, InScope) /\ Proper(legs["dense"].found, InScope)
    BY <1>1 DEF LegsIn
  <2>2. Proper(Fuse(legs.bm25.found, legs.dense.found), InScope)
    BY <2>1, FuseIs
  <2> QED
    BY <1>3, <2>2, TakeProper, QueryAssumption
<1>5. req.limits.topK \in Nat /\ req.limits.cap \in Nat
  BY <1>1, LimitsAre
<1>6. /\ kept' = [chunks |-> kept'.chunks, base |-> kept'.base]
      /\ Proper(kept'.chunks, InScope) /\ kept'.base \in 0..Whole
      /\ ranked' /\ kept'.chunks # <<>> => kept'.base = Worth(kept'.chunks)
      /\ ranked' \in BOOLEAN
  <2>1. CASE ranked' = TRUE
    <3>1. PICK score \in [DOMAIN fused -> Scores] :
            kept' = Rerank(Scored(fused, score), req.limits.topK, req.limits.cap)
      BY <1>3, <2>1
    <3>2. score \in [DOMAIN fused -> 0..100]
      BY QueryAssumption
    <3>3. Proper(Scored(fused, score), InScope)
      BY <1>4, <3>2, ScoredProper
    <3>4. /\ Proper(kept'.chunks, InScope) /\ kept'.base \in 0..Whole
          /\ kept'.chunks # <<>> => kept'.base = Worth(kept'.chunks)
      BY <1>5, <3>1, <3>3, RerankIs
    <3>5. kept' = [chunks |-> kept'.chunks, base |-> kept'.base]
      BY <3>1 DEF Rerank
    <3> QED
      BY <2>1, <3>4, <3>5
  <2>2. CASE ranked' = FALSE
    <3>1. kept' = Unranked(fused, req.limits.topK)
      BY <1>3, <2>2
    <3>2. Proper(kept'.chunks, InScope) /\ kept'.base \in 0..Whole
      BY <1>4, <1>5, <3>1, UnrankedIs
    <3>3. kept' = [chunks |-> kept'.chunks, base |-> kept'.base]
      BY <3>1 DEF Unranked
    <3> QED
      BY <2>2, <3>2, <3>3
  <2> QED
    BY <1>3, <2>1, <2>2
<1>7. Asked'
  BY <1>1, <1>2 DEF Asked
<1>8. LegsIn'
  BY <1>2, NothingIsProper DEF LegsIn, Waiting
<1>9. InScope' = InScope
  BY <1>2 DEF InScope
<1>10. KeptIn'
  BY <1>2, <1>6, <1>9 DEF KeptIn, Early
<1>11. result = <<>>
  BY <1>1, <1>2 DEF KeptIn, Early
<1>12. Reported'
  BY <1>2, <1>11 DEF Reported
<1>13. TypeOK'
  BY <1>1, <1>2, <1>6, <1>10, TypeFrom DEF TypeOK, Pcs
<1>14. SentSoFar' /\ StreamShape'
  <2> DEFINE e == (IF kept'.chunks = <<>> THEN <<>> ELSE <<"sources">>) \o <<"generating">>
  <2>1. /\ e \in Seq(Events) /\ Len(e) \in {1, 2} /\ e[Len(e)] = "generating"
        /\ kept'.chunks # <<>> => Len(e) = 2 /\ e[1] = "sources"
        /\ \A i \in 1..Len(e) : e[i] \in {"sources", "generating"}
    <3>1. "sources" \in Events /\ "generating" \in Events
      BY DEF Events
    <3>2. CASE kept'.chunks = <<>>
      <4> DEFINE o == <<"generating">>
      <4>1. o \in Seq(Events) /\ Len(o) = 1 /\ o[1] = "generating"
        BY <3>1, OneEvent
      <4>2. e = <<>> \o o
        BY <3>2
      <4> HIDE DEF o, e
      <4>3. e = o
        BY <4>1, <4>2, ConcatEmptySeq
      <4>4. \A i \in 1..Len(o) : o[i] \in {"sources", "generating"}
        <5>1. \A i \in 1..1 : i = 1
          OBVIOUS
        <5> QED
          BY <4>1, <5>1
      <4>5. /\ o \in Seq(Events) /\ Len(o) \in {1, 2} /\ o[Len(o)] = "generating"
            /\ \A i \in 1..Len(o) : o[i] \in {"sources", "generating"}
        BY <4>1, <4>4
      <4> QED
        BY <3>2, <4>3, <4>5
    <3>3. CASE kept'.chunks # <<>>
      <4> DEFINE o == <<"sources">> \o <<"generating">>
      <4>1. o \in Seq(Events) /\ DOMAIN o = 1..2 /\ o[1] = "sources" /\ o[2] = "generating"
        BY <3>1, PairOfEvents
      <4>2. e = o
        BY <3>3
      <4> HIDE DEF o, e
      <4>3. Len(o) = 2
        BY <4>1, LenProperties
      <4> QED
        BY <4>1, <4>2, <4>3
    <3> QED
      BY <3>2, <3>3
  <2>2. Send(e) /\ sent \in Seq(Events) /\ sent \in {<<>>, <<"retrieving">>}
        /\ (~req.stream => sent = <<>>)
    BY <1>1, <1>2 DEF SentSoFar
  <2> HIDE DEF e
  <2>3. \A i \in DOMAIN sent : sent[i] = "retrieving"
    BY <2>2
  <2>4. /\ sent' \in Seq(Events)
        /\ ~req.stream => sent' = sent
        /\ req.stream => /\ DOMAIN sent' = 1..(Len(sent) + Len(e))
                         /\ \A i \in 1..Len(e) : sent'[Len(sent) + i] = e[i]
                         /\ \A i \in DOMAIN sent' \ DOMAIN sent :
                              i - Len(sent) \in 1..Len(e) /\ sent'[i] = e[i - Len(sent)]
        /\ Len(sent) \in Nat
        /\ \A i \in DOMAIN sent : i \in DOMAIN sent' /\ sent'[i] = sent[i]
    BY <2>1, <2>2, SendIs
  <2>5. CASE ~req.stream
    <3>1. sent' = <<>> /\ ~req'.stream /\ \A i \in DOMAIN sent' : FALSE
      BY <1>2, <2>2, <2>4, <2>5
    <3> QED
      BY <1>2, <2>4, <3>1, ShapeOfStart DEF Over, Unsent
  <2>6. CASE req.stream
    <3>1. ASSUME NEW i \in DOMAIN sent' PROVE sent'[i] \in {"retrieving", "sources", "generating"}
      <4>1. CASE i \in DOMAIN sent
        BY <2>3, <2>4, <4>1
      <4>2. CASE i \notin DOMAIN sent
        BY <2>1, <2>4, <2>6, <4>2
      <4> QED
        BY <4>1, <4>2
    <3> DEFINE g == Len(sent) + Len(e)
    <3>2. g \in DOMAIN sent' /\ sent'[g] = "generating"
      <4>1. Len(e) \in 1..Len(e) /\ g \in 1..g
        BY <2>1, <2>4
      <4>2. sent'[g] = e[Len(e)]
        BY <2>4, <2>6, <4>1
      <4> QED
        BY <2>1, <2>4, <2>6, <4>1, <4>2
    <3>3. kept'.chunks # <<>> => g - 1 \in DOMAIN sent' /\ sent'[g - 1] = "sources"
      <4> SUFFICES ASSUME kept'.chunks # <<>>
                   PROVE  g - 1 \in DOMAIN sent' /\ sent'[g - 1] = "sources"
        OBVIOUS
      <4>1. Len(e) = 2 /\ e[1] = "sources" /\ 1 \in 1..Len(e)
        BY <2>1
      <4>2. g - 1 = Len(sent) + 1 /\ g - 1 \in 1..g
        BY <2>4, <4>1
      <4>3. sent'[Len(sent) + 1] = e[1]
        BY <2>4, <2>6, <4>1
      <4> QED
        BY <2>4, <2>6, <4>1, <4>2, <4>3
    <3>4. \A i \in DOMAIN sent' : sent'[i] \notin Terminators /\ sent'[i] # "token"
      BY <3>1 DEF Terminators
    <3> HIDE DEF g
    <3> QED
      BY <1>2, <2>4, <2>6, <3>2, <3>3, <3>4, ShapeOfStart DEF Over, Unsent
  <2> QED
    BY <2>5, <2>6
<1> QED
  BY <1>7, <1>8, <1>10, <1>12, <1>13, <1>14 DEF IInv

(* A token comes after what was announced.                                 *)
LEMMA TokenInv == ASSUME IInv, Token PROVE IInv'
<1>1. TypeOK /\ Asked /\ LegsIn /\ KeptIn /\ Reported /\ SentSoFar /\ StreamShape
  BY DEF IInv
<1>2. /\ UNCHANGED <<dense, lexical, pc, req, exclude, legs, kept, result, listed, unscoped, ranked>>
      /\ pc = "generate" /\ req.stream /\ Send(<<"token">>)
  BY DEF stores, ghosts, Token
<1>3. Asked' /\ LegsIn' /\ KeptIn' /\ Reported'
  BY <1>1, <1>2, LegsStay, KeptStays, ReportStays DEF Asked
<1>4. TypeOK'
  BY <1>1, <1>2, <1>3, TypeFrom DEF TypeOK, Pcs
<1>5. /\ sent' \in Seq(Events) /\ Len(sent) \in Nat /\ DOMAIN sent = 1..Len(sent)
      /\ DOMAIN sent' = 1..(Len(sent) + 1) /\ sent'[Len(sent) + 1] = "token"
      /\ \A i \in DOMAIN sent : i \in DOMAIN sent' /\ sent'[i] = sent[i]
  <2> DEFINE e == <<"token">>
  <2>1. e \in Seq(Events) /\ Len(e) = 1 /\ e[1] = "token" /\ sent \in Seq(Events) /\ Send(e)
    BY <1>1, <1>2, OneEvent DEF Events, SentSoFar
  <2> HIDE DEF e
  <2>2. /\ sent' \in Seq(Events) /\ Len(sent) \in Nat /\ DOMAIN sent = 1..Len(sent)
        /\ DOMAIN sent' = 1..(Len(sent) + Len(e))
        /\ \A i \in 1..Len(e) : sent'[Len(sent) + i] = e[i]
        /\ \A i \in DOMAIN sent : i \in DOMAIN sent' /\ sent'[i] = sent[i]
    BY <1>2, <2>1, SendIs
  <2> QED
    BY <2>1, <2>2
<1>6. \A i \in DOMAIN sent' : i \in DOMAIN sent \/ i = Len(sent) + 1
  BY <1>5
<1>7. PICK g \in DOMAIN sent :
        /\ sent[g] = "generating"
        /\ kept.chunks # <<>> => g - 1 \in DOMAIN sent /\ sent[g - 1] = "sources"
        /\ \A i \in DOMAIN sent : sent[i] = "token" => g < i
  BY <1>1, <1>2 DEF SentSoFar, Begun
<1>8. /\ g \in DOMAIN sent' /\ sent'[g] = "generating"
      /\ kept'.chunks # <<>> => g - 1 \in DOMAIN sent' /\ sent'[g - 1] = "sources"
      /\ \A i \in DOMAIN sent' : sent'[i] = "token" => g < i
  BY <1>2, <1>5, <1>6, <1>7
<1>9. \A i \in DOMAIN sent' : sent'[i] \notin Terminators
  BY <1>1, <1>2, <1>5, <1>6 DEF SentSoFar, Over, Terminators
<1>10. SentSoFar'
  BY <1>2, <1>5, <1>8, <1>9 DEF SentSoFar, Begun, Unsent
<1>11. StreamShape'
  <2>1. \A i \in DOMAIN sent' : sent'[i] = "token" => g \in 1..(i - 1)
    BY <1>5, <1>8
  <2> QED
    BY <1>2, <1>8, <1>9, <2>1, ShapeIs DEF Terminators
<1> QED
  BY <1>3, <1>4, <1>10, <1>11 DEF IInv

(* The answer is complete and said to be.                                  *)
LEMMA FinishInv == ASSUME IInv, NEW a \in Answers, Finish(a) PROVE IInv'
<1>1. TypeOK /\ Asked /\ LegsIn /\ KeptIn /\ Reported /\ SentSoFar /\ StreamShape
  BY DEF IInv
<1>2. /\ UNCHANGED <<dense, lexical, req, exclude, legs, kept, listed, unscoped, ranked>>
      /\ pc = "generate" /\ pc' = "done"
      /\ Send(<<"sources", "latency", "confidence", "done">>)
      /\ result' = <<[metrics |-> Metrics(req.q, kept.chunks,
                                    ApplyConfidence(req.q, kept.chunks, kept.base), a),
                      answer |-> a]>>
  BY DEF stores, ghosts, Finish
<1>3. Asked' /\ LegsIn'
  BY <1>1, <1>2, LegsStay DEF Asked
<1>4. KeptIn'
  BY <1>1, <1>2, KeptStays DEF Early
<1>5. Reported'
  BY <1>2 DEF Reported
<1>6. TypeOK'
  BY <1>1, <1>2, <1>4, TypeFrom DEF TypeOK, Pcs
<1> DEFINE e == <<"sources", "latency", "confidence", "done">>
<1>7. /\ e \in Seq(Events) /\ Len(e) = 4 /\ e[4] = "done"
      /\ \A i \in 1..3 : e[i] \in {"sources", "latency", "confidence"}
  BY DEF Events
<1> HIDE DEF e
<1>8. /\ sent' \in Seq(Events) /\ Len(sent) \in Nat /\ DOMAIN sent = 1..Len(sent)
      /\ ~req.stream => sent' = sent
      /\ req.stream => /\ Len(sent') = Len(sent) + Len(e)
                       /\ DOMAIN sent' = 1..(Len(sent) + Len(e))
                       /\ \A i \in 1..Len(e) : sent'[Len(sent) + i] = e[i]
                       /\ \A i \in DOMAIN sent' \ DOMAIN sent :
                            i - Len(sent) \in 1..Len(e) /\ sent'[i] = e[i - Len(sent)]
      /\ \A i \in DOMAIN sent : i \in DOMAIN sent' /\ sent'[i] = sent[i]
  BY <1>1, <1>2, <1>7, SendIs DEF SentSoFar, e
<1>9. SentSoFar'
  BY <1>1, <1>2, <1>8 DEF SentSoFar, Unsent, Over
<1>10. CASE ~req.stream
  <2>1. sent' = <<>> /\ ~req'.stream /\ \A i \in DOMAIN sent' : FALSE
    BY <1>1, <1>2, <1>8, <1>10 DEF SentSoFar
  <2> QED
    BY <1>3, <1>4, <1>5, <1>6, <1>9, <2>1, ShapeIs DEF IInv
<1>11. CASE req.stream
  <2>1. ASSUME NEW i \in DOMAIN sent', sent'[i] = "token"
        PROVE  \E j \in 1..(i - 1) :
                  /\ j \in DOMAIN sent' /\ sent'[j] = "generating"
                  /\ kept'.chunks # <<>> => j - 1 \in DOMAIN sent' /\ sent'[j - 1] = "sources"
    <3>1. i \in DOMAIN sent /\ sent[i] = "token"
      <4>1. \A k \in 1..4 : e[k] # "token"
        BY <1>7
      <4>2. i \notin DOMAIN sent => i - Len(sent) \in 1..4 /\ sent'[i] = e[i - Len(sent)]
        BY <1>7, <1>8, <1>11
      <4> QED
        BY <1>8, <2>1, <4>1, <4>2
    <3>2. PICK j \in 1..(i - 1) :
            /\ j \in DOMAIN sent /\ sent[j] = "generating"
            /\ kept.chunks # <<>> => j - 1 \in DOMAIN sent /\ sent[j - 1] = "sources"
      BY <1>1, <3>1 DEF StreamShape, At
    <3> QED
      BY <1>2, <1>8, <3>2
  <2>2. ASSUME NEW i \in DOMAIN sent', sent'[i] \in {"done", "error"}
        PROVE  i = Len(sent')
    <3>1. i \notin DOMAIN sent
      BY <1>1, <1>2, <1>8, <2>2 DEF SentSoFar, Over, Terminators
    <3>2. i - Len(sent) \in 1..4 /\ e[i - Len(sent)] \in {"done", "error"}
      BY <1>7, <1>8, <1>11, <2>2, <3>1
    <3>3. i - Len(sent) = 4
      BY <1>7, <3>2
    <3> QED
      BY <1>7, <1>8, <1>11, <3>3
  <2>3. Last(sent') = "done"
    <3>1. Last(sent') = sent'[Len(sent) + 4]
      BY <1>7, <1>8, <1>11 DEF Last
    <3> QED
      BY <1>7, <1>8, <1>11, <3>1
  <2> QED
    BY <1>3, <1>4, <1>5, <1>6, <1>9, <2>1, <2>2, <2>3, ShapeIs DEF IInv
<1> QED
  BY <1>10, <1>11

(* The stores change under the request, which knows them only through the  *)
(* list it read.                                                           *)
LEMMA ElsewhereInv == ASSUME IInv, Elsewhere PROVE IInv'
<1>1. TypeOK /\ Asked /\ LegsIn /\ KeptIn /\ Reported /\ SentSoFar /\ StreamShape
  BY DEF IInv
<1>2. /\ UNCHANGED <<pc, req, exclude, legs, kept, sent, result, listed, unscoped, ranked>>
      /\ pc \in {"scope", "legs"}
  BY DEF ghosts, Elsewhere
<1>3. dense' \subseteq SourceIds /\ lexical' \subseteq SourceIds
  BY <1>1 DEF Elsewhere, Ingested, Deleted, TypeOK
<1>4. Asked' /\ LegsIn' /\ KeptIn' /\ Reported'
  BY <1>1, <1>2, LegsStay, KeptStays, ReportStays DEF Asked
<1>5. TypeOK'
  BY <1>1, <1>2, <1>3, <1>4, TypeFrom DEF TypeOK, Pcs
<1>6. SentSoFar' /\ StreamShape'
  BY <1>1, <1>2, Quiet DEF Over
<1> QED
  BY <1>4, <1>5, <1>6 DEF IInv

(* Nothing happens.                                                        *)
LEMMA StutterInv == ASSUME IInv, UNCHANGED vars PROVE IInv'
<1>1. TypeOK /\ Asked /\ LegsIn /\ KeptIn /\ Reported /\ SentSoFar /\ StreamShape
  BY DEF IInv
<1>2. UNCHANGED <<dense, lexical, pc, req, exclude, legs, kept, sent, result, listed, unscoped, ranked>>
  BY DEF vars
<1>3. Asked' /\ LegsIn' /\ KeptIn' /\ Reported'
  BY <1>1, <1>2, LegsStay, KeptStays, ReportStays DEF Asked
<1>4. TypeOK'
  BY <1>1, <1>2, <1>3, TypeFrom DEF TypeOK, Pcs
<1>5. SentSoFar'
  BY <1>1, <1>2 DEF SentSoFar, Begun
<1>6. StreamShape'
  BY <1>1, <1>2 DEF StreamShape, At
<1> QED
  BY <1>3, <1>4, <1>5, <1>6 DEF IInv

(* Every step of a request, of the next one and of the stores.             *)
LEMMA Inductive == IInv /\ [Next]_vars => IInv'
<1> SUFFICES ASSUME IInv, [Next]_vars PROVE IInv'
  OBVIOUS
<1>1. ASSUME NEW r \in Requests, Ask(r) PROVE IInv'
  BY <1>1, AskInv
<1>2. CASE ListPaths
  <2>1. UNCHANGED <<stores, req, exclude, legs, kept, result, ghosts>> /\ pc = "manifest"
    BY <1>2 DEF ListPaths
  <2>2. CASE pc' = "retrieve" /\ UNCHANGED sent
    BY <2>1, <2>2, MovesOn DEF Over, Pcs, Unsent
  <2>3. CASE Fail
    BY <2>1, <2>3, Fails
  <2> QED
    BY <1>2, <2>2, <2>3 DEF ListPaths
<1>3. ASSUME NEW setting \in BOOLEAN, Retrieve(setting) PROVE IInv'
  BY <1>3, RetrieveInv
<1>4. CASE Expand
  <2>1. /\ UNCHANGED <<stores, req, exclude, legs, kept, sent, result, ghosts>>
        /\ pc = "hyde" /\ pc' = "embed"
    BY <1>4 DEF Expand
  <2> QED
    BY <2>1, MovesOn DEF Over, Pcs, Unsent
<1>5. CASE Embed
  <2>1. UNCHANGED <<stores, req, exclude, legs, kept, result, ghosts>> /\ pc = "embed"
    BY <1>5 DEF Embed
  <2>2. CASE pc' = "scope" /\ UNCHANGED sent
    BY <2>1, <2>2, MovesOn DEF Over, Pcs, Unsent
  <2>3. CASE Fail
    BY <2>1, <2>3, Fails
  <2> QED
    BY <1>5, <2>2, <2>3 DEF Embed
<1>6. CASE ReadScope
  BY <1>6, ReadScopeInv
<1>7. CASE DenseLeg \/ LexicalLeg
  <2>1. dense \in SUBSET SourceIds /\ lexical \in SUBSET SourceIds
    BY DEF IInv, TypeOK
  <2> QED
    BY <1>7, <2>1, LegInv DEF DenseLeg, LexicalLeg
<1>8. CASE Select
  BY <1>8, SelectInv
<1>9. ASSUME NEW a \in Answers, Finish(a) PROVE IInv'
  BY <1>9, FinishInv
<1>10. CASE GenerateFails
  <2>1. /\ UNCHANGED <<stores, req, exclude, legs, kept, result, ghosts>>
        /\ pc = "generate" /\ Fail
    BY <1>10 DEF GenerateFails
  <2> QED
    BY <2>1, Fails
<1>11. CASE Token
  BY <1>11, TokenInv
<1>12. CASE Close
  BY <1>12, CloseInv
<1>13. CASE Elsewhere
  BY <1>13, ElsewhereInv
<1>14. CASE UNCHANGED vars
  BY <1>14, StutterInv
<1> QED
  BY <1>1, <1>2, <1>3, <1>4, <1>5, <1>6, <1>7, <1>8, <1>9, <1>10, <1>11, <1>12, <1>13, <1>14
     DEF Next, Step

(* Every state of a request is of the invariant.                           *)
LEMMA Invariant == Spec => []IInv
BY InitInv, Inductive, PTL DEF Spec

-----------------------------------------------------------------------------
(* What the invariant promises.                                            *)

(* The variables of a request keep their types.                            *)
THEOREM TypeCorrect == Spec => []TypeOK
<1>1. IInv => TypeOK
  BY DEF IInv
<1> QED
  BY <1>1, Invariant, PTL

(* A question asked of selected sources is answered from those, whatever   *)
(* is ingested or deleted while the legs run and whatever half of it is    *)
(* left behind: query_service's scope, _source_exclude_set and the legs.   *)
THEOREM ScopeIsKept == Spec => []ScopeKept
<1>1. ASSUME IInv PROVE ScopeKept
  <2>1. Proper(kept.chunks, InScope)
    BY <1>1 DEF IInv, KeptIn
  <2>2. SourcesOf(kept.chunks) \subseteq InScope
    BY <2>1, ProperSources
  <2> QED
    BY <2>2 DEF ScopeKept, InScope
<1> QED
  BY <1>1, Invariant, PTL

(* A stream announces its sources, generates, sends its tokens and ends    *)
(* with one terminator, on every path through routes/query.py.             *)
THEOREM StreamHasItsShape == Spec => []StreamShape
<1>1. IInv => StreamShape
  BY DEF IInv
<1> QED
  BY <1>1, Invariant, PTL

-----------------------------------------------------------------------------
(* The confidence that is reported.                                        *)

(* Three quarters of the confidence, when every figure is invented.        *)
LEMMA ThreeQuarters ==
  ASSUME NEW c \in Nat, NEW n \in Nat \ {0}
  PROVE  /\ (c * 75 * n) \div (100 * n) \in Nat
         /\ 75 * c < 100 * ((c * 75 * n) \div (100 * n)) + 100
<1> DEFINE x == c * 75 * n
           y == 100 * n
           q == x \div y
<1>1. x \in Nat /\ y \in Nat \ {0}
  OBVIOUS
<1>2. q \in Nat /\ x < y * q + y
  <2> HIDE DEF x, y
  <2> QED
    BY <1>1, QuotientIs
<1> HIDE DEF q
<1>3. (75 * c) * n < (100 * q + 100) * n
  BY <1>2
<1>4. 75 * c < 100 * q + 100
  BY <1>2, <1>3, Cancels
<1> QED
  BY <1>2, <1>4 DEF q

(* _grounded_confidence never raises the confidence above the floor, and   *)
(* leaves a quarter of it when every figure is invented.                   *)
LEMMA GroundedIs ==
  ASSUME NEW c \in Nat, NEW a, IsFiniteSet(a.figures), NEW chunks
  PROVE  /\ Grounded(c, a, chunks) \in Nat /\ Grounded(c, a, chunks) <= Larger(c, 1500)
         /\ c <= Whole /\ chunks # <<>> /\ Checked(a) # {} /\ Invented(a, chunks) = Checked(a)
              => Grounded(c, a, chunks) <= 2500
<1> DEFINE bad == Cardinality(Invented(a, chunks))
           all == Cardinality(Checked(a))
           cut == (c * 75 * bad) \div (100 * all)
<1>1. IsFiniteSet(Checked(a))
  BY FS_EmptySet DEF Checked
<1>2. /\ IsFiniteSet(Invented(a, chunks)) /\ Invented(a, chunks) \subseteq Checked(a)
  BY <1>1, FS_Subset DEF Invented
<1>3. bad \in Nat /\ all \in Nat /\ bad <= all /\ (all = 0 <=> Checked(a) = {})
  BY <1>1, <1>2, FS_CardinalityType, FS_Subset, FS_EmptySet
<1>4. Grounded(c, a, chunks) = IF chunks = <<>> \/ bad = 0 THEN c ELSE Larger(c - cut, 1500)
  BY DEF Grounded
<1>5. bad # 0 => cut \in Nat
  <2> HIDE DEF bad, all
  <2>1. SUFFICES ASSUME bad # 0 PROVE cut \in Nat
    OBVIOUS
  <2>2. c * 75 * bad \in Nat /\ 100 * all \in Nat \ {0}
    BY <1>3, <2>1
  <2> QED
    BY <2>2, QuotientIs
<1>6. Grounded(c, a, chunks) \in Nat /\ Grounded(c, a, chunks) <= Larger(c, 1500)
  <2> HIDE DEF bad, all, cut
  <2> QED
    BY <1>3, <1>4, <1>5 DEF Larger
<1>7. ASSUME c <= Whole, chunks # <<>>, Checked(a) # {}, Invented(a, chunks) = Checked(a)
      PROVE  Grounded(c, a, chunks) <= 2500
  <2>1. bad = all /\ all \in Nat \ {0}
    BY <1>3, <1>7
  <2>2. cut \in Nat /\ 75 * c < 100 * cut + 100
    <3> HIDE DEF bad, all
    <3> QED
      BY <2>1, ThreeQuarters
  <2> HIDE DEF bad, all, cut
  <2>3. c - cut <= 2500
    BY <1>7, <2>2 DEF Whole
  <2> QED
    BY <1>4, <1>7, <2>1, <2>2, <2>3 DEF Larger
<1> QED
  BY <1>6, <1>7

(* _apply_confidence: the confidence shown is a confidence.                *)
LEMMA DisplayIs ==
  ASSUME NEW q, NEW chunks, NEW base \in 0..Whole
  PROVE  ApplyConfidence(q, chunks, base) \in 0..Whole
<1> DEFINE T == {FocusTiers[t][2] : t \in {u \in DOMAIN FocusTiers : Focus(chunks) >= FocusTiers[u][1]}}
           S == {base} \cup T
<1>1. T \subseteq {8500, 6500, 4500}
  BY DEF FocusTiers
<1>2. {8500, 6500, 4500} \subseteq 0..Whole
  BY DEF Whole
<1>3. S \subseteq 0..Whole /\ S # {} /\ 0..Whole \subseteq Int
  <2> HIDE DEF T
  <2> QED
    BY <1>1, <1>2, WholeIs
<1>4. IsFiniteSet(0..Whole)
  BY WholeIs, FS_Interval
<1>5. IsFiniteSet(S)
  <2> HIDE DEF S
  <2> QED
    BY <1>3, <1>4, FS_Subset
<1>6. ApplyConfidence(q, chunks, base) \in {base, Max(S)}
  BY DEF ApplyConfidence
<1> HIDE DEF S
<1>7. Max(S) \in S
  BY <1>3, <1>5, MaxIs
<1> QED
  BY <1>3, <1>6, <1>7

(* The metrics of a finished answer are those of what was kept for it.     *)
LEMMA ReportedIs ==
  ASSUME IInv, result # <<>>
  PROVE  \E a \in Answers, display \in 0..Whole :
           /\ display = ApplyConfidence(req.q, kept.chunks, kept.base)
           /\ result[1] = [metrics |-> Metrics(req.q, kept.chunks, display, a), answer |-> a]
<1> PICK display : display = ApplyConfidence(req.q, kept.chunks, kept.base)
  OBVIOUS
<1>1. display \in 0..Whole
  BY DisplayIs DEF IInv, KeptIn
<1>2. PICK a \in Answers :
        result = <<[metrics |-> Metrics(req.q, kept.chunks, display, a), answer |-> a]>>
  BY DEF IInv, Reported
<1> QED
  BY <1>1, <1>2

(* "must never manufacture confidence on its own": a best chunk below the  *)
(* gate is worth what it is worth.                                         *)
LEMMA NotMadeUp == IInv => NoMadeUpConfidence
<1> SUFFICES ASSUME IInv, result # <<>>, ranked, kept.chunks # <<>>,
                    NEW best, best = Max({kept.chunks[i].p : i \in DOMAIN kept.chunks}),
                    best < Gate(req.q)
             PROVE  result[1].metrics.confidence <= Larger(100 * best, 1500)
  BY DEF NoMadeUpConfidence
<1>1. PICK a \in Answers, display \in 0..Whole :
        /\ display = ApplyConfidence(req.q, kept.chunks, kept.base)
        /\ result[1] = [metrics |-> Metrics(req.q, kept.chunks, display, a), answer |-> a]
  BY ReportedIs
<1>2. display = kept.base
  BY <1>1 DEF ApplyConfidence
<1>3. kept.base = Larger(100 * best, 1500)
  BY DEF IInv, KeptIn, Worth
<1>4. result[1].metrics.confidence = Grounded(display, a, kept.chunks)
  <2>1. result[1].metrics = Metrics(req.q, kept.chunks, display, a)
    BY <1>1
  <2>2. Metrics(req.q, kept.chunks, display, a).confidence = Grounded(display, a, kept.chunks)
    BY DEF Metrics
  <2> QED
    BY <2>1, <2>2
<1>5. display \in Nat
  BY <1>1, WholeIs
<1>6. Grounded(display, a, kept.chunks) <= Larger(display, 1500)
        /\ Grounded(display, a, kept.chunks) \in Nat
  BY <1>5, GroundedIs, QueryAssumption
<1>7. kept.base = Worth(kept.chunks)
  BY DEF IInv, KeptIn
<1>8. Larger(display, 1500) = display
  <2>1. Proper(kept.chunks, InScope)
    BY DEF IInv, KeptIn
  <2>2. Larger(Worth(kept.chunks), 1500) = Worth(kept.chunks)
    BY <2>1, WorthIs
  <2> QED
    BY <1>2, <1>7, <2>2
<1> QED
  BY <1>2, <1>3, <1>4, <1>6, <1>8

(* An answer of invented figures is weak, and said to be for that reason.  *)
LEMMA InventedWeak == IInv => InventedIsWeak
<1> SUFFICES ASSUME IInv, result # <<>>, kept.chunks # <<>>, Checked(result[1].answer) # {},
                    Invented(result[1].answer, kept.chunks) = Checked(result[1].answer)
             PROVE  /\ result[1].metrics.coverage = "Weak"
                    /\ result[1].metrics.reason = "not in your sources"
  BY DEF InventedIsWeak
<1>1. PICK a \in Answers, display \in 0..Whole :
        result[1] = [metrics |-> Metrics(req.q, kept.chunks, display, a), answer |-> a]
  BY ReportedIs
<1>2. result[1].answer = a /\ result[1].metrics = Metrics(req.q, kept.chunks, display, a)
  BY <1>1
<1> DEFINE final == Grounded(display, a, kept.chunks)
           bad == Cardinality(Invented(a, kept.chunks))
<1>3. display \in Nat /\ display <= Whole /\ IsFiniteSet(a.figures)
  BY <1>1, WholeIs, QueryAssumption
<1>4. final \in Nat /\ final <= 2500
  BY <1>2, <1>3, GroundedIs
<1>5. bad \in Nat \ {0}
  <2>1. IsFiniteSet(Checked(a))
    BY <1>3, FS_EmptySet DEF Checked
  <2> QED
    BY <1>2, <2>1, FS_CardinalityType, FS_EmptySet
<1>6. /\ Metrics(req.q, kept.chunks, display, a).coverage = Coverage(final)
      /\ Metrics(req.q, kept.chunks, display, a).reason = Reason(req.q, kept.chunks, final, bad)
  BY DEF Metrics
<1> HIDE DEF final, bad
<1>7. Coverage(final) = "Weak"
  BY <1>4 DEF Coverage
<1>8. Reason(req.q, kept.chunks, final, bad) = "not in your sources"
  BY <1>4, <1>5 DEF Reason
<1> QED
  BY <1>2, <1>6, <1>7, <1>8

(* An answer is worth what its sources are: _apply_confidence,             *)
(* _grounded_confidence and the label and reason made of them.             *)
THEOREM ConfidenceHolds == Spec => []ConfidenceIsEarned
<1>1. IInv => ConfidenceIsEarned
  BY NotMadeUp, InventedWeak DEF ConfidenceIsEarned
<1> QED
  BY <1>1, Invariant, PTL

-----------------------------------------------------------------------------
(* The passages of the prompt.                                             *)

(* In the order of the numbers from 1 to n the k-th is k.                  *)
LEMMA NumbersInOrder ==
  ASSUME NEW n \in Nat
  PROVE  Ordered(1..n, {r \in (1..n) \X (1..n) : r[1] < r[2]}) = [k \in 1..n |-> k]
<1> DEFINE S == 1..n
           R == {r \in S \X S : r[1] < r[2]}
           o == Ordered(S, R)
<1>1. IsFiniteSet(S) /\ Cardinality(S) = n
  BY FS_Interval
<1>2. \A i, j \in S : <<i, j>> \in R <=> i < j
  OBVIOUS
<1>3. StrictOrder(S, R)
  <2> HIDE DEF R
  <2> QED
    BY <1>2 DEF StrictOrder
<1>4. /\ o \in [1..n -> S]
      /\ \A k \in 1..n : Cardinality(Below(S, R, o[k])) = k - 1
  <2> HIDE DEF S, R
  <2> QED
    BY <1>1, <1>3, OrderedIs
<1>5. \A i \in S : Cardinality(Below(S, R, i)) = i - 1
  <2> SUFFICES ASSUME NEW i \in S PROVE Cardinality(Below(S, R, i)) = i - 1
    OBVIOUS
  <2>1. Below(S, R, i) = 1..(i - 1)
    <3> HIDE DEF R
    <3>1. \A j \in S : j \in Below(S, R, i) <=> j < i
      BY <1>2 DEF Below
    <3> QED
      BY <3>1 DEF Below
  <2>2. Cardinality(1..(i - 1)) = i - 1
    <3>1. i - 1 \in Nat /\ (i - 1) - 1 + 1 = i - 1 /\ (1 > i - 1 => i - 1 = 0)
      OBVIOUS
    <3> QED
      BY <3>1, FS_Interval
  <2> QED
    BY <2>1, <2>2
<1> HIDE DEF o, R
<1>6. \A k \in 1..n : o[k] = k
  <2> SUFFICES ASSUME NEW k \in 1..n PROVE o[k] = k
    OBVIOUS
  <2>1. o[k] \in S
    BY <1>4
  <2>2. o[k] - 1 = k - 1
    BY <1>4, <1>5, <2>1
  <2> QED
    BY <2>1, <2>2
<1>7. o = [k \in 1..n |-> k]
  BY <1>4, <1>6
<1> QED
  BY <1>7 DEF o, R

(* Number n in the answer means the n-th source that is shown, because no  *)
(* chunk is kept twice (_format_context).                                  *)
LEMMA CitationsRight == IInv => CitationsPointRight
<1> SUFFICES ASSUME IInv PROVE CitationsPointRight
  OBVIOUS
<1> PICK chunks : chunks = kept.chunks
  OBVIOUS
<1>1. Proper(chunks, InScope)
  BY DEF IInv, KeptIn
<1>2. Len(chunks) \in Nat /\ DOMAIN chunks = 1..Len(chunks)
  BY <1>1, PlacesIn DEF Proper
<1> DEFINE n == Len(chunks)
           new == {i \in DOMAIN chunks : \A j \in 1..(i - 1) : chunks[j].id # chunks[i].id}
           full == [i \in DOMAIN chunks |-> <<i, chunks[i]>>]
           passages == [k \in 1..n |-> <<k, chunks[k]>>]
<1>3. new = 1..n
  BY <1>1, <1>2 DEF Proper
<1>4. PickedFrom(full, new) = passages
  <2> DEFINE o == Ordered(new, {r \in new \X new : r[1] < r[2]})
  <2>1. o = [k \in 1..n |-> k]
    <3> HIDE DEF new
    <3> QED
      BY <1>2, <1>3, NumbersInOrder
  <2>2. PickedFrom(full, new) = [k \in DOMAIN o |-> full[o[k]]]
    BY DEF PickedFrom
  <2> HIDE DEF o, new
  <2>3. DOMAIN o = 1..n /\ \A k \in 1..n : o[k] = k
    BY <2>1
  <2>4. \A k \in 1..n : full[k] = <<k, chunks[k]>>
    BY <1>2
  <2> HIDE DEF full
  <2> QED
    BY <2>2, <2>3, <2>4
<1>5. Passages(chunks) = Take(passages, MaxChunks)
  BY <1>4 DEF Passages
<1> HIDE DEF new, full
<1>6. Len(passages) = n
  BY <1>2
<1>7. Passages(chunks) = [k \in 1..Least(MaxChunks, n) |-> <<k, chunks[k]>>]
  <2>1. Least(MaxChunks, n) \in 0..n
    BY <1>2, RetrievalAssumption DEF Least
  <2> QED
    BY <1>2, <1>5, <1>6, <2>1 DEF Take
<1>8. Least(MaxChunks, n) = Least(n, MaxChunks)
  BY <1>2, RetrievalAssumption DEF Least
<1> QED
  BY <1>7, <1>8 DEF CitationsPointRight

(* Of any answer over any chunks.                                          *)
THEOREM CitationsHold == Spec => []CitationsPointRight
  BY CitationsRight, Invariant, PTL

-----------------------------------------------------------------------------
(* The chain of models beside it: FallbackLLMProofs has its invariant.     *)

Links == INSTANCE FallbackLLMProofs
           WITH pc <- callpc, MaxTokens <- ChainTokens, Hints <- MCHints

(* The chain there is the one here.                                        *)
LEMMA OneChain ==
  /\ Links!ChainAssumption /\ Links!vars = calling
  /\ Chain!Init <=> Links!Init
  /\ Chain!Next <=> Links!Next
  /\ Links!TypeOK <=> Chain!TypeOK
  /\ Links!LimitedSkipped <=> Chain!LimitedSkipped
  /\ Links!FailedTriedAll <=> Chain!FailedTriedAll
<1>1. Links!ChainAssumption
  BY ChainAssumption DEF Chain!ChainAssumption, Links!ChainAssumption
<1>2. Links!vars = calling
  BY DEF Links!vars, calling
<1>3. Chain!Init <=> Links!Init
  BY DEF Chain!Init, Links!Init, Chain!Providers, Links!Providers
<1>4. Chain!Next <=> Links!Next
  BY DEF
     Chain!Next, Chain!Tick, Chain!Generate, Chain!Stream, Chain!Begin, Chain!Respond,
     Chain!PostAnswered, Chain!PostLimited, Chain!PostTransient, Chain!PostRefused,
     Chain!Garbled, Chain!Backoff, Chain!Connected, Chain!StreamRefused, Chain!StreamEnds,
     Chain!StreamBreaks, Chain!Token, Chain!Return, Chain!NextProvider, Chain!Calm,
     Chain!Asking, Chain!CooldownSeconds, Chain!Smaller, Chain!Available, Chain!Ready,
     Chain!Soonest, Chain!InOrder, Chain!Providers, Chain!Ended, Chain!history,
     Links!Next, Links!Tick, Links!Generate, Links!Stream, Links!Begin, Links!Respond,
     Links!PostAnswered, Links!PostLimited, Links!PostTransient, Links!PostRefused,
     Links!Garbled, Links!Backoff, Links!Connected, Links!StreamRefused, Links!StreamEnds,
     Links!StreamBreaks, Links!Token, Links!Return, Links!NextProvider, Links!Calm,
     Links!Asking, Links!CooldownSeconds, Links!Smaller, Links!Available, Links!Ready,
     Links!Soonest, Links!InOrder, Links!Providers, Links!Ended, Links!history
<1>5. Links!LimitedSkipped <=> Chain!LimitedSkipped
  BY DEF Links!LimitedSkipped, Chain!LimitedSkipped, Links!Addressed, Chain!Addressed
<1>6. Links!FailedTriedAll <=> Chain!FailedTriedAll
  BY DEF Links!FailedTriedAll, Chain!FailedTriedAll, Links!Providers, Chain!Providers
<1>7. Links!TypeOK <=> Chain!TypeOK
  BY DEF Links!TypeOK, Chain!TypeOK, Links!Providers, Chain!Providers, Links!Ended, Chain!Ended
<1> QED
  BY <1>1, <1>2, <1>3, <1>4, <1>5, <1>6, <1>7
ChainInv == side = "chain" => Links!IInv

(* It holds from the first state on, whichever side runs.                  *)
LEMMA ChainStands == AllSpec => []ChainInv
<1>1. AllInit => ChainInv
  BY OneChain, Links!IInvInit DEF AllInit, ChainInv
<1>2. ChainInv /\ [AllNext]_<<side, vars, calling, sample>> => ChainInv'
  <2> SUFFICES ASSUME side = "chain", Links!IInv,
                      side' = side, Chain!Next \/ UNCHANGED calling
               PROVE  Links!IInv'
    BY DEF ChainInv, AllNext
  <2>1. Links!Next \/ UNCHANGED Links!vars
    BY OneChain DEF Links!vars, calling
  <2>2. [Links!Next]_(Links!vars)
    BY <2>1
  <2>3. Links!ChainAssumption
    BY OneChain
  <2> QED
    BY <2>2, <2>3, Links!IInvStep
<1> QED
  BY <1>1, <1>2, PTL DEF AllSpec

(* Of FallbackLLM._available and the loops of generate and stream: for any *)
(* calls at a time, providers, attempts and cooldowns, who asked to be     *)
(* left alone is, and a call fails only when whoever had not asked was     *)
(* tried.                                                                  *)
THEOREM ChainHolds == AllSpec => []ChainIsRun
<1>1. ChainInv => ChainIsRun
  <2>1. Links!IInv => Links!LimitedSkipped /\ Links!FailedTriedAll
    BY DEF Links!IInv, Links!CallInv, Links!SkipsLimited, Links!TriedAll,
           Links!LimitedSkipped, Links!FailedTriedAll
  <2> QED
    BY <2>1, OneChain DEF ChainInv, ChainIsRun
<1> QED
  BY <1>1, ChainStands, PTL

(* The invariant of QueryPath holds beside the others.                     *)
LEMMA QuestionStands == AllSpec => []IInv
<1>1. AllInit => IInv
  <2>1. AllInit => Init
    BY DEF AllInit, NoStores
  <2> QED
    BY <2>1, InitInv
<1>2. IInv /\ [AllNext]_<<side, vars, calling, sample>> => IInv'
  <2>1. [AllNext]_<<side, vars, calling, sample>> => [Next]_vars
    BY DEF AllNext
  <2> QED
    BY <2>1, Inductive
<1> QED
  BY <1>1, <1>2, PTL DEF AllSpec

(* What the query service, the retriever and the chain hold has its type,  *)
(* for every question, provider and bound.                                 *)
THEOREM TypesHold == AllSpec => []Types
<1>1. IInv /\ ChainInv => Types
  <2>1. Links!IInv => Links!TypeOK
    BY DEF Links!IInv
  <2> QED
    BY <2>1, OneChain DEF IInv, ChainInv, Types
<1> QED
  BY <1>1, QuestionStands, ChainStands, PTL

-----------------------------------------------------------------------------
(* The price of a selection.                                               *)

(* Parts of a set up to a size, and a function that adds f up over them.   *)
Parts(S, n) == {T \in SUBSET S : Cardinality(T) <= n}
Adds(f, P, g) ==
  g = [T \in P |-> IF T = {} THEN 0 ELSE LET x == CHOOSE x \in T : TRUE IN f[x] + g[T \ {x}]]

(* There is such a function.                                               *)
LEMMA AddsExists ==
  ASSUME NEW S, IsFiniteSet(S), NEW f
  PROVE  \E g : Adds(f, SUBSET S, g)
<1> DEFINE Good == {n \in Nat : \E g : Adds(f, Parts(S, n), g)}
           first(T) == CHOOSE x \in T : TRUE
<1>0. \A T \in SUBSET S : IsFiniteSet(T) /\ Cardinality(T) \in Nat
  BY FS_Subset, FS_CardinalityType
<1>1. 0 \in Good
  <2> DEFINE P == Parts(S, 0)
             g == [T \in P |-> 0]
  <2>1. \A T \in P : T = {}
    <3>1. ASSUME NEW T \in SUBSET S, Cardinality(T) <= 0 PROVE T = {}
      <4>1. Cardinality(T) = 0
        BY <1>0, <3>1
      <4> QED
        BY <1>0, <4>1, FS_EmptySet
    <3> QED
      BY <3>1 DEF Parts
  <2>2. g = [T \in P |-> IF T = {} THEN 0
                         ELSE LET x == CHOOSE x \in T : TRUE IN f[x] + g[T \ {x}]]
    <3> HIDE DEF P
    <3> QED
      BY <2>1
  <2>3. Adds(f, P, g)
    <3> HIDE DEF g, P
    <3> QED
      BY <2>2 DEF Adds
  <2> QED
    BY <2>3
<1>2. ASSUME NEW n \in Good PROVE n + 1 \in Good
  <2> DEFINE P == Parts(S, n)
             Q == Parts(S, n + 1)
  <2>1. PICK g : Adds(f, P, g)
    OBVIOUS
  <2> DEFINE h == [T \in Q |-> IF T \in P THEN g[T]
                               ELSE f[first(T)] + g[T \ {first(T)}]]
  <2>2. P \subseteq Q
    BY <1>0 DEF Parts
  <2>3. ASSUME NEW T \in Q, T # {} PROVE first(T) \in T /\ T \ {first(T)} \in P
    <3>1. first(T) \in T
      BY <2>3
    <3>2. T \in SUBSET S /\ IsFiniteSet(T) /\ Cardinality(T) \in Nat /\ Cardinality(T) <= n + 1
      BY <1>0 DEF Parts
    <3> HIDE DEF first
    <3>3. Cardinality(T \ {first(T)}) = Cardinality(T) - 1
      BY <3>1, <3>2, FS_RemoveElement
    <3>4. Cardinality(T \ {first(T)}) <= n
      BY <3>2, <3>3
    <3>5. T \ {first(T)} \in SUBSET S
      BY <3>2
    <3> QED
      BY <3>1, <3>4, <3>5 DEF Parts
  <2>4. \A T \in P : h[T] = g[T]
    BY <2>2
  <2>5. \A T \in P : g[T] = IF T = {} THEN 0 ELSE f[first(T)] + g[T \ {first(T)}]
    BY <2>1, Zenon DEF Adds
  <2>6. ASSUME NEW T \in Q
        PROVE  h[T] = IF T = {} THEN 0 ELSE f[first(T)] + h[T \ {first(T)}]
    <3>1. CASE T = {}
      <4>1. {} \in P
        <5>1. Cardinality({}) = 0
          BY FS_EmptySet
        <5> QED
          BY <5>1 DEF Parts
      <4> QED
        BY <2>4, <2>5, <3>1, <4>1
    <3>2. CASE T # {}
      <4>1. T \ {first(T)} \in P
        BY <2>3, <3>2
      <4>2. h[T \ {first(T)}] = g[T \ {first(T)}]
        BY <2>4, <4>1
      <4>3. h[T] = f[first(T)] + g[T \ {first(T)}]
        <5>1. CASE T \in P
          BY <2>4, <2>5, <3>2, <5>1, Zenon
        <5>2. CASE T \notin P
          <6> HIDE DEF P, first
          <6> QED
            BY <5>2
        <5> QED
          BY <5>1, <5>2
      <4> QED
        BY <3>2, <4>2, <4>3, Zenon
    <3> QED
      BY <3>1, <3>2
  <2>7. h = [T \in Q |-> h[T]]
    OBVIOUS
  <2> HIDE DEF h
  <2>8. h = [T \in Q |-> IF T = {} THEN 0
                         ELSE LET x == CHOOSE x \in T : TRUE IN f[x] + h[T \ {x}]]
    BY <2>6, <2>7, Zenon
  <2>9. Adds(f, Q, h)
    BY <2>8, Zenon DEF Adds
  <2>10. n + 1 \in Nat /\ \E u : Adds(f, Parts(S, n + 1), u)
    <3>1. \E u : Adds(f, Q, u)
      BY <2>9, Zenon
    <3> QED
      BY <3>1
  <2> QED
    BY <2>10
<1>3. Good \in SUBSET Nat
  OBVIOUS
<1> HIDE DEF Good
<1>4. Cardinality(S) \in Good
  BY <1>0, <1>1, <1>2, <1>3, SetInduction
<1>5. Parts(S, Cardinality(S)) = SUBSET S
  <2>1. \A T \in SUBSET S : Cardinality(T) <= Cardinality(S)
    BY FS_Subset
  <2> QED
    BY <2>1 DEF Parts
<1> QED
  BY <1>4, <1>5 DEF Good

(* The same said part by part.                                             *)
Sums(S, f, g) ==
  g[{}] = 0 /\ \A T \in SUBSET S : T # {} => \E x \in T : g[T] = f[x] + g[T \ {x}]

(* Total adds up in this way.                                              *)
LEMMA TotalOfAll ==
  ASSUME NEW f, IsFiniteSet(DOMAIN f)
  PROVE  \E g : Sums(DOMAIN f, f, g) /\ Total(f) = g[DOMAIN f]
<1> DEFINE S == DOMAIN f
<1>1. \E g : Adds(f, SUBSET S, g)
  BY AddsExists
<1> DEFINE g == CHOOSE g : Adds(f, SUBSET S, g)
<1>2. Adds(f, SUBSET S, g)
  BY <1>1
<1>3. Total(f) = g[S]
  BY Zenon DEF Total, FoldSet, MapThenFoldSet, Adds
<1> HIDE DEF g
<1>4. Sums(S, f, g)
  <2>1. \A T \in SUBSET S :
          g[T] = IF T = {} THEN 0 ELSE LET x == CHOOSE x \in T : TRUE IN f[x] + g[T \ {x}]
    BY <1>2, Zenon DEF Adds
  <2>2. g[{}] = 0
    BY <2>1
  <2>3. ASSUME NEW T \in SUBSET S, T # {} PROVE \E x \in T : g[T] = f[x] + g[T \ {x}]
    <3> DEFINE x == CHOOSE x \in T : TRUE
    <3>1. x \in T
      BY <2>3
    <3>2. g[T] = f[x] + g[T \ {x}]
      BY <2>1, <2>3, Zenon
    <3> HIDE DEF x
    <3> QED
      BY <3>1, <3>2
  <2> QED
    BY <2>2, <2>3 DEF Sums
<1> QED
  BY <1>3, <1>4

(* A total is at least the size of a union of sets of those sizes, and is  *)
(* that size when no two of them meet.                                     *)
LEMMA TotalIs ==
  ASSUME NEW f, IsFiniteSet(DOMAIN f), \A i \in DOMAIN f : f[i] \in Nat,
         NEW F, \A i \in DOMAIN f : IsFiniteSet(F[i]) /\ Cardinality(F[i]) <= f[i]
  PROVE  LET all == UNION {F[i] : i \in DOMAIN f}
         IN  /\ Total(f) \in Nat /\ IsFiniteSet(all) /\ Cardinality(all) \in Nat
             /\ Cardinality(all) <= Total(f)
             /\ /\ \A i \in DOMAIN f : Cardinality(F[i]) = f[i]
                /\ \A i, j \in DOMAIN f : i # j => F[i] \cap F[j] = {}
                => Cardinality(all) = Total(f)
<1> DEFINE S == DOMAIN f
           Un(T) == UNION {F[i] : i \in T}
           apart == /\ \A i \in DOMAIN f : Cardinality(F[i]) = f[i]
                    /\ \A i, j \in DOMAIN f : i # j => F[i] \cap F[j] = {}
<1>1. PICK g : Sums(S, f, g) /\ Total(f) = g[S]
  BY TotalOfAll
<1> DEFINE Fits(T) == /\ g[T] \in Nat /\ IsFiniteSet(Un(T)) /\ Cardinality(Un(T)) \in Nat
                      /\ Cardinality(Un(T)) <= g[T]
                      /\ apart => Cardinality(Un(T)) = g[T]
           Good == {n \in Nat : \A T \in SUBSET S : Cardinality(T) = n => Fits(T)}
<1>0. \A T \in SUBSET S : IsFiniteSet(T) /\ Cardinality(T) \in Nat
  BY FS_Subset, FS_CardinalityType
<1>4. Good \in SUBSET Nat
  OBVIOUS
<1>2. 0 \in Good
  <2> SUFFICES ASSUME NEW T \in SUBSET S, Cardinality(T) = 0 PROVE Fits(T)
    OBVIOUS
  <2>1. T = {}
    BY <1>0, FS_EmptySet
  <2>2. Un(T) = {} /\ g[T] = 0
    BY <1>1, <2>1 DEF Sums
  <2>3. IsFiniteSet(Un(T)) /\ Cardinality(Un(T)) = 0
    BY <2>2, FS_EmptySet
  <2> HIDE DEF Un, apart
  <2> QED
    BY <2>2, <2>3
<1>3. ASSUME NEW n \in Good PROVE n + 1 \in Good
  <2> SUFFICES ASSUME NEW T \in SUBSET S, Cardinality(T) = n + 1 PROVE Fits(T)
    OBVIOUS
  <2>1. T # {}
    <3>1. Cardinality({}) = 0
      BY FS_EmptySet
    <3>2. n + 1 # 0
      BY <1>4
    <3> QED
      BY <3>1, <3>2, Zenon
  <2>2. PICK x \in T : g[T] = f[x] + g[T \ {x}]
    BY <1>1, <2>1 DEF Sums
  <2> DEFINE R == T \ {x}
  <2>3. R \in SUBSET S /\ Cardinality(R) = n
    <3>1. Cardinality(T \ {x}) = Cardinality(T) - 1
      BY <1>0, <2>2, FS_RemoveElement
    <3>2. n \in Nat
      OBVIOUS
    <3> QED
      BY <3>1, <3>2
  <2>4. Fits(R)
    <3> HIDE DEF Fits, R
    <3> QED
      BY <2>3
  <2>5. Un(T) = Un(R) \cup F[x]
    BY <2>2
  <2>6. IsFiniteSet(F[x]) /\ Cardinality(F[x]) \in Nat /\ Cardinality(F[x]) <= f[x] /\ f[x] \in Nat
    BY <2>2, FS_CardinalityType
  <2>7. apart => Un(R) \cap F[x] = {} /\ Cardinality(F[x]) = f[x]
    BY <2>2
  <2> DEFINE A == Un(R)
             B == F[x]
  <2>8. IsFiniteSet(A) /\ Cardinality(A) \in Nat /\ Cardinality(A) <= g[R] /\ g[R] \in Nat
        /\ (apart => Cardinality(A) = g[R])
    BY <2>4
  <2>9. g[T] = f[x] + g[R] /\ Un(T) = A \cup B
    BY <2>2, <2>5
  <2> HIDE DEF A, B, R, apart, Un
  <2>10. /\ IsFiniteSet(A \cup B)
         /\ Cardinality(A \cup B) = Cardinality(A) + Cardinality(B) - Cardinality(A \cap B)
    BY <2>6, <2>8, FS_Union DEF B
  <2>11. Cardinality(A \cap B) \in Nat /\ Cardinality(A \cup B) \in Nat
    <3>1. IsFiniteSet(A \cap B)
      BY <2>8, FS_Intersection
    <3> QED
      BY <2>10, <3>1, FS_CardinalityType
  <2>12. apart => Cardinality(A \cap B) = 0 /\ Cardinality(B) = f[x]
    <3>1. apart => A \cap B = {}
      BY <2>7 DEF A, B, R
    <3>2. Cardinality({}) = 0
      BY FS_EmptySet
    <3> QED
      BY <2>7, <3>1, <3>2 DEF B
  <2>13. g[T] \in Nat /\ IsFiniteSet(Un(T)) /\ Cardinality(Un(T)) \in Nat
    BY <2>6, <2>8, <2>9, <2>10, <2>11
  <2>14. Cardinality(Un(T)) <= g[T]
    <3>1. Cardinality(B) \in Nat /\ Cardinality(B) <= f[x]
      BY <2>6 DEF B
    <3> QED
      BY <2>6, <2>8, <2>9, <2>10, <2>11, <3>1
  <2>15. apart => Cardinality(Un(T)) = g[T]
    BY <2>6, <2>8, <2>9, <2>10, <2>11, <2>12
  <2> QED
    BY <2>13, <2>14, <2>15
<1> HIDE DEF Good
<1>5. Cardinality(S) \in Good
  BY <1>0, <1>2, <1>3, <1>4, SetInduction
<1>6. Fits(S)
  BY <1>5 DEF Good
<1> QED
  BY <1>1, <1>6

(* A total of more, or of more of each, is not less.                       *)
LEMMA TotalGrows ==
  ASSUME NEW f, NEW h, IsFiniteSet(DOMAIN h), DOMAIN f \subseteq DOMAIN h,
         \A i \in DOMAIN f : f[i] \in Nat /\ f[i] <= h[i], \A i \in DOMAIN h : h[i] \in Nat
  PROVE  Total(f) \in Nat /\ Total(h) \in Nat /\ Total(f) <= Total(h)
<1> DEFINE U(i, n) == {i} \X (1..n)
           Fs == [i \in DOMAIN f |-> U(i, f[i])]
           Hs == [i \in DOMAIN h |-> U(i, h[i])]
           A == UNION {Fs[i] : i \in DOMAIN f}
           B == UNION {Hs[i] : i \in DOMAIN h}
<1>1. ASSUME NEW i, NEW n \in Nat PROVE IsFiniteSet(U(i, n)) /\ Cardinality(U(i, n)) = n
  <2> DEFINE p == [k \in 1..n |-> <<i, k>>]
  <2>1. p \in [1..n -> U(i, n)] /\ OneToOne(p)
    BY DEF OneToOne
  <2>2. {p[k] : k \in 1..n} = U(i, n)
    OBVIOUS
  <2> HIDE DEF p, U
  <2>3. IsFiniteSet({p[k] : k \in 1..n}) /\ Cardinality({p[k] : k \in 1..n}) = n
    BY <2>1, ValuesOf
  <2> QED
    BY <2>2, <2>3
<1>2. \A i, j, n, m : i # j => U(i, n) \cap U(j, m) = {}
  OBVIOUS
<1>3. \A i \in DOMAIN f : U(i, f[i]) \subseteq U(i, h[i])
  OBVIOUS
<1>4. IsFiniteSet(DOMAIN f)
  BY FS_Subset
<1> HIDE DEF U
<1>5. \A i \in DOMAIN f : IsFiniteSet(Fs[i]) /\ Cardinality(Fs[i]) = f[i]
  BY <1>1
<1>6. \A i \in DOMAIN h : IsFiniteSet(Hs[i]) /\ Cardinality(Hs[i]) = h[i]
  BY <1>1
<1>7. /\ \A i, j \in DOMAIN f : i # j => Fs[i] \cap Fs[j] = {}
      /\ \A i, j \in DOMAIN h : i # j => Hs[i] \cap Hs[j] = {}
  BY <1>2
<1>8. A \subseteq B
  BY <1>3
<1> HIDE DEF Fs, Hs
<1>9. Total(f) \in Nat /\ Cardinality(A) = Total(f)
  <2>1. \A i \in DOMAIN f : f[i] \in Nat /\ Cardinality(Fs[i]) <= f[i]
    BY <1>5
  <2> QED
    BY <1>4, <1>5, <1>7, <2>1, TotalIs
<1>10. Total(h) \in Nat /\ IsFiniteSet(B) /\ Cardinality(B) = Total(h)
  <2>1. /\ IsFiniteSet(DOMAIN h) /\ \A i \in DOMAIN h : h[i] \in Nat
        /\ \A i \in DOMAIN h : IsFiniteSet(Hs[i]) /\ Cardinality(Hs[i]) <= h[i]
    BY <1>6
  <2>2. /\ \A i \in DOMAIN h : Cardinality(Hs[i]) = h[i]
        /\ \A i, j \in DOMAIN h : i # j => Hs[i] \cap Hs[j] = {}
    BY <1>6, <1>7
  <2>3. /\ Total(h) \in Nat /\ IsFiniteSet(B)
        /\ /\ \A i \in DOMAIN h : Cardinality(Hs[i]) = h[i]
           /\ \A i, j \in DOMAIN h : i # j => Hs[i] \cap Hs[j] = {}
           => Cardinality(B) = Total(h)
    BY <2>1, TotalIs
  <2> QED
    BY <2>2, <2>3
<1> HIDE DEF A, B
<1>11. Cardinality(A) <= Cardinality(B)
  BY <1>8, <1>10, FS_Subset
<1> QED
  BY <1>9, <1>10, <1>11

(* Every depth, a known one or not, has limits.                            *)
LEMMA LimitsOfDepth ==
  ASSUME NEW depth
  PROVE  /\ Limits(depth).topK \in Nat \ {0} /\ Limits(depth).cap \in Nat \ {0}
         /\ Limits(depth).maxSources \in Nat
<1> DEFINE d == IF depth \in DOMAIN Depths THEN depth ELSE "focused"
<1>1. d \in DOMAIN Depths /\ Limits(depth) = Depths[d]
  BY RetrievalAssumption DEF Limits
<1> HIDE DEF d
<1> QED
  BY <1>1, RetrievalAssumption

(* What an estimate adds up: the documents that are there, those within the *)
(* limit, and what they are worth.                                         *)
Priced(wanted, held, depth, known, within, lengths, worths) ==
  /\ known \in Seq(DOMAIN held) /\ IsFiniteSet(DOMAIN known)
  /\ \A n \in DOMAIN wanted : wanted[n] \in DOMAIN held => \E i \in DOMAIN known : known[i] = wanted[n]
  /\ within = Take(known, Limits(depth).maxSources)
  /\ DOMAIN within \subseteq DOMAIN known /\ \A i \in DOMAIN within : within[i] = known[i]
  /\ DOMAIN lengths = DOMAIN within /\ \A i \in DOMAIN within : lengths[i] = held[within[i]]
  /\ DOMAIN worths = DOMAIN within
  /\ \A i \in DOMAIN within : worths[i] = Least(held[within[i]], Limits(depth).cap)
  /\ Total(lengths) \in Nat /\ Total(worths) \in Nat /\ Total(worths) <= Total(lengths)
  /\ LET priced == Estimate(wanted, held, depth)
     IN  /\ priced.total \in Nat /\ Total(lengths) <= priced.total
         /\ priced.prompt = Least(Least(Total(lengths), Limits(depth).topK), Total(worths))
         /\ priced.dropped = {known[i] : i \in (Len(within) + 1)..Len(known)}
         /\ priced.missing = {wanted[i] : i \in DOMAIN wanted} \ DOMAIN held

(* estimate_context adds up these.                                         *)
LEMMA EstimateIs ==
  ASSUME NEW X, NEW wanted \in Seq(X), NEW held, \A x \in DOMAIN held : held[x] \in Nat, NEW depth
  PROVE  \E known, within, lengths, worths : Priced(wanted, held, depth, known, within, lengths, worths)
<1> DEFINE H == DOMAIN held
           L == Limits(depth)
           known == KeptOf(wanted, H)
           within == Take(known, L.maxSources)
           all == [i \in DOMAIN known |-> held[known[i]]]
           lengths == [i \in DOMAIN within |-> held[within[i]]]
           worths == [i \in DOMAIN within |-> Least(held[within[i]], L.cap)]
           priced == Estimate(wanted, held, depth)
<1>1. L.topK \in Nat \ {0} /\ L.cap \in Nat \ {0} /\ L.maxSources \in Nat
  BY LimitsOfDepth
<1>2. known \in Seq(X) /\ PickedOf(wanted, H, Len(wanted), known)
  BY KeptIs
<1>3. DOMAIN known = 1..Len(known) /\ Len(known) \in Nat /\ IsFiniteSet(DOMAIN known)
  BY <1>2, PlacesIn
<1>4. known \in Seq(H)
  <2>1. \A i \in 1..Len(known) : known[i] \in H
    BY <1>2, <1>3 DEF PickedOf
  <2>2. known \in [1..Len(known) -> H]
    BY <1>2, <1>3, <2>1
  <2> HIDE DEF known
  <2> QED
    BY <1>3, <2>2, SeqDef
<1>5. \A n \in DOMAIN wanted : wanted[n] \in H => \E i \in DOMAIN known : known[i] = wanted[n]
  BY <1>2 DEF PickedOf
<1>6. /\ priced.total = Total(all)
      /\ priced.prompt = Least(Least(Total(lengths), L.topK), Total(worths))
      /\ priced.dropped = {known[i] : i \in (Len(within) + 1)..Len(known)}
      /\ priced.missing = {wanted[i] : i \in DOMAIN wanted} \ H
  BY DEF Estimate
<1> HIDE DEF known
<1>7. DOMAIN within \subseteq DOMAIN known /\ \A i \in DOMAIN within : within[i] = known[i]
  <2> DEFINE m == Least(L.maxSources, Len(known))
  <2>1. m \in Nat /\ m <= Len(known)
    BY <1>1, <1>3, LeastIs
  <2>2. within = SubSeq(known, 1, m)
    BY DEF Take
  <2> HIDE DEF m, within
  <2>3. within = [i \in 1..m |-> known[i]]
    BY <1>4, <2>1, <2>2
  <2> QED
    BY <1>3, <2>1, <2>3
<1> HIDE DEF within, L, priced, H
<1>8. \A i \in DOMAIN within : within[i] \in H /\ held[within[i]] \in Nat
  BY <1>3, <1>4, <1>7 DEF H
<1>9. Total(worths) \in Nat /\ Total(lengths) \in Nat /\ Total(worths) <= Total(lengths)
  <2>1. /\ DOMAIN worths = DOMAIN within /\ DOMAIN lengths = DOMAIN within
        /\ \A i \in DOMAIN within : worths[i] \in Nat /\ worths[i] <= lengths[i] /\ lengths[i] \in Nat
    BY <1>1, <1>8, LeastIs
  <2>2. IsFiniteSet(DOMAIN within)
    BY <1>3, <1>7, FS_Subset
  <2> HIDE DEF worths, lengths
  <2> QED
    BY <2>1, <2>2, TotalGrows
<1>10. Total(all) \in Nat /\ Total(lengths) <= Total(all)
  <2>1. /\ DOMAIN all = DOMAIN known /\ DOMAIN lengths = DOMAIN within
        /\ \A i \in DOMAIN known : all[i] \in Nat
        /\ \A i \in DOMAIN within : lengths[i] \in Nat /\ lengths[i] <= all[i]
    <3>1. \A i \in DOMAIN known : held[known[i]] \in Nat
      BY <1>3, <1>4 DEF H
    <3> QED
      BY <1>7, <1>8, <3>1
  <2> HIDE DEF all, lengths
  <2> QED
    BY <1>3, <1>7, <2>1, TotalGrows
<1>11. /\ DOMAIN lengths = DOMAIN within /\ \A i \in DOMAIN within : lengths[i] = held[within[i]]
       /\ DOMAIN worths = DOMAIN within
       /\ \A i \in DOMAIN within : worths[i] = Least(held[within[i]], L.cap)
  OBVIOUS
<1> HIDE DEF lengths, worths, all
<1>12. Priced(wanted, held, depth, known, within, lengths, worths)
  BY <1>3, <1>4, <1>5, <1>6, <1>7, <1>9, <1>10, <1>11 DEF Priced, within, L, priced, H
<1> QED
  BY <1>12

(* A list of chunks of documents that are wanted and there.                *)
MadeOf(s, wanted, held) ==
  /\ \A i \in DOMAIN s : /\ s[i].path = "" /\ s[i].src \in DOMAIN held
                         /\ \E n \in DOMAIN wanted : wanted[n] = s[i].src
  /\ \A x \in DOMAIN held : Cardinality({i \in DOMAIN s : s[i].src = x}) <= held[x]

(* estimate_context, for any selection of documents, stock and depth: what is *)
(* selected of their chunks is never more than the passages it announced, and *)
(* what it does not find it says.                                          *)
THEOREM EstimatesEnough ==
  ASSUME NEW X, NEW wanted \in Seq(X), NEW held, \A x \in DOMAIN held : held[x] \in Nat, NEW depth,
         NEW s, Graded(s), Falls(s), MadeOf(s, wanted, held)
  PROVE  LET limits == Limits(depth)
             priced == Estimate(wanted, held, depth)
         IN  /\ priced.dropped = {} /\ (Len(s) > limits.topK \/ Cardinality(SourcesOf(s)) = 1)
                  => Len(Diversify(s, limits.topK, limits.cap)) <= priced.prompt
             /\ priced.prompt <= Least(priced.total, limits.topK)
             /\ priced.missing = {wanted[i] : i \in DOMAIN wanted} \ DOMAIN held
<1> DEFINE L == Limits(depth)
           priced == Estimate(wanted, held, depth)
<1>1. L.topK \in Nat \ {0} /\ L.cap \in Nat \ {0}
  BY LimitsOfDepth
<1>2. PICK known, within, lengths, worths : Priced(wanted, held, depth, known, within, lengths, worths)
  BY EstimateIs
<1> HIDE DEF L, priced
<1>3. /\ priced.total \in Nat /\ Total(lengths) <= priced.total
      /\ priced.prompt = Least(Least(Total(lengths), L.topK), Total(worths))
      /\ Total(lengths) \in Nat /\ Total(worths) \in Nat /\ Total(worths) <= Total(lengths)
      /\ priced.missing = {wanted[i] : i \in DOMAIN wanted} \ DOMAIN held
  BY <1>2 DEF Priced, L, priced
<1>4. priced.prompt <= Least(priced.total, L.topK)
  <2>1. /\ Least(Total(lengths), L.topK) \in Nat
        /\ Least(Total(lengths), L.topK) <= Total(lengths) /\ Least(Total(lengths), L.topK) <= L.topK
    BY <1>1, <1>3, LeastIs
  <2>2. /\ priced.prompt \in Nat /\ priced.prompt <= Least(Total(lengths), L.topK)
    BY <1>3, <2>1, LeastIs
  <2>3. priced.prompt <= priced.total /\ priced.prompt <= L.topK
    BY <1>1, <1>3, <2>1, <2>2
  <2> QED
    BY <1>1, <1>3, <2>2, <2>3, LeastIs
<1>5. ASSUME priced.dropped = {}, Len(s) > L.topK \/ Cardinality(SourcesOf(s)) = 1
      PROVE  Len(Diversify(s, L.topK, L.cap)) <= priced.prompt
  <2>1. PICK m \in 0..L.topK : \E e \in [1..m -> DOMAIN s] :
           /\ OneToOne(e) /\ Diversify(s, L.topK, L.cap) = [k \in 1..m |-> s[e[k]]]
           /\ FairPick(s, L.topK, L.cap, m, e)
    BY <1>1, SelectsFairly
  <2>2. PICK e \in [1..m -> DOMAIN s] :
           /\ OneToOne(e) /\ Diversify(s, L.topK, L.cap) = [k \in 1..m |-> s[e[k]]]
           /\ FairPick(s, L.topK, L.cap, m, e)
    BY <2>1
  <2> DEFINE E == {e[k] : k \in 1..m}
             mine(x) == {i \in DOMAIN s : s[i].src = x}
             F == [i \in DOMAIN within |-> E \cap mine(within[i])]
  <2>3. m \in Nat /\ m <= L.topK /\ Len(Diversify(s, L.topK, L.cap)) = m
    BY <1>1, <2>2
  <2>4. IsFiniteSet(E) /\ Cardinality(E) = m /\ E \subseteq DOMAIN s
    <3>1. E \subseteq DOMAIN s
      BY <2>2
    <3>2. e \in [1..m -> DOMAIN s] /\ OneToOne(e)
      BY <2>2
    <3>3. IsFiniteSet({e[k] : k \in 1..m}) /\ Cardinality({e[k] : k \in 1..m}) = m
      <4> DEFINE A == DOMAIN s
                 W == {e[k] : k \in 1..m}
      <4>1. m \in Nat /\ e \in [1..m -> A] /\ OneToOne(e)
        BY <2>3, <3>2
      <4> HIDE DEF A
      <4> QED
        BY ONLY <4>1, ValuesOf
    <3> QED
      BY <3>1, <3>3
  <2>5. \A i \in DOMAIN s : Group(s[i]) = <<"source", s[i].src>>
    BY DEF MadeOf, Group
  <2>6. ASSUME NEW x PROVE OfGroup(s, <<"source", x>>) = mine(x)
    BY <2>5 DEF OfGroup
  <2>7. IsFiniteSet(DOMAIN s)
    <3>1. DOMAIN s = 1..Len(s) /\ Len(s) \in Nat
      BY DEF Graded, List
    <3> QED
      BY <3>1, FS_Interval
  <2>8. Cardinality(GroupsOf(s)) = 1 \/ Len(s) > L.topK
    <3> SUFFICES ASSUME Cardinality(SourcesOf(s)) = 1 PROVE Cardinality(GroupsOf(s)) = 1
      BY <1>5
    <3>1. IsFiniteSet(SourcesOf(s))
      <4> DEFINE f == [i \in DOMAIN s |-> s[i].src]
                 T == {f[i] : i \in DOMAIN s}
                 A == DOMAIN s
      <4>1. f \in [DOMAIN s -> T]
        OBVIOUS
      <4>2. SourcesOf(s) = T
        BY DEF SourcesOf
      <4>3. IsFiniteSet({f[i] : i \in DOMAIN s})
        <5>1. f \in [A -> T] /\ IsFiniteSet(A)
          BY <2>7, <4>1
        <5>2. IsFiniteSet({f[i] : i \in A})
          <6> HIDE DEF f, T, A
          <6> QED
            BY ONLY <5>1, ImageIsFinite
        <5> QED
          BY <5>2
      <4> QED
        BY <4>2, <4>3
    <3>2. PICK x : SourcesOf(s) = {x}
      BY <3>1, FS_Singleton
    <3>3. GroupsOf(s) = {<<"source", x>>}
      BY <2>5, <3>2 DEF GroupsOf, SourcesOf
    <3> QED
      BY <3>3, FS_Singleton
  <2>9. \A g \in GroupsOf(s) : Cardinality(E \cap OfGroup(s, g)) <= L.cap
    BY <2>2, <2>8 DEF FairPick
  <2>10. ASSUME NEW i \in DOMAIN within
         PROVE  /\ IsFiniteSet(F[i]) /\ Cardinality(F[i]) \in Nat
                /\ Cardinality(F[i]) <= worths[i] /\ worths[i] \in Nat
    <3> DEFINE x == within[i]
    <3>1. /\ x \in DOMAIN held /\ worths[i] = Least(held[x], L.cap)
      BY <1>2 DEF Priced, L
    <3>2. F[i] = E \cap mine(x) /\ E \cap mine(x) \subseteq mine(x)
      OBVIOUS
    <3> HIDE DEF E, F, x
    <3>3. IsFiniteSet(E \cap mine(x)) /\ Cardinality(E \cap mine(x)) \in Nat
      BY <2>4, FS_Subset, FS_CardinalityType
    <3>4. Cardinality(E \cap mine(x)) <= held[x]
      <4>1. IsFiniteSet(mine(x))
        BY <2>7, FS_Subset
      <4>2. Cardinality(mine(x)) <= held[x]
        BY <3>1 DEF MadeOf
      <4>3. Cardinality(mine(x)) \in Nat /\ held[x] \in Nat
        BY <3>1, <4>1, FS_CardinalityType
      <4> HIDE DEF mine
      <4>4. Cardinality(E \cap mine(x)) <= Cardinality(mine(x))
        BY <3>2, <4>1, FS_Subset
      <4> QED
        BY <3>3, <4>2, <4>3, <4>4
    <3>5. Cardinality(E \cap mine(x)) <= L.cap
      <4>1. CASE mine(x) = {}
        <5>1. Cardinality(E \cap mine(x)) = 0
          BY <4>1, FS_EmptySet
        <5> QED
          BY <1>1, <5>1
      <4>2. CASE mine(x) # {}
        <5>1. <<"source", x>> \in GroupsOf(s)
          BY <2>5, <4>2 DEF GroupsOf
        <5> HIDE DEF mine
        <5> QED
          BY <2>6, <2>9, <5>1
      <4> QED
        BY <4>1, <4>2
    <3> HIDE DEF mine
    <3>6. held[x] \in Nat /\ L.cap \in Nat
      BY <1>1, <3>1
    <3>7. /\ worths[i] \in Nat
          /\ Cardinality(E \cap mine(x)) <= worths[i]
      <4>1. /\ Least(held[x], L.cap) \in Nat
            /\ \A c \in Nat : c <= held[x] /\ c <= L.cap => c <= Least(held[x], L.cap)
        BY <3>6, LeastIs
      <4> QED
        BY <3>1, <3>3, <3>4, <3>5, <4>1
    <3> QED
      BY <3>2, <3>3, <3>7
  <2>11. E = UNION {F[i] : i \in DOMAIN within}
    <3>1. within = known
      <4>1. /\ known \in Seq(DOMAIN held) /\ within = Take(known, Limits(depth).maxSources)
            /\ {known[i] : i \in (Len(within) + 1)..Len(known)} = {}
        BY <1>2, <1>5 DEF Priced, priced
      <4>2. Limits(depth).maxSources \in Nat
        BY LimitsOfDepth
      <4> DEFINE q == Least(Limits(depth).maxSources, Len(known))
      <4>3. q \in Nat /\ q <= Len(known) /\ Len(known) \in Nat
        <5>1. Len(known) \in Nat
          BY <4>1
        <5> QED
          BY <4>2, <5>1, LeastIs
      <4>4. within = SubSeq(known, 1, q)
        BY <4>1 DEF Take
      <4> HIDE DEF q
      <4>5. Len(within) = q
        BY <4>1, <4>3, <4>4
      <4>6. ~(q < Len(known))
        <5> SUFFICES ASSUME q < Len(known) PROVE FALSE
          OBVIOUS
        <5>1. q + 1 \in (Len(within) + 1)..Len(known)
          BY <4>3, <4>5
        <5> QED
          BY <4>1, <5>1
      <4>7. q = Len(known)
        BY <4>3, <4>6
      <4> QED
        BY <4>1, <4>4, <4>7
    <3>2. ASSUME NEW i \in E PROVE \E j \in DOMAIN within : i \in F[j]
      <4>1. /\ i \in DOMAIN s /\ s[i].src \in DOMAIN held
            /\ \E n \in DOMAIN wanted : wanted[n] = s[i].src
        BY <2>4, <3>2 DEF MadeOf
      <4>2. PICK j \in DOMAIN known : known[j] = s[i].src
        BY <1>2, <4>1 DEF Priced
      <4> HIDE DEF E
      <4> QED
        BY <3>1, <3>2, <4>1, <4>2
    <3> HIDE DEF E
    <3>3. \A i \in DOMAIN within : F[i] \subseteq E
      OBVIOUS
    <3> HIDE DEF F
    <3> QED
      BY <3>2, <3>3
  <2> HIDE DEF E, F
  <2>12. m <= Total(worths)
    <3>1. DOMAIN worths = DOMAIN within /\ IsFiniteSet(DOMAIN worths)
      BY <1>2, FS_Subset DEF Priced
    <3>2. \A i \in DOMAIN worths : /\ worths[i] \in Nat
                                   /\ IsFiniteSet(F[i]) /\ Cardinality(F[i]) <= worths[i]
      BY <2>10, <3>1
    <3>3. Cardinality(UNION {F[i] : i \in DOMAIN worths}) <= Total(worths)
      BY <3>1, <3>2, TotalIs
    <3> QED
      BY <2>4, <2>11, <3>1, <3>3
  <2>13. m <= Total(lengths)
    BY <1>3, <2>3, <2>12
  <2>14. m <= Least(Total(lengths), L.topK) /\ Least(Total(lengths), L.topK) \in Nat
    BY <1>1, <1>3, <2>3, <2>13, LeastIs
  <2>15. m <= priced.prompt
    BY <1>3, <2>3, <2>12, <2>14, LeastIs
  <2> QED
    BY <2>3, <2>15
<1> QED
  BY <1>3, <1>4, <1>5 DEF L, priced

-----------------------------------------------------------------------------
(* The markers of an answer.                                               *)

(* What FlattenSeq has put together of the first n.                        *)
Flattens(ss, f) ==
  f = [i \in 1..Len(ss) |-> IF i = 1 THEN ss[i] ELSE f[i - 1] \o ss[i]]

(* There is such a function for every sequence.                            *)
LEMMA FlattensExists ==
  ASSUME NEW ss, Len(ss) \in Nat
  PROVE  \E f : Flattens(ss, f)
<1> DEFINE Upto(n, g) == g = [i \in 1..n |-> IF i = 1 THEN ss[i] ELSE g[i - 1] \o ss[i]]
           Good == {n \in Nat : \E g : Upto(n, g)}
<1>1. 0 \in Good
  <2> DEFINE g == [i \in 1..0 |-> <<>>]
  <2>1. Upto(0, g)
    OBVIOUS
  <2> QED
    BY <2>1
<1>2. ASSUME NEW n \in Good PROVE n + 1 \in Good
  <2>1. PICK g : Upto(n, g)
    OBVIOUS
  <2> DEFINE h == [i \in 1..(n + 1) |-> IF i <= n THEN g[i]
                     ELSE IF i = 1 THEN ss[i] ELSE g[i - 1] \o ss[i]]
  <2>2. \A i \in 1..n : h[i] = g[i]
    OBVIOUS
  <2>3. h[n + 1] = IF n + 1 = 1 THEN ss[n + 1] ELSE h[n] \o ss[n + 1]
    BY <2>2
  <2>4. ASSUME NEW i \in 1..(n + 1)
        PROVE  h[i] = IF i = 1 THEN ss[i] ELSE h[i - 1] \o ss[i]
    <3>1. CASE i = n + 1
      BY <3>1, <2>3
    <3>2. CASE i \in 1..n
      <4>1. g[i] = IF i = 1 THEN ss[i] ELSE g[i - 1] \o ss[i]
        BY <2>1, <3>2, Zenon
      <4>2. h[i] = g[i] /\ (i # 1 => h[i - 1] = g[i - 1])
        BY <2>2, <3>2
      <4> HIDE DEF h
      <4> QED
        BY <4>1, <4>2
    <3> QED
      BY <3>1, <3>2
  <2>5. Upto(n + 1, h)
    <3> DEFINE m == n + 1
    <3>1. h = [i \in 1..m |-> h[i]]
      OBVIOUS
    <3> HIDE DEF h, m
    <3>2. h = [i \in 1..m |-> IF i = 1 THEN ss[i] ELSE h[i - 1] \o ss[i]]
      BY <2>4, <3>1 DEF m
    <3> QED
      BY <3>2 DEF m
  <2> HIDE DEF h
  <2>6. \E u : Upto(n + 1, u)
    BY <2>5, Zenon
  <2>7. n + 1 \in Nat
    OBVIOUS
  <2> HIDE DEF Upto
  <2> QED
    BY <2>6, <2>7
<1>0. Good \in SUBSET Nat
  OBVIOUS
<1> HIDE DEF Good
<1>3. Len(ss) \in Good
  BY <1>0, <1>1, <1>2, SetInduction
<1> QED
  BY <1>3 DEF Good, Flattens

(* The places of the first n sequences, and a sequence that has what they  *)
(* have, place by place.                                                   *)
PlacesUpto(ss, n) == {x \in (1..n) \X Nat : x[2] \in DOMAIN ss[x[1]]}
JoinedBy(ss, n, t, b) ==
  /\ b \in Bijection(1..Len(t), PlacesUpto(ss, n))
  /\ \A k \in 1..Len(t) : t[k] = ss[b[k][1]][b[k][2]]

(* One more sequence is put behind the others.                             *)
LEMMA JoinsOne ==
  ASSUME NEW T, NEW ss \in Seq(Seq(T)), NEW n \in Nat, n + 1 \in 1..Len(ss),
         NEW t \in Seq(T), NEW b, JoinedBy(ss, n, t, b)
  PROVE  \E d : JoinedBy(ss, n + 1, t \o ss[n + 1], d)
<1> PICK new \in Seq(T) : new = ss[n + 1]
  OBVIOUS
<1> PICK m \in Nat : m = Len(t)
  OBVIOUS
<1> DEFINE P == PlacesUpto(ss, n)
           Q == PlacesUpto(ss, n + 1)
           u == t \o new
           l == m + Len(new)
           d == [k \in 1..l |-> IF k <= m THEN b[k] ELSE <<n + 1, k - m>>]
<1>1. /\ Len(u) = l /\ l \in Nat /\ DOMAIN new = 1..Len(new) /\ Len(new) \in Nat
      /\ \A k \in 1..l : u[k] = IF k <= m THEN t[k] ELSE new[k - m]
  OBVIOUS
<1>2. /\ b \in [1..m -> P] /\ \A i, j \in 1..m : b[i] = b[j] => i = j
      /\ \A x \in P : \E k \in 1..m : b[k] = x
      /\ \A k \in 1..m : t[k] = ss[b[k][1]][b[k][2]]
  BY DEF JoinedBy, Bijection, Injection, IsInjective, Surjection
<1>3. /\ \A x \in P : x \in Q /\ x[1] \in 1..n
      /\ \A j \in 1..Len(new) : <<n + 1, j>> \in Q
      /\ \A x \in Q : x \in P \/ \E j \in 1..Len(new) : x = <<n + 1, j>>
  <2>1. ASSUME NEW x \in P PROVE x \in Q /\ x[1] \in 1..n
    BY DEF PlacesUpto
  <2>2. ASSUME NEW j \in 1..Len(new) PROVE <<n + 1, j>> \in Q
    BY <1>1 DEF PlacesUpto
  <2>3. ASSUME NEW x \in Q PROVE x \in P \/ \E j \in 1..Len(new) : x = <<n + 1, j>>
    <3>1. /\ x[1] \in 1..(n + 1) /\ x[2] \in Nat /\ x[2] \in DOMAIN ss[x[1]]
          /\ x = <<x[1], x[2]>>
      BY DEF PlacesUpto
    <3>2. CASE x[1] = n + 1
      BY <1>1, <3>1, <3>2
    <3>3. CASE x[1] # n + 1
      <4>1. x[1] \in 1..n
        BY <3>1, <3>3
      <4> QED
        BY <3>1, <4>1 DEF PlacesUpto
    <3> QED
      BY <3>2, <3>3
  <2> QED
    BY <2>1, <2>2, <2>3
<1> HIDE DEF P, Q
<1>4. \A k \in 1..l : \/ k \in 1..m /\ d[k] = b[k] /\ d[k] \in P
                      \/ k > m /\ k - m \in 1..Len(new) /\ d[k] = <<n + 1, k - m>>
  <2> SUFFICES ASSUME NEW k \in 1..l
               PROVE  \/ k \in 1..m /\ d[k] = b[k] /\ d[k] \in P
                      \/ k > m /\ k - m \in 1..Len(new) /\ d[k] = <<n + 1, k - m>>
    OBVIOUS
  <2>1. d[k] = IF k <= m THEN b[k] ELSE <<n + 1, k - m>>
    OBVIOUS
  <2>2. (k \in 1..m /\ k <= m) \/ (k > m /\ ~(k <= m) /\ k - m \in 1..Len(new))
    BY <1>1
  <2> HIDE DEF d, l
  <2>3. k \in 1..m => b[k] \in P
    BY <1>2
  <2> QED
    BY <2>1, <2>2, <2>3
<1>5. d \in [1..l -> Q]
  <2>1. \A k \in 1..l : d[k] \in Q
    BY <1>3, <1>4
  <2>2. d = [k \in 1..l |-> d[k]]
    OBVIOUS
  <2> HIDE DEF d, l
  <2> QED
    BY <2>1, <2>2
<1>6. ASSUME NEW i \in 1..l, NEW j \in 1..l, d[i] = d[j] PROVE i = j
  <2>1. /\ \/ i \in 1..m /\ d[i] = b[i] /\ d[i] \in P
           \/ i > m /\ d[i] = <<n + 1, i - m>>
        /\ \/ j \in 1..m /\ d[j] = b[j] /\ d[j] \in P
           \/ j > m /\ d[j] = <<n + 1, j - m>>
    BY <1>4
  <2>2. \A k : <<n + 1, k>> \notin P
    BY <1>3
  <2> HIDE DEF d
  <2>3. CASE i \in 1..m /\ d[i] = b[i] /\ d[i] \in P
    <3>1. j \in 1..m /\ d[j] = b[j]
      BY <1>6, <2>1, <2>2, <2>3, Zenon
    <3>2. b[i] = b[j]
      BY <1>6, <2>3, <3>1
    <3> QED
      BY <1>2, <2>3, <3>1, <3>2
  <2>4. CASE i > m /\ d[i] = <<n + 1, i - m>>
    <3>1. d[j] = <<n + 1, j - m>>
      BY <1>6, <2>1, <2>2, <2>4, Zenon
    <3>2. i - m = j - m
      <4>1. <<n + 1, i - m>> = <<n + 1, j - m>>
        BY <1>6, <2>4, <3>1, Zenon
      <4> QED
        BY <4>1
    <3> QED
      BY <1>1, <3>2
  <2> QED
    BY <2>1, <2>3, <2>4
<1>7. ASSUME NEW x \in Q PROVE \E k \in 1..l : d[k] = x
  <2>1. CASE x \in P
    <3>1. PICK k \in 1..m : b[k] = x
      BY <1>2, <2>1
    <3>2. k \in 1..l /\ d[k] = b[k]
      BY <1>1
    <3> QED
      BY <3>1, <3>2
  <2>2. CASE \E j \in 1..Len(new) : x = <<n + 1, j>>
    <3>1. PICK j \in 1..Len(new) : x = <<n + 1, j>>
      BY <2>2
    <3>2. m + j \in 1..l /\ ~(m + j <= m) /\ (m + j) - m = j
      BY <1>1
    <3>3. d[m + j] = <<n + 1, j>>
      BY <3>2
    <3> QED
      BY <3>1, <3>2, <3>3
  <2> QED
    BY <1>3, <2>1, <2>2
<1>8. ASSUME NEW k \in 1..l PROVE u[k] = ss[d[k][1]][d[k][2]]
  <2>1. CASE k \in 1..m /\ d[k] = b[k]
    <3>1. u[k] = t[k]
      BY <1>1, <2>1
    <3> QED
      BY <1>2, <2>1, <3>1
  <2>2. CASE k > m /\ d[k] = <<n + 1, k - m>>
    <3>1. u[k] = new[k - m]
      BY <1>1, <2>2
    <3> QED
      BY <2>2, <3>1
  <2> QED
    BY <1>4, <2>1, <2>2
<1> HIDE DEF d, u, l
<1>9. d \in Bijection(1..l, Q)
  <2>1. d \in Injection(1..l, Q)
    BY <1>5, <1>6 DEF Injection, IsInjective
  <2>2. d \in Surjection(1..l, Q)
    BY <1>5, <1>7 DEF Surjection
  <2> QED
    BY <2>1, <2>2 DEF Bijection
<1>10. JoinedBy(ss, n + 1, u, d)
  BY <1>1, <1>8, <1>9 DEF JoinedBy, Q
<1> QED
  BY <1>10 DEF u

(* FlattenSeq puts sequences one behind the other: nothing is lost, and    *)
(* nothing comes twice.                                                    *)
LEMMA FlattenIs ==
  ASSUME NEW T, NEW ss \in Seq(Seq(T))
  PROVE  /\ FlattenSeq(ss) \in Seq(T)
         /\ \E b : JoinedBy(ss, Len(ss), FlattenSeq(ss), b)
<1>1. Len(ss) \in Nat /\ DOMAIN ss = 1..Len(ss)
  OBVIOUS
<1>2. <<>> \in Seq(T) /\ \E b : JoinedBy(ss, 0, <<>>, b)
  <2> DEFINE b == [k \in 1..0 |-> <<k, k>>]
  <2>1. PlacesUpto(ss, 0) = {} /\ Len(<<>>) = 0 /\ 1..0 = {}
    BY DEF PlacesUpto
  <2>2. b \in Bijection({}, {})
    BY DEF Bijection, Injection, IsInjective, Surjection
  <2>3. JoinedBy(ss, 0, <<>>, b)
    <3> HIDE DEF b
    <3> QED
      BY <2>1, <2>2 DEF JoinedBy
  <2> QED
    BY <2>3
<1>3. CASE Len(ss) = 0
  <2>1. ss = <<>>
    BY <1>3
  <2>2. FlattenSeq(ss) = ss
    BY <1>3 DEF FlattenSeq
  <2> QED
    BY <1>2, <1>3, <2>1, <2>2
<1>4. CASE Len(ss) # 0
  <2> DEFINE f == CHOOSE g : Flattens(ss, g)
  <2>1. Flattens(ss, f)
    BY <1>1, FlattensExists
  <2>2. FlattenSeq(ss) = f[Len(ss)]
    BY <1>4 DEF FlattenSeq, Flattens
  <2> HIDE DEF f
  <2>3. \A i \in 1..Len(ss) : f[i] = IF i = 1 THEN ss[i] ELSE f[i - 1] \o ss[i]
    BY <2>1, Zenon DEF Flattens
  <2> DEFINE Joins(n) == f[n] \in Seq(T) /\ \E b : JoinedBy(ss, n, f[n], b)
             Good == {n \in Nat : n + 1 <= Len(ss) => Joins(n + 1)}
  <2>4. 0 \in Good
    <3>1. 1 \in 1..Len(ss) /\ 0 + 1 = 1 /\ 0 \in Nat
      BY <1>1, <1>4
    <3>2. f[1] = ss[1] /\ ss[1] \in Seq(T)
      BY <2>3, <3>1
    <3>3. PICK s \in Seq(T) : s = ss[1]
      BY <3>2
    <3>4. <<>> \o ss[1] = ss[1]
      BY <3>3
    <3>5. PICK b : JoinedBy(ss, 0, <<>>, b)
      BY <1>2
    <3>6. \E d : JoinedBy(ss, 0 + 1, <<>> \o ss[0 + 1], d)
      <4>1. 0 + 1 \in 1..Len(ss) /\ <<>> \in Seq(T)
        BY <3>1
      <4> QED
        BY <3>1, <3>5, <4>1, JoinsOne
    <3>7. Joins(1)
      BY <3>1, <3>2, <3>4, <3>6
    <3> HIDE DEF Joins
    <3> QED
      BY <3>1, <3>7
  <2>5. ASSUME NEW n \in Good PROVE n + 1 \in Good
    <3> SUFFICES ASSUME (n + 1) + 1 <= Len(ss) PROVE Joins((n + 1) + 1)
      OBVIOUS
    <3> PICK m \in Nat : m = n + 1
      OBVIOUS
    <3>1. m + 1 \in 1..Len(ss) /\ m \in 1..Len(ss) /\ m + 1 # 1 /\ (m + 1) - 1 = m
      BY <1>1
    <3>2. Joins(m)
      BY <1>1, <3>1
    <3>3. f[m + 1] = f[m] \o ss[m + 1]
      BY <2>3, <3>1
    <3>4. PICK t \in Seq(T) : t = f[m]
      BY <3>2
    <3>5. PICK b : JoinedBy(ss, m, t, b)
      BY <3>2, <3>4
    <3>6. \E d : JoinedBy(ss, m + 1, t \o ss[m + 1], d)
      BY <3>1, <3>5, JoinsOne
    <3>7. PICK s \in Seq(T) : s = ss[m + 1]
      BY <3>1
    <3>8. t \o s \in Seq(T)
      OBVIOUS
    <3> QED
      BY <3>3, <3>4, <3>6, <3>7, <3>8
  <2> HIDE DEF Joins
  <2>6. Good \in SUBSET Nat
    OBVIOUS
  <2> HIDE DEF Good
  <2>7. \A n \in Nat : n \in Good
    BY <2>4, <2>5, <2>6, SetInduction
  <2>8. Len(ss) - 1 \in Nat /\ (Len(ss) - 1) + 1 = Len(ss)
    BY <1>1, <1>4
  <2>9. Joins(Len(ss))
    <3>1. Len(ss) - 1 \in Good
      BY <2>7, <2>8
    <3>2. (Len(ss) - 1) + 1 <= Len(ss) => Joins((Len(ss) - 1) + 1)
      BY <3>1 DEF Good
    <3> QED
      BY <1>1, <2>8, <3>2
  <2> QED
    BY <2>2, <2>9 DEF Joins
<1> QED
  BY <1>3, <1>4

(* What parse_citations makes of each piece: a word stays; brackets stay   *)
(* as subscripts or with numbers of sources.                               *)
Rewrites(answer, count, ss) ==
  /\ DOMAIN ss = DOMAIN answer
  /\ \A i \in DOMAIN answer :
       /\ answer[i].kind = "word" => ss[i] = <<answer[i]>>
       /\ \A j \in DOMAIN ss[i] :
            /\ ss[i][j].kind = "word" => answer[i].kind = "word" /\ j = 1
            /\ IsBracket(ss[i][j]) =>
                 \/ \A n \in DOMAIN ss[i][j].numbers : ss[i][j].numbers[n] \in 1..count
                 \/ ss[i][j] = answer[i] /\ GluedTo(answer, i)

(* parse_citations is what that leaves, one piece behind the other.        *)
LEMMA ParsedIs ==
  ASSUME NEW P, NEW answer \in Seq(P), \A p \in P : IsBracket(p) => p.numbers \in Seq(Nat),
         NEW count \in Nat \ {0}
  PROVE  \E T : \E ss \in Seq(Seq(T)) :
           ParseCitations(answer, count) = FlattenSeq(ss) /\ Rewrites(answer, count, ss)
<1> DEFINE marker(i) == IsBracket(answer[i]) /\ ~GluedTo(answer, i)
           dropped(i) == marker(i) /\ InRange(answer[i], count) = <<>>
           swallowed(i) == /\ answer[i].kind = "space"
                           /\ \E j \in (i + 1)..Len(answer) :
                                /\ dropped(j)
                                /\ \A k \in i..(j - 1) : answer[k].kind = "space"
           single(k) == [kind |-> "bracket", numbers |-> <<k>>]
           T == P \cup {single(k) : k \in Nat}
           split(i) == [n \in DOMAIN InRange(answer[i], count) |->
                          [kind |-> "bracket", numbers |-> <<InRange(answer[i], count)[n]>>]]
           rewritten(i) == IF ~marker(i) THEN <<answer[i]>> ELSE split(i)
           ss == [i \in DOMAIN answer |-> IF dropped(i) \/ swallowed(i) THEN <<>> ELSE rewritten(i)]
<1>1. DOMAIN answer = 1..Len(answer) /\ Len(answer) \in Nat /\ \A i \in DOMAIN answer : answer[i] \in P
  OBVIOUS
<1>2. ParseCitations(answer, count) = FlattenSeq(ss)
  BY DEF ParseCitations
<1>3. ASSUME NEW i \in DOMAIN answer, marker(i)
      PROVE  /\ split(i) \in Seq(T) /\ answer[i].kind = "bracket"
             /\ \A j \in DOMAIN split(i) : /\ split(i)[j].kind = "bracket"
                                           /\ \A n \in DOMAIN split(i)[j].numbers :
                                                split(i)[j].numbers[n] \in 1..count
  <2>1. answer[i].kind = "bracket" /\ answer[i].numbers \in Seq(Nat)
    BY <1>1, <1>3 DEF IsBracket
  <2> PICK ns \in Seq(Nat) : ns = answer[i].numbers
    BY <2>1
  <2> PICK r : r = InRange(answer[i], count)
    OBVIOUS
  <2>2. r \in Seq(Nat) /\ PickedOf(ns, 1..count, Len(ns), r)
    BY KeptIs DEF InRange
  <2>3. DOMAIN r = 1..Len(r) /\ Len(r) \in Nat /\ \A n \in DOMAIN r : r[n] \in Nat /\ r[n] \in 1..count
    <3>1. DOMAIN r = 1..Len(r) /\ Len(r) \in Nat /\ \A n \in DOMAIN r : r[n] \in Nat
      BY <2>2
    <3>2. \A n \in DOMAIN r : r[n] \in 1..count
      BY <2>2, Zenon DEF PickedOf
    <3> QED
      BY <3>1, <3>2
  <2>4. split(i) = [n \in 1..Len(r) |-> single(r[n])]
    BY <2>3
  <2> HIDE DEF split
  <2>5. split(i) \in Seq(T)
    <3>1. [n \in 1..Len(r) |-> single(r[n])] \in [1..Len(r) -> T]
      BY <2>3
    <3> HIDE DEF single, T
    <3> QED
      BY <2>3, <2>4, <3>1, SeqDef
  <2>6. \A j \in DOMAIN split(i) : j \in DOMAIN r /\ split(i)[j] = single(r[j])
    BY <2>3, <2>4
  <2>7. ASSUME NEW j \in DOMAIN split(i)
        PROVE  /\ split(i)[j].kind = "bracket"
               /\ \A n \in DOMAIN split(i)[j].numbers : split(i)[j].numbers[n] \in 1..count
    <3>1. single(r[j]).kind = "bracket" /\ single(r[j]).numbers = <<r[j]>>
      OBVIOUS
    <3>2. split(i)[j] = single(r[j]) /\ r[j] \in 1..count
      BY <2>3, <2>6
    <3> HIDE DEF single
    <3> QED
      BY <3>1, <3>2
  <2> QED
    BY <2>1, <2>5, <2>7
<1> HIDE DEF split
<1>4. ASSUME NEW i \in DOMAIN answer, ~marker(i)
      PROVE  <<answer[i]>> \in Seq(T) /\ (IsBracket(answer[i]) => GluedTo(answer, i))
  BY <1>1, <1>4
<1>5. ASSUME NEW i \in DOMAIN answer
      PROVE  ss[i] = <<>> \/ (marker(i) /\ ss[i] = split(i)) \/ (~marker(i) /\ ss[i] = <<answer[i]>>)
  OBVIOUS
<1>6. ASSUME NEW i \in DOMAIN answer, answer[i].kind = "word" PROVE ss[i] = <<answer[i]>>
  <2>1. ~marker(i) /\ ~dropped(i) /\ ~swallowed(i)
    BY <1>6 DEF IsBracket
  <2> HIDE DEF marker, dropped, swallowed
  <2> QED
    BY <2>1
<1>7. DOMAIN ss = 1..Len(answer)
  BY <1>1
<1>8. ss = [i \in DOMAIN ss |-> ss[i]]
  OBVIOUS
<1> HIDE DEF ss, dropped, swallowed, T
<1>9. ASSUME NEW i \in DOMAIN answer PROVE ss[i] \in Seq(T)
  <2>1. <<>> \in Seq(T)
    OBVIOUS
  <2> HIDE DEF marker
  <2> QED
    BY <1>3, <1>4, <1>5, <2>1
<1>10. ss \in Seq(Seq(T))
  <2>1. ss \in [1..Len(answer) -> Seq(T)]
    BY <1>1, <1>7, <1>8, <1>9
  <2> QED
    BY <1>1, <2>1, SeqDef
<1>11. ASSUME NEW i \in DOMAIN answer, NEW j \in DOMAIN ss[i]
       PROVE  /\ ss[i][j].kind = "word" => answer[i].kind = "word" /\ j = 1
              /\ IsBracket(ss[i][j]) =>
                   \/ \A n \in DOMAIN ss[i][j].numbers : ss[i][j].numbers[n] \in 1..count
                   \/ ss[i][j] = answer[i] /\ GluedTo(answer, i)
  <2>1. CASE ss[i] = <<>>
    BY <1>11, <2>1
  <2>2. CASE marker(i) /\ ss[i] = split(i)
    <3>1. /\ ss[i][j].kind = "bracket"
          /\ \A n \in DOMAIN ss[i][j].numbers : ss[i][j].numbers[n] \in 1..count
      BY <1>3, <1>11, <2>2
    <3> QED
      BY <3>1
  <2>3. CASE ~marker(i) /\ ss[i] = <<answer[i]>>
    <3>1. j = 1 /\ ss[i][j] = answer[i]
      BY <1>11, <2>3
    <3> QED
      BY <1>4, <2>3, <3>1
  <2> HIDE DEF marker
  <2> QED
    BY <1>5, <2>1, <2>2, <2>3
<1>12. Rewrites(answer, count, ss)
  BY <1>1, <1>6, <1>7, <1>11 DEF Rewrites
<1> QED
  BY <1>2, <1>10, <1>12

(* parse_citations, of any answer and number of sources: see               *)
(* MarkersPointRight.                                                      *)
THEOREM ParsesMarkers ==
  ASSUME NEW P, NEW answer \in Seq(P), \A p \in P : IsBracket(p) => p.numbers \in Seq(Nat),
         NEW count \in Nat \ {0}
  PROVE  LET parsed == ParseCitations(answer, count)
             words(pieces) == {i \in DOMAIN pieces : pieces[i].kind = "word"}
         IN  /\ Cardinality(words(parsed)) = Cardinality(words(answer))
             /\ \A i \in DOMAIN parsed : IsBracket(parsed[i]) =>
                  \/ \A n \in DOMAIN parsed[i].numbers : parsed[i].numbers[n] \in 1..count
                  \/ \E j \in DOMAIN answer : answer[j] = parsed[i] /\ GluedTo(answer, j)
<1> DEFINE parsed == ParseCitations(answer, count)
           words(pieces) == {i \in DOMAIN pieces : pieces[i].kind = "word"}
<1>1. PICK T : \E ss \in Seq(Seq(T)) : parsed = FlattenSeq(ss) /\ Rewrites(answer, count, ss)
  BY ParsedIs
<1>2. PICK ss \in Seq(Seq(T)) : parsed = FlattenSeq(ss) /\ Rewrites(answer, count, ss)
  BY <1>1
<1>3. parsed \in Seq(T) /\ \E b : JoinedBy(ss, Len(ss), parsed, b)
  BY <1>2, FlattenIs
<1> HIDE DEF parsed
<1>4. PICK b : JoinedBy(ss, Len(ss), parsed, b)
  BY <1>3
<1> DEFINE n == Len(parsed)
           Q == PlacesUpto(ss, Len(ss))
<1>5. /\ DOMAIN parsed = 1..n /\ n \in Nat
      /\ DOMAIN ss = 1..Len(ss) /\ DOMAIN answer = 1..Len(answer) /\ Len(answer) \in Nat
      /\ DOMAIN ss = DOMAIN answer
  BY <1>2, <1>3 DEF Rewrites
<1>6. /\ b \in [1..n -> Q] /\ \A i, j \in 1..n : b[i] = b[j] => i = j
      /\ \A x \in Q : \E k \in 1..n : b[k] = x
      /\ \A k \in 1..n : parsed[k] = ss[b[k][1]][b[k][2]]
  BY <1>4 DEF JoinedBy, Bijection, Injection, IsInjective, Surjection
<1>7. \A x \in Q : x[1] \in DOMAIN answer /\ x[2] \in DOMAIN ss[x[1]] /\ x = <<x[1], x[2]>>
  <2>1. \A x \in Q : x[1] \in 1..Len(ss) /\ x[2] \in DOMAIN ss[x[1]] /\ x = <<x[1], x[2]>>
    BY DEF PlacesUpto
  <2> HIDE DEF Q
  <2> QED
    BY <1>5, <2>1
<1>8. \A i \in DOMAIN answer : \A j \in DOMAIN ss[i] : j \in Nat => <<i, j>> \in Q
  BY <1>5 DEF PlacesUpto
<1> HIDE DEF n, Q
<1>9. ASSUME NEW k \in 1..n
      PROVE  /\ b[k][1] \in DOMAIN answer /\ b[k][2] \in DOMAIN ss[b[k][1]]
             /\ b[k] = <<b[k][1], b[k][2]>> /\ parsed[k] = ss[b[k][1]][b[k][2]]
  <2>1. b[k] \in Q
    BY <1>6
  <2> QED
    BY <1>6, <1>7, <2>1, Zenon
<1>10. ASSUME NEW k \in DOMAIN parsed, IsBracket(parsed[k])
       PROVE  \/ \A i \in DOMAIN parsed[k].numbers : parsed[k].numbers[i] \in 1..count
              \/ \E j \in DOMAIN answer : answer[j] = parsed[k] /\ GluedTo(answer, j)
  <2>1. PICK i, j : i = b[k][1] /\ j = b[k][2]
    OBVIOUS
  <2>2. i \in DOMAIN answer /\ j \in DOMAIN ss[i] /\ parsed[k] = ss[i][j]
    BY <1>5, <1>9, <2>1
  <2> QED
    BY <1>2, <1>10, <2>2 DEF Rewrites
<1> DEFINE A == words(parsed)
           B == words(answer)
           f == [k \in A |-> b[k][1]]
<1>11. \A k \in A : k \in 1..n /\ b[k][1] \in B /\ b[k] = <<b[k][1], 1>>
  <2> SUFFICES ASSUME NEW k \in DOMAIN parsed, parsed[k].kind = "word"
               PROVE  k \in 1..n /\ b[k][1] \in B /\ b[k] = <<b[k][1], 1>>
    OBVIOUS
  <2>1. PICK i, j : i = b[k][1] /\ j = b[k][2]
    OBVIOUS
  <2>2. i \in DOMAIN answer /\ j \in DOMAIN ss[i] /\ parsed[k] = ss[i][j] /\ b[k] = <<i, j>>
    BY <1>5, <1>9, <2>1
  <2>3. answer[i].kind = "word" /\ j = 1
    BY <1>2, <2>2 DEF Rewrites
  <2> QED
    BY <1>5, <2>1, <2>2, <2>3
<1>12. \A i \in B : \E k \in A : b[k][1] = i
  <2> SUFFICES ASSUME NEW i \in DOMAIN answer, answer[i].kind = "word"
               PROVE  \E k \in A : b[k][1] = i
    OBVIOUS
  <2>1. ss[i] = <<answer[i]>>
    BY <1>2 DEF Rewrites
  <2>2. 1 \in DOMAIN ss[i] /\ ss[i][1] = answer[i] /\ 1 \in Nat
    BY <2>1
  <2>3. <<i, 1>> \in Q
    BY <1>8, <2>2
  <2>4. PICK k \in 1..n : b[k] = <<i, 1>>
    BY <1>6, <2>3
  <2>5. parsed[k] = answer[i]
    <3>1. parsed[k] = ss[b[k][1]][b[k][2]]
      BY <1>6
    <3> QED
      BY <2>2, <2>4, <3>1
  <2>6. k \in DOMAIN parsed
    BY <1>5, <2>4
  <2>7. k \in A
    BY <2>5, <2>6
  <2>8. b[k][1] = i
    BY <2>4
  <2> QED
    BY <2>7, <2>8, Zenon
<1>13. f \in Bijection(A, B)
  <2>1. f \in [A -> B]
    BY <1>11
  <2>2. \A i, j \in A : f[i] = f[j] => i = j
    <3> SUFFICES ASSUME NEW i \in A, NEW j \in A, f[i] = f[j]
                 PROVE  i = j
      OBVIOUS
    <3>1. f[i] = b[i][1] /\ f[j] = b[j][1]
      BY Zenon
    <3>2. i \in 1..n /\ j \in 1..n /\ b[i] = <<b[i][1], 1>> /\ b[j] = <<b[j][1], 1>>
      BY <1>11, Zenon
    <3> HIDE DEF f, A, B
    <3>3. b[i] = b[j]
      BY <3>1, <3>2, Zenon
    <3> QED
      BY <1>6, <3>2, <3>3, Zenon
  <2>3. \A i \in B : \E k \in A : f[k] = i
    BY <1>12
  <2> HIDE DEF f, A, B
  <2>4. f \in Injection(A, B)
    BY <2>1, <2>2 DEF Injection, IsInjective
  <2>5. f \in Surjection(A, B)
    BY <2>1, <2>3 DEF Surjection
  <2> QED
    BY <2>4, <2>5 DEF Bijection
<1>14. IsFiniteSet(A)
  <2>1. A \subseteq 1..n
    BY <1>11
  <2> HIDE DEF A
  <2>2. IsFiniteSet(1..n)
    BY <1>5, FS_Interval
  <2> QED
    BY <2>1, <2>2, FS_Subset
<1> HIDE DEF A, B, f
<1>15. Cardinality(A) = Cardinality(B)
  <2>1. ExistsBijection(A, B)
    BY <1>13 DEF ExistsBijection
  <2> QED
    BY <1>14, <2>1, FS_Bijection
<1> QED
  BY <1>10, <1>15 DEF A, B, parsed

-----------------------------------------------------------------------------
(* The samples that are drawn.                                             *)

(* What a sample is.                                                       *)
SampleInv ==
  /\ sample.of = "fusion" => sample.bm25 \in Ranking /\ sample.dense \in Ranking
  /\ sample.of = "selection" =>
       /\ Graded(sample.scored) /\ Falls(sample.scored)
       /\ \A i \in DOMAIN sample.scored : sample.scored[i].id = i
       /\ sample.topK \in Nat \ {0} /\ sample.cap \in Nat \ {0}
  /\ sample.of = "estimate" =>
       /\ sample.wanted \in Seq({"a", "b", "c", "gone"})
       /\ \A x \in DOMAIN sample.held : sample.held[x] \in 1..4
  /\ sample.of = "markers" => sample.answer \in Seq(Pieces) /\ sample.count \in Nat

(* A drawn list has its best first, and its ids are its places.            *)
LEMMA RankedIs ==
  ASSUME NEW n \in Nat, NEW place, NEW score \in Falling(n)
  PROVE  /\ Graded(RankedBy(n, place, score)) /\ Falls(RankedBy(n, place, score))
         /\ \A i \in DOMAIN RankedBy(n, place, score) : RankedBy(n, place, score)[i].id = i
<1> DEFINE s == RankedBy(n, place, score)
<1>1. /\ s = [i \in 1..n |-> [id |-> i, src |-> place[i].src, path |-> place[i].path,
                              p |-> score[i]]]
      /\ DOMAIN s = 1..n /\ Len(s) = n
  BY DEF RankedBy
<1>2. \A i \in 1..n : s[i].id = i /\ s[i].p = score[i]
  BY <1>1
<1>3. score \in [1..n -> {20, 50, 90}] /\ \A i \in 2..n : score[i - 1] >= score[i]
  BY DEF Falling
<1>4. Graded(s)
  <2>1. s = [i \in DOMAIN s |-> s[i]]
    BY <1>1
  <2> HIDE DEF s
  <2> QED
    BY <1>1, <1>2, <1>3, <2>1 DEF Graded, List
<1> HIDE DEF s
<1>5. Falls(s)
  <2> DEFINE Good == {d \in Nat : \A i \in 1..n : i + d \in 1..n => score[i] >= score[i + d]}
  <2>1. 0 \in Good
    BY <1>3
  <2>2. ASSUME NEW d \in Good PROVE d + 1 \in Good
    <3> SUFFICES ASSUME NEW i \in 1..n, i + (d + 1) \in 1..n PROVE score[i] >= score[i + (d + 1)]
      OBVIOUS
    <3>1. i + d \in 1..n /\ i + (d + 1) \in 2..n /\ (i + (d + 1)) - 1 = i + d
      OBVIOUS
    <3>2. score[i] >= score[i + d] /\ score[i + d] >= score[i + (d + 1)]
      BY <1>3, <3>1
    <3>3. /\ score[i] \in Int /\ score[i + d] \in Int /\ score[i + (d + 1)] \in Int
      BY <1>3, <3>1
    <3> QED
      BY <3>2, <3>3
  <2> HIDE DEF Good
  <2>3. \A d \in Nat : d \in Good
    <3>1. Good \in SUBSET Nat
      BY DEF Good
    <3> QED
      BY <2>1, <2>2, <3>1, SetInduction
  <2>4. ASSUME NEW i \in 1..n, NEW j \in 1..n, i < j PROVE score[i] >= score[j]
    <3>1. j - i \in Nat /\ i + (j - i) = j
      BY <2>4
    <3>2. j - i \in Good
      BY <2>3, <3>1
    <3> QED
      BY <3>1, <3>2 DEF Good
  <2> QED
    BY <1>1, <1>2, <2>4 DEF Falls
<1> QED
  BY <1>1, <1>2, <1>4, <1>5 DEF s

(* What Draw draws is such a sample.                                       *)
LEMMA DrawnIs == ASSUME Draw PROVE SampleInv'
<1>1. CASE \E n \in 1..MaxCandidates, k \in 1..4, cap \in 1..2 :
             \E place \in [1..n -> Places], score \in Falling(n) :
               sample' = [of |-> "selection", topK |-> k, cap |-> cap,
                          scored |-> RankedBy(n, place, score)]
  <2>1. PICK n \in 1..MaxCandidates, k \in 1..4, cap \in 1..2 :
             \E place \in [1..n -> Places], score \in Falling(n) :
               sample' = [of |-> "selection", topK |-> k, cap |-> cap,
                          scored |-> RankedBy(n, place, score)]
    BY <1>1
  <2>2. PICK place \in [1..n -> Places], score \in Falling(n) :
               sample' = [of |-> "selection", topK |-> k, cap |-> cap,
                          scored |-> RankedBy(n, place, score)]
    BY <2>1
  <2>3. n \in Nat
    OBVIOUS
  <2>4. PICK s : s = RankedBy(n, place, score)
    OBVIOUS
  <2>5. Graded(s) /\ Falls(s) /\ \A i \in DOMAIN s : s[i].id = i
    BY <2>3, <2>4, RankedIs
  <2>6. /\ sample'.of = "selection" /\ sample'.scored = s
        /\ sample'.topK = k /\ sample'.cap = cap
    BY <2>2, <2>4
  <2> QED
    BY <2>5, <2>6 DEF SampleInv
<1>2. CASE \E b, d \in Ranking : sample' = [of |-> "fusion", bm25 |-> b, dense |-> d]
  BY <1>2 DEF SampleInv
<1>3. CASE \E held \in [{"a", "b", "c"} -> 1..4], depth \in DOMAIN Depths \cup {"deep"} :
             \E n \in 1..3 : \E wanted \in [1..n -> {"a", "b", "c", "gone"}] :
               sample' = [of |-> "estimate", held |-> held, depth |-> depth, wanted |-> wanted]
  <2>1. PICK held \in [{"a", "b", "c"} -> 1..4], n \in 1..3 :
             \E wanted \in [1..n -> {"a", "b", "c", "gone"}] : \E depth :
               sample' = [of |-> "estimate", held |-> held, depth |-> depth, wanted |-> wanted]
    BY <1>3
  <2>2. PICK wanted \in [1..n -> {"a", "b", "c", "gone"}] : \E depth :
               sample' = [of |-> "estimate", held |-> held, depth |-> depth, wanted |-> wanted]
    BY <2>1
  <2>3. sample'.of = "estimate" /\ sample'.held = held /\ sample'.wanted = wanted
    BY <2>2
  <2>4. wanted \in Seq({"a", "b", "c", "gone"})
    BY SeqDef
  <2>5. \A x \in DOMAIN held : held[x] \in 1..4
    OBVIOUS
  <2> QED
    BY <2>3, <2>4, <2>5 DEF SampleInv
<1>4. CASE \E n \in 1..MaxPieces, count \in 0..2 : \E answer \in [1..n -> Pieces] :
             sample' = [of |-> "markers", answer |-> answer, count |-> count]
  <2>1. PICK n \in 1..MaxPieces, count \in 0..2 : \E answer \in [1..n -> Pieces] :
             sample' = [of |-> "markers", answer |-> answer, count |-> count]
    BY <1>4
  <2>2. PICK answer \in [1..n -> Pieces] :
             sample' = [of |-> "markers", answer |-> answer, count |-> count]
    BY <2>1
  <2>3. sample'.of = "markers" /\ sample'.answer = answer /\ sample'.count = count
    BY <2>2
  <2>4. n \in Nat /\ count \in Nat
    OBVIOUS
  <2>5. answer \in Seq(Pieces)
    BY <2>4, SeqDef
  <2> QED
    BY <2>3, <2>4, <2>5 DEF SampleInv
<1> QED
  <2>1. Draw => \/ \E n \in 1..MaxPieces, count \in 0..2 : \E answer \in [1..n -> Pieces] :
                     sample' = [of |-> "markers", answer |-> answer, count |-> count]
                \/ \E n \in 1..MaxCandidates, k \in 1..4, cap \in 1..2 :
                     \E place \in [1..n -> Places], score \in Falling(n) :
                       sample' = [of |-> "selection", topK |-> k, cap |-> cap,
                                  scored |-> RankedBy(n, place, score)]
                \/ \E b, d \in Ranking : sample' = [of |-> "fusion", bm25 |-> b, dense |-> d]
                \/ \E held \in [{"a", "b", "c"} -> 1..4], depth \in DOMAIN Depths \cup {"deep"} :
                    \E n \in 1..3 : \E wanted \in [1..n -> {"a", "b", "c", "gone"}] :
                      sample' = [of |-> "estimate", held |-> held, depth |-> depth, wanted |-> wanted]
    BY DEF Draw
  <2> QED
    BY <1>1, <1>2, <1>3, <1>4, <2>1

(* The lists that are drawn, as chunks.                                    *)
ChunksOf(l) == [i \in DOMAIN l |-> [id |-> l[i]]]

(* A drawn ranking is a list of different ids.                             *)
LEMMA RankingListed ==
  ASSUME NEW l \in Ranking
  PROVE  Listed(ChunksOf(l)) /\ IdsOf(ChunksOf(l)) = {l[i] : i \in DOMAIN l}
<1>1. PICK n \in 0..3 : l \in [1..n -> 1..4]
  BY DEF Ranking
<1>2. \A i, j \in DOMAIN l : l[i] = l[j] => i = j
  BY DEF Ranking
<1> QED
  BY <1>1, <1>2 DEF Listed, ChunksOf, IdsOf

(* The lists that are drawn are merged in order.                           *)
LEMMA FusionFair == SampleInv => FusionKeepsOrder
<1> SUFFICES ASSUME SampleInv, sample.of = "fusion" PROVE FusionKeepsOrder
  BY DEF FusionKeepsOrder
<1> DEFINE b == sample.bm25
           d == sample.dense
           bs == ChunksOf(b)
           ds == ChunksOf(d)
           fused == Fuse(bs, ds)
           ids == {b[i] : i \in DOMAIN b} \cup {d[i] : i \in DOMAIN d}
           at(id) == CHOOSE i \in DOMAIN fused : fused[i].id = id
<1>1. b \in Ranking /\ d \in Ranking
  BY DEF SampleInv
<1>2. Listed(bs) /\ Listed(ds) /\ IdsOf(bs) \cup IdsOf(ds) = ids
  BY <1>1, RankingListed
<1> HIDE DEF bs, ds
<1>3. /\ Listed(fused) /\ Len(fused) = Cardinality(ids) /\ IdsOf(fused) = ids
      /\ \A i, j \in DOMAIN fused :
           Before(bs, fused[i].id, fused[j].id) /\ Before(ds, fused[i].id, fused[j].id) => i < j
  BY <1>2, FusesInOrder, Zenon
<1> HIDE DEF fused, ids
<1>4. \A id \in ids : \E i \in DOMAIN fused : fused[i].id = id
  BY <1>3 DEF IdsOf
<1>5. \A id \in ids : at(id) \in DOMAIN fused /\ fused[at(id)].id = id
  BY <1>4
<1> HIDE DEF at
<1>6. \A x, y \in ids : Before(bs, x, y) /\ Before(ds, x, y) => at(x) < at(y)
  BY <1>3, <1>5
<1> QED
  BY <1>3, <1>4, <1>6 DEF FusionKeepsOrder, Before, at, fused, ids, bs, ds, ChunksOf

(* What is counted in the selection is what is picked from the group.      *)
LEMMA CountIs ==
  ASSUME NEW s, IsFiniteSet(DOMAIN s), NEW m \in Nat, NEW e \in [1..m -> DOMAIN s], OneToOne(e), NEW g
  PROVE  CountOf([k \in 1..m |-> s[e[k]]], g) = Cardinality({e[k] : k \in 1..m} \cap OfGroup(s, g))
<1> DEFINE picks == [k \in 1..m |-> s[e[k]]]
           A == {k \in 1..m : Group(s[e[k]]) = g}
           B == {e[k] : k \in 1..m} \cap OfGroup(s, g)
           f == [k \in A |-> e[k]]
<1>1. CountOf(picks, g) = Cardinality(A)
  <2>1. DOMAIN picks = 1..m /\ \A k \in 1..m : picks[k] = s[e[k]]
    OBVIOUS
  <2>2. {k \in DOMAIN picks : Group(picks[k]) = g} = A
    <3> HIDE DEF picks
    <3> QED
      BY <2>1
  <2> QED
    BY <2>2 DEF CountOf
<1>2. f \in Bijection(A, B)
  <2>1. f \in [A -> B]
    BY DEF OfGroup
  <2>2. \A k, j \in A : f[k] = f[j] => k = j
    BY DEF OneToOne
  <2>3. \A i \in B : \E k \in A : f[k] = i
    BY DEF OfGroup
  <2> HIDE DEF f, A, B
  <2>4. f \in Injection(A, B)
    BY <2>1, <2>2 DEF Injection, IsInjective
  <2>5. f \in Surjection(A, B)
    BY <2>1, <2>3 DEF Surjection
  <2> QED
    BY <2>4, <2>5 DEF Bijection
<1>3. IsFiniteSet(A)
  <2>1. IsFiniteSet(1..m) /\ A \subseteq 1..m
    BY FS_Interval
  <2> HIDE DEF A
  <2> QED
    BY <2>1, FS_Subset
<1> HIDE DEF A, B, f, picks
<1>4. Cardinality(A) = Cardinality(B)
  <2>1. ExistsBijection(A, B)
    BY <1>2 DEF ExistsBijection
  <2> QED
    BY <1>3, <2>1, FS_Bijection
<1> QED
  BY <1>1, <1>4 DEF B, picks

(* The selection from a drawn list is fair.                                *)
LEMMA SelectionFair == SampleInv => SelectionIsFair
<1> SUFFICES ASSUME SampleInv, sample.of = "selection" PROVE SelectionIsFair
  BY DEF SelectionIsFair
<1> DEFINE s == sample.scored
           topK == sample.topK
           cap == sample.cap
<1>1. /\ Graded(s) /\ Falls(s) /\ \A i \in DOMAIN s : s[i].id = i
      /\ topK \in Nat \ {0} /\ cap \in Nat \ {0}
  BY DEF SampleInv
<1> HIDE DEF s, topK, cap
<1>2. PICK m \in 0..topK : \E e \in [1..m -> DOMAIN s] :
         /\ OneToOne(e) /\ Diversify(s, topK, cap) = [k \in 1..m |-> s[e[k]]]
         /\ FairPick(s, topK, cap, m, e)
  BY <1>1, SelectsFairly
<1>3. PICK e \in [1..m -> DOMAIN s] :
         /\ OneToOne(e) /\ Diversify(s, topK, cap) = [k \in 1..m |-> s[e[k]]]
         /\ FairPick(s, topK, cap, m, e)
  BY <1>2
<1>4. m \in Nat /\ m <= topK
  BY <1>1
<1>5. IsFiniteSet(DOMAIN s) /\ DOMAIN s = 1..Len(s) /\ Len(s) \in Nat
  BY <1>1, FS_Interval DEF Graded, List
<1> DEFINE picks == Diversify(s, topK, cap)
<1>6. DOMAIN picks = 1..m /\ Len(picks) = m /\ \A k \in 1..m : picks[k] = s[e[k]]
  BY <1>3, <1>4
<1> HIDE DEF picks
<1> DEFINE E == {e[k] : k \in 1..m}
<1>7. \A k \in 1..m : e[k] \in DOMAIN s /\ picks[k].id = e[k] /\ picks[k].p = s[e[k]].p
  BY <1>1, <1>6
<1>8. {picks[k].id : k \in DOMAIN picks} = E
  BY <1>6, <1>7
<1>9. \A g : CountOf(picks, g) = Cardinality(E \cap OfGroup(s, g))
  <2> SUFFICES ASSUME NEW g PROVE CountOf(picks, g) = Cardinality(E \cap OfGroup(s, g))
    OBVIOUS
  <2>1. picks = [k \in 1..m |-> s[e[k]]]
    BY <1>3 DEF picks
  <2>2. CountOf([k \in 1..m |-> s[e[k]]], g) = Cardinality({e[k] : k \in 1..m} \cap OfGroup(s, g))
    BY <1>3, <1>4, <1>5, CountIs
  <2> QED
    BY <2>1, <2>2
<1>10. /\ \A i, j \in 1..m : i < j => s[e[i]].p >= s[e[j]].p
       /\ Cardinality(GroupsOf(s)) <= topK => \A g \in GroupsOf(s) : FirstOf(s, g) \in E
       /\ \A g, h \in GroupsOf(s) : FirstOf(s, g) \in E /\ FirstOf(s, h) \notin E =>
            s[FirstOf(s, g)].p >= s[FirstOf(s, h)].p
       /\ Cardinality(GroupsOf(s)) = 1 \/ Len(s) > topK =>
            \A g \in GroupsOf(s) : Cardinality(E \cap OfGroup(s, g)) <= cap
       /\ m < topK => \A i \in DOMAIN s \ E : Cardinality(E \cap OfGroup(s, Group(s[i]))) >= cap
  BY <1>3 DEF FairPick
<1> HIDE DEF E
<1>11. \A i, j \in DOMAIN picks : i < j => picks[i].p >= picks[j].p /\ picks[i].id # picks[j].id
  <2> SUFFICES ASSUME NEW i \in 1..m, NEW j \in 1..m, i < j
               PROVE  picks[i].p >= picks[j].p /\ picks[i].id # picks[j].id
    BY <1>6
  <2>1. s[e[i]].p >= s[e[j]].p
    BY <1>10
  <2>2. e[i] # e[j]
    BY <1>3 DEF OneToOne
  <2> QED
    BY <1>7, <2>1, <2>2
<1>12. E \subseteq DOMAIN s
  BY <1>7 DEF E
<1>13. \A g \in GroupsOf(s) : CountOf(picks, g) = Cardinality(E \cap OfGroup(s, g))
  BY <1>9
<1>14. Cardinality(GroupsOf(s)) = 1 \/ Len(s) > topK => \A g \in GroupsOf(s) : CountOf(picks, g) <= cap
  BY <1>10, <1>13
<1>15. Len(picks) < topK => \A i \in DOMAIN s : i \notin E => CountOf(picks, Group(s[i])) >= cap
  <2> SUFFICES ASSUME m < topK, NEW i \in DOMAIN s, i \notin E
               PROVE  CountOf(picks, Group(s[i])) >= cap
    BY <1>6
  <2>1. Cardinality(E \cap OfGroup(s, Group(s[i]))) >= cap
    BY <1>10
  <2>2. CountOf(picks, Group(s[i])) = Cardinality(E \cap OfGroup(s, Group(s[i])))
    BY <1>9
  <2> QED
    BY <2>1, <2>2
<1> DEFINE ids == {picks[i].id : i \in DOMAIN picks}
<1>16. ids = E
  BY <1>8
<1> HIDE DEF ids
<1>17. /\ \A i, j \in DOMAIN picks : i < j => picks[i].p >= picks[j].p /\ picks[i].id # picks[j].id
       /\ ids \subseteq DOMAIN s /\ Len(picks) <= topK
       /\ Cardinality(GroupsOf(s)) <= topK => {FirstOf(s, g) : g \in GroupsOf(s)} \subseteq ids
       /\ \A g, h \in GroupsOf(s) : FirstOf(s, g) \in ids /\ FirstOf(s, h) \notin ids =>
            s[FirstOf(s, g)].p >= s[FirstOf(s, h)].p
       /\ Cardinality(GroupsOf(s)) = 1 \/ Len(s) > topK =>
            \A g \in GroupsOf(s) : CountOf(picks, g) <= cap
       /\ Len(picks) < topK => \A i \in DOMAIN s : i \notin ids => CountOf(picks, Group(s[i])) >= cap
  BY <1>4, <1>6, <1>10, <1>11, <1>12, <1>14, <1>15, <1>16
<1> QED
  BY <1>17, Zenon DEF SelectionIsFair, GroupsOf, FirstOf, ids, picks, s, topK, cap

(* The chunks of the documents that are wanted and there, document by      *)
(* document: where one is among them.                                      *)
FirstWanted(wanted, x) ==
  CHOOSE n \in DOMAIN wanted : wanted[n] = x /\ \A m \in 1..(n - 1) : wanted[m] # x
PlaceOf(wanted, x) == 4 * FirstWanted(wanted, x[1]) + x[2]
PlacesOf(wanted, held) ==
  {x \in (ToSet(wanted) \cap DOMAIN held) \X (1..4) : x[2] <= held[x[1]]}
InPlace(wanted, held) ==
  Ordered(PlacesOf(wanted, held),
          {r \in PlacesOf(wanted, held) \X PlacesOf(wanted, held) :
             PlaceOf(wanted, r[1]) < PlaceOf(wanted, r[2])})

(* Each document that is wanted has a first place.                         *)
LEMMA FirstWantedIs ==
  ASSUME NEW X, NEW wanted \in Seq(X), NEW x \in ToSet(wanted)
  PROVE  FirstWanted(wanted, x) \in DOMAIN wanted /\ wanted[FirstWanted(wanted, x)] = x
<1>1. DOMAIN wanted = 1..Len(wanted) /\ Len(wanted) \in Nat
  BY PlacesIn
<1> DEFINE S == {n \in DOMAIN wanted : wanted[n] = x}
<1>2. S \in SUBSET Nat /\ S # {}
  BY <1>1 DEF ToSet
<1> HIDE DEF S
<1>3. PICK m \in S : \A k \in S : m <= k
  BY <1>2, LeastNumber
<1>4. m \in DOMAIN wanted /\ wanted[m] = x /\ \A k \in 1..(m - 1) : wanted[k] # x
  <2>1. m \in DOMAIN wanted /\ wanted[m] = x
    BY DEF S
  <2>2. ASSUME NEW k \in 1..(m - 1), wanted[k] = x PROVE FALSE
    <3>1. k \in S
      BY <1>1, <2>1, <2>2 DEF S
    <3>2. m \in Int /\ m <= k
      BY <1>1, <1>3, <2>1, <3>1
    <3> QED
      BY <3>2
  <2> QED
    BY <2>1, <2>2
<1> QED
  BY <1>4 DEF FirstWanted

(* They are so many, one after the other, and each of what it is.          *)
LEMMA InPlaceIs ==
  ASSUME NEW X, NEW wanted \in Seq(X), NEW held, \A x \in DOMAIN held : held[x] \in 1..4
  PROVE  \E n \in Nat : /\ InPlace(wanted, held) \in [1..n -> PlacesOf(wanted, held)]
                        /\ OneToOne(InPlace(wanted, held))
<1> DEFINE P == PlacesOf(wanted, held)
           R == {r \in P \X P : PlaceOf(wanted, r[1]) < PlaceOf(wanted, r[2])}
<1>1. IsFiniteSet(P)
  <2>1. DOMAIN wanted = 1..Len(wanted) /\ IsFiniteSet(DOMAIN wanted)
    BY PlacesIn
  <2>2. IsFiniteSet(ToSet(wanted))
    <3> DEFINE f == [i \in DOMAIN wanted |-> wanted[i]]
    <3>1. f \in [DOMAIN wanted -> ToSet(wanted)]
      BY DEF ToSet
    <3>2. ToSet(wanted) = {f[i] : i \in DOMAIN wanted}
      BY DEF ToSet
    <3> HIDE DEF f
    <3>3. IsFiniteSet({f[i] : i \in DOMAIN wanted})
      BY <2>1, <3>1, ImageIsFinite
    <3> QED
      BY <3>2, <3>3
  <2> DEFINE A == ToSet(wanted) \cap DOMAIN held
  <2>3. IsFiniteSet(A)
    BY <2>2, FS_Subset
  <2>4. IsFiniteSet(1..4)
    <3>1. 1 \in Int /\ 4 \in Int
      OBVIOUS
    <3> QED
      BY <3>1, FS_Interval, Zenon
  <2>5. P \subseteq A \X (1..4)
    BY DEF PlacesOf
  <2> HIDE DEF A, P
  <2>6. IsFiniteSet(A \X (1..4))
    BY <2>3, <2>4, FS_Product
  <2> QED
    BY <2>5, <2>6, FS_Subset
<1>2. \A x \in P : /\ x[1] \in ToSet(wanted) /\ x[1] \in DOMAIN held
                   /\ x[2] \in 1..4 /\ x = <<x[1], x[2]>>
  BY DEF PlacesOf
<1> HIDE DEF P
<1>3. ASSUME NEW x \in P
      PROVE  /\ FirstWanted(wanted, x[1]) \in Nat /\ wanted[FirstWanted(wanted, x[1])] = x[1]
             /\ PlaceOf(wanted, x) = 4 * FirstWanted(wanted, x[1]) + x[2]
  <2>1. DOMAIN wanted = 1..Len(wanted) /\ Len(wanted) \in Nat
    BY PlacesIn
  <2>2. x[1] \in ToSet(wanted)
    BY <1>2
  <2>3. FirstWanted(wanted, x[1]) \in DOMAIN wanted /\ wanted[FirstWanted(wanted, x[1])] = x[1]
    BY <2>2, FirstWantedIs, Zenon
  <2>4. PlaceOf(wanted, x) = 4 * FirstWanted(wanted, x[1]) + x[2]
    BY DEF PlaceOf
  <2> QED
    BY <2>1, <2>3, <2>4
<1>4. \A x \in P : PlaceOf(wanted, x) \in Int
  <2> SUFFICES ASSUME NEW x \in P PROVE PlaceOf(wanted, x) \in Int
    OBVIOUS
  <2>1. PlaceOf(wanted, x) = 4 * FirstWanted(wanted, x[1]) + x[2] /\ x[2] \in 1..4
    BY <1>2, <1>3
  <2>2. FirstWanted(wanted, x[1]) \in Nat
    BY <1>3
  <2>3. \A a \in Nat, c \in 1..4 : 4 * a + c \in Int
    OBVIOUS
  <2> QED
    BY <2>1, <2>2, <2>3
<1>5. ASSUME NEW x \in P, NEW y \in P, PlaceOf(wanted, x) = PlaceOf(wanted, y) PROVE x = y
  <2>1. FirstWanted(wanted, x[1]) = FirstWanted(wanted, y[1]) /\ x[2] = y[2]
    <3>1. /\ 4 * FirstWanted(wanted, x[1]) + x[2] = 4 * FirstWanted(wanted, y[1]) + y[2]
          /\ FirstWanted(wanted, x[1]) \in Nat /\ FirstWanted(wanted, y[1]) \in Nat
          /\ x[2] \in 1..4 /\ y[2] \in 1..4
      BY <1>2, <1>3, <1>5
    <3>2. \A a, b \in Nat, c, d \in 1..4 : 4 * a + c = 4 * b + d => a = b /\ c = d
      OBVIOUS
    <3> QED
      BY <3>1, <3>2
  <2>2. x[1] = y[1]
    BY <1>3, <2>1
  <2> QED
    BY <1>2, <2>1, <2>2
<1>6. StrictOrder(P, R)
  <2>1. \A i, j \in P : <<i, j>> \in R <=> PlaceOf(wanted, i) < PlaceOf(wanted, j)
    OBVIOUS
  <2> HIDE DEF R
  <2>2. \A i \in P : <<i, i>> \notin R
    BY <1>4, <2>1
  <2>3. \A i, j, k \in P : <<i, j>> \in R /\ <<j, k>> \in R => <<i, k>> \in R
    BY <1>4, <2>1
  <2>4. \A i, j \in P : i # j => <<i, j>> \in R \/ <<j, i>> \in R
    BY <1>4, <1>5, <2>1
  <2> QED
    BY <2>2, <2>3, <2>4 DEF StrictOrder
<1>7. InPlace(wanted, held) = Ordered(P, R)
  BY DEF InPlace, P
<1> HIDE DEF R
<1>8. /\ Cardinality(P) \in Nat /\ Ordered(P, R) \in [1..Cardinality(P) -> P]
      /\ OneToOne(Ordered(P, R))
  BY <1>1, <1>6, OrderedIs
<1> QED
  BY <1>7, <1>8 DEF P

(* They are chunks of what is wanted and there, no more than there are.    *)
LEMMA InPlaceMade ==
  ASSUME NEW X, NEW wanted \in Seq(X), NEW held, \A x \in DOMAIN held : held[x] \in 1..4
  PROVE  LET mine == InPlace(wanted, held)
             s == [i \in DOMAIN mine |-> [id |-> i, src |-> mine[i][1], path |-> "", p |-> 50]]
         IN  Graded(s) /\ Falls(s) /\ MadeOf(s, wanted, held)
<1> DEFINE mine == InPlace(wanted, held)
           s == [i \in DOMAIN mine |-> [id |-> i, src |-> mine[i][1], path |-> "", p |-> 50]]
<1>1. PICK n \in Nat : mine \in [1..n -> PlacesOf(wanted, held)] /\ OneToOne(mine)
  BY InPlaceIs
<1> HIDE DEF mine
<1>2. \A i \in 1..n : /\ mine[i][1] \in ToSet(wanted) /\ mine[i][1] \in DOMAIN held
                      /\ mine[i][2] \in 1..4 /\ mine[i][2] <= held[mine[i][1]]
                      /\ mine[i] = <<mine[i][1], mine[i][2]>>
  <2>1. \A x \in PlacesOf(wanted, held) :
                      /\ x[1] \in ToSet(wanted) /\ x[1] \in DOMAIN held
                      /\ x[2] \in 1..4 /\ x[2] <= held[x[1]]
                      /\ x = <<x[1], x[2]>>
    BY DEF PlacesOf
  <2>2. \A i \in 1..n : mine[i] \in PlacesOf(wanted, held)
    BY <1>1
  <2> QED
    BY <2>1, <2>2, Zenon
<1>3. /\ DOMAIN s = 1..n /\ Len(s) = n
      /\ \A i \in 1..n : s[i].p = 50 /\ s[i].path = "" /\ s[i].src = mine[i][1]
  BY <1>1
<1>4. s = [i \in DOMAIN s |-> s[i]]
  OBVIOUS
<1> HIDE DEF s
<1>5. Graded(s) /\ Falls(s)
  <2>1. \A i \in DOMAIN s : s[i].p = 50
    BY <1>3
  <2>2. List(s)
    BY <1>3, <1>4 DEF List
  <2> QED
    BY <2>1, <2>2 DEF Graded, Falls
<1>6. ASSUME NEW i \in DOMAIN s
      PROVE  s[i].path = "" /\ s[i].src \in DOMAIN held /\ \E k \in DOMAIN wanted : wanted[k] = s[i].src
  <2>1. i \in 1..n
    BY <1>3
  <2>2. s[i].path = "" /\ s[i].src = mine[i][1]
    BY <1>3, <2>1
  <2>3. mine[i][1] \in ToSet(wanted) /\ mine[i][1] \in DOMAIN held
    BY <1>2, <2>1
  <2>4. \E k \in DOMAIN wanted : wanted[k] = mine[i][1]
    BY <2>3 DEF ToSet
  <2> QED
    BY <2>2, <2>3, <2>4
<1>7. ASSUME NEW x \in DOMAIN held PROVE Cardinality({i \in DOMAIN s : s[i].src = x}) <= held[x]
  <2> DEFINE A == {i \in DOMAIN s : s[i].src = x}
             f == [i \in A |-> mine[i][2]]
  <2>1. held[x] \in 1..4
    OBVIOUS
  <2>2. f \in [A -> 1..held[x]]
    <3> SUFFICES ASSUME NEW i \in A PROVE mine[i][2] \in 1..held[x]
      OBVIOUS
    <3>1. i \in 1..n /\ s[i].src = x
      BY <1>3
    <3>2. s[i].src = mine[i][1]
      BY <1>3, <3>1
    <3>3. mine[i][2] \in 1..4 /\ mine[i][2] <= held[mine[i][1]]
      BY <1>2, <3>1
    <3> QED
      BY <2>1, <3>1, <3>2, <3>3
  <2>3. \A i, j \in A : f[i] = f[j] => i = j
    <3> SUFFICES ASSUME NEW i \in A, NEW j \in A, f[i] = f[j] PROVE i = j
      OBVIOUS
    <3>0. i \in 1..n /\ j \in 1..n /\ s[i].src = x /\ s[j].src = x
      BY <1>3
    <3>1. mine[i][1] = mine[j][1] /\ mine[i][2] = mine[j][2]
      <4>1. s[i].src = mine[i][1] /\ s[j].src = mine[j][1]
        BY <1>3, <3>0
      <4> QED
        BY <3>0, <4>1
    <3>2. mine[i] = <<mine[i][1], mine[i][2]>> /\ mine[j] = <<mine[j][1], mine[j][2]>>
      BY <1>2, <3>0
    <3>3. mine[i] = mine[j]
      BY <3>1, <3>2, Zenon
    <3> QED
      BY <1>1, <3>0, <3>3 DEF OneToOne
  <2> HIDE DEF f, A
  <2>4. f \in Injection(A, 1..held[x])
    BY <2>2, <2>3 DEF Injection, IsInjective
  <2>5. IsFiniteSet(1..held[x]) /\ Cardinality(1..held[x]) = held[x]
    BY <2>1, FS_Interval
  <2>6. Cardinality(A) <= Cardinality(1..held[x])
    BY <2>4, <2>5, FS_Injection
  <2> QED
    BY <2>5, <2>6 DEF A
<1>8. MadeOf(s, wanted, held)
  BY <1>6, <1>7 DEF MadeOf
<1> QED
  BY <1>5, <1>8 DEF s, mine

(* An estimate is enough for what it prices.                               *)
LEMMA EstimateFair == SampleInv => EstimateHolds
<1> SUFFICES ASSUME SampleInv, sample.of = "estimate" PROVE EstimateHolds
  BY DEF EstimateHolds
<1> DEFINE wanted == sample.wanted
           stock == sample.held
           L == Limits(sample.depth)
           priced == Estimate(wanted, stock, sample.depth)
           mine == InPlace(wanted, stock)
           s == [i \in DOMAIN mine |-> [id |-> i, src |-> mine[i][1], path |-> "", p |-> 50]]
<1>1. wanted \in Seq({"a", "b", "c", "gone"}) /\ \A x \in DOMAIN stock : stock[x] \in 1..4
  BY DEF SampleInv
<1> HIDE DEF wanted, stock
<1>2. Graded(s) /\ Falls(s) /\ MadeOf(s, wanted, stock)
  BY <1>1, InPlaceMade
<1> HIDE DEF s
<1>3. \A x \in DOMAIN stock : stock[x] \in Nat
  BY <1>1
<1>4. /\ priced.dropped = {} /\ (Len(s) > L.topK \/ Cardinality(SourcesOf(s)) = 1)
                  => Len(Diversify(s, L.topK, L.cap)) <= priced.prompt
      /\ priced.prompt <= Least(priced.total, L.topK)
      /\ priced.missing = {wanted[i] : i \in DOMAIN wanted} \ DOMAIN stock
  BY <1>1, <1>2, <1>3, EstimatesEnough
<1> HIDE DEF L, priced
<1>5. ToSet(wanted) = {wanted[i] : i \in DOMAIN wanted}
  BY DEF ToSet
<1>6. priced.missing = ToSet(wanted) \ DOMAIN stock
  BY <1>4, <1>5
<1> QED
  BY <1>4, <1>6, Zenon DEF EstimateHolds, s, mine, InPlace, PlacesOf, PlaceOf, FirstWanted,
                          priced, L, wanted, stock

(* The markers of an answer that is drawn.                                 *)
LEMMA MarkersRight == SampleInv => MarkersPointRight
<1> SUFFICES ASSUME SampleInv, sample.of = "markers", sample.count > 0 PROVE MarkersPointRight
  BY DEF MarkersPointRight
<1> DEFINE answer == sample.answer
           count == sample.count
           parsed == ParseCitations(answer, count)
           words(pieces) == {i \in DOMAIN pieces : pieces[i].kind = "word"}
<1>1. answer \in Seq(Pieces) /\ count \in Nat \ {0}
  BY DEF SampleInv
<1>2. \A p \in Pieces : IsBracket(p) => p.numbers \in Seq(Nat)
  <2> SUFFICES ASSUME NEW p \in Pieces, IsBracket(p) PROVE p.numbers \in Seq(Nat)
    OBVIOUS
  <2>1. \E n \in {<<1>>, <<9>>, <<9, 2>>} : p.numbers = n
    BY DEF Pieces, IsBracket
  <2>2. <<1>> \in Seq(Nat) /\ <<9>> \in Seq(Nat) /\ <<9, 2>> \in Seq(Nat)
    OBVIOUS
  <2> QED
    BY <2>1, <2>2, Zenon
<1> HIDE DEF answer, count
<1>3. /\ Cardinality(words(parsed)) = Cardinality(words(answer))
      /\ \A i \in DOMAIN parsed : IsBracket(parsed[i]) =>
           \/ \A n \in DOMAIN parsed[i].numbers : parsed[i].numbers[n] \in 1..count
           \/ \E j \in DOMAIN answer : answer[j] = parsed[i] /\ GluedTo(answer, j)
  BY <1>1, <1>2, ParsesMarkers
<1> QED
  BY <1>3, Zenon DEF MarkersPointRight, answer, count

(* What was drawn stays such a sample.                                     *)
LEMMA SamplesStand == AllSpec => []SampleInv
<1>1. AllInit => SampleInv
  BY DEF AllInit, SampleInit, SampleInv, NoSample
<1>2. SampleInv /\ [AllNext]_<<side, vars, calling, sample>> => SampleInv'
  <2>1. ASSUME SampleInv, UNCHANGED sample PROVE SampleInv'
    <3> PICK d : d = sample
      OBVIOUS
    <3>1. sample = d /\ sample' = d
      BY <2>1
    <3> QED
      BY <2>1, <3>1 DEF SampleInv
  <2>2. ASSUME Drop PROVE SampleInv'
    BY <2>2 DEF Drop, SampleInv, NoSample
  <2> QED
    BY <2>1, <2>2, DrawnIs DEF AllNext, SampleNext
<1> QED
  BY <1>1, <1>2, PTL DEF AllSpec

(* Of fuse, _diversify and estimate_context, on any sample that is drawn.  *)
THEOREM RanksFairly == AllSpec => []RankingIsFair
<1>1. SampleInv => RankingIsFair
  BY FusionFair, SelectionFair, EstimateFair DEF RankingIsFair
<1> QED
  BY <1>1, SamplesStand, PTL

(* Of _format_context in every answer, and of parse_citations on any       *)
(* sample that is drawn.                                                   *)
THEOREM NumbersHold == AllSpec => []NumbersPointRight
<1>1. IInv /\ SampleInv => NumbersPointRight
  BY CitationsRight, MarkersRight DEF NumbersPointRight
<1> QED
  BY <1>1, QuestionStands, SamplesStand, PTL
=============================================================================
