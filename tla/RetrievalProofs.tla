---------------------------- MODULE RetrievalProofs ----------------------------
(***************************************************************************)
(* Fusion, the cut to the candidates, reranking and the scores, for        *)
(* collections and requests of any size.                                   *)
(*                                                                         *)
(* Two orders carry the proofs.  Sorting by a strict total order gives     *)
(* every thing one place, since the number of things before it is another  *)
(* for each (SortedOrders); and comparing sums of reciprocal ranks is      *)
(* transitive, so that fusion does sort by such an order (FusionIsOrder).  *)
(* What an answer gains is compared with the ideal along its ranks, by     *)
(* induction (GainsBounded).                                               *)
(***************************************************************************)
EXTENDS Retrieval, FiniteSetTheorems, WellFoundedInduction, TLAPS

-----------------------------------------------------------------------------
(* Orders as sequences. *)

\* In a sequence without repetitions every entry has one rank.
LEMMA Ranks ==
  ASSUME NEW S, NEW s \in Seq(S), IsInjective(s)
  PROVE  /\ \A x \in ToSet(s) : RankIn(x, s) \in 1 .. Len(s) /\ s[RankIn(x, s)] = x
         /\ \A i \in 1 .. Len(s) : s[i] \in ToSet(s) /\ RankIn(s[i], s) = i
         /\ ToSet(s) \subseteq S
         /\ IsFiniteSet(ToSet(s)) /\ Cardinality(ToSet(s)) = Len(s)
<1>1. DOMAIN s = 1 .. Len(s) /\ Len(s) \in Nat /\ s \in [1 .. Len(s) -> S]
  OBVIOUS
<1>2. \A x \in ToSet(s) : \E i \in 1 .. Len(s) : s[i] = x
  BY <1>1 DEF ToSet
<1>3. \A i \in 1 .. Len(s) : s[i] \in ToSet(s)
  BY <1>1 DEF ToSet
<1>4. \A i, j \in 1 .. Len(s) : s[i] = s[j] => i = j
  BY <1>1 DEF IsInjective
<1>5. \A x \in ToSet(s) : RankIn(x, s) \in 1 .. Len(s) /\ s[RankIn(x, s)] = x
  BY <1>1, <1>2 DEF RankIn
<1>6. \A i \in 1 .. Len(s) : RankIn(s[i], s) = i
  BY <1>3, <1>4, <1>5
<1>7. IsFiniteSet(ToSet(s)) /\ Cardinality(ToSet(s)) = Len(s)
  <2>1. IsFiniteSet(1 .. Len(s)) /\ Cardinality(1 .. Len(s)) = Len(s)
    BY <1>1, FS_Interval
  <2>2. s \in Surjection(1 .. Len(s), ToSet(s)) /\ s \in Injection(1 .. Len(s), ToSet(s))
    BY <1>1, <1>2, <1>3, <1>4 DEF Surjection, Injection, IsInjective
  <2>3. QED
    BY <2>1, <2>2, FS_Surjection
<1>8. ToSet(s) \subseteq S
  BY <1>1 DEF ToSet
<1>9. QED
  BY <1>3, <1>5, <1>6, <1>7, <1>8

\* The first n entries of such a sequence.
LEMMA PrefixOf ==
  ASSUME NEW S, NEW s \in Seq(S), IsInjective(s), NEW n \in Nat
  PROVE  /\ Prefix(s, n) \in Seq(S) /\ IsInjective(Prefix(s, n))
         /\ Len(Prefix(s, n)) = Smaller(n, Len(s))
         /\ Len(Prefix(s, n)) <= n /\ Len(Prefix(s, n)) <= Len(s)
         /\ \A i \in 1 .. Len(Prefix(s, n)) : Prefix(s, n)[i] = s[i]
         /\ ToSet(Prefix(s, n)) \subseteq ToSet(s)
<1> DEFINE m == Smaller(n, Len(s))
<1>1. m \in Nat /\ m <= n /\ m <= Len(s) /\ Len(s) \in Nat
  BY DEF Smaller
<1>2. Prefix(s, n) = [i \in 1 .. m |-> s[i]]
  <2> HIDE DEF m
  <2>1. SubSeq(s, 1, m) = [i \in 1 .. m |-> s[i]]
    BY <1>1
  <2>2. QED
    BY <2>1 DEF Prefix, m
<1> HIDE DEF m
<1>3. Prefix(s, n) \in Seq(S) /\ Len(Prefix(s, n)) = m /\ DOMAIN Prefix(s, n) = 1 .. m
      /\ DOMAIN s = 1 .. Len(s)
  BY <1>1, <1>2
<1>4. \A i \in 1 .. m : Prefix(s, n)[i] = s[i] /\ i \in 1 .. Len(s)
  BY <1>1, <1>2
<1>5. IsInjective(Prefix(s, n))
  BY <1>3, <1>4 DEF IsInjective
<1>6. ToSet(Prefix(s, n)) \subseteq ToSet(s)
  BY <1>3, <1>4 DEF ToSet
<1>7. Len(Prefix(s, n)) = Smaller(n, Len(s))
  BY <1>3 DEF m
<1>8. QED
  BY <1>1, <1>3, <1>4, <1>5, <1>6, <1>7

-----------------------------------------------------------------------------
(* Sorting. *)

StrictTotal(before, S) ==
  /\ \A x \in S : <<x, x>> \notin before
  /\ \A x, y \in S : x # y => <<x, y>> \in before \/ <<y, x>> \in before
  /\ \A x, y, z \in S : <<x, y>> \in before /\ <<y, z>> \in before => <<x, z>> \in before

\* Each thing has a number of things before it that is its own.
LEMMA PlacesDiffer ==
  ASSUME NEW S, IsFiniteSet(S), NEW R, StrictTotal(R, S),
         NEW place, place = [x \in S |-> Cardinality(Below(x, S, R))]
  PROVE  /\ \A x \in S : place[x] \in 0 .. Cardinality(S) - 1
         /\ \A x, y \in S : <<x, y>> \in R <=> place[x] < place[y]
<1>1. ASSUME NEW x \in S
      PROVE  /\ IsFiniteSet(Below(x, S, R)) /\ Cardinality(Below(x, S, R)) \in Nat
             /\ Below(x, S, R) \in SUBSET S /\ x \notin Below(x, S, R)
             /\ place[x] = Cardinality(Below(x, S, R))
  <2>1. Below(x, S, R) \in SUBSET S /\ x \notin Below(x, S, R)
    BY DEF Below, StrictTotal
  <2>2. IsFiniteSet(Below(x, S, R)) /\ Cardinality(Below(x, S, R)) \in Nat
    BY <2>1, FS_Subset, FS_CardinalityType
  <2>3. QED
    BY <2>1, <2>2
<1>2. Cardinality(S) \in Nat
  BY FS_CardinalityType
<1>3. ASSUME NEW x \in S PROVE place[x] < Cardinality(S)
  <2>1. Below(x, S, R) \in SUBSET S /\ Below(x, S, R) # S
    BY <1>1
  <2>2. Cardinality(Below(x, S, R)) <= Cardinality(S) /\ Cardinality(Below(x, S, R)) # Cardinality(S)
    BY <2>1, FS_Subset
  <2>3. QED
    BY <1>1, <1>2, <2>2
<1>4. ASSUME NEW x \in S, NEW y \in S, <<x, y>> \in R PROVE place[x] < place[y]
  <2>1. Below(x, S, R) \in SUBSET Below(y, S, R) /\ Below(x, S, R) # Below(y, S, R)
    <3>1. x \in Below(y, S, R)
      BY <1>4 DEF Below
    <3>2. Below(x, S, R) \in SUBSET Below(y, S, R)
      BY <1>4 DEF Below, StrictTotal
    <3>3. QED
      BY <1>1, <3>1, <3>2
  <2>2. Cardinality(Below(x, S, R)) <= Cardinality(Below(y, S, R))
        /\ Cardinality(Below(x, S, R)) # Cardinality(Below(y, S, R))
    BY <1>1, <2>1, FS_Subset
  <2>3. QED
    BY <1>1, <2>2
<1>5. ASSUME NEW x \in S, NEW y \in S, place[x] < place[y] PROVE <<x, y>> \in R
  <2>1. place[x] \in Nat /\ place[y] \in Nat
    BY <1>1
  <2>2. x # y /\ ~(place[y] < place[x])
    BY <1>5, <2>1
  <2>3. QED
    BY <1>4, <2>2 DEF StrictTotal
<1>6. \A x \in S : place[x] \in 0 .. Cardinality(S) - 1
  <2> SUFFICES ASSUME NEW x \in S PROVE place[x] \in 0 .. Cardinality(S) - 1
    OBVIOUS
  <2>1. place[x] \in Nat
    BY <1>1
  <2>2. QED
    BY <1>2, <1>3, <2>1
<1>7. QED
  BY <1>4, <1>5, <1>6

\* Sorted is the order of the relation: it has every thing once.
LEMMA SortedOrders ==
  ASSUME NEW S, IsFiniteSet(S), NEW R, StrictTotal(R, S)
  PROVE  /\ Sorted(S, R) \in Seq(S) /\ Len(Sorted(S, R)) = Cardinality(S)
         /\ Cardinality(S) \in Nat
         /\ IsInjective(Sorted(S, R)) /\ ToSet(Sorted(S, R)) = S
         /\ \A i, j \in 1 .. Cardinality(S) :
              i < j <=> <<Sorted(S, R)[i], Sorted(S, R)[j]>> \in R
<1> DEFINE n == Cardinality(S)
           place == [x \in S |-> Cardinality(Below(x, S, R))]
<1>1. /\ \A x \in S : place[x] \in 0 .. n - 1
      /\ \A x, y \in S : <<x, y>> \in R <=> place[x] < place[y]
  BY PlacesDiffer
<1>2. n \in Nat
  BY FS_CardinalityType
<1>3. Sorted(S, R) = [i \in 1 .. n |-> CHOOSE x \in S : Cardinality(Below(x, S, R)) = i - 1]
  BY DEF Sorted
<1>0. \A x \in S : place[x] = Cardinality(Below(x, S, R))
  OBVIOUS
<1> HIDE DEF place, n
<1>4. \A x, y \in S : place[x] = place[y] => x = y
  <2> SUFFICES ASSUME NEW x \in S, NEW y \in S, place[x] = place[y], x # y PROVE FALSE
    OBVIOUS
  <2>1. place[x] < place[y] \/ place[y] < place[x]
    BY <1>1 DEF StrictTotal
  <2>2. QED
    BY <1>1, <2>1
<1>5. \A k \in 0 .. n - 1 : \E x \in S : place[x] = k
  <2>1. IsFiniteSet(0 .. n - 1) /\ Cardinality(0 .. n - 1) = n
    BY <1>2, FS_Interval
  <2>2. place \in Injection(S, 0 .. n - 1)
    <3>1. place \in [S -> 0 .. n - 1]
      BY <1>1 DEF place
    <3>2. QED
      BY <1>4, <3>1 DEF Injection, IsInjective
  <2>3. place \in Surjection(S, 0 .. n - 1)
    BY <2>1, <2>2, FS_Injection DEF n
  <2>4. QED
    BY <2>3 DEF Surjection
<1> DEFINE s == Sorted(S, R)
<1>6. \A i \in 1 .. n : s[i] \in S /\ place[s[i]] = i - 1
  <2> SUFFICES ASSUME NEW i \in 1 .. n PROVE s[i] \in S /\ place[s[i]] = i - 1
    OBVIOUS
  <2>1. i - 1 \in 0 .. n - 1
    BY <1>2
  <2>2. s[i] = CHOOSE x \in S : Cardinality(Below(x, S, R)) = i - 1
    BY <1>3
  <2>3. \E x \in S : Cardinality(Below(x, S, R)) = i - 1
    BY <1>0, <1>5, <2>1
  <2>4. QED
    BY <1>0, <2>2, <2>3
<1>7. s \in Seq(S) /\ Len(s) = n /\ DOMAIN s = 1 .. n
  BY <1>2, <1>3, <1>6
<1> HIDE DEF s
<1>8. IsInjective(s)
  <2>1. \A i, j \in 1 .. n : s[i] = s[j] => i = j
    BY <1>2, <1>6
  <2>2. QED
    BY <1>7, <2>1 DEF IsInjective
<1>9. ToSet(s) = S
  <2>1. ASSUME NEW x \in S PROVE \E i \in 1 .. n : s[i] = x
    <3>1. place[x] + 1 \in 1 .. n
      BY <1>1, <1>2
    <3>2. place[s[place[x] + 1]] = place[x] /\ s[place[x] + 1] \in S
      BY <1>1, <1>2, <1>6, <3>1
    <3>3. QED
      BY <1>4, <3>1, <3>2
  <2>2. QED
    BY <1>6, <1>7, <2>1 DEF ToSet
<1>10. \A i, j \in 1 .. n : i < j <=> <<s[i], s[j]>> \in R
  <2> SUFFICES ASSUME NEW i \in 1 .. n, NEW j \in 1 .. n PROVE i < j <=> <<s[i], s[j]>> \in R
    OBVIOUS
  <2>1. i < j <=> place[s[i]] < place[s[j]]
    BY <1>2, <1>6
  <2>2. QED
    BY <1>1, <1>6, <2>1
<1>11. QED
  BY <1>2, <1>7, <1>8, <1>9, <1>10 DEF n, s

-----------------------------------------------------------------------------
(* Fusion. *)

IsFraction(s) == s[1] \in Nat \ {0} /\ s[2] \in Nat \ {0}

LEMMA Products ==
  ASSUME NEW a \in Nat, NEW b \in Nat, NEW c \in Nat
  PROVE  /\ a * b \in Nat /\ a * b = b * a /\ a * (b + c) = a * b + a * c /\ (a * b) * c = a * (b * c)
         /\ a <= b => a * c <= b * c
         /\ a < b /\ c > 0 => a * c < b * c
         /\ a * c <= b * c /\ c > 0 => a <= b
         /\ a > 0 /\ b > 0 => a * b > 0
<1>1. a * b \in Nat /\ a * b = b * a /\ a * (b + c) = a * b + a * c /\ (a * b) * c = a * (b * c)
  OBVIOUS
<1>2. a <= b => a * c <= b * c
  OBVIOUS
<1>3. a < b /\ c > 0 => a * c < b * c
  OBVIOUS
<1>4. a * c <= b * c /\ c > 0 => a <= b
  <2>1. b < a /\ c > 0 => b * c < a * c
    OBVIOUS
  <2>2. a * c \in Nat /\ b * c \in Nat
    OBVIOUS
  <2>3. QED
    BY <2>1, <2>2
<1>5. a > 0 /\ b > 0 => a * b > 0
  OBVIOUS
<1>6. QED
  BY <1>1, <1>2, <1>3, <1>4, <1>5

\* A fraction is higher than another or not, and not being higher is transitive.
LEMMA NotHigherTransitive ==
  ASSUME NEW s, NEW t, NEW u, IsFraction(s), IsFraction(t), IsFraction(u),
         ~Higher(t, s), ~Higher(u, t)
  PROVE  ~Higher(u, s)
<1> DEFINE a == s[1]  b == s[2]  c == t[1]  d == t[2]  e == u[1]  f == u[2]
<1>1. a \in Nat /\ b \in Nat /\ c \in Nat /\ d \in Nat /\ e \in Nat /\ f \in Nat /\ d > 0
  BY DEF IsFraction
<1>2. c * b \in Nat /\ a * d \in Nat /\ e * d \in Nat /\ c * f \in Nat /\ e * b \in Nat /\ a * f \in Nat
  BY <1>1, Products
<1>3. c * b <= a * d /\ e * d <= c * f
  BY <1>2 DEF Higher
<1>4. (e * b <= a * f) => ~Higher(u, s)
  BY <1>2 DEF Higher
<1> HIDE DEF a, b, c, d, e, f
<1>5. (e * d) * b <= (c * f) * b /\ (c * b) * f <= (a * d) * f
  BY <1>1, <1>2, <1>3, Products
<1>6. (e * d) * b = (e * b) * d /\ (c * f) * b = (c * b) * f /\ (a * d) * f = (a * f) * d
  BY <1>1
<1>7. (e * b) * d <= (a * f) * d
  <2>1. (e * d) * b \in Nat /\ (c * b) * f \in Nat /\ (a * d) * f \in Nat
    BY <1>1, <1>2, Products
  <2>2. QED
    BY <1>5, <1>6, <2>1
<1>8. e * b <= a * f
  BY <1>1, <1>2, <1>7, Products
<1>9. QED
  BY <1>4, <1>8

LEMMA HigherAsymmetric ==
  ASSUME NEW s, NEW t, IsFraction(s), IsFraction(t), Higher(s, t)
  PROVE  ~Higher(t, s)
<1>1. s[1] * t[2] \in Nat /\ t[1] * s[2] \in Nat
  BY Products DEF IsFraction
<1>2. QED
  BY <1>1 DEF Higher

\* The two orders of a hybrid search.
Orders(dense, sparse) ==
  /\ dense \in Seq(Chunks) /\ IsInjective(dense)
  /\ sparse \in Seq(Chunks) /\ IsInjective(sparse)
  /\ ToSet(sparse) \subseteq ToSet(dense)

LEMMA ScoreIsFraction ==
  ASSUME NEW dense, NEW sparse, Orders(dense, sparse), NEW x \in ToSet(dense)
  PROVE  IsFraction(RrfScore(x, dense, sparse))
<1> DEFINE a == RrfK + RankIn(x, dense)
           b == RrfK + RankIn(x, sparse)
<1>1. a \in Nat \ {0} /\ RankIn(x, dense) \in Nat
  BY Ranks, DepthAssumption DEF Orders
<1>2. CASE x \in ToSet(sparse)
  <2>1. b \in Nat \ {0}
    BY <1>2, Ranks, DepthAssumption DEF Orders
  <2>2. RrfScore(x, dense, sparse) = <<a + b, a * b>>
    BY <1>2 DEF RrfScore, Fraction
  <2> HIDE DEF a, b
  <2>3. a + b \in Nat \ {0} /\ a * b \in Nat \ {0}
    BY <1>1, <2>1, Products
  <2>4. QED
    BY <2>2, <2>3 DEF IsFraction
<1>3. CASE x \notin ToSet(sparse)
  BY <1>1, <1>3 DEF RrfScore, Fraction, IsFraction
<1>4. QED
  BY <1>2, <1>3

\* Fusion sorts by a strict total order.
LEMMA FusionIsOrder ==
  ASSUME NEW dense, NEW sparse, Orders(dense, sparse)
  PROVE  StrictTotal({p \in ToSet(dense) \X ToSet(dense) : Outranks(p[1], p[2], dense, sparse)},
                     ToSet(dense))
<1> DEFINE D == ToSet(dense)
           R == {p \in D \X D : Outranks(p[1], p[2], dense, sparse)}
           sc == [x \in D |-> RrfScore(x, dense, sparse)]
           rk == [x \in D |-> RankIn(x, dense)]
<1>1. \A x, y \in D :
        <<x, y>> \in R <=> Higher(sc[x], sc[y]) \/ (~Higher(sc[y], sc[x]) /\ rk[x] < rk[y])
  BY DEF Outranks
<1>2. \A x \in D : IsFraction(sc[x])
  BY ScoreIsFraction
<1>3. (\A x \in D : rk[x] \in Nat) /\ \A x, y \in D : rk[x] = rk[y] => x = y
  BY Ranks DEF Orders
<1> HIDE DEF D, R, sc, rk
<1>4. \A x, y \in D : Higher(sc[x], sc[y]) => ~Higher(sc[y], sc[x])
  BY <1>2, HigherAsymmetric
<1>5. \A x, y, z \in D : ~Higher(sc[y], sc[x]) /\ ~Higher(sc[z], sc[y]) => ~Higher(sc[z], sc[x])
  BY <1>2, NotHigherTransitive
<1>6. \A x \in D : <<x, x>> \notin R
  BY <1>1, <1>3, <1>4
<1>7. \A x, y \in D : x # y => <<x, y>> \in R \/ <<y, x>> \in R
  <2> SUFFICES ASSUME NEW x \in D, NEW y \in D, x # y PROVE <<x, y>> \in R \/ <<y, x>> \in R
    OBVIOUS
  <2>1. rk[x] < rk[y] \/ rk[y] < rk[x]
    BY <1>3
  <2>2. QED
    BY <1>1, <2>1
<1>8. ASSUME NEW x \in D, NEW y \in D, NEW z \in D, <<x, y>> \in R, <<y, z>> \in R
      PROVE  <<x, z>> \in R
  <2>1. ~Higher(sc[y], sc[x]) /\ ~Higher(sc[z], sc[y])
    BY <1>1, <1>4, <1>8
  <2>2. ~Higher(sc[z], sc[x])
    BY <1>5, <2>1
  <2>3. CASE Higher(sc[x], sc[z])
    BY <1>1, <2>3
  <2>4. CASE ~Higher(sc[x], sc[z])
    <3>1. ~Higher(sc[x], sc[y]) /\ ~Higher(sc[y], sc[z])
      BY <1>5, <2>1, <2>4
    <3>2. rk[x] < rk[y] /\ rk[y] < rk[z]
      BY <1>1, <1>8, <3>1
    <3>3. rk[x] < rk[z]
      BY <1>3, <3>2
    <3>4. QED
      BY <1>1, <2>2, <3>3
  <2>5. QED
    BY <2>3, <2>4
<1>9. StrictTotal(R, D)
  BY <1>6, <1>7, <1>8 DEF StrictTotal
<1>10. QED
  BY <1>9 DEF R, D

\* What both orders rank above, fusion does.
LEMMA AboveInBoth ==
  ASSUME NEW dense, NEW sparse, Orders(dense, sparse),
         NEW x \in ToSet(dense), NEW y \in ToSet(dense),
         Above(x, y, dense), Above(x, y, sparse)
  PROVE  Outranks(x, y, dense, sparse)
<1> DEFINE a == RrfK + RankIn(x, dense)   b == RrfK + RankIn(x, sparse)
           c == RrfK + RankIn(y, dense)   d == RrfK + RankIn(y, sparse)
           s == RrfScore(x, dense, sparse) t == RrfScore(y, dense, sparse)
<1>1. a \in Nat \ {0} /\ b \in Nat \ {0} /\ c \in Nat \ {0} /\ a < c
      /\ x \in ToSet(sparse)
  BY Ranks, DepthAssumption DEF Orders, Above
<1>2. s = <<a + b, a * b>>
  BY <1>1 DEF RrfScore, Fraction
<1>3. Higher(s, t)
  <2>1. CASE y \in ToSet(sparse)
    <3>1. d \in Nat \ {0} /\ b < d
      BY <2>1, Ranks, DepthAssumption DEF Orders, Above
    <3>2. t = <<c + d, c * d>>
      BY <2>1 DEF RrfScore, Fraction
    <3>3. Higher(s, t) <=> (a + b) * (c * d) > (c + d) * (a * b)
      BY <1>2, <3>2 DEF Higher
    <3> HIDE DEF a, b, c, d, s, t
    <3>4. /\ (a + b) * (c * d) = (a * c) * d + (b * d) * c
          /\ (c + d) * (a * b) = (a * c) * b + (b * d) * a
      BY <1>1, <3>1
    <3>5. a * c \in Nat /\ a * c > 0 /\ b * d \in Nat /\ b * d > 0
      BY <1>1, <3>1, Products
    <3>6. b * (a * c) < d * (a * c) /\ a * (b * d) < c * (b * d)
      BY <1>1, <3>1, <3>5, Products
    <3>7. /\ b * (a * c) = (a * c) * b /\ d * (a * c) = (a * c) * d
          /\ a * (b * d) = (b * d) * a /\ c * (b * d) = (b * d) * c
      BY <1>1, <3>1, <3>5, Products
    <3>8. (a * c) * b \in Nat /\ (a * c) * d \in Nat /\ (b * d) * a \in Nat /\ (b * d) * c \in Nat
      BY <1>1, <3>1, <3>5, Products
    <3>9. QED
      BY <3>3, <3>4, <3>6, <3>7, <3>8
  <2>2. CASE y \notin ToSet(sparse)
    <3>1. t = <<1, c>>
      BY <2>2 DEF RrfScore, Fraction
    <3>2. Higher(s, t) <=> (a + b) * c > 1 * (a * b)
      BY <1>2, <3>1 DEF Higher
    <3> HIDE DEF a, b, c, d, s, t
    <3>3. (a + b) * c = a * c + c * b /\ 1 * (a * b) = a * b
      BY <1>1
    <3>4. a * b < c * b /\ a * c \in Nat /\ a * b \in Nat /\ c * b \in Nat
      BY <1>1, Products
    <3>5. QED
      BY <3>2, <3>3, <3>4
  <2>3. QED
    BY <2>1, <2>2
<1>4. QED
  BY <1>3 DEF Outranks

-----------------------------------------------------------------------------
(* Scores. *)

\* A set of naturals that is not empty has a least member.
LEMMA Least == ASSUME NEW S \in SUBSET Nat, S # {} PROVE \E m \in S : \A n \in S : m <= n
<1>1. PICK R : IsWellFoundedOn(R, Nat) /\ \A x, y \in Nat : <<y, x>> \in R <=> y < x
  <2>1. IsWellFoundedOn(OpToRel(<, Nat), Nat)
    BY NatLessThanWellFounded
  <2>2. \A x, y \in Nat : <<y, x>> \in OpToRel(<, Nat) <=> y < x
    BY DEF OpToRel
  <2>3. QED
    BY <2>1, <2>2
<1>2. PICK x \in S : \A y \in S : ~(<<y, x>> \in R)
  BY <1>1, WFMin
<1>3. \A y \in S : ~(y < x)
  BY <1>1, <1>2
<1>4. QED
  BY <1>2, <1>3

\* Induction, for a property given as the set of the numbers that have it.
LEMMA Induction ==
  ASSUME NEW N \in Nat, NEW G, 0 \in G, \A n \in 1 .. N : n - 1 \in G => n \in G
  PROVE  \A n \in 0 .. N : n \in G
<1> DEFINE B == {n \in 0 .. N : n \notin G}
<1> SUFFICES ASSUME B # {} PROVE FALSE
  OBVIOUS
<1>1. PICK m \in B : \A n \in B : m <= n
  <2>1. B \in SUBSET Nat
    OBVIOUS
  <2> HIDE DEF B
  <2>2. QED
    BY <2>1, Least
<1>2. m \in 1 .. N /\ m - 1 \in 0 .. N /\ m - 1 < m
  BY <1>1
<1>3. m - 1 \in G
  BY <1>1, <1>2
<1>4. QED
  BY <1>1, <1>2, <1>3

\* One step of the sum.
GainAt(S, i) == IF i \in S THEN Gain[i] ELSE 0

\* The recursive definition of the gains has a solution, ...
LEMMA GainsExist ==
  ASSUME NEW S, NEW n \in Nat, n <= Len(Gain)
  PROVE  \E f : f = [i \in 0 .. n |-> IF i = 0 THEN 0 ELSE f[i - 1] + (IF i \in S THEN Gain[i] ELSE 0)]
<1> DEFINE IsSum(f, m) ==
             f = [i \in 0 .. m |-> IF i = 0 THEN 0 ELSE f[i - 1] + (IF i \in S THEN Gain[i] ELSE 0)]
           G == {m \in 0 .. n : \E f : IsSum(f, m)}
<1>1. 0 \in G
  <2> DEFINE f == [i \in 0 .. 0 |-> 0]
  <2>1. IsSum(f, 0)
    OBVIOUS
  <2> HIDE DEF f, IsSum
  <2>2. QED
    BY <2>1
<1>2. ASSUME NEW m \in 1 .. n, m - 1 \in G PROVE m \in G
  <2>1. PICK f : IsSum(f, m - 1)
    BY <1>2
  <2> DEFINE g == [i \in 0 .. m |-> IF i = m THEN f[m - 1] + (IF m \in S THEN Gain[m] ELSE 0) ELSE f[i]]
  <2>2. ASSUME NEW i \in 0 .. m
        PROVE  g[i] = IF i = 0 THEN 0 ELSE g[i - 1] + (IF i \in S THEN Gain[i] ELSE 0)
    <3>1. CASE i = m
      BY <3>1
    <3>2. CASE i # m
      <4>1. i \in 0 .. m - 1 /\ (i # 0 => i - 1 \in 0 .. m /\ i - 1 # m)
        BY <3>2
      <4>2. f[i] = IF i = 0 THEN 0 ELSE f[i - 1] + (IF i \in S THEN Gain[i] ELSE 0)
        BY <2>1, <4>1
      <4>3. QED
        BY <3>2, <4>1, <4>2
    <3>3. QED
      BY <3>1, <3>2
  <2>3. IsSum(g, m)
    BY <2>2
  <2> HIDE DEF g, IsSum
  <2>4. QED
    BY <2>3
<1>3. n \in G
  <2> HIDE DEF G
  <2>1. QED
    BY <1>1, <1>2, Induction
<1>4. QED
  BY <1>3

\* ... which is what GainTo is: it starts at 0, and each rank of S adds its gain.
LEMMA GainsDef ==
  ASSUME NEW S, NEW n \in Nat, n <= Len(Gain)
  PROVE  /\ GainTo(S, n)[0] = 0
         /\ \A i \in 1 .. n : GainTo(S, n)[i] = GainTo(S, n)[i - 1] + GainAt(S, i)
         /\ \A i \in 0 .. n : GainTo(S, n)[i] \in Nat
<1>1. GainTo(S, n) =
        [i \in 0 .. n |-> IF i = 0 THEN 0
                          ELSE GainTo(S, n)[i - 1] + (IF i \in S THEN Gain[i] ELSE 0)]
  BY GainsExist DEF GainTo
<1>2. \A i \in 0 .. n : GainTo(S, n)[i] = IF i = 0 THEN 0 ELSE GainTo(S, n)[i - 1] + GainAt(S, i)
  BY <1>1 DEF GainAt
<1>3. GainTo(S, n)[0] = 0 /\ \A i \in 1 .. n : GainTo(S, n)[i] = GainTo(S, n)[i - 1] + GainAt(S, i)
  BY <1>2
<1>4. \A i \in 0 .. n : GainTo(S, n)[i] \in Nat
  <2> DEFINE G == {i \in 0 .. n : GainTo(S, n)[i] \in Nat}
  <2>1. 0 \in G
    BY <1>3
  <2>2. ASSUME NEW i \in 1 .. n, i - 1 \in G PROVE i \in G
    <3>1. GainAt(S, i) \in Nat
      BY GainAssumption DEF GainAt
    <3>2. QED
      BY <1>3, <2>2, <3>1
  <2> HIDE DEF G
  <2>3. \A i \in 0 .. n : i \in G
    BY <2>1, <2>2, Induction
  <2>4. QED
    BY <2>3 DEF G
<1>5. QED
  BY <1>3, <1>4

\* Gains are positive, and a lower rank gains less.
LEMMA GainsFall ==
  /\ \A i \in 1 .. Len(Gain) : Gain[i] \in Nat \ {0}
  /\ \A j \in 1 .. Len(Gain) : \A i \in 1 .. j : Gain[j] <= Gain[i] /\ (i # j => Gain[j] < Gain[i])
<1>1. \A i \in 1 .. Len(Gain) : Gain[i] \in Nat \ {0}
  BY GainAssumption
<1>2. Len(Gain) \in Nat
  BY GainAssumption
<1> DEFINE G == {j \in 0 .. Len(Gain) : \A i \in 1 .. j : i # j => Gain[j] < Gain[i]}
<1>3. 0 \in G
  BY <1>2
<1>4. ASSUME NEW j \in 1 .. Len(Gain), j - 1 \in G PROVE j \in G
  <2> SUFFICES ASSUME NEW i \in 1 .. j, i # j PROVE Gain[j] < Gain[i]
    BY <1>2
  <2>1. j \in 2 .. Len(Gain) /\ j - 1 \in 1 .. Len(Gain) /\ i \in 1 .. j - 1 /\ i \in 1 .. Len(Gain)
    BY <1>2
  <2>2. Gain[j] < Gain[j - 1]
    BY <2>1, GainAssumption
  <2>3. i # j - 1 => Gain[j - 1] < Gain[i]
    BY <1>4, <2>1
  <2>4. Gain[i] \in Nat /\ Gain[j] \in Nat /\ Gain[j - 1] \in Nat
    BY <1>1, <2>1
  <2>5. QED
    BY <2>2, <2>3, <2>4
<1> HIDE DEF G
<1>5. \A j \in 0 .. Len(Gain) : j \in G
  BY <1>2, <1>3, <1>4, Induction
<1>6. \A j \in 1 .. Len(Gain) : \A i \in 1 .. j : i # j => Gain[j] < Gain[i]
  BY <1>5 DEF G
<1>7. \A j \in 1 .. Len(Gain) : \A i \in 1 .. j : Gain[j] <= Gain[i]
  <2> SUFFICES ASSUME NEW j \in 1 .. Len(Gain), NEW i \in 1 .. j PROVE Gain[j] <= Gain[i]
    OBVIOUS
  <2>1. i \in 1 .. Len(Gain) /\ Gain[i] \in Nat /\ Gain[j] \in Nat
    BY <1>1, <1>2
  <2>2. QED
    BY <1>6, <2>1
<1>8. QED
  BY <1>1, <1>6, <1>7

\* What the first ranks gain if all of them are relevant.
Best == GainTo(Nat, Len(Gain))

LEMMA BestGains ==
  /\ Len(Gain) \in Nat /\ Best[0] = 0
  /\ \A i \in 1 .. Len(Gain) : Best[i] = Best[i - 1] + Gain[i]
  /\ \A i \in 0 .. Len(Gain) : Best[i] \in Nat
  /\ \A j \in 0 .. Len(Gain) : \A i \in 0 .. j : i # j => Best[i] < Best[j]
<1>1. Len(Gain) \in Nat
  BY GainAssumption
<1>2. /\ Best[0] = 0
      /\ \A i \in 1 .. Len(Gain) : Best[i] = Best[i - 1] + GainAt(Nat, i)
      /\ \A i \in 0 .. Len(Gain) : Best[i] \in Nat
  BY <1>1, GainsDef DEF Best
<1>3. \A i \in 1 .. Len(Gain) : Best[i] = Best[i - 1] + Gain[i] /\ Gain[i] \in Nat \ {0}
  BY <1>1, <1>2, GainsFall DEF GainAt
<1> DEFINE G == {j \in 0 .. Len(Gain) : \A i \in 0 .. j : i # j => Best[i] < Best[j]}
<1>4. 0 \in G
  BY <1>1
<1>5. ASSUME NEW j \in 1 .. Len(Gain), j - 1 \in G PROVE j \in G
  <2> SUFFICES ASSUME NEW i \in 0 .. j, i # j PROVE Best[i] < Best[j]
    BY <1>1
  <2>1. i \in 0 .. j - 1 /\ j - 1 \in 0 .. Len(Gain) /\ i \in 0 .. Len(Gain) /\ j \in 0 .. Len(Gain)
    BY <1>1
  <2>2. i # j - 1 => Best[i] < Best[j - 1]
    BY <1>5, <2>1
  <2>3. Best[j] = Best[j - 1] + Gain[j] /\ Gain[j] \in Nat /\ Gain[j] > 0
    BY <1>3
  <2>4. Best[i] \in Nat /\ Best[j] \in Nat /\ Best[j - 1] \in Nat
    BY <1>2, <2>1
  <2>5. QED
    BY <2>2, <2>3, <2>4
<1> HIDE DEF G
<1>6. \A j \in 0 .. Len(Gain) : j \in G
  BY <1>1, <1>4, <1>5, Induction
<1>7. \A j \in 0 .. Len(Gain) : \A i \in 0 .. j : i # j => Best[i] < Best[j]
  BY <1>6 DEF G
<1>8. QED
  BY <1>1, <1>2, <1>3, <1>7

\* The ideal answer gains that.
LEMMA IdealIsBest ==
  ASSUME NEW m \in Nat, m <= Len(Gain) PROVE GainTo(1 .. m, m)[m] = Best[m]
<1> DEFINE G == {i \in 0 .. m : GainTo(1 .. m, m)[i] = Best[i]}
<1>1. 0 \in G
  BY GainsDef, BestGains
<1>2. ASSUME NEW i \in 1 .. m, i - 1 \in G PROVE i \in G
  <2>1. i \in 1 .. Len(Gain) /\ GainAt(1 .. m, i) = Gain[i]
    BY BestGains DEF GainAt
  <2>2. GainTo(1 .. m, m)[i] = GainTo(1 .. m, m)[i - 1] + Gain[i]
    BY <2>1, GainsDef
  <2>3. Best[i] = Best[i - 1] + Gain[i]
    BY <2>1, BestGains
  <2>4. QED
    BY <1>2, <2>2, <2>3
<1> HIDE DEF G
<1>3. \A i \in 0 .. m : i \in G
  BY <1>1, <1>2, Induction
<1>4. m \in 0 .. m
  OBVIOUS
<1>5. QED
  BY <1>3, <1>4 DEF G

UpTo(S, i)  == S \cap (1 .. i)
Count(S, i) == Cardinality(UpTo(S, i))

\* Among i ranks there are i members of S at most.
LEMMA Counts ==
  ASSUME NEW n \in Nat, NEW S \in SUBSET (1 .. n), NEW i \in 0 .. n
  PROVE  IsFiniteSet(UpTo(S, i)) /\ Count(S, i) \in 0 .. i
<1>1. IsFiniteSet(1 .. i) /\ Cardinality(1 .. i) = i
  BY FS_Interval
<1>2. UpTo(S, i) \in SUBSET (1 .. i)
  BY DEF UpTo
<1>3. IsFiniteSet(UpTo(S, i)) /\ Cardinality(UpTo(S, i)) <= i /\ Cardinality(UpTo(S, i)) \in Nat
  BY <1>1, <1>2, FS_Subset, FS_CardinalityType
<1>4. QED
  BY <1>3 DEF Count

LEMMA CountEnds ==
  ASSUME NEW n \in Nat, NEW S \in SUBSET (1 .. n)
  PROVE  Count(S, 0) = 0 /\ UpTo(S, 0) = {} /\ UpTo(S, n) = S
<1>1. UpTo(S, 0) = {}
  BY DEF UpTo
<1>2. UpTo(S, n) = S
  BY DEF UpTo
<1>3. QED
  BY <1>1, <1>2, FS_EmptySet DEF Count

LEMMA CountStep ==
  ASSUME NEW n \in Nat, NEW S \in SUBSET (1 .. n), NEW i \in 1 .. n
  PROVE  /\ i \in S => Count(S, i) = Count(S, i - 1) + 1 /\ UpTo(S, i) = UpTo(S, i - 1) \cup {i}
         /\ i \notin S => Count(S, i) = Count(S, i - 1) /\ UpTo(S, i) = UpTo(S, i - 1)
<1>1. ASSUME i \in S
      PROVE  Count(S, i) = Count(S, i - 1) + 1 /\ UpTo(S, i) = UpTo(S, i - 1) \cup {i}
  <2>1. UpTo(S, i) = UpTo(S, i - 1) \cup {i} /\ i \notin UpTo(S, i - 1) /\ i - 1 \in 0 .. n
    BY <1>1 DEF UpTo
  <2>2. IsFiniteSet(UpTo(S, i - 1))
    BY <2>1, Counts
  <2>3. QED
    BY <2>1, <2>2, FS_AddElement DEF Count
<1>2. ASSUME i \notin S PROVE UpTo(S, i) = UpTo(S, i - 1)
  BY <1>2 DEF UpTo
<1>3. QED
  BY <1>1, <1>2 DEF Count

\* Up to each rank an answer gains at most what as many relevant chunks gain in the first
\* places, and as much only in those.
LEMMA GainsBounded ==
  ASSUME NEW n \in Nat, n <= Len(Gain), NEW S \in SUBSET (1 .. n)
  PROVE  \A i \in 0 .. n :
           /\ GainTo(S, n)[i] <= Best[Count(S, i)]
           /\ GainTo(S, n)[i] = Best[Count(S, i)] <=> UpTo(S, i) = 1 .. Count(S, i)
           /\ GainTo(S, n)[i] = 0 <=> UpTo(S, i) = {}
<1> DEFINE F == GainTo(S, n)
           G == {i \in 0 .. n : /\ F[i] <= Best[Count(S, i)]
                                /\ F[i] = Best[Count(S, i)] <=> UpTo(S, i) = 1 .. Count(S, i)
                                /\ F[i] = 0 <=> UpTo(S, i) = {}}
<1>1. /\ F[0] = 0 /\ \A i \in 1 .. n : F[i] = F[i - 1] + GainAt(S, i)
      /\ \A i \in 0 .. n : F[i] \in Nat
  BY GainsDef
<1>0. Count(S, 0) = 0 /\ UpTo(S, 0) = {}
  BY CountEnds
<1> HIDE DEF F
<1>2. 0 \in G
  <2>1. 1 .. 0 = {} /\ Best[0] = 0 /\ 0 \in 0 .. n
    BY BestGains
  <2>2. UpTo(S, 0) = 1 .. Count(S, 0)
    BY <1>0, <2>1
  <2>4. Best[Count(S, 0)] = 0
    BY <1>0, <2>1
  <2>5. F[0] = Best[Count(S, 0)]
    BY <1>1, <2>4
  <2>6. F[0] <= Best[Count(S, 0)]
    BY <1>1, <2>4
  <2>3. QED
    BY <1>0, <1>1, <2>1, <2>2
<1>3. ASSUME NEW i \in 1 .. n, i - 1 \in G PROVE i \in G
  <2> DEFINE p == Count(S, i - 1)
  <2>1. /\ F[i - 1] <= Best[p] /\ (F[i - 1] = Best[p] <=> UpTo(S, i - 1) = 1 .. p)
        /\ F[i - 1] = 0 <=> UpTo(S, i - 1) = {}
    BY <1>3
  <2>2. p \in Nat /\ p <= i - 1 /\ p + 1 \in 1 .. i /\ p \in 0 .. Len(Gain) /\ i \in 1 .. Len(Gain)
        /\ p + 1 \in 1 .. Len(Gain)
    <3>1. p \in 0 .. i - 1 /\ Len(Gain) \in Nat
      <4>1. i - 1 \in 0 .. n
        OBVIOUS
      <4>2. QED
        BY <4>1, Counts, BestGains
    <3> HIDE DEF p
    <3>2. QED
      BY <3>1
  <2>3. F[i - 1] \in Nat /\ Best[p] \in Nat
    BY <1>1, <2>2, BestGains
  <2>4. CASE i \in S
    <3>1. F[i] = F[i - 1] + Gain[i] /\ Best[p + 1] = Best[p] + Gain[p + 1]
      BY <1>1, <2>2, <2>4, BestGains DEF GainAt
    <3>2. /\ Gain[i] \in Nat \ {0} /\ Gain[p + 1] \in Nat
          /\ Gain[i] <= Gain[p + 1] /\ (p + 1 # i => Gain[i] < Gain[p + 1])
      BY <2>2, GainsFall
    <3>3. Count(S, i) = p + 1 /\ UpTo(S, i) = UpTo(S, i - 1) \cup {i}
      BY <2>4, CountStep
    <3> HIDE DEF p
    <3>4. F[i] <= Best[p + 1] /\ F[i] # 0
      BY <2>1, <2>3, <3>1, <3>2
    <3>5. F[i] = Best[p + 1] <=> F[i - 1] = Best[p] /\ p + 1 = i
      BY <2>1, <2>3, <3>1, <3>2
    <3>6. UpTo(S, i) = 1 .. p + 1 <=> UpTo(S, i - 1) = 1 .. p /\ p + 1 = i
      <4>1. ASSUME UpTo(S, i - 1) = 1 .. p, p + 1 = i PROVE UpTo(S, i) = 1 .. p + 1
        BY <2>2, <3>3, <4>1
      <4>2. ASSUME UpTo(S, i) = 1 .. p + 1 PROVE UpTo(S, i - 1) = 1 .. p /\ p + 1 = i
        <5>1. i \in 1 .. p + 1
          BY <3>3, <4>2
        <5>2. p + 1 = i
          BY <2>2, <5>1
        <5>3. i \notin UpTo(S, i - 1)
          BY DEF UpTo
        <5>4. UpTo(S, i - 1) = (1 .. p + 1) \ {p + 1}
          BY <3>3, <4>2, <5>2, <5>3
        <5>5. (1 .. p + 1) \ {p + 1} = 1 .. p
          BY <2>2
        <5>6. QED
          BY <5>2, <5>4, <5>5
      <4>3. QED
        BY <4>1, <4>2
    <3>7. UpTo(S, i) # {}
      BY <3>3
    <3>8. /\ F[i] <= Best[Count(S, i)]
          /\ F[i] = Best[Count(S, i)] <=> UpTo(S, i) = 1 .. Count(S, i)
          /\ F[i] = 0 <=> UpTo(S, i) = {}
      BY <2>1, <3>3, <3>4, <3>5, <3>6, <3>7
    <3>9. QED
      BY <3>8
  <2>5. CASE i \notin S
    <3>1. F[i] = F[i - 1] + 0
      BY <1>1, <2>5 DEF GainAt
    <3>2. UpTo(S, i) = UpTo(S, i - 1) /\ Count(S, i) = p
      BY <2>5, CountStep
    <3>3. F[i] = F[i - 1]
      BY <2>3, <3>1
    <3>4. QED
      BY <2>1, <3>2, <3>3
  <2>6. QED
    BY <2>4, <2>5
<1> HIDE DEF G
<1>4. \A i \in 0 .. n : i \in G
  BY <1>2, <1>3, Induction
<1>5. QED
  BY <1>4 DEF G, F

\* So nDCG is at most 1, 1 only for the ideal answer, and 0 only for one without any
\* relevant chunk.
LEMMA NdcgBounded ==
  ASSUME NEW n \in Nat, n <= Len(Gain), NEW S \in SUBSET (1 .. n),
         NEW m \in Nat, m <= Len(Gain), Cardinality(S) <= m
  PROVE  /\ GainTo(S, n)[n] <= GainTo(1 .. m, m)[m]
         /\ GainTo(S, n)[n] = GainTo(1 .. m, m)[m] <=> S = 1 .. m
         /\ GainTo(S, n)[n] = 0 <=> S = {}
<1> DEFINE c == Cardinality(S)
<1>1. UpTo(S, n) = S /\ Count(S, n) = c /\ c \in Nat /\ c <= m
  <2>1. n \in 0 .. n
    OBVIOUS
  <2>2. Count(S, n) \in 0 .. n /\ UpTo(S, n) = S
    BY <2>1, Counts, CountEnds
  <2>3. QED
    BY <2>2 DEF Count
<1>2. /\ GainTo(S, n)[n] <= Best[c] /\ (GainTo(S, n)[n] = Best[c] <=> S = 1 .. c)
      /\ GainTo(S, n)[n] = 0 <=> S = {}
  <2>1. n \in 0 .. n
    OBVIOUS
  <2>2. /\ GainTo(S, n)[n] <= Best[Count(S, n)]
        /\ GainTo(S, n)[n] = Best[Count(S, n)] <=> UpTo(S, n) = 1 .. Count(S, n)
        /\ GainTo(S, n)[n] = 0 <=> UpTo(S, n) = {}
    BY <2>1, GainsBounded
  <2>3. QED
    BY <1>1, <2>2
<1>3. /\ Best[c] \in Nat /\ Best[m] \in Nat /\ (c # m => Best[c] < Best[m])
      /\ GainTo(S, n)[n] \in Nat
  BY <1>1, BestGains, GainsDef
<1>4. GainTo(1 .. m, m)[m] = Best[m]
  BY IdealIsBest
<1>5. S = 1 .. m => c = m
  BY FS_Interval
<1> HIDE DEF c
<1>6. QED
  BY <1>2, <1>3, <1>4, <1>5

-----------------------------------------------------------------------------
(* Requests. *)

\* What search() returns for a request and the store's hits.
Reply(q, h) == Prefix(IF q.rerank THEN Sorted(ToSet(h), Liked(q.taste)) ELSE h, q.k)

Inv ==
  /\ request \in Requests
  /\ pc \in {"search", "order", "score", "done"}
  /\ pc # "search" => hits = Prefix(StoreOrder(request), Depth(request))
  /\ pc \in {"score", "done"} => answer = Reply(request, hits)
  /\ score # <<>> =>
       pc = "done" /\ score = <<RecallAtK(answer), MrrAtK(answer), NdcgAtK(answer)>>

LEMMA InvHolds == Spec => []Inv
<1>1. Init => Inv
  BY DEF Init, Inv
<1>2. Inv /\ [Next]_vars => Inv'
  <2> SUFFICES ASSUME Inv, [Next]_vars PROVE Inv'
    OBVIOUS
  <2>1. CASE Search
    BY <2>1 DEF Search, Inv
  <2>2. CASE Rerank
    BY <2>2 DEF Rerank, Inv, Reply
  <2>3. CASE Keep
    BY <2>3 DEF Keep, Inv, Reply
  <2>4. CASE Score
    BY <2>4 DEF Score, Inv, RecallAtK, MrrAtK, NdcgAtK, Relevant
  <2>5. CASE UNCHANGED vars
    BY <2>5 DEF vars, Inv, RecallAtK, MrrAtK, NdcgAtK, Relevant
  <2>6. QED
    BY <2>1, <2>2, <2>3, <2>4, <2>5 DEF Next
<1>3. QED
  BY <1>1, <1>2, PTL DEF Spec

\* The store has every chunk of the collection once, in one order, ...
LEMMA StoreOrders ==
  ASSUME NEW q \in Requests
  PROVE  /\ Orders(q.dense, q.sparse)
         /\ StoreOrder(q) \in Seq(Chunks) /\ IsInjective(StoreOrder(q))
         /\ ToSet(StoreOrder(q)) = ToSet(q.dense)
         /\ Depth(q) \in Nat /\ Candidates(q) \in Nat
<1>1. Orders(q.dense, q.sparse)
  BY RequestAssumption DEF Orders
<1>2. IsFiniteSet(ToSet(q.dense)) /\ ToSet(q.dense) \subseteq Chunks
  BY <1>1, Ranks DEF Orders
<1>3. /\ Fused(q.dense, q.sparse) \in Seq(Chunks) /\ IsInjective(Fused(q.dense, q.sparse))
      /\ ToSet(Fused(q.dense, q.sparse)) = ToSet(q.dense)
  <2> DEFINE D == ToSet(q.dense)
             R == {p \in D \X D : Outranks(p[1], p[2], q.dense, q.sparse)}
             f == Sorted(D, R)
  <2>1. StrictTotal(R, D)
    BY <1>1, FusionIsOrder
  <2>2. f = Fused(q.dense, q.sparse)
    BY DEF Fused
  <2>3. IsFiniteSet(D) /\ D \subseteq Chunks
    BY <1>2
  <2> HIDE DEF D, R
  <2>4. f \in Seq(D) /\ IsInjective(f) /\ ToSet(f) = D
    BY <2>1, <2>3, SortedOrders
  <2> HIDE DEF f
  <2>5. f \in Seq(Chunks)
    BY <2>3, <2>4
  <2>6. QED
    BY <2>2, <2>4, <2>5 DEF D
<1>4. Depth(q) \in Nat /\ Candidates(q) \in Nat
  BY RequestAssumption, DepthAssumption DEF Depth, Candidates
<1>5. QED
  BY <1>1, <1>3, <1>4 DEF StoreOrder, Orders

\* ... and the reranker, too.
LEMMA LikedIsOrder ==
  ASSUME NEW q \in Requests, NEW T \in SUBSET ToSet(q.taste)
  PROVE  /\ IsFiniteSet(T) /\ StrictTotal(Liked(q.taste), T) /\ T \subseteq Chunks
         /\ \A x, y \in T :
              <<x, y>> \in Liked(q.taste) <=> RankIn(x, q.taste) < RankIn(y, q.taste)
         /\ \A x \in T : RankIn(x, q.taste) \in Nat
<1> DEFINE t == q.taste
<1>1. t \in Seq(Chunks) /\ IsInjective(t)
  BY RequestAssumption
<1>2. IsFiniteSet(T) /\ T \subseteq Chunks
  BY <1>1, Ranks, FS_Subset
<1>3. \A x \in T : RankIn(x, t) \in Nat /\ t[RankIn(x, t)] = x
  BY <1>1, Ranks
<1>4. \A x, y \in T : <<x, y>> \in Liked(t) <=> RankIn(x, t) < RankIn(y, t)
  BY DEF Liked
<1> HIDE DEF t
<1>5. StrictTotal(Liked(t), T)
  <2>1. \A x \in T : <<x, x>> \notin Liked(t)
    BY <1>3, <1>4
  <2>2. \A x, y \in T : x # y => <<x, y>> \in Liked(t) \/ <<y, x>> \in Liked(t)
    BY <1>3, <1>4
  <2>3. \A x, y, z \in T : <<x, y>> \in Liked(t) /\ <<y, z>> \in Liked(t) => <<x, z>> \in Liked(t)
    BY <1>3, <1>4
  <2>4. QED
    BY <2>1, <2>2, <2>3 DEF StrictTotal
<1>6. QED
  BY <1>2, <1>3, <1>4, <1>5 DEF t

\* Hits are chunks of the collection, none of them twice.
LEMMA HitsAreChunks ==
  ASSUME NEW q \in Requests, NEW h, h = Prefix(StoreOrder(q), Depth(q))
  PROVE  /\ h \in Seq(Chunks) /\ IsInjective(h) /\ ToSet(h) \in SUBSET ToSet(q.taste)
         /\ \A i \in 1 .. Len(h) : h[i] = StoreOrder(q)[i]
         /\ Len(h) <= Len(StoreOrder(q))
<1>1. ToSet(q.taste) = ToSet(q.dense)
  BY RequestAssumption
<1>2. QED
  BY <1>1, StoreOrders, PrefixOf

\* So is the answer, and it has k of them at most.
LEMMA RepliesAreChunks ==
  ASSUME NEW q \in Requests, NEW h, h = Prefix(StoreOrder(q), Depth(q))
  PROVE  /\ Reply(q, h) \in Seq(Chunks) /\ IsInjective(Reply(q, h)) /\ Len(Reply(q, h)) <= q.k
<1>1. h \in Seq(Chunks) /\ IsInjective(h) /\ ToSet(h) \in SUBSET ToSet(q.taste) /\ q.k \in Nat
  BY HitsAreChunks, RequestAssumption
<1> DEFINE o == IF q.rerank THEN Sorted(ToSet(h), Liked(q.taste)) ELSE h
<1>2. o \in Seq(Chunks) /\ IsInjective(o)
  <2>1. IsFiniteSet(ToSet(h)) /\ StrictTotal(Liked(q.taste), ToSet(h)) /\ ToSet(h) \subseteq Chunks
    BY <1>1, LikedIsOrder
  <2> DEFINE f == Sorted(ToSet(h), Liked(q.taste))
  <2>2. f \in Seq(ToSet(h)) /\ IsInjective(f)
    BY <2>1, SortedOrders
  <2> HIDE DEF f
  <2>3. f \in Seq(Chunks)
    BY <2>1, <2>2
  <2>4. QED
    BY <1>1, <2>2, <2>3 DEF f
<1>3. Reply(q, h) = Prefix(o, q.k)
  BY DEF Reply
<1> HIDE DEF o
<1>4. QED
  BY <1>1, <1>2, <1>3, PrefixOf

\* What both orders of a hybrid search rank above is found above.
THEOREM FusionAgrees == Spec => []FusionRespectsBoth
<1>1. Inv => FusionRespectsBoth
  <2> SUFFICES ASSUME Inv, pc = "order", request.hybrid,
                      NEW x \in ToSet(request.dense), NEW y \in ToSet(hits),
                      Above(x, y, request.dense), Above(x, y, request.sparse)
               PROVE  Above(x, y, hits)
    BY DEF FusionRespectsBoth
  <2> DEFINE q == request
             D == ToSet(q.dense)
             R == {p \in D \X D : Outranks(p[1], p[2], q.dense, q.sparse)}
             f == Sorted(D, R)
  <2>1. q \in Requests /\ hits = Prefix(StoreOrder(q), Depth(q))
    BY DEF Inv
  <2>2. Orders(q.dense, q.sparse) /\ f = StoreOrder(q)
    BY <2>1, StoreOrders DEF StoreOrder, Fused
  <2>3. IsFiniteSet(D) /\ StrictTotal(R, D)
    BY <2>2, Ranks, FusionIsOrder DEF Orders
  <2>4. hits \in Seq(Chunks) /\ IsInjective(hits) /\ ToSet(hits) \subseteq D
        /\ \A i \in 1 .. Len(hits) : hits[i] = f[i]
    <3>1. ToSet(q.taste) = D
      BY <2>1, RequestAssumption
    <3>2. /\ hits \in Seq(Chunks) /\ IsInjective(hits) /\ ToSet(hits) \in SUBSET ToSet(q.taste)
          /\ \A i \in 1 .. Len(hits) : hits[i] = StoreOrder(q)[i]
      BY <2>1, HitsAreChunks
    <3> HIDE DEF q, D, R, f
    <3>3. QED
      BY <2>2, <3>1, <3>2
  <2>5. x \in D /\ y \in D /\ Above(x, y, q.dense) /\ Above(x, y, q.sparse)
    BY <2>4
  <2>6. <<x, y>> \in R
    BY <2>2, <2>5, AboveInBoth
  <2>0. Len(hits) <= Len(f)
    BY <2>1, <2>2, HitsAreChunks
  <2> HIDE DEF q, D, R
  <2>7. /\ f \in Seq(D) /\ IsInjective(f) /\ ToSet(f) = D /\ Len(f) = Cardinality(D)
        /\ \A i, j \in 1 .. Cardinality(D) : i < j <=> <<f[i], f[j]>> \in R
    BY <2>3, SortedOrders
  <2> HIDE DEF f
  <2>8. PICK i \in 1 .. Len(f) : f[i] = x
    BY <2>5, <2>7, Ranks
  <2>9. /\ RankIn(y, hits) \in 1 .. Len(hits) /\ hits[RankIn(y, hits)] = y
        /\ \A j \in 1 .. Len(hits) : hits[j] \in ToSet(hits) /\ RankIn(hits[j], hits) = j
    BY <2>4, Ranks
  <2>10. RankIn(y, hits) \in 1 .. Len(f) /\ f[RankIn(y, hits)] = y
    <3>1. Len(hits) \in Nat /\ Len(f) \in Nat
      BY <2>4, <2>7
    <3>2. QED
      BY <2>0, <2>4, <2>9, <3>1
  <2>11. i < RankIn(y, hits)
    BY <2>6, <2>7, <2>8, <2>10
  <2>12. i \in 1 .. Len(hits)
    <3>1. Len(hits) \in Nat /\ Len(f) \in Nat
      BY <2>4, <2>7
    <3>2. QED
      BY <2>8, <2>9, <2>11, <3>1
  <2>13. hits[i] = x /\ RankIn(x, hits) = i /\ x \in ToSet(hits)
    BY <2>4, <2>8, <2>9, <2>12
  <2>14. QED
    BY <2>11, <2>13 DEF Above
<1>2. QED
  BY <1>1, InvHolds, PTL

\* A reranked answer has the best of the candidates, best first.
THEOREM RerankedAreBest == Spec => []BestCandidates
<1>1. Inv => BestCandidates
  <2> DEFINE q == request
             T == ToSet(hits)
             f == Sorted(T, Liked(q.taste))
  <2> SUFFICES ASSUME Inv, pc = "score", request.rerank
               PROVE  LET pool == ToSet(Prefix(StoreOrder(request), Candidates(request))) IN
                      /\ Len(answer) = Smaller(request.k, Cardinality(pool))
                      /\ \A x \in pool, i \in DOMAIN answer :
                           RankIn(x, request.taste) < RankIn(answer[i], request.taste)
                             => \E j \in 1 .. i - 1 : answer[j] = x
    BY DEF BestCandidates
  <2>1. q \in Requests /\ hits = Prefix(StoreOrder(q), Depth(q)) /\ q.k \in Nat
        /\ answer = Prefix(f, q.k) /\ Depth(q) = Candidates(q)
    BY RequestAssumption DEF Inv, Reply, Depth
  <2>2. T = ToSet(Prefix(StoreOrder(q), Candidates(q))) /\ T \in SUBSET ToSet(q.taste)
    BY <2>1, HitsAreChunks
  <2>3. /\ IsFiniteSet(T) /\ StrictTotal(Liked(q.taste), T)
        /\ \A x, y \in T :
             <<x, y>> \in Liked(q.taste) <=> RankIn(x, q.taste) < RankIn(y, q.taste)
    BY <2>1, <2>2, LikedIsOrder
  <2> HIDE DEF T, q
  <2>4. /\ f \in Seq(T) /\ IsInjective(f) /\ ToSet(f) = T /\ Len(f) = Cardinality(T)
        /\ Cardinality(T) \in Nat
        /\ \A i, j \in 1 .. Cardinality(T) : i < j <=> <<f[i], f[j]>> \in Liked(q.taste)
    BY <2>3, SortedOrders
  <2> HIDE DEF f
  <2>5. /\ answer \in Seq(T) /\ Len(answer) = Smaller(q.k, Len(f)) /\ Len(answer) <= Len(f)
        /\ \A i \in 1 .. Len(answer) : answer[i] = f[i]
    BY <2>1, <2>4, PrefixOf
  <2>6. ASSUME NEW x \in T, NEW i \in DOMAIN answer, RankIn(x, q.taste) < RankIn(answer[i], q.taste)
        PROVE  \E j \in 1 .. i - 1 : answer[j] = x
    <3>1. i \in 1 .. Len(answer) /\ i \in 1 .. Len(f) /\ answer[i] = f[i] /\ answer[i] \in T
          /\ Len(f) \in Nat
      BY <2>4, <2>5
    <3>2. PICK j \in 1 .. Len(f) : f[j] = x
      BY <2>4, Ranks
    <3>3. <<f[j], f[i]>> \in Liked(q.taste)
      BY <2>3, <2>6, <3>1, <3>2
    <3>4. j < i
      BY <2>4, <3>1, <3>2, <3>3
    <3>5. j \in 1 .. i - 1 /\ j \in 1 .. Len(answer)
      BY <3>1, <3>2, <3>4
    <3>6. QED
      BY <2>5, <3>2, <3>5
  <2>7. QED
    BY <2>2, <2>4, <2>5, <2>6 DEF q
<1>2. QED
  BY <1>1, InvHolds, PTL

\* Relevant chunks at the ranks of an answer are as many as those ranks.
LEMMA FoundOnce ==
  ASSUME NEW a \in Seq(Chunks), IsInjective(a), request \in Requests
  PROVE  /\ IsFiniteSet(request.relevant)
         /\ Relevant(a) \in SUBSET (1 .. Len(a))
         /\ Cardinality(Relevant(a)) <= Cardinality(request.relevant)
         /\ Cardinality(Relevant(a)) <= Len(a) /\ Cardinality(Relevant(a)) \in Nat
         /\ Relevant(a) = {} <=> ToSet(a) \cap request.relevant = {}
<1>1. IsFiniteSet(request.relevant)
  BY RequestAssumption, Ranks, FS_Subset
<1>2. DOMAIN a = 1 .. Len(a) /\ Len(a) \in Nat
  OBVIOUS
<1>3. Relevant(a) \in SUBSET (1 .. Len(a))
  BY <1>2 DEF Relevant
<1>4. IsFiniteSet(1 .. Len(a)) /\ Cardinality(1 .. Len(a)) = Len(a)
  BY <1>2, FS_Interval
<1>5. Cardinality(Relevant(a)) <= Len(a) /\ Cardinality(Relevant(a)) \in Nat
  BY <1>3, <1>4, FS_Subset, FS_CardinalityType
<1>6. Cardinality(Relevant(a)) <= Cardinality(request.relevant)
  <2> DEFINE f == [i \in Relevant(a) |-> a[i]]
  <2>1. f \in [Relevant(a) -> request.relevant]
    BY DEF Relevant
  <2>2. \A i, j \in Relevant(a) : f[i] = f[j] => i = j
    BY <1>2, <1>3 DEF IsInjective
  <2> HIDE DEF f
  <2>3. f \in Injection(Relevant(a), request.relevant)
    BY <2>1, <2>2 DEF Injection, IsInjective
  <2>4. QED
    BY <1>1, <2>3, FS_Injection
<1>7. Relevant(a) = {} <=> ToSet(a) \cap request.relevant = {}
  BY <1>2 DEF Relevant, ToSet
<1>8. QED
  BY <1>1, <1>3, <1>5, <1>6, <1>7

\* The scores are fractions of 1, agree on whether anything was found, and nDCG is 1 for the
\* ideal answer alone.
THEOREM ScoresStayFractions == Spec => []ScoresAreFractions
<1>1. Inv => ScoresAreFractions
  <2> SUFFICES ASSUME Inv, score # <<>>
               PROVE  /\ \A i \in 1 .. 3 : score[i][1] <= score[i][2]
                      /\ \A i, j \in 1 .. 3 : score[i][1] = 0 => score[j][1] = 0
                      /\ score[3][1] = score[3][2]
                           <=> Relevant(answer) = 1 .. Smaller(Cardinality(request.relevant), request.k)
    BY DEF ScoresAreFractions
  <2> DEFINE q == request
             S == Relevant(answer)
             n == Len(answer)
             m == Smaller(Cardinality(q.relevant), q.k)
  <2>1. /\ q \in Requests /\ hits = Prefix(StoreOrder(q), Depth(q)) /\ answer = Reply(q, hits)
        /\ score = <<RecallAtK(answer), MrrAtK(answer), NdcgAtK(answer)>>
    BY DEF Inv
  <2>2. answer \in Seq(Chunks) /\ IsInjective(answer) /\ n <= q.k /\ n \in Nat
        /\ q.k \in Nat /\ q.k <= Len(Gain) /\ Len(Gain) \in Nat
    BY <2>1, RepliesAreChunks, RequestAssumption, GainAssumption
  <2>3. /\ IsFiniteSet(q.relevant) /\ Cardinality(q.relevant) \in Nat
        /\ S \in SUBSET (1 .. n) /\ Cardinality(S) <= Cardinality(q.relevant)
        /\ Cardinality(S) <= n /\ Cardinality(S) \in Nat
        /\ S = {} <=> ToSet(answer) \cap q.relevant = {}
    BY <2>1, <2>2, FoundOnce, FS_CardinalityType
  <2>4. score[3] = <<GainTo(S, n)[n], GainTo(1 .. m, m)[m]>>
    BY <2>1 DEF NdcgAtK
  <2>5. /\ score[3][1] <= score[3][2] /\ (score[3][1] = score[3][2] <=> S = 1 .. m)
        /\ score[3][1] = 0 <=> S = {}
    <3>1. m \in Nat /\ m <= Len(Gain) /\ Cardinality(S) <= m /\ n <= Len(Gain)
      <4> HIDE DEF S, n, q
      <4>1. QED
        BY <2>2, <2>3 DEF Smaller
    <3> HIDE DEF S, n, m, q
    <3>2. QED
      BY <2>2, <2>3, <2>4, <3>1, NdcgBounded
  <2>6. score[1][1] <= score[1][2] /\ (score[1][1] = 0 <=> S = {})
    <3>1. score[1] = <<Cardinality(ToSet(answer) \cap q.relevant), Cardinality(q.relevant)>>
      BY <2>1 DEF RecallAtK
    <3> DEFINE found == ToSet(answer) \cap q.relevant
    <3>2. found \in SUBSET q.relevant
      OBVIOUS
    <3> HIDE DEF found
    <3>3. IsFiniteSet(found) /\ Cardinality(found) <= Cardinality(q.relevant)
          /\ (Cardinality(found) = 0 <=> found = {})
      BY <2>3, <3>2, FS_Subset, FS_EmptySet
    <3>4. QED
      BY <2>3, <3>1, <3>3 DEF found
  <2>7. score[2][1] <= score[2][2] /\ (score[2][1] = 0 <=> S = {})
    <3>1. CASE S = {}
      BY <2>1, <3>1 DEF MrrAtK
    <3>2. CASE S # {}
      <4>1. PICK i \in S : \A j \in S : i <= j
        <5>1. S \in SUBSET Nat
          BY <2>3
        <5> HIDE DEF S
        <5>2. QED
          BY <3>2, <5>1, Least
      <4> DEFINE first == CHOOSE k \in S : \A j \in S : k <= j
      <4>2. first \in S
        BY <4>1
      <4>3. score[2] = <<1, first>>
        BY <2>1, <3>2 DEF MrrAtK
      <4>4. first \in 1 .. n
        BY <2>3, <4>2
      <4> HIDE DEF first, S
      <4>5. QED
        BY <2>2, <3>2, <4>3, <4>4
    <3>3. QED
      BY <3>1, <3>2
  <2>8. QED
    BY <2>5, <2>6, <2>7
<1>2. QED
  BY <1>1, InvHolds, PTL
=============================================================================
