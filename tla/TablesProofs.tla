----------------------------- MODULE TablesProofs -----------------------------
(***************************************************************************)
(* The doubles answer as Postgres may, for any number of rows, batches and *)
(* chunks, and the wall time that a batch's summary reports rests once its *)
(* rows do and never falls by more than create() and bump_total() take.    *)
(*                                                                         *)
(* Postgres sorts by created_at what the doubles keep in the order of      *)
(* insertion.  The answers of Postgres are the orders that the stamps allow; *)
(* where the stamps follow the insertions, the table itself is one of them *)
(* (WholeIsOldest), and so is what a comprehension lists of it             *)
(* (OnlyIsOldest).  Uploads come one at a time, so that within a batch the *)
(* stamps always do.  Chunks are sorted by both: a sequence that a relation *)
(* orders strictly is what sorting its entries gives (OrderedIsSorted).    *)
(***************************************************************************)
EXTENDS Tables, SequenceTheorems, FiniteSetTheorems, WellFoundedInduction, TLAPS

-----------------------------------------------------------------------------
(* Sorting. *)

StrictTotal(before, S) ==
  /\ \A x \in S : <<x, x>> \notin before
  /\ \A x, y \in S : x # y => <<x, y>> \in before \/ <<y, x>> \in before
  /\ \A x, y, z \in S : <<x, y>> \in before /\ <<y, z>> \in before => <<x, z>> \in before

\* Each thing has a number of things before it that is its own.
LEMMA PlacesDiffer ==
  ASSUME NEW S, IsFiniteSet(S), NEW R, StrictTotal(R, S),
         NEW pos, pos = [x \in S |-> Cardinality(Below(x, S, R))]
  PROVE  /\ \A x \in S : pos[x] \in 0 .. Cardinality(S) - 1
         /\ \A x, y \in S : <<x, y>> \in R <=> pos[x] < pos[y]
<1>1. ASSUME NEW x \in S
      PROVE  /\ IsFiniteSet(Below(x, S, R)) /\ Cardinality(Below(x, S, R)) \in Nat
             /\ Below(x, S, R) \in SUBSET S /\ x \notin Below(x, S, R)
             /\ pos[x] = Cardinality(Below(x, S, R))
  <2>1. Below(x, S, R) \in SUBSET S /\ x \notin Below(x, S, R)
    BY DEF Below, StrictTotal
  <2>2. IsFiniteSet(Below(x, S, R)) /\ Cardinality(Below(x, S, R)) \in Nat
    BY <2>1, FS_Subset, FS_CardinalityType
  <2>3. QED
    BY <2>1, <2>2
<1>2. Cardinality(S) \in Nat
  BY FS_CardinalityType
<1>3. ASSUME NEW x \in S PROVE pos[x] < Cardinality(S)
  <2>1. Below(x, S, R) \in SUBSET S /\ Below(x, S, R) # S
    BY <1>1
  <2>2. Cardinality(Below(x, S, R)) <= Cardinality(S) /\ Cardinality(Below(x, S, R)) # Cardinality(S)
    BY <2>1, FS_Subset
  <2>3. QED
    BY <1>1, <1>2, <2>2
<1>4. ASSUME NEW x \in S, NEW y \in S, <<x, y>> \in R PROVE pos[x] < pos[y]
  <2>1. Below(x, S, R) \in SUBSET Below(y, S, R) /\ Below(x, S, R) # Below(y, S, R)
    <3>1. x \in Below(y, S, R)
      BY <1>4 DEF Below
    <3>2. Below(x, S, R) \in SUBSET Below(y, S, R)
      BY <1>4 DEF Below, StrictTotal
    <3>3. QED
      BY <1>1, <3>1, <3>2
  <2>2. Cardinality(Below(x, S, R)) <= Cardinality(Below(y, S, R))
        /\ Cardinality(Below(x, S, R)) # Cardinality(Below(y, S, R))
    BY <1>1, <2>1, FS_Subset
  <2>3. QED
    BY <1>1, <2>2
<1>5. ASSUME NEW x \in S, NEW y \in S, pos[x] < pos[y] PROVE <<x, y>> \in R
  <2>1. pos[x] \in Nat /\ pos[y] \in Nat
    BY <1>1
  <2>2. x # y /\ ~(pos[y] < pos[x])
    BY <1>5, <2>1
  <2>3. QED
    BY <1>4, <2>2 DEF StrictTotal
<1>6. \A x \in S : pos[x] \in 0 .. Cardinality(S) - 1
  <2> SUFFICES ASSUME NEW x \in S PROVE pos[x] \in 0 .. Cardinality(S) - 1
    OBVIOUS
  <2>1. pos[x] \in Nat
    BY <1>1
  <2>2. QED
    BY <1>2, <1>3, <2>1
<1>7. QED
  BY <1>4, <1>5, <1>6

\* Sorted is the order of the relation: it has every thing once.
LEMMA SortedOrders ==
  ASSUME NEW S, IsFiniteSet(S), NEW R, StrictTotal(R, S)
  PROVE  /\ Sorted(S, R) \in Seq(S) /\ Len(Sorted(S, R)) = Cardinality(S)
         /\ Cardinality(S) \in Nat
         /\ IsInjective(Sorted(S, R)) /\ Range(Sorted(S, R)) = S
         /\ \A i, j \in 1 .. Cardinality(S) :
              i < j <=> <<Sorted(S, R)[i], Sorted(S, R)[j]>> \in R
<1> DEFINE n == Cardinality(S)
           pos == [x \in S |-> Cardinality(Below(x, S, R))]
<1>1. /\ \A x \in S : pos[x] \in 0 .. n - 1
      /\ \A x, y \in S : <<x, y>> \in R <=> pos[x] < pos[y]
  BY PlacesDiffer
<1>2. n \in Nat
  BY FS_CardinalityType
<1>3. Sorted(S, R) = [i \in 1 .. n |-> CHOOSE x \in S : Cardinality(Below(x, S, R)) = i - 1]
  BY DEF Sorted
<1>0. \A x \in S : pos[x] = Cardinality(Below(x, S, R))
  OBVIOUS
<1> HIDE DEF pos, n
<1>4. \A x, y \in S : pos[x] = pos[y] => x = y
  <2> SUFFICES ASSUME NEW x \in S, NEW y \in S, pos[x] = pos[y], x # y PROVE FALSE
    OBVIOUS
  <2>1. pos[x] < pos[y] \/ pos[y] < pos[x]
    BY <1>1 DEF StrictTotal
  <2>2. QED
    BY <1>1, <2>1
<1>5. \A k \in 0 .. n - 1 : \E x \in S : pos[x] = k
  <2>1. IsFiniteSet(0 .. n - 1) /\ Cardinality(0 .. n - 1) = n
    BY <1>2, FS_Interval
  <2>2. pos \in Injection(S, 0 .. n - 1)
    <3>1. pos \in [S -> 0 .. n - 1]
      BY <1>1 DEF pos
    <3>2. QED
      BY <1>4, <3>1 DEF Injection, IsInjective
  <2>3. pos \in Surjection(S, 0 .. n - 1)
    BY <2>1, <2>2, FS_Injection DEF n
  <2>4. QED
    BY <2>3 DEF Surjection
<1> DEFINE s == Sorted(S, R)
<1>6. \A i \in 1 .. n : s[i] \in S /\ pos[s[i]] = i - 1
  <2> SUFFICES ASSUME NEW i \in 1 .. n PROVE s[i] \in S /\ pos[s[i]] = i - 1
    OBVIOUS
  <2>1. i - 1 \in 0 .. n - 1
    BY <1>2
  <2>2. s[i] = CHOOSE x \in S : Cardinality(Below(x, S, R)) = i - 1
    BY <1>3
  <2>3. \E x \in S : Cardinality(Below(x, S, R)) = i - 1
    BY <1>0, <1>5, <2>1
  <2>4. QED
    BY <1>0, <2>2, <2>3
<1>7. s \in Seq(S) /\ Len(s) = n /\ DOMAIN s = 1 .. n
  BY <1>2, <1>3, <1>6
<1> HIDE DEF s
<1>8. IsInjective(s)
  <2>1. \A i, j \in 1 .. n : s[i] = s[j] => i = j
    BY <1>2, <1>6
  <2>2. QED
    BY <1>7, <2>1 DEF IsInjective
<1>9. Range(s) = S
  <2>1. ASSUME NEW x \in S PROVE \E i \in 1 .. n : s[i] = x
    <3>1. pos[x] + 1 \in 1 .. n
      BY <1>1, <1>2
    <3>2. pos[s[pos[x] + 1]] = pos[x] /\ s[pos[x] + 1] \in S
      BY <1>1, <1>2, <1>6, <3>1
    <3>3. QED
      BY <1>4, <3>1, <3>2
  <2>2. \A i \in 1 .. n : s[i] \in S
    BY <1>6
  <2>3. DOMAIN s = 1 .. n
    BY <1>7
  <2>4. QED
    BY <2>1, <2>2, <2>3 DEF Range
<1>10. \A i, j \in 1 .. n : i < j <=> <<s[i], s[j]>> \in R
  <2> SUFFICES ASSUME NEW i \in 1 .. n, NEW j \in 1 .. n PROVE i < j <=> <<s[i], s[j]>> \in R
    OBVIOUS
  <2>1. i < j <=> pos[s[i]] < pos[s[j]]
    BY <1>2, <1>6
  <2>2. QED
    BY <1>1, <1>6, <2>1
<1>11. QED
  BY <1>2, <1>7, <1>8, <1>9, <1>10 DEF n, s

\* A sequence that a relation orders strictly is what sorting its entries by it gives.
LEMMA OrderedIsSorted ==
  ASSUME NEW T, NEW n \in Nat, NEW s \in [1 .. n -> T], Range(s) = T, NEW R,
         \A i, j \in 1 .. n : i < j => <<s[i], s[j]>> \in R,
         \A x, y \in T : ~(<<x, y>> \in R /\ <<y, x>> \in R)
  PROVE  /\ Sorted(T, R) = s
         /\ IsFiniteSet(T) /\ Cardinality(T) = n
         /\ \A i, j \in 1 .. n : s[i] = s[j] => i = j
<1>1. \A i, j \in 1 .. n : s[i] = s[j] => i = j
  <2> SUFFICES ASSUME NEW i \in 1 .. n, NEW j \in 1 .. n, s[i] = s[j], i # j PROVE FALSE
    OBVIOUS
  <2>1. i < j \/ j < i
    OBVIOUS
  <2>2. <<s[i], s[i]>> \in R
    BY <2>1
  <2>3. QED
    BY <2>2
<1>2. IsFiniteSet(T) /\ Cardinality(T) = n
  <2>1. s \in Surjection(1 .. n, T) /\ s \in Injection(1 .. n, T)
    BY <1>1 DEF Surjection, Injection, IsInjective, Range
  <2>2. IsFiniteSet(1 .. n) /\ Cardinality(1 .. n) = n
    BY FS_Interval
  <2>3. QED
    BY <2>1, <2>2, FS_Surjection
<1>3. ASSUME NEW i \in 1 .. n PROVE Cardinality(Below(s[i], T, R)) = i - 1
  <2> DEFINE B == Below(s[i], T, R)
             g == [j \in 1 .. i - 1 |-> s[j]]
  <2>1. ASSUME NEW j \in 1 .. n PROVE s[j] \in B <=> j < i
    <3>1. j < i => <<s[j], s[i]>> \in R
      OBVIOUS
    <3>2. ~(j < i) => <<s[j], s[i]>> \notin R
      <4>1. CASE j = i
        BY <4>1
      <4>2. CASE i < j
        BY <4>2
      <4>3. QED
        BY <4>1, <4>2
    <3>3. QED
      BY <3>1, <3>2 DEF Below
  <2>2. \A x \in B : \E j \in 1 .. n : s[j] = x
    BY DEF Below, Range
  <2>3. g \in [1 .. i - 1 -> B]
    BY <2>1
  <2>4. \A x \in B : \E j \in 1 .. i - 1 : g[j] = x
    <3> SUFFICES ASSUME NEW x \in B PROVE \E j \in 1 .. i - 1 : g[j] = x
      OBVIOUS
    <3>1. PICK j \in 1 .. n : s[j] = x
      BY <2>2
    <3>2. j < i
      BY <2>1, <3>1
    <3>3. QED
      BY <3>1, <3>2
  <2>5. \A j, k \in 1 .. i - 1 : g[j] = g[k] => j = k
    BY <1>1
  <2>6. IsFiniteSet(1 .. i - 1) /\ Cardinality(1 .. i - 1) = i - 1
    BY FS_Interval
  <2> HIDE DEF g, B
  <2>7. g \in Surjection(1 .. i - 1, B) /\ g \in Injection(1 .. i - 1, B)
    BY <2>3, <2>4, <2>5 DEF Surjection, Injection, IsInjective
  <2>8. Cardinality(B) = i - 1
    BY <2>6, <2>7, FS_Surjection
  <2>9. QED
    BY <2>8 DEF B
<1>4. ASSUME NEW i \in 1 .. n
      PROVE  (CHOOSE x \in T : Cardinality(Below(x, T, R)) = i - 1) = s[i]
  <2>1. s[i] \in T /\ Cardinality(Below(s[i], T, R)) = i - 1
    BY <1>3
  <2>2. ASSUME NEW x \in T, Cardinality(Below(x, T, R)) = i - 1 PROVE x = s[i]
    <3>1. PICK j \in 1 .. n : s[j] = x
      BY DEF Range
    <3>2. Cardinality(Below(s[j], T, R)) = j - 1
      BY <1>3
    <3>3. j = i
      BY <2>2, <3>1, <3>2
    <3>4. QED
      BY <3>1, <3>3
  <2>3. QED
    BY <2>1, <2>2
<1>5. Sorted(T, R) = s
  <2>1. Sorted(T, R) = [i \in 1 .. n |-> CHOOSE x \in T : Cardinality(Below(x, T, R)) = i - 1]
    BY <1>2 DEF Sorted
  <2>2. QED
    BY <1>4, <2>1
<1>6. QED
  BY <1>1, <1>2, <1>5

\* The entries at some places of a sequence, in the order of a relation on the places.
LEMMA PickedOrder ==
  ASSUME NEW X, NEW s \in Seq(X), NEW I \in SUBSET (1 .. Len(s)), NEW R, StrictTotal(R, I)
  PROVE  /\ Picked(s, I, R) \in Seq(X) /\ Len(Picked(s, I, R)) = Cardinality(I)
         /\ \E q \in [1 .. Cardinality(I) -> I] :
              /\ Range(q) = I
              /\ \A k \in 1 .. Cardinality(I) : Picked(s, I, R)[k] = s[q[k]]
              /\ \A j, k \in 1 .. Cardinality(I) : j < k => <<q[j], q[k]>> \in R
<1> DEFINE q == Sorted(I, R)
           n == Cardinality(I)
<1>1. IsFiniteSet(I)
  <2>1. Len(s) \in Nat
    OBVIOUS
  <2>2. IsFiniteSet(1 .. Len(s))
    BY <2>1, FS_Interval
  <2>3. QED
    BY <2>2, FS_Subset
<1>2. /\ q \in Seq(I) /\ Len(q) = n /\ n \in Nat /\ Range(q) = I
      /\ \A i, j \in 1 .. n : i < j <=> <<q[i], q[j]>> \in R
  BY <1>1, SortedOrders
<1>3. Picked(s, I, R) = [k \in 1 .. n |-> s[q[k]]]
  BY DEF Picked
<1> HIDE DEF q, n
<1>4. q \in [1 .. n -> I]
  BY <1>2
<1>5. \A k \in 1 .. n : s[q[k]] \in X
  <2>1. \A i \in 1 .. Len(s) : s[i] \in X
    OBVIOUS
  <2>2. \A k \in 1 .. n : q[k] \in 1 .. Len(s)
    BY <1>4
  <2>3. QED
    BY <2>1, <2>2
<1>6. Picked(s, I, R) \in Seq(X) /\ Len(Picked(s, I, R)) = n
  BY <1>2, <1>3, <1>5
<1>7. \A k \in 1 .. n : Picked(s, I, R)[k] = s[q[k]]
  BY <1>3
<1>8. QED
  BY <1>2, <1>4, <1>6, <1>7 DEF n

\* A comprehension: the entries that pass, each at a later place than the one before.
LEMMA OnlyOrder ==
  ASSUME NEW X, NEW s \in Seq(X), NEW key, NEW value
  PROVE  LET I == {i \in 1 .. Len(s) : s[i][key] = value}
             u == Only(s, key, value)
         IN  /\ u \in Seq(X) /\ Len(u) = Cardinality(I)
             /\ \E q \in [1 .. Len(u) -> I] :
                  /\ Range(q) = I
                  /\ \A k \in 1 .. Len(u) : u[k] = s[q[k]]
                  /\ \A j, k \in 1 .. Len(u) : j < k => q[j] < q[k]
<1> DEFINE I == {i \in 1 .. Len(s) : s[i][key] = value}
           R == {p \in I \X I : p[1] < p[2]}
           u == Only(s, key, value)
<1>1. u = Picked(s, I, R)
  <2>1. DOMAIN s = 1 .. Len(s)
    OBVIOUS
  <2>2. QED
    BY <2>1 DEF Only
<1>2. I \in SUBSET (1 .. Len(s)) /\ Len(s) \in Nat
  OBVIOUS
<1>3. \A i, j \in I : <<i, j>> \in R <=> i < j
  OBVIOUS
<1> HIDE DEF I, R, u
<1>4. StrictTotal(R, I)
  BY <1>2, <1>3 DEF StrictTotal
<1>5. /\ u \in Seq(X) /\ Len(u) = Cardinality(I)
      /\ \E q \in [1 .. Cardinality(I) -> I] :
           /\ Range(q) = I
           /\ \A k \in 1 .. Cardinality(I) : u[k] = s[q[k]]
           /\ \A j, k \in 1 .. Cardinality(I) : j < k => <<q[j], q[k]>> \in R
  BY <1>1, <1>2, <1>4, PickedOrder
<1>6. PICK q \in [1 .. Len(u) -> I] :
        /\ Range(q) = I
        /\ \A k \in 1 .. Len(u) : u[k] = s[q[k]]
        /\ \A j, k \in 1 .. Len(u) : j < k => <<q[j], q[k]>> \in R
  BY <1>5
<1>7. \A j, k \in 1 .. Len(u) : j < k => q[j] < q[k]
  BY <1>3, <1>6
<1>8. QED
  BY <1>5, <1>6, <1>7 DEF I, u

\* SELECT ... WHERE
Matching(rows, key, value) == {r \in rows : r[key] = value}

\* A comprehension lists what passes, once.
LEMMA OnlyEntries ==
  ASSUME NEW X, NEW s \in Seq(X), NEW key, NEW value,
         \A i \in 1 .. Len(s) : s[i].id = i
  PROVE  LET u == Only(s, key, value)
             T == Matching(Range(s), key, value)
         IN  u \in Seq(X) /\ Range(u) = T /\ Cardinality(T) = Len(u)
<1> DEFINE I == {i \in 1 .. Len(s) : s[i][key] = value}
           u == Only(s, key, value)
           T == Matching(Range(s), key, value)
<1>1. u \in Seq(X) /\ Len(u) = Cardinality(I) /\ Len(u) \in Nat
  BY OnlyOrder
<1>2. PICK q \in [1 .. Len(u) -> I] :
        /\ Range(q) = I
        /\ \A k \in 1 .. Len(u) : u[k] = s[q[k]]
        /\ \A j, k \in 1 .. Len(u) : j < k => q[j] < q[k]
  BY OnlyOrder
<1>3. DOMAIN s = 1 .. Len(s) /\ DOMAIN q = 1 .. Len(u) /\ DOMAIN u = 1 .. Len(u)
  BY <1>1
<1>4. \A k \in 1 .. Len(u) : q[k] \in 1 .. Len(s) /\ s[q[k]][key] = value
  BY <1>2
<1>0. T = {r \in Range(s) : r[key] = value}
  BY DEF Matching
<1> HIDE DEF I, u, T
<1>5. \A k \in 1 .. Len(u) : u[k] \in T
  BY <1>0, <1>2, <1>3, <1>4 DEF Range
<1>6. \A x \in T : \E k \in 1 .. Len(u) : u[k] = x
  <2> SUFFICES ASSUME NEW x \in T PROVE \E k \in 1 .. Len(u) : u[k] = x
    OBVIOUS
  <2>1. PICK i \in 1 .. Len(s) : s[i] = x
    BY <1>0, <1>3 DEF Range
  <2>2. i \in I
    BY <1>0, <2>1 DEF I
  <2>3. PICK k \in 1 .. Len(u) : q[k] = i
    BY <1>2, <1>3, <2>2 DEF Range
  <2>4. QED
    BY <1>2, <2>1, <2>3
<1>7. u \in [1 .. Len(u) -> T] /\ Range(u) = T
  <2>1. u = [k \in 1 .. Len(u) |-> u[k]]
    BY <1>1
  <2>2. QED
    BY <1>3, <1>5, <1>6, <2>1 DEF Range
<1>8. \A j, k \in 1 .. Len(u) : u[j] = u[k] => j = k
  <2> SUFFICES ASSUME NEW j \in 1 .. Len(u), NEW k \in 1 .. Len(u), u[j] = u[k] PROVE j = k
    OBVIOUS
  <2>1. q[j] = q[k] /\ q[j] \in Nat
    BY <1>2, <1>4
  <2>2. ~(q[j] < q[k]) /\ ~(q[k] < q[j])
    BY <2>1
  <2>3. ~(j < k) /\ ~(k < j)
    BY <1>2, <2>2
  <2>4. QED
    BY <1>1, <2>3
<1>9. u \in Surjection(1 .. Len(u), T) /\ u \in Injection(1 .. Len(u), T)
  BY <1>3, <1>6, <1>7, <1>8 DEF Surjection, Injection, IsInjective
<1>10. IsFiniteSet(1 .. Len(u)) /\ Cardinality(1 .. Len(u)) = Len(u)
  BY <1>1, FS_Interval
<1>11. Cardinality(T) = Len(u)
  BY <1>9, <1>10, FS_Surjection
<1>12. QED
  BY <1>1, <1>7, <1>11 DEF u, T

\* What a comprehension lists of a table, in the order of the places, is an order of the rows
\* that pass by their stamps, if the stamps follow the places.
LEMMA OnlyIsOldest ==
  ASSUME NEW X, NEW s \in Seq(X), NEW key, NEW value,
         \A i \in 1 .. Len(s) : s[i].id = i,
         \A i, j \in 1 .. Len(s) :
           i < j /\ s[i][key] = value /\ s[j][key] = value => s[i].created <= s[j].created
  PROVE  Only(s, key, value) \in Oldest(Matching(Range(s), key, value))
<1> DEFINE I == {i \in 1 .. Len(s) : s[i][key] = value}
           u == Only(s, key, value)
           T == Matching(Range(s), key, value)
<1>1. u \in Seq(X) /\ Cardinality(T) = Len(u) /\ Range(u) = T
  BY OnlyEntries
<1>2. PICK q \in [1 .. Len(u) -> I] :
        /\ Range(q) = I
        /\ \A k \in 1 .. Len(u) : u[k] = s[q[k]]
        /\ \A j, k \in 1 .. Len(u) : j < k => q[j] < q[k]
  BY OnlyOrder
<1>3. \A k \in 1 .. Len(u) : q[k] \in 1 .. Len(s) /\ s[q[k]][key] = value
  BY <1>2
<1> HIDE DEF I, u, T
<1>4. DOMAIN u = 1 .. Len(u) /\ u = [k \in 1 .. Len(u) |-> u[k]]
  <2>1. Len(u) \in Nat
    BY <1>1
  <2>2. QED
    BY <1>1, <2>1
<1>5. u \in [1 .. Cardinality(T) -> T]
  BY <1>1, <1>4 DEF Range
<1>6. \A j, k \in DOMAIN u : j < k => u[j].created <= u[k].created
  BY <1>2, <1>3, <1>4
<1>7. QED
  BY <1>1, <1>5, <1>6 DEF Oldest, u, T

\* Sorting a sequence whose entries differ in the key is sorting its entries.
LEMMA SortedByIsBy ==
  ASSUME NEW X, NEW s \in Seq(X), NEW key,
         \A i \in 1 .. Len(s) : s[i][key] \in Nat,
         \A i, j \in 1 .. Len(s) : s[i][key] = s[j][key] => i = j
  PROVE  By(Range(s), key) = SortedBy(s, key)
<1> DEFINE I == 1 .. Len(s)
           R == {p \in I \X I : s[p[1]][key] < s[p[2]][key]
                                 \/ (s[p[1]][key] = s[p[2]][key] /\ p[1] < p[2])}
           u == SortedBy(s, key)
           T == Range(s)
           Q == {p \in T \X T : p[1][key] < p[2][key]}
<1>1. DOMAIN s = I /\ Len(s) \in Nat
  OBVIOUS
<1>2. u = Picked(s, I, R)
  BY <1>1 DEF SortedBy
<1>3. \A i, j \in I : <<i, j>> \in R <=> s[i][key] < s[j][key]
  <2>1. \A i, j \in I : <<i, j>> \in R <=> s[i][key] < s[j][key]
                                           \/ (s[i][key] = s[j][key] /\ i < j)
    OBVIOUS
  <2> HIDE DEF R
  <2>2. \A i, j \in I : s[i][key] = s[j][key] => ~(i < j)
    OBVIOUS
  <2>3. QED
    BY <2>1, <2>2
<1>4. \A i, j \in I : i # j => s[i][key] # s[j][key]
  OBVIOUS
<1>5. \A x \in T : \E i \in I : s[i] = x
  BY <1>1 DEF Range
<1>6. \A i \in I : s[i] \in T
  BY <1>1 DEF Range
<1>7. By(T, key) = Sorted(T, Q)
  BY DEF By
<1>8. \A x, y \in T : <<x, y>> \in Q <=> x[key] < y[key]
  OBVIOUS
<1>9. I \in SUBSET (1 .. Len(s)) /\ \A i \in I : s[i][key] \in Nat
  OBVIOUS
<1> HIDE DEF I, R, u, T, Q
<1>10. StrictTotal(R, I)
  BY <1>3, <1>4, <1>9 DEF StrictTotal
<1>11. /\ u \in Seq(X) /\ Len(u) = Cardinality(I) /\ Len(u) \in Nat
       /\ \E q \in [1 .. Cardinality(I) -> I] :
            /\ Range(q) = I
            /\ \A k \in 1 .. Cardinality(I) : u[k] = s[q[k]]
            /\ \A j, k \in 1 .. Cardinality(I) : j < k => <<q[j], q[k]>> \in R
  BY <1>2, <1>9, <1>10, PickedOrder
<1>12. PICK q \in [1 .. Len(u) -> I] :
         /\ Range(q) = I
         /\ \A k \in 1 .. Len(u) : u[k] = s[q[k]]
         /\ \A j, k \in 1 .. Len(u) : j < k => <<q[j], q[k]>> \in R
  BY <1>11
<1>13. \A k \in 1 .. Len(u) : q[k] \in I /\ u[k] \in T
  BY <1>6, <1>12
<1>14. \A i \in I : \E k \in 1 .. Len(u) : q[k] = i
  BY <1>12 DEF Range
<1>15. u \in [1 .. Len(u) -> T]
  <2>1. u = [k \in 1 .. Len(u) |-> u[k]]
    BY <1>11
  <2>2. QED
    BY <1>13, <2>1
<1>16. Range(u) = T
  <2>1. \A x \in T : \E k \in 1 .. Len(u) : u[k] = x
    BY <1>5, <1>12, <1>14
  <2>2. DOMAIN u = 1 .. Len(u)
    BY <1>11
  <2>3. QED
    BY <1>13, <2>1, <2>2 DEF Range
<1>17. \A j, k \in 1 .. Len(u) : j < k => <<u[j], u[k]>> \in Q
  <2> SUFFICES ASSUME NEW j \in 1 .. Len(u), NEW k \in 1 .. Len(u), j < k
               PROVE  <<u[j], u[k]>> \in Q
    OBVIOUS
  <2>1. s[q[j]][key] < s[q[k]][key]
    BY <1>3, <1>12, <1>13
  <2>2. u[j][key] < u[k][key]
    BY <1>12, <2>1
  <2>3. QED
    BY <1>8, <1>13, <2>2
<1>18. \A x, y \in T : ~(<<x, y>> \in Q /\ <<y, x>> \in Q)
  <2>1. \A x \in T : x[key] \in Nat
    BY <1>5, <1>9
  <2>2. \A x, y \in T : x[key] < y[key] => ~(y[key] < x[key])
    BY <2>1
  <2>3. QED
    BY <1>8, <2>2
<1>19. Sorted(T, Q) = u
  BY <1>11, <1>15, <1>16, <1>17, <1>18, OrderedIsSorted
<1>20. QED
  BY <1>7, <1>19 DEF T, u

-----------------------------------------------------------------------------
(* Greatest members. *)

\* A set of naturals that is not empty has a least member.
LEMMA Least == ASSUME NEW S \in SUBSET Nat, S # {} PROVE \E m \in S : \A n \in S : m <= n
<1>1. PICK R : IsWellFoundedOn(R, Nat) /\ \A x, y \in Nat : <<y, x>> \in R <=> y < x
  <2>1. IsWellFoundedOn(OpToRel(<, Nat), Nat)
    BY NatLessThanWellFounded
  <2>2. \A x, y \in Nat : <<y, x>> \in OpToRel(<, Nat) <=> y < x
    BY DEF OpToRel
  <2>3. QED
    BY <2>1, <2>2
<1>2. PICK x \in S : \A y \in S : ~(<<y, x>> \in R)
  BY <1>1, WFMin
<1>3. \A y \in S : ~(y < x)
  BY <1>1, <1>2
<1>4. QED
  BY <1>2, <1>3

LEMMA MaxOf ==
  ASSUME NEW S \in SUBSET Nat, S # {}, NEW m \in Nat, \A x \in S : x <= m
  PROVE  Max(S) \in S /\ Max(S) \in Nat /\ \A x \in S : x <= Max(S)
<1> DEFINE D == {m - x : x \in S}
<1>1. D \in SUBSET Nat /\ D # {}
  <2>1. \A x \in S : m - x \in Nat
    OBVIOUS
  <2>2. QED
    BY <2>1
<1>2. PICK d \in D : \A e \in D : d <= e
  <2> HIDE DEF D
  <2>1. QED
    BY <1>1, Least
<1>3. PICK x \in S : d = m - x
  OBVIOUS
<1>4. \A y \in S : m - x <= m - y
  BY <1>2, <1>3
<1>5. \A y \in S : x >= y
  BY <1>3, <1>4
<1>6. Max(S) \in S /\ \A y \in S : Max(S) >= y
  BY <1>3, <1>5 DEF Max
<1>7. QED
  BY <1>6

LEMMA MaxOfTwo ==
  ASSUME NEW a \in Int, NEW b \in Int
  PROVE  Max({a, b}) = IF a < b THEN b ELSE a
<1>1. \E x \in {a, b} : \A y \in {a, b} : x >= y
  <2>1. CASE a < b
    BY <2>1
  <2>2. CASE ~(a < b)
    BY <2>2
  <2>3. QED
    BY <2>1, <2>2
<1>2. Max({a, b}) \in {a, b} /\ \A y \in {a, b} : Max({a, b}) >= y
  BY <1>1 DEF Max
<1>3. QED
  BY <1>2

-----------------------------------------------------------------------------
(* The invariants. *)

Statuses == {"queued", "processing", "ready", "failed", "duplicate"}
Terminal == {"ready", "failed", "duplicate"}
Places   == {"bump", "mark", "profile", "chunks", "ready", "result", "report", "done"}

Row   == [id : Nat, file : Files, batch : Batches \union {None}, status : Statuses,
          created : Nat \ {0}, updated : Nat, profiled : BOOLEAN, count : Nat]
Piece == [doc : Nat, index : Nat]
Kept  == [id : Nat, doc : Nat, count : Nat, created : Nat \ {0}]
Batch == [total : Nat, created : Nat \ {0}]

Doubles == [docs : Seq(Row), batches : UNION {[B -> Batch] : B \in SUBSET Batches},
            chunks : Seq(Piece), bench : Seq(Kept), evals : Seq(Kept)]

\* The tables that hold the rows of some doubles.
Rows(m) == [docs |-> Range(m.docs), batches |-> m.batches, chunks |-> Range(m.chunks),
            bench |-> Range(m.bench), evals |-> Range(m.evals)]

Types ==
  /\ now \in Nat \ {0}
  /\ place \in Seq(Places)
  /\ mem \in Doubles
  /\ tab = Rows(mem)

\* Ids follow the insertions, and so do the stamps of uploads, which come one at a time; a
\* document has chunks only after its insert.
InOrder ==
  /\ Len(mem.docs) = Len(place)
  /\ \A i \in 1 .. Len(place) :
       /\ mem.docs[i].id = i
       /\ mem.docs[i].batch \in DOMAIN mem.batches \union {None}
  /\ \A i, j \in 1 .. Len(place) :
       i < j /\ mem.docs[i].batch # None /\ mem.docs[j].batch # None =>
         mem.docs[i].created <= mem.docs[j].created
  /\ \A i \in 1 .. Len(mem.chunks) :
       /\ mem.chunks[i].doc \in 1 .. Len(place)
       /\ place[mem.chunks[i].doc] \notin {"bump", "mark", "profile", "chunks"}
  /\ \A i, j \in 1 .. Len(mem.chunks) :
       mem.chunks[i].doc = mem.chunks[j].doc /\ mem.chunks[i].index = mem.chunks[j].index => i = j
  /\ \A i \in 1 .. Len(mem.bench) : mem.bench[i].id = i
  /\ \A i \in 1 .. Len(mem.evals) : mem.evals[i].id = i

\* What a row's handler or worker does next tells its status.
StatusAt(p) ==
  IF p = "bump" THEN {"queued", "duplicate"}
  ELSE IF p = "mark" THEN {"queued"}
  ELSE IF p \in {"profile", "chunks", "ready"} THEN {"processing"}
  ELSE IF p \in {"result", "report"} THEN {"ready", "failed"} ELSE Terminal

Placed ==
  /\ \A i \in 1 .. Len(place) :
       /\ mem.docs[i].status \in StatusAt(place[i])
       /\ mem.docs[i].created <= now /\ mem.docs[i].updated <= now
       /\ place[i] \in {"bump", "mark", "result"} => mem.docs[i].batch # None
       /\ place[i] = "bump" => mem.docs[i].updated = 0 /\ mem.docs[i].created + BumpTime >= now
  /\ \A b \in DOMAIN mem.batches : mem.batches[b].created <= now

\* Rows of a batch, by their places; those that count as finished; those it has counted.
Members(docs, b)       == {i \in DOMAIN docs : docs[i].batch = b}
Ended(docs, b)         == {i \in Members(docs, b) : docs[i].status \in Terminal}
Counted(docs, next, b) == {i \in Members(docs, b) : next[i] # "bump"}

Totals ==
  \A b \in DOMAIN mem.batches :
    mem.batches[b].total = Cardinality(Counted(mem.docs, place, b))

\* max(0.0, ...)
Since(start, time) == IF time > start THEN time - start ELSE 0
Stamp(row)         == IF row.updated # 0 THEN row.updated ELSE row.created

\* A batch at rest of as many rows as a client was told of.
Resting(docs, next, b, rows) ==
  /\ rows <= Cardinality(Members(docs, b))
  /\ rows = Cardinality(Members(docs, b)) => \A i \in Members(docs, b) : next[i] = "done"

Told == shown \in [Batches -> [elapsed : Nat, floor : Nat, rows : Nat]]

Pinned ==
  /\ \A b \in Batches :
       shown[b].rows # 0 =>
         /\ b \in DOMAIN mem.batches /\ Resting(mem.docs, place, b, shown[b].rows)
         /\ shown[b].rows = Cardinality(Members(mem.docs, b)) =>
              shown[b].elapsed = Since(mem.batches[b].created, LastAt(DbGroups(tab, b)))
  /\ poll.pc = "aggregate" =>
       /\ poll.rows \in Nat
       /\ poll.rows # 0 =>
            Resting(mem.docs, place, poll.batch, poll.rows) /\ poll.row.total = poll.rows

\* What a client was told is backed by a stamp, or the batch is not finished.
Backed(docs, start, floor, b) ==
  \E i \in Members(docs, b) : floor <= Since(start, Stamp(docs[i])) + BumpTime
Unfinished(docs, total, b) == total = 0 \/ Cardinality(Ended(docs, b)) < total

Timed ==
  /\ \A b \in Batches :
       /\ shown[b].floor <= shown[b].elapsed
       /\ b \notin DOMAIN mem.batches => shown[b].floor = 0
       /\ b \in DOMAIN mem.batches =>
            /\ shown[b].floor <= Since(mem.batches[b].created, now)
            /\ \/ Backed(mem.docs, mem.batches[b].created, shown[b].floor, b)
               \/ Unfinished(mem.docs, mem.batches[b].total, b)
  /\ poll.pc \in {"idle", "aggregate"}
  /\ poll.pc = "aggregate" =>
       /\ poll.batch \in DOMAIN mem.batches /\ poll.at \in Nat /\ poll.at <= now
       /\ poll.row \in Batch
       /\ poll.row.created = mem.batches[poll.batch].created
       /\ poll.row.total <= mem.batches[poll.batch].total
       /\ \/ Backed(mem.docs, poll.row.created, shown[poll.batch].floor, poll.batch)
          \/ Unfinished(mem.docs, poll.row.total, poll.batch)
       /\ poll.row.total = 0 /\ mem.batches[poll.batch].total > 0 =>
            \E i \in Members(mem.docs, poll.batch) : Stamp(mem.docs[i]) + BumpTime >= poll.at

-----------------------------------------------------------------------------
(* What a call does to the doubles, it does to the tables. *)

LEMMA RangeOfAppend ==
  ASSUME NEW X, NEW s \in Seq(X), NEW x \in X
  PROVE  Range(Append(s, x)) = Range(s) \union {x}
<1> DEFINE u == Append(s, x)
<1>1. DOMAIN s = 1 .. Len(s) /\ Len(s) \in Nat
  OBVIOUS
<1>2. DOMAIN u = 1 .. Len(s) + 1
  OBVIOUS
<1>3. \A i \in 1 .. Len(s) : u[i] = s[i]
  OBVIOUS
<1>4. u[Len(s) + 1] = x
  OBVIOUS
<1>5. \A i \in 1 .. Len(s) + 1 : i \in 1 .. Len(s) \/ i = Len(s) + 1
  BY <1>1
<1>6. \A i \in 1 .. Len(s) : i \in 1 .. Len(s) + 1
  BY <1>1
<1>7. Len(s) + 1 \in 1 .. Len(s) + 1
  BY <1>1
<1> HIDE DEF u
<1>8. Range(u) = Range(s) \union {x}
  BY <1>1, <1>2, <1>3, <1>4, <1>5, <1>6, <1>7 DEF Range
<1>9. QED
  BY <1>8 DEF u

LEMMA DistinctEntries ==
  ASSUME NEW X, NEW s \in Seq(X), \A i \in 1 .. Len(s) : s[i].id = i
  PROVE  IsFiniteSet(Range(s)) /\ Cardinality(Range(s)) = Len(s)
<1>1. DOMAIN s = 1 .. Len(s) /\ Len(s) \in Nat
  OBVIOUS
<1>2. \A i \in 1 .. Len(s) : s[i] \in Range(s)
  BY <1>1 DEF Range
<1>3. \A x \in Range(s) : \E i \in 1 .. Len(s) : s[i] = x
  BY <1>1 DEF Range
<1>4. \A i, j \in 1 .. Len(s) : s[i] = s[j] => i = j
  OBVIOUS
<1>5. s \in [1 .. Len(s) -> Range(s)]
  BY <1>1, <1>2
<1>6. s \in Surjection(1 .. Len(s), Range(s)) /\ s \in Injection(1 .. Len(s), Range(s))
  BY <1>3, <1>4, <1>5 DEF Surjection, Injection, IsInjective
<1>7. IsFiniteSet(1 .. Len(s)) /\ Cardinality(1 .. Len(s)) = Len(s)
  BY <1>1, FS_Interval
<1>8. QED
  BY <1>6, <1>7, FS_Surjection

LEMMA CreateMirrored ==
  ASSUME NEW m \in Doubles, NEW row \in Row, NEW n, n = MemCreate(m, row)
  PROVE  /\ n \in Doubles /\ n.docs = Append(m.docs, row)
         /\ n.batches = m.batches /\ n.chunks = m.chunks /\ n.bench = m.bench /\ n.evals = m.evals
         /\ DbCreate(Rows(m), row) = Rows(n)
<1>1. n \in Doubles /\ n.docs = Append(m.docs, row)
  <2>1. Append(m.docs, row) \in Seq(Row)
    BY DEF Doubles
  <2>2. n = [m EXCEPT !.docs = Append(m.docs, row)]
    BY DEF MemCreate
  <2>3. QED
    BY <2>1, <2>2 DEF Doubles
<1>2. n.batches = m.batches /\ n.chunks = m.chunks /\ n.bench = m.bench /\ n.evals = m.evals
  BY DEF MemCreate, Doubles
<1>3. Range(n.docs) = Range(m.docs) \union {row}
  BY <1>1, RangeOfAppend DEF Doubles
<1>4. DbCreate(Rows(m), row) = Rows(n)
  BY <1>2, <1>3 DEF DbCreate, Rows
<1>5. QED
  BY <1>1, <1>2, <1>4

LEMMA UpdateMirrored ==
  ASSUME NEW m \in Doubles, NEW d \in 1 .. Len(m.docs), NEW columns,
         NEW row, row = Written(m.docs[d], columns), row \in Row,
         \A i \in 1 .. Len(m.docs) : m.docs[i].id = i,
         NEW n, n = MemUpdate(m, d, columns)
  PROVE  /\ n \in Doubles /\ n.docs = [m.docs EXCEPT ![d] = row]
         /\ n.batches = m.batches /\ n.chunks = m.chunks /\ n.bench = m.bench /\ n.evals = m.evals
         /\ DbUpdate(Rows(m), d, columns) = Rows(n)
<1>1. m.docs \in Seq(Row) /\ DOMAIN m.docs = 1 .. Len(m.docs) /\ Len(m.docs) \in Nat
  BY DEF Doubles
<1>2. n.docs = [i \in 1 .. Len(m.docs) |->
                  IF m.docs[i].id = d THEN Written(m.docs[i], columns) ELSE m.docs[i]]
  BY <1>1 DEF MemUpdate, Doubles
<1>3. n.docs = [m.docs EXCEPT ![d] = row]
  <2>1. \A i \in 1 .. Len(m.docs) :
          (IF m.docs[i].id = d THEN Written(m.docs[i], columns) ELSE m.docs[i])
            = (IF i = d THEN row ELSE m.docs[i])
    OBVIOUS
  <2>2. n.docs = [i \in 1 .. Len(m.docs) |-> IF i = d THEN row ELSE m.docs[i]]
    BY <1>2, <2>1
  <2>3. QED
    BY <1>1, <2>2
<1>4. n.docs \in Seq(Row)
  BY <1>1, <1>3
<1>5. n.batches = m.batches /\ n.chunks = m.chunks /\ n.bench = m.bench /\ n.evals = m.evals
  BY DEF MemUpdate, Doubles
<1>6. n \in Doubles
  <2>1. n = [m EXCEPT !.docs = n.docs]
    BY DEF MemUpdate, Doubles
  <2>2. QED
    BY <1>4, <2>1 DEF Doubles
<1>7. {IF r.id = d THEN Written(r, columns) ELSE r : r \in Range(m.docs)} = Range(n.docs)
  <2>1. DOMAIN n.docs = 1 .. Len(m.docs)
    BY <1>2
  <2>2. \A i \in 1 .. Len(m.docs) :
          n.docs[i] = IF m.docs[i].id = d THEN Written(m.docs[i], columns) ELSE m.docs[i]
    BY <1>2
  <2>3. QED
    BY <1>1, <2>1, <2>2 DEF Range
<1>8. DbUpdate(Rows(m), d, columns) = Rows(n)
  <2> DEFINE D == {IF r.id = d THEN Written(r, columns) ELSE r : r \in Range(m.docs)}
  <2>1. Rows(m).docs = Range(m.docs)
    BY DEF Rows
  <2>2. DbUpdate(Rows(m), d, columns) = [Rows(m) EXCEPT !.docs = D]
    BY <2>1 DEF DbUpdate
  <2>3. D = Range(n.docs)
    BY <1>7
  <2> HIDE DEF D
  <2>4. QED
    BY <1>5, <2>2, <2>3 DEF Rows
<1>9. QED
  BY <1>3, <1>5, <1>6, <1>8

LEMMA ChunksMirrored ==
  ASSUME NEW m \in Doubles, NEW rows \in Seq(Piece), NEW n, n = MemInsertChunks(m, rows),
         \A i \in 1 .. Len(m.chunks), j \in 1 .. Len(rows) : m.chunks[i].doc # rows[j].doc
  PROVE  /\ n \in Doubles /\ n.docs = m.docs /\ n.batches = m.batches
         /\ n.chunks = m.chunks \o rows /\ n.bench = m.bench /\ n.evals = m.evals
         /\ DbInsertChunks(Rows(m), rows) = Rows(n)
<1>1. m.chunks \in Seq(Piece) /\ DOMAIN m.chunks = 1 .. Len(m.chunks) /\ Len(m.chunks) \in Nat
      /\ DOMAIN rows = 1 .. Len(rows) /\ Len(rows) \in Nat
  BY DEF Doubles
<1>2. n.docs = m.docs /\ n.batches = m.batches /\ n.chunks = m.chunks \o rows
      /\ n.bench = m.bench /\ n.evals = m.evals
  BY DEF MemInsertChunks, Doubles
<1>3. n \in Doubles
  <2>1. m.chunks \o rows \in Seq(Piece)
    BY <1>1
  <2>2. n = [m EXCEPT !.chunks = m.chunks \o rows]
    BY DEF MemInsertChunks
  <2>3. QED
    BY <2>1, <2>2 DEF Doubles
<1>4. Range(n.chunks) = Range(m.chunks) \union Range(rows)
  <2> DEFINE k == Len(m.chunks)
             l == Len(rows)
  <2>1. DOMAIN n.chunks = 1 .. k + l
    BY <1>1, <1>2
  <2>2. \A i \in 1 .. k : n.chunks[i] = m.chunks[i] /\ i \in 1 .. k + l
    BY <1>1, <1>2
  <2>3. \A j \in 1 .. l : n.chunks[k + j] = rows[j] /\ k + j \in 1 .. k + l
    BY <1>1, <1>2
  <2>4. \A i \in 1 .. k + l : i \in 1 .. k \/ (i - k \in 1 .. l /\ k + (i - k) = i)
    BY <1>1
  <2> HIDE DEF k, l
  <2>5. Range(n.chunks) \subseteq Range(m.chunks) \union Range(rows)
    <3> SUFFICES ASSUME NEW i \in 1 .. k + l PROVE n.chunks[i] \in Range(m.chunks) \union Range(rows)
      BY <2>1 DEF Range
    <3>1. CASE i \in 1 .. k
      BY <1>1, <2>2, <3>1 DEF Range, k
    <3>2. CASE i - k \in 1 .. l /\ k + (i - k) = i
      <4>1. n.chunks[i] = rows[i - k]
        BY <2>3, <3>2
      <4>2. QED
        BY <1>1, <3>2, <4>1 DEF Range, l
    <3>3. QED
      BY <2>4, <3>1, <3>2
  <2>6. Range(m.chunks) \subseteq Range(n.chunks)
    BY <1>1, <2>1, <2>2 DEF Range, k
  <2>7. Range(rows) \subseteq Range(n.chunks)
    BY <1>1, <2>1, <2>3 DEF Range, l
  <2>8. QED
    BY <2>5, <2>6, <2>7
<1>5. {r \in Range(m.chunks) :
         \A i \in DOMAIN rows : ~(r.doc = rows[i].doc /\ r.index = rows[i].index)} = Range(m.chunks)
  BY <1>1 DEF Range
<1>6. DbInsertChunks(Rows(m), rows) = Rows(n)
  <2> DEFINE C == {r \in Range(m.chunks) :
                     \A i \in DOMAIN rows : ~(r.doc = rows[i].doc /\ r.index = rows[i].index)}
  <2>1. Rows(m).chunks = Range(m.chunks)
    BY DEF Rows
  <2>2. DbInsertChunks(Rows(m), rows) = [Rows(m) EXCEPT !.chunks = C \union Range(rows)]
    BY <2>1 DEF DbInsertChunks
  <2>3. C = Range(m.chunks)
    BY <1>5
  <2> HIDE DEF C
  <2>4. QED
    BY <1>2, <1>4, <2>2, <2>3 DEF Rows
<1>7. QED
  BY <1>2, <1>3, <1>6

LEMMA BatchMirrored ==
  ASSUME NEW m \in Doubles, NEW b \in Batches, NEW at \in Nat \ {0}, NEW n,
         n = MemCreateBatch(m, b, at)
  PROVE  /\ n \in Doubles /\ n.docs = m.docs /\ n.chunks = m.chunks
         /\ n.bench = m.bench /\ n.evals = m.evals
         /\ n.batches = [x \in DOMAIN m.batches \union {b} |->
                           IF x = b THEN [total |-> 0, created |-> at] ELSE m.batches[x]]
         /\ DbCreateBatch(Rows(m), b, at) = Rows(n)
<1> DEFINE f == [x \in DOMAIN m.batches \union {b} |->
                  IF x = b THEN [total |-> 0, created |-> at] ELSE m.batches[x]]
<1>1. n = [m EXCEPT !.batches = f] /\ DbCreateBatch(Rows(m), b, at) = [Rows(m) EXCEPT !.batches = f]
  BY DEF MemCreateBatch, DbCreateBatch, Rows
<1>2. PICK B \in SUBSET Batches : m.batches \in [B -> Batch]
  BY DEF Doubles
<1>3. f \in [B \union {b} -> Batch] /\ B \union {b} \in SUBSET Batches
  BY <1>2 DEF Batch
<1> HIDE DEF f
<1>4. f \in UNION {[C -> Batch] : C \in SUBSET Batches}
  BY <1>3
<1>5. n \in Doubles /\ n.batches = f /\ n.docs = m.docs /\ n.chunks = m.chunks
      /\ n.bench = m.bench /\ n.evals = m.evals
  BY <1>1, <1>4 DEF Doubles
<1>6. QED
  BY <1>1, <1>5 DEF Rows, f

LEMMA BumpMirrored ==
  ASSUME NEW m \in Doubles, NEW b \in DOMAIN m.batches, NEW n, n = MemBump(m, b)
  PROVE  /\ n \in Doubles /\ n.docs = m.docs /\ n.chunks = m.chunks
         /\ n.bench = m.bench /\ n.evals = m.evals
         /\ DOMAIN n.batches = DOMAIN m.batches
         /\ \A x \in DOMAIN m.batches :
              /\ n.batches[x].created = m.batches[x].created
              /\ n.batches[x].total = IF x = b THEN m.batches[x].total + 1 ELSE m.batches[x].total
         /\ DbBump(Rows(m), b) = Rows(n)
<1> DEFINE f == [m.batches EXCEPT ![b].total = m.batches[b].total + 1]
<1>1. n = [m EXCEPT !.batches = f] /\ DbBump(Rows(m), b) = [Rows(m) EXCEPT !.batches = f]
  BY DEF MemBump, DbBump, Rows
<1>2. PICK B \in SUBSET Batches : m.batches \in [B -> Batch]
  BY DEF Doubles
<1>3. /\ f \in [B -> Batch]
      /\ \A x \in B : /\ f[x].created = m.batches[x].created
                      /\ f[x].total = IF x = b THEN m.batches[x].total + 1 ELSE m.batches[x].total
  BY <1>2 DEF Batch
<1> HIDE DEF f
<1>4. f \in UNION {[C -> Batch] : C \in SUBSET Batches}
  BY <1>2, <1>3
<1>5. n \in Doubles /\ n.batches = f /\ n.docs = m.docs /\ n.chunks = m.chunks
      /\ n.bench = m.bench /\ n.evals = m.evals
  BY <1>1, <1>4 DEF Doubles
<1>6. QED
  BY <1>1, <1>2, <1>3, <1>5 DEF Rows

LEMMA BenchmarkMirrored ==
  ASSUME NEW m \in Doubles, NEW row \in Row, NEW at \in Nat \ {0},
         NEW n, n = MemInsertBenchmark(m, row, at),
         \A i \in 1 .. Len(m.bench) : m.bench[i].id = i
  PROVE  /\ n \in Doubles /\ n.docs = m.docs /\ n.batches = m.batches /\ n.chunks = m.chunks
         /\ n.bench = Append(m.bench, Run(Len(m.bench) + 1, row, at)) /\ n.evals = m.evals
         /\ \A i \in 1 .. Len(n.bench) : n.bench[i].id = i
         /\ DbInsertBenchmark(Rows(m), row, at) = Rows(n)
<1> DEFINE r == Run(Len(m.bench) + 1, row, at)
<1>1. m.bench \in Seq(Kept) /\ Len(m.bench) \in Nat
  BY DEF Doubles
<1>2. r \in Kept /\ r.id = Len(m.bench) + 1
  BY <1>1 DEF Run, Kept, Row
<1>3. n = [m EXCEPT !.bench = Append(m.bench, r)]
  BY DEF MemInsertBenchmark
<1> HIDE DEF r
<1>4. n \in Doubles /\ n.bench = Append(m.bench, r)
      /\ n.docs = m.docs /\ n.batches = m.batches /\ n.chunks = m.chunks /\ n.evals = m.evals
  <2>1. Append(m.bench, r) \in Seq(Kept)
    BY <1>1, <1>2
  <2>2. QED
    BY <1>3, <2>1 DEF Doubles
<1>5. Cardinality(Range(m.bench)) = Len(m.bench)
  BY <1>1, DistinctEntries
<1>6. Range(n.bench) = Range(m.bench) \union {r}
  BY <1>1, <1>2, <1>4, RangeOfAppend
<1>7. DbInsertBenchmark(Rows(m), row, at) = Rows(n)
  <2>1. Rows(m).bench = Range(m.bench)
    BY DEF Rows
  <2>2. DbInsertBenchmark(Rows(m), row, at) = [Rows(m) EXCEPT !.bench = Range(m.bench) \union {r}]
    BY <1>5, <2>1 DEF DbInsertBenchmark, r
  <2>3. QED
    BY <1>4, <1>6, <2>2 DEF Rows
<1>8. \A i \in 1 .. Len(n.bench) : n.bench[i].id = i
  <2>1. Len(n.bench) = Len(m.bench) + 1
    BY <1>1, <1>2, <1>4
  <2>2. n.bench[Len(m.bench) + 1] = r
    BY <1>1, <1>2, <1>4
  <2>3. \A i \in 1 .. Len(m.bench) : n.bench[i] = m.bench[i]
    BY <1>1, <1>2, <1>4
  <2>4. \A i \in 1 .. Len(m.bench) + 1 : i \in 1 .. Len(m.bench) \/ i = Len(m.bench) + 1
    BY <1>1
  <2>5. QED
    BY <1>2, <2>1, <2>2, <2>3, <2>4
<1>9. QED
  BY <1>4, <1>7, <1>8 DEF r

LEMMA EvalMirrored ==
  ASSUME NEW m \in Doubles, NEW row \in Row, NEW at \in Nat \ {0},
         NEW n, n = MemInsertEval(m, row, at),
         \A i \in 1 .. Len(m.evals) : m.evals[i].id = i
  PROVE  /\ n \in Doubles /\ n.docs = m.docs /\ n.batches = m.batches /\ n.chunks = m.chunks
         /\ n.evals = Append(m.evals, Run(Len(m.evals) + 1, row, at)) /\ n.bench = m.bench
         /\ \A i \in 1 .. Len(n.evals) : n.evals[i].id = i
         /\ DbInsertEval(Rows(m), row, at) = Rows(n)
<1> DEFINE r == Run(Len(m.evals) + 1, row, at)
<1>1. m.evals \in Seq(Kept) /\ Len(m.evals) \in Nat
  BY DEF Doubles
<1>2. r \in Kept /\ r.id = Len(m.evals) + 1
  BY <1>1 DEF Run, Kept, Row
<1>3. n = [m EXCEPT !.evals = Append(m.evals, r)]
  BY DEF MemInsertEval
<1> HIDE DEF r
<1>4. n \in Doubles /\ n.evals = Append(m.evals, r)
      /\ n.docs = m.docs /\ n.batches = m.batches /\ n.chunks = m.chunks /\ n.bench = m.bench
  <2>1. Append(m.evals, r) \in Seq(Kept)
    BY <1>1, <1>2
  <2>2. QED
    BY <1>3, <2>1 DEF Doubles
<1>5. Cardinality(Range(m.evals)) = Len(m.evals)
  BY <1>1, DistinctEntries
<1>6. Range(n.evals) = Range(m.evals) \union {r}
  BY <1>1, <1>2, <1>4, RangeOfAppend
<1>7. DbInsertEval(Rows(m), row, at) = Rows(n)
  <2>1. Rows(m).evals = Range(m.evals)
    BY DEF Rows
  <2>2. DbInsertEval(Rows(m), row, at) = [Rows(m) EXCEPT !.evals = Range(m.evals) \union {r}]
    BY <1>5, <2>1 DEF DbInsertEval, r
  <2>3. QED
    BY <1>4, <1>6, <2>2 DEF Rows
<1>8. \A i \in 1 .. Len(n.evals) : n.evals[i].id = i
  <2>1. Len(n.evals) = Len(m.evals) + 1
    BY <1>1, <1>2, <1>4
  <2>2. n.evals[Len(m.evals) + 1] = r
    BY <1>1, <1>2, <1>4
  <2>3. \A i \in 1 .. Len(m.evals) : n.evals[i] = m.evals[i]
    BY <1>1, <1>2, <1>4
  <2>4. \A i \in 1 .. Len(m.evals) + 1 : i \in 1 .. Len(m.evals) \/ i = Len(m.evals) + 1
    BY <1>1
  <2>5. QED
    BY <1>2, <2>1, <2>2, <2>3, <2>4
<1>9. QED
  BY <1>4, <1>7, <1>8 DEF r

-----------------------------------------------------------------------------
(* What a step does to the rows. *)

\* From the time that create() and bump_total() may take together, which no commit exceeds.
Recent(t) == t \in 1 .. now /\ t + BumpTime >= now

SameRuns == mem'.bench = mem.bench /\ mem'.evals = mem.evals

Quiet == UNCHANGED <<mem, tab, place>>

Opened(b) ==
  /\ b \in Batches \ DOMAIN mem.batches
  /\ mem'.docs = mem.docs /\ mem'.chunks = mem.chunks /\ SameRuns /\ place' = place
  /\ DOMAIN mem'.batches = DOMAIN mem.batches \union {b}
  /\ mem'.batches[b].total = 0 /\ mem'.batches[b].created <= now
  /\ \A x \in DOMAIN mem.batches : mem'.batches[x] = mem.batches[x]

Grown(row, next) ==
  /\ row \in Row /\ row.id = Len(place) + 1 /\ row.updated = 0 /\ Recent(row.created)
  /\ row.batch \in DOMAIN mem.batches \union {None}
  /\ \A i \in 1 .. Len(place) :
       row.batch # None /\ mem.docs[i].batch # None => mem.docs[i].created <= row.created
  /\ next \in {"bump", "profile"} /\ row.status \in StatusAt(next)
  /\ next = "bump" <=> row.batch # None
  /\ mem'.docs = Append(mem.docs, row) /\ place' = Append(place, next)
  /\ mem'.batches = mem.batches /\ mem'.chunks = mem.chunks /\ SameRuns

CountedIn(d, next) ==
  /\ d \in 1 .. Len(place) /\ place[d] = "bump" /\ next \in {"mark", "done"}
  /\ mem.docs[d].status \in StatusAt(next) /\ mem.docs[d].batch # None
  /\ place' = [place EXCEPT ![d] = next]
  /\ DOMAIN mem'.batches = DOMAIN mem.batches
  /\ \A x \in DOMAIN mem.batches :
       /\ mem'.batches[x].created = mem.batches[x].created
       /\ mem'.batches[x].total =
            IF x = mem.docs[d].batch THEN mem.batches[x].total + 1 ELSE mem.batches[x].total
  /\ mem'.docs = mem.docs /\ mem'.chunks = mem.chunks /\ SameRuns

\* A row keeps its identity, and its stamps only rise.
Follows(row, old) ==
  /\ row.id = old.id /\ row.batch = old.batch /\ row.created = old.created
  /\ \/ row.status = old.status /\ row.updated = old.updated
     \/ row.updated >= Stamp(old) /\ Recent(row.updated)

Rewritten(d, row, next) ==
  /\ d \in 1 .. Len(place) /\ place[d] \notin {"bump", "done"}
  /\ next \in Places \ {"bump", "mark"}
  /\ next \in {"profile", "chunks"} => place[d] \in {"mark", "profile"}
  /\ row \in Row /\ Follows(row, mem.docs[d]) /\ row.status \in StatusAt(next)
  /\ next = "result" => row.batch # None
  /\ mem'.docs = [mem.docs EXCEPT ![d] = row] /\ place' = [place EXCEPT ![d] = next]
  /\ mem'.batches = mem.batches /\ mem'.chunks = mem.chunks /\ SameRuns

Chunked(d) ==
  /\ d \in 1 .. Len(place) /\ place[d] = "chunks" /\ place' = [place EXCEPT ![d] = "ready"]
  /\ mem'.chunks = mem.chunks \o [i \in 1 .. Pieces |-> ChunkRow(d, i - 1)]
  /\ mem'.docs = mem.docs /\ mem'.batches = mem.batches /\ SameRuns

Filed(d) ==
  /\ d \in 1 .. Len(place) /\ place[d] = "report" /\ place' = [place EXCEPT ![d] = "done"]
  /\ \A i \in 1 .. Len(mem'.bench) : mem'.bench[i].id = i
  /\ \A i \in 1 .. Len(mem'.evals) : mem'.evals[i].id = i
  /\ mem'.docs = mem.docs /\ mem'.batches = mem.batches /\ mem'.chunks = mem.chunks

Moved ==
  \/ Quiet
  \/ \E b \in Batches : Opened(b)
  \/ \E row, next : Grown(row, next)
  \/ \E d, next : CountedIn(d, next)
  \/ \E d, row, next : Rewritten(d, row, next)
  \/ \E d : Chunked(d) \/ Filed(d)

TableInv == Types /\ InOrder /\ Placed

LEMMA MemTypes ==
  ASSUME Types, InOrder
  PROVE  /\ mem.docs \in Seq(Row) /\ Len(mem.docs) = Len(place) /\ Len(place) \in Nat
         /\ DOMAIN mem.docs = 1 .. Len(place) /\ DOMAIN place = 1 .. Len(place)
         /\ \A i \in 1 .. Len(place) :
              /\ mem.docs[i] \in Row /\ mem.docs[i].created \in Nat \ {0}
              /\ mem.docs[i].updated \in Nat /\ mem.docs[i].id = i
              /\ place[i] \in Places /\ mem.docs[i] \in tab.docs
         /\ \A r \in tab.docs : r.id \in 1 .. Len(place) /\ r = mem.docs[r.id]
         /\ DOMAIN mem.batches \in SUBSET Batches
         /\ \A b \in DOMAIN mem.batches :
              /\ mem.batches[b] \in Batch /\ mem.batches[b].total \in Nat
              /\ mem.batches[b].created \in Nat \ {0}
         /\ tab.batches = mem.batches /\ tab.docs = Range(mem.docs)
         /\ now \in Nat \ {0} /\ BumpTime \in Nat
<1>1. mem \in Doubles /\ tab = Rows(mem) /\ now \in Nat \ {0} /\ place \in Seq(Places)
  BY DEF Types
<1>2. mem.docs \in Seq(Row) /\ Len(mem.docs) = Len(place) /\ Len(place) \in Nat
      /\ DOMAIN mem.docs = 1 .. Len(place) /\ DOMAIN place = 1 .. Len(place)
  BY <1>1 DEF Doubles, InOrder
<1>3. tab.batches = mem.batches /\ tab.docs = Range(mem.docs)
  BY <1>1 DEF Rows
<1>4. \A i \in 1 .. Len(place) :
        /\ mem.docs[i] \in Row /\ mem.docs[i].id = i /\ place[i] \in Places
  BY <1>1, <1>2 DEF InOrder
<1>5. \A i \in 1 .. Len(place) :
        /\ mem.docs[i].created \in Nat \ {0} /\ mem.docs[i].updated \in Nat
        /\ mem.docs[i] \in tab.docs
  BY <1>2, <1>3, <1>4 DEF Row, Range
<1>6. \A r \in tab.docs : r.id \in 1 .. Len(place) /\ r = mem.docs[r.id]
  <2> SUFFICES ASSUME NEW r \in tab.docs PROVE r.id \in 1 .. Len(place) /\ r = mem.docs[r.id]
    OBVIOUS
  <2>1. PICK i \in 1 .. Len(place) : mem.docs[i] = r
    BY <1>2, <1>3 DEF Range
  <2>2. QED
    BY <1>4, <2>1
<1>7. PICK B \in SUBSET Batches : mem.batches \in [B -> Batch]
  BY <1>1 DEF Doubles
<1>8. \A b \in B : /\ mem.batches[b] \in Batch /\ mem.batches[b].total \in Nat
                   /\ mem.batches[b].created \in Nat \ {0}
  BY <1>7 DEF Batch
<1>9. BumpTime \in Nat
  BY BoundAssumption
<1>10. QED
  BY <1>1, <1>2, <1>3, <1>4, <1>5, <1>6, <1>7, <1>8, <1>9

LEMMA RowIs ==
  ASSUME Types, InOrder, NEW d \in 1 .. Len(place)
  PROVE  RowOf(d) = mem.docs[d]
<1>1. mem.docs[d] \in tab.docs /\ mem.docs[d].id = d
  BY MemTypes
<1>2. \A r \in tab.docs : r.id = d => r = mem.docs[d]
  BY MemTypes
<1>3. QED
  BY <1>1, <1>2 DEF RowOf

\* A stamp comes after what its actor has seen.
LEMMA LastUploadBounds ==
  ASSUME TableInv
  PROVE  /\ LastUpload \in Nat
         /\ \A i \in 1 .. Len(place) : mem.docs[i].batch # None => mem.docs[i].created <= LastUpload
<1> USE DEF TableInv
<1> DEFINE S == {0} \union {r.created : r \in {x \in tab.docs : x.batch # None}}
<1>1. \A r \in tab.docs : r.created \in Nat /\ r.created <= now
  BY MemTypes DEF Placed
<1>2. S \in SUBSET Nat /\ S # {} /\ \A x \in S : x <= now
  BY <1>1, MemTypes
<1>3. now \in Nat
  BY MemTypes
<1>4. \A i \in 1 .. Len(place) : mem.docs[i].batch # None => mem.docs[i].created \in S
  BY MemTypes
<1>5. LastUpload = Max(S)
  BY DEF LastUpload
<1> HIDE DEF S
<1>6. QED
  BY <1>2, <1>3, <1>4, <1>5, MaxOf

LEMMA LastStampIs ==
  ASSUME Types, InOrder, NEW d \in 1 .. Len(place)
  PROVE  LastStamp(d) \in Nat /\ LastStamp(d) >= Stamp(mem.docs[d])
<1> DEFINE r == mem.docs[d]
<1>1. RowOf(d) = r /\ r.created \in Nat /\ r.updated \in Nat
  BY RowIs, MemTypes
<1>2. LastStamp(d) = IF r.created < r.updated THEN r.updated ELSE r.created
  BY <1>1, MaxOfTwo DEF LastStamp
<1>3. QED
  BY <1>1, <1>2 DEF Stamp

LEMMA StampsAreRecent ==
  ASSUME NEW after \in Nat, NEW t \in Stamps(after), now \in Nat
  PROVE  Recent(t) /\ t \in Nat \ {0} /\ t <= now /\ t >= after
BY BoundAssumption DEF Stamps, Recent

LEMMA CreateGrows ==
  ASSUME TableInv, NEW file \in Files, NEW batch \in DOMAIN mem.batches \union {None},
         NEW status, NEW next \in {"bump", "profile"}, status \in StatusAt(next),
         next = "bump" <=> batch # None,
         NEW after \in Nat, batch # None => after >= LastUpload,
         Create(file, batch, status, next, after)
  PROVE  mem' \in Doubles /\ tab' = Rows(mem') /\ \E row : Grown(row, next)
<1> USE DEF TableInv
<1>1. PICK at \in Stamps(after) :
        /\ tab' = DbCreate(tab, DocumentRow(Len(place) + 1, file, batch, status, at))
        /\ mem' = MemCreate(mem, DocumentRow(Len(place) + 1, file, batch, status, at))
        /\ place' = Append(place, next)
  BY DEF Create
<1> DEFINE row == DocumentRow(Len(place) + 1, file, batch, status, at)
<1>2. Recent(at) /\ at \in Nat \ {0} /\ at >= after
  BY StampsAreRecent, MemTypes
<1>3. row \in Row /\ row.id = Len(place) + 1 /\ row.updated = 0 /\ row.created = at
      /\ row.batch = batch /\ row.status = status
  <2>1. batch \in Batches \union {None} /\ status \in Statuses /\ Len(place) + 1 \in Nat
    BY MemTypes DEF StatusAt, Statuses, Terminal
  <2>2. QED
    BY <1>2, <2>1 DEF DocumentRow, Row
<1>4. \A i \in 1 .. Len(place) :
        batch # None /\ mem.docs[i].batch # None => mem.docs[i].created <= at
  <2>1. \A i \in 1 .. Len(place) :
          /\ mem.docs[i].created \in Nat
          /\ mem.docs[i].batch # None => mem.docs[i].created <= LastUpload
    BY LastUploadBounds, MemTypes
  <2>2. LastUpload \in Nat
    BY LastUploadBounds
  <2>3. QED
    BY <1>2, <2>1, <2>2
<1> HIDE DEF row
<1>5. /\ mem' \in Doubles /\ mem'.docs = Append(mem.docs, row)
      /\ mem'.batches = mem.batches /\ mem'.chunks = mem.chunks
      /\ mem'.bench = mem.bench /\ mem'.evals = mem.evals
      /\ DbCreate(Rows(mem), row) = Rows(mem')
  <2>1. mem \in Doubles /\ mem' = MemCreate(mem, row)
    BY <1>1 DEF Types, row
  <2>2. QED
    BY <1>3, <2>1, CreateMirrored
<1>6. tab' = Rows(mem')
  BY <1>1, <1>5 DEF Types, row
<1>7. Grown(row, next)
  BY <1>1, <1>2, <1>3, <1>4, <1>5 DEF Grown, SameRuns
<1>8. QED
  BY <1>5, <1>6, <1>7

LEMMA UploadGrows ==
  ASSUME TableInv, NEW file \in Files, NEW b \in Batches, NEW dedup \in BOOLEAN, Upload(file, b, dedup)
  PROVE  mem' \in Doubles /\ tab' = Rows(mem') /\ \E row : Grown(row, "bump")
<1> USE DEF TableInv
<1> DEFINE status == IF dedup /\ << >> \notin DbFind(tab, file) THEN "duplicate" ELSE "queued"
           after == Max({LastUpload, tab.batches[b].created})
<1>1. b \in DOMAIN mem.batches /\ tab.batches[b].created \in Nat
  BY MemTypes DEF Upload
<1>2. LastUpload \in Nat
  BY LastUploadBounds
<1>3. after \in Nat /\ after >= LastUpload
  BY <1>1, <1>2, MaxOfTwo
<1>4. status \in StatusAt("bump")
  BY DEF StatusAt
<1>5. Create(file, b, status, "bump", after)
  BY DEF Upload
<1>6. b # None
  BY NoneAssumption
<1> HIDE DEF status, after
<1>7. QED
  BY <1>1, <1>3, <1>4, <1>5, <1>6, CreateGrows

LEMMA IngestGrows ==
  ASSUME TableInv, NEW file \in Files, Ingest(file)
  PROVE  mem' \in Doubles /\ tab' = Rows(mem') /\ \E row : Grown(row, "profile")
<1>2. "processing" \in StatusAt("profile")
  BY DEF StatusAt
<1>3. Create(file, None, "processing", "profile", 0)
  BY DEF Ingest
<1>4. QED
  BY <1>2, <1>3, CreateGrows

LEMMA CreateOpens ==
  ASSUME TableInv, NEW b \in Batches, CreateBatch(b)
  PROVE  mem' \in Doubles /\ tab' = Rows(mem') /\ Opened(b)
<1> USE DEF TableInv
<1>1. PICK at \in Stamps(0) : tab' = DbCreateBatch(tab, b, at) /\ mem' = MemCreateBatch(mem, b, at)
  BY DEF CreateBatch
<1>2. at \in Nat \ {0} /\ at <= now
  BY StampsAreRecent, MemTypes
<1>3. mem \in Doubles /\ tab = Rows(mem)
  BY DEF Types
<1>4. /\ mem' \in Doubles /\ mem'.docs = mem.docs /\ mem'.chunks = mem.chunks
      /\ mem'.bench = mem.bench /\ mem'.evals = mem.evals
      /\ mem'.batches = [x \in DOMAIN mem.batches \union {b} |->
                           IF x = b THEN [total |-> 0, created |-> at] ELSE mem.batches[x]]
      /\ DbCreateBatch(Rows(mem), b, at) = Rows(mem')
  BY <1>1, <1>2, <1>3, BatchMirrored
<1>5. b \notin DOMAIN mem.batches /\ place' = place
  BY MemTypes DEF CreateBatch
<1>6. QED
  BY <1>1, <1>2, <1>3, <1>4, <1>5 DEF Opened, SameRuns

LEMMA BumpCounts ==
  ASSUME TableInv, NEW d \in 1 .. Len(place), Bump(d)
  PROVE  mem' \in Doubles /\ tab' = Rows(mem') /\ \E next : CountedIn(d, next)
<1> USE DEF TableInv
<1>1. RowOf(d) = mem.docs[d]
  BY RowIs
<1> DEFINE b == mem.docs[d].batch
           next == IF mem.docs[d].status = "duplicate" THEN "done" ELSE "mark"
<1>2. place[d] = "bump" /\ tab' = DbBump(tab, b) /\ mem' = MemBump(mem, b)
      /\ place' = [place EXCEPT ![d] = next]
  BY <1>1 DEF Bump
<1>3. mem.docs[d].status \in {"queued", "duplicate"} /\ b # None
  BY <1>2 DEF Placed, StatusAt
<1>4. b \in DOMAIN mem.batches
  BY <1>3 DEF InOrder
<1>5. next \in {"mark", "done"} /\ mem.docs[d].status \in StatusAt(next)
  BY <1>3 DEF StatusAt, Terminal
<1>6. mem \in Doubles /\ tab = Rows(mem)
  BY DEF Types
<1> HIDE DEF b, next
<1>7. /\ mem' \in Doubles /\ mem'.docs = mem.docs /\ mem'.chunks = mem.chunks
      /\ mem'.bench = mem.bench /\ mem'.evals = mem.evals
      /\ DOMAIN mem'.batches = DOMAIN mem.batches
      /\ \A x \in DOMAIN mem.batches :
           /\ mem'.batches[x].created = mem.batches[x].created
           /\ mem'.batches[x].total = IF x = b THEN mem.batches[x].total + 1 ELSE mem.batches[x].total
      /\ DbBump(Rows(mem), b) = Rows(mem')
  BY <1>2, <1>4, <1>6, BumpMirrored
<1>8. CountedIn(d, next)
  BY <1>2, <1>3, <1>5, <1>7 DEF CountedIn, SameRuns, b
<1>9. QED
  BY <1>2, <1>6, <1>7, <1>8

\* An UPDATE of the row of d.
LEMMA UpdateRewrites ==
  ASSUME TableInv, NEW d \in 1 .. Len(place), NEW columns, NEW next \in Places,
         NEW row, row = Written(mem.docs[d], columns), row \in Row, Follows(row, mem.docs[d]),
         row.status \in StatusAt(next), next = "result" => row.batch # None,
         place[d] \notin {"bump", "done"}, next \notin {"bump", "mark"},
         next \in {"profile", "chunks"} => place[d] \in {"mark", "profile"},
         mem' = MemUpdate(mem, d, columns), tab' = DbUpdate(tab, d, columns),
         place' = [place EXCEPT ![d] = next]
  PROVE  mem' \in Doubles /\ tab' = Rows(mem') /\ Rewritten(d, row, next)
<1> USE DEF TableInv
<1>1. mem \in Doubles /\ tab = Rows(mem) /\ Len(mem.docs) = Len(place)
      /\ \A i \in 1 .. Len(mem.docs) : mem.docs[i].id = i
  BY MemTypes DEF Types
<1>2. /\ mem' \in Doubles /\ mem'.docs = [mem.docs EXCEPT ![d] = row]
      /\ mem'.batches = mem.batches /\ mem'.chunks = mem.chunks
      /\ mem'.bench = mem.bench /\ mem'.evals = mem.evals
      /\ DbUpdate(Rows(mem), d, columns) = Rows(mem')
  BY <1>1, UpdateMirrored
<1>3. QED
  BY <1>1, <1>2 DEF Rewritten, SameRuns

LEMMA StatusRewrites ==
  ASSUME TableInv, NEW d \in 1 .. Len(place), NEW status, NEW next \in Places,
         status \in StatusAt(next), next = "result" => mem.docs[d].batch # None,
         place[d] \notin {"bump", "done"}, next \notin {"bump", "mark"},
         next \in {"profile", "chunks"} => place[d] \in {"mark", "profile"},
         SetStatus(d, status, next)
  PROVE  mem' \in Doubles /\ tab' = Rows(mem') /\ \E row : Rewritten(d, row, next)
<1> USE DEF TableInv
<1>1. PICK at \in Stamps(LastStamp(d)) :
        /\ tab' = DbUpdate(tab, d, [status |-> status, updated |-> at])
        /\ mem' = MemUpdate(mem, d, [status |-> status, updated |-> at])
        /\ place' = [place EXCEPT ![d] = next]
  BY DEF SetStatus, DbSetStatus, MemSetStatus
<1>2. LastStamp(d) \in Nat /\ LastStamp(d) >= Stamp(mem.docs[d])
  BY LastStampIs
<1>3. Recent(at) /\ at \in Nat /\ at >= LastStamp(d)
  BY <1>2, StampsAreRecent, MemTypes
<1>4. mem.docs[d] \in Row /\ Stamp(mem.docs[d]) \in Nat
  BY MemTypes DEF Stamp
<1>5. status \in Statuses
  BY DEF StatusAt, Statuses, Terminal
<1> DEFINE row == Written(mem.docs[d], [status |-> status, updated |-> at])
<1>6. /\ row \in Row /\ row.id = mem.docs[d].id /\ row.batch = mem.docs[d].batch
      /\ row.created = mem.docs[d].created /\ row.status = status /\ row.updated = at
  BY <1>3, <1>4, <1>5 DEF Written, Row
<1> HIDE DEF row
<1>7. Follows(row, mem.docs[d])
  BY <1>2, <1>3, <1>4, <1>6 DEF Follows
<1>8. QED
  BY <1>1, <1>6, <1>7, UpdateRewrites DEF row

LEMMA ProfileRewrites ==
  ASSUME TableInv, NEW d \in 1 .. Len(place), UpdateProfile(d)
  PROVE  mem' \in Doubles /\ tab' = Rows(mem') /\ \E row : Rewritten(d, row, "chunks")
<1> USE DEF TableInv
<1>1. /\ place[d] = "profile" /\ place' = [place EXCEPT ![d] = "chunks"]
      /\ tab' = DbUpdate(tab, d, [profiled |-> TRUE]) /\ mem' = MemUpdate(mem, d, [profiled |-> TRUE])
  BY DEF UpdateProfile, DbUpdateProfile, MemUpdateProfile
<1>2. mem.docs[d] \in Row /\ mem.docs[d].status = "processing"
  BY <1>1, MemTypes DEF Placed, StatusAt
<1> DEFINE row == Written(mem.docs[d], [profiled |-> TRUE])
<1>3. /\ row \in Row /\ row.id = mem.docs[d].id /\ row.batch = mem.docs[d].batch
      /\ row.created = mem.docs[d].created /\ row.status = mem.docs[d].status
      /\ row.updated = mem.docs[d].updated
  BY <1>2 DEF Written, Row
<1> HIDE DEF row
<1>4. Follows(row, mem.docs[d]) /\ row.status \in StatusAt("chunks")
  BY <1>2, <1>3 DEF Follows, StatusAt
<1>5. "chunks" \in Places
  BY DEF Places
<1>6. QED
  BY <1>1, <1>3, <1>4, <1>5, UpdateRewrites DEF row

LEMMA CountIsNat == ASSUME TableInv, NEW d \in 1 .. Len(place) PROVE Count(d) \in Nat
<1> USE DEF TableInv
<1> DEFINE C == {r \in tab.chunks : r.doc = d}
<1>1. mem.chunks \in Seq(Piece) /\ tab.chunks = Range(mem.chunks)
  BY DEF Types, Doubles, Rows
<1>2. DOMAIN mem.chunks = 1 .. Len(mem.chunks) /\ Len(mem.chunks) \in Nat
  BY <1>1
<1>3. IsFiniteSet(Range(mem.chunks))
  <2> DEFINE c == mem.chunks
  <2>0. c \in Seq(Piece) /\ DOMAIN c = 1 .. Len(c)
    BY <1>1, <1>2
  <2> HIDE DEF c
  <2>1. c \in Surjection(1 .. Len(c), Range(c))
    <3>1. c \in [1 .. Len(c) -> Range(c)]
      BY <2>0 DEF Range
    <3>2. \A x \in Range(c) : \E i \in 1 .. Len(c) : c[i] = x
      BY <2>0 DEF Range
    <3>3. QED
      BY <3>1, <3>2 DEF Surjection
  <2>2. IsFiniteSet(1 .. Len(c))
    BY <1>2, FS_Interval DEF c
  <2>3. IsFiniteSet(Range(c))
    BY <2>1, <2>2, FS_Surjection
  <2>4. QED
    BY <2>3 DEF c
<1>4. IsFiniteSet(C)
  <2>1. C \in SUBSET Range(mem.chunks)
    BY <1>1
  <2>2. QED
    BY <1>3, <2>1, FS_Subset
<1>5. Cardinality(C) \in Nat
  BY <1>4, FS_CardinalityType
<1>6. DbChunksOf(tab, d) = By(C, "index")
  BY DEF DbChunksOf
<1> HIDE DEF C
<1>7. Len(By(C, "index")) = Cardinality(C)
  BY <1>5 DEF By, Sorted
<1>8. QED
  BY <1>5, <1>6, <1>7 DEF Count

LEMMA ResultRewrites ==
  ASSUME TableInv, NEW d \in 1 .. Len(place), SetResult(d)
  PROVE  mem' \in Doubles /\ tab' = Rows(mem') /\ \E row : Rewritten(d, row, "done")
<1> USE DEF TableInv
<1> DEFINE old == mem.docs[d]
<1>1. RowOf(d) = old /\ old \in Row
  BY RowIs, MemTypes
<1>2. PICK at \in Stamps(LastStamp(d)) :
        /\ tab' = DbUpdate(tab, d, [status |-> old.status, count |-> Count(d), updated |-> at])
        /\ mem' = MemUpdate(mem, d, [status |-> old.status, count |-> Count(d), updated |-> at])
  BY <1>1 DEF SetResult, DbSetResult, MemSetResult
<1>3. place[d] = "result" /\ place' = [place EXCEPT ![d] = "done"]
  BY DEF SetResult
<1>4. old.status \in {"ready", "failed"}
  BY <1>3 DEF Placed, StatusAt
<1>5. LastStamp(d) \in Nat /\ LastStamp(d) >= Stamp(old)
  BY LastStampIs
<1>6. Recent(at) /\ at \in Nat /\ at >= LastStamp(d)
  BY <1>5, StampsAreRecent, MemTypes
<1>7. Stamp(old) \in Nat
  BY MemTypes DEF Stamp
<1> DEFINE row == Written(old, [status |-> old.status, count |-> Count(d), updated |-> at])
<1>8. /\ row \in Row /\ row.id = old.id /\ row.batch = old.batch
      /\ row.created = old.created /\ row.status = old.status /\ row.updated = at
  BY <1>1, <1>6, CountIsNat DEF Written, Row
<1> HIDE DEF row
<1>9. Follows(row, old) /\ row.status \in StatusAt("done")
  BY <1>4, <1>5, <1>6, <1>7, <1>8 DEF Follows, StatusAt, Terminal
<1>10. "done" \in Places
  BY DEF Places
<1>11. QED
  BY <1>2, <1>3, <1>8, <1>9, <1>10, UpdateRewrites DEF row

LEMMA InsertChunksMoves ==
  ASSUME TableInv, NEW d \in 1 .. Len(place), InsertChunks(d)
  PROVE  mem' \in Doubles /\ tab' = Rows(mem') /\ Chunked(d)
<1> USE DEF TableInv
<1> DEFINE rows == [i \in 1 .. Pieces |-> ChunkRow(d, i - 1)]
<1>1. place[d] = "chunks" /\ place' = [place EXCEPT ![d] = "ready"]
      /\ tab' = DbInsertChunks(tab, rows) /\ mem' = MemInsertChunks(mem, rows)
  BY DEF InsertChunks
<1>2. rows \in Seq(Piece) /\ \A i \in 1 .. Len(rows) : rows[i].doc = d
  <2>1. Pieces \in Nat
    BY BoundAssumption
  <2>2. \A i \in 1 .. Pieces : ChunkRow(d, i - 1) \in Piece /\ ChunkRow(d, i - 1).doc = d
    BY <2>1, MemTypes DEF ChunkRow, Piece
  <2>3. QED
    BY <2>1, <2>2
<1>3. \A i \in 1 .. Len(mem.chunks) : mem.chunks[i].doc # d
  BY <1>1 DEF InOrder
<1>4. mem \in Doubles /\ tab = Rows(mem)
  BY DEF Types
<1> HIDE DEF rows
<1>5. /\ mem' \in Doubles /\ mem'.docs = mem.docs /\ mem'.batches = mem.batches
      /\ mem'.chunks = mem.chunks \o rows /\ mem'.bench = mem.bench /\ mem'.evals = mem.evals
      /\ DbInsertChunks(Rows(mem), rows) = Rows(mem')
  BY <1>1, <1>2, <1>3, <1>4, ChunksMirrored
<1>6. QED
  BY <1>1, <1>4, <1>5 DEF Chunked, SameRuns, rows

LEMMA BenchmarkFiles ==
  ASSUME TableInv, NEW d \in 1 .. Len(place), RecordBenchmark(d)
  PROVE  mem' \in Doubles /\ tab' = Rows(mem') /\ Filed(d)
<1> USE DEF TableInv
<1> DEFINE row == [RowOf(d) EXCEPT !.count = Count(d)]
<1>0. place[d] = "report" /\ place' = [place EXCEPT ![d] = "done"]
  BY DEF RecordBenchmark
<1>1. PICK at \in Stamps(0) :
        tab' = DbInsertBenchmark(tab, row, at) /\ mem' = MemInsertBenchmark(mem, row, at)
  BY DEF RecordBenchmark
<1>7. at \in Nat \ {0}
  BY StampsAreRecent, MemTypes
<1>2. row \in Row
  <2>1. RowOf(d) \in Row /\ Count(d) \in Nat
    BY RowIs, MemTypes, CountIsNat
  <2>2. QED
    BY <2>1 DEF Row
<1>3. mem \in Doubles /\ tab = Rows(mem) /\ \A i \in 1 .. Len(mem.bench) : mem.bench[i].id = i
  BY DEF Types, InOrder
<1> HIDE DEF row
<1>4. /\ mem' \in Doubles /\ mem'.docs = mem.docs /\ mem'.batches = mem.batches
      /\ mem'.chunks = mem.chunks /\ mem'.evals = mem.evals
      /\ \A i \in 1 .. Len(mem'.bench) : mem'.bench[i].id = i
      /\ DbInsertBenchmark(Rows(mem), row, at) = Rows(mem')
  BY <1>1, <1>2, <1>3, <1>7, BenchmarkMirrored
<1>5. \A i \in 1 .. Len(mem'.evals) : mem'.evals[i].id = i
  BY <1>4 DEF InOrder
<1>6. QED
  BY <1>0, <1>1, <1>3, <1>4, <1>5 DEF Filed

LEMMA EvalFiles ==
  ASSUME TableInv, NEW d \in 1 .. Len(place), RecordEval(d)
  PROVE  mem' \in Doubles /\ tab' = Rows(mem') /\ Filed(d)
<1> USE DEF TableInv
<1>0. place[d] = "report" /\ place' = [place EXCEPT ![d] = "done"]
  BY DEF RecordEval
<1>1. PICK at \in Stamps(0) :
        tab' = DbInsertEval(tab, RowOf(d), at) /\ mem' = MemInsertEval(mem, RowOf(d), at)
  BY DEF RecordEval
<1>7. at \in Nat \ {0}
  BY StampsAreRecent, MemTypes
<1>2. RowOf(d) \in Row
  BY RowIs, MemTypes
<1>3. mem \in Doubles /\ tab = Rows(mem) /\ \A i \in 1 .. Len(mem.evals) : mem.evals[i].id = i
  BY DEF Types, InOrder
<1>4. /\ mem' \in Doubles /\ mem'.docs = mem.docs /\ mem'.batches = mem.batches
      /\ mem'.chunks = mem.chunks /\ mem'.bench = mem.bench
      /\ \A i \in 1 .. Len(mem'.evals) : mem'.evals[i].id = i
      /\ DbInsertEval(Rows(mem), RowOf(d), at) = Rows(mem')
  BY <1>1, <1>2, <1>3, <1>7, EvalMirrored
<1>5. \A i \in 1 .. Len(mem'.bench) : mem'.bench[i].id = i
  BY <1>4 DEF InOrder
<1>6. QED
  BY <1>0, <1>1, <1>3, <1>4, <1>5 DEF Filed

\* The steps of a row's handler or worker.
LEMMA RowStepMoves ==
  ASSUME TableInv, NEW d \in 1 .. Len(place),
         \/ Bump(d) \/ MarkProcessing(d) \/ UpdateProfile(d) \/ InsertChunks(d)
         \/ SetReady(d) \/ Fail(d) \/ SetResult(d) \/ RecordBenchmark(d) \/ RecordEval(d)
  PROVE  mem' \in Doubles /\ tab' = Rows(mem') /\ Moved /\ UNCHANGED <<now, poll, shown>>
<1> DEFINE Goal == mem' \in Doubles /\ tab' = Rows(mem') /\ Moved
<1> SUFFICES Goal
  <2>1. UNCHANGED <<now, poll, shown>>
    BY DEF Bump, MarkProcessing, UpdateProfile, InsertChunks, SetReady, Fail, SetResult,
           RecordBenchmark, RecordEval, SetStatus
  <2>2. QED
    BY <2>1
<1>1. CASE Bump(d)
  BY <1>1, BumpCounts DEF Moved
<1>2. CASE MarkProcessing(d)
  <2>1. place[d] = "mark" /\ SetStatus(d, "processing", "profile")
    BY <1>2 DEF MarkProcessing
  <2>2. "processing" \in StatusAt("profile") /\ "profile" \in Places
    BY DEF StatusAt, Places
  <2>3. mem' \in Doubles /\ tab' = Rows(mem') /\ \E row : Rewritten(d, row, "profile")
    BY <2>1, <2>2, StatusRewrites
  <2>4. QED
    BY <2>3 DEF Moved
<1>3. CASE UpdateProfile(d)
  BY <1>3, ProfileRewrites DEF Moved
<1>4. CASE InsertChunks(d)
  BY <1>4, InsertChunksMoves DEF Moved
<1>5. /\ Then(d) \in {"result", "report"} /\ Then(d) \in Places
      /\ Then(d) = "result" => mem.docs[d].batch # None
      /\ "ready" \in StatusAt(Then(d)) /\ "failed" \in StatusAt(Then(d))
  <2>1. RowOf(d) = mem.docs[d]
    BY RowIs DEF TableInv
  <2>2. QED
    BY <2>1 DEF Then, StatusAt, Places
<1>6. CASE SetReady(d)
  <2>1. place[d] = "ready" /\ SetStatus(d, "ready", Then(d))
    BY <1>6 DEF SetReady
  <2>2. mem' \in Doubles /\ tab' = Rows(mem') /\ \E row : Rewritten(d, row, Then(d))
    BY <1>5, <2>1, StatusRewrites
  <2>3. QED
    BY <2>2 DEF Moved
<1>7. CASE Fail(d)
  <2>1. place[d] \in {"profile", "chunks", "ready"} /\ SetStatus(d, "failed", Then(d))
    BY <1>7 DEF Fail
  <2>2. mem' \in Doubles /\ tab' = Rows(mem') /\ \E row : Rewritten(d, row, Then(d))
    BY <1>5, <2>1, StatusRewrites
  <2>3. QED
    BY <2>2 DEF Moved
<1>8. CASE SetResult(d)
  BY <1>8, ResultRewrites DEF Moved
<1>9. CASE RecordBenchmark(d)
  BY <1>9, BenchmarkFiles DEF Moved
<1>10. CASE RecordEval(d)
  BY <1>10, EvalFiles DEF Moved
<1>11. QED
  BY <1>1, <1>2, <1>3, <1>4, <1>6, <1>7, <1>8, <1>9, <1>10

\* Every step moves some row, or the clock, or a poll.
LEMMA StepMoves ==
  ASSUME TableInv, [Next]_vars
  PROVE  /\ mem' \in Doubles /\ tab' = Rows(mem')
         /\ \/ Moved /\ UNCHANGED <<now, poll, shown>>
            \/ Quiet /\ Tick
            \/ Quiet /\ now' = now /\ ((\E b \in Batches : PollBatch(b)) \/ PollAnswer)
<1> DEFINE Still == mem' \in Doubles /\ tab' = Rows(mem')
           Goal  == Moved /\ UNCHANGED <<now, poll, shown>>
<1>1. mem \in Doubles /\ tab = Rows(mem)
  BY DEF TableInv, Types
<1>2. ASSUME Quiet PROVE Still
  BY <1>1, <1>2 DEF Quiet
<1>3. CASE UNCHANGED vars
  BY <1>2, <1>3 DEF vars, tables, Quiet, Moved
<1>4. CASE Tick
  BY <1>2, <1>4 DEF Tick, tables, Quiet
<1>5. CASE \E b \in Batches : CreateBatch(b)
  <2>1. PICK b \in Batches : CreateBatch(b)
    BY <1>5
  <2>2. Still /\ Opened(b)
    BY <2>1, CreateOpens
  <2>3. UNCHANGED <<now, poll, shown>>
    BY <2>1 DEF CreateBatch
  <2>4. QED
    BY <2>2, <2>3 DEF Moved
<1>6. CASE \E b \in Batches : PollBatch(b)
  <2>1. Quiet /\ now' = now
    BY <1>6 DEF PollBatch, Quiet, tables
  <2>2. QED
    BY <1>2, <1>6, <2>1
<1>7. CASE \E file \in Files : Ingest(file)
  <2>1. PICK file \in Files : Ingest(file)
    BY <1>7
  <2>2. Still /\ \E row : Grown(row, "profile")
    BY <2>1, IngestGrows
  <2>3. UNCHANGED <<now, poll, shown>>
    BY <2>1 DEF Ingest, Create
  <2>4. QED
    BY <2>2, <2>3 DEF Moved
<1>8. CASE \E file \in Files, b \in Batches, dedup \in BOOLEAN : Upload(file, b, dedup)
  <2>1. PICK file \in Files, b \in Batches, dedup \in BOOLEAN : Upload(file, b, dedup)
    BY <1>8
  <2>2. Still /\ \E row : Grown(row, "bump")
    BY <2>1, UploadGrows
  <2>3. UNCHANGED <<now, poll, shown>>
    BY <2>1 DEF Upload, Create
  <2>4. QED
    BY <2>2, <2>3 DEF Moved
<1>9. CASE \E d \in Ids : \/ Bump(d) \/ MarkProcessing(d) \/ UpdateProfile(d) \/ InsertChunks(d)
                         \/ SetReady(d) \/ Fail(d) \/ SetResult(d)
                         \/ RecordBenchmark(d) \/ RecordEval(d)
  <2>1. Ids = 1 .. Len(place)
    BY MemTypes DEF Ids, TableInv
  <2>2. QED
    BY <1>9, <2>1, RowStepMoves
<1>10. CASE PollAnswer
  <2>1. Quiet /\ now' = now
    BY <1>10 DEF PollAnswer, Quiet, tables
  <2>2. QED
    BY <1>2, <1>10, <2>1
<1>11. QED
  BY <1>3, <1>4, <1>5, <1>6, <1>7, <1>8, <1>9, <1>10 DEF Next

-----------------------------------------------------------------------------
(* The tables are kept in order. *)

LEMMA PlaceTypes ==
  ASSUME TableInv
  PROVE  place \in Seq(Places) /\ DOMAIN place = 1 .. Len(place) /\ Len(place) \in Nat
BY DEF TableInv, Types

LEMMA MovePlace ==
  ASSUME TableInv, NEW d \in 1 .. Len(place), NEW next \in Places,
         place' = [place EXCEPT ![d] = next]
  PROVE  /\ place' \in Seq(Places) /\ Len(place') = Len(place)
         /\ \A i \in 1 .. Len(place) : place'[i] = IF i = d THEN next ELSE place[i]
BY PlaceTypes

LEMMA GrownKeeps ==
  ASSUME TableInv, NEW row, NEW next, Grown(row, next), mem' \in Doubles, tab' = Rows(mem'),
         UNCHANGED now
  PROVE  TableInv'
<1> USE DEF TableInv
<1> DEFINE n == Len(place)
<1>1. /\ n \in Nat /\ mem.docs \in Seq(Row) /\ Len(mem.docs) = n /\ now \in Nat
      /\ \A i \in 1 .. n : mem.docs[i].created \in Nat
  BY MemTypes
<1>2. row \in Row /\ next \in Places /\ row.created \in Nat
  BY DEF Grown, Places, Row
<1>3. place' \in Seq(Places) /\ Len(place') = n + 1 /\ Len(mem'.docs) = n + 1
      /\ place'[n + 1] = next /\ mem'.docs[n + 1] = row
      /\ \A i \in 1 .. n : place'[i] = place[i] /\ mem'.docs[i] = mem.docs[i]
  BY <1>1, <1>2, PlaceTypes DEF Grown
<1>4. \A i \in 1 .. n + 1 : i \in 1 .. n \/ i = n + 1
  BY <1>1
<1>5. \A i \in 1 .. n : i # n + 1
  BY <1>1
<1> HIDE DEF n
<1>6. Types'
  BY <1>1, <1>3 DEF Types
<1>7. mem'.chunks = mem.chunks /\ mem'.batches = mem.batches
      /\ mem'.bench = mem.bench /\ mem'.evals = mem.evals
  BY DEF Grown, SameRuns
<1>8. InOrder'
  <2>1. \A i \in 1 .. n + 1 : /\ mem'.docs[i].id = i
                            /\ mem'.docs[i].batch \in DOMAIN mem'.batches \union {None}
    BY <1>3, <1>4, <1>7 DEF InOrder, Grown, n
  <2>2. \A i, j \in 1 .. n + 1 :
          i < j /\ mem'.docs[i].batch # None /\ mem'.docs[j].batch # None =>
            mem'.docs[i].created <= mem'.docs[j].created
    <3> SUFFICES ASSUME NEW i \in 1 .. n + 1, NEW j \in 1 .. n + 1, i < j,
                        mem'.docs[i].batch # None, mem'.docs[j].batch # None
                 PROVE  mem'.docs[i].created <= mem'.docs[j].created
      OBVIOUS
    <3>1. i \in 1 .. n
      BY <1>1
    <3>2. CASE j \in 1 .. n
      BY <1>3, <3>1, <3>2 DEF InOrder, n
    <3>3. CASE j = n + 1
      BY <1>3, <3>1, <3>3 DEF Grown, n
    <3>4. QED
      BY <1>4, <3>2, <3>3
  <2>3. \A i \in 1 .. Len(mem.chunks) :
          /\ mem.chunks[i].doc \in 1 .. n
          /\ place'[mem.chunks[i].doc] \notin {"bump", "mark", "profile", "chunks"}
    BY <1>3 DEF InOrder, n
  <2>4. \A i \in 1 .. n : i \in 1 .. n + 1
    BY <1>1
  <2>5. QED
    BY <1>3, <1>7, <2>1, <2>2, <2>3, <2>4 DEF InOrder
<1>9. Placed'
  <2>1. \A i \in 1 .. n :
          /\ mem'.docs[i].status \in StatusAt(place'[i])
          /\ mem'.docs[i].created <= now' /\ mem'.docs[i].updated <= now'
          /\ place'[i] \in {"bump", "mark", "result"} => mem'.docs[i].batch # None
          /\ place'[i] = "bump" => mem'.docs[i].updated = 0 /\ mem'.docs[i].created + BumpTime >= now'
    BY <1>3 DEF Placed, n
  <2>2. /\ row.status \in StatusAt(next)
        /\ row.created <= now /\ row.updated <= now
        /\ next \in {"bump", "mark", "result"} => row.batch # None
        /\ row.updated = 0 /\ row.created + BumpTime >= now
    BY <1>1, <1>2, BoundAssumption DEF Grown, Recent
  <2>3. QED
    BY <1>3, <1>4, <1>7, <2>1, <2>2 DEF Placed
<1>10. QED
  BY <1>6, <1>8, <1>9

LEMMA RewrittenKeeps ==
  ASSUME TableInv, NEW d, NEW row, NEW next \in Places, Rewritten(d, row, next),
         mem' \in Doubles, tab' = Rows(mem'), UNCHANGED now
  PROVE  TableInv'
<1> USE DEF TableInv
<1> DEFINE n == Len(place)
<1>1. /\ n \in Nat /\ mem.docs \in Seq(Row) /\ Len(mem.docs) = n /\ now \in Nat
      /\ DOMAIN mem.docs = 1 .. n /\ d \in 1 .. n
      /\ \A i \in 1 .. n : mem.docs[i].created \in Nat /\ mem.docs[i].updated \in Nat
  BY MemTypes DEF Rewritten
<1>2. /\ place' \in Seq(Places) /\ Len(place') = n
      /\ \A i \in 1 .. n : place'[i] = IF i = d THEN next ELSE place[i]
  BY <1>1, MovePlace DEF Rewritten
<1>3. /\ Len(mem'.docs) = n
      /\ \A i \in 1 .. n : mem'.docs[i] = IF i = d THEN row ELSE mem.docs[i]
  BY <1>1 DEF Rewritten
<1>4. /\ row.id = mem.docs[d].id /\ row.batch = mem.docs[d].batch
      /\ row.created = mem.docs[d].created /\ row.updated <= now
  BY <1>1 DEF Rewritten, Follows, Placed, Recent
<1>5. mem'.chunks = mem.chunks /\ mem'.batches = mem.batches
      /\ mem'.bench = mem.bench /\ mem'.evals = mem.evals
  BY DEF Rewritten, SameRuns
<1>6. Types'
  BY <1>1, <1>2 DEF Types
<1> HIDE DEF n
<1>7. InOrder'
  <2>1. \A i \in 1 .. n : /\ mem'.docs[i].id = i
                        /\ mem'.docs[i].batch \in DOMAIN mem'.batches \union {None}
                        /\ mem'.docs[i].created = mem.docs[i].created
                        /\ mem'.docs[i].batch = mem.docs[i].batch
    BY <1>3, <1>4, <1>5 DEF InOrder, n
  <2>2. \A i, j \in 1 .. n :
          i < j /\ mem'.docs[i].batch # None /\ mem'.docs[j].batch # None =>
            mem'.docs[i].created <= mem'.docs[j].created
    BY <2>1 DEF InOrder, n
  <2>3. \A i \in 1 .. Len(mem.chunks) :
          /\ mem.chunks[i].doc \in 1 .. n
          /\ place'[mem.chunks[i].doc] \notin {"bump", "mark", "profile", "chunks"}
    <3> SUFFICES ASSUME NEW i \in 1 .. Len(mem.chunks)
                 PROVE  /\ mem.chunks[i].doc \in 1 .. n
                        /\ place'[mem.chunks[i].doc] \notin {"bump", "mark", "profile", "chunks"}
      OBVIOUS
    <3>1. mem.chunks[i].doc \in 1 .. n
          /\ place[mem.chunks[i].doc] \notin {"bump", "mark", "profile", "chunks"}
      BY DEF InOrder, n
    <3>2. CASE mem.chunks[i].doc = d
      BY <1>1, <1>2, <3>1, <3>2 DEF Rewritten
    <3>3. CASE mem.chunks[i].doc # d
      BY <1>2, <3>1, <3>3
    <3>4. QED
      BY <3>1, <3>2, <3>3
  <2>4. QED
    BY <1>2, <1>3, <1>5, <2>1, <2>2, <2>3 DEF InOrder
<1>8. Placed'
  <2>1. ASSUME NEW i \in 1 .. n
        PROVE  /\ mem'.docs[i].status \in StatusAt(place'[i])
               /\ mem'.docs[i].created <= now' /\ mem'.docs[i].updated <= now'
               /\ place'[i] \in {"bump", "mark", "result"} => mem'.docs[i].batch # None
               /\ place'[i] = "bump" => mem'.docs[i].updated = 0 /\ mem'.docs[i].created + BumpTime >= now'
    <3>1. CASE i = d
      BY <1>1, <1>2, <1>3, <1>4, <3>1 DEF Placed, Rewritten, n
    <3>2. CASE i # d
      BY <1>2, <1>3, <3>2 DEF Placed, n
    <3>3. QED
      BY <3>1, <3>2
  <2>2. QED
    BY <1>2, <1>5, <2>1 DEF Placed
<1>9. QED
  BY <1>6, <1>7, <1>8

\* The other steps leave the rows of `documents` alone.
LEMMA OthersKeep ==
  ASSUME TableInv, mem' \in Doubles, tab' = Rows(mem'), mem'.docs = mem.docs, now' = now,
         DOMAIN mem.batches \subseteq DOMAIN mem'.batches,
         \A b \in DOMAIN mem'.batches : mem'.batches[b].created <= now,
         \A i \in 1 .. Len(mem'.bench) : mem'.bench[i].id = i,
         \A i \in 1 .. Len(mem'.evals) : mem'.evals[i].id = i,
         place' \in Seq(Places), Len(place') = Len(place),
         \A i \in 1 .. Len(place) :
           place'[i] # place[i] =>
             /\ place'[i] \notin {"bump", "profile", "chunks", "result"}
             /\ place'[i] = "mark" => place[i] = "bump"
             /\ place[i] = "bump" => mem.docs[i].batch # None
             /\ mem.docs[i].status \in StatusAt(place'[i]),
         \A i \in 1 .. Len(mem'.chunks) :
           /\ mem'.chunks[i].doc \in 1 .. Len(place)
           /\ place'[mem'.chunks[i].doc] \notin {"bump", "mark", "profile", "chunks"},
         \A i, j \in 1 .. Len(mem'.chunks) :
           mem'.chunks[i].doc = mem'.chunks[j].doc /\ mem'.chunks[i].index = mem'.chunks[j].index
             => i = j
  PROVE  TableInv'
<1> USE DEF TableInv
<1>1. Types'
  BY DEF Types
<1>2. InOrder'
  BY DEF InOrder
<1>3. Placed'
  <2>1. ASSUME NEW i \in 1 .. Len(place)
        PROVE  /\ mem'.docs[i].status \in StatusAt(place'[i])
               /\ mem'.docs[i].created <= now' /\ mem'.docs[i].updated <= now'
               /\ place'[i] \in {"bump", "mark", "result"} => mem'.docs[i].batch # None
               /\ place'[i] = "bump" => mem'.docs[i].updated = 0 /\ mem'.docs[i].created + BumpTime >= now'
    <3>1. CASE place'[i] = place[i]
      BY <3>1 DEF Placed
    <3>2. CASE place'[i] # place[i]
      BY <3>2 DEF Placed
    <3>3. QED
      BY <3>1, <3>2
  <2>2. QED
    BY <2>1 DEF Placed
<1>4. QED
  BY <1>1, <1>2, <1>3

LEMMA Concatenated ==
  ASSUME NEW X, NEW s \in Seq(X), NEW u \in Seq(X)
  PROVE  /\ Len(s \o u) = Len(s) + Len(u)
         /\ \A i \in 1 .. Len(s) : (s \o u)[i] = s[i]
         /\ \A i \in 1 .. Len(s) + Len(u) : i \notin 1 .. Len(s) =>
              i - Len(s) \in 1 .. Len(u) /\ (s \o u)[i] = u[i - Len(s)]
<1>1. Len(s) \in Nat /\ Len(u) \in Nat
  OBVIOUS
<1>2. Len(s \o u) = Len(s) + Len(u)
  OBVIOUS
<1>3. \A i \in 1 .. Len(s) : (s \o u)[i] = s[i]
  OBVIOUS
<1>4. \A i \in 1 .. Len(s) + Len(u) : i \notin 1 .. Len(s) => i - Len(s) \in 1 .. Len(u)
  BY <1>1
<1>5. \A i \in 1 .. Len(s) + Len(u) : i \notin 1 .. Len(s) => (s \o u)[i] = u[i - Len(s)]
  OBVIOUS
<1>6. QED
  BY <1>2, <1>3, <1>4, <1>5

LEMMA TableInvKept == ASSUME TableInv, [Next]_vars PROVE TableInv'
<1>1. mem' \in Doubles /\ tab' = Rows(mem')
  BY StepMoves
<1>2. /\ place \in Seq(Places) /\ Len(place) \in Nat
      /\ \A b \in DOMAIN mem.batches : mem.batches[b].created <= now
      /\ \A i \in 1 .. Len(mem.bench) : mem.bench[i].id = i
      /\ \A i \in 1 .. Len(mem.evals) : mem.evals[i].id = i
  BY PlaceTypes DEF TableInv, InOrder, Placed
<1>3. /\ \A i \in 1 .. Len(mem.chunks) :
           /\ mem.chunks[i].doc \in 1 .. Len(place)
           /\ place[mem.chunks[i].doc] \notin {"bump", "mark", "profile", "chunks"}
      /\ \A i, j \in 1 .. Len(mem.chunks) :
           mem.chunks[i].doc = mem.chunks[j].doc /\ mem.chunks[i].index = mem.chunks[j].index
             => i = j
  BY DEF TableInv, InOrder
<1>4. CASE Quiet /\ now' = now
  BY <1>1, <1>2, <1>3, <1>4, OthersKeep DEF Quiet
<1>5. CASE Quiet /\ Tick
  <2>1. now' = now + 1 /\ now \in Nat /\ BumpTime \in Nat
        /\ \A i \in 1 .. Len(place) : place[i] = "bump" => now < mem.docs[i].created + BumpTime
    <3>1. \A i \in 1 .. Len(place) : RowOf(i) = mem.docs[i]
      BY RowIs DEF TableInv
    <3>2. DOMAIN place = 1 .. Len(place) /\ now \in Nat /\ BumpTime \in Nat
      BY MemTypes DEF TableInv
    <3>3. QED
      BY <1>5, <3>1, <3>2 DEF Tick, Ids
  <2>2. Types' /\ InOrder'
    BY <1>1, <1>5, <2>1 DEF Quiet, TableInv, Types, InOrder
  <2>3. \A i \in 1 .. Len(place) :
          /\ mem.docs[i].created \in Nat /\ mem.docs[i].updated \in Nat
          /\ mem.docs[i].created <= now /\ mem.docs[i].updated <= now
    BY MemTypes DEF TableInv, Placed
  <2>4. \A b \in DOMAIN mem.batches : mem.batches[b].created \in Nat /\ mem.batches[b].created <= now
    BY MemTypes DEF TableInv, Placed
  <2>5. Placed'
    <3>1. \A i \in 1 .. Len(place) : mem.docs[i].created <= now + 1 /\ mem.docs[i].updated <= now + 1
      BY <2>1, <2>3
    <3>2. \A b \in DOMAIN mem.batches : mem.batches[b].created <= now + 1
      BY <2>1, <2>4
    <3>3. \A i \in 1 .. Len(place) : place[i] = "bump" => mem.docs[i].created + BumpTime >= now + 1
      BY <2>1, <2>3
    <3>4. QED
      BY <1>5, <2>1, <3>1, <3>2, <3>3 DEF Quiet, TableInv, Placed
  <2>6. QED
    BY <2>2, <2>5 DEF TableInv
<1>6. ASSUME NEW b \in Batches, Opened(b), now' = now PROVE TableInv'
  <2>1. \A x \in DOMAIN mem'.batches : mem'.batches[x].created <= now
    BY <1>2, <1>6 DEF Opened
  <2>2. /\ mem'.docs = mem.docs /\ mem'.chunks = mem.chunks /\ place' = place
        /\ mem'.bench = mem.bench /\ mem'.evals = mem.evals
        /\ DOMAIN mem.batches \subseteq DOMAIN mem'.batches
    BY <1>6 DEF Opened, SameRuns
  <2>3. QED
    BY <1>1, <1>2, <1>3, <1>6, <2>1, <2>2, OthersKeep
<1>7. ASSUME NEW row, NEW next, Grown(row, next), now' = now PROVE TableInv'
  BY <1>1, <1>7, GrownKeeps
<1>8. ASSUME NEW d, NEW next, CountedIn(d, next), now' = now PROVE TableInv'
  <2>1. /\ d \in 1 .. Len(place) /\ next \in Places /\ next \in {"mark", "done"}
        /\ place' = [place EXCEPT ![d] = next] /\ place[d] = "bump"
        /\ mem.docs[d].batch # None /\ mem.docs[d].status \in StatusAt(next)
    BY <1>8 DEF CountedIn, Places
  <2>2. /\ place' \in Seq(Places) /\ Len(place') = Len(place)
        /\ \A i \in 1 .. Len(place) : place'[i] = IF i = d THEN next ELSE place[i]
    BY <2>1, MovePlace
  <2>3. /\ mem'.docs = mem.docs /\ mem'.chunks = mem.chunks
        /\ mem'.bench = mem.bench /\ mem'.evals = mem.evals
        /\ DOMAIN mem'.batches = DOMAIN mem.batches
        /\ \A b \in DOMAIN mem'.batches : mem'.batches[b].created <= now
    BY <1>2, <1>8 DEF CountedIn, SameRuns
  <2>4. \A i \in 1 .. Len(mem.chunks) :
          place'[mem.chunks[i].doc] \notin {"bump", "mark", "profile", "chunks"}
    <3>1. \A i \in 1 .. Len(mem.chunks) : mem.chunks[i].doc # d
      BY <1>3, <2>1
    <3>2. QED
      BY <1>3, <2>2, <3>1
  <2>5. QED
    BY <1>1, <1>2, <1>3, <1>8, <2>1, <2>2, <2>3, <2>4, OthersKeep
<1>9. ASSUME NEW d, NEW row, NEW next, Rewritten(d, row, next), now' = now PROVE TableInv'
  <2>1. next \in Places
    BY <1>9 DEF Rewritten
  <2>2. QED
    BY <1>1, <1>9, <2>1, RewrittenKeeps
<1>10. ASSUME NEW d, Chunked(d), now' = now PROVE TableInv'
  <2> DEFINE k    == Len(mem.chunks)
             rows == [i \in 1 .. Pieces |-> ChunkRow(d, i - 1)]
  <2>1. d \in 1 .. Len(place) /\ "ready" \in Places /\ place[d] = "chunks"
        /\ place' = [place EXCEPT ![d] = "ready"]
    BY <1>10 DEF Chunked, Places
  <2>2. /\ place' \in Seq(Places) /\ Len(place') = Len(place)
        /\ \A i \in 1 .. Len(place) : place'[i] = IF i = d THEN "ready" ELSE place[i]
    BY <2>1, MovePlace
  <2>3. mem.docs[d].status \in StatusAt("ready")
    BY <2>1 DEF TableInv, Placed, StatusAt
  <2>4. /\ mem'.docs = mem.docs /\ mem'.chunks = mem.chunks \o rows
        /\ mem'.bench = mem.bench /\ mem'.evals = mem.evals /\ mem'.batches = mem.batches
    BY <1>10 DEF Chunked, SameRuns
  <2>5. /\ rows \in Seq(Piece) /\ mem.chunks \in Seq(Piece) /\ k \in Nat /\ Pieces \in Nat
        /\ Len(rows) = Pieces
        /\ \A i \in 1 .. Pieces : rows[i].doc = d /\ rows[i].index = i - 1
    <3>1. Pieces \in Nat /\ d \in Nat
      BY <2>1, BoundAssumption
    <3>2. \A i \in 1 .. Pieces : ChunkRow(d, i - 1) \in Piece
            /\ ChunkRow(d, i - 1).doc = d /\ ChunkRow(d, i - 1).index = i - 1
      BY <3>1 DEF ChunkRow, Piece
    <3>3. mem.chunks \in Seq(Piece)
      BY DEF TableInv, Types, Doubles
    <3>4. QED
      BY <3>1, <3>2, <3>3
  <2> HIDE DEF rows, k
  <2>6. /\ Len(mem'.chunks) = k + Pieces
        /\ \A i \in 1 .. k : mem'.chunks[i] = mem.chunks[i]
        /\ \A i \in 1 .. k + Pieces : i \notin 1 .. k =>
             i - k \in 1 .. Pieces /\ mem'.chunks[i] = rows[i - k]
    <3> DEFINE old == mem.chunks
    <3>1. old \in Seq(Piece) /\ rows \in Seq(Piece) /\ Len(old) = k
      BY <2>5 DEF k
    <3>2. mem'.chunks = old \o rows
      BY <2>4
    <3> HIDE DEF old
    <3>3. /\ Len(old \o rows) = k + Pieces
          /\ \A i \in 1 .. k : (old \o rows)[i] = old[i]
          /\ \A i \in 1 .. k + Pieces : i \notin 1 .. k =>
               i - k \in 1 .. Pieces /\ (old \o rows)[i] = rows[i - k]
      <4> HIDE DEF k
      <4>1. Len(rows) = Pieces
        BY <2>5
      <4>2. QED
        BY <3>1, <4>1, Concatenated
    <3>4. QED
      BY <3>2, <3>3 DEF old
  <2>7. \A i \in 1 .. k : mem'.chunks[i].doc # d
    BY <1>3, <2>1, <2>6 DEF k
  <2>8. \A i \in 1 .. k + Pieces : i \notin 1 .. k =>
          mem'.chunks[i].doc = d /\ mem'.chunks[i].index = i - k - 1
    BY <2>5, <2>6
  <2>9. \A i \in 1 .. k + Pieces :
          /\ mem'.chunks[i].doc \in 1 .. Len(place)
          /\ place'[mem'.chunks[i].doc] \notin {"bump", "mark", "profile", "chunks"}
    <3> SUFFICES ASSUME NEW i \in 1 .. k + Pieces
                 PROVE  /\ mem'.chunks[i].doc \in 1 .. Len(place)
                        /\ place'[mem'.chunks[i].doc] \notin {"bump", "mark", "profile", "chunks"}
      OBVIOUS
    <3>1. CASE i \in 1 .. k
      BY <1>3, <2>2, <2>6, <2>7, <3>1 DEF k
    <3>2. CASE i \notin 1 .. k
      BY <2>1, <2>2, <2>8, <3>2
    <3>3. QED
      BY <3>1, <3>2
  <2>10. ASSUME NEW i \in 1 .. k + Pieces, NEW j \in 1 .. k + Pieces,
                mem'.chunks[i].doc = mem'.chunks[j].doc, mem'.chunks[i].index = mem'.chunks[j].index
         PROVE  i = j
    <3>1. CASE i \in 1 .. k /\ j \in 1 .. k
      BY <1>3, <2>6, <2>10, <3>1 DEF k
    <3>2. CASE i \notin 1 .. k /\ j \notin 1 .. k
      BY <2>5, <2>8, <2>10, <3>2
    <3>3. QED
      BY <2>7, <2>8, <2>10, <3>1, <3>2
  <2>11. \A i \in 1 .. Len(place) :
           place'[i] # place[i] =>
             /\ place'[i] \notin {"bump", "profile", "chunks", "result"}
             /\ place'[i] = "mark" => place[i] = "bump"
             /\ place[i] = "bump" => mem.docs[i].batch # None
             /\ mem.docs[i].status \in StatusAt(place'[i])
    <3> SUFFICES ASSUME NEW i \in 1 .. Len(place), place'[i] # place[i]
                 PROVE  /\ place'[i] \notin {"bump", "profile", "chunks", "result"}
                        /\ place'[i] = "mark" => place[i] = "bump"
                        /\ place[i] = "bump" => mem.docs[i].batch # None
                        /\ mem.docs[i].status \in StatusAt(place'[i])
      OBVIOUS
    <3>1. i = d /\ place'[i] = "ready" /\ place[i] = "chunks"
      BY <2>1, <2>2
    <3>2. QED
      BY <2>3, <3>1
  <2>12. /\ DOMAIN mem.batches \subseteq DOMAIN mem'.batches
         /\ \A b \in DOMAIN mem'.batches : mem'.batches[b].created <= now
         /\ \A i \in 1 .. Len(mem'.bench) : mem'.bench[i].id = i
         /\ \A i \in 1 .. Len(mem'.evals) : mem'.evals[i].id = i
    BY <1>2, <2>4
  <2>13. /\ \A i \in 1 .. Len(mem'.chunks) :
              /\ mem'.chunks[i].doc \in 1 .. Len(place)
              /\ place'[mem'.chunks[i].doc] \notin {"bump", "mark", "profile", "chunks"}
         /\ \A i, j \in 1 .. Len(mem'.chunks) :
              mem'.chunks[i].doc = mem'.chunks[j].doc /\ mem'.chunks[i].index = mem'.chunks[j].index
                => i = j
    BY <2>6, <2>9, <2>10
  <2>14. mem'.docs = mem.docs /\ now' = now
    BY <1>10, <2>4
  <2>15. QED
    BY <1>1, <2>2, <2>11, <2>12, <2>13, <2>14, OthersKeep
<1>11. ASSUME NEW d, Filed(d), now' = now PROVE TableInv'
  <2>1. d \in 1 .. Len(place) /\ "done" \in Places /\ place[d] = "report"
        /\ place' = [place EXCEPT ![d] = "done"]
    BY <1>11 DEF Filed, Places
  <2>2. /\ place' \in Seq(Places) /\ Len(place') = Len(place)
        /\ \A i \in 1 .. Len(place) : place'[i] = IF i = d THEN "done" ELSE place[i]
    BY <2>1, MovePlace
  <2>3. mem.docs[d].status \in StatusAt("done")
    BY <2>1 DEF TableInv, Placed, StatusAt, Terminal
  <2>4. \A i \in 1 .. Len(mem.chunks) :
          place'[mem.chunks[i].doc] \notin {"bump", "mark", "profile", "chunks"}
    BY <1>3, <2>2
  <2>5. /\ mem'.docs = mem.docs /\ mem'.chunks = mem.chunks /\ mem'.batches = mem.batches
        /\ \A i \in 1 .. Len(mem'.bench) : mem'.bench[i].id = i
        /\ \A i \in 1 .. Len(mem'.evals) : mem'.evals[i].id = i
    BY <1>11 DEF Filed
  <2>6. QED
    BY <1>1, <1>2, <1>3, <1>11, <2>1, <2>2, <2>3, <2>4, <2>5, OthersKeep
<1>12. QED
  BY <1>4, <1>5, <1>6, <1>7, <1>8, <1>9, <1>10, <1>11, StepMoves DEF Moved

\* Postgres and the doubles hold the same rows in every state that is reached, with stamps
\* of uploads that follow the insertions: what the comparison and the wall times rest on.
THEOREM TablesCorrect == Spec => []TableInv
<1>1. Init => TableInv
  <2> SUFFICES ASSUME Init PROVE TableInv
    OBVIOUS
  <2>1. mem = [docs |-> << >>, batches |-> NoBatches, chunks |-> << >>, bench |-> << >>,
               evals |-> << >>]
    BY DEF Init
  <2>2. mem \in Doubles
    <3>1. NoBatches \in [{} -> Batch] /\ {} \in SUBSET Batches
      BY DEF NoBatches
    <3>2. << >> \in Seq(Row) /\ << >> \in Seq(Piece) /\ << >> \in Seq(Kept)
      OBVIOUS
    <3>3. QED
      BY <2>1, <3>1, <3>2 DEF Doubles
  <2>3. /\ mem.docs = << >> /\ mem.batches = NoBatches /\ mem.chunks = << >>
        /\ mem.bench = << >> /\ mem.evals = << >>
    BY <2>1
  <2>4. tab = Rows(mem)
    <3>1. Range(<< >>) = {}
      BY DEF Range
    <3>2. Rows(mem) = [docs |-> Range(<< >>), batches |-> NoBatches, chunks |-> Range(<< >>),
                       bench |-> Range(<< >>), evals |-> Range(<< >>)]
      BY <2>3 DEF Rows
    <3>3. QED
      BY <3>1, <3>2 DEF Init
  <2>5. DOMAIN mem.batches = {}
    BY <2>3 DEF NoBatches
  <2>6. place = << >> /\ place \in Seq(Places) /\ now = 1
    BY DEF Init
  <2>7. Types
    BY <2>2, <2>4, <2>6 DEF Types
  <2>8. Len(place) = 0 /\ Len(mem.docs) = 0 /\ Len(mem.chunks) = 0 /\ Len(mem.bench) = 0
        /\ Len(mem.evals) = 0 /\ 1 .. 0 = {}
    BY <2>3, <2>6
  <2>9. InOrder /\ Placed
    BY <2>5, <2>8 DEF InOrder, Placed
  <2>10. QED
    BY <2>7, <2>9 DEF TableInv
<1>2. TableInv /\ [Next]_vars => TableInv'
  BY TableInvKept
<1>3. QED
  BY <1>1, <1>2, PTL DEF Spec

-----------------------------------------------------------------------------
(* The answers.  Postgres may give any order of rows that their stamps allow; where the  *)
(* stamps follow the insertions, that of the doubles is one of them.                     *)

\* The rows of a table, in the order of their insertion.
LEMMA WholeIsOldest ==
  ASSUME NEW X, NEW s \in Seq(X), \A i \in 1 .. Len(s) : s[i].id = i, InTurn(Range(s))
  PROVE  s \in Oldest(Range(s))
<1>1. DOMAIN s = 1 .. Len(s) /\ Len(s) \in Nat
  OBVIOUS
<1>2. \A i \in 1 .. Len(s) : s[i] \in Range(s)
  BY <1>1 DEF Range
<1>3. Cardinality(Range(s)) = Len(s)
  BY DistinctEntries
<1>4. s \in [1 .. Cardinality(Range(s)) -> Range(s)]
  BY <1>1, <1>2, <1>3
<1>5. \A i, j \in DOMAIN s : i < j => s[i].created <= s[j].created
  BY <1>1, <1>2 DEF InTurn
<1>6. QED
  BY <1>4, <1>5 DEF Oldest

LEMMA DocsInTurn ==
  ASSUME TableInv, InTurn(tab.docs)
  PROVE  \A i, j \in 1 .. Len(mem.docs) : i < j => mem.docs[i].created <= mem.docs[j].created
<1>1. /\ Len(mem.docs) = Len(place)
      /\ \A i \in 1 .. Len(place) : mem.docs[i].id = i /\ mem.docs[i] \in tab.docs
  BY MemTypes DEF TableInv
<1>2. QED
  BY <1>1 DEF InTurn

\* A row that is read by its id has no other beside it.
LEMMA GetAgrees ==
  ASSUME TableInv, NEW d PROVE Answer(MemGet(mem, d)) = DbGet(tab, d)
<1> DEFINE u == Only(mem.docs, "id", d)
           I == {i \in 1 .. Len(mem.docs) : mem.docs[i]["id"] = d}
           T == {r \in tab.docs : r.id = d}
           f == SetToSeq(T)
<1>1. /\ mem.docs \in Seq(Row) /\ Len(mem.docs) = Len(place)
      /\ \A i \in 1 .. Len(place) : mem.docs[i].id = i /\ mem.docs[i] \in tab.docs
      /\ \A r \in tab.docs : r.id \in 1 .. Len(place) /\ r = mem.docs[r.id]
  BY MemTypes DEF TableInv
<1>2. /\ u \in Seq(Row) /\ Len(u) = Cardinality(I)
      /\ \E q \in [1 .. Len(u) -> I] :
           /\ Range(q) = I
           /\ \A k \in 1 .. Len(u) : u[k] = mem.docs[q[k]]
           /\ \A j, k \in 1 .. Len(u) : j < k => q[j] < q[k]
  BY <1>1, OnlyOrder
<1>3. PICK q \in [1 .. Len(u) -> I] : \A k \in 1 .. Len(u) : u[k] = mem.docs[q[k]]
  BY <1>2
<1>4. f = CHOOSE g \in [1 .. Cardinality(T) -> T] : IsInjective(g)
  BY DEF SetToSeq
<1>5. CASE d \in 1 .. Len(place)
  <2> DEFINE x == mem.docs[d]
  <2>1. I = {d} /\ T = {x}
    BY <1>1, <1>5
  <2>2. Cardinality(I) = 1 /\ Cardinality(T) = 1
    BY <2>1, FS_Singleton
  <2> HIDE DEF I, T, u, f
  <2>3. Len(u) = 1 /\ u[1] = x
    <3>1. Len(u) = 1 /\ 1 \in 1 .. Len(u)
      BY <1>2, <2>2
    <3>2. q[1] \in I
      BY <3>1
    <3>3. q[1] = d
      BY <2>1, <3>2
    <3>4. QED
      BY <1>3, <3>1, <3>3
  <2>4. u = <<x>>
    BY <1>2, <2>3
  <2>5. f = <<x>>
    <3>1. <<x>> \in [1 .. 1 -> {x}] /\ IsInjective(<<x>>)
      BY DEF IsInjective
    <3>2. f \in [1 .. 1 -> {x}]
      BY <1>4, <2>1, <2>2, <3>1
    <3>3. f[1] = x /\ DOMAIN f = 1 .. 1
      BY <3>2
    <3>4. QED
      BY <3>2, <3>3
  <2>6. QED
    BY <2>4, <2>5 DEF DbGet, MemGet, u, f, T
<1>6. CASE d \notin 1 .. Len(place)
  <2>1. I = {} /\ T = {}
    BY <1>1, <1>6
  <2>2. Cardinality(I) = 0 /\ Cardinality(T) = 0
    BY <2>1, FS_EmptySet
  <2> HIDE DEF I, T, u, f
  <2>3. u = << >>
    BY <1>2, <2>2
  <2>4. f = << >>
    <3>1. << >> \in [1 .. 0 -> {}] /\ IsInjective(<< >>)
      BY DEF IsInjective
    <3>2. f \in [1 .. 0 -> {}]
      BY <1>4, <2>1, <2>2, <3>1
    <3>3. QED
      BY <3>2
  <2>5. QED
    BY <2>3, <2>4 DEF DbGet, MemGet, u, f, T
<1>7. QED
  BY <1>5, <1>6

LEMMA ListAgrees ==
  ASSUME TableInv, InTurn(tab.docs) PROVE Answer(MemList(mem)) \in DbList(tab)
<1>1. mem.docs \in Seq(Row) /\ tab.docs = Range(mem.docs)
      /\ \A i \in 1 .. Len(mem.docs) : mem.docs[i].id = i
  BY MemTypes DEF TableInv
<1>2. mem.docs \in Oldest(tab.docs)
  BY <1>1, WholeIsOldest
<1>3. Reverse(mem.docs) \in Latest(tab.docs)
  BY <1>2 DEF Latest
<1>4. QED
  BY <1>3 DEF DbList, MemList

LEMMA FindAgrees ==
  ASSUME TableInv, NEW f
  PROVE  /\ MemFind(mem, f) = << >> <=> << >> \in DbFind(tab, f)
         /\ InTurn(tab.docs) => Answer(MemFind(mem, f)) \in DbFind(tab, f)
<1> DEFINE u == Only(mem.docs, "file", f)
           T == {r \in tab.docs : r.file = f}
<1>1. mem.docs \in Seq(Row) /\ T = Matching(Range(mem.docs), "file", f)
      /\ \A i \in 1 .. Len(mem.docs) : mem.docs[i].id = i
  BY MemTypes DEF TableInv, Matching
<1>2. u \in Seq(Row) /\ Cardinality(T) = Len(u) /\ Range(u) = T
  <2> HIDE DEF T
  <2>1. QED
    BY <1>1, OnlyEntries
<1>3. InTurn(tab.docs) => u \in Oldest(T)
  <2> SUFFICES ASSUME InTurn(tab.docs) PROVE u \in Oldest(T)
    OBVIOUS
  <2>1. \A i, j \in 1 .. Len(mem.docs) : i < j => mem.docs[i].created <= mem.docs[j].created
    BY DocsInTurn
  <2> HIDE DEF u, T
  <2>2. Only(mem.docs, "file", f) \in Oldest(T)
    BY <1>1, <2>1, OnlyIsOldest
  <2>3. QED
    BY <2>2 DEF u
<1>4. DbFind(tab, f) = {Answer(First(s)) : s \in Oldest(T)} /\ MemFind(mem, f) = First(u)
  BY DEF DbFind, MemFind
<1>5. \A s \in Oldest(T) : DOMAIN s = 1 .. Len(u) /\ Range(s) = T
  BY <1>2 DEF Oldest
<1> HIDE DEF u, T
<1>6. CASE T = {}
  <2>1. Len(u) = 0
    BY <1>2, <1>6, FS_EmptySet
  <2>2. u = << >>
    BY <1>2, <2>1
  <2>3. << >> \in [1 .. Cardinality(T) -> T] /\ Range(<< >>) = T
    <3>1. << >> \in [1 .. 0 -> T] /\ Range(<< >>) = {}
      BY DEF Range
    <3>2. QED
      BY <1>2, <1>6, <2>1, <3>1
  <2>4. << >> \in Oldest(T)
    BY <2>3 DEF Oldest
  <2>5. Answer(First(<< >>)) = << >>
    BY DEF Answer, First, Null
  <2>6. QED
    BY <1>3, <1>4, <2>2, <2>4, <2>5 DEF First
<1>7. CASE T # {}
  <2>1. Len(u) # 0 /\ Len(u) \in Nat
    <3>1. u # << >>
      BY <1>2, <1>7 DEF Range
    <3>2. QED
      BY <1>2, <3>1
  <2>2. First(u) # << >>
    BY <1>2, <2>1 DEF First
  <2>3. ASSUME NEW s \in Oldest(T) PROVE Answer(First(s)) # << >>
    <3>1. 1 \in DOMAIN s
      BY <1>5, <2>1
    <3>2. First(s) = <<s[1]>>
      BY <3>1 DEF First
    <3>3. DOMAIN Answer(<<s[1]>>) = 1 .. 1
      BY DEF Answer, Null
    <3>4. DOMAIN << >> = {} /\ 1 \in 1 .. 1
      OBVIOUS
    <3>5. QED
      BY <3>2, <3>3, <3>4
  <2>4. QED
    BY <1>3, <1>4, <2>2, <2>3
<1>8. QED
  BY <1>6, <1>7

LEMMA ChunksAgree ==
  ASSUME TableInv, NEW d PROVE DbChunksOf(tab, d) = MemChunksOf(mem, d)
<1> DEFINE s == mem.chunks
           u == Only(s, "doc", d)
           I == {i \in 1 .. Len(s) : s[i]["doc"] = d}
<1>1. s \in Seq(Piece) /\ DOMAIN s = 1 .. Len(s)
      /\ \A i \in 1 .. Len(s) : s[i] \in Piece
  BY DEF TableInv, Types, Doubles
<1>2. \A i, j \in 1 .. Len(s) : s[i].doc = s[j].doc /\ s[i].index = s[j].index => i = j
  BY DEF TableInv, InOrder
<1>3. tab.chunks = Range(s)
  BY DEF TableInv, Types, Rows
<1>4. u \in Seq(Piece)
  BY <1>1, OnlyOrder
<1>5. PICK q \in [1 .. Len(u) -> I] :
        /\ Range(q) = I
        /\ \A k \in 1 .. Len(u) : u[k] = s[q[k]]
        /\ \A j, k \in 1 .. Len(u) : j < k => q[j] < q[k]
  BY <1>1, OnlyOrder
<1>6. \A i \in I : i \in 1 .. Len(s) /\ s[i].doc = d
  OBVIOUS
<1>7. \A i \in 1 .. Len(s) : s[i].doc = d => i \in I
  OBVIOUS
<1> HIDE DEF s, u, I
<1>8. Len(u) \in Nat /\ DOMAIN u = 1 .. Len(u)
  BY <1>4
<1>9. \A k \in 1 .. Len(u) : q[k] \in 1 .. Len(s) /\ u[k] = s[q[k]] /\ u[k].doc = d
  BY <1>5, <1>6
<1>10. \A k \in 1 .. Len(u) : u[k]["index"] \in Nat
  BY <1>1, <1>9 DEF Piece
<1>11. \A j, k \in 1 .. Len(u) : u[j]["index"] = u[k]["index"] => j = k
  <2> SUFFICES ASSUME NEW j \in 1 .. Len(u), NEW k \in 1 .. Len(u), u[j].index = u[k].index
               PROVE  j = k
    OBVIOUS
  <2>1. q[j] = q[k]
    BY <1>2, <1>9
  <2>2. q[j] \in Nat
    BY <1>9
  <2>3. ~(q[j] < q[k]) /\ ~(q[k] < q[j])
    BY <2>1, <2>2
  <2>4. ~(j < k) /\ ~(k < j)
    BY <1>5, <2>3
  <2>5. QED
    BY <1>8, <2>4
<1>12. Range(u) = {r \in Range(s) : r.doc = d}
  <2>1. \A k \in 1 .. Len(u) : u[k] \in Range(s) /\ u[k].doc = d
    BY <1>1, <1>9 DEF Range
  <2>2. ASSUME NEW r \in Range(s), r.doc = d PROVE \E k \in 1 .. Len(u) : u[k] = r
    <3>1. PICK i \in 1 .. Len(s) : s[i] = r
      BY <1>1 DEF Range
    <3>2. i \in I
      BY <1>7, <2>2, <3>1
    <3>3. PICK k \in 1 .. Len(u) : q[k] = i
      BY <1>5, <3>2 DEF Range
    <3>4. QED
      BY <1>9, <3>1, <3>3
  <2>3. QED
    BY <1>8, <2>1, <2>2 DEF Range
<1>13. By(Range(u), "index") = SortedBy(u, "index")
  BY <1>4, <1>10, <1>11, SortedByIsBy
<1>14. QED
  BY <1>3, <1>12, <1>13 DEF DbChunksOf, MemChunksOf, s, u

\* ORDER BY created_at DESC LIMIT is the end of the list, backwards; runs[-limit:] of a limit
\* of 0 is all of it.
LEMMA NewestAre ==
  ASSUME NEW X, NEW s \in Seq(X), Limit > 0
  PROVE  Newest(s) = Null("created", Take(Reverse(s), Limit))
<1> DEFINE n == Len(s)
           L == Limit
           m == Max({1, n - L + 1})
           w == SubSeq(s, m, n)
           v == Reverse(s)
           z == IF L < n THEN L ELSE n
<1>1. n \in Nat /\ DOMAIN s = 1 .. n /\ L \in Nat \ {0} /\ \A i \in 1 .. n : s[i] \in X
  BY BoundAssumption
<1>7. m = IF n - L + 1 > 1 THEN n - L + 1 ELSE 1
  BY <1>1, MaxOfTwo
<1>8. m \in Nat \ {0} /\ n - m + 1 = z /\ z \in Nat
  BY <1>1, <1>7
<1>9. v = [i \in 1 .. n |-> s[(n - i) + 1]]
  BY DEF Reverse
<1> HIDE DEF n, L, m, z
<1>10. w \in Seq(X) /\ Len(w) = z /\ \A i \in 1 .. z : w[i] = s[m + i - 1]
  <2>1. \A i \in m .. n : s[i] \in X
    BY <1>1, <1>8
  <2>2. /\ w \in Seq(X) /\ Len(w) = (IF m <= n THEN n - m + 1 ELSE 0)
        /\ \A i \in 1 .. n - m + 1 : w[i] = s[m + i - 1]
    BY <1>1, <1>8, <2>1, SubSeqProperties
  <2>3. m <= n \/ z = 0
    BY <1>1, <1>8
  <2>4. QED
    BY <1>1, <1>8, <2>2, <2>3
<1>11. /\ SubSeq(v, 1, z) \in Seq(X) /\ Len(SubSeq(v, 1, z)) = z
       /\ \A i \in 1 .. z : SubSeq(v, 1, z)[i] = v[i]
  <2>1. z <= n
    BY <1>1 DEF z
  <2>2. \A i \in 1 .. z : i \in 1 .. n /\ (n - i) + 1 \in 1 .. n
    BY <1>1, <1>8, <2>1
  <2>3. \A i \in 1 .. z : v[i] \in X
    BY <1>1, <1>9, <2>2
  <2>4. /\ SubSeq(v, 1, z) \in Seq(X) /\ Len(SubSeq(v, 1, z)) = (IF 1 <= z THEN z - 1 + 1 ELSE 0)
        /\ \A i \in 1 .. z - 1 + 1 : SubSeq(v, 1, z)[i] = v[1 + i - 1]
    BY <1>8, <2>3, SubSeqProperties
  <2>5. QED
    BY <1>8, <2>4
<1>12. Reverse(w) = [i \in 1 .. z |-> s[m + ((z - i) + 1) - 1]]
  <2>1. Reverse(w) = [i \in 1 .. z |-> w[(z - i) + 1]]
    BY <1>10 DEF Reverse
  <2>2. \A i \in 1 .. z : (z - i) + 1 \in 1 .. z
    BY <1>8
  <2>3. QED
    BY <1>10, <2>1, <2>2
<1>13. SubSeq(v, 1, z) = [i \in 1 .. z |-> s[(n - i) + 1]]
  <2>1. \A i \in 1 .. z : v[i] = s[(n - i) + 1]
    <3>1. \A i \in 1 .. z : i \in 1 .. n
      BY <1>1, <1>8 DEF z
    <3>2. QED
      BY <1>9, <3>1
  <2>2. SubSeq(v, 1, z) = [i \in 1 .. z |-> SubSeq(v, 1, z)[i]]
    BY <1>11
  <2>3. QED
    BY <1>11, <2>1, <2>2
<1>14. \A i \in 1 .. z : m + ((z - i) + 1) - 1 = (n - i) + 1
  BY <1>1, <1>8
<1>15. Reverse(w) = SubSeq(v, 1, z)
  BY <1>12, <1>13, <1>14
<1>16. Newest(s) = Null("created", Reverse(w))
  BY <1>1 DEF Newest, w, m, n, L
<1>17. Take(v, L) = SubSeq(v, 1, z)
  <2>1. Len(v) = n
    BY <1>1, <1>9
  <2>2. QED
    BY <2>1 DEF Take, z
<1>18. QED
  BY <1>15, <1>16, <1>17 DEF L, v

LEMMA RunsAgree ==
  ASSUME NEW X, NEW s \in Seq(X), \A i \in 1 .. Len(s) : s[i].id = i,
         Limit > 0, InTurn(Range(s))
  PROVE  \E runs \in {Take(u, Limit) : u \in Latest(Range(s))} : Newest(s) = Null("created", runs)
<1>1. s \in Oldest(Range(s))
  BY WholeIsOldest
<1>2. Reverse(s) \in Latest(Range(s))
  BY <1>1 DEF Latest
<1>3. Newest(s) = Null("created", Take(Reverse(s), Limit))
  BY NewestAre
<1>4. QED
  BY <1>2, <1>3

\* The two aggregates differ in the fallback of a row that was never written to.
LEMMA GroupsAgree ==
  ASSUME TableInv, NEW b \in DOMAIN mem.batches
  PROVE  /\ DOMAIN DbGroups(tab, b) = DOMAIN MemGroups(mem, b)
         /\ \A s \in DOMAIN DbGroups(tab, b) :
              LET g == DbGroups(tab, b)[s]
                  h == MemGroups(mem, b)[s]
              IN  /\ g.n = h.n /\ g.count = h.count
                  /\ g.last \in Nat \ {0} /\ h.last \in Nat \ {0} /\ g.last <= now /\ h.last <= now
                  /\ h.last <= mem.batches[b].created \/ h.last <= g.last
         /\ (\A r \in tab.docs : r.batch = b => r.updated # 0) => DbGroups(tab, b) = MemGroups(mem, b)
<1> DEFINE M == {r \in tab.docs : r.batch = b}
           S == {r.status : r \in M}
           group(s) == {r \in M : r.status = s}
           n(s) == Cardinality(group(s))
           count(s) == SumFunction([r \in group(s) |-> r.count])
           D(r) == IF r.updated # 0 THEN r.updated ELSE r.created
           P(r) == IF r.updated # 0 THEN r.updated ELSE mem.batches[b].created
           d(s) == Max({D(r) : r \in group(s)})
           p(s) == Max({P(r) : r \in group(s)})
<1>1. tab.docs = Range(mem.docs)
  BY MemTypes DEF TableInv
<1>2. DbGroups(tab, b) = [s \in S |-> [n |-> n(s), count |-> count(s), last |-> d(s)]]
  BY DEF DbGroups, Groups
<1>3. MemGroups(mem, b) = [s \in S |-> [n |-> n(s), count |-> count(s), last |-> p(s)]]
  BY <1>1 DEF MemGroups, Groups
<1>4. ASSUME \A r \in tab.docs : r.batch = b => r.updated # 0 PROVE \A s \in S : d(s) = p(s)
  <2> SUFFICES ASSUME NEW s \in S PROVE d(s) = p(s)
    OBVIOUS
  <2>1. {D(r) : r \in group(s)} = {P(r) : r \in group(s)}
    BY <1>4
  <2>2. QED
    BY <2>1
<1>5. ASSUME NEW s \in S
      PROVE  /\ d(s) \in Nat \ {0} /\ p(s) \in Nat \ {0} /\ d(s) <= now /\ p(s) <= now
             /\ p(s) <= mem.batches[b].created \/ p(s) <= d(s)
  <2> DEFINE A == {P(r) : r \in group(s)}
             B == {D(r) : r \in group(s)}
             start == mem.batches[b].created
  <2>1. start \in Nat \ {0} /\ start <= now /\ now \in Nat
    BY MemTypes DEF TableInv, Placed
  <2>2. \A r \in tab.docs : /\ r.created \in Nat \ {0} /\ r.updated \in Nat
                            /\ r.created <= now /\ r.updated <= now
    BY MemTypes DEF TableInv, Placed
  <2>3. \A r \in group(s) :
          /\ P(r) \in Nat \ {0} /\ D(r) \in Nat \ {0} /\ P(r) <= now /\ D(r) <= now
          /\ P(r) = start \/ P(r) = D(r)
    BY <2>1, <2>2
  <2>4. group(s) # {}
    OBVIOUS
  <2> HIDE DEF start, group, P, D
  <2>5. /\ A \in SUBSET (Nat \ {0}) /\ A # {} /\ \A x \in A : x <= now
        /\ B \in SUBSET (Nat \ {0}) /\ B # {} /\ \A x \in B : x <= now
        /\ \A x \in A : x = start \/ x \in B
    BY <2>3, <2>4
  <2> HIDE DEF A, B
  <2>6. /\ Max(A) \in A /\ Max(A) \in Nat
        /\ Max(B) \in B /\ Max(B) \in Nat /\ \A x \in B : x <= Max(B)
    BY <2>1, <2>5, MaxOf
  <2>7. Max(A) = start \/ Max(A) <= Max(B)
    BY <2>5, <2>6
  <2>8. QED
    BY <2>1, <2>5, <2>6, <2>7 DEF A, B, start
<1> HIDE DEF S, n, count, d, p
<1>6. (\A r \in tab.docs : r.batch = b => r.updated # 0) => DbGroups(tab, b) = MemGroups(mem, b)
  BY <1>2, <1>3, <1>4
<1>7. /\ DOMAIN DbGroups(tab, b) = S /\ DOMAIN MemGroups(mem, b) = S
      /\ \A s \in S : /\ DbGroups(tab, b)[s].n = n(s) /\ DbGroups(tab, b)[s].count = count(s)
                      /\ DbGroups(tab, b)[s].last = d(s)
      /\ \A s \in S : /\ MemGroups(mem, b)[s].n = n(s) /\ MemGroups(mem, b)[s].count = count(s)
                      /\ MemGroups(mem, b)[s].last = p(s)
  BY <1>2, <1>3
<1>8. QED
  BY <1>5, <1>6, <1>7

\* A summary counts the same, lists the same rows, and ends no later.
LEMMA SummaryAgrees ==
  ASSUME TableInv, NEW b \in DOMAIN mem.batches
  PROVE  MemSummary(mem, b) \in DbSummary(tab, b)
<1> DEFINE G == DbGroups(tab, b)
           H == MemGroups(mem, b)
           u == Only(mem.docs, "batch", b)
           T == {r \in tab.docs : r.batch = b}
<1>1. /\ DOMAIN G = DOMAIN H
      /\ \A s \in DOMAIN G : G[s].n = H[s].n /\ G[s].count = H[s].count
  BY GroupsAgree
<1>2. tab.batches = mem.batches
  BY MemTypes DEF TableInv
<1>3. u \in Oldest(T)
  <2>1. mem.docs \in Seq(Row) /\ T = Matching(Range(mem.docs), "batch", b)
        /\ Len(mem.docs) = Len(place) /\ \A i \in 1 .. Len(mem.docs) : mem.docs[i].id = i
    BY MemTypes DEF TableInv, Matching
  <2>2. b # None
    BY MemTypes, NoneAssumption DEF TableInv
  <2>3. \A i, j \in 1 .. Len(mem.docs) :
          i < j /\ mem.docs[i]["batch"] = b /\ mem.docs[j]["batch"] = b =>
            mem.docs[i].created <= mem.docs[j].created
    BY <2>1, <2>2 DEF TableInv, InOrder
  <2> HIDE DEF T
  <2>4. QED
    BY <2>1, <2>3, OnlyIsOldest
<1> HIDE DEF G, H, T, u
<1>4. [s \in DOMAIN G |-> G[s].n] = [s \in DOMAIN H |-> H[s].n]
  BY <1>1
<1>5. [s \in DOMAIN G |-> G[s].count] = [s \in DOMAIN H |-> H[s].count]
  BY <1>1
<1>6. BatchSummary(tab.batches[b], G, u) = BatchSummary(mem.batches[b], H, u)
  BY <1>2, <1>4, <1>5 DEF BatchSummary
<1>7. DbSummary(tab, b) = {BatchSummary(tab.batches[b], G, docs) : docs \in Oldest(T)}
  BY DEF DbSummary, G, T
<1>8. MemSummary(mem, b) = BatchSummary(mem.batches[b], H, u)
  BY DEF MemSummary, H, u
<1>9. QED
  BY <1>3, <1>6, <1>7, <1>8

LEMMA ElapsedIs ==
  ASSUME NEW start \in Nat, NEW end \in Nat, NEW time \in Nat
  PROVE  Elapsed(start, end, time) = Since(start, IF end # 0 THEN end ELSE time)
<1> DEFINE t == IF end # 0 THEN end ELSE time
<1>1. t \in Nat
  OBVIOUS
<1>2. Elapsed(start, end, time) = Max({0, t - start})
  BY DEF Elapsed
<1> HIDE DEF t
<1>3. Max({0, t - start}) = IF 0 < t - start THEN t - start ELSE 0
  BY <1>1, MaxOfTwo
<1>4. Max({0, t - start}) = Since(start, t)
  BY <1>1, <1>3 DEF Since
<1>5. QED
  BY <1>2, <1>4 DEF t

LEMMA ElapsedAgrees ==
  ASSUME TableInv, NEW b \in DOMAIN mem.batches
  PROVE  /\ MemElapsed(mem, b) <= DbElapsed(tab, b)
         /\ (\A r \in tab.docs : r.batch = b => r.updated # 0) =>
              MemElapsed(mem, b) = DbElapsed(tab, b)
<1> DEFINE G == DbGroups(tab, b)
           H == MemGroups(mem, b)
           start == mem.batches[b].created
           total == mem.batches[b].total
           L == {G[s].last : s \in DOMAIN G}
           K == {H[s].last : s \in DOMAIN H}
<1>1. /\ DOMAIN G = DOMAIN H
      /\ \A s \in DOMAIN G :
           /\ G[s].n = H[s].n
           /\ G[s].last \in Nat \ {0} /\ H[s].last \in Nat \ {0}
           /\ G[s].last <= now /\ H[s].last <= now
           /\ H[s].last <= start \/ H[s].last <= G[s].last
      /\ (\A r \in tab.docs : r.batch = b => r.updated # 0) => G = H
  BY GroupsAgree
<1>2. tab.batches = mem.batches /\ start \in Nat \ {0} /\ total \in Nat /\ now \in Nat
  BY MemTypes DEF TableInv
<1>3. Settled(H) = Settled(G)
  <2> HIDE DEF G, H
  <2>1. \A s : CountOf(H, s) = CountOf(G, s)
    BY <1>1 DEF CountOf
  <2>2. QED
    BY <2>1 DEF Settled
<1>4. DbElapsed(tab, b) = Elapsed(start, End(G, total), now)
      /\ MemElapsed(mem, b) = Elapsed(start, End(H, total), now)
  BY <1>2 DEF DbElapsed, MemElapsed
<1>5. LastAt(G) = Max(L) /\ LastAt(H) = Max(K)
  BY DEF LastAt
<1> HIDE DEF G, H, start, total
<1>6. CASE total > 0 /\ Settled(G) >= total
  <2>1. End(G, total) = Max(L) /\ End(H, total) = Max(K)
    BY <1>3, <1>5, <1>6 DEF End
  <2>2. DOMAIN G # {}
    <3> SUFFICES ASSUME DOMAIN G = {} PROVE FALSE
      OBVIOUS
    <3>1. Settled(G) = 0
      BY DEF Settled, CountOf
    <3>2. QED
      BY <1>2, <1>6, <3>1
  <2>3. /\ L \in SUBSET Nat /\ L # {} /\ \A x \in L : x <= now
        /\ K \in SUBSET Nat /\ K # {} /\ \A x \in K : x <= now
        /\ 0 \notin L /\ 0 \notin K
        /\ \A x \in K : x <= start \/ \E y \in L : x <= y
    BY <1>1, <2>2
  <2> HIDE DEF L, K
  <2>4. /\ Max(K) \in K /\ Max(K) \in Nat
        /\ Max(L) \in L /\ Max(L) \in Nat /\ \A y \in L : y <= Max(L)
    BY <1>2, <2>3, MaxOf
  <2>5. Max(K) <= start \/ Max(K) <= Max(L)
    <3>1. CASE Max(K) <= start
      BY <3>1
    <3>2. CASE \E y \in L : Max(K) <= y
      <4>1. PICK y \in L : Max(K) <= y
        BY <3>2
      <4>2. y \in Nat /\ y <= Max(L)
        BY <2>3, <2>4
      <4>3. QED
        BY <2>4, <4>1, <4>2
    <3>3. QED
      BY <2>3, <2>4, <3>1, <3>2
  <2>6. Max(K) # 0 /\ Max(L) # 0
    BY <2>3, <2>4
  <2>7. MemElapsed(mem, b) = Since(start, Max(K)) /\ DbElapsed(tab, b) = Since(start, Max(L))
    BY <1>2, <1>4, <2>1, <2>4, <2>6, ElapsedIs
  <2>8. Since(start, Max(K)) <= Since(start, Max(L))
    BY <1>2, <2>4, <2>5 DEF Since
  <2>9. QED
    BY <1>1, <1>4, <2>7, <2>8
<1>7. CASE ~(total > 0 /\ Settled(G) >= total)
  <2>1. End(G, total) = 0 /\ End(H, total) = 0
    BY <1>3, <1>7 DEF End
  <2>2. MemElapsed(mem, b) = DbElapsed(tab, b) /\ DbElapsed(tab, b) = Since(start, now)
    BY <1>2, <1>4, <2>1, ElapsedIs
  <2>3. Since(start, now) \in Nat
    BY <1>2 DEF Since
  <2>4. QED
    BY <2>2, <2>3
<1>8. QED
  BY <1>6, <1>7

\* Whatever the callers do, for any number of rows, batches, chunks and runs and any limit: a
\* read of the doubles is one that Postgres may answer (repository.py:517), with the
\* differences that DoublesAgree names and no other.
THEOREM DoublesAlwaysAgree == Spec => []DoublesAgree
<1>1. TableInv => DoublesAgree
  <2> SUFFICES ASSUME TableInv PROVE DoublesAgree
    OBVIOUS
  <2>1. \A d \in 1 .. MaxDocs : Answer(MemGet(mem, d)) = DbGet(tab, d)
    BY GetAgrees
  <2>2. /\ \A f \in Files : MemFind(mem, f) = << >> <=> << >> \in DbFind(tab, f)
        /\ InTurn(tab.docs) => \A f \in Files : Answer(MemFind(mem, f)) \in DbFind(tab, f)
    BY FindAgrees
  <2>3. \A d \in 1 .. MaxDocs : DbChunksOf(tab, d) = MemChunksOf(mem, d)
    BY ChunksAgree
  <2>4. DbGetByIds(tab, ChunkIds) = MemGetByIds(mem, ChunkIds)
    <3>1. tab.chunks = Range(mem.chunks)
      BY DEF TableInv, Types, Rows
    <3>2. QED
      BY <3>1 DEF DbGetByIds, MemGetByIds
  <2>5. DOMAIN tab.batches = DOMAIN mem.batches
    BY MemTypes DEF TableInv
  <2>6. /\ tab.bench = Range(mem.bench) /\ mem.bench \in Seq(Kept)
        /\ tab.evals = Range(mem.evals) /\ mem.evals \in Seq(Kept)
        /\ \A i \in 1 .. Len(mem.bench) : mem.bench[i].id = i
        /\ \A i \in 1 .. Len(mem.evals) : mem.evals[i].id = i
    BY DEF TableInv, Types, Rows, Doubles, InOrder
  <2>7. (Limit > 0 /\ InTurn(tab.bench)) =>
          \E runs \in DbBenchmarks(tab) : MemBenchmarks(mem) = Null("created", runs)
    BY <2>6, RunsAgree DEF DbBenchmarks, MemBenchmarks
  <2>8. (Limit > 0 /\ InTurn(tab.evals)) =>
          \E runs \in DbEvals(tab) : MemEvals(mem) = Null("created", runs)
    BY <2>6, RunsAgree DEF DbEvals, MemEvals
  <2>9. \A b \in DOMAIN tab.batches :
          /\ MemSummary(mem, b) \in DbSummary(tab, b)
          /\ MemElapsed(mem, b) <= DbElapsed(tab, b)
          /\ (\A r \in tab.docs : r.batch = b => r.updated # 0) =>
               MemElapsed(mem, b) = DbElapsed(tab, b)
    BY <2>5, SummaryAgrees, ElapsedAgrees
  <2>10. QED
    BY <2>1, <2>2, <2>3, <2>4, <2>7, <2>8, <2>9, ListAgrees DEF DoublesAgree
<1>2. QED
  BY <1>1, TablesCorrect, PTL

-----------------------------------------------------------------------------
(* What a step does to the members of a batch. *)

\* Rows stay in their batch, stamps rise, and what may end the wall time of a batch, a row
\* that settles or one that is counted, leaves a recent stamp behind.
Advanced ==
  /\ Len(place) <= Len(place')
  /\ \A i \in 1 .. Len(place) :
       /\ mem'.docs[i].batch = mem.docs[i].batch
       /\ Stamp(mem'.docs[i]) >= Stamp(mem.docs[i])
       /\ place[i] = "done" => place'[i] = "done" /\ mem'.docs[i] = mem.docs[i]
       /\ mem'.docs[i].status = mem.docs[i].status \/ Recent(Stamp(mem'.docs[i]))
  /\ \A i \in 1 .. Len(place') : i \notin 1 .. Len(place) => Recent(Stamp(mem'.docs[i]))
  /\ DOMAIN mem.batches \subseteq DOMAIN mem'.batches
  /\ \A b \in DOMAIN mem.batches :
       /\ mem'.batches[b].created = mem.batches[b].created
       /\ \/ mem'.batches[b].total = mem.batches[b].total
          \/ /\ mem'.batches[b].total > mem.batches[b].total
             /\ \E i \in Members(mem'.docs, b) : Recent(Stamp(mem'.docs[i]))
  /\ \A b \in DOMAIN mem'.batches \ DOMAIN mem.batches : mem'.batches[b].total = 0

LEMMA StampIs ==
  ASSUME TableInv
  PROVE  \A i \in 1 .. Len(place) : Stamp(mem.docs[i]) \in Nat \ {0} /\ Stamp(mem.docs[i]) <= now
<1>1. \A i \in 1 .. Len(place) :
        /\ mem.docs[i].created \in Nat \ {0} /\ mem.docs[i].updated \in Nat
        /\ mem.docs[i].created <= now /\ mem.docs[i].updated <= now
  BY MemTypes DEF TableInv, Placed
<1>2. QED
  BY <1>1 DEF Stamp

\* Steps that leave the rows alone.
LEMMA OthersAdvance ==
  ASSUME TableInv, mem'.docs = mem.docs, Len(place') = Len(place),
         \A i \in 1 .. Len(place) : place[i] = "done" => place'[i] = "done",
         DOMAIN mem.batches \subseteq DOMAIN mem'.batches,
         \A b \in DOMAIN mem.batches :
           /\ mem'.batches[b].created = mem.batches[b].created
           /\ \/ mem'.batches[b].total = mem.batches[b].total
              \/ /\ mem'.batches[b].total > mem.batches[b].total
                 /\ \E i \in Members(mem'.docs, b) : Recent(Stamp(mem'.docs[i])),
         \A b \in DOMAIN mem'.batches \ DOMAIN mem.batches : mem'.batches[b].total = 0
  PROVE  Advanced
<1>1. \A i \in 1 .. Len(place) : Stamp(mem.docs[i]) \in Nat /\ Len(place) \in Nat
  BY StampIs, PlaceTypes
<1>2. \A i \in 1 .. Len(place) : Stamp(mem'.docs[i]) >= Stamp(mem.docs[i])
  BY <1>1
<1>3. QED
  BY <1>1, <1>2, PlaceTypes DEF Advanced

LEMMA GrownAdvances ==
  ASSUME TableInv, NEW row, NEW next, Grown(row, next) PROVE Advanced
<1> DEFINE n == Len(place)
<1>1. /\ n \in Nat /\ mem.docs \in Seq(Row) /\ Len(mem.docs) = n /\ place \in Seq(Places)
      /\ \A i \in 1 .. n : Stamp(mem.docs[i]) \in Nat
  BY MemTypes, PlaceTypes, StampIs DEF TableInv
<1>2. row \in Row /\ next \in Places /\ row.updated = 0 /\ Recent(row.created)
  BY DEF Grown, Places
<1>3. mem'.docs = Append(mem.docs, row) /\ place' = Append(place, next)
      /\ mem'.batches = mem.batches
  BY DEF Grown
<1> HIDE DEF n
<1>4. /\ Len(place') = n + 1
      /\ \A i \in 1 .. n : mem'.docs[i] = mem.docs[i] /\ place'[i] = place[i]
      /\ mem'.docs[n + 1] = row
  BY <1>1, <1>2, <1>3 DEF n
<1>5. \A i \in 1 .. n + 1 : i \notin 1 .. n => Recent(Stamp(mem'.docs[i]))
  <2>1. \A i \in 1 .. n + 1 : i \notin 1 .. n => i = n + 1
    BY <1>1
  <2>2. Recent(Stamp(row))
    BY <1>2 DEF Stamp
  <2>3. QED
    BY <1>4, <2>1, <2>2
<1>6. \A i \in 1 .. n : Stamp(mem'.docs[i]) >= Stamp(mem.docs[i])
  BY <1>1, <1>4
<1>7. n <= n + 1
  BY <1>1
<1>8. QED
  BY <1>3, <1>4, <1>5, <1>6, <1>7 DEF Advanced, n

LEMMA RewrittenAdvances ==
  ASSUME TableInv, NEW d, NEW row, NEW next, Rewritten(d, row, next) PROVE Advanced
<1> DEFINE n == Len(place)
<1>1. /\ n \in Nat /\ mem.docs \in Seq(Row) /\ Len(mem.docs) = n /\ place \in Seq(Places)
      /\ \A i \in 1 .. n : Stamp(mem.docs[i]) \in Nat
      /\ \A i \in 1 .. n : mem.docs[i].updated \in Nat
  BY MemTypes, PlaceTypes, StampIs DEF TableInv
<1>2. d \in 1 .. n /\ next \in Places /\ place[d] # "done" /\ Follows(row, mem.docs[d]) /\ row \in Row
  BY DEF Rewritten
<1>3. mem'.docs = [mem.docs EXCEPT ![d] = row] /\ place' = [place EXCEPT ![d] = next]
      /\ mem'.batches = mem.batches
  BY DEF Rewritten
<1> HIDE DEF n
<1>4. /\ Len(place') = n
      /\ \A i \in 1 .. n : i # d => mem'.docs[i] = mem.docs[i] /\ place'[i] = place[i]
      /\ mem'.docs[d] = row
  BY <1>1, <1>2, <1>3 DEF n
<1>5. row.batch = mem.docs[d].batch /\ Stamp(row) >= Stamp(mem.docs[d])
      /\ (row.status = mem.docs[d].status \/ Recent(Stamp(row)))
  <2>1. CASE row.status = mem.docs[d].status /\ row.updated = mem.docs[d].updated
    <3>1. Stamp(row) = Stamp(mem.docs[d])
      BY <1>2, <2>1 DEF Stamp, Follows
    <3>2. QED
      BY <1>1, <1>2, <2>1, <3>1 DEF Follows
  <2>2. CASE row.updated >= Stamp(mem.docs[d]) /\ Recent(row.updated)
    <3>1. row.updated # 0
      BY <2>2, MemTypes DEF Recent, TableInv
    <3>2. Stamp(row) = row.updated
      BY <3>1 DEF Stamp
    <3>3. QED
      BY <1>2, <2>2, <3>2 DEF Follows
  <2>3. QED
    BY <1>2, <2>1, <2>2 DEF Follows
<1>6. \A i \in 1 .. n :
       /\ mem'.docs[i].batch = mem.docs[i].batch
       /\ Stamp(mem'.docs[i]) >= Stamp(mem.docs[i])
       /\ place[i] = "done" => place'[i] = "done" /\ mem'.docs[i] = mem.docs[i]
       /\ mem'.docs[i].status = mem.docs[i].status \/ Recent(Stamp(mem'.docs[i]))
  <2> SUFFICES ASSUME NEW i \in 1 .. n
               PROVE  /\ mem'.docs[i].batch = mem.docs[i].batch
                      /\ Stamp(mem'.docs[i]) >= Stamp(mem.docs[i])
                      /\ place[i] = "done" => place'[i] = "done" /\ mem'.docs[i] = mem.docs[i]
                      /\ mem'.docs[i].status = mem.docs[i].status \/ Recent(Stamp(mem'.docs[i]))
    OBVIOUS
  <2>1. CASE i = d
    BY <1>2, <1>4, <1>5, <2>1
  <2>2. CASE i # d
    <3>1. mem'.docs[i] = mem.docs[i] /\ Stamp(mem.docs[i]) \in Nat /\ place'[i] = place[i]
      BY <1>1, <1>4, <2>2
    <3>2. Stamp(mem'.docs[i]) >= Stamp(mem.docs[i])
      BY <3>1
    <3>3. QED
      BY <3>1, <3>2
  <2>3. QED
    BY <2>1, <2>2
<1>7. QED
  BY <1>1, <1>3, <1>4, <1>6 DEF Advanced, n

LEMMA StepAdvances == ASSUME TableInv, [Next]_vars PROVE Advanced
<1>1. Moved \/ Quiet
  BY StepMoves
<1>2. CASE Quiet
  BY <1>2, OthersAdvance DEF Quiet
<1>3. ASSUME NEW b \in Batches, Opened(b) PROVE Advanced
  <2>1. \A x \in DOMAIN mem'.batches \ DOMAIN mem.batches : mem'.batches[x].total = 0
    BY <1>3 DEF Opened
  <2>2. QED
    BY <1>3, <2>1, OthersAdvance DEF Opened
<1>4. ASSUME NEW row, NEW next, Grown(row, next) PROVE Advanced
  BY <1>4, GrownAdvances
<1>5. ASSUME NEW d, NEW next, CountedIn(d, next) PROVE Advanced
  <2> DEFINE b == mem.docs[d].batch
  <2>1. /\ d \in 1 .. Len(place) /\ next \in Places /\ place[d] = "bump"
        /\ place' = [place EXCEPT ![d] = next] /\ mem'.docs = mem.docs
        /\ DOMAIN mem'.batches = DOMAIN mem.batches
        /\ \A x \in DOMAIN mem.batches :
             /\ mem'.batches[x].created = mem.batches[x].created
             /\ mem'.batches[x].total =
                  IF x = b THEN mem.batches[x].total + 1 ELSE mem.batches[x].total
    BY <1>5 DEF CountedIn, Places
  <2>2. /\ Len(place') = Len(place)
        /\ \A i \in 1 .. Len(place) : place'[i] = IF i = d THEN next ELSE place[i]
    BY <2>1, MovePlace
  <2>3. Recent(Stamp(mem.docs[d]))
    <3>1. mem.docs[d].updated = 0 /\ mem.docs[d].created + BumpTime >= now
          /\ mem.docs[d].created <= now /\ mem.docs[d].created \in Nat \ {0} /\ now \in Nat
      BY <2>1, MemTypes DEF TableInv, Placed
    <3>2. QED
      BY <3>1 DEF Recent, Stamp
  <2>4. d \in Members(mem'.docs, b)
    BY <2>1, MemTypes DEF TableInv, Members
  <2>5. \A x \in DOMAIN mem.batches : mem.batches[x].total \in Nat
    BY MemTypes DEF TableInv
  <2> HIDE DEF b
  <2>6. \A x \in DOMAIN mem.batches :
          \/ mem'.batches[x].total = mem.batches[x].total
          \/ /\ mem'.batches[x].total > mem.batches[x].total
             /\ \E i \in Members(mem'.docs, x) : Recent(Stamp(mem'.docs[i]))
    <3> SUFFICES ASSUME NEW x \in DOMAIN mem.batches, x = b
                 PROVE  /\ mem'.batches[x].total > mem.batches[x].total
                        /\ \E i \in Members(mem'.docs, x) : Recent(Stamp(mem'.docs[i]))
      BY <2>1
    <3>1. mem'.batches[x].total > mem.batches[x].total
      BY <2>1, <2>5
    <3>2. QED
      BY <2>1, <2>3, <2>4, <3>1
  <2>7. \A i \in 1 .. Len(place) : place[i] = "done" => place'[i] = "done"
    BY <2>1, <2>2
  <2>8. QED
    BY <2>1, <2>2, <2>6, <2>7, OthersAdvance
<1>6. ASSUME NEW d, NEW row, NEW next, Rewritten(d, row, next) PROVE Advanced
  BY <1>6, RewrittenAdvances
<1>7. ASSUME NEW d, NEW next \in Places, d \in 1 .. Len(place), place[d] # "done",
             place' = [place EXCEPT ![d] = next], mem'.docs = mem.docs, mem'.batches = mem.batches
      PROVE  Advanced
  <2>1. /\ Len(place') = Len(place)
        /\ \A i \in 1 .. Len(place) : place'[i] = IF i = d THEN next ELSE place[i]
    BY <1>7, MovePlace
  <2>2. \A i \in 1 .. Len(place) : place[i] = "done" => place'[i] = "done"
    BY <1>7, <2>1
  <2>3. QED
    BY <1>7, <2>1, <2>2, OthersAdvance
<1>8. "ready" \in Places /\ "done" \in Places
  BY DEF Places
<1>9. ASSUME NEW d, Chunked(d) PROVE Advanced
  BY <1>7, <1>8, <1>9 DEF Chunked
<1>10. ASSUME NEW d, Filed(d) PROVE Advanced
  BY <1>7, <1>8, <1>10 DEF Filed
<1>11. QED
  BY <1>1, <1>2, <1>3, <1>4, <1>5, <1>6, <1>9, <1>10 DEF Moved

-----------------------------------------------------------------------------
(* What the aggregate of a batch comes to. *)

LEMMA MembersAre ==
  ASSUME TableInv, NEW b
  PROVE  /\ Members(mem.docs, b) = {i \in 1 .. Len(place) : mem.docs[i].batch = b}
         /\ Members(mem.docs, b) \in SUBSET (1 .. Len(place))
         /\ IsFiniteSet(Members(mem.docs, b)) /\ Cardinality(Members(mem.docs, b)) \in Nat
         /\ Ended(mem.docs, b) \in SUBSET Members(mem.docs, b)
         /\ IsFiniteSet(Ended(mem.docs, b)) /\ Cardinality(Ended(mem.docs, b)) \in Nat
<1>1. DOMAIN mem.docs = 1 .. Len(place) /\ Len(place) \in Nat
  BY MemTypes DEF TableInv
<1>2. IsFiniteSet(1 .. Len(place))
  BY <1>1, FS_Interval
<1>3. Members(mem.docs, b) = {i \in 1 .. Len(place) : mem.docs[i].batch = b}
  BY <1>1 DEF Members
<1>4. IsFiniteSet(Members(mem.docs, b))
  BY <1>2, <1>3, FS_Subset
<1>5. Ended(mem.docs, b) \in SUBSET Members(mem.docs, b)
  BY DEF Ended
<1>6. IsFiniteSet(Ended(mem.docs, b))
  BY <1>4, <1>5, FS_Subset
<1>7. QED
  BY <1>3, <1>4, <1>5, <1>6, FS_CardinalityType

Statused(b)   == {r.status : r \in {r \in tab.docs : r.batch = b}}
InGroup(b, s) == {r \in {r \in tab.docs : r.batch = b} : r.status = s}
StampsIn(b, s) == {Stamp(r) : r \in InGroup(b, s)}

LEMMA GroupsAre ==
  ASSUME NEW b
  PROVE  /\ DOMAIN DbGroups(tab, b) = Statused(b)
         /\ \A s \in Statused(b) :
              /\ DbGroups(tab, b)[s].n = Cardinality(InGroup(b, s))
              /\ DbGroups(tab, b)[s].last = Max(StampsIn(b, s))
<1> DEFINE n(s) == Cardinality(InGroup(b, s))
           count(s) == SumFunction([r \in InGroup(b, s) |-> r.count])
           last(s) == Max(StampsIn(b, s))
<1>1. DbGroups(tab, b) = [s \in Statused(b) |-> [n |-> n(s), count |-> count(s), last |-> last(s)]]
  BY DEF DbGroups, Groups, Stamp, Statused, InGroup, StampsIn
<1> HIDE DEF n, count, last
<1>2. /\ DOMAIN DbGroups(tab, b) = Statused(b)
      /\ \A s \in Statused(b) : DbGroups(tab, b)[s].n = n(s) /\ DbGroups(tab, b)[s].last = last(s)
  BY <1>1
<1>3. QED
  BY <1>2 DEF n, last

LEMMA CountOfIs ==
  ASSUME TableInv, NEW b, NEW status
  PROVE  LET I == {i \in Members(mem.docs, b) : mem.docs[i].status = status}
         IN  CountOf(DbGroups(tab, b), status) = Cardinality(I) /\ IsFiniteSet(I)
<1> DEFINE G == DbGroups(tab, b)
           M == {r \in tab.docs : r.batch = b}
           I == {i \in Members(mem.docs, b) : mem.docs[i].status = status}
           K == {r \in M : r.status = status}
           f == [i \in I |-> mem.docs[i]]
<1>1. /\ DOMAIN G = {r.status : r \in M}
      /\ status \in DOMAIN G => G[status].n = Cardinality(K)
  <2>1. DOMAIN G = Statused(b) /\ (status \in Statused(b) => G[status].n = Cardinality(InGroup(b, status)))
    BY GroupsAre
  <2>2. Statused(b) = {r.status : r \in M} /\ InGroup(b, status) = K
    BY DEF Statused, InGroup
  <2> HIDE DEF G, M, K
  <2>3. QED
    BY <2>1, <2>2
<1>2. I = {i \in 1 .. Len(place) : mem.docs[i].batch = b /\ mem.docs[i].status = status}
  BY MembersAre
<1>3. IsFiniteSet(I)
  BY MembersAre, FS_Subset
<1>4. /\ \A i \in 1 .. Len(place) : mem.docs[i].id = i /\ mem.docs[i] \in tab.docs
      /\ \A r \in tab.docs : r.id \in 1 .. Len(place) /\ r = mem.docs[r.id]
  BY MemTypes DEF TableInv
<1>5. \A i \in I : mem.docs[i] \in K /\ mem.docs[i].id = i
  BY <1>2, <1>4
<1>6. \A r \in K : r.id \in I /\ mem.docs[r.id] = r
  BY <1>2, <1>4
<1>7. (K = {} /\ status \notin DOMAIN G) \/ status \in DOMAIN G
  BY <1>1
<1> HIDE DEF G, M, I, K
<1>8. f \in Surjection(I, K) /\ f \in Injection(I, K)
  <2>1. f \in [I -> K]
    BY <1>5
  <2>2. \A r \in K : \E i \in I : f[i] = r
    BY <1>6
  <2>3. \A i, j \in I : f[i] = f[j] => i = j
    BY <1>5
  <2>4. QED
    BY <2>1, <2>2, <2>3 DEF Surjection, Injection, IsInjective
<1>9. Cardinality(K) = Cardinality(I)
  BY <1>3, <1>8, FS_Surjection
<1>10. CASE status \in DOMAIN G
  BY <1>1, <1>3, <1>9, <1>10 DEF CountOf, G, I
<1>11. CASE K = {} /\ status \notin DOMAIN G
  <2>1. Cardinality(I) = 0
    BY <1>9, <1>11, FS_EmptySet
  <2>2. QED
    BY <1>3, <1>11, <2>1 DEF CountOf, G, I
<1>12. QED
  BY <1>7, <1>10, <1>11

LEMMA SettledIs ==
  ASSUME TableInv, NEW b
  PROVE  Settled(DbGroups(tab, b)) = Cardinality(Ended(mem.docs, b))
<1> DEFINE I(s) == {i \in Members(mem.docs, b) : mem.docs[i].status = s}
           A == I("ready")
           B == I("failed")
           C == I("duplicate")
           G == DbGroups(tab, b)
<1>1. /\ CountOf(G, "ready") = Cardinality(A) /\ IsFiniteSet(A)
      /\ CountOf(G, "failed") = Cardinality(B) /\ IsFiniteSet(B)
      /\ CountOf(G, "duplicate") = Cardinality(C) /\ IsFiniteSet(C)
  BY CountOfIs
<1>2. A \cap B = {} /\ (A \union B) \cap C = {}
  OBVIOUS
<1>3. Ended(mem.docs, b) = (A \union B) \union C
  BY DEF Ended, Terminal
<1> HIDE DEF A, B, C, G
<1>4. /\ IsFiniteSet(A \union B)
      /\ Cardinality(A \union B) = Cardinality(A) + Cardinality(B) - Cardinality(A \cap B)
  BY <1>1, FS_Union
<1>5. Cardinality((A \union B) \union C)
        = Cardinality(A \union B) + Cardinality(C) - Cardinality((A \union B) \cap C)
  BY <1>1, <1>4, FS_Union
<1>6. Cardinality(A \cap B) = 0 /\ Cardinality((A \union B) \cap C) = 0
  BY <1>2, FS_EmptySet
<1>7. Cardinality(A) \in Nat /\ Cardinality(B) \in Nat /\ Cardinality(C) \in Nat
  BY <1>1, FS_CardinalityType
<1>8. Settled(G) = Cardinality(A) + Cardinality(B) + Cardinality(C)
  BY <1>1 DEF Settled
<1>9. Cardinality((A \union B) \union C) = Cardinality(A) + Cardinality(B) + Cardinality(C)
  BY <1>4, <1>5, <1>6, <1>7
<1>10. QED
  BY <1>3, <1>8, <1>9 DEF G

\* The latest transition is a member's stamp.
LEMMA LastAtIs ==
  ASSUME TableInv, NEW b, Members(mem.docs, b) # {}
  PROVE  LET last == LastAt(DbGroups(tab, b))
         IN  /\ last \in Nat \ {0} /\ last <= now
             /\ \A i \in Members(mem.docs, b) : Stamp(mem.docs[i]) <= last
             /\ \E i \in Members(mem.docs, b) : Stamp(mem.docs[i]) = last
<1> DEFINE G == DbGroups(tab, b)
           M == {r \in tab.docs : r.batch = b}
           I == Members(mem.docs, b)
           K(s) == {r \in M : r.status = s}
           L == {G[s].last : s \in DOMAIN G}
<1>0. /\ DOMAIN G = Statused(b)
      /\ \A s \in DOMAIN G : G[s].last = Max(StampsIn(b, s))
  BY GroupsAre
<1>1. /\ DOMAIN G = {r.status : r \in M}
      /\ \A s : StampsIn(b, s) = {Stamp(r) : r \in K(s)}
  BY <1>0 DEF StampsIn, InGroup, Statused
<1>2. I = {i \in 1 .. Len(place) : mem.docs[i].batch = b} /\ I # {}
  BY MembersAre
<1>3. /\ \A i \in 1 .. Len(place) : mem.docs[i].id = i /\ mem.docs[i] \in tab.docs
      /\ \A r \in tab.docs : r.id \in 1 .. Len(place) /\ r = mem.docs[r.id]
  BY MemTypes DEF TableInv
<1>4. \A i \in 1 .. Len(place) : Stamp(mem.docs[i]) \in Nat \ {0} /\ Stamp(mem.docs[i]) <= now
  BY StampIs
<1>5. \A i \in I : mem.docs[i] \in M
  BY <1>2, <1>3
<1>6. \A r \in M : r.id \in I /\ mem.docs[r.id] = r
  BY <1>2, <1>3
<1>7. \A r \in M : Stamp(r) \in Nat \ {0} /\ Stamp(r) <= now
  <2>1. \A i \in I : i \in 1 .. Len(place)
    BY <1>2
  <2>2. \A r \in M : Stamp(mem.docs[r.id]) \in Nat \ {0} /\ Stamp(mem.docs[r.id]) <= now
    BY <1>4, <1>6, <2>1
  <2>3. QED
    BY <1>6, <2>2
<1>8. now \in Nat
  BY MemTypes DEF TableInv
<1> HIDE DEF G, M, I
<1>9. ASSUME NEW s \in DOMAIN G
      PROVE  /\ G[s].last \in Nat \ {0} /\ G[s].last <= now
             /\ \A r \in K(s) : Stamp(r) <= G[s].last
             /\ \E r \in M : Stamp(r) = G[s].last
  <2> DEFINE S == {Stamp(r) : r \in K(s)}
  <2>1. S \in SUBSET Nat /\ \A x \in S : x <= now
    BY <1>7
  <2>2. S # {}
    BY <1>1, <1>9
  <2>3. \A r \in K(s) : Stamp(r) \in S
    OBVIOUS
  <2>4. \A x \in S : \E r \in M : Stamp(r) = x
    OBVIOUS
  <2>5. G[s].last = Max(S)
    <3>1. S = StampsIn(b, s)
      BY <1>1
    <3> HIDE DEF S
    <3>2. QED
      BY <1>0, <1>9, <3>1
  <2> HIDE DEF S
  <2>6. Max(S) \in S /\ Max(S) \in Nat /\ \A x \in S : x <= Max(S)
    BY <1>8, <2>1, <2>2, MaxOf
  <2>7. \E r \in M : Stamp(r) = Max(S)
    BY <2>4, <2>6
  <2>8. Max(S) # 0 /\ Max(S) <= now
    BY <1>7, <2>7
  <2>9. QED
    BY <2>3, <2>5, <2>6, <2>7, <2>8
<1>10. L \in SUBSET Nat /\ \A x \in L : x <= now
  BY <1>9
<1>11. L # {}
  <2>1. PICK r \in M : TRUE
    BY <1>2, <1>5
  <2>2. r.status \in DOMAIN G
    BY <1>1
  <2>3. G[r.status].last \in L
    BY <2>2
  <2>4. QED
    BY <2>3
<1>12. \A s \in DOMAIN G : G[s].last \in L
  OBVIOUS
<1>13. \A x \in L : \E s \in DOMAIN G : G[s].last = x
  OBVIOUS
<1>14. LastAt(G) = Max(L)
  BY DEF LastAt
<1> HIDE DEF L
<1>15. Max(L) \in L /\ Max(L) \in Nat /\ \A x \in L : x <= Max(L)
  BY <1>8, <1>10, <1>11, MaxOf
<1>16. PICK r \in M : Stamp(r) = Max(L)
  BY <1>9, <1>13, <1>15
<1>17. \A i \in I : Stamp(mem.docs[i]) <= Max(L)
  <2> SUFFICES ASSUME NEW i \in I PROVE Stamp(mem.docs[i]) <= Max(L)
    OBVIOUS
  <2> DEFINE x == mem.docs[i]
  <2>1. x \in M /\ x.status \in DOMAIN G
    BY <1>1, <1>5
  <2>2. x \in K(x.status)
    BY <2>1
  <2>3. Stamp(x) <= G[x.status].last /\ G[x.status].last \in Nat
    BY <1>9, <2>1, <2>2
  <2>4. G[x.status].last <= Max(L)
    BY <1>12, <1>15, <2>1
  <2>5. Stamp(x) \in Nat
    BY <1>7, <2>1
  <2>6. QED
    BY <1>15, <2>3, <2>4, <2>5
<1>18. \E i \in I : Stamp(mem.docs[i]) = Max(L)
  BY <1>6, <1>16
<1>19. Max(L) # 0 /\ Max(L) <= now
  BY <1>7, <1>16
<1>20. QED
  BY <1>14, <1>15, <1>17, <1>18, <1>19 DEF G, I

-----------------------------------------------------------------------------
(* Totals. *)

LEMMA NextTypes ==
  ASSUME TableInv, TableInv'
  PROVE  /\ DOMAIN mem.docs = 1 .. Len(place) /\ DOMAIN mem'.docs = 1 .. Len(place')
         /\ Len(place) \in Nat /\ Len(place') \in Nat
         /\ DOMAIN mem'.batches \in SUBSET Batches
<1>1. DOMAIN mem.docs = 1 .. Len(place) /\ Len(place) \in Nat
  BY MemTypes DEF TableInv
<1>2. mem'.docs \in Seq(Row) /\ Len(mem'.docs) = Len(place')
      /\ mem'.batches \in UNION {[B -> Batch] : B \in SUBSET Batches}
  BY DEF TableInv, Types, InOrder, Doubles
<1>3. DOMAIN mem'.docs = 1 .. Len(place') /\ Len(place') \in Nat
  BY <1>2
<1>4. QED
  BY <1>1, <1>2, <1>3

LEMMA CountedFinite ==
  ASSUME TableInv, NEW b
  PROVE  /\ Counted(mem.docs, place, b) \in SUBSET Members(mem.docs, b)
         /\ IsFiniteSet(Counted(mem.docs, place, b))
         /\ Cardinality(Counted(mem.docs, place, b)) \in Nat
<1>1. Counted(mem.docs, place, b) \in SUBSET Members(mem.docs, b)
  BY DEF Counted
<1>2. QED
  BY <1>1, MembersAre, FS_Subset, FS_CardinalityType

LEMMA SameCounted ==
  ASSUME TableInv, TableInv', NEW b \in Batches, Len(place) <= Len(place'),
         \A i \in 1 .. Len(place) :
           mem'.docs[i].batch = mem.docs[i].batch /\ (place'[i] = "bump" <=> place[i] = "bump"),
         \A i \in 1 .. Len(place') : i \notin 1 .. Len(place) =>
           place'[i] = "bump" \/ mem'.docs[i].batch = None
  PROVE  Counted(mem'.docs, place', b) = Counted(mem.docs, place, b)
<1>1. b # None
  BY NoneAssumption
<1>2. \A i \in 1 .. Len(place) : i \in 1 .. Len(place')
  BY NextTypes
<1>3. ASSUME NEW i
      PROVE  i \in Counted(mem'.docs, place', b) <=> i \in Counted(mem.docs, place, b)
  <2>1. i \in Counted(mem.docs, place, b) <=>
          i \in 1 .. Len(place) /\ mem.docs[i].batch = b /\ place[i] # "bump"
    BY NextTypes DEF Counted, Members
  <2>2. i \in Counted(mem'.docs, place', b) <=>
          i \in 1 .. Len(place') /\ mem'.docs[i].batch = b /\ place'[i] # "bump"
    BY NextTypes DEF Counted, Members
  <2>3. QED
    BY <1>1, <1>2, <2>1, <2>2
<1>4. QED
  BY <1>3

LEMMA TotalsKept == ASSUME TableInv, TableInv', Totals, [Next]_vars PROVE Totals'
<1>1. Moved \/ Quiet
  BY StepMoves
<1>2. DOMAIN mem'.batches \in SUBSET Batches /\ DOMAIN mem.batches \in SUBSET Batches
  BY NextTypes, MemTypes DEF TableInv
<1>3. ASSUME \A b \in DOMAIN mem'.batches :
               /\ b \in DOMAIN mem.batches
               /\ mem'.batches[b].total = mem.batches[b].total
               /\ Counted(mem'.docs, place', b) = Counted(mem.docs, place, b)
      PROVE  Totals'
  BY <1>3 DEF Totals
<1>4. CASE Quiet
  BY <1>4, <1>3 DEF Quiet
<1>5. ASSUME NEW b \in Batches, Opened(b) PROVE Totals'
  <2>1. Counted(mem.docs, place, b) = {}
    <3>1. b # None /\ b \notin DOMAIN mem.batches
      BY <1>5, NoneAssumption DEF Opened
    <3>2. \A i \in 1 .. Len(place) : mem.docs[i].batch # b
      BY <3>1 DEF TableInv, InOrder
    <3>3. QED
      BY <3>2, NextTypes DEF Counted, Members
  <2>2. Cardinality({}) = 0
    BY FS_EmptySet
  <2>3. mem'.docs = mem.docs /\ place' = place /\ DOMAIN mem'.batches = DOMAIN mem.batches \union {b}
        /\ mem'.batches[b].total = 0
        /\ \A x \in DOMAIN mem.batches : mem'.batches[x].total = mem.batches[x].total
    BY <1>5 DEF Opened
  <2>4. QED
    BY <2>1, <2>2, <2>3 DEF Totals
<1>6. ASSUME NEW row, NEW next, Grown(row, next) PROVE Totals'
  <2> DEFINE n == Len(place)
  <2>1. /\ n \in Nat /\ mem.docs \in Seq(Row) /\ Len(mem.docs) = n /\ place \in Seq(Places)
    BY MemTypes, PlaceTypes DEF TableInv
  <2>2. row \in Row /\ next \in Places /\ (next = "bump" <=> row.batch # None)
    BY <1>6 DEF Grown, Places
  <2>3. mem'.docs = Append(mem.docs, row) /\ place' = Append(place, next)
        /\ mem'.batches = mem.batches
    BY <1>6 DEF Grown
  <2> HIDE DEF n
  <2>4. /\ Len(place') = n + 1 /\ n <= n + 1
        /\ \A i \in 1 .. n : mem'.docs[i] = mem.docs[i] /\ place'[i] = place[i]
        /\ mem'.docs[n + 1] = row /\ place'[n + 1] = next
    BY <2>1, <2>2, <2>3 DEF n
  <2>5. \A i \in 1 .. n + 1 : i \notin 1 .. n => place'[i] = "bump" \/ mem'.docs[i].batch = None
    <3>1. \A i \in 1 .. n + 1 : i \notin 1 .. n => i = n + 1
      BY <2>1
    <3>2. QED
      BY <2>2, <2>4, <3>1
  <2>6. \A b \in Batches : Counted(mem'.docs, place', b) = Counted(mem.docs, place, b)
    <3> SUFFICES ASSUME NEW b \in Batches
                 PROVE  Counted(mem'.docs, place', b) = Counted(mem.docs, place, b)
      OBVIOUS
    <3>1. QED
      BY <2>4, <2>5, SameCounted DEF n
  <2>7. QED
    BY <1>2, <1>3, <2>3, <2>6
<1>7. ASSUME NEW d, NEW next, CountedIn(d, next) PROVE Totals'
  <2> DEFINE c == mem.docs[d].batch
  <2>1. /\ d \in 1 .. Len(place) /\ next \in Places /\ next # "bump" /\ place[d] = "bump"
        /\ place' = [place EXCEPT ![d] = next] /\ mem'.docs = mem.docs
        /\ DOMAIN mem'.batches = DOMAIN mem.batches
        /\ \A x \in DOMAIN mem.batches :
             mem'.batches[x].total = IF x = c THEN mem.batches[x].total + 1 ELSE mem.batches[x].total
    BY <1>7 DEF CountedIn, Places
  <2>2. \A i \in 1 .. Len(place) : place'[i] = IF i = d THEN next ELSE place[i]
    BY <2>1, MovePlace
  <2> HIDE DEF c
  <2>3. \A b : Counted(mem.docs, place', b)
                 = IF b = c THEN Counted(mem.docs, place, b) \union {d} ELSE Counted(mem.docs, place, b)
    BY <2>1, <2>2, NextTypes DEF Counted, Members, c
  <2>4. d \notin Counted(mem.docs, place, c)
    BY <2>1 DEF Counted
  <2>5. /\ Counted(mem.docs, place', c) = Counted(mem.docs, place, c) \union {d}
        /\ Cardinality(Counted(mem.docs, place', c)) = Cardinality(Counted(mem.docs, place, c)) + 1
    <3>1. IsFiniteSet(Counted(mem.docs, place, c))
      BY CountedFinite
    <3>2. Counted(mem.docs, place', c) = Counted(mem.docs, place, c) \union {d}
      BY <2>3
    <3>3. QED
      BY <2>4, <3>1, <3>2, FS_AddElement
  <2>6. \A b : b # c => Counted(mem.docs, place', b) = Counted(mem.docs, place, b)
    BY <2>3
  <2>7. QED
    BY <2>1, <2>5, <2>6 DEF Totals
<1>8. ASSUME NEW d \in 1 .. Len(place), NEW next \in Places, next # "bump", place[d] # "bump",
             place' = [place EXCEPT ![d] = next], mem'.batches = mem.batches,
             \A i \in 1 .. Len(place) : mem'.docs[i].batch = mem.docs[i].batch
      PROVE  Totals'
  <2>1. /\ Len(place') = Len(place)
        /\ \A i \in 1 .. Len(place) : place'[i] = IF i = d THEN next ELSE place[i]
    BY <1>8, MovePlace
  <2>2. \A i \in 1 .. Len(place) : place'[i] = "bump" <=> place[i] = "bump"
    BY <1>8, <2>1
  <2>3. Len(place) <= Len(place')
    BY <2>1, NextTypes
  <2>4. \A b \in Batches : Counted(mem'.docs, place', b) = Counted(mem.docs, place, b)
    BY <1>8, <2>1, <2>2, <2>3, SameCounted
  <2>5. QED
    BY <1>2, <1>3, <1>8, <2>4
<1>9. ASSUME NEW d, NEW row, NEW next, Rewritten(d, row, next) PROVE Totals'
  <2>1. /\ d \in 1 .. Len(place) /\ next \in Places /\ next # "bump" /\ place[d] # "bump"
        /\ place' = [place EXCEPT ![d] = next] /\ mem'.batches = mem.batches
        /\ row.batch = mem.docs[d].batch /\ mem'.docs = [mem.docs EXCEPT ![d] = row]
    BY <1>9 DEF Rewritten, Follows
  <2>2. \A i \in 1 .. Len(place) : mem'.docs[i].batch = mem.docs[i].batch
    BY <2>1, NextTypes
  <2>3. QED
    BY <1>8, <2>1, <2>2
<1>10. ASSUME NEW d, Chunked(d) PROVE Totals'
  BY <1>8, <1>10 DEF Chunked, Places
<1>11. ASSUME NEW d, Filed(d) PROVE Totals'
  BY <1>8, <1>11 DEF Filed, Places
<1>12. QED
  BY <1>1, <1>4, <1>5, <1>6, <1>7, <1>9, <1>10, <1>11 DEF Moved

\* Rows only join a batch, and the number of settled ones changes only with a stamp of now.
LEMMA MembersAdvance ==
  ASSUME TableInv, TableInv', Advanced, NEW b
  PROVE  /\ Members(mem.docs, b) \subseteq Members(mem'.docs, b)
         /\ \A i \in Members(mem.docs, b) :
              /\ Stamp(mem'.docs[i]) >= Stamp(mem.docs[i])
              /\ place[i] = "done" => place'[i] = "done" /\ mem'.docs[i] = mem.docs[i]
         /\ \/ Ended(mem'.docs, b) = Ended(mem.docs, b)
            \/ \E i \in Members(mem'.docs, b) : Recent(Stamp(mem'.docs[i]))
         /\ IsFiniteSet(Members(mem'.docs, b))
<1>1. /\ DOMAIN mem.docs = 1 .. Len(place) /\ DOMAIN mem'.docs = 1 .. Len(place')
      /\ Len(place) \in Nat /\ Len(place') \in Nat /\ Len(place) <= Len(place')
  BY NextTypes DEF Advanced
<1>2. \A i \in 1 .. Len(place) : i \in 1 .. Len(place')
  BY <1>1
<1>3. Members(mem.docs, b) \subseteq Members(mem'.docs, b)
  BY <1>1, <1>2 DEF Members, Advanced
<1>4. \A i \in Members(mem.docs, b) :
        /\ Stamp(mem'.docs[i]) >= Stamp(mem.docs[i])
        /\ place[i] = "done" => place'[i] = "done" /\ mem'.docs[i] = mem.docs[i]
  BY <1>1 DEF Members, Advanced
<1>5. ASSUME ~ \E i \in Members(mem'.docs, b) : Recent(Stamp(mem'.docs[i]))
      PROVE  Ended(mem'.docs, b) = Ended(mem.docs, b)
  <2>1. \A i \in Members(mem'.docs, b) : i \in 1 .. Len(place') /\ i \in 1 .. Len(place)
    BY <1>1, <1>5 DEF Members, Advanced
  <2>2. \A i \in Members(mem'.docs, b) :
          i \in Members(mem.docs, b) /\ mem'.docs[i].status = mem.docs[i].status
    BY <1>1, <1>5, <2>1 DEF Members, Advanced
  <2>3. QED
    BY <1>3, <2>2 DEF Ended
<1>6. IsFiniteSet(Members(mem'.docs, b))
  <2>1. IsFiniteSet(1 .. Len(place')) /\ Members(mem'.docs, b) \in SUBSET (1 .. Len(place'))
    BY <1>1, FS_Interval DEF Members
  <2>2. QED
    BY <2>1, FS_Subset
<1>7. QED
  BY <1>3, <1>4, <1>5, <1>6

-----------------------------------------------------------------------------
(* The wall time of a batch. *)

LEMMA SinceBounds ==
  ASSUME NEW start \in Nat, NEW s \in Nat, NEW t \in Nat, NEW c \in Nat, s <= t + c
  PROVE  Since(start, s) \in Nat /\ Since(start, s) <= Since(start, t) + c
<1>1. Since(start, s) = IF s > start THEN s - start ELSE 0
  BY DEF Since
<1>2. Since(start, t) = IF t > start THEN t - start ELSE 0
  BY DEF Since
<1>3. Since(start, s) \in Nat /\ Since(start, t) \in Nat
  BY <1>1, <1>2
<1>4. CASE s > start /\ t > start
  BY <1>1, <1>2, <1>4
<1>5. CASE s > start /\ ~(t > start)
  BY <1>1, <1>2, <1>5
<1>6. CASE ~(s > start)
  BY <1>1, <1>3, <1>6
<1>7. QED
  BY <1>3, <1>4, <1>5, <1>6

LEMMA StampTypes ==
  ASSUME NEW docs \in Seq(Row), NEW b
  PROVE  \A i \in Members(docs, b) : Stamp(docs[i]) \in Nat
<1>1. \A i \in DOMAIN docs : docs[i] \in Row
  OBVIOUS
<1>2. \A r \in Row : Stamp(r) \in Nat
  BY DEF Row, Stamp
<1>3. QED
  BY <1>1, <1>2 DEF Members

LEMMA RecentBacks ==
  ASSUME TableInv, NEW docs \in Seq(Row), NEW b, NEW start \in Nat, NEW floor \in Nat,
         floor <= Since(start, now), NEW i \in Members(docs, b), Recent(Stamp(docs[i]))
  PROVE  Backed(docs, start, floor, b)
<1>1. Stamp(docs[i]) \in Nat /\ now \in Nat /\ BumpTime \in Nat
  BY StampTypes, MemTypes DEF TableInv
<1>2. now <= Stamp(docs[i]) + BumpTime
  BY <1>1 DEF Recent
<1>3. Since(start, now) \in Nat /\ Since(start, now) <= Since(start, Stamp(docs[i])) + BumpTime
  BY <1>1, <1>2, SinceBounds
<1>4. Since(start, Stamp(docs[i])) \in Nat
  BY <1>1, SinceBounds
<1>5. floor <= Since(start, Stamp(docs[i])) + BumpTime
  BY <1>1, <1>3, <1>4
<1>6. QED
  BY <1>5 DEF Backed

LEMMA BackedKept ==
  ASSUME TableInv, TableInv', Advanced, NEW b, NEW start \in Nat, NEW floor \in Nat,
         Backed(mem.docs, start, floor, b)
  PROVE  Backed(mem'.docs, start, floor, b)
<1>1. PICK i \in Members(mem.docs, b) :
        floor <= Since(start, Stamp(mem.docs[i])) + BumpTime
  BY DEF Backed
<1>2. mem.docs \in Seq(Row) /\ mem'.docs \in Seq(Row) /\ BumpTime \in Nat
  BY MemTypes DEF TableInv, Types, Doubles
<1>3. i \in Members(mem'.docs, b) /\ Stamp(mem'.docs[i]) >= Stamp(mem.docs[i])
  BY MembersAdvance
<1>4. Stamp(mem.docs[i]) \in Nat /\ Stamp(mem'.docs[i]) \in Nat
  BY <1>2, <1>3, StampTypes
<1>5. Stamp(mem.docs[i]) <= Stamp(mem'.docs[i]) + 0
  BY <1>3, <1>4
<1>6. Since(start, Stamp(mem.docs[i])) \in Nat
      /\ Since(start, Stamp(mem.docs[i])) <= Since(start, Stamp(mem'.docs[i])) + 0
  BY <1>4, <1>5, SinceBounds
<1>7. Since(start, Stamp(mem'.docs[i])) \in Nat
  BY <1>4, SinceBounds
<1>8. floor <= Since(start, Stamp(mem'.docs[i])) + BumpTime
  BY <1>1, <1>2, <1>6, <1>7
<1>9. QED
  BY <1>3, <1>8 DEF Backed

LEMMA EitherKept ==
  ASSUME TableInv, TableInv', Advanced, NEW b, NEW start \in Nat, NEW floor \in Nat, NEW total \in Nat,
         floor <= Since(start, now),
         Backed(mem.docs, start, floor, b) \/ Unfinished(mem.docs, total, b)
  PROVE  Backed(mem'.docs, start, floor, b) \/ Unfinished(mem'.docs, total, b)
<1>1. CASE Backed(mem.docs, start, floor, b)
  BY <1>1, BackedKept
<1>2. CASE \E i \in Members(mem'.docs, b) : Recent(Stamp(mem'.docs[i]))
  <2>1. PICK i \in Members(mem'.docs, b) : Recent(Stamp(mem'.docs[i]))
    BY <1>2
  <2>2. mem'.docs \in Seq(Row)
    BY DEF TableInv, Types, Doubles
  <2>3. QED
    BY <2>1, <2>2, RecentBacks
<1>3. CASE Unfinished(mem.docs, total, b) /\ Ended(mem'.docs, b) = Ended(mem.docs, b)
  BY <1>3 DEF Unfinished
<1>4. QED
  BY <1>1, <1>2, <1>3, MembersAdvance

WallInv == Totals /\ Told /\ Pinned /\ Timed

LEMMA ToldTypes ==
  ASSUME Told, NEW b \in Batches
  PROVE  shown[b].elapsed \in Nat /\ shown[b].floor \in Nat /\ shown[b].rows \in Nat
BY DEF Told

\* What is told of a batch holds while only its rows change.
LEMMA TimedMoves ==
  ASSUME TableInv, TableInv', Advanced, WallInv, UNCHANGED <<now, poll, shown>>
  PROVE  Timed'
<1>1. ASSUME NEW b \in Batches
      PROVE  /\ shown[b].floor <= shown[b].elapsed
             /\ b \notin DOMAIN mem'.batches => shown[b].floor = 0
             /\ b \in DOMAIN mem'.batches =>
                  /\ shown[b].floor <= Since(mem'.batches[b].created, now)
                  /\ \/ Backed(mem'.docs, mem'.batches[b].created, shown[b].floor, b)
                     \/ Unfinished(mem'.docs, mem'.batches[b].total, b)
  <2> DEFINE c == mem.batches[b].created
             t == mem.batches[b].total
  <2>1. shown[b].floor \in Nat /\ shown[b].floor <= shown[b].elapsed
    BY ToldTypes DEF WallInv, Timed
  <2>2. b \notin DOMAIN mem'.batches => b \notin DOMAIN mem.batches
    BY DEF Advanced
  <2>3. CASE b \in DOMAIN mem'.batches /\ b \notin DOMAIN mem.batches
    <3>1. shown[b].floor = 0 /\ mem'.batches[b].total = 0
      BY <2>3 DEF WallInv, Timed, Advanced
    <3>2. mem'.batches[b].created \in Nat /\ now \in Nat
      <4>1. mem'.batches \in UNION {[B -> Batch] : B \in SUBSET Batches} /\ now \in Nat
        BY MemTypes DEF TableInv, Types, Doubles
      <4>2. mem'.batches[b] \in Batch
        BY <2>3, <4>1
      <4>3. QED
        BY <4>1, <4>2 DEF Batch
    <3>3. Since(mem'.batches[b].created, now) \in Nat
      BY <3>2 DEF Since
    <3>4. QED
      BY <2>1, <2>3, <3>1, <3>3 DEF Unfinished
  <2>4. CASE b \in DOMAIN mem'.batches /\ b \in DOMAIN mem.batches
    <3>1. c \in Nat /\ t \in Nat
      BY <2>4, MemTypes DEF TableInv
    <3>2. /\ shown[b].floor <= Since(c, now)
          /\ Backed(mem.docs, c, shown[b].floor, b) \/ Unfinished(mem.docs, t, b)
      BY <2>4 DEF WallInv, Timed
    <3>3. /\ mem'.batches[b].created = c
          /\ \/ mem'.batches[b].total = t
             \/ mem'.batches[b].total > t
                /\ \E i \in Members(mem'.docs, b) : Recent(Stamp(mem'.docs[i]))
      BY <2>4 DEF Advanced
    <3> HIDE DEF c, t
    <3>4. Backed(mem'.docs, c, shown[b].floor, b) \/ Unfinished(mem'.docs, t, b)
      BY <2>1, <3>1, <3>2, EitherKept
    <3>5. CASE mem'.batches[b].total = t
      BY <2>1, <2>4, <3>2, <3>3, <3>4, <3>5
    <3>6. CASE \E i \in Members(mem'.docs, b) : Recent(Stamp(mem'.docs[i]))
      <4>1. PICK i \in Members(mem'.docs, b) : Recent(Stamp(mem'.docs[i]))
        BY <3>6
      <4>2. mem'.docs \in Seq(Row)
        BY DEF TableInv, Types, Doubles
      <4>3. Backed(mem'.docs, c, shown[b].floor, b)
        BY <2>1, <3>1, <3>2, <4>1, <4>2, RecentBacks
      <4>4. QED
        BY <2>1, <2>4, <3>2, <3>3, <4>3
    <3>7. QED
      BY <3>3, <3>5, <3>6
  <2>5. CASE b \notin DOMAIN mem'.batches
    BY <2>1, <2>2, <2>5 DEF WallInv, Timed
  <2>6. QED
    BY <2>3, <2>4, <2>5
<1>2. ASSUME poll.pc = "aggregate"
      PROVE  /\ poll.batch \in DOMAIN mem'.batches /\ poll.at \in Nat /\ poll.at <= now
             /\ poll.row \in Batch
             /\ poll.row.created = mem'.batches[poll.batch].created
             /\ poll.row.total <= mem'.batches[poll.batch].total
             /\ \/ Backed(mem'.docs, poll.row.created, shown[poll.batch].floor, poll.batch)
                \/ Unfinished(mem'.docs, poll.row.total, poll.batch)
             /\ poll.row.total = 0 /\ mem'.batches[poll.batch].total > 0 =>
                  \E i \in Members(mem'.docs, poll.batch) :
                    Stamp(mem'.docs[i]) + BumpTime >= poll.at
  <2> DEFINE b == poll.batch
             c == poll.row.created
             t == poll.row.total
  <2>1. /\ b \in DOMAIN mem.batches /\ poll.at \in Nat /\ poll.at <= now /\ poll.row \in Batch
        /\ c = mem.batches[b].created /\ t <= mem.batches[b].total
        /\ Backed(mem.docs, c, shown[b].floor, b) \/ Unfinished(mem.docs, t, b)
        /\ t = 0 /\ mem.batches[b].total > 0 =>
             \E i \in Members(mem.docs, b) : Stamp(mem.docs[i]) + BumpTime >= poll.at
    BY <1>2 DEF WallInv, Timed
  <2>2. c \in Nat /\ t \in Nat
    BY <2>1 DEF Batch
  <2> HIDE DEF b, c, t
  <2>3. b \in Batches /\ mem.batches[b].total \in Nat /\ now \in Nat /\ BumpTime \in Nat
    BY <2>1, MemTypes DEF TableInv
  <2>4. shown[b].floor \in Nat /\ shown[b].floor <= Since(c, now)
    BY <2>1, <2>3, ToldTypes DEF WallInv, Timed
  <2>5. Backed(mem'.docs, c, shown[b].floor, b) \/ Unfinished(mem'.docs, t, b)
    BY <2>1, <2>2, <2>4, EitherKept
  <2>6. /\ b \in DOMAIN mem'.batches /\ mem'.batches[b].created = c
        /\ \/ mem'.batches[b].total = mem.batches[b].total
           \/ mem'.batches[b].total > mem.batches[b].total
              /\ \E i \in Members(mem'.docs, b) : Recent(Stamp(mem'.docs[i]))
    BY <2>1 DEF Advanced
  <2>7. t <= mem'.batches[b].total
    <3>1. mem'.batches[b].total \in Nat
      <4>1. mem'.batches \in UNION {[B -> Batch] : B \in SUBSET Batches}
        BY DEF TableInv, Types, Doubles
      <4>2. mem'.batches[b] \in Batch
        BY <2>6, <4>1
      <4>3. QED
        BY <4>2 DEF Batch
    <3>2. QED
      BY <2>1, <2>2, <2>3, <2>6, <3>1
  <2>8. ASSUME t = 0, mem'.batches[b].total > 0
        PROVE  \E i \in Members(mem'.docs, b) : Stamp(mem'.docs[i]) + BumpTime >= poll.at
    <3>1. mem.docs \in Seq(Row) /\ mem'.docs \in Seq(Row)
      BY DEF TableInv, Types, Doubles
    <3>2. CASE mem.batches[b].total > 0
      <4>1. PICK i \in Members(mem.docs, b) : Stamp(mem.docs[i]) + BumpTime >= poll.at
        BY <2>1, <2>8, <3>2
      <4>2. i \in Members(mem'.docs, b) /\ Stamp(mem'.docs[i]) >= Stamp(mem.docs[i])
        BY MembersAdvance
      <4>3. Stamp(mem.docs[i]) \in Nat /\ Stamp(mem'.docs[i]) \in Nat
        BY <3>1, <4>2, StampTypes
      <4>4. QED
        BY <2>1, <2>3, <4>1, <4>2, <4>3
    <3>3. CASE \E i \in Members(mem'.docs, b) : Recent(Stamp(mem'.docs[i]))
      <4>1. PICK i \in Members(mem'.docs, b) : Recent(Stamp(mem'.docs[i]))
        BY <3>3
      <4>2. Stamp(mem'.docs[i]) \in Nat
        BY <3>1, StampTypes
      <4>3. QED
        BY <2>1, <2>3, <4>1, <4>2 DEF Recent
    <3>4. QED
      BY <2>6, <2>8, <3>2, <3>3
  <2>9. QED
    BY <2>1, <2>5, <2>6, <2>7, <2>8 DEF b, c, t
<1>3. poll.pc \in {"idle", "aggregate"}
  BY DEF WallInv, Timed
<1>4. QED
  BY <1>1, <1>2, <1>3 DEF Timed

\* The aggregate of a batch at rest stays what it was while no row joins.
LEMMA SameMembers ==
  ASSUME TableInv, TableInv', Advanced, NEW b,
         Members(mem'.docs, b) = Members(mem.docs, b),
         \A i \in Members(mem.docs, b) : place[i] = "done"
  PROVE  DbGroups(tab', b) = DbGroups(tab, b)
<1>1. \A i \in Members(mem.docs, b) : mem'.docs[i] = mem.docs[i]
  BY MembersAdvance
<1>2. /\ tab.docs = Range(mem.docs) /\ tab'.docs = Range(mem'.docs)
  BY DEF TableInv, Types, Rows
<1>3. {r \in tab.docs : r.batch = b} = {mem.docs[i] : i \in Members(mem.docs, b)}
  BY <1>2 DEF Range, Members
<1>4. {r \in tab'.docs : r.batch = b} = {mem'.docs[i] : i \in Members(mem'.docs, b)}
  BY <1>2 DEF Range, Members
<1>5. {r \in tab'.docs : r.batch = b} = {r \in tab.docs : r.batch = b}
  BY <1>1, <1>3, <1>4
<1>6. QED
  BY <1>5 DEF DbGroups, Groups

LEMMA RestingKept ==
  ASSUME TableInv, TableInv', Advanced, NEW b, NEW rows \in Nat, Resting(mem.docs, place, b, rows)
  PROVE  /\ Resting(mem'.docs, place', b, rows)
         /\ rows = Cardinality(Members(mem'.docs, b)) =>
              /\ rows = Cardinality(Members(mem.docs, b))
              /\ DbGroups(tab', b) = DbGroups(tab, b)
<1> DEFINE M == Members(mem.docs, b)
           N == Members(mem'.docs, b)
<1>1. M \in SUBSET N /\ IsFiniteSet(N)
  BY MembersAdvance
<1>2. /\ Cardinality(M) \in Nat /\ Cardinality(N) \in Nat /\ Cardinality(M) <= Cardinality(N)
      /\ Cardinality(N) = Cardinality(M) => N = M
  BY <1>1, FS_Subset, FS_CardinalityType
<1>3. rows <= Cardinality(M) /\ (rows = Cardinality(M) => \A i \in M : place[i] = "done")
  BY DEF Resting
<1>4. rows <= Cardinality(N)
  BY <1>2, <1>3
<1>5. ASSUME rows = Cardinality(N)
      PROVE  N = M /\ rows = Cardinality(M) /\ \A i \in M : place[i] = "done"
  BY <1>2, <1>3, <1>5
<1>6. \A i \in M : place[i] = "done" => place'[i] = "done"
  BY MembersAdvance
<1> HIDE DEF M, N
<1>7. rows = Cardinality(N) => \A i \in N : place'[i] = "done"
  BY <1>5, <1>6
<1>8. rows = Cardinality(N) => DbGroups(tab', b) = DbGroups(tab, b)
  BY <1>5, SameMembers DEF M, N
<1>9. QED
  BY <1>4, <1>5, <1>7, <1>8 DEF Resting, M, N

LEMMA PinnedMoves ==
  ASSUME TableInv, TableInv', Advanced, WallInv, UNCHANGED <<poll, shown>>
  PROVE  Pinned'
<1>1. ASSUME NEW b \in Batches, shown[b].rows # 0
      PROVE  /\ b \in DOMAIN mem'.batches /\ Resting(mem'.docs, place', b, shown[b].rows)
             /\ shown[b].rows = Cardinality(Members(mem'.docs, b)) =>
                  shown[b].elapsed = Since(mem'.batches[b].created, LastAt(DbGroups(tab', b)))
  <2> DEFINE rows == shown[b].rows
  <2>1. rows \in Nat
    BY ToldTypes DEF WallInv
  <2>2. /\ b \in DOMAIN mem.batches /\ Resting(mem.docs, place, b, rows)
        /\ rows = Cardinality(Members(mem.docs, b)) =>
             shown[b].elapsed = Since(mem.batches[b].created, LastAt(DbGroups(tab, b)))
    BY <1>1 DEF WallInv, Pinned
  <2>3. b \in DOMAIN mem'.batches /\ mem'.batches[b].created = mem.batches[b].created
    BY <2>2 DEF Advanced
  <2> HIDE DEF rows
  <2>4. /\ Resting(mem'.docs, place', b, rows)
        /\ rows = Cardinality(Members(mem'.docs, b)) =>
             rows = Cardinality(Members(mem.docs, b)) /\ DbGroups(tab', b) = DbGroups(tab, b)
    BY <2>1, <2>2, RestingKept
  <2>5. QED
    BY <2>2, <2>3, <2>4 DEF rows
<1>2. ASSUME poll.pc = "aggregate"
      PROVE  /\ poll.rows \in Nat
             /\ poll.rows # 0 =>
                  Resting(mem'.docs, place', poll.batch, poll.rows) /\ poll.row.total = poll.rows
  BY <1>2, RestingKept DEF WallInv, Pinned
<1>3. QED
  BY <1>1, <1>2 DEF Pinned

LEMMA ClockMoves ==
  ASSUME TableInv, TableInv', WallInv, Quiet, Tick PROVE WallInv'
<1>1. /\ mem' = mem /\ tab' = tab /\ place' = place /\ poll' = poll /\ shown' = shown
      /\ now' = now + 1 /\ now \in Nat /\ BumpTime \in Nat
  BY MemTypes DEF Quiet, Tick, TableInv
<1>2. Totals' /\ Told' /\ Pinned'
  BY <1>1 DEF WallInv, Totals, Told, Pinned
<1>3. \A b \in DOMAIN mem.batches : b \in Batches => shown[b].floor <= Since(mem.batches[b].created, now + 1)
  <2> SUFFICES ASSUME NEW b \in DOMAIN mem.batches, b \in Batches
               PROVE  shown[b].floor <= Since(mem.batches[b].created, now + 1)
    OBVIOUS
  <2> DEFINE c == mem.batches[b].created
  <2>1. c \in Nat
    BY MemTypes DEF TableInv
  <2>2. shown[b].floor \in Nat /\ shown[b].floor <= Since(c, now)
    BY ToldTypes DEF WallInv, Timed
  <2> HIDE DEF c
  <2>3. now <= now + 1 + 0 /\ now + 1 \in Nat
    BY <1>1
  <2>4. Since(c, now) \in Nat /\ Since(c, now) <= Since(c, now + 1) + 0
    BY <1>1, <2>1, <2>3, SinceBounds
  <2>5. Since(c, now + 1) \in Nat
    BY <1>1, <2>1 DEF Since
  <2>6. QED
    BY <2>2, <2>4, <2>5 DEF c
<1>4. poll.pc = "aggregate" => poll.at \in Nat /\ poll.at <= now + 1
  <2>1. poll.pc = "aggregate" => poll.at \in Nat /\ poll.at <= now
    BY DEF WallInv, Timed
  <2>2. QED
    BY <1>1, <2>1
<1>5. Timed'
  <2>1. Timed
    BY DEF WallInv
  <2>2. QED
    BY <1>1, <1>3, <1>4, <2>1 DEF Timed
<1>6. QED
  BY <1>2, <1>5 DEF WallInv

LEMMA AtRestIs ==
  ASSUME TableInv, NEW b, AtRest(b) # 0
  PROVE  /\ AtRest(b) = Cardinality(Members(mem.docs, b))
         /\ \A i \in Members(mem.docs, b) : place[i] = "done"
<1> DEFINE M == {r \in tab.docs : r.batch = b}
           I == Members(mem.docs, b)
           f == [i \in I |-> mem.docs[i]]
<1>1. (\A r \in M : place[r.id] = "done") /\ AtRest(b) = Cardinality(M)
  BY DEF AtRest
<1>2. I = {i \in 1 .. Len(place) : mem.docs[i].batch = b} /\ IsFiniteSet(I)
  BY MembersAre
<1>3. /\ \A i \in 1 .. Len(place) : mem.docs[i].id = i /\ mem.docs[i] \in tab.docs
      /\ \A r \in tab.docs : r.id \in 1 .. Len(place) /\ r = mem.docs[r.id]
  BY MemTypes DEF TableInv
<1>4. \A i \in I : mem.docs[i] \in M /\ mem.docs[i].id = i
  BY <1>2, <1>3
<1>5. \A r \in M : r.id \in I /\ mem.docs[r.id] = r
  BY <1>2, <1>3
<1> HIDE DEF M, I
<1>6. f \in Surjection(I, M) /\ f \in Injection(I, M)
  <2>1. f \in [I -> M]
    BY <1>4
  <2>2. \A r \in M : \E i \in I : f[i] = r
    BY <1>5
  <2>3. \A i, j \in I : f[i] = f[j] => i = j
    BY <1>4
  <2>4. QED
    BY <2>1, <2>2, <2>3 DEF Surjection, Injection, IsInjective
<1>7. Cardinality(M) = Cardinality(I)
  BY <1>2, <1>6, FS_Surjection
<1>8. \A i \in I : place[i] = "done"
  BY <1>1, <1>4
<1>9. QED
  BY <1>1, <1>7, <1>8 DEF I

\* A batch at rest has counted all its rows, and all of them are finished.
LEMMA AtRestCounts ==
  ASSUME TableInv, Totals, NEW b \in DOMAIN mem.batches,
         \A i \in Members(mem.docs, b) : place[i] = "done"
  PROVE  /\ mem.batches[b].total = Cardinality(Members(mem.docs, b))
         /\ Ended(mem.docs, b) = Members(mem.docs, b)
<1>1. Counted(mem.docs, place, b) = Members(mem.docs, b)
  BY DEF Counted
<1>2. \A i \in Members(mem.docs, b) : mem.docs[i].status \in Terminal
  BY MembersAre DEF TableInv, Placed, StatusAt
<1>3. QED
  BY <1>1, <1>2 DEF Totals, Ended

LEMMA PollKeeps ==
  ASSUME TableInv, TableInv', WallInv, Quiet, now' = now, NEW b \in Batches, PollBatch(b)
  PROVE  WallInv'
<1>1. /\ mem' = mem /\ tab' = tab /\ place' = place /\ shown' = shown
      /\ poll' = [pc |-> "aggregate", batch |-> b, row |-> mem.batches[b], rows |-> AtRest(b),
                  at |-> now]
      /\ b \in DOMAIN mem.batches
  BY MemTypes DEF Quiet, PollBatch, TableInv
<1>2. Totals' /\ Told'
  BY <1>1 DEF WallInv, Totals, Told
<1>3. /\ mem.batches[b] \in Batch /\ mem.batches[b].total \in Nat /\ now \in Nat
  BY <1>1, MemTypes DEF TableInv
<1>4. AtRest(b) \in Nat
  <2>1. CASE AtRest(b) = 0
    BY <2>1
  <2>2. CASE AtRest(b) # 0
    BY <2>2, AtRestIs, MembersAre
  <2>3. QED
    BY <2>1, <2>2
<1>5. ASSUME AtRest(b) # 0
      PROVE  Resting(mem.docs, place, b, AtRest(b)) /\ mem.batches[b].total = AtRest(b)
  <2>1. /\ AtRest(b) = Cardinality(Members(mem.docs, b))
        /\ \A i \in Members(mem.docs, b) : place[i] = "done"
    BY <1>5, AtRestIs
  <2>2. mem.batches[b].total = Cardinality(Members(mem.docs, b))
    BY <1>1, <2>1, AtRestCounts DEF WallInv
  <2>3. QED
    BY <1>4, <2>1, <2>2 DEF Resting
<1>6. poll'.pc = "aggregate" /\ poll'.batch = b /\ poll'.row = mem.batches[b]
      /\ poll'.rows = AtRest(b) /\ poll'.at = now
  BY <1>1
<1>7. Pinned'
  <2>1. Pinned
    BY DEF WallInv
  <2>2. QED
    BY <1>1, <1>4, <1>5, <1>6, <2>1 DEF Pinned
<1>8. Timed'
  <2>1. \A x \in Batches :
          /\ shown[x].floor <= shown[x].elapsed
          /\ x \notin DOMAIN mem.batches => shown[x].floor = 0
          /\ x \in DOMAIN mem.batches =>
               /\ shown[x].floor <= Since(mem.batches[x].created, now)
               /\ \/ Backed(mem.docs, mem.batches[x].created, shown[x].floor, x)
                  \/ Unfinished(mem.docs, mem.batches[x].total, x)
    BY DEF WallInv, Timed
  <2>2. /\ now <= now /\ mem.batches[b].total <= mem.batches[b].total
        /\ ~(mem.batches[b].total = 0 /\ mem.batches[b].total > 0)
    BY <1>3
  <2>3. QED
    BY <1>1, <1>3, <1>6, <2>1, <2>2 DEF Timed
<1>9. QED
  BY <1>2, <1>7, <1>8 DEF WallInv

\* A finished batch ends at its latest transition.
LEMMA EndIs ==
  ASSUME TableInv, NEW b, NEW total \in Nat
  PROVE  LET end == End(DbGroups(tab, b), total)
         IN  /\ end \in Nat /\ end <= now
             /\ end = 0 => Unfinished(mem.docs, total, b)
             /\ end # 0 => /\ ~ Unfinished(mem.docs, total, b)
                           /\ end = LastAt(DbGroups(tab, b)) /\ Members(mem.docs, b) # {}
<1> DEFINE G == DbGroups(tab, b)
           end == End(G, total)
           n == Cardinality(Ended(mem.docs, b))
<1>1. Settled(G) = n /\ n \in Nat
  BY SettledIs, MembersAre
<1>2. now \in Nat
  BY MemTypes DEF TableInv
<1>3. CASE total > 0 /\ n >= total
  <2>1. end = LastAt(G)
    BY <1>1, <1>3 DEF End
  <2>2. Members(mem.docs, b) # {}
    <3>1. Ended(mem.docs, b) # {}
      BY <1>1, <1>3, FS_EmptySet
    <3>2. QED
      BY <3>1, MembersAre
  <2>3. LastAt(G) \in Nat \ {0} /\ LastAt(G) <= now
    BY <2>2, LastAtIs
  <2>4. ~ Unfinished(mem.docs, total, b)
    BY <1>1, <1>3 DEF Unfinished
  <2>5. QED
    BY <2>1, <2>2, <2>3, <2>4
<1>4. CASE ~(total > 0 /\ n >= total)
  <2>1. end = 0
    BY <1>1, <1>4 DEF End
  <2>2. Unfinished(mem.docs, total, b)
    BY <1>1, <1>4 DEF Unfinished
  <2>3. QED
    BY <1>2, <2>1, <2>2
<1>5. QED
  BY <1>3, <1>4

\* What PollAnswer tells of the batch that was asked for.
Answered(b, c, total, at, end, rows, told) ==
  /\ told = [elapsed |-> Since(c, IF end # 0 THEN end ELSE now),
             floor   |-> Since(c, IF end # 0 THEN end ELSE at),
             rows    |-> rows]
  /\ b = poll.batch /\ poll.pc = "aggregate"
  /\ c = mem.batches[b].created /\ total = poll.row.total /\ at = poll.at /\ at <= now
  /\ total <= mem.batches[b].total
  /\ end = End(DbGroups(tab, b), total)
  /\ rows # 0 => rows = AtRest(b) /\ rows = poll.rows
  /\ shown' = [x \in Batches |-> IF x = b THEN told ELSE shown[x]]

LEMMA AnswerIs ==
  ASSUME TableInv, WallInv, PollAnswer
  PROVE  \E b \in Batches \cap DOMAIN mem.batches :
           \E c, total, at, end, rows \in Nat : \E told : Answered(b, c, total, at, end, rows, told)
<1> DEFINE b == poll.batch
           c == poll.row.created
           total == poll.row.total
           at == poll.at
           end == End(DbGroups(tab, b), total)
           rows == IF poll.rows = AtRest(b) THEN poll.rows ELSE 0
           told == [elapsed |-> Since(c, IF end # 0 THEN end ELSE now),
                    floor   |-> Since(c, IF end # 0 THEN end ELSE at),
                    rows    |-> rows]
<1>1. /\ poll.pc = "aggregate" /\ b \in DOMAIN mem.batches /\ at \in Nat /\ at <= now
      /\ poll.row \in Batch /\ c = mem.batches[b].created /\ total <= mem.batches[b].total
      /\ poll.rows \in Nat
  BY DEF WallInv, Timed, Pinned, PollAnswer
<1>2. b \in Batches /\ now \in Nat /\ c \in Nat /\ total \in Nat
  BY <1>1, MemTypes DEF TableInv, Batch
<1>3. end \in Nat
  BY <1>2, EndIs
<1>4. shown' = [shown EXCEPT ![b] = [elapsed |-> Elapsed(c, end, now),
                                     floor |-> Elapsed(c, end, at), rows |-> rows]]
  BY DEF PollAnswer
<1> HIDE DEF b, c, total, at, end, rows
<1>5. Elapsed(c, end, now) = Since(c, IF end # 0 THEN end ELSE now)
      /\ Elapsed(c, end, at) = Since(c, IF end # 0 THEN end ELSE at)
  BY <1>1, <1>2, <1>3, ElapsedIs
<1>6. shown' = [shown EXCEPT ![b] = told]
  BY <1>4, <1>5
<1>7. shown = [x \in Batches |-> shown[x]]
  BY DEF WallInv, Told
<1>8. shown' = [x \in Batches |-> IF x = b THEN told ELSE shown[x]]
  <2> HIDE DEF told
  <2>1. QED
    BY <1>2, <1>6, <1>7
<1>9. rows \in Nat /\ (rows # 0 => rows = AtRest(b) /\ rows = poll.rows)
  BY <1>1 DEF rows
<1>10. end = End(DbGroups(tab, b), total) /\ b = poll.batch /\ total = poll.row.total /\ at = poll.at
  BY DEF end, b, total, at
<1>11. Answered(b, c, total, at, end, rows, told)
  <2> HIDE DEF told
  <2>1. told = [elapsed |-> Since(c, IF end # 0 THEN end ELSE now),
                floor   |-> Since(c, IF end # 0 THEN end ELSE at),
                rows    |-> rows]
    BY DEF told
  <2>2. QED
    BY <1>1, <1>8, <1>9, <1>10, <2>1 DEF Answered
<1>12. b \in Batches \cap DOMAIN mem.batches
  BY <1>1, <1>2
<1> HIDE DEF told
<1>13. QED
  BY <1>1, <1>2, <1>3, <1>9, <1>11, <1>12

LEMMA AnswerKeeps ==
  ASSUME TableInv, TableInv', WallInv, Quiet, now' = now, PollAnswer
  PROVE  /\ WallInv'
         /\ \A b \in Batches : shown'[b].elapsed + BumpTime >= shown[b].floor
         /\ \A b \in Batches :
              shown[b].rows # 0 /\ shown'[b].rows = shown[b].rows =>
                shown'[b].elapsed = shown[b].elapsed
<1>1. PICK b \in Batches \cap DOMAIN mem.batches :
        \E c, total, at, end, rows \in Nat : \E told : Answered(b, c, total, at, end, rows, told)
  BY AnswerIs
<1>2. PICK c \in Nat, total \in Nat, at \in Nat, end \in Nat, rows \in Nat :
        \E told : Answered(b, c, total, at, end, rows, told)
  BY <1>1
<1>3. PICK told : Answered(b, c, total, at, end, rows, told)
  BY <1>2
<1>4. /\ told = [elapsed |-> Since(c, IF end # 0 THEN end ELSE now),
                 floor   |-> Since(c, IF end # 0 THEN end ELSE at),
                 rows    |-> rows]
      /\ b = poll.batch /\ poll.pc = "aggregate"
      /\ c = mem.batches[b].created /\ total = poll.row.total /\ at = poll.at /\ at <= now
      /\ total <= mem.batches[b].total
      /\ end = End(DbGroups(tab, b), total)
      /\ rows # 0 => rows = AtRest(b) /\ rows = poll.rows
      /\ shown' = [x \in Batches |-> IF x = b THEN told ELSE shown[x]]
  BY <1>3 DEF Answered
<1>5. /\ mem' = mem /\ tab' = tab /\ place' = place /\ poll' = [pc |-> "idle"]
      /\ now \in Nat /\ BumpTime \in Nat
  BY MemTypes DEF Quiet, PollAnswer, TableInv
<1>6. /\ end <= now
      /\ end = 0 => Unfinished(mem.docs, total, b)
      /\ end # 0 => /\ ~ Unfinished(mem.docs, total, b)
                    /\ end = LastAt(DbGroups(tab, b)) /\ Members(mem.docs, b) # {}
  BY <1>4, EndIs
<1>7. mem.docs \in Seq(Row)
  BY DEF TableInv, Types, Doubles
<1> DEFINE e == IF end # 0 THEN end ELSE now
           f == IF end # 0 THEN end ELSE at
<1>8. e \in Nat /\ f \in Nat /\ f <= e /\ e <= now /\ f <= now
  BY <1>4, <1>5, <1>6
<1>9. told.elapsed = Since(c, e) /\ told.floor = Since(c, f) /\ told.rows = rows
      /\ told \in [elapsed : Nat, floor : Nat, rows : Nat]
  BY <1>4, <1>8 DEF Since
<1>10. /\ shown'[b] = told
       /\ \A x \in Batches : x # b => shown'[x] = shown[x]
       /\ Told'
  BY <1>4, <1>9 DEF WallInv, Told
<1>11. Totals'
  BY <1>5 DEF WallInv, Totals
<1>12. ASSUME rows # 0
       PROVE  /\ Resting(mem.docs, place, b, rows) /\ rows = Cardinality(Members(mem.docs, b))
              /\ told.elapsed = Since(c, LastAt(DbGroups(tab, b)))
  <2>1. /\ rows = Cardinality(Members(mem.docs, b)) /\ rows = poll.rows
        /\ \A i \in Members(mem.docs, b) : place[i] = "done"
    BY <1>4, <1>12, AtRestIs
  <2>2. total = rows
    BY <1>4, <1>12, <2>1 DEF WallInv, Pinned
  <2>3. Ended(mem.docs, b) = Members(mem.docs, b)
    BY <2>1, AtRestCounts DEF WallInv
  <2>4. ~ Unfinished(mem.docs, total, b)
    <3>1. Cardinality(Ended(mem.docs, b)) = rows /\ total = rows /\ rows \in Nat
      BY <2>1, <2>2, <2>3
    <3>2. ~(rows < rows)
      BY <3>1
    <3>3. QED
      BY <1>12, <3>1, <3>2 DEF Unfinished
  <2>5. end # 0 /\ end = LastAt(DbGroups(tab, b))
    BY <1>6, <2>4
  <2>6. QED
    BY <1>9, <2>1, <2>5 DEF Resting
<1>13. Pinned'
  <2>1. ASSUME NEW x \in Batches, shown'[x].rows # 0
        PROVE  /\ x \in DOMAIN mem.batches /\ Resting(mem.docs, place, x, shown'[x].rows)
               /\ shown'[x].rows = Cardinality(Members(mem.docs, x)) =>
                    shown'[x].elapsed = Since(mem.batches[x].created, LastAt(DbGroups(tab, x)))
    <3>1. CASE x = b
      BY <1>4, <1>9, <1>10, <1>12, <2>1, <3>1
    <3>2. CASE x # b
      BY <1>10, <2>1, <3>2 DEF WallInv, Pinned
    <3>3. QED
      BY <3>1, <3>2
  <2>2. QED
    BY <1>5, <2>1 DEF Pinned
<1>14. Backed(mem.docs, c, told.floor, b) \/ Unfinished(mem.docs, mem.batches[b].total, b)
  <2>1. CASE end # 0
    <3>1. PICK i \in Members(mem.docs, b) : Stamp(mem.docs[i]) = end
      BY <1>6, <2>1, LastAtIs
    <3>2. told.floor = Since(c, Stamp(mem.docs[i]))
      BY <1>9, <2>1, <3>1
    <3>3. told.floor \in Nat
      BY <1>9
    <3>4. told.floor <= Since(c, Stamp(mem.docs[i])) + BumpTime
      BY <1>5, <3>2, <3>3
    <3>5. QED
      BY <3>4 DEF Backed
  <2>2. CASE end = 0 /\ total # 0
    <3>1. mem.batches[b].total \in Nat /\ Cardinality(Ended(mem.docs, b)) \in Nat
      BY MemTypes, MembersAre DEF TableInv
    <3>2. QED
      BY <1>4, <1>6, <2>2, <3>1 DEF Unfinished
  <2>3. CASE end = 0 /\ total = 0 /\ mem.batches[b].total > 0
    <3>1. PICK i \in Members(mem.docs, b) : Stamp(mem.docs[i]) + BumpTime >= at
      BY <1>4, <2>3 DEF WallInv, Timed
    <3>2. Stamp(mem.docs[i]) \in Nat
      BY <1>7, StampTypes
    <3>3. at <= Stamp(mem.docs[i]) + BumpTime
      BY <1>5, <3>1, <3>2
    <3>4. Since(c, at) <= Since(c, Stamp(mem.docs[i])) + BumpTime
      BY <1>5, <3>2, <3>3, SinceBounds
    <3>5. told.floor = Since(c, at)
      BY <1>9, <2>3
    <3>6. QED
      BY <3>4, <3>5 DEF Backed
  <2>4. CASE mem.batches[b].total = 0
    BY <2>4 DEF Unfinished
  <2>5. mem.batches[b].total \in Nat
    BY MemTypes DEF TableInv
  <2>6. QED
    BY <2>1, <2>2, <2>3, <2>4, <2>5
<1>15. Since(c, f) \in Nat /\ Since(c, e) \in Nat /\ Since(c, now) \in Nat
       /\ Since(c, f) <= Since(c, e) /\ Since(c, f) <= Since(c, now)
  <2>1. f <= e + 0 /\ f <= now + 0 /\ e <= now + 0 /\ 0 \in Nat
    BY <1>5, <1>8
  <2>2. /\ Since(c, f) \in Nat /\ Since(c, f) <= Since(c, e) + 0
        /\ Since(c, f) <= Since(c, now) + 0
        /\ Since(c, e) \in Nat
    BY <1>5, <1>8, <2>1, SinceBounds
  <2>3. Since(c, now) \in Nat
    BY <1>5 DEF Since
  <2>4. QED
    BY <2>2, <2>3
<1>16. told.floor <= told.elapsed /\ told.floor <= Since(c, now)
  BY <1>9, <1>15
<1>17. Timed'
  <2>1. \A x \in Batches :
          /\ shown'[x].floor <= shown'[x].elapsed
          /\ x \notin DOMAIN mem.batches => shown'[x].floor = 0
          /\ x \in DOMAIN mem.batches =>
               /\ shown'[x].floor <= Since(mem.batches[x].created, now)
               /\ \/ Backed(mem.docs, mem.batches[x].created, shown'[x].floor, x)
                  \/ Unfinished(mem.docs, mem.batches[x].total, x)
    <3> SUFFICES ASSUME NEW x \in Batches
                 PROVE  /\ shown'[x].floor <= shown'[x].elapsed
                        /\ x \notin DOMAIN mem.batches => shown'[x].floor = 0
                        /\ x \in DOMAIN mem.batches =>
                             /\ shown'[x].floor <= Since(mem.batches[x].created, now)
                             /\ \/ Backed(mem.docs, mem.batches[x].created, shown'[x].floor, x)
                                \/ Unfinished(mem.docs, mem.batches[x].total, x)
      OBVIOUS
    <3>1. CASE x = b
      BY <1>4, <1>10, <1>14, <1>16, <3>1
    <3>2. CASE x # b
      BY <1>10, <3>2 DEF WallInv, Timed
    <3>3. QED
      BY <3>1, <3>2
  <2>2. poll'.pc = "idle"
    BY <1>5
  <2>3. QED
    BY <1>5, <2>1, <2>2 DEF Timed
<1>18. told.elapsed + BumpTime >= shown[b].floor
  <2>1. /\ shown[b].floor \in Nat /\ shown[b].floor <= Since(c, now)
        /\ Backed(mem.docs, c, shown[b].floor, b) \/ Unfinished(mem.docs, total, b)
    BY <1>4, ToldTypes DEF WallInv, Timed
  <2>2. CASE end = 0
    BY <1>5, <1>9, <1>15, <2>1, <2>2
  <2>3. CASE end # 0
    <3>1. PICK i \in Members(mem.docs, b) :
            shown[b].floor <= Since(c, Stamp(mem.docs[i])) + BumpTime
      BY <1>6, <2>1, <2>3 DEF Backed
    <3>2. Stamp(mem.docs[i]) <= end
      BY <1>6, <2>3, LastAtIs
    <3>3. Stamp(mem.docs[i]) \in Nat
      BY <1>7, StampTypes
    <3>4. Stamp(mem.docs[i]) <= e + 0 /\ 0 \in Nat
      BY <1>8, <2>3, <3>2, <3>3
    <3>5. Since(c, Stamp(mem.docs[i])) \in Nat /\ Since(c, Stamp(mem.docs[i])) <= Since(c, e) + 0
      BY <1>8, <3>3, <3>4, SinceBounds
    <3>6. QED
      BY <1>5, <1>9, <1>15, <2>1, <3>1, <3>5
  <2>4. QED
    BY <2>2, <2>3
<1>19. \A x \in Batches : shown'[x].elapsed + BumpTime >= shown[x].floor
  <2> SUFFICES ASSUME NEW x \in Batches PROVE shown'[x].elapsed + BumpTime >= shown[x].floor
    OBVIOUS
  <2>1. CASE x = b
    BY <1>10, <1>18, <2>1
  <2>2. CASE x # b
    <3>1. shown'[x] = shown[x] /\ shown[x].floor <= shown[x].elapsed
      BY <1>10, <2>2 DEF WallInv, Timed
    <3>2. shown[x].floor \in Nat /\ shown[x].elapsed \in Nat
      BY ToldTypes DEF WallInv
    <3>3. QED
      BY <1>5, <3>1, <3>2
  <2>3. QED
    BY <2>1, <2>2
<1>20. \A x \in Batches :
         shown[x].rows # 0 /\ shown'[x].rows = shown[x].rows => shown'[x].elapsed = shown[x].elapsed
  <2> SUFFICES ASSUME NEW x \in Batches, shown[x].rows # 0, shown'[x].rows = shown[x].rows
               PROVE  shown'[x].elapsed = shown[x].elapsed
    OBVIOUS
  <2>1. CASE x = b
    <3>1. shown[x].rows = Cardinality(Members(mem.docs, b)) /\ rows # 0
      BY <1>9, <1>10, <1>12, <2>1
    <3>2. shown[x].elapsed = Since(c, LastAt(DbGroups(tab, b)))
      BY <1>4, <2>1, <3>1 DEF WallInv, Pinned
    <3>3. QED
      BY <1>10, <1>12, <2>1, <3>1, <3>2
  <2>2. CASE x # b
    BY <1>10, <2>2
  <2>3. QED
    BY <2>1, <2>2
<1>21. WallInv'
  BY <1>10, <1>11, <1>13, <1>17 DEF WallInv
<1>22. QED
  BY <1>19, <1>20, <1>21

\* Every step keeps the invariant, tells no batch a wall time that falls, and repeats the one
\* of a batch at rest.
LEMMA WallInvKept ==
  ASSUME TableInv, TableInv', WallInv, [Next]_vars
  PROVE  /\ WallInv'
         /\ \A b \in Batches : shown'[b].elapsed + BumpTime >= shown[b].floor
         /\ \A b \in Batches :
              shown[b].rows # 0 /\ shown'[b].rows = shown[b].rows =>
                shown'[b].elapsed = shown[b].elapsed
<1>1. Advanced /\ Totals'
  BY StepAdvances, TotalsKept DEF WallInv
<1>2. ASSUME shown' = shown
      PROVE  /\ \A b \in Batches : shown'[b].elapsed + BumpTime >= shown[b].floor
             /\ \A b \in Batches :
                  shown[b].rows # 0 /\ shown'[b].rows = shown[b].rows =>
                    shown'[b].elapsed = shown[b].elapsed
  <2>1. ASSUME NEW b \in Batches PROVE shown[b].elapsed + BumpTime >= shown[b].floor
    <3>1. /\ shown[b].floor \in Nat /\ shown[b].elapsed \in Nat /\ BumpTime \in Nat
          /\ shown[b].floor <= shown[b].elapsed
      BY ToldTypes, BoundAssumption DEF WallInv, Timed
    <3>2. QED
      BY <3>1
  <2>2. QED
    BY <1>2, <2>1
<1>3. CASE UNCHANGED <<now, poll, shown>>
  <2>1. Timed' /\ Pinned'
    BY <1>1, <1>3, TimedMoves, PinnedMoves
  <2>2. Told'
    BY <1>3 DEF WallInv, Told
  <2>3. QED
    BY <1>1, <1>2, <1>3, <2>1, <2>2 DEF WallInv
<1>4. CASE Quiet /\ Tick
  BY <1>2, <1>4, ClockMoves DEF Tick
<1>5. ASSUME NEW b \in Batches, Quiet, now' = now, PollBatch(b)
      PROVE  WallInv' /\ shown' = shown
  BY <1>5, PollKeeps DEF PollBatch
<1>6. CASE Quiet /\ now' = now /\ PollAnswer
  BY <1>6, AnswerKeeps
<1>7. QED
  BY <1>2, <1>3, <1>4, <1>5, <1>6, StepMoves

LEMMA WallInvStarts == Init => WallInv
<1> SUFFICES ASSUME Init PROVE WallInv
  OBVIOUS
<1>1. DOMAIN mem.batches = {}
  <2>1. mem.batches = NoBatches
    BY DEF Init
  <2>2. QED
    BY <2>1 DEF NoBatches
<1>2. poll.pc = "idle" /\ shown = [b \in Batches |-> [elapsed |-> 0, floor |-> 0, rows |-> 0]]
  BY DEF Init
<1>3. \A b \in Batches : shown[b].elapsed = 0 /\ shown[b].floor = 0 /\ shown[b].rows = 0
  BY <1>2
<1>4. Told
  BY <1>2 DEF Told
<1>5. QED
  BY <1>1, <1>2, <1>3, <1>4 DEF WallInv, Totals, Pinned, Timed

\* The totals count the rows that were bumped, and what a poll in flight has read and what
\* clients were told is backed by the stamps of the rows, for any number of batches and rows.
THEOREM WallTimesBacked == Spec => []WallInv
<1>1. TableInv /\ TableInv' /\ WallInv /\ [Next]_vars => WallInv'
  BY WallInvKept
<1>2. QED
  BY <1>1, WallInvStarts, TablesCorrect, PTL DEF Spec

\* A batch at rest reports one wall time, however many rows, polls and seconds there are
\* (_elapsed_seconds(), repository.py:279).
THEOREM ElapsedRests == Spec => ElapsedPinned
<1> DEFINE Rests == \A b \in Batches :
                      shown[b].rows # 0 /\ shown'[b].rows = shown[b].rows =>
                        shown'[b].elapsed = shown[b].elapsed
<1>1. TableInv /\ TableInv' /\ WallInv /\ [Next]_vars => [Rests]_vars
  BY WallInvKept
<1>2. Spec => [][Rests]_vars
  BY <1>1, TablesCorrect, WallTimesBacked, PTL DEF Spec
<1>3. QED
  BY <1>2 DEF ElapsedPinned

\* The wall time that a client is told falls by no more than the time from the start of
\* create() to the end of bump_total(), between any two polls of any batch, with polls, other
\* threads and the clock going on between the two (repository.py:287).
THEOREM ElapsedHolds == Spec => ElapsedNeverFalls
<1> DEFINE Holds == \A b \in Batches : shown'[b].elapsed + BumpTime >= shown[b].floor
<1>1. TableInv /\ TableInv' /\ WallInv /\ [Next]_vars => [Holds]_vars
  BY WallInvKept
<1>2. Spec => [][Holds]_vars
  BY <1>1, TablesCorrect, WallTimesBacked, PTL DEF Spec
<1>3. QED
  BY <1>2 DEF ElapsedNeverFalls

=============================================================================
