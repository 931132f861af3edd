--------------------------- MODULE EventLogProofs ----------------------------
(***************************************************************************)
(* Facts about loops, powers of two, remainders and the sort of the event  *)
(* table.                                                                  *)
(*                                                                         *)
(* The protocols are loops, so that proofs about them need induction.  The *)
(* theorems of the library take a predicate; Induction is the same fact    *)
(* about a set, from the well-foundedness of < .  LoopRuns gives a loop    *)
(* its values: a recursive function is the function of these values.       *)
(***************************************************************************)
EXTENDS EventLog, FiniteSetTheorems, TLAPS

(***************************************************************************)
(* Induction over the naturals, over sets instead of predicates            *)
(***************************************************************************)

\* A set of naturals that is not empty has a least element.
LEMMA LeastElement ==
  ASSUME NEW S, S \subseteq Nat, S # {}
  PROVE  \E n \in S : \A m \in S : n <= m
<1> DEFINE Less == OpToRel(<, Nat)
<1>1. \A m, n \in Nat : m < n => <<m,n>> \in Less
  BY DEF OpToRel
<1>2. IsWellFoundedOn(Less, Nat)
  BY NatLessThanWellFounded
<1> HIDE DEF Less
<1>3. PICK n \in S : \A m \in S : <<m,n>> \notin Less
  BY <1>2, WFMin
<1>4. ASSUME NEW m \in S PROVE n <= m
  <2>1. m \in Nat /\ n \in Nat
    BY <1>3
  <2>2. ~(m < n)
    BY <2>1, <1>1, <1>3
  <2>3. QED
    BY <2>1, <2>2
<1>5. QED
  BY <1>4

\* A set that has 0, and with a natural its successor, has all naturals.
LEMMA Induction ==
  ASSUME NEW S, 0 \in S, \A n \in Nat : n \in S => n + 1 \in S
  PROVE  Nat \subseteq S
<1> SUFFICES ASSUME Nat \ S # {} PROVE FALSE
  OBVIOUS
<1>1. PICK n \in Nat \ S : \A m \in Nat \ S : n <= m
  BY LeastElement
<1>2. n # 0 /\ n - 1 \in Nat /\ n - 1 \in S
  BY <1>1
<1>3. (n - 1) + 1 = n
  BY <1>1
<1>4. QED
  BY <1>1, <1>2, <1>3

\* The values of a loop that starts at x and applies F to its index and the
\* value before, for n rounds.
Runs(D, F, x, n) == {f \in [0 .. n -> D] : f[0] = x /\ \A k \in 1 .. n : f[k] = F[<<k,f[k-1]>>]}

\* Every loop has its values, for any number of rounds.
LEMMA LoopRuns ==
  ASSUME NEW D, NEW F, F \in [Nat \X D -> D], NEW x, x \in D, NEW n, n \in Nat
  PROVE  Runs(D, F, x, n) # {}
<1> DEFINE Done == {m \in Nat : Runs(D, F, x, m) # {}}
<1>1. 0 \in Done
  <2>1. [k \in 0 .. 0 |-> x] \in Runs(D, F, x, 0)
    BY DEF Runs
  <2>2. QED
    BY <2>1
<1>2. ASSUME NEW m \in Nat, m \in Done PROVE m + 1 \in Done
  <2>1. PICK f \in [0 .. m -> D] : f[0] = x /\ \A k \in 1 .. m : f[k] = F[<<k,f[k-1]>>]
    BY <1>2 DEF Runs
  <2> DEFINE g == [k \in 0 .. m + 1 |-> IF k <= m THEN f[k] ELSE F[<<k,f[m]>>]]
  <2>2. g \in [0 .. m + 1 -> D] /\ g[0] = x
    BY <2>1
  <2>3. ASSUME NEW k \in 1 .. m + 1 PROVE g[k] = F[<<k,g[k-1]>>]
    <3>1. CASE k <= m
      BY <3>1, <2>1
    <3>2. CASE k = m + 1
      BY <3>2, <2>1
    <3>3. QED
      BY <3>1, <3>2
  <2>4. g \in Runs(D, F, x, m + 1)
    BY <2>2, <2>3 DEF Runs
  <2> HIDE DEF g
  <2>5. QED
    BY <2>4
<1> HIDE DEF Done
<1>3. n \in Done
  BY <1>1, <1>2, Induction
<1>4. QED
  BY <1>3 DEF Done

(***************************************************************************)
(* Powers of two                                                           *)
(***************************************************************************)

\* A set of n elements has 2^n subsets, which gives the arithmetic of 2^n.
LEMMA PowerIsNatural == ASSUME NEW n \in Nat PROVE 2^n \in Nat
<1>1. IsFiniteSet(1 .. n) /\ Cardinality(1 .. n) = n
  BY FS_Interval
<1>2. IsFiniteSet(SUBSET (1 .. n)) /\ Cardinality(SUBSET (1 .. n)) = 2^n
  BY <1>1, FS_SUBSET
<1>3. QED
  BY <1>2, FS_CardinalityType

\* The next power of two is twice the power.
LEMMA PowerDoubles == ASSUME NEW n \in Nat PROVE 2^(n+1) = 2^n + 2^n
<1> DEFINE A == SUBSET (1 .. n)
           B == {X \cup {n + 1} : X \in A}
           f == [X \in A |-> X \cup {n + 1}]
<1>1. IsFiniteSet(1 .. n) /\ Cardinality(1 .. n) = n /\ IsFiniteSet(1 .. n+1) /\ Cardinality(1 .. n+1) = n + 1
  <2>1. n \in Int /\ n + 1 \in Int /\ 1 \in Int
    OBVIOUS
  <2>2. QED
    BY <2>1, FS_Interval
<1>2. IsFiniteSet(A) /\ Cardinality(A) = 2^n /\ Cardinality(SUBSET (1 .. n+1)) = 2^(n+1)
  BY <1>1, FS_SUBSET
<1>3. f \in Bijection(A, B)
  <2>1. f \in [A -> B] /\ \A Y \in B : \E X \in A : f[X] = Y
    OBVIOUS
  <2>2. ASSUME NEW X \in A, NEW Y \in A, f[X] = f[Y] PROVE X = Y
    <3>1. n + 1 \notin X /\ n + 1 \notin Y
      OBVIOUS
    <3>2. X \cup {n + 1} = Y \cup {n + 1}
      BY <2>2
    <3>3. QED
      BY <3>1, <3>2
  <2> HIDE DEF f, A, B
  <2>3. QED
    BY <2>1, <2>2 DEF Bijection, Injection, Surjection, IsInjective
<1>4. IsFiniteSet(B) /\ Cardinality(B) = 2^n
  BY <1>2, <1>3, FS_Bijection DEF ExistsBijection
<1>5. A \cap B = {}
  <2>1. \A X \in A : n + 1 \notin X
    OBVIOUS
  <2>2. QED
    BY <2>1
<1>6. SUBSET (1 .. n+1) = A \cup B
  <2>1. ASSUME NEW X \in SUBSET (1 .. n+1), n + 1 \in X PROVE X \in B
    <3>1. X \ {n + 1} \in A
      OBVIOUS
    <3>2. X = (X \ {n + 1}) \cup {n + 1}
      BY <2>1
    <3>3. QED
      BY <3>1, <3>2
  <2>2. ASSUME NEW X \in SUBSET (1 .. n+1), n + 1 \notin X PROVE X \in A
    BY <2>2
  <2>3. A \subseteq SUBSET (1 .. n+1) /\ B \subseteq SUBSET (1 .. n+1)
    <3>1. 1 .. n \subseteq 1 .. n+1 /\ n + 1 \in 1 .. n+1
      OBVIOUS
    <3>2. QED
      BY <3>1
  <2>4. QED
    BY <2>1, <2>2, <2>3
<1> HIDE DEF A, B, f
<1>7. Cardinality(A \cup B) = Cardinality(A) + Cardinality(B) - Cardinality(A \cap B)
  BY <1>2, <1>4, FS_Union
<1>8. Cardinality(A \cap B) = 0
  BY <1>5, FS_EmptySet
<1>9. 2^(n+1) = Cardinality(A) + Cardinality(B) - Cardinality(A \cap B)
  BY <1>2, <1>6, <1>7
<1>10. 2^n \in Nat
  BY PowerIsNatural
<1>11. QED
  BY <1>2, <1>4, <1>8, <1>9, <1>10

\* A power of two is larger than its exponent.
LEMMA PowerExceeds == ASSUME NEW n \in Nat PROVE 2^n > n
<1> DEFINE S == {m \in Nat : 2^m > m}
<1>1. 0 \in S
  OBVIOUS
<1>2. ASSUME NEW m \in Nat, m \in S PROVE m + 1 \in S
  <2>1. 2^m \in Nat /\ 2^m > m /\ 2^(m+1) = 2^m + 2^m
    BY <1>2, PowerIsNatural, PowerDoubles
  <2>2. QED
    BY <2>1
<1> HIDE DEF S
<1>3. n \in S
  BY <1>1, <1>2, Induction
<1>4. QED
  BY <1>3 DEF S

(***************************************************************************)
(* Quotients and remainders                                                *)
(***************************************************************************)

LEMMA DivMod ==
  ASSUME NEW x \in Int, NEW n \in Nat \ {0}
  PROVE  x = n * (x \div n) + (x % n) /\ x % n \in 0 .. n - 1 /\ x \div n \in Int
OBVIOUS

\* A number has one quotient and one remainder.
LEMMA QuotientUnique ==
  ASSUME NEW n \in Nat \ {0}, NEW a \in Int, NEW b \in Int, NEW r \in 0 .. n - 1, NEW s \in 0 .. n - 1,
         n * a + r = n * b + s
  PROVE  a = b /\ r = s
<1>1. n * (a - b) = s - r
  OBVIOUS
<1>2. CASE a - b >= 1
  <2>1. n * (a - b) >= n
    BY <1>2
  <2>2. QED
    BY <1>1, <2>1
<1>3. CASE a - b <= -1
  <2>1. n * (a - b) <= -n
    BY <1>3
  <2>2. QED
    BY <1>1, <2>1
<1>4. QED
  BY <1>1, <1>2, <1>3

LEMMA QuotientIs ==
  ASSUME NEW n \in Nat \ {0}, NEW a \in Int, NEW r \in 0 .. n - 1
  PROVE  (n * a + r) \div n = a /\ (n * a + r) % n = r
<1> DEFINE x == n * a + r
<1>1. x \in Int
  OBVIOUS
<1> HIDE DEF x
<1>2. x = n * (x \div n) + (x % n) /\ x % n \in 0 .. n - 1 /\ x \div n \in Int
  BY <1>1, DivMod
<1>3. n * (x \div n) + (x % n) = n * a + r
  BY <1>2 DEF x
<1>4. x \div n = a /\ x % n = r
  BY <1>2, <1>3, QuotientUnique
<1>5. QED
  BY <1>4 DEF x

LEMMA SmallRemainder ==
  ASSUME NEW n \in Nat \ {0}, NEW x \in 0 .. n - 1
  PROVE  x % n = x /\ x \div n = 0
<1>1. n * 0 + x = x
  OBVIOUS
<1>2. QED
  BY <1>1, QuotientIs

LEMMA ProductOfRemainder ==
  ASSUME NEW n \in Nat \ {0}, NEW a \in Int, NEW b \in Int
  PROVE  ((a % n) * b) % n = (a * b) % n
<1> DEFINE q == a \div n
           r == a % n
           s == (a * b) \div n
           t == (a * b) % n
           u == (r * b) \div n
           v == (r * b) % n
<1>1. a = n * q + r /\ q \in Int /\ r \in Int
  BY DivMod
<1>2. a * b \in Int /\ r * b \in Int
  BY <1>1
<1>3. a * b = n * s + t /\ s \in Int /\ t \in 0 .. n - 1
  BY <1>2, DivMod
<1>4. r * b = n * u + v /\ u \in Int /\ v \in 0 .. n - 1
  BY <1>2, DivMod
<1> HIDE DEF q, r, s, t, u, v
<1>5. a * b = n * (q * b) + r * b /\ q * b \in Int
  BY <1>1
<1> DEFINE z == q * b
<1>6. z \in Int /\ a * b = n * z + r * b
  BY <1>5
<1> HIDE DEF z
<1>7. n * (z + u) = n * z + n * u /\ z + u \in Int
  BY <1>4, <1>6
<1>8. n * s + t = n * (z + u) + v
  BY <1>3, <1>4, <1>6, <1>7
<1>9. t = v
  <2> DEFINE w == z + u
  <2>1. /\ n \in Nat \ {0} /\ s \in Int /\ w \in Int
        /\ t \in 0 .. n - 1 /\ v \in 0 .. n - 1 /\ n * s + t = n * w + v
    BY <1>3, <1>4, <1>7, <1>8
  <2> HIDE DEF w
  <2>2. QED
    BY ONLY <2>1, QuotientUnique
<1>10. QED
  BY <1>9 DEF r, t, v

(***************************************************************************)
(* The sort                                                                *)
(***************************************************************************)

\* order lists the positions 1 .. n by their keys, equal keys as they come.
Sorting(order, key, n) ==
  /\ order \in [1 .. n -> 1 .. n]
  /\ \A i \in 1 .. n : \E p \in 1 .. n : order[p] = i
  /\ \A p, q \in 1 .. n : p < q => order[p] # order[q] /\ Precedes(key, order[p], order[q])

Sortings(table, key, n) ==
  {order \in [1 .. n -> 1 .. n] :
     Sorting(order, key, n) /\ StableSort(table, key) = [p \in 1 .. n |-> table[order[p]]]}

\* A stable sort lists its rows by their keys: the radix sort of the merge, values.sort() of
\* the filter.
LEMMA StableSortSorts ==
  ASSUME NEW n \in Nat, NEW table, DOMAIN table = 1 .. n, NEW key \in [1 .. n -> Int]
  PROVE  Sortings(table, key, n) # {}
<1> DEFINE Before(i) == {j \in 1 .. n : Precedes(key, j, i)}
           rank == [i \in 1 .. n |-> Cardinality(Before(i))]
           order == [p \in 1 .. n |-> CHOOSE i \in 1 .. n : rank[i] = p]
<1>1. IsFiniteSet(1 .. n) /\ Cardinality(1 .. n) = n
  BY FS_Interval
<1>2. \A i, j, k \in 1 .. n :
        /\ Precedes(key, i, i)
        /\ Precedes(key, i, j) \/ Precedes(key, j, i)
        /\ Precedes(key, i, j) /\ Precedes(key, j, i) => i = j
        /\ Precedes(key, i, j) /\ Precedes(key, j, k) => Precedes(key, i, k)
  BY DEF Precedes
<1>3. ASSUME NEW i \in 1 .. n PROVE IsFiniteSet(Before(i)) /\ Cardinality(Before(i)) \in 1 .. n
  <2>1. Before(i) \subseteq 1 .. n /\ i \in Before(i)
    BY <1>2
  <2> HIDE DEF Before
  <2>2. IsFiniteSet(Before(i)) /\ Cardinality(Before(i)) <= n
    BY <1>1, <2>1, FS_Subset
  <2>3. Cardinality(Before(i)) \in Nat /\ Cardinality(Before(i)) # 0
    BY <2>1, <2>2, FS_CardinalityType, FS_EmptySet
  <2>4. QED
    BY <2>2, <2>3
<1>4. ASSUME NEW i \in 1 .. n, NEW k \in 1 .. n, i # k, Precedes(key, i, k)
      PROVE  Cardinality(Before(i)) < Cardinality(Before(k))
  <2>1. Before(i) \subseteq Before(k)
    BY <1>2, <1>4
  <2>2. k \in Before(k) /\ k \notin Before(i)
    BY <1>2, <1>4
  <2> HIDE DEF Before
  <2>3. /\ IsFiniteSet(Before(k)) /\ Cardinality(Before(i)) \in Nat /\ Cardinality(Before(k)) \in Nat
    BY <1>3
  <2>4. Cardinality(Before(i)) <= Cardinality(Before(k)) /\ Cardinality(Before(i)) # Cardinality(Before(k))
    BY <2>1, <2>2, <2>3, FS_Subset
  <2>5. QED
    BY <2>3, <2>4
<1>5. StableSort(table, key) = [p \in 1 .. n |-> table[order[p]]]
  BY DEF StableSort
<1> HIDE DEF Before
<1>6. rank \in Injection(1 .. n, 1 .. n)
  <2>1. rank \in [1 .. n -> 1 .. n]
    BY <1>3
  <2>2. ASSUME NEW i \in 1 .. n, NEW k \in 1 .. n, rank[i] = rank[k] PROVE i = k
    <3>1. Cardinality(Before(i)) = Cardinality(Before(k)) /\ Cardinality(Before(k)) \in 1 .. n
      BY <2>2, <1>3
    <3>2. QED
      BY <3>1, <1>2, <1>4
  <2> HIDE DEF rank
  <2>3. QED
    BY <2>1, <2>2 DEF Injection, IsInjective
<1>7. \A p \in 1 .. n : \E i \in 1 .. n : rank[i] = p
  <2> HIDE DEF rank
  <2>1. rank \in Surjection(1 .. n, 1 .. n)
    BY <1>1, <1>6, FS_Injection
  <2>2. QED
    BY <2>1 DEF Surjection
<1>8. ASSUME NEW i \in 1 .. n PROVE rank[i] = Cardinality(Before(i)) /\ rank[i] \in 1 .. n
  BY <1>3
<1>9. ASSUME NEW i \in 1 .. n, NEW k \in 1 .. n, rank[i] < rank[k] PROVE Precedes(key, i, k)
  <2>1. rank[i] = Cardinality(Before(i)) /\ rank[k] = Cardinality(Before(k))
    BY <1>8
  <2>2. rank[i] \in Nat /\ rank[k] \in Nat
    BY <1>8
  <2>3. i # k /\ ~(rank[k] < rank[i])
    BY <2>2, <1>9
  <2> HIDE DEF rank
  <2>4. QED
    BY <2>1, <2>3, <1>2, <1>4
<1>10. ASSUME NEW i \in 1 .. n, NEW k \in 1 .. n, rank[i] = rank[k] PROVE i = k
  BY <1>6, <1>10 DEF Injection, IsInjective
<1> HIDE DEF rank
<1>11. ASSUME NEW p \in 1 .. n PROVE order[p] \in 1 .. n /\ rank[order[p]] = p
  BY <1>7
<1> HIDE DEF order
<1>12. order \in [1 .. n -> 1 .. n]
  <2>1. order = [p \in 1 .. n |-> order[p]]
    BY DEF order
  <2>2. QED
    BY <1>11, <2>1
<1>13. ASSUME NEW i \in 1 .. n PROVE \E p \in 1 .. n : order[p] = i
  BY <1>8, <1>10, <1>11
<1>14. ASSUME NEW p \in 1 .. n, NEW q \in 1 .. n, p < q
       PROVE  order[p] # order[q] /\ Precedes(key, order[p], order[q])
  <2>1. order[p] \in 1 .. n /\ order[q] \in 1 .. n /\ rank[order[p]] = p /\ rank[order[q]] = q
    BY <1>11
  <2>2. p # q
    BY <1>14
  <2>3. Precedes(key, order[p], order[q])
    BY <2>1, <1>9, <1>14
  <2>4. QED
    BY <2>1, <2>2, <2>3
<1>15. QED
  <2>1. Sorting(order, key, n)
    BY <1>12, <1>13, <1>14 DEF Sorting
  <2>2. order \in Sortings(table, key, n)
    BY <2>1, <1>5, <1>12 DEF Sortings
  <2>3. QED
    BY <2>2

(***************************************************************************)
(* Sets of positions: their sizes, their greatest and their k-th elements  *)
(***************************************************************************)

\* A set within an interval is not larger than it.
LEMMA WithinInterval ==
  ASSUME NEW a \in Int, NEW b \in Int, NEW S, S \subseteq a .. b
  PROVE  /\ IsFiniteSet(S) /\ Cardinality(S) \in Nat
         /\ a <= b + 1 => Cardinality(S) <= b - a + 1
<1>1. /\ IsFiniteSet(a .. b) /\ Cardinality(a .. b) = IF a > b THEN 0 ELSE b-a+1
  BY FS_Interval
<1>2. IsFiniteSet(S) /\ Cardinality(S) <= Cardinality(a .. b)
  BY <1>1, FS_Subset
<1>3. Cardinality(S) \in Nat
  BY <1>2, FS_CardinalityType
<1>4. QED
  BY <1>1, <1>2, <1>3

\* A set of numbers that is finite, as it lies within an interval, has a greatest one.
LEMMA GreatestElement ==
  ASSUME NEW n \in Nat, NEW S, S \subseteq 1 .. n, S # {}
  PROVE  \E m \in S : \A j \in S : j <= m
<1> DEFINE L == {n - i : i \in S}
<1>1. L \subseteq Nat /\ L # {}
  <2>1. \A i \in S : i \in 1 .. n
    OBVIOUS
  <2>2. \A i \in S : n - i \in Nat
    BY <2>1
  <2>3. QED
    BY <2>2
<1>2. PICK k \in L : \A j \in L : k <= j
  <2> HIDE DEF L
  <2>1. QED
    BY <1>1, LeastElement
<1>3. PICK m \in S : k = n - m
  OBVIOUS
<1>4. ASSUME NEW j \in S PROVE j <= m
  <2>1. n - m <= n - j /\ j \in 1 .. n /\ m \in 1 .. n
    BY <1>2, <1>3
  <2>2. QED
    BY <2>1
<1>5. QED
  BY <1>4

\* The k-th of a set of positions is one of them, has k of them up to it, and comes before
\* the later ones.
LEMMA KthInOrder ==
  ASSUME NEW n \in Nat, NEW P \in SUBSET (1 .. n)
  PROVE  /\ IsFiniteSet(P) /\ Cardinality(P) \in Nat
         /\ \A k \in 1 .. Cardinality(P) : Kth(P, k) \in P /\ Cardinality({j \in P : j <= Kth(P, k)}) = k
         /\ \A i \in P : /\ Cardinality({j \in P : j <= i}) \in 1 .. Cardinality(P)
                         /\ Kth(P, Cardinality({j \in P : j <= i})) = i
         /\ \A k, l \in 1 .. Cardinality(P) : k < l => Kth(P, k) < Kth(P, l)
<1> DEFINE UpTo(i) == {j \in P : j <= i}
           c == Cardinality(P)
           rank == [i \in P |-> Cardinality(UpTo(i))]
<1>1. IsFiniteSet(P) /\ c \in Nat /\ IsFiniteSet(1 .. c) /\ Cardinality(1 .. c) = c
  <2>1. IsFiniteSet(1 .. n) /\ Cardinality(1 .. n) = n
    BY FS_Interval
  <2>2. IsFiniteSet(P)
    BY <2>1, FS_Subset
  <2>3. c \in Nat
    BY <2>2, FS_CardinalityType
  <2> HIDE DEF c
  <2>4. IsFiniteSet(1 .. c) /\ Cardinality(1 .. c) = c
    BY <2>3, FS_Interval
  <2>5. QED
    BY <2>2, <2>3, <2>4
<1>2. ASSUME NEW i \in P PROVE IsFiniteSet(UpTo(i)) /\ Cardinality(UpTo(i)) \in 1 .. c
  <2>1. UpTo(i) \subseteq P /\ i \in UpTo(i)
    OBVIOUS
  <2> HIDE DEF UpTo
  <2>2. IsFiniteSet(UpTo(i)) /\ Cardinality(UpTo(i)) <= c
    BY <1>1, <2>1, FS_Subset
  <2>3. Cardinality(UpTo(i)) \in Nat /\ Cardinality(UpTo(i)) # 0
    BY <2>1, <2>2, FS_CardinalityType, FS_EmptySet
  <2> HIDE DEF c
  <2>4. QED
    BY <2>2, <2>3, <1>1
<1>3. ASSUME NEW i \in P, NEW k \in P, i < k PROVE Cardinality(UpTo(i)) < Cardinality(UpTo(k))
  <2>1. i \in 1 .. n /\ k \in 1 .. n
    OBVIOUS
  <2>2. UpTo(i) \subseteq UpTo(k)
    <3> SUFFICES ASSUME NEW j \in P, j <= i PROVE j <= k
      OBVIOUS
    <3>1. j \in 1 .. n
      OBVIOUS
    <3>2. QED
      BY <2>1, <3>1, <1>3
  <2>3. k \in UpTo(k) /\ k \notin UpTo(i)
    BY <2>1, <1>3
  <2> HIDE DEF UpTo
  <2>4. IsFiniteSet(UpTo(k)) /\ Cardinality(UpTo(i)) \in Nat /\ Cardinality(UpTo(k)) \in Nat
    BY <1>2
  <2>5. Cardinality(UpTo(i)) <= Cardinality(UpTo(k)) /\ Cardinality(UpTo(i)) # Cardinality(UpTo(k))
    BY <2>2, <2>3, <2>4, FS_Subset
  <2>6. QED
    BY <2>4, <2>5
<1> HIDE DEF c
<1>4. ASSUME NEW i \in P, NEW k \in P, Cardinality(UpTo(i)) = Cardinality(UpTo(k)) PROVE i = k
  <2>1. i \in 1 .. n /\ k \in 1 .. n /\ Cardinality(UpTo(i)) \in 1 .. c /\ Cardinality(UpTo(k)) \in 1 .. c
    BY <1>2
  <2>2. ~(i < k) /\ ~(k < i)
    <3>1. ~(Cardinality(UpTo(i)) < Cardinality(UpTo(k))) /\ ~(Cardinality(UpTo(k)) < Cardinality(UpTo(i)))
      BY <2>1, <1>4
    <3> HIDE DEF UpTo
    <3>2. QED
      BY <3>1, <1>3
  <2>3. QED
    BY <2>1, <2>2
<1> HIDE DEF UpTo
<1>5. rank \in Injection(P, 1 .. c)
  <2>1. rank \in [P -> 1 .. c]
    BY <1>2
  <2>2. \A i, k \in P : rank[i] = rank[k] => i = k
    BY <1>4
  <2> HIDE DEF rank
  <2>3. QED
    BY <2>1, <2>2 DEF Injection, IsInjective
<1>6. \A k \in 1 .. c : \E i \in P : Cardinality(UpTo(i)) = k
  <2>1. rank \in Surjection(P, 1 .. c)
    <3> HIDE DEF rank
    <3>1. QED
      BY <1>1, <1>5, FS_Injection DEF c
  <2>2. \A k \in 1 .. c : \E i \in P : rank[i] = k
    BY <2>1 DEF Surjection
  <2>3. QED
    BY <2>2
<1>7. \A k : Kth(P, k) = CHOOSE i \in P : Cardinality(UpTo(i)) = k
  BY DEF Kth, UpTo
<1>8. \A k \in 1 .. c : Kth(P, k) \in P /\ Cardinality(UpTo(Kth(P, k))) = k
  BY <1>6, <1>7
<1>9. ASSUME NEW i \in P PROVE Kth(P, Cardinality(UpTo(i))) = i
  BY <1>2, <1>4, <1>8
<1>10. ASSUME NEW k \in 1 .. c, NEW l \in 1 .. c, k < l PROVE Kth(P, k) < Kth(P, l)
  <2> DEFINE i == Kth(P, k)
             j == Kth(P, l)
  <2>1. i \in P /\ j \in P /\ Cardinality(UpTo(i)) = k /\ Cardinality(UpTo(j)) = l
    BY <1>8
  <2>2. k \in Int /\ l \in Int /\ ~(l < k) /\ l # k
    BY <1>10, <1>1
  <2> HIDE DEF i, j
  <2>3. i # j /\ ~(j < i)
    BY <2>1, <2>2, <1>3
  <2>4. i \in 1 .. n /\ j \in 1 .. n
    BY <2>1
  <2>5. i < j
    BY <2>3, <2>4
  <2>6. QED
    BY <2>5 DEF i, j
<1>11. QED
  BY <1>1, <1>2, <1>8, <1>9, <1>10 DEF UpTo, c

\* An increasing map of positions onto others takes the k-th to the k-th.
LEMMA KthMapped ==
  ASSUME NEW n \in Nat, NEW P \in SUBSET (1 .. n), NEW Q \in SUBSET (1 .. n), NEW f \in [P -> Q],
         \A j \in Q : \E i \in P : f[i] = j,
         \A i, k \in P : i < k => f[i] < f[k]
  PROVE  /\ Cardinality(P) = Cardinality(Q)
         /\ \A k \in 1 .. Cardinality(P) : Kth(Q, k) = f[Kth(P, k)]
<1>1. /\ IsFiniteSet(P) /\ Cardinality(P) \in Nat
      /\ \A k \in 1 .. Cardinality(P) : Kth(P, k) \in P /\ Cardinality({j \in P : j <= Kth(P, k)}) = k
  BY KthInOrder
<1>2. \A i, k \in P : /\ f[i] = f[k] => i = k
                      /\ i <= k <=> f[i] <= f[k]
  <2> SUFFICES ASSUME NEW i \in P, NEW k \in P PROVE (f[i] = f[k] => i = k) /\ (i <= k <=> f[i] <= f[k])
    OBVIOUS
  <2>1. i \in 1 .. n /\ k \in 1 .. n /\ f[i] \in 1 .. n /\ f[k] \in 1 .. n
    OBVIOUS
  <2>2. (i < k => f[i] < f[k]) /\ (k < i => f[k] < f[i])
    OBVIOUS
  <2>3. i = k => f[i] = f[k]
    OBVIOUS
  <2>4. QED
    BY <2>1, <2>2, <2>3
<1>3. f \in Bijection(P, Q)
  BY <1>2 DEF Bijection, Injection, Surjection, IsInjective
<1>4. Cardinality(P) = Cardinality(Q)
  BY <1>1, <1>3, FS_Bijection DEF ExistsBijection
<1>5. ASSUME NEW i \in P PROVE Cardinality({j \in Q : j <= f[i]}) = Cardinality({j \in P : j <= i})
  <2> DEFINE A == {j \in P : j <= i}
             B == {j \in Q : j <= f[i]}
             g == [j \in A |-> f[j]]
  <2>1. A \subseteq P
    OBVIOUS
  <2>2. g \in [A -> B]
    BY <1>2
  <2>3. \A b \in B : \E a \in A : g[a] = b
    <3> SUFFICES ASSUME NEW b \in B PROVE \E a \in A : g[a] = b
      OBVIOUS
    <3>1. PICK a \in P : f[a] = b
      OBVIOUS
    <3>2. a <= i
      BY <3>1, <1>2
    <3>3. QED
      BY <3>1, <3>2
  <2>4. \A a, b \in A : g[a] = g[b] => a = b
    BY <1>2
  <2> HIDE DEF A, B, g
  <2>5. g \in Bijection(A, B)
    BY <2>2, <2>3, <2>4 DEF Bijection, Injection, Surjection, IsInjective
  <2>6. IsFiniteSet(A)
    BY <2>1, <1>1, FS_Subset
  <2>7. Cardinality(A) = Cardinality(B)
    BY <2>5, <2>6, FS_Bijection DEF ExistsBijection
  <2>8. QED
    BY <2>7 DEF A, B
<1>6. ASSUME NEW k \in 1 .. Cardinality(P) PROVE Kth(Q, k) = f[Kth(P, k)]
  <2> DEFINE i == Kth(P, k)
  <2>1. i \in P /\ f[i] \in Q /\ Cardinality({j \in P : j <= i}) = k
    BY <1>1
  <2> HIDE DEF i
  <2>2. Cardinality({j \in Q : j <= f[i]}) = k
    BY <2>1, <1>5
  <2>3. Kth(Q, Cardinality({j \in Q : j <= f[i]})) = f[i]
    BY <2>1, KthInOrder
  <2>4. QED
    BY <2>2, <2>3 DEF i
<1>7. QED
  BY <1>4, <1>6

\* Counting among the rows at some positions is counting among the positions.
LEMMA KthCounts ==
  ASSUME NEW n \in Nat, NEW P \in SUBSET (1 .. n), NEW S
  PROVE  Cardinality({k \in 1 .. Cardinality(P) : Kth(P, k) \in S}) = Cardinality(P \cap S)
<1> DEFINE c == Cardinality(P)
           A == {k \in 1 .. c : Kth(P, k) \in S}
           f == [k \in A |-> Kth(P, k)]
<1>1. /\ c \in Nat
      /\ \A k \in 1 .. c : Kth(P, k) \in P
      /\ \A i \in P : \E k \in 1 .. c : Kth(P, k) = i
      /\ \A k, l \in 1 .. c : k < l => Kth(P, k) < Kth(P, l)
  BY KthInOrder
<1> HIDE DEF c
<1>2. f \in [A -> P \cap S]
  BY <1>1
<1>3. \A i \in P \cap S : \E k \in A : f[k] = i
  BY <1>1
<1>4. \A k, l \in A : f[k] = f[l] => k = l
  <2> SUFFICES ASSUME NEW k \in A, NEW l \in A, f[k] = f[l] PROVE k = l
    OBVIOUS
  <2>1. k \in 1 .. c /\ l \in 1 .. c /\ Kth(P, k) = Kth(P, l)
    OBVIOUS
  <2>2. Kth(P, k) \in 1 .. n /\ Kth(P, l) \in 1 .. n
    BY <2>1, <1>1
  <2>3. ~(k < l) /\ ~(l < k)
    BY <2>1, <2>2, <1>1
  <2>4. QED
    BY <2>1, <2>3, <1>1
<1>5. IsFiniteSet(A)
  <2>1. IsFiniteSet(1 .. c)
    BY <1>1, FS_Interval
  <2>2. A \subseteq 1 .. c
    OBVIOUS
  <2>3. QED
    BY <2>1, <2>2, FS_Subset
<1> HIDE DEF A, f
<1>6. f \in Bijection(A, P \cap S)
  BY <1>2, <1>3, <1>4 DEF Bijection, Injection, Surjection, IsInjective
<1>7. Cardinality(A) = Cardinality(P \cap S)
  BY <1>5, <1>6, FS_Bijection DEF ExistsBijection
<1>8. QED
  BY <1>7 DEF A, c

(***************************************************************************)
(* Orders of positions                                                     *)
(***************************************************************************)

\* f lists the numbers 1 .. n in another order.
Rearranges(f, n) ==
  /\ f \in [1 .. n -> 1 .. n]
  /\ \A i \in 1 .. n : \E p \in 1 .. n : f[p] = i
  /\ \A p, q \in 1 .. n : p < q => f[p] # f[q]

\* A and B are sets of positions, and f takes those of A, and no others, to B.
Takes(f, A, B, n) ==
  /\ A \subseteq 1 .. n /\ B \subseteq 1 .. n
  /\ \A p \in 1 .. n : p \in A <=> f[p] \in B

\* A bijection of positions keeps the number of positions with a property.
LEMMA MappedCount ==
  ASSUME NEW n \in Nat, NEW f, Rearranges(f, n),
         NEW A, NEW B, Takes(f, A, B, n)
  PROVE  Cardinality(A) = Cardinality(B)
<1> DEFINE g == [p \in A |-> f[p]]
<1> USE DEF Rearranges, Takes
<1>1. g \in [A -> B]
  OBVIOUS
<1>2. \A i \in B : \E p \in A : g[p] = i
  <2> SUFFICES ASSUME NEW i \in B PROVE \E p \in A : g[p] = i
    OBVIOUS
  <2>1. PICK p \in 1 .. n : f[p] = i
    OBVIOUS
  <2>2. QED
    BY <2>1
<1>3. \A p, q \in A : g[p] = g[q] => p = q
  <2> SUFFICES ASSUME NEW p \in A, NEW q \in A, f[p] = f[q] PROVE p = q
    OBVIOUS
  <2>1. p \in Int /\ q \in Int /\ ~(p < q) /\ ~(q < p)
    OBVIOUS
  <2>2. QED
    BY <2>1
<1>4. IsFiniteSet(A)
  <2>1. IsFiniteSet(1 .. n)
    BY FS_Interval
  <2>2. QED
    BY <2>1, FS_Subset
<1> HIDE DEF g
<1>5. g \in Bijection(A, B)
  BY <1>1, <1>2, <1>3 DEF Bijection, Injection, Surjection, IsInjective
<1>6. QED
  BY <1>4, <1>5, FS_Bijection DEF ExistsBijection

\* A map of positions that takes no two to one reaches all of them.
LEMMA InjectionRearranges ==
  ASSUME NEW n \in Nat, NEW f \in [1 .. n -> 1 .. n], \A p, q \in 1 .. n : p < q => f[p] # f[q]
  PROVE  Rearranges(f, n)
<1> DEFINE I == 1 .. n
<1>1. IsFiniteSet(I)
  BY FS_Interval
<1>2. \A p, q \in I : f[p] = f[q] => p = q
  <2> SUFFICES ASSUME NEW p \in I, NEW q \in I, f[p] = f[q] PROVE p = q
    OBVIOUS
  <2>1. p \in Int /\ q \in Int /\ ~(p < q) /\ ~(q < p)
    OBVIOUS
  <2>2. QED
    BY <2>1
<1>3. f \in [I -> I] /\ f \in Injection(I, I)
  BY <1>2 DEF Injection, IsInjective
<1> HIDE DEF I
<1>4. f \in Surjection(I, I)
  BY <1>1, <1>3, FS_Injection
<1>5. \A i \in I : \E p \in I : f[p] = i
  BY <1>4 DEF Surjection
<1>6. QED
  BY <1>5 DEF Rearranges, I

(***************************************************************************)
(* Keys and remainders                                                     *)
(***************************************************************************)

\* A natural number is at most some power of two, and one of these is the least.
LEMMA LeastPower ==
  ASSUME NEW n \in Nat
  PROVE  \E k \in 0 .. n : 2^k >= n /\ \A j \in 0 .. k-1 : 2^j < n
<1> DEFINE S == {k \in Nat : 2^k >= n}
<1>1. S \subseteq Nat /\ n \in S
  BY PowerExceeds, PowerIsNatural
<1>2. PICK k \in S : \A m \in S : k <= m
  BY <1>1, LeastElement
<1>3. k \in 0 .. n /\ 2^k >= n
  BY <1>1, <1>2
<1>4. ASSUME NEW j \in 0 .. k-1 PROVE 2^j < n
  <2>1. j \in Nat /\ j \notin S
    BY <1>2
  <2>2. QED
    BY <2>1, PowerIsNatural
<1> HIDE DEF S
<1>5. QED
  BY <1>3, <1>4

\* A radix key swaps the halves of the numbers of its bits.
LEMMA RadixKeySwaps ==
  ASSUME NEW bits \in Nat \ {0}, NEW x \in Nat
  PROVE  /\ 2^(bits-1) \in Nat /\ 2^bits = 2 * 2^(bits-1) /\ RadixKey(x, bits) \in Int
         /\ x < 2^(bits-1) => RadixKey(x, bits) = x + 2^(bits-1)
         /\ 2^(bits-1) <= x /\ x < 2^bits => RadixKey(x, bits) = x - 2^(bits-1)
<1> DEFINE h == 2^(bits-1)
           N == 2^bits
<1>1. bits - 1 \in Nat /\ (bits - 1) + 1 = bits
  OBVIOUS
<1>2. h \in Nat /\ N = h + h /\ h > 0
  <2>1. h \in Nat
    BY <1>1, PowerIsNatural
  <2>2. 2^((bits-1)+1) = h + h
    BY <1>1, PowerDoubles
  <2>3. h > bits - 1
    BY <1>1, PowerExceeds
  <2> HIDE DEF h
  <2>4. QED
    BY <1>1, <2>1, <2>2, <2>3
<1>3. RadixKey(x, bits) = (x + h) % N
  BY DEF RadixKey
<1> HIDE DEF h, N
<1>4. RadixKey(x, bits) \in Int
  BY <1>2, <1>3
<1>5. ASSUME x < h PROVE (x + h) % N = x + h
  <2>1. x + h \in 0 .. N - 1 /\ N \in Nat \ {0}
    BY <1>2, <1>5
  <2>2. QED
    BY <2>1
<1>6. ASSUME h <= x, x < N PROVE (x + h) % N = x - h
  <2>1. x - h \in 0 .. N - 1 /\ N \in Nat \ {0} /\ x + h = N + (x - h)
    BY <1>2, <1>6
  <2>2. QED
    BY <2>1
<1>7. N = 2 * h
  BY <1>2
<1>8. QED
  BY <1>2, <1>3, <1>4, <1>5, <1>6, <1>7 DEF h, N

\* A number and its remainder differ by a multiple.
LEMMA Remainder ==
  ASSUME NEW u \in Nat, NEW p \in Nat, p > 0
  PROVE  \E q \in Int : u - (u % p) = p * q
OBVIOUS

(***************************************************************************)
(* The oblivious merge: two stable sorts are one sort                      *)
(***************************************************************************)

\* order lists the rows of a table by case, and those of a case by time, equal times as they come.
Merging(order, rows, n) ==
  /\ Rearranges(order, n)
  /\ \A p, q \in 1 .. n : p < q =>
       /\ RadixKey(rows[order[p]].case, CaseBits) <= RadixKey(rows[order[q]].case, CaseBits)
       /\ rows[order[p]].case = rows[order[q]].case =>
            Precedes([i \in 1 .. n |-> RadixKey(rows[i].time, TimestampBits)], order[p], order[q])

Mergings(rows, n) ==
  {order \in [1 .. n -> 1 .. n] :
     /\ Merging(order, rows, n)
     /\ SortByCaseId(SortByTimestamp(rows)) = [p \in 1 .. n |-> rows[order[p]]]}

\* Two stable sorts, by time and then by case, sort by case and within a case by time.
LEMMA TwoSortsMerge ==
  ASSUME NEW n \in Nat, NEW rows, DOMAIN rows = 1 .. n,
         \A i \in 1 .. n : rows[i].case \in Nat /\ rows[i].time \in Nat
  PROVE  Mergings(rows, n) # {}
<1> DEFINE time == [i \in 1 .. n |-> RadixKey(rows[i].time, TimestampBits)]
           sorted == SortByTimestamp(rows)
           case == [i \in 1 .. n |-> RadixKey(sorted[i].case, CaseBits)]
<1>1. time \in [1 .. n -> Int]
  BY RadixKeySwaps, BitsAssumption
<1>2. sorted = StableSort(rows, time)
  BY DEF SortByTimestamp
<1>3. PICK first \in [1 .. n -> 1 .. n] : Sorting(first, time, n) /\ sorted = [p \in 1 .. n |-> rows[first[p]]]
  <2> HIDE DEF time, sorted
  <2>1. Sortings(rows, time, n) # {}
    BY <1>1, StableSortSorts
  <2>2. QED
    BY <2>1, <1>2 DEF Sortings
<1> HIDE DEF time, sorted
<1>4. DOMAIN sorted = 1 .. n /\ \A i \in 1 .. n : sorted[i] = rows[first[i]]
  BY <1>3
<1>5. case \in [1 .. n -> Int]
  <2>1. \A i \in 1 .. n : sorted[i].case \in Nat
    BY <1>3, <1>4
  <2>2. QED
    BY <2>1, RadixKeySwaps, BitsAssumption
<1>6. SortByCaseId(sorted) = StableSort(sorted, case)
  BY <1>4 DEF SortByCaseId
<1>7. PICK second \in [1 .. n -> 1 .. n] :
        Sorting(second, case, n) /\ StableSort(sorted, case) = [p \in 1 .. n |-> sorted[second[p]]]
  <2> HIDE DEF case
  <2>1. Sortings(sorted, case, n) # {}
    BY <1>4, <1>5, StableSortSorts
  <2>2. QED
    BY <2>1 DEF Sortings
<1> DEFINE order == [p \in 1 .. n |-> first[second[p]]]
<1>8. order \in [1 .. n -> 1 .. n]
  OBVIOUS
<1>9. ASSUME NEW i \in 1 .. n PROVE \E p \in 1 .. n : order[p] = i
  <2>1. PICK q \in 1 .. n : first[q] = i
    BY <1>3 DEF Sorting
  <2>2. PICK p \in 1 .. n : second[p] = q
    BY <1>7 DEF Sorting
  <2>3. QED
    BY <2>1, <2>2
<1>10. SortByCaseId(sorted) = [p \in 1 .. n |-> rows[order[p]]]
  <2>1. \A p \in 1 .. n : sorted[second[p]] = rows[order[p]]
    BY <1>4
  <2>2. [p \in 1 .. n |-> sorted[second[p]]] = [p \in 1 .. n |-> rows[order[p]]]
    BY <2>1
  <2>3. QED
    BY <2>2, <1>6, <1>7
<1>11. ASSUME NEW p \in 1 .. n, NEW q \in 1 .. n, p < q
       PROVE  /\ order[p] # order[q]
              /\ RadixKey(rows[order[p]].case, CaseBits) <= RadixKey(rows[order[q]].case, CaseBits)
              /\ rows[order[p]].case = rows[order[q]].case => Precedes(time, order[p], order[q])
  <2> DEFINE x == second[p]
             y == second[q]
  <2>1. x \in 1 .. n /\ y \in 1 .. n /\ order[p] = first[x] /\ order[q] = first[y]
    OBVIOUS
  <2>2. x # y /\ Precedes(case, x, y)
    BY <1>7, <1>11 DEF Sorting
  <2> HIDE DEF x, y
  <2>3. /\ case[x] = RadixKey(rows[order[p]].case, CaseBits) /\ case[y] = RadixKey(rows[order[q]].case, CaseBits)
        /\ case[x] \in Int /\ case[y] \in Int
    <3>1. case[x] \in Int /\ case[y] \in Int
      BY <2>1, <1>5
    <3>2. sorted[x] = rows[order[p]] /\ sorted[y] = rows[order[q]]
      BY <2>1, <1>4
    <3>3. QED
      BY <2>1, <3>1, <3>2
  <2>4. case[x] <= case[y] /\ (case[x] = case[y] => x < y)
    <3> HIDE DEF case
    <3>1. case[x] < case[y] \/ (case[x] = case[y] /\ x <= y)
      BY <2>2 DEF Precedes
    <3>2. case[x] \in Int /\ case[y] \in Int /\ x \in Int /\ y \in Int /\ x # y
      BY <2>1, <2>2, <2>3
    <3>3. QED
      BY <3>1, <3>2
  <2>5. first[x] # first[y] /\ (x < y => Precedes(time, first[x], first[y]))
    <3>1. \A a, b \in 1 .. n : a < b => first[a] # first[b] /\ Precedes(time, first[a], first[b])
      BY <1>3 DEF Sorting
    <3>2. x < y \/ y < x
      BY <2>1, <2>2
    <3>3. QED
      BY <2>1, <3>1, <3>2
  <2> HIDE DEF order, case
  <2>6. QED
    BY <2>1, <2>3, <2>4, <2>5
<1> HIDE DEF order
<1>12. Merging(order, rows, n)
  <2>1. Rearranges(order, n)
    BY <1>8, <1>9, <1>11 DEF Rearranges
  <2>2. QED
    BY <2>1, <1>11 DEF Merging, time
<1>13. order \in Mergings(rows, n)
  BY <1>8, <1>10, <1>12 DEF Mergings, sorted
<1>14. QED
  BY <1>13

\* The case ids: hashes of as many bits as the program's case ids.
CaseId == 0 .. 2^CaseBits - 1

\* Different case ids have different keys.
LEMMA CaseKeysDiffer ==
  ASSUME NEW c \in CaseId, NEW d \in CaseId, RadixKey(c, CaseBits) = RadixKey(d, CaseBits)
  PROVE  c = d
<1> DEFINE h == 2^(CaseBits-1)
<1>1. /\ h \in Nat /\ 2^CaseBits = 2 * h
      /\ \A x \in Nat : (x < h => RadixKey(x, CaseBits) = x + h)
                        /\ (h <= x /\ x < 2^CaseBits => RadixKey(x, CaseBits) = x - h)
  BY RadixKeySwaps, BitsAssumption
<1>2. c \in Nat /\ d \in Nat /\ c < 2^CaseBits /\ d < 2^CaseBits
  BY <1>1 DEF CaseId
<1> HIDE DEF h
<1>3. QED
  BY <1>1, <1>2

\* In the merged table, the rows of a case stand together.
LEMMA CasesStandTogether ==
  ASSUME NEW n \in Nat, NEW rows, \A i \in 1 .. n : rows[i].case \in CaseId,
         NEW order, Merging(order, rows, n),
         NEW p \in 1 .. n, NEW q \in 1 .. n, NEW r \in 1 .. n, p <= q, q <= r,
         rows[order[p]].case = rows[order[r]].case
  PROVE  rows[order[q]].case = rows[order[p]].case
<1> DEFINE key(i) == RadixKey(rows[order[i]].case, CaseBits)
<1>1. \A i, j \in 1 .. n : i < j => key(i) <= key(j)
  BY DEF Merging
<1>2. \A i \in 1 .. n : order[i] \in 1 .. n /\ rows[order[i]].case \in CaseId
  BY DEF Merging, Rearranges
<1>3. \A i \in 1 .. n : key(i) \in Int
  <2>1. \A c \in CaseId : c \in Nat
    BY DEF CaseId
  <2>2. QED
    BY <1>2, <2>1, RadixKeySwaps, BitsAssumption
<1>4. key(p) = key(r)
  OBVIOUS
<1> HIDE DEF key
<1>5. key(p) <= key(q) /\ key(q) <= key(r)
  <2>1. p \in Int /\ q \in Int /\ r \in Int
    OBVIOUS
  <2>2. (p < q \/ p = q) /\ (q < r \/ q = r)
    BY <2>1
  <2>3. QED
    BY <1>1, <1>3, <2>2
<1>6. key(p) = key(q)
  BY <1>3, <1>4, <1>5
<1>7. QED
  BY <1>2, <1>6, CaseKeysDiffer DEF key
===============================================================================
