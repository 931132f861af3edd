-------------------------- MODULE SplitMinerProofs ---------------------------
(***************************************************************************)
(* Theorems about the protocols of the miner, for any number of activities,*)
(* any event table and any thresholds: the filter keeps all widths, every  *)
(* activity of the opened graph is on a path, the disclosed part of the    *)
(* concurrency relation is the part that the opened graph asks for, and    *)
(* stage by stage the protocols compute what the cleartext reference does. *)
(***************************************************************************)
EXTENDS MinerEquivalence, EventLogProofs

(***************************************************************************)
(* Widths                                                                  *)
(***************************************************************************)

\* The bit widths of LogRelations are what they mean to be.
LEMMA CeilLog2Covers == ASSUME NEW n \in Nat PROVE CeilLog2(n) \in Nat /\ 2^CeilLog2(n) >= n
<1>1. \E k \in 0 .. n : 2^k >= n /\ \A j \in 0 .. k-1 : 2^j < n
  BY LeastPower
<1>2. CeilLog2(n) \in 0 .. n /\ 2^CeilLog2(n) >= n
  BY <1>1 DEF CeilLog2
<1>3. QED
  BY <1>2

\* bits is such that bound < 2^(bits-1).
LEMMA ComparisonBits ==
  ASSUME NEW bound \in Nat
  PROVE  /\ comparison_bit_length(bound) \in Nat \ {0}
         /\ bound < 2^(comparison_bit_length(bound) - 1)
<1> DEFINE S == {k \in Nat : bound < 2^k}
           b == CHOOSE k \in 0 .. bound : bound < 2^k /\ \A j \in 0 .. k-1 : bound >= 2^j
<1>1. S \subseteq Nat /\ bound \in S
  BY PowerExceeds, PowerIsNatural
<1>2. PICK k \in S : \A m \in S : k <= m
  BY <1>1, LeastElement
<1>3. k \in 0 .. bound /\ bound < 2^k
  BY <1>1, <1>2
<1>4. ASSUME NEW j \in 0 .. k-1 PROVE bound >= 2^j
  <2>1. j \in Nat /\ j \notin S
    BY <1>2
  <2>2. QED
    BY <2>1, PowerIsNatural
<1> HIDE DEF S
<1>5. b \in 0 .. bound /\ bound < 2^b
  BY <1>3, <1>4
<1>6. comparison_bit_length(bound) = b + 1
  BY DEF comparison_bit_length
<1> HIDE DEF b
<1>7. (b + 1) - 1 = b
  BY <1>5
<1>8. QED
  BY <1>5, <1>6, <1>7

\* A comparison is right if its operands are less than 2^(bits-1) apart.
LEMMA LessThanIsRight ==
  ASSUME NEW x \in Int, NEW y \in Int, NEW bits \in Nat \ {0}, x - y < 2^(bits-1), y - x <= 2^(bits-1)
  PROVE  LessThan(x, y, bits) <=> x < y
<1> DEFINE h == 2^(bits-1)
<1>1. h \in Nat /\ 2^bits = h + h /\ h > 0
  <2>1. bits - 1 \in Nat /\ (bits - 1) + 1 = bits
    OBVIOUS
  <2>2. QED
    BY <2>1, PowerIsNatural, PowerDoubles, PowerExceeds
<1>2. LessThan(x, y, bits) <=> (x - y) % (h + h) >= h
  BY <1>1 DEF LessThan
<1>3. x - y < h /\ y - x <= h
  OBVIOUS
<1> HIDE DEF h
<1>4. CASE x >= y
  <2>1. (x - y) % (h + h) = x - y
    BY <1>1, <1>3, <1>4
  <2>2. ~((x - y) % (h + h) >= h)
    BY <2>1, <1>1, <1>3
  <2>3. ~(x < y)
    BY <1>4
  <2>4. QED
    BY <2>2, <2>3, <1>2
<1>5. CASE x < y
  <2>1. (x - y) % (h + h) = x - y + (h + h)
    BY <1>1, <1>3, <1>5
  <2>2. QED
    BY <2>1, <1>1, <1>2, <1>3, <1>5
<1>6. QED
  BY <1>4, <1>5

\* The unit vector of a value that the length asked for covers.
LEMMA DemuxIsUnit ==
  ASSUME NEW n \in Nat, NEW x \in Nat, NEW cond \in BOOLEAN, cond => x < n
  PROVE  Demux(x, n, cond) = IF cond THEN {x} ELSE {}
<1>1. CASE cond
  <2> DEFINE h == 2^CeilLog2(n)
  <2>1. h \in Nat /\ x < h
    BY <1>1, CeilLog2Covers, PowerIsNatural
  <2>2. x % h = x
    <3> HIDE DEF h
    <3>1. QED
      BY <2>1
  <2>3. QED
    BY <1>1, <2>2 DEF Demux
<1>2. CASE ~cond
  BY <1>2 DEF Demux
<1>3. QED
  BY <1>1, <1>2

(***************************************************************************)
(* Walks                                                                   *)
(***************************************************************************)

\* A walk of n moves from a to b that may pause at any node.
IsWalk(R, s, n) == \A i \in 0 .. n-1 : s[i] = s[i+1] \/ <<s[i],s[i+1]>> \in R
Walk(R, a, b, n) == \E s \in [0 .. n -> Node] : s[0] = a /\ s[n] = b /\ IsWalk(R, s, n)
Reached(R, a, n) == {b \in Node : Walk(R, a, b, n)}

\* No arc leads out of S.
ClosedUnder(S, R) == \A w \in S, v \in Node : <<w,v>> \in R => v \in S

\* Only nodes are reached.
LEMMA ReachedType == ASSUME NEW R, NEW a, NEW n PROVE Reached(R, a, n) \subseteq Node
  BY DEF Reached

\* Without a move only the node itself is reached.
LEMMA ReachedAtFirst == ASSUME NEW R, NEW a \in Node PROVE Reached(R, a, 0) = {a}
<1>1. Walk(R, a, a, 0)
  <2>1. [i \in 0 .. 0 |-> a] \in [0 .. 0 -> Node]
    OBVIOUS
  <2>2. IsWalk(R, [i \in 0 .. 0 |-> a], 0)
    BY DEF IsWalk
  <2>3. QED
    BY <2>1, <2>2 DEF Walk
<1>2. ASSUME NEW b, Walk(R, a, b, 0) PROVE b = a
  BY <1>2 DEF Walk
<1>3. QED
  BY <1>1, <1>2 DEF Reached

\* One more move follows one arc, or none.
LEMMA ReachedNext ==
  ASSUME NEW R, NEW a, NEW n \in Nat
  PROVE  Reached(R, a, n + 1) = OneStep(R, Reached(R, a, n))
<1>1. ASSUME NEW b \in Reached(R, a, n), NEW c \in Node, b = c \/ <<b,c>> \in R
      PROVE  c \in Reached(R, a, n + 1)
  <2>1. PICK s \in [0 .. n -> Node] : s[0] = a /\ s[n] = b /\ IsWalk(R, s, n)
    BY <1>1 DEF Reached, Walk
  <2> DEFINE t == [i \in 0 .. n+1 |-> IF i <= n THEN s[i] ELSE c]
  <2>2. t \in [0 .. n+1 -> Node] /\ t[0] = a /\ t[n+1] = c
    BY <2>1, <1>1
  <2>3. ASSUME NEW i \in 0 .. (n+1)-1 PROVE t[i] = t[i+1] \/ <<t[i],t[i+1]>> \in R
    <3>1. CASE i < n
      <4>1. i \in 0 .. n-1 /\ t[i] = s[i] /\ t[i+1] = s[i+1]
        BY <3>1
      <4>2. QED
        BY <4>1, <2>1 DEF IsWalk
    <3>2. CASE i = n
      <4>1. t[n] = s[n] /\ t[n+1] = c
        BY <2>1
      <4> HIDE DEF t
      <4>2. QED
        BY <3>2, <4>1, <2>1, <1>1
    <3>3. QED
      BY <3>1, <3>2
  <2> HIDE DEF t
  <2>4. IsWalk(R, t, n + 1)
    BY <2>3 DEF IsWalk
  <2>5. QED
    BY <2>2, <2>4, <1>1 DEF Reached, Walk
<1>2. ASSUME NEW c \in Reached(R, a, n + 1)
      PROVE  \E b \in Reached(R, a, n) : b = c \/ <<b,c>> \in R
  <2>1. PICK t \in [0 .. n+1 -> Node] : t[0] = a /\ t[n+1] = c /\ IsWalk(R, t, n + 1)
    BY <1>2 DEF Reached, Walk
  <2> DEFINE s == [i \in 0 .. n |-> t[i]]
  <2>2. s \in [0 .. n -> Node] /\ s[0] = a /\ s[n] = t[n]
    BY <2>1
  <2>3. IsWalk(R, s, n)
    BY <2>1 DEF IsWalk
  <2>4. t[n] = t[n+1] \/ <<t[n],t[n+1]>> \in R
    BY <2>1 DEF IsWalk
  <2>5. t[n] \in Reached(R, a, n)
    <3>1. t[n] \in Node
      BY <2>1
    <3> HIDE DEF s
    <3>2. QED
      BY <3>1, <2>2, <2>3 DEF Reached, Walk
  <2>6. QED
    BY <2>1, <2>4, <2>5
<1>3. Reached(R, a, n) \subseteq Node /\ Reached(R, a, n + 1) \subseteq Node
  BY ReachedType
<1>4. QED
  BY <1>1, <1>2, <1>3 DEF OneStep

\* Nothing outside of a closed set is reached from within.
LEMMA ReachedWithin ==
  ASSUME NEW R, NEW a \in Node, NEW S, a \in S, ClosedUnder(S, R), NEW n \in Nat
  PROVE  Reached(R, a, n) \subseteq S
<1> DEFINE P == {m \in Nat : Reached(R, a, m) \subseteq S}
<1>1. 0 \in P
  BY ReachedAtFirst
<1>2. ASSUME NEW m \in Nat, m \in P PROVE m + 1 \in P
  <2>1. Reached(R, a, m + 1) = OneStep(R, Reached(R, a, m))
    BY ReachedNext
  <2>2. Reached(R, a, m) \subseteq S
    BY <1>2
  <2>3. OneStep(R, Reached(R, a, m)) \subseteq S
    BY <2>2 DEF OneStep, ClosedUnder
  <2>4. QED
    BY <2>1, <2>3
<1> HIDE DEF P
<1>3. n \in P
  BY <1>1, <1>2, Induction
<1>4. QED
  BY <1>3 DEF P

\* More moves reach no fewer nodes.
LEMMA ReachedGrows ==
  ASSUME NEW R, NEW a \in Node, NEW m \in Nat, NEW n \in Nat, m <= n
  PROVE  Reached(R, a, m) \subseteq Reached(R, a, n)
<1> DEFINE P == {k \in Nat : Reached(R, a, m) \subseteq Reached(R, a, m + k)}
<1>1. 0 \in P
  OBVIOUS
<1>2. ASSUME NEW k \in Nat, k \in P PROVE k + 1 \in P
  <2>1. Reached(R, a, (m + k) + 1) = OneStep(R, Reached(R, a, m + k))
    BY ReachedNext
  <2>2. (m + k) + 1 = m + (k + 1)
    OBVIOUS
  <2>3. QED
    BY <1>2, <2>1, <2>2 DEF OneStep
<1> HIDE DEF P
<1>3. n - m \in P
  BY <1>1, <1>2, Induction
<1>4. m + (n - m) = n
  OBVIOUS
<1>5. QED
  BY <1>3, <1>4 DEF P

\* A set of K nodes that cannot be left is explored in K-1 moves.
LEMMA ReachedIsClosed ==
  ASSUME NEW R, NEW X, X \subseteq Node, ClosedUnder(X, R), NEW a \in X,
         IsFiniteSet(X), NEW n \in Nat, Cardinality(X) <= n + 1
  PROVE  ClosedUnder(Reached(R, a, n), R)
<1> DEFINE B(m) == Reached(R, a, m)
           P == {m \in Nat : ClosedUnder(B(m), R) \/ Cardinality(B(m)) >= m + 1}
<1>1. a \in Node
  OBVIOUS
<1>2. ASSUME NEW m \in Nat PROVE B(m) \subseteq X /\ IsFiniteSet(B(m)) /\ Cardinality(B(m)) \in Nat
  <2>1. B(m) \subseteq X
    BY <1>1, ReachedWithin
  <2>2. IsFiniteSet(B(m))
    BY <2>1, FS_Subset
  <2>3. QED
    BY <2>1, <2>2, FS_CardinalityType
<1>3. ASSUME NEW m \in Nat PROVE B(m) \subseteq B(m+1) /\ (B(m+1) = B(m) => ClosedUnder(B(m), R))
  BY ReachedNext DEF OneStep, ClosedUnder
<1>4. 0 \in P
  <2>1. B(0) = {a}
    BY <1>1, ReachedAtFirst
  <2>2. Cardinality(B(0)) = 1
    BY <2>1, FS_Singleton
  <2>3. QED
    BY <2>2
<1>5. ASSUME NEW m \in Nat, m \in P PROVE m + 1 \in P
  <2>1. CASE ClosedUnder(B(m), R)
    <3>1. B(m+1) = B(m)
      <4>1. B(m+1) = OneStep(R, B(m))
        BY ReachedNext
      <4>2. QED
        BY <4>1, <2>1 DEF OneStep, ClosedUnder
    <3>2. QED
      BY <3>1, <2>1
  <2>2. CASE ~ClosedUnder(B(m), R)
    <3>1. B(m) \subseteq B(m+1) /\ B(m+1) # B(m)
      BY <2>2, <1>3
    <3>2. Cardinality(B(m)) <= Cardinality(B(m+1)) /\ Cardinality(B(m+1)) # Cardinality(B(m))
      BY <3>1, <1>2, FS_Subset
    <3>3. Cardinality(B(m)) >= m + 1 /\ Cardinality(B(m)) \in Nat /\ Cardinality(B(m+1)) \in Nat
      BY <1>5, <1>2, <2>2
    <3> HIDE DEF B
    <3>4. Cardinality(B(m+1)) >= (m + 1) + 1
      BY <3>2, <3>3
    <3>5. QED
      BY <3>4
  <2>3. QED
    BY <2>1, <2>2
<1>6. n \in P
  <2> HIDE DEF P
  <2>1. QED
    BY <1>4, <1>5, Induction
<1>7. CASE Cardinality(B(n)) >= n + 1
  <2>1. B(n) \subseteq X /\ Cardinality(B(n)) \in Nat /\ Cardinality(X) \in Nat
    BY <1>2, FS_CardinalityType
  <2>2. Cardinality(B(n)) <= Cardinality(X)
    BY <2>1, FS_Subset
  <2>3. Cardinality(X) = Cardinality(B(n))
    <3> HIDE DEF B
    <3>1. QED
      BY <2>1, <2>2, <1>7
  <2>4. B(n) = X
    <3> HIDE DEF B
    <3>1. QED
      BY <2>1, <2>3, FS_Subset
  <2>5. QED
    BY <2>4
<1>8. QED
  BY <1>6, <1>7

\* Walks that follow one another.
LEMMA WalksCompose ==
  ASSUME NEW R, NEW a, NEW b, NEW c, NEW m \in Nat, NEW n \in Nat, Walk(R, a, b, m), Walk(R, b, c, n)
  PROVE  Walk(R, a, c, m + n)
<1>1. PICK s \in [0 .. m -> Node] : s[0] = a /\ s[m] = b /\ IsWalk(R, s, m)
  BY DEF Walk
<1>2. PICK t \in [0 .. n -> Node] : t[0] = b /\ t[n] = c /\ IsWalk(R, t, n)
  BY DEF Walk
<1> DEFINE u == [i \in 0 .. m+n |-> IF i <= m THEN s[i] ELSE t[i-m]]
<1>3. u \in [0 .. m+n -> Node]
  <2>1. ASSUME NEW i \in 0 .. m+n PROVE (IF i <= m THEN s[i] ELSE t[i-m]) \in Node
    <3>1. i <= m => i \in 0 .. m
      OBVIOUS
    <3>2. ~(i <= m) => i - m \in 0 .. n
      OBVIOUS
    <3>3. QED
      BY <3>1, <3>2
  <2>2. QED
    BY <2>1
<1>4. u[0] = a /\ u[m+n] = c
  <2>1. m + n <= m => n = 0
    OBVIOUS
  <2>2. (m + n) - m = n
    OBVIOUS
  <2>3. QED
    BY <1>1, <1>2, <2>1, <2>2
<1>5. ASSUME NEW i \in 0 .. (m+n)-1 PROVE u[i] = u[i+1] \/ <<u[i],u[i+1]>> \in R
  <2>1. CASE i < m
    <3>1. i \in 0 .. m-1 /\ u[i] = s[i] /\ u[i+1] = s[i+1]
      BY <2>1
    <3>2. QED
      BY <3>1, <1>1 DEF IsWalk
  <2>2. CASE i >= m
    <3>1. i - m \in 0 .. n-1 /\ (i + 1) - m = (i - m) + 1
      BY <2>2
    <3>2. u[i+1] = t[(i-m)+1]
      BY <2>2, <3>1
    <3>3. u[i] = t[i-m]
      <4>1. CASE i = m
        <5>1. i - m = 0
          BY <4>1
        <5>2. QED
          BY <4>1, <5>1, <1>1, <1>2
      <4>2. CASE i > m
        BY <4>2
      <4>3. QED
        BY <4>1, <4>2, <2>2
    <3> HIDE DEF u
    <3>4. QED
      BY <3>1, <3>2, <3>3, <1>2 DEF IsWalk
  <2>3. QED
    BY <2>1, <2>2
<1> HIDE DEF u
<1>6. QED
  BY <1>3, <1>4, <1>5 DEF Walk, IsWalk

\* A walk can be cut after any number of its moves.
LEMMA WalksSplit ==
  ASSUME NEW R, NEW a, NEW c, NEW m \in Nat, NEW n \in Nat, Walk(R, a, c, m + n)
  PROVE  \E b \in Node : Walk(R, a, b, m) /\ Walk(R, b, c, n)
<1>1. PICK u \in [0 .. m+n -> Node] : u[0] = a /\ u[m+n] = c /\ IsWalk(R, u, m + n)
  BY DEF Walk
<1> DEFINE s == [i \in 0 .. m |-> u[i]]
           t == [i \in 0 .. n |-> u[m+i]]
<1>2. s \in [0 .. m -> Node] /\ s[0] = a /\ s[m] = u[m] /\ u[m] \in Node
  BY <1>1
<1>3. t \in [0 .. n -> Node] /\ t[0] = u[m] /\ t[n] = c
  BY <1>1
<1>4. IsWalk(R, s, m)
  BY <1>1 DEF IsWalk
<1>5. ASSUME NEW i \in 0 .. n-1 PROVE t[i] = t[i+1] \/ <<t[i],t[i+1]>> \in R
  <2>1. m + i \in 0 .. (m+n)-1 /\ (m + i) + 1 = m + (i + 1)
    OBVIOUS
  <2>2. t[i] = u[m+i] /\ t[i+1] = u[(m+i)+1]
    BY <2>1
  <2> HIDE DEF t
  <2>3. QED
    BY <2>1, <2>2, <1>1 DEF IsWalk
<1> HIDE DEF s, t
<1>6. Walk(R, a, u[m], m) /\ Walk(R, u[m], c, n)
  BY <1>2, <1>3, <1>4, <1>5 DEF Walk, IsWalk
<1>7. QED
  BY <1>2, <1>6

(***************************************************************************)
(* The nodes a set of arcs leads to                                        *)
(***************************************************************************)
\* The indices of the reformatted matrices are as many as their dimension.
LEMMA NodesFinite == IsFiniteSet(Node) /\ Cardinality(Node) = Dim
<1>1. 0 \in Int /\ M + 1 \in Int /\ ~(0 > M + 1) /\ (M + 1) - 0 + 1 = M + 2
  BY MAssumption
<1>2. QED
  BY <1>1, FS_Interval DEF Node, Dim

\* The rounds of LeadsTo are the moves of walks: as many as there are nodes.
LEMMA LeadsToIsReached ==
  ASSUME NEW R, NEW u \in Node
  PROVE  LeadsTo(R, u) = Reached(R, u, Dim)
<1> DEFINE after[k \in 0 .. Dim] == IF k = 0 THEN {u} ELSE OneStep(R, after[k-1])
           h == [k \in 0 .. Dim |-> Reached(R, u, k)]
<1>1. Dim \in Nat
  BY MAssumption DEF Dim
<1>2. h = [k \in 0 .. Dim |-> IF k = 0 THEN {u} ELSE OneStep(R, h[k-1])]
  <2>1. ASSUME NEW k \in 0 .. Dim PROVE h[k] = IF k = 0 THEN {u} ELSE OneStep(R, h[k-1])
    <3>1. CASE k = 0
      BY <3>1, ReachedAtFirst
    <3>2. CASE k # 0
      <4>1. k - 1 \in 0 .. Dim /\ (k - 1) + 1 = k /\ k - 1 \in Nat
        BY <3>2, <1>1
      <4>2. Reached(R, u, (k - 1) + 1) = OneStep(R, Reached(R, u, k - 1))
        BY <4>1, ReachedNext
      <4>3. QED
        BY <3>2, <4>1, <4>2
    <3>3. QED
      BY <3>1, <3>2
  <2> DEFINE g == [k \in 0 .. Dim |-> IF k = 0 THEN {u} ELSE OneStep(R, h[k-1])]
  <2>2. \A k \in 0 .. Dim : h[k] = g[k]
    BY <2>1
  <2>3. h = [k \in 0 .. Dim |-> h[k]] /\ g = [k \in 0 .. Dim |-> g[k]]
    OBVIOUS
  <2> HIDE DEF h, g
  <2>4. h = g
    BY <2>2, <2>3
  <2>5. QED
    BY <2>4 DEF g
<1> HIDE DEF h
<1>3. after = [k \in 0 .. Dim |-> IF k = 0 THEN {u} ELSE OneStep(R, after[k-1])]
  BY <1>2, Zenon
<1>4. LeadsTo(R, u) = after[Dim]
  BY DEF LeadsTo
<1> HIDE DEF after
<1> DEFINE P == {k \in Nat : k <= Dim => after[k] = Reached(R, u, k)}
<1>5. 0 \in P
  BY <1>1, <1>3, ReachedAtFirst
<1>6. ASSUME NEW k \in Nat, k \in P PROVE k + 1 \in P
  <2> SUFFICES ASSUME k + 1 <= Dim PROVE after[k+1] = Reached(R, u, k + 1)
    OBVIOUS
  <2>1. k <= Dim /\ k + 1 \in 0 .. Dim /\ k + 1 # 0 /\ (k + 1) - 1 = k
    BY <1>1
  <2>2. after[k+1] = OneStep(R, after[k])
    BY <2>1, <1>3
  <2>3. QED
    BY <2>1, <2>2, <1>6, ReachedNext
<1> HIDE DEF P
<1>7. Dim \in P
  BY <1>1, <1>5, <1>6, Induction
<1>8. QED
  BY <1>1, <1>4, <1>7 DEF P

\* They are the smallest set that has u and cannot be left.
LEMMA LeadsToIsClosure ==
  ASSUME NEW R, NEW u \in Node
  PROVE  /\ LeadsTo(R, u) \subseteq Node /\ u \in LeadsTo(R, u)
         /\ ClosedUnder(LeadsTo(R, u), R)
         /\ \A S : u \in S /\ ClosedUnder(S, R) => LeadsTo(R, u) \subseteq S
<1>1. Dim \in Nat /\ Dim <= Dim + 1
  BY MAssumption DEF Dim
<1>2. LeadsTo(R, u) = Reached(R, u, Dim)
  BY LeadsToIsReached
<1>3. Reached(R, u, Dim) \subseteq Node
  BY ReachedType
<1>4. ClosedUnder(Reached(R, u, Dim), R)
  <2>1. ClosedUnder(Node, R)
    BY DEF ClosedUnder
  <2>2. QED
    BY <1>1, <2>1, NodesFinite, ReachedIsClosed
<1>5. u \in Reached(R, u, Dim)
  <2>1. Reached(R, u, 0) \subseteq Reached(R, u, Dim)
    BY <1>1, ReachedGrows
  <2>2. QED
    BY <2>1, ReachedAtFirst
<1>6. ASSUME NEW S, u \in S, ClosedUnder(S, R) PROVE Reached(R, u, Dim) \subseteq S
  BY <1>1, <1>6, ReachedWithin
<1>7. QED
  BY <1>2, <1>3, <1>4, <1>5, <1>6

\* What a node of the set leads to is in the set.
LEMMA LeadsOn ==
  ASSUME NEW R, NEW u \in Node, NEW v \in LeadsTo(R, u)
  PROVE  LeadsTo(R, v) \subseteq LeadsTo(R, u)
  BY LeadsToIsClosure

(***************************************************************************)
(* The closure of the sanitizer                                            *)
(***************************************************************************)
\* The pairs of activities between which there is a walk of n moves.
Walks(R, n) == {p \in Act \X Act : Walk(R, p[1], p[2], n)}

\* The nodes are the activities, the start and the end.
LEMMA ActivitiesFinite ==
  /\ Act \subseteq Node /\ IsFiniteSet(Act) /\ Cardinality(Act) = M
  /\ End \in Node /\ Start \in Node /\ End \notin Act /\ Start \notin Act /\ End # Start
  /\ Node = Act \cup {End, Start}
<1>1. 0 \in Int /\ M - 1 \in Int /\ ~(0 > M - 1) /\ (M - 1) - 0 + 1 = M
  BY MAssumption
<1>2. IsFiniteSet(Act) /\ Cardinality(Act) = M
  BY <1>1, FS_Interval DEF Act
<1>3. QED
  BY <1>2, MAssumption DEF Act, Node, End, Start

\* An arc between activities leads to an activity only.
LEMMA ActivitiesClosed == ASSUME NEW A PROVE ClosedUnder(Act, ActivityArcs(A))
  BY DEF ClosedUnder, ActivityArcs

\* The arcs between activities and the identity are the walks of one move.
LEMMA WalksOfOne ==
  ASSUME NEW A, A \subseteq Node \X Node
  PROVE  ActivityArcs(A) \cup Identity = Walks(ActivityArcs(A), 1)
<1> DEFINE R == ActivityArcs(A)
<1>0. R \subseteq Act \X Act
  BY DEF ActivityArcs
<1>1. ASSUME NEW a \in Act PROVE Reached(R, a, 1) = OneStep(R, {a})
  <2>1. a \in Node
    BY ActivitiesFinite
  <2>2. Reached(R, a, 0 + 1) = OneStep(R, Reached(R, a, 0))
    BY ReachedNext
  <2>3. QED
    BY <2>1, <2>2, ReachedAtFirst
<1> HIDE DEF R
<1>2. ASSUME NEW a \in Act, NEW b \in Act PROVE Walk(R, a, b, 1) <=> a = b \/ <<a,b>> \in R
  BY <1>1, ActivitiesFinite DEF Reached, OneStep
<1>3. QED
  BY <1>0, <1>2 DEF Walks, Identity, R

\* Squaring a relation of walks gives the walks twice as long.
LEMMA WalksSquared ==
  ASSUME NEW A, NEW n \in Nat
  PROVE  Squared(Walks(ActivityArcs(A), n)) = Walks(ActivityArcs(A), n + n)
<1> DEFINE R == ActivityArcs(A)
<1>1. ASSUME NEW a \in Act, NEW b \in Act, NEW c \in Act, Walk(R, a, b, n), Walk(R, b, c, n)
      PROVE  Walk(R, a, c, n + n)
  BY <1>1, WalksCompose
<1>2. ASSUME NEW a \in Act, NEW c \in Act, Walk(R, a, c, n + n)
      PROVE  \E b \in Act : Walk(R, a, b, n) /\ Walk(R, b, c, n)
  <2>1. PICK b \in Node : Walk(R, a, b, n) /\ Walk(R, b, c, n)
    BY <1>2, WalksSplit
  <2>2. b \in Reached(R, a, n)
    BY <2>1 DEF Reached
  <2>3. Reached(R, a, n) \subseteq Act
    BY ActivitiesFinite, ActivitiesClosed, ReachedWithin
  <2>4. QED
    BY <2>1, <2>2, <2>3
<1> HIDE DEF R
<1>3. Squared(Walks(R, n)) = Walks(R, n + n)
  BY <1>1, <1>2 DEF Squared, Walks
<1>4. QED
  BY <1>3 DEF R

\* Squaring k times gives the walks of up to 2^k moves.
LEMMA ReachabilityIsWalks ==
  ASSUME NEW A, A \subseteq Node \X Node, ClosureIsComputable
  PROVE  Reachability(A) = Walks(ActivityArcs(A), 2^Squarings)
<1> DEFINE R == ActivityArcs(A)
           first == ActivityArcs(A) \cup Identity
           after[k \in 0 .. Squarings] ==
             IF k = 0 THEN ActivityArcs(A) \cup Identity ELSE Squared(after[k-1])
           h == [k \in 0 .. Squarings |-> Walks(R, 2^k)]
           g == [k \in 0 .. Squarings |-> IF k = 0 THEN first ELSE Squared(h[k-1])]
<1>1. Squarings \in Nat
  <2>1. M - 1 \in Nat
    BY MAssumption
  <2>2. QED
    BY <2>1, CeilLog2Covers DEF Squarings
<1>2. Walks(R, 2^0) = first
  <2>1. 2^0 = 1
    OBVIOUS
  <2>2. QED
    BY <2>1, WalksOfOne
<1>3. ASSUME NEW k \in Nat PROVE Squared(Walks(R, 2^k)) = Walks(R, 2^(k+1))
  BY PowerIsNatural, PowerDoubles, WalksSquared
<1>4. ASSUME NEW k \in 0 .. Squarings PROVE h[k] = g[k]
  <2>1. CASE k = 0
    BY <2>1, <1>1, <1>2
  <2>2. CASE k # 0
    <3>1. k - 1 \in 0 .. Squarings /\ k - 1 \in Nat /\ (k - 1) + 1 = k
      BY <2>2, <1>1
    <3>2. Squared(Walks(R, 2^(k-1))) = Walks(R, 2^((k-1)+1))
      BY <3>1, <1>3
    <3>3. g[k] = Squared(Walks(R, 2^(k-1)))
      BY <3>1, <2>2
    <3>4. h[k] = Walks(R, 2^k)
      OBVIOUS
    <3> HIDE DEF g, h, R
    <3>5. QED
      BY <3>1, <3>2, <3>3, <3>4
  <2>3. QED
    BY <2>1, <2>2
<1>5. h = [k \in 0 .. Squarings |-> IF k = 0 THEN first ELSE Squared(h[k-1])]
  <2>1. h = [k \in 0 .. Squarings |-> h[k]] /\ g = [k \in 0 .. Squarings |-> g[k]]
    OBVIOUS
  <2>2. h = g
    <3> HIDE DEF g, h
    <3>1. QED
      BY <2>1, <1>4
  <2> HIDE DEF h
  <2>3. QED
    BY <2>2
<1> HIDE DEF h
<1>6. after = [k \in 0 .. Squarings |-> IF k = 0 THEN ActivityArcs(A) \cup Identity ELSE Squared(after[k-1])]
  BY <1>5, Zenon
<1>7. Reachability(A) = after[Squarings]
  BY DEF Reachability
<1> HIDE DEF after, R
<1> DEFINE P == {k \in Nat : k <= Squarings => after[k] = Walks(R, 2^k)}
<1>8. 0 \in P
  BY <1>1, <1>2, <1>6
<1>9. ASSUME NEW k \in Nat, k \in P PROVE k + 1 \in P
  <2> SUFFICES ASSUME k + 1 <= Squarings PROVE after[k+1] = Walks(R, 2^(k+1))
    OBVIOUS
  <2>1. k <= Squarings /\ k + 1 \in 0 .. Squarings /\ k + 1 # 0 /\ (k + 1) - 1 = k
    BY <1>1
  <2>2. after[k+1] = Squared(after[k])
    BY <2>1, <1>6
  <2>3. after[k] = Walks(R, 2^k)
    BY <2>1, <1>9
  <2>4. QED
    BY <2>2, <2>3, <1>3
<1> HIDE DEF P
<1>10. Squarings \in P
  BY <1>1, <1>8, <1>9, Induction
<1>11. QED
  BY <1>1, <1>7, <1>10 DEF P, R

\* It is the closure of the arcs between activities.
LEMMA ReachabilityIsClosure ==
  ASSUME NEW A, A \subseteq Node \X Node, ClosureIsComputable
  PROVE  \A a, b \in Act : <<a,b>> \in Reachability(A) <=> b \in LeadsTo(ActivityArcs(A), a)
<1> DEFINE R == ActivityArcs(A)
           n == 2^Squarings
<1>1. n \in Nat /\ M <= n + 1
  <2>1. M - 1 \in Nat
    BY MAssumption
  <2>2. CeilLog2(M - 1) \in Nat /\ n >= M - 1
    BY <2>1, CeilLog2Covers DEF Squarings
  <2>3. n \in Nat
    BY <2>2, PowerIsNatural DEF Squarings
  <2> HIDE DEF n
  <2>4. QED
    BY <2>1, <2>2, <2>3, MAssumption
<1>2. ASSUME NEW a \in Act PROVE Reached(R, a, n) = LeadsTo(R, a)
  <2>0. a \in Node
    BY ActivitiesFinite
  <2> HIDE DEF n, R
  <2>1. ClosedUnder(Reached(R, a, n), R)
    BY <1>1, ActivitiesFinite, ActivitiesClosed, ReachedIsClosed DEF R
  <2>2. a \in Reached(R, a, n)
    <3>1. Reached(R, a, 0) \subseteq Reached(R, a, n)
      BY <1>1, <2>0, ReachedGrows
    <3>2. QED
      BY <3>1, <2>0, ReachedAtFirst
  <2>3. LeadsTo(R, a) \subseteq Reached(R, a, n)
    BY <2>0, <2>1, <2>2, LeadsToIsClosure
  <2>4. Reached(R, a, n) \subseteq LeadsTo(R, a)
    BY <1>1, <2>0, LeadsToIsClosure, ReachedWithin
  <2>5. QED
    BY <2>3, <2>4
<1>3. Reachability(A) = Walks(R, n)
  BY ReachabilityIsWalks
<1> HIDE DEF n, R
<1>4. \A a, b \in Act : <<a,b>> \in Walks(R, n) <=> b \in Reached(R, a, n)
  BY ActivitiesFinite DEF Walks, Reached
<1>5. QED
  BY <1>2, <1>3, <1>4 DEF R

(***************************************************************************)
(* What the sanitizer opens                                                *)
(***************************************************************************)
\* More arcs lead to no fewer nodes.
LEMMA LeadsFurther ==
  ASSUME NEW R, NEW S, R \subseteq S, NEW u \in Node
  PROVE  LeadsTo(R, u) \subseteq LeadsTo(S, u)
<1>1. ClosedUnder(LeadsTo(S, u), R)
  BY LeadsToIsClosure DEF ClosedUnder
<1>2. QED
  BY <1>1, LeadsToIsClosure

\* The opened graph orders what the closure orders.
LEMMA OpenedGraphOrders ==
  ASSUME NEW A, A \subseteq Node \X Node, ClosureIsComputable, NEW a \in Act, NEW b \in Act,
         <<a,b>> \in Reachability(A)
  PROVE  b \in LeadsTo(spdfg_without_orphans(A, Reachability(A)), a)
<1>1. ActivityArcs(A) \subseteq spdfg_without_orphans(A, Reachability(A))
  BY DEF ActivityArcs, spdfg_without_orphans
<1>2. a \in Node /\ b \in LeadsTo(ActivityArcs(A), a)
  BY ActivitiesFinite, ReachabilityIsClosure
<1>3. QED
  BY <1>1, <1>2, LeadsFurther

\* Reattaching the orphans puts every activity on a path from the start to the end.
LEMMA ActivitiesOnPath ==
  ASSUME NEW A, A \subseteq Node \X Node, ClosureIsComputable, NEW a \in Act
  PROVE  LET opened_graph == spdfg_without_orphans(A, Reachability(A))
         IN  a \in LeadsTo(opened_graph, Start) /\ End \in LeadsTo(opened_graph, a)
<1> DEFINE reach == Reachability(A)
           G == spdfg_without_orphans(A, reach)
<1>0. a \in Node /\ Start \in Node /\ End \in Node
  BY ActivitiesFinite
<1>1. ASSUME NEW u \in Node, NEW v \in Node, <<u,v>> \in G PROVE v \in LeadsTo(G, u)
  BY <1>1, LeadsToIsClosure DEF ClosedUnder
<1>2. a \in LeadsTo(G, Start)
  <2>1. CASE a \in orphaned_activity_in(A, reach)
    <3>1. <<Start,a>> \in G
      BY <2>1 DEF spdfg_without_orphans
    <3> HIDE DEF G
    <3>2. QED
      BY <3>1, <1>0, <1>1
  <2>2. CASE a \notin orphaned_activity_in(A, reach)
    <3>1. PICK k \in Act : <<Start,k>> \in A /\ <<k,a>> \in reach
      BY <2>2 DEF orphaned_activity_in
    <3>2. <<Start,k>> \in G /\ k \in Node
      BY <3>1, ActivitiesFinite DEF spdfg_without_orphans
    <3>3. a \in LeadsTo(G, k)
      BY <3>1, OpenedGraphOrders
    <3> HIDE DEF G
    <3>4. k \in LeadsTo(G, Start)
      BY <3>2, <1>0, <1>1
    <3>5. QED
      BY <3>3, <3>4, <1>0, LeadsOn
  <2>3. QED
    BY <2>1, <2>2
<1>3. End \in LeadsTo(G, a)
  <2>1. CASE a \in orphaned_activity_out(A, reach)
    <3>1. <<a,End>> \in G
      BY <2>1 DEF spdfg_without_orphans
    <3> HIDE DEF G
    <3>2. QED
      BY <3>1, <1>0, <1>1
  <2>2. CASE a \notin orphaned_activity_out(A, reach)
    <3>1. PICK k \in Act : <<k,End>> \in A /\ <<a,k>> \in reach
      BY <2>2 DEF orphaned_activity_out
    <3>2. <<k,End>> \in G /\ k \in Node
      BY <3>1, ActivitiesFinite DEF spdfg_without_orphans
    <3>3. k \in LeadsTo(G, a)
      BY <3>1, OpenedGraphOrders
    <3> HIDE DEF G
    <3>4. End \in LeadsTo(G, k)
      BY <3>2, <1>0, <1>1
    <3>5. QED
      BY <3>3, <3>4, <1>0, LeadsOn
  <2>3. QED
    BY <2>1, <2>2
<1>4. QED
  BY <1>2, <1>3

\* A recorded pair is withheld only if the opened graph orders it or no node leads to both.
LEMMA WithheldForAReason ==
  ASSUME NEW A, A \subseteq Node \X Node, ClosureIsComputable, NEW conc,
         NEW p \in (conc \cap (Act \X Act)) \ disclosed_concurrency(A, Reachability(A), conc)
  PROVE  LET opened_graph == spdfg_without_orphans(A, Reachability(A))
         IN  \/ p[1] \in LeadsTo(opened_graph, p[2]) \/ p[2] \in LeadsTo(opened_graph, p[1])
             \/ ~\E u \in Node : <<u,p[1]>> \in opened_graph /\ <<u,p[2]>> \in opened_graph
<1> DEFINE reach == Reachability(A)
           G == spdfg_without_orphans(A, reach)
<1>1. p \in Act \X Act /\ p[1] \in Act /\ p[2] \in Act /\ p = <<p[1],p[2]>>
  OBVIOUS
<1>2. CASE p \notin kept_concurrency(A, reach, conc)
  <2>1. p \notin unconnected(reach)
    BY <1>2 DEF kept_concurrency, activity_concurrency
  <2>2. <<p[1],p[2]>> \in reach \/ <<p[2],p[1]>> \in reach
    BY <1>1, <2>1 DEF unconnected
  <2>3. QED
    BY <1>1, <2>2, OpenedGraphOrders
<1>3. CASE p \notin co_successor(G)
  BY <1>1, <1>3 DEF co_successor
<1>4. QED
  BY <1>2, <1>3 DEF disclosed_concurrency

\* No arc leaves the end, and none leads to the start.
Bounded(A) == A \subseteq Node \X Node /\ \A p \in A : p[1] # End /\ p[2] # Start

\* In a graph without arcs out of the end or into the start the closure is complete.
LEMMA OpenedGraphOrdersNoMore ==
  ASSUME NEW A, Bounded(A), ClosureIsComputable, NEW a \in Act, NEW b \in Act,
         b \in LeadsTo(spdfg_without_orphans(A, Reachability(A)), a)
  PROVE  <<a,b>> \in Reachability(A)
<1> DEFINE reach == Reachability(A)
           G == spdfg_without_orphans(A, reach)
           S == {c \in Act : <<a,c>> \in reach} \cup {End}
<1>0. a \in Node /\ A \subseteq Node \X Node
  BY ActivitiesFinite DEF Bounded
<1>1. a \in S
  BY <1>0, LeadsToIsClosure, ReachabilityIsClosure
<1>2. ASSUME NEW w \in S, NEW v \in Node, <<w,v>> \in G PROVE v \in S
  <2>1. \/ <<w,v>> \in A
        \/ w = Start
        \/ v = End
    BY <1>2 DEF spdfg_without_orphans
  <2>2. w # Start
    BY ActivitiesFinite
  <2>3. CASE v = End
    BY <2>3
  <2>4. CASE <<w,v>> \in A /\ v # End
    <3>1. w # End /\ v # Start
      BY <2>4 DEF Bounded
    <3>2. w \in Act /\ <<a,w>> \in reach /\ v \in Act
      BY <3>1, <2>4, ActivitiesFinite
    <3>3. w \in LeadsTo(ActivityArcs(A), a)
      BY <3>2, <1>0, ReachabilityIsClosure
    <3>4. v \in LeadsTo(ActivityArcs(A), a)
      <4>1. CASE w = v
        BY <4>1, <3>3
      <4>2. CASE w # v
        <5>1. <<w,v>> \in ActivityArcs(A)
          BY <4>2, <3>2, <2>4 DEF ActivityArcs
        <5>2. QED
          BY <5>1, <3>3, <1>0, LeadsToIsClosure DEF ClosedUnder
      <4>3. QED
        BY <4>1, <4>2
    <3>5. QED
      BY <3>2, <3>4, <1>0, ReachabilityIsClosure
  <2>5. QED
    BY <2>1, <2>2, <2>3, <2>4
<1>3. ClosedUnder(S, G)
  BY <1>2 DEF ClosedUnder
<1>4. b \in S
  <2> HIDE DEF S, G
  <2>1. b \in LeadsTo(G, a)
    BY DEF G
  <2>2. QED
    BY <2>1, <1>0, <1>1, <1>3, LeadsToIsClosure
<1>5. QED
  BY <1>4, ActivitiesFinite

\* A disclosed pair is unordered in the opened graph, has a node that leads to both, and is
\* disclosed in both directions.
LEMMA DisclosedUnordered ==
  ASSUME NEW A, Bounded(A), ClosureIsComputable, NEW conc,
         \A q \in conc : <<q[2],q[1]>> \in conc,
         NEW p \in disclosed_concurrency(A, Reachability(A), conc)
  PROVE  LET opened_graph == spdfg_without_orphans(A, Reachability(A))
         IN  /\ p[1] \notin LeadsTo(opened_graph, p[2])
             /\ <<p[2],p[1]>> \in disclosed_concurrency(A, Reachability(A), conc)
             /\ \E u \in Node : <<u,p[1]>> \in opened_graph /\ <<u,p[2]>> \in opened_graph
<1> DEFINE reach == Reachability(A)
           G == spdfg_without_orphans(A, reach)
<1>1. p \in kept_concurrency(A, reach, conc) /\ p \in co_successor(G)
  BY DEF disclosed_concurrency
<1>2. p \in Act \X Act /\ p[1] \in Act /\ p[2] \in Act /\ p = <<p[1],p[2]>>
  BY <1>1 DEF co_successor
<1>3. p \in unconnected(reach)
  BY <1>1 DEF kept_concurrency
<1>4. p[1] \notin LeadsTo(G, p[2])
  BY <1>2, <1>3, OpenedGraphOrdersNoMore DEF unconnected
<1> DEFINE q == <<p[2],p[1]>>
<1>5. q \in Act \X Act /\ q[1] = p[2] /\ q[2] = p[1]
  BY <1>2
<1>6. q \in unconnected(reach) /\ q \in co_successor(G)
  BY <1>1, <1>2, <1>3, <1>5 DEF unconnected, co_successor
<1>7. q \in activity_concurrency(conc) \cup completed_pairs(completes(A, reach, conc))
  <2>1. CASE p \in activity_concurrency(conc)
    BY <2>1, <1>5 DEF activity_concurrency
  <2>2. CASE p \in completed_pairs(completes(A, reach, conc))
    BY <2>2, <1>5 DEF completed_pairs
  <2>3. QED
    BY <2>1, <2>2, <1>1 DEF kept_concurrency
<1>8. q \in disclosed_concurrency(A, reach, conc)
  BY <1>6, <1>7 DEF disclosed_concurrency, kept_concurrency
<1>9. QED
  BY <1>1, <1>2, <1>4, <1>8 DEF co_successor

(***************************************************************************)
(* Frequencies and relations                                               *)
(***************************************************************************)
\* Matrices of frequencies.
Frequencies(labels) == [labels -> [labels -> Nat]]

\* A number of rows is a number.
LEMMA RowsCounted ==
  ASSUME NEW n \in Nat, NEW S, S \subseteq 1 .. n
  PROVE  Cardinality(S) \in Nat
<1>1. IsFiniteSet(1 .. n)
  BY FS_Interval
<1>2. IsFiniteSet(S)
  BY <1>1, FS_Subset
<1>3. QED
  BY <1>2, FS_CardinalityType

\* The graph that is counted off the merged table has frequencies at all labels.
LEMMA DirectlyFollowsType ==
  ASSUME NEW table \in Seq(Row)
  PROVE  LET sorted == SortByCaseId(SortByTimestamp(table))
         IN  DirectlyFollows(DemuxedEvents(sorted), NewCase(sorted), CaseEnd(sorted)) \in Frequencies(Label)
<1> DEFINE sorted == SortByCaseId(SortByTimestamp(table))
           shown == DemuxedEvents(sorted)
           n == Len(table)
<1>1. n \in Nat /\ DOMAIN table = 1 .. n
  OBVIOUS
<1>2. DOMAIN sorted = 1 .. n
  BY <1>1 DEF SortByCaseId, SortByTimestamp, StableSort
<1>3. DOMAIN shown = 1 .. n
  BY <1>2 DEF DemuxedEvents
<1>4. NewCase(sorted) \subseteq 1 .. n /\ CaseEnd(sorted) \subseteq 1 .. n
  BY <1>2 DEF NewCase, CaseEnd
<1> HIDE DEF sorted, shown, n
<1>5. ASSUME NEW a \in Label, NEW b \in Label
      PROVE  /\ Follows(shown, NewCase(sorted), a, b) \in Nat
             /\ Starts(shown, NewCase(sorted), b) \in Nat
             /\ Ends(shown, CaseEnd(sorted), a) \in Nat
  <2> DEFINE follows == {i \in DOMAIN shown \ NewCase(sorted) : a \in shown[i-1] /\ b \in shown[i]}
             starts == {i \in NewCase(sorted) : b \in shown[i]}
             ends == {i \in CaseEnd(sorted) : a \in shown[i]}
  <2>1. follows \subseteq 1 .. n /\ starts \subseteq 1 .. n /\ ends \subseteq 1 .. n
    BY <1>3, <1>4
  <2>2. Follows(shown, NewCase(sorted), a, b) = Cardinality(follows)
    BY Zenon DEF Follows
  <2>3. Starts(shown, NewCase(sorted), b) = Cardinality(starts)
    BY Zenon DEF Starts
  <2>4. Ends(shown, CaseEnd(sorted), a) = Cardinality(ends)
    BY Zenon DEF Ends
  <2> HIDE DEF follows, starts, ends
  <2>5. /\ Cardinality(follows) \in Nat /\ Cardinality(starts) \in Nat /\ Cardinality(ends) \in Nat
    BY <1>1, <2>1, RowsCounted
  <2>6. QED
    BY <2>2, <2>3, <2>4, <2>5
<1>6. ASSUME NEW a \in Label, NEW b \in Label
      PROVE  Follows(shown, NewCase(sorted), a, b)
               + (IF a = Bottom THEN Starts(shown, NewCase(sorted), b) ELSE 0)
               + (IF b = Bottom THEN Ends(shown, CaseEnd(sorted), a) ELSE 0) \in Nat
  BY <1>5
<1>7. DirectlyFollows(shown, NewCase(sorted), CaseEnd(sorted)) \in Frequencies(Label)
  BY <1>6 DEF DirectlyFollows, Frequencies
<1>8. QED
  BY <1>7 DEF sorted, shown

\* Pruning leaves frequencies.
LEMMA PruningType ==
  ASSUME NEW f \in Frequencies(Label), NEW conc, NEW short, NEW self
  PROVE  dfg_pruning(f, conc, short, self) \in Frequencies(Label)
<1>1. ASSUME NEW a \in Label, NEW b \in Label
      PROVE  (IF Survives(f, conc, short, self, a, b) THEN f[a][b] ELSE 0) \in Nat
  BY DEF Frequencies
<1>2. QED
  BY <1>1 DEF dfg_pruning, Frequencies

\* A graph whose boundary is split: no arc out of the end, none into the start.
Split(g) == g \in Frequencies(Node) /\ \A v \in Node : g[End][v] = 0 /\ g[v][Start] = 0

\* Reformatting splits the boundary.
LEMMA ReformatSplits ==
  ASSUME NEW f \in Frequencies(Label)
  PROVE  Split(reformat_start_and_end(f))
<1>1. End \in Node /\ Start \in Node
  BY ActivitiesFinite
<1>2. ASSUME NEW u \in Node, NEW v \in Node
      PROVE  (IF u = End \/ v = Start THEN 0 ELSE f[IF u = Start THEN Bottom ELSE u][v]) \in Nat
  <2>1. CASE u = End \/ v = Start
    BY <2>1
  <2>2. CASE u # End /\ v # Start
    <3>1. v \in Label /\ (IF u = Start THEN Bottom ELSE u) \in Label
      BY <2>2, MAssumption DEF Node, Start, End, Label, Bottom
    <3>2. QED
      BY <2>2, <3>1 DEF Frequencies
  <2>3. QED
    BY <2>1, <2>2
<1>3. QED
  BY <1>1, <1>2 DEF reformat_start_and_end, Frequencies, Split

\* The concurrency relation has a pair in both directions.
LEMMA ConcurrencySymmetric ==
  ASSUME NEW f \in Frequencies(Label), NEW short, NEW n
  PROVE  \A p \in detect_concurrency(f, short, detect_left_right_positive(f), n) :
           <<p[2],p[1]>> \in detect_concurrency(f, short, detect_left_right_positive(f), n)
<1> DEFINE positive == detect_left_right_positive(f)
           Masked(a, b) == IF a # b /\ <<a,b>> \in positive /\ ~Alternate(short, a, b) THEN f[a][b] ELSE 0
           bits == comparison_bit_length(2 * n * Larger(Epsilon.num, Epsilon.den))
           Conc(a, b) == LessThan(Distance(Masked(a, b), Masked(b, a)) * Epsilon.den,
                                  (Masked(a, b) + Masked(b, a)) * Epsilon.num, bits)
<1>1. \A a, b \in Label : Masked(a, b) \in Nat
  BY DEF Frequencies
<1>2. detect_concurrency(f, short, positive, n) = {p \in Label \X Label : Conc(p[1], p[2])}
  BY DEF detect_concurrency
<1> HIDE DEF Masked, bits
<1>3. ASSUME NEW a \in Label, NEW b \in Label PROVE Conc(a, b) = Conc(b, a)
  <2>1. Distance(Masked(a, b), Masked(b, a)) = Distance(Masked(b, a), Masked(a, b))
    BY <1>1 DEF Distance
  <2>2. Masked(a, b) + Masked(b, a) = Masked(b, a) + Masked(a, b)
    BY <1>1
  <2>3. QED
    BY <2>1, <2>2
<1> HIDE DEF Conc
<1>4. QED
  BY <1>2, <1>3

(***************************************************************************)
(* The search                                                              *)
(***************************************************************************)

\* Among some nodes there is one of highest rank.
LEMMA HighestRank ==
  ASSUME NEW S, S \subseteq Node, S # {}, NEW f \in [Node -> Nat]
  PROVE  \E u \in S : \A w \in S : f[w] <= f[u]
<1> DEFINE HasMax(T) == T # {} => \E u \in T : \A w \in T : f[w] <= f[u]
           P == {n \in Nat : \A T \in SUBSET Node : T \subseteq 0 .. n => HasMax(T)}
<1>0. ASSUME NEW u \in Node PROVE f[u] \in Nat /\ u \in Nat
  BY MAssumption DEF Node
<1>1. 0 \in P
  <2>1. ASSUME NEW T \in SUBSET Node, T \subseteq 0 .. 0, T # {} PROVE \E u \in T : \A w \in T : f[w] <= f[u]
    <3>1. T = {0}
      <4>1. 0 .. 0 = {0}
        OBVIOUS
      <4>2. QED
        BY <2>1, <4>1
    <3>2. f[0] \in Nat
      BY <3>1, <1>0
    <3>3. QED
      BY <3>1, <3>2
  <2>2. QED
    BY <2>1
<1>2. ASSUME NEW n \in Nat, n \in P PROVE n + 1 \in P
  <2>1. ASSUME NEW T \in SUBSET Node, T \subseteq 0 .. n+1, T # {}
        PROVE  \E u \in T : \A w \in T : f[w] <= f[u]
    <3> DEFINE U == T \ {n + 1}
    <3>1. U \in SUBSET Node /\ U \subseteq 0 .. n
      BY <2>1
    <3>2. HasMax(U)
      BY <3>1, <1>2
    <3>3. CASE U = {}
      <4>1. T = {n + 1}
        BY <3>3, <2>1
      <4>2. f[n+1] \in Nat
        BY <4>1, <1>0
      <4>3. QED
        BY <4>1, <4>2
    <3>4. CASE U # {}
      <4>1. PICK u \in U : \A w \in U : f[w] <= f[u]
        BY <3>2, <3>4
      <4>2. CASE n + 1 \in T /\ f[n+1] > f[u]
        <5>1. ASSUME NEW w \in T PROVE f[w] <= f[n+1]
          <6>1. f[u] \in Nat /\ f[n+1] \in Nat /\ f[w] \in Nat
            BY <4>2, <1>0
          <6>2. w = n + 1 \/ w \in U
            OBVIOUS
          <6>3. QED
            BY <6>1, <6>2, <4>1, <4>2
        <5>2. QED
          BY <5>1, <4>2
      <4>3. CASE ~(n + 1 \in T /\ f[n+1] > f[u])
        <5>1. ASSUME NEW w \in T PROVE f[w] <= f[u]
          <6>1. f[u] \in Nat /\ f[w] \in Nat
            BY <1>0
          <6>2. w = n + 1 \/ w \in U
            OBVIOUS
          <6>3. QED
            BY <6>1, <6>2, <4>1, <4>3
        <5>2. u \in T
          OBVIOUS
        <5>3. QED
          BY <5>1, <5>2
      <4>4. QED
        BY <4>2, <4>3
    <3>5. QED
      BY <3>3, <3>4
  <2>2. QED
    BY <2>1
<1>3. M + 1 \in P
  <2>1. M + 1 \in Nat
    BY MAssumption
  <2> HIDE DEF P
  <2>2. QED
    BY <2>1, <1>1, <1>2, Induction
<1>4. QED
  BY <1>3 DEF Node

\* The state of the loop.
Searching == [caps : [Node -> Nat], preds : [Node -> Node \cup {NoPred}],
              visited : SUBSET Node, current : Node]

\* What the path through the current node offers to v.
Width(g, s, v) == IF s.caps[s.current] < g[s.current][v] THEN s.caps[s.current] ELSE g[s.current][v]

\* What one round does.
LEMMA RoundOfSearch ==
  ASSUME NEW g \in Frequencies(Node), NEW s \in Searching
  PROVE  /\ SearchRound(g, s) \in Searching
         /\ SearchRound(g, s).visited = s.visited \cup {s.current}
         /\ \A v \in Node :
              IF Width(g, s, v) > s.caps[v]
              THEN SearchRound(g, s).caps[v] = Width(g, s, v) /\ SearchRound(g, s).preds[v] = s.current
              ELSE SearchRound(g, s).caps[v] = s.caps[v] /\ SearchRound(g, s).preds[v] = s.preds[v]
         /\ SearchRound(g, s).visited # Node =>
              /\ SearchRound(g, s).current \notin SearchRound(g, s).visited
              /\ \A w \in Node \ SearchRound(g, s).visited :
                   Rank(w, SearchRound(g, s).caps) <= Rank(SearchRound(g, s).current, SearchRound(g, s).caps)
<1> DEFINE caps == [v \in Node |-> IF Width(g, s, v) > s.caps[v] THEN Width(g, s, v) ELSE s.caps[v]]
           preds == [v \in Node |-> IF Width(g, s, v) > s.caps[v] THEN s.current ELSE s.preds[v]]
           visited == s.visited \cup {s.current}
           Best(u) == \A w \in Node \ visited : Rank(w, caps) <= Rank(u, caps)
           next == IF visited = Node THEN s.current ELSE CHOOSE u \in Node \ visited : Best(u)
           r == [caps |-> caps, preds |-> preds, visited |-> visited, current |-> next]
<1>1. SearchRound(g, s) = r
  BY DEF SearchRound, Width
<1>2. /\ s.caps \in [Node -> Nat] /\ s.preds \in [Node -> Node \cup {NoPred}]
      /\ s.visited \subseteq Node /\ s.current \in Node
  BY DEF Searching
<1>3. ASSUME NEW v \in Node PROVE Width(g, s, v) \in Nat
  BY <1>2 DEF Width, Frequencies
<1>4. caps \in [Node -> Nat] /\ preds \in [Node -> Node \cup {NoPred}] /\ visited \subseteq Node
  BY <1>2, <1>3
<1>5. next \in Node /\ (visited # Node => next \notin visited /\ Best(next))
  <2>1. CASE visited = Node
    BY <1>2, <2>1
  <2>2. CASE visited # Node
    <3> DEFINE rank == [u \in Node |-> Rank(u, caps)]
    <3> HIDE DEF caps, preds, visited
    <3>1. rank \in [Node -> Nat]
      <4>1. ASSUME NEW u \in Node PROVE Dim * caps[u] + u \in Nat
        <5>1. u \in Nat /\ Dim \in Nat /\ caps[u] \in Nat
          BY <1>4, MAssumption DEF Node, Dim
        <5>2. QED
          BY <5>1
      <4>2. QED
        BY <4>1 DEF Rank
    <3>2. Node \ visited # {}
      BY <2>2, <1>4
    <3>3. \E u \in Node \ visited : \A w \in Node \ visited : rank[w] <= rank[u]
      <4> HIDE DEF rank
      <4>1. QED
        BY <3>1, <3>2, HighestRank
    <3>4. \E u \in Node \ visited : Best(u)
      BY <3>3
    <3> HIDE DEF Best
    <3>5. next = CHOOSE u \in Node \ visited : Best(u)
      BY <2>2
    <3>6. QED
      BY <3>4, <3>5
  <2>3. QED
    BY <2>1, <2>2
<1>6. /\ r.caps = caps /\ r.preds = preds /\ r.visited = visited /\ r.current = next
  OBVIOUS
<1>7. ASSUME NEW v \in Node
      PROVE  IF Width(g, s, v) > s.caps[v] THEN caps[v] = Width(g, s, v) /\ preds[v] = s.current
                                           ELSE caps[v] = s.caps[v] /\ preds[v] = s.preds[v]
  OBVIOUS
<1>8. r \in Searching
  <2> HIDE DEF caps, preds, visited, next
  <2>1. QED
    BY <1>4, <1>5 DEF Searching
<1>9. visited = s.visited \cup {s.current}
  OBVIOUS
<1> HIDE DEF r, caps, preds, next, visited
<1>10. QED
  BY <1>1, <1>5, <1>6, <1>7, <1>8, <1>9

\* The invariant of the loop.  Visited nodes are at least as wide as the others
\* and final, all paths through them have been offered, and a node as wide as t
\* has a predecessor as wide, through an arc of frequency t.
AtLeast(g, t) == {p \in Node \X Node : g[p[1]][p[2]] >= t}

PredArcs(s) == {p \in Node \X s.visited : s.preds[p[2]] = p[1]}

WidestFirst(s) ==
  \A w \in Node \ s.visited :
    /\ s.caps[w] <= s.caps[s.current]
    /\ \A v \in s.visited : s.caps[w] <= s.caps[v]

Offered(g, s) ==
  \A v \in s.visited, w \in Node : s.caps[v] <= s.caps[w] \/ g[v][w] <= s.caps[w]

PredsAreWide(g, source, s) ==
  \A v \in Node :
    /\ s.preds[v] # NoPred =>
         /\ s.preds[v] \in s.visited
         /\ s.caps[v] > 0 /\ s.caps[v] <= s.caps[s.preds[v]] /\ s.caps[v] <= g[s.preds[v]][v]
    /\ s.caps[v] > 0 /\ v # source => s.preds[v] # NoPred

PathsAreFound(g, source, s) ==
  \A t \in Nat \ {0}, v \in s.visited :
    s.caps[v] >= t => v \in LeadsTo(AtLeast(g, t) \cap PredArcs(s), source)

SearchInv(g, source, infinity, s) ==
  /\ s \in Searching
  /\ s.visited # Node => s.current \notin s.visited
  /\ WidestFirst(s)
  /\ Offered(g, s)
  /\ s.caps[source] >= infinity
  /\ PredsAreWide(g, source, s)
  /\ PathsAreFound(g, source, s)

\* A node of higher rank is at least as wide.
LEMMA RankIsWidth ==
  ASSUME NEW caps \in [Node -> Nat], NEW u \in Node, NEW w \in Node, Rank(w, caps) <= Rank(u, caps)
  PROVE  caps[w] <= caps[u]
<1>1. u \in 0 .. Dim-1 /\ w \in 0 .. Dim-1 /\ Dim \in Nat \ {0}
  BY MAssumption DEF Node, Dim
<1>2. caps[u] \in Nat /\ caps[w] \in Nat
  OBVIOUS
<1>3. ASSUME NEW a \in Nat, NEW b \in Nat, a >= b + 1 PROVE Dim * a >= Dim * b + Dim
  <2>1. PICK c \in Nat : a = b + 1 + c
    <3>1. a - b - 1 \in Nat /\ a = b + 1 + (a - b - 1)
      BY <1>3
    <3>2. QED
      BY <3>1
  <2>2. Dim * a = Dim * b + Dim + Dim * c
    BY <2>1, <1>1
  <2>3. Dim * c \in Nat /\ Dim * b \in Nat
    BY <1>1
  <2>4. QED
    BY <2>2, <2>3, <1>1
<1>4. CASE caps[w] > caps[u]
  <2>1. Dim * caps[w] >= Dim * caps[u] + Dim
    BY <1>2, <1>3, <1>4
  <2>2. Dim * caps[w] \in Nat /\ Dim * caps[u] \in Nat
    BY <1>1, <1>2
  <2>3. Dim * caps[w] + w <= Dim * caps[u] + u
    BY DEF Rank
  <2>4. QED
    BY <2>1, <2>2, <2>3, <1>1
<1>5. QED
  BY <1>2, <1>4

\* A round keeps it.
LEMMA RoundKeeps ==
  ASSUME NEW g \in Frequencies(Node), NEW source \in Node, NEW infinity \in Nat, NEW s,
         SearchInv(g, source, infinity, s), s.visited # Node
  PROVE  SearchInv(g, source, infinity, SearchRound(g, s))
<1> DEFINE r == SearchRound(g, s)
           c == s.current
<1>0. /\ s \in Searching /\ c \notin s.visited /\ WidestFirst(s) /\ Offered(g, s)
      /\ s.caps[source] >= infinity /\ PredsAreWide(g, source, s) /\ PathsAreFound(g, source, s)
  BY DEF SearchInv
<1>1. /\ s.caps \in [Node -> Nat] /\ s.preds \in [Node -> Node \cup {NoPred}]
      /\ s.visited \subseteq Node /\ c \in Node
  BY <1>0 DEF Searching
<1>2. /\ r \in Searching /\ r.visited = s.visited \cup {c}
      /\ \A v \in Node :
           IF Width(g, s, v) > s.caps[v] THEN r.caps[v] = Width(g, s, v) /\ r.preds[v] = c
                                         ELSE r.caps[v] = s.caps[v] /\ r.preds[v] = s.preds[v]
      /\ r.visited # Node =>
           /\ r.current \notin r.visited
           /\ \A w \in Node \ r.visited : Rank(w, r.caps) <= Rank(r.current, r.caps)
  BY <1>0, RoundOfSearch
<1> HIDE DEF r
<1>3. /\ r.caps \in [Node -> Nat] /\ r.preds \in [Node -> Node \cup {NoPred}]
      /\ r.visited \subseteq Node /\ r.current \in Node
  BY <1>2 DEF Searching
<1>4. ASSUME NEW v \in Node
      PROVE  /\ Width(g, s, v) \in Nat /\ g[c][v] \in Nat /\ s.caps[v] \in Nat /\ r.caps[v] \in Nat
             /\ Width(g, s, v) <= s.caps[c] /\ Width(g, s, v) <= g[c][v]
             /\ Width(g, s, v) = s.caps[c] \/ Width(g, s, v) = g[c][v]
  BY <1>1, <1>3 DEF Width, Frequencies
<1>5. ASSUME NEW v \in Node
      PROVE  /\ s.caps[v] <= r.caps[v] /\ Width(g, s, v) <= r.caps[v]
             /\ r.caps[v] = s.caps[v] \/ r.caps[v] = Width(g, s, v)
  BY <1>2, <1>4
<1>6. ASSUME NEW v \in s.visited \cup {c} PROVE r.caps[v] = s.caps[v] /\ r.preds[v] = s.preds[v]
  <2>1. v \in Node /\ s.caps[c] <= s.caps[v]
    BY <1>0, <1>1 DEF WidestFirst
  <2>2. ~(Width(g, s, v) > s.caps[v])
    BY <2>1, <1>1, <1>4
  <2>3. QED
    BY <2>1, <2>2, <1>2
<1>7. WidestFirst(r)
  <2>1. ASSUME NEW w \in Node \ r.visited PROVE r.caps[w] <= r.caps[r.current]
    BY <1>2, <1>3, RankIsWidth
  <2>2. ASSUME NEW w \in Node \ r.visited, NEW v \in r.visited PROVE r.caps[w] <= r.caps[v]
    <3>1. w \in Node \ s.visited /\ v \in s.visited \cup {c}
      BY <1>2
    <3>2. s.caps[w] <= s.caps[c] /\ s.caps[w] <= s.caps[v] /\ s.caps[c] <= s.caps[v]
      BY <3>1, <1>0, <1>1 DEF WidestFirst
    <3>3. r.caps[v] = s.caps[v] /\ v \in Node
      BY <3>1, <1>1, <1>6
    <3>4. r.caps[w] <= s.caps[c]
      BY <3>2, <1>1, <1>4, <1>5
    <3>5. QED
      BY <3>2, <3>3, <3>4, <1>1, <1>3
  <2>3. QED
    BY <2>1, <2>2 DEF WidestFirst
<1>8. Offered(g, r)
  <2>1. ASSUME NEW v \in r.visited, NEW w \in Node PROVE r.caps[v] <= r.caps[w] \/ g[v][w] <= r.caps[w]
    <3>0. v \in Node /\ r.caps[v] = s.caps[v] /\ g[v][w] \in Nat
      BY <1>1, <1>2, <1>6 DEF Frequencies
    <3>1. CASE v \in s.visited
      <4>1. s.caps[v] <= s.caps[w] \/ g[v][w] <= s.caps[w]
        BY <3>1, <1>0 DEF Offered
      <4>2. QED
        BY <4>1, <3>0, <1>4, <1>5
    <3>2. CASE v = c
      BY <3>0, <3>2, <1>4, <1>5
    <3>3. QED
      BY <3>1, <3>2, <1>2
  <2>2. QED
    BY <2>1 DEF Offered
<1>9. r.caps[source] >= infinity
  BY <1>0, <1>4, <1>5
<1>10. PredsAreWide(g, source, r)
  <2>1. ASSUME NEW v \in Node, r.preds[v] # NoPred
        PROVE  /\ r.preds[v] \in r.visited
               /\ r.caps[v] > 0 /\ r.caps[v] <= r.caps[r.preds[v]] /\ r.caps[v] <= g[r.preds[v]][v]
    <3>1. CASE Width(g, s, v) > s.caps[v]
      <4>1. r.preds[v] = c /\ r.caps[v] = Width(g, s, v) /\ r.caps[c] = s.caps[c]
        BY <3>1, <1>2, <1>6
      <4>2. QED
        BY <4>1, <3>1, <1>2, <1>4
    <3>2. CASE ~(Width(g, s, v) > s.caps[v])
      <4>1. r.preds[v] = s.preds[v] /\ r.caps[v] = s.caps[v]
        BY <3>2, <1>2
      <4> DEFINE p == s.preds[v]
      <4>2. /\ p \in s.visited /\ s.caps[v] > 0 /\ s.caps[v] <= s.caps[p] /\ s.caps[v] <= g[p][v]
        BY <4>1, <2>1, <1>0 DEF PredsAreWide
      <4>3. r.caps[p] = s.caps[p]
        BY <4>2, <1>6
      <4>4. QED
        BY <4>1, <4>2, <4>3, <1>2
    <3>3. QED
      BY <3>1, <3>2
  <2>2. ASSUME NEW v \in Node, r.caps[v] > 0, v # source PROVE r.preds[v] # NoPred
    <3>1. CASE Width(g, s, v) > s.caps[v]
      <4>1. r.preds[v] = c /\ c # NoPred
        BY <3>1, <1>1, <1>2, MAssumption DEF Node, NoPred, Dim
      <4>2. QED
        BY <4>1
    <3>2. CASE ~(Width(g, s, v) > s.caps[v])
      BY <3>2, <2>2, <1>0, <1>2 DEF PredsAreWide
    <3>3. QED
      BY <3>1, <3>2
  <2>3. QED
    BY <2>1, <2>2 DEF PredsAreWide
<1>11. PathsAreFound(g, source, r)
  <2> SUFFICES ASSUME NEW t \in Nat \ {0}, NEW v \in r.visited, r.caps[v] >= t
               PROVE  v \in LeadsTo(AtLeast(g, t) \cap PredArcs(r), source)
    BY DEF PathsAreFound
  <2> DEFINE R == AtLeast(g, t) \cap PredArcs(s)
             S == AtLeast(g, t) \cap PredArcs(r)
  <2>1. v \in Node /\ r.caps[v] = s.caps[v] /\ s.caps[v] \in Nat
    BY <1>1, <1>2, <1>6
  <2>2. PredArcs(s) \subseteq PredArcs(r)
    BY <1>2, <1>6 DEF PredArcs
  <2>3. LeadsTo(R, source) \subseteq LeadsTo(S, source)
    BY <2>2, LeadsFurther
  <2>4. ASSUME NEW x \in s.visited, s.caps[x] >= t PROVE x \in LeadsTo(S, source)
    BY <2>3, <2>4, <1>0 DEF PathsAreFound
  <2>5. CASE v \in s.visited
    BY <2>1, <2>4, <2>5
  <2>6. CASE v = c /\ v = source
    BY <2>6, LeadsToIsClosure
  <2>7. CASE v = c /\ v # source
    <3> DEFINE p == s.preds[v]
    <3>1. p # NoPred
      BY <2>1, <2>7, <1>0 DEF PredsAreWide
    <3>2. p \in s.visited /\ s.caps[v] <= s.caps[p] /\ s.caps[v] <= g[p][v]
      BY <3>1, <2>1, <1>0 DEF PredsAreWide
    <3> HIDE DEF p
    <3>3. p \in Node /\ s.caps[p] \in Nat /\ g[p][v] \in Nat
      BY <3>2, <2>1, <1>1 DEF Frequencies
    <3>4. s.caps[p] >= t /\ g[p][v] >= t
      BY <3>2, <3>3, <2>1
    <3>5. p \in LeadsTo(S, source)
      BY <3>2, <3>4, <2>4
    <3>6. <<p,v>> \in AtLeast(g, t)
      BY <3>3, <3>4, <2>1 DEF AtLeast
    <3>7. <<p,v>> \in PredArcs(r)
      BY <3>3, <1>2, <1>6, <2>7 DEF PredArcs, p
    <3> HIDE DEF R
    <3>8. <<p,v>> \in S
      BY <3>6, <3>7
    <3> HIDE DEF S
    <3>9. ClosedUnder(LeadsTo(S, source), S)
      BY LeadsToIsClosure
    <3>10. v \in LeadsTo(S, source)
      BY <3>5, <3>8, <3>9, <2>1 DEF ClosedUnder
    <3>11. QED
      BY <3>10 DEF S
  <2>8. QED
    BY <2>5, <2>6, <2>7, <1>2
<1>12. QED
  <2>1. r.visited # Node => r.current \notin r.visited
    BY <1>2
  <2>2. r \in Searching
    BY <1>2
  <2>3. SearchInv(g, source, infinity, r)
    BY <2>1, <2>2, <1>7, <1>8, <1>9, <1>10, <1>11 DEF SearchInv
  <2>4. QED
    BY <2>3 DEF r

\* The invariant holds before the first round.
LEMMA SearchBegins ==
  ASSUME NEW g \in Frequencies(Node), NEW source \in Node, NEW infinity \in Nat
  PROVE  SearchInv(g, source, infinity,
                   [caps    |-> [v \in Node |-> IF v = source THEN infinity ELSE 0],
                    preds   |-> [v \in Node |-> NoPred],
                    visited |-> {},
                    current |-> source])
<1> DEFINE caps == [v \in Node |-> IF v = source THEN infinity ELSE 0]
           preds == [v \in Node |-> NoPred]
           s == [caps |-> caps, preds |-> preds, visited |-> {}, current |-> source]
<1>1. caps \in [Node -> Nat] /\ preds \in [Node -> Node \cup {NoPred}]
  OBVIOUS
<1>2. \A v \in Node : caps[v] = (IF v = source THEN infinity ELSE 0) /\ preds[v] = NoPred
  OBVIOUS
<1> HIDE DEF caps, preds
<1>3. s.caps = caps /\ s.preds = preds /\ s.visited = {} /\ s.current = source /\ s \in Searching
  BY <1>1 DEF Searching
<1> HIDE DEF s
<1>4. WidestFirst(s)
  BY <1>2, <1>3 DEF WidestFirst
<1>5. Offered(g, s) /\ PathsAreFound(g, source, s)
  BY <1>3 DEF Offered, PathsAreFound
<1>6. PredsAreWide(g, source, s)
  BY <1>2, <1>3 DEF PredsAreWide
<1>7. s.caps[source] >= infinity
  BY <1>2, <1>3
<1>8. s.current \notin s.visited
  BY <1>3
<1>9. SearchInv(g, source, infinity, s)
  BY <1>3, <1>4, <1>5, <1>6, <1>7, <1>8 DEF SearchInv
<1>10. QED
  BY <1>9 DEF s, caps, preds

\* After k rounds k nodes are visited.
LEMMA SearchEnds ==
  ASSUME NEW g \in Frequencies(Node), NEW source \in Node, NEW infinity \in Nat
  PROVE  \E s \in Searching :
           /\ SearchInv(g, source, infinity, s) /\ s.visited = Node
           /\ find_best_incoming_edges(g, source, infinity) = s.preds
<1> DEFINE first == [caps    |-> [v \in Node |-> IF v = source THEN infinity ELSE 0],
                     preds   |-> [v \in Node |-> NoPred],
                     visited |-> {},
                     current |-> source]
           run[i \in 0 .. Dim] == IF i = 0 THEN first ELSE SearchRound(g, run[i-1])
           F == [p \in Nat \X Searching |-> SearchRound(g, p[2])]
<1>1. Dim \in Nat
  BY MAssumption DEF Dim
<1>2. SearchInv(g, source, infinity, first) /\ first \in Searching /\ first.visited = {}
  <2>1. SearchInv(g, source, infinity, first)
    BY SearchBegins
  <2>2. first.visited = {}
    OBVIOUS
  <2> HIDE DEF first
  <2>3. QED
    BY <2>1, <2>2 DEF SearchInv
<1>3. F \in [Nat \X Searching -> Searching]
  BY RoundOfSearch
<1>4. find_best_incoming_edges(g, source, infinity) = run[Dim].preds
  BY DEF find_best_incoming_edges
<1> HIDE DEF first
<1>5. PICK f \in [0 .. Dim -> Searching] : f[0] = first /\ \A k \in 1 .. Dim : f[k] = F[<<k,f[k-1]>>]
  <2>1. first \in Searching
    BY <1>2
  <2> HIDE DEF F, run
  <2>2. Runs(Searching, F, first, Dim) # {}
    BY <1>1, <2>1, <1>3, LoopRuns
  <2>3. QED
    BY <2>2 DEF Runs
<1>6. ASSUME NEW k \in 0 .. Dim PROVE f[k] = IF k = 0 THEN first ELSE SearchRound(g, f[k-1])
  <2>1. CASE k = 0
    BY <2>1, <1>5
  <2>2. CASE k # 0
    <3>1. k - 1 \in 0 .. Dim /\ k \in Nat /\ k \in 1 .. Dim
      BY <2>2, <1>1
    <3>2. f[k-1] \in Searching
      BY <3>1
    <3>3. F[<<k,f[k-1]>>] = SearchRound(g, f[k-1])
      BY <3>1, <3>2
    <3> HIDE DEF F
    <3>4. QED
      BY <2>2, <3>1, <3>3, <1>5
  <2>3. QED
    BY <2>1, <2>2
<1>7. f = [k \in 0 .. Dim |-> IF k = 0 THEN first ELSE SearchRound(g, f[k-1])]
  <2> HIDE DEF F
  <2>1. QED
    BY <1>6
<1> HIDE DEF F
<1>8. run = [i \in 0 .. Dim |-> IF i = 0 THEN first ELSE SearchRound(g, run[i-1])]
  BY <1>7, Zenon
<1> HIDE DEF run
<1> DEFINE P == {k \in Nat : k <= Dim => /\ SearchInv(g, source, infinity, run[k])
                                         /\ IsFiniteSet(run[k].visited)
                                         /\ Cardinality(run[k].visited) = k}
<1>9. 0 \in P
  <2>1. run[0] = first
    BY <1>1, <1>8
  <2>2. QED
    BY <2>1, <1>2, FS_EmptySet
<1>10. ASSUME NEW k \in Nat, k \in P PROVE k + 1 \in P
  <2> SUFFICES ASSUME k + 1 <= Dim
               PROVE  /\ SearchInv(g, source, infinity, run[k+1])
                      /\ IsFiniteSet(run[k+1].visited)
                      /\ Cardinality(run[k+1].visited) = k + 1
    OBVIOUS
  <2> DEFINE s == run[k]
  <2>1. /\ SearchInv(g, source, infinity, s) /\ IsFiniteSet(s.visited) /\ Cardinality(s.visited) = k
    BY <1>1, <1>10
  <2>2. run[k+1] = SearchRound(g, s)
    <3>1. k + 1 \in 0 .. Dim /\ k + 1 # 0 /\ (k + 1) - 1 = k
      BY <1>1
    <3>2. QED
      BY <3>1, <1>8
  <2> HIDE DEF s
  <2>3. s.visited # Node
    BY <2>1, <1>1, NodesFinite
  <2>4. s \in Searching /\ s.current \notin s.visited
    BY <2>1, <2>3 DEF SearchInv
  <2>5. SearchRound(g, s).visited = s.visited \cup {s.current}
    BY <2>4, RoundOfSearch
  <2>6. IsFiniteSet(s.visited \cup {s.current}) /\ Cardinality(s.visited \cup {s.current}) = k + 1
    BY <2>1, <2>4, FS_AddElement
  <2>7. SearchInv(g, source, infinity, SearchRound(g, s))
    BY <2>1, <2>3, RoundKeeps
  <2>8. QED
    BY <2>2, <2>5, <2>6, <2>7
<1>11. Dim \in P
  <2> HIDE DEF P
  <2>1. QED
    BY <1>1, <1>9, <1>10, Induction
<1>12. SearchInv(g, source, infinity, run[Dim]) /\ Cardinality(run[Dim].visited) = Dim
  BY <1>1, <1>11
<1>13. run[Dim] \in Searching /\ run[Dim].visited = Node
  <2>1. run[Dim] \in Searching
    BY <1>12 DEF SearchInv
  <2>2. run[Dim].visited \subseteq Node
    BY <2>1 DEF Searching
  <2>3. QED
    BY <2>1, <2>2, <1>12, NodesFinite, FS_Subset
<1>14. QED
  BY <1>4, <1>12, <1>13

\* The arcs from the predecessors are arcs of the graph, and as wide a way to
\* every node as the graph has, up to the capacity of the source.
LEMMA BestEdgesKeepWidths ==
  ASSUME NEW g \in Frequencies(Node), NEW source \in Node, NEW infinity \in Nat
  PROVE  LET best == find_best_incoming_edges(g, source, infinity)
             A == {p \in Node \X Node : best[p[2]] = p[1]}
         IN  /\ best \in [Node -> Node \cup {NoPred}]
             /\ A \subseteq AtLeast(g, 1)
             /\ \A t \in 1 .. infinity :
                  LeadsTo(AtLeast(g, t), source) = LeadsTo(AtLeast(g, t) \cap A, source)
<1> DEFINE best == find_best_incoming_edges(g, source, infinity)
           A == {p \in Node \X Node : best[p[2]] = p[1]}
<1>1. PICK s \in Searching : /\ SearchInv(g, source, infinity, s) /\ s.visited = Node /\ best = s.preds
  BY SearchEnds
<1> HIDE DEF best
<1>2. /\ s.caps \in [Node -> Nat] /\ s.preds \in [Node -> Node \cup {NoPred}]
  BY DEF Searching
<1>3. /\ Offered(g, s) /\ s.caps[source] >= infinity /\ PredsAreWide(g, source, s)
      /\ PathsAreFound(g, source, s)
  BY <1>1 DEF SearchInv
<1>4. PredArcs(s) = A
  BY <1>1 DEF PredArcs
<1>5. A \subseteq AtLeast(g, 1)
  <2>1. ASSUME NEW u \in Node, NEW v \in Node, best[v] = u PROVE g[u][v] >= 1
    <3>1. s.preds[v] = u /\ u # NoPred
      BY <2>1, <1>1, MAssumption DEF Node, NoPred, Dim
    <3>2. s.caps[v] > 0 /\ s.caps[v] <= g[u][v]
      BY <3>1, <1>3 DEF PredsAreWide
    <3>3. s.caps[v] \in Nat /\ g[u][v] \in Nat
      BY <1>2 DEF Frequencies
    <3>4. QED
      BY <3>2, <3>3
  <2>2. QED
    BY <2>1 DEF AtLeast
<1>6. ASSUME NEW t \in 1 .. infinity
      PROVE  LeadsTo(AtLeast(g, t), source) = LeadsTo(AtLeast(g, t) \cap A, source)
  <2> DEFINE wide == {v \in Node : s.caps[v] >= t}
  <2>1. source \in wide
    BY <1>2, <1>3
  <2>2. ClosedUnder(wide, AtLeast(g, t))
    <3>1. ASSUME NEW w \in wide, NEW v \in Node, <<w,v>> \in AtLeast(g, t) PROVE s.caps[v] >= t
      <4>1. w \in Node /\ s.caps[w] >= t /\ g[w][v] >= t
        BY <3>1 DEF AtLeast
      <4>2. s.caps[w] <= s.caps[v] \/ g[w][v] <= s.caps[v]
        BY <4>1, <1>1, <1>3 DEF Offered
      <4>3. s.caps[w] \in Nat /\ s.caps[v] \in Nat /\ g[w][v] \in Nat
        BY <4>1, <1>2 DEF Frequencies
      <4>4. QED
        BY <4>1, <4>2, <4>3
    <3>2. QED
      BY <3>1 DEF ClosedUnder
  <2>3. LeadsTo(AtLeast(g, t), source) \subseteq wide
    BY <2>1, <2>2, LeadsToIsClosure
  <2>4. wide \subseteq LeadsTo(AtLeast(g, t) \cap A, source)
    BY <1>1, <1>3, <1>4 DEF PathsAreFound
  <2>5. LeadsTo(AtLeast(g, t) \cap A, source) \subseteq LeadsTo(AtLeast(g, t), source)
    BY LeadsFurther
  <2>6. QED
    BY <2>3, <2>4, <2>5
<1>7. best \in [Node -> Node \cup {NoPred}]
  BY <1>1, <1>2
<1>8. QED
  BY <1>5, <1>6, <1>7 DEF best

\* The arcs that the demultiplexed edges are.
LEMMA ArcsOfBest ==
  ASSUME NEW best \in [Node -> Node \cup {NoPred}]
  PROVE  /\ IncomingArcs(best) = {p \in Node \X Node : best[p[2]] = p[1]}
         /\ OutgoingArcs(best) = {p \in Node \X Node : best[p[1]] = p[2]}
<1>1. Dim \in Nat /\ NoPred = Dim /\ \A u : u \in Node <=> u \in 0 .. Dim-1
  BY MAssumption DEF Node, Dim, NoPred
<1>2. ASSUME NEW v \in Node PROVE BestOf(best, v) = {u \in Node : best[v] = u}
  <2>1. best[v] \in Nat /\ (best[v] < Dim) \in BOOLEAN /\ (best[v] < Dim <=> best[v] \in Node)
    BY <1>1
  <2>2. Demux(best[v], Dim, best[v] < Dim) = IF best[v] < Dim THEN {best[v]} ELSE {}
    BY <2>1, <1>1, DemuxIsUnit
  <2>3. QED
    BY <2>1, <2>2 DEF BestOf
<1>3. QED
  BY <1>2 DEF IncomingArcs, OutgoingArcs

(***************************************************************************)
(* The eta-percentile                                                      *)
(***************************************************************************)
\* A row of frequencies has a maximum, which is a frequency.
LEMMA MaximumOfRow ==
  ASSUME NEW f \in [Node -> Nat]
  PROVE  Maximum({f[v] : v \in Node}) \in Nat
<1>1. Node # {}
  BY ActivitiesFinite
<1>2. PICK u \in Node : \A w \in Node : f[w] <= f[u]
  BY <1>1, HighestRank
<1> DEFINE S == {f[v] : v \in Node}
<1>3. S \subseteq Nat /\ \E x \in S : \A y \in S : y <= x
  BY <1>2
<1> HIDE DEF S
<1>4. Maximum(S) \in Nat
  BY <1>3 DEF Maximum
<1>5. QED
  BY <1>4 DEF S

\* Larger factors, larger product.
LEMMA ProductsGrow ==
  ASSUME NEW a \in Nat, NEW b \in Nat, NEW c \in Nat, NEW d \in Nat, a <= b, c <= d
  PROVE  a * c \in Nat /\ b * d \in Nat /\ a * c <= b * d
<1>1. PICK e \in Nat : b = a + e
  <2>1. b - a \in Nat /\ b = a + (b - a)
    OBVIOUS
  <2>2. QED
    BY <2>1
<1>2. PICK g \in Nat : d = c + g
  <2>1. d - c \in Nat /\ d = c + (d - c)
    OBVIOUS
  <2>2. QED
    BY <2>1
<1>3. b * d = a * c + (a * g + (e * c + e * g))
  BY <1>1, <1>2
<1>4. a * c \in Nat /\ a * g \in Nat /\ e * c \in Nat /\ e * g \in Nat
  BY <1>1, <1>2
<1>5. QED
  BY <1>3, <1>4

\* A quotient is the greatest number whose multiple is not larger.
LEMMA QuotientBounds ==
  ASSUME NEW x \in Nat, NEW y \in Nat \ {0}, NEW k \in Nat
  PROVE  x \div y \in Nat /\ (k <= x \div y <=> k * y <= x)
<1> DEFINE q == x \div y
           r == x % y
<1>1. q \in Nat /\ r \in 0 .. y - 1 /\ x = y * q + r
  <2>1. q \in Nat
    OBVIOUS
  <2>2. r \in 0 .. y - 1
    OBVIOUS
  <2>3. x - (x % y) = y * (x \div y)
    <3>1. y \in Nat /\ y > 0
      OBVIOUS
    <3>2. QED
      BY ONLY <3>1, x \in Nat
  <2>4. x - r = y * q
    BY <2>3
  <2> HIDE DEF q, r
  <2>5. y * q \in Nat
    BY <2>1
  <2>6. QED
    BY <2>1, <2>2, <2>4, <2>5
<1>2. q \in Nat /\ r \in Nat /\ r < y /\ x = y * q + r
  BY <1>1
<1> HIDE DEF q, r
<1>3. CASE k <= q
  <2>1. PICK m \in Nat : q = k + m
    <3>1. q - k \in Nat /\ q = k + (q - k)
      BY <1>2, <1>3
    <3>2. QED
      BY <3>1
  <2>2. y * q = k * y + y * m /\ y * m \in Nat /\ k * y \in Nat
    BY <2>1
  <2>3. k * y <= x
    BY <1>2, <2>2
  <2>4. QED
    BY <1>2, <1>3, <2>3 DEF q
<1>4. CASE ~(k <= q)
  <2>1. PICK m \in Nat : k = q + 1 + m
    <3>1. k - (q + 1) \in Nat /\ k = q + 1 + (k - (q + 1))
      BY <1>2, <1>4
    <3>2. QED
      BY <3>1
  <2>2. k * y = y * q + y + m * y /\ m * y \in Nat /\ y * q \in Nat
    BY <1>2, <2>1
  <2>3. ~(k * y <= x)
    BY <1>2, <2>2
  <2>4. QED
    BY <1>2, <1>4, <2>3 DEF q
<1>5. QED
  BY <1>3, <1>4

\* The comparison of the eta filter is exact: no rank exceeds the number of slots.
LEMMA ThresholdIsExact ==
  ASSUME NEW e \in [num : Nat, den : Nat \ {0}], NEW d \in 0 .. 2 * Dim, NEW k \in 0 .. 2 * Dim
  PROVE  LessThan(3 * e.den + d * 2 * e.num, 2 * e.den * k,
                  comparison_bit_length(2 * (2 * Dim + 1) * Larger(e.num, e.den) + 3 * e.den))
           <=> 3 * e.den + d * 2 * e.num < 2 * e.den * k
<1> DEFINE L == Larger(e.num, e.den)
           N == 2 * (2 * Dim + 1)
           x == 3 * e.den + d * 2 * e.num
           y == 2 * e.den * k
           bound == N * L + 3 * e.den
           bits == comparison_bit_length(N * L + 3 * e.den)
           den == e.den
           num == e.num
           c == d * 2
           m == 2 * k
<1>1. Dim \in Nat /\ den \in Nat /\ num \in Nat /\ L \in Nat /\ num <= L /\ den <= L
  BY MAssumption DEF Dim, Larger
<1>2. N \in Nat /\ c \in Nat /\ c <= N /\ m \in Nat /\ m <= N
  BY <1>1
<1> HIDE DEF L, N, c, m, den, num
<1>3. c * num \in Nat /\ N * L \in Nat /\ c * num <= N * L
  BY ONLY <1>1, <1>2, ProductsGrow
<1>4. m * den \in Nat /\ m * den <= N * L
  BY ONLY <1>1, <1>2, ProductsGrow
<1>5. x = 3 * den + c * num /\ y = m * den
  <2>1. x = 3 * den + c * num
    BY DEF c, den, num
  <2>2. 2 * e.den * k = (2 * k) * e.den
    <3>1. e.den \in Int /\ k \in Int
      OBVIOUS
    <3>2. QED
      BY <3>1
  <2>3. QED
    BY <2>1, <2>2 DEF m, den
<1>6. bound = N * L + 3 * den
  BY DEF den
<1> DEFINE p == c * num
           q == m * den
           s == N * L
<1> HIDE DEF x, y, bound
<1>7. x \in Nat /\ y \in Nat /\ bound \in Nat /\ x <= bound /\ y <= bound
  <2>1. p \in Nat /\ q \in Nat /\ s \in Nat /\ p <= s /\ q <= s /\ x = 3 * den + p /\ y = q /\ bound = s + 3 * den
    BY <1>3, <1>4, <1>5, <1>6
  <2> HIDE DEF p, q, s
  <2>2. QED
    BY <1>1, <2>1
<1>8. bits = comparison_bit_length(bound)
  BY DEF bound
<1> HIDE DEF bits
<1>9. bits \in Nat \ {0} /\ bound < 2^(bits - 1) /\ 2^(bits-1) \in Nat
  <2>1. bits \in Nat \ {0} /\ bound < 2^(bits - 1)
    BY <1>7, <1>8, ComparisonBits
  <2>2. bits - 1 \in Nat
    BY <2>1
  <2>3. QED
    BY <2>1, <2>2, PowerIsNatural
<1>10. x - y < 2^(bits-1) /\ y - x <= 2^(bits-1)
  <2> DEFINE h == 2^(bits-1)
  <2>1. h \in Nat /\ bound < h
    BY <1>9
  <2> HIDE DEF h
  <2>2. x - y < h /\ y - x <= h
    BY <1>7, <2>1
  <2>3. QED
    BY <2>2 DEF h
<1>11. LessThan(x, y, bits) <=> x < y
  BY <1>7, <1>9, <1>10, LessThanIsRight
<1>12. QED
  BY <1>11 DEF x, y, bits, N, L

\* Values in ascending order from zero, and what is positive of them.
Ascending(v, n) ==
  /\ v[1] = 0 /\ \A i \in 1 .. n + 1 : v[i] \in Nat
  /\ \A i, j \in 1 .. n + 1 : i <= j => v[i] <= v[j]
Positives(v, n) == {v[i] : i \in 1 .. n + 1} \ {0}

\* The steps up to a place are as many as the positive values up to the one it leads to.
LEMMA StepsAreRanks ==
  ASSUME NEW n \in Nat, NEW v, Ascending(v, n), NEW i \in 1 .. n
  PROVE  Cardinality({j \in 1 .. i : v[j+1] - v[j] > 0}) = Cardinality({x \in Positives(v, n) : x <= v[i+1]})
<1> DEFINE A == {j \in 1 .. i : v[j+1] - v[j] > 0}
           B == {x \in Positives(v, n) : x <= v[i+1]}
           f == [j \in A |-> v[j+1]]
<1>1. /\ v[1] = 0 /\ \A k \in 1 .. n + 1 : v[k] \in Nat
      /\ \A k, j \in 1 .. n + 1 : k <= j => v[k] <= v[j]
  BY DEF Ascending
<1>2. ASSUME NEW j \in A PROVE j \in 1 .. n /\ j + 1 \in 1 .. n + 1 /\ j <= i /\ v[j] < v[j+1] /\ v[j+1] <= v[i+1] /\ v[j+1] # 0
  <2>1. j \in 1 .. i /\ v[j+1] - v[j] > 0
    OBVIOUS
  <2>2. j \in 1 .. n /\ j \in 1 .. n + 1 /\ j + 1 \in 1 .. n + 1 /\ i + 1 \in 1 .. n + 1 /\ j + 1 <= i + 1 /\ j <= i
    BY <2>1
  <2>3. v[j] \in Nat /\ v[j+1] \in Nat /\ v[j+1] <= v[i+1]
    BY <1>1, <2>2
  <2>4. v[j] < v[j+1] /\ v[j+1] # 0
    BY <2>1, <2>3
  <2>5. QED
    BY <2>2, <2>3, <2>4
<1>3. f \in [A -> B]
  <2>1. \A j \in A : v[j+1] \in B
    BY <1>2 DEF Positives
  <2>2. QED
    BY <2>1
<1>4. \A x \in B : \E j \in A : f[j] = x
  <2> SUFFICES ASSUME NEW x \in B PROVE \E j \in A : v[j+1] = x
    OBVIOUS
  <2> DEFINE S == {k \in 1 .. n + 1 : v[k] = x}
  <2>1. S # {} /\ S \subseteq Nat /\ x # 0 /\ x <= v[i+1]
    BY DEF Positives
  <2>2. PICK k \in S : \A m \in S : k <= m
    <3> HIDE DEF S
    <3>1. QED
      BY <2>1, LeastElement
  <2>3. k \in 1 .. n + 1 /\ v[k] = x /\ k # 1
    BY <1>1, <2>1
  <2>4. k - 1 \in 1 .. n + 1 /\ k - 1 <= k /\ (k - 1) + 1 = k /\ k - 1 \notin S
    BY <2>2, <2>3
  <2>5. v[k-1] \in Nat /\ v[k] \in Nat /\ v[k-1] <= v[k] /\ v[k-1] # x
    BY <1>1, <2>3, <2>4
  <2>6. v[k-1] < x
    BY <2>3, <2>5
  <2>7. k - 1 <= i
    <3> SUFFICES ASSUME ~(k - 1 <= i) PROVE FALSE
      OBVIOUS
    <3>1. i + 1 \in 1 .. n + 1 /\ i + 1 <= k - 1
      BY <2>4
    <3>2. v[i+1] \in Nat /\ v[i+1] <= v[k-1]
      BY <1>1, <2>4, <3>1
    <3>3. QED
      BY <2>1, <2>3, <2>5, <2>6, <3>2
  <2>8. v[(k-1)+1] - v[k-1] > 0
    BY <2>3, <2>4, <2>5, <2>6
  <2>9. k - 1 \in 1 .. i
    BY <2>4, <2>7
  <2>10. k - 1 \in A /\ v[(k-1)+1] = x
    BY <2>3, <2>4, <2>8, <2>9
  <2>11. QED
    BY <2>10
<1>5. \A j, k \in A : f[j] = f[k] => j = k
  <2> SUFFICES ASSUME NEW j \in A, NEW k \in A, v[j+1] = v[k+1] PROVE j = k
    OBVIOUS
  <2>1. /\ j \in 1 .. n /\ j \in 1 .. n + 1 /\ j + 1 \in 1 .. n + 1 /\ v[j] < v[j+1]
        /\ k \in 1 .. n /\ k \in 1 .. n + 1 /\ k + 1 \in 1 .. n + 1 /\ v[k] < v[k+1]
    BY <1>2
  <2> HIDE DEF A
  <2>2. v[j] \in Nat /\ v[k] \in Nat /\ v[j+1] \in Nat /\ v[k+1] \in Nat
    BY <1>1, <2>1
  <2>3. ASSUME j < k PROVE FALSE
    <3>1. j + 1 <= k
      BY <2>1, <2>3
    <3>2. v[j+1] <= v[k]
      BY <1>1, <2>1, <3>1
    <3>3. QED
      BY <2>1, <2>2, <3>2
  <2>4. ASSUME k < j PROVE FALSE
    <3>1. k + 1 <= j
      BY <2>1, <2>4
    <3>2. v[k+1] <= v[j]
      BY <1>1, <2>1, <3>1
    <3>3. QED
      BY <2>1, <2>2, <3>2
  <2>5. QED
    BY <2>1, <2>3, <2>4
<1>6. IsFiniteSet(A)
  <2>1. IsFiniteSet(1 .. i)
    BY FS_Interval
  <2>2. A \subseteq 1 .. i
    OBVIOUS
  <2>3. QED
    BY <2>1, <2>2, FS_Subset
<1> HIDE DEF A, B, f
<1>7. f \in Bijection(A, B)
  BY <1>3, <1>4, <1>5 DEF Bijection, Injection, Surjection, IsInjective
<1>8. Cardinality(A) = Cardinality(B)
  BY <1>6, <1>7, FS_Bijection DEF ExistsBijection
<1>9. QED
  BY <1>8 DEF A, B

\* sum adds up the steps that do not lead beyond the value w.
AddsUp(sum, reached, v, w, n) ==
  /\ \E i \in 1 .. n + 1 : v[i] = w
  /\ \A i \in 1 .. n : i \in reached <=> v[i+1] <= w
  /\ sum[0] = 0
  /\ \A i \in 1 .. n : sum[i] = sum[i-1] + (IF i \in reached THEN v[i+1] - v[i] ELSE 0)

\* They add up to it.
LEMMA StepsAddUp ==
  ASSUME NEW n \in Nat, NEW v, Ascending(v, n), NEW w, NEW reached, NEW sum, AddsUp(sum, reached, v, w, n)
  PROVE  sum[n] = w
<1>1. /\ v[1] = 0 /\ \A k \in 1 .. n + 1 : v[k] \in Nat
      /\ \A k, j \in 1 .. n + 1 : k <= j => v[k] <= v[j]
  BY DEF Ascending
<1>2. PICK m \in 1 .. n + 1 : v[m] = w
  BY DEF AddsUp
<1>3. w \in Nat
  BY <1>1, <1>2
<1>4. /\ sum[0] = 0 /\ \A i \in 1 .. n : i \in reached <=> v[i+1] <= w
      /\ \A i \in 1 .. n : sum[i] = sum[i-1] + (IF i \in reached THEN v[i+1] - v[i] ELSE 0)
  BY DEF AddsUp
<1> DEFINE P == {k \in Nat : k <= n => sum[k] = IF v[k+1] <= w THEN v[k+1] ELSE w}
<1>5. 0 \in P
  BY <1>1, <1>3, <1>4
<1>6. ASSUME NEW k \in Nat, k \in P PROVE k + 1 \in P
  <2> SUFFICES ASSUME k + 1 <= n PROVE sum[k+1] = IF v[k+2] <= w THEN v[k+2] ELSE w
    OBVIOUS
  <2>1. /\ k <= n /\ k + 1 \in 1 .. n /\ (k + 1) - 1 = k /\ (k + 1) + 1 = k + 2
        /\ k + 1 \in 1 .. n + 1 /\ k + 2 \in 1 .. n + 1 /\ k + 1 <= k + 2
    OBVIOUS
  <2>2. sum[k+1] = sum[k] + (IF k + 1 \in reached THEN v[k+2] - v[k+1] ELSE 0)
    BY <1>4, <2>1
  <2>3. k + 1 \in reached <=> v[k+2] <= w
    BY <1>4, <2>1
  <2>4. sum[k] = IF v[k+1] <= w THEN v[k+1] ELSE w
    BY <1>6, <2>1
  <2>5. v[k+1] \in Nat /\ v[k+2] \in Nat /\ v[k+1] <= v[k+2]
    BY <1>1, <2>1
  <2>6. CASE v[k+2] <= w
    BY <1>3, <2>2, <2>3, <2>4, <2>5, <2>6
  <2>7. CASE ~(v[k+2] <= w)
    <3>1. v[k+1] >= w
      <4>1. m <= k + 1
        <5> SUFFICES ASSUME ~(m <= k + 1) PROVE FALSE
          OBVIOUS
        <5>1. k + 2 <= m
          BY <2>1
        <5>2. v[k+2] <= v[m]
          BY <1>1, <2>1, <5>1
        <5>3. QED
          BY <1>2, <2>7, <5>2
      <4>2. v[m] <= v[k+1]
        BY <1>1, <2>1, <4>1
      <4>3. QED
        BY <1>2, <1>3, <2>5, <4>2
    <3>2. sum[k] = w
      BY <1>3, <2>4, <2>5, <3>1
    <3>3. QED
      BY <1>3, <2>2, <2>3, <2>7, <3>2
  <2>8. QED
    BY <2>6, <2>7
<1>7. n \in P
  <2> HIDE DEF P
  <2>1. QED
    BY <1>5, <1>6, Induction
<1>8. sum[n] = IF v[n+1] <= w THEN v[n+1] ELSE w
  BY <1>7
<1>9. n + 1 \in 1 .. n + 1 /\ m <= n + 1
  OBVIOUS
<1>10. w <= v[n+1] /\ v[n+1] \in Nat
  BY <1>1, <1>2, <1>9
<1>11. QED
  BY <1>3, <1>8, <1>10

\* The best frequencies of the nodes.
BestValues(g) == ({BestOut(g, u) : u \in Node} \cup {BestIn(g, u) : u \in Node}) \ {0}

\* They are sorted, the padding zero among them.
LEMMA BestFrequenciesSorted ==
  ASSUME NEW g \in Frequencies(Node)
  PROVE  /\ Ascending(BestFrequencies(g), 2 * Dim)
         /\ Positives(BestFrequencies(g), 2 * Dim) = BestValues(g)
<1> DEFINE best == [i \in 1 .. Dim |-> BestOut(g, i - 1)]
           best_in == [i \in 1 .. Dim |-> BestIn(g, i - 1)]
           slots == best \o best_in \o <<0>>
           n == 2 * Dim + 1
           v == BestFrequencies(g)
<1>1. Dim \in Nat /\ n \in Nat /\ Node = {i - 1 : i \in 1 .. Dim}
  <2>1. Dim \in Nat /\ n \in Nat /\ \A i \in 1 .. Dim : i - 1 \in Node
    BY MAssumption DEF Dim, Node
  <2>2. ASSUME NEW u \in Node PROVE \E i \in 1 .. Dim : u = i - 1
    <3>1. u + 1 \in 1 .. Dim /\ u = (u + 1) - 1
      BY MAssumption DEF Dim, Node
    <3>2. QED
      BY <3>1
  <2>3. QED
    BY <2>1, <2>2
<1>2. ASSUME NEW u \in Node PROVE BestOut(g, u) \in Nat /\ BestIn(g, u) \in Nat
  <2>1. g[u] \in [Node -> Nat]
    BY DEF Frequencies
  <2>2. BestOut(g, u) \in Nat
    BY <2>1, MaximumOfRow DEF BestOut
  <2> DEFINE h == [w \in Node |-> g[w][u]]
  <2>3. h \in [Node -> Nat]
    BY DEF Frequencies
  <2>4. {h[w] : w \in Node} = {g[w][u] : w \in Node}
    OBVIOUS
  <2> HIDE DEF h
  <2>5. Maximum({h[w] : w \in Node}) \in Nat
    BY <2>3, MaximumOfRow
  <2>6. QED
    BY <2>2, <2>4, <2>5 DEF BestIn
<1>3. best \in [1 .. Dim -> Nat] /\ best_in \in [1 .. Dim -> Nat]
  BY <1>1, <1>2
<1>4. v = StableSort(slots, slots)
  BY DEF BestFrequencies
<1>5. /\ {best[i] : i \in 1 .. Dim} = {BestOut(g, u) : u \in Node}
      /\ {best_in[i] : i \in 1 .. Dim} = {BestIn(g, u) : u \in Node}
  BY <1>1
<1> HIDE DEF best, best_in
<1>6. /\ DOMAIN slots = 1 .. n /\ slots[n] = 0 /\ slots \in [1 .. n -> Nat]
      /\ \A i \in 1 .. Dim : slots[i] = best[i] /\ slots[Dim + i] = best_in[i]
  <2>1. best \in Seq(Nat) /\ best_in \in Seq(Nat) /\ Len(best) = Dim /\ Len(best_in) = Dim
    BY <1>1, <1>3
  <2> DEFINE both == best \o best_in
             last == <<0>>
  <2>2. both \in Seq(Nat) /\ Len(both) = Dim + Dim
    <3>1. both \in Seq(Nat) /\ Len(both) = Len(best) + Len(best_in)
      BY <2>1
    <3>2. QED
      BY <2>1, <3>1, Zenon
  <2>3. ASSUME NEW i \in 1 .. Dim PROVE both[i] = best[i] /\ both[Dim + i] = best_in[i]
    <3>1. i \in 1 .. Len(best) + Len(best_in) /\ Dim + i \in 1 .. Len(best) + Len(best_in)
      BY <1>1, <2>1
    <3>2. both[i] = best[i]
      BY <1>1, <2>1, <3>1
    <3>3. both[Dim + i] = best_in[(Dim + i) - Dim]
      BY <1>1, <2>1, <3>1
    <3>4. (Dim + i) - Dim = i
      BY <1>1
    <3>5. QED
      BY <3>2, <3>3, <3>4
  <2>4. last \in Seq(Nat) /\ Len(last) = 1 /\ last[1] = 0
    OBVIOUS
  <2>5. slots = both \o last
    OBVIOUS
  <2> HIDE DEF both, last, slots
  <2>6. DOMAIN slots = 1 .. n /\ slots \in [1 .. n -> Nat]
    <3>1. slots \in Seq(Nat) /\ Len(slots) = Len(both) + Len(last)
      <4>1. both \in Seq(Nat) /\ last \in Seq(Nat)
        BY <2>2, <2>4
      <4>2. both \o last \in Seq(Nat) /\ Len(both \o last) = Len(both) + Len(last)
        BY <4>1
      <4>3. QED
        BY <2>5, <4>2
    <3>2. Len(slots) = n
      BY <1>1, <2>2, <2>4, <3>1
    <3>3. QED
      BY <3>1, <3>2
  <2>7. slots[n] = 0
    <3>1. n \in 1 .. Len(both) + Len(last) /\ n > Len(both) /\ n - Len(both) = 1
      BY <1>1, <2>2, <2>4
    <3>2. slots[n] = last[n - Len(both)]
      <4>1. both \in Seq(Nat) /\ last \in Seq(Nat)
        BY <2>2, <2>4
      <4>2. (both \o last)[n] = last[n - Len(both)]
        <5> HIDE DEF n
        <5>1. QED
          BY <3>1, <4>1
      <4>3. QED
        BY <2>5, <4>2
    <3>3. QED
      BY <2>4, <3>1, <3>2
  <2>8. ASSUME NEW j \in 1 .. Dim + Dim PROVE slots[j] = both[j]
    BY <1>1, <2>2, <2>4, <2>5
  <2>9. \A i \in 1 .. Dim : i \in 1 .. Dim + Dim /\ Dim + i \in 1 .. Dim + Dim
    BY <1>1
  <2>10. QED
    BY <2>3, <2>6, <2>7, <2>8, <2>9
<1> HIDE DEF slots
<1>7. \A j \in 1 .. n : j = n \/ j \in 1 .. Dim \/ \E i \in 1 .. Dim : j = Dim + i
  <2> SUFFICES ASSUME NEW j \in 1 .. n, j # n, j \notin 1 .. Dim PROVE \E i \in 1 .. Dim : j = Dim + i
    OBVIOUS
  <2>1. j - Dim \in 1 .. Dim /\ j = Dim + (j - Dim)
    BY <1>1
  <2>2. QED
    BY <2>1
<1>8. \A i \in 1 .. Dim : i \in 1 .. n /\ Dim + i \in 1 .. n
  BY <1>1
<1>9. n \in 1 .. n /\ 1 \in 1 .. n /\ n \in Nat
  BY <1>1
<1> HIDE DEF n
<1>10. {slots[j] : j \in 1 .. n} = {best[i] : i \in 1 .. Dim} \cup {best_in[i] : i \in 1 .. Dim} \cup {0}
  <2>1. \A j \in 1 .. n : slots[j] \in {best[i] : i \in 1 .. Dim} \cup {best_in[i] : i \in 1 .. Dim} \cup {0}
    BY <1>6, <1>7
  <2>2. \A i \in 1 .. Dim : best[i] \in {slots[j] : j \in 1 .. n} /\ best_in[i] \in {slots[j] : j \in 1 .. n}
    BY <1>6, <1>8
  <2>3. 0 \in {slots[j] : j \in 1 .. n}
    BY <1>6, <1>9
  <2>4. QED
    BY <2>1, <2>2, <2>3
<1>11. \A j \in 1 .. n : slots[j] \in Nat
  BY <1>6
<1>12. PICK order \in [1 .. n -> 1 .. n] :
         Sorting(order, slots, n) /\ StableSort(slots, slots) = [p \in 1 .. n |-> slots[order[p]]]
  <2>1. slots \in [1 .. n -> Int]
    BY <1>6
  <2>2. Sortings(slots, slots, n) # {}
    BY <1>1, <1>6, <2>1, StableSortSorts
  <2>3. QED
    BY <2>2 DEF Sortings
<1>13. \A p \in 1 .. n : v[p] = slots[order[p]] /\ order[p] \in 1 .. n /\ v[p] \in Nat
  BY <1>4, <1>11, <1>12
<1>14. {v[p] : p \in 1 .. n} = {slots[j] : j \in 1 .. n}
  <2>1. \A j \in 1 .. n : \E p \in 1 .. n : order[p] = j
    BY <1>12 DEF Sorting
  <2> HIDE DEF v
  <2>2. \A j \in 1 .. n : slots[j] \in {v[p] : p \in 1 .. n}
    <3> SUFFICES ASSUME NEW j \in 1 .. n PROVE \E p \in 1 .. n : slots[j] = v[p]
      OBVIOUS
    <3>1. PICK p \in 1 .. n : order[p] = j
      BY <2>1
    <3>2. v[p] = slots[j]
      BY <1>13, <3>1
    <3>3. QED
      BY <3>2
  <2>3. \A p \in 1 .. n : v[p] \in {slots[j] : j \in 1 .. n}
    BY <1>13
  <2>4. QED
    BY <2>2, <2>3
<1> HIDE DEF v
<1>15. ASSUME NEW p \in 1 .. n, NEW q \in 1 .. n, p <= q PROVE v[p] <= v[q]
  <2>1. CASE p = q
    <3>1. v[p] \in Nat
      BY <1>13
    <3>2. QED
      BY <2>1, <3>1
  <2>2. CASE p # q
    <3>1. p < q
      BY <1>15, <2>2
    <3>2. Precedes(slots, order[p], order[q])
      BY <1>12, <3>1 DEF Sorting
    <3>3. QED
      BY <1>13, <3>2 DEF Precedes
  <2>3. QED
    BY <2>1, <2>2
<1>16. v[1] = 0
  <2>1. 0 \in {v[p] : p \in 1 .. n}
    BY <1>10, <1>14
  <2>2. PICK p \in 1 .. n : v[p] = 0
    BY <2>1
  <2>3. 1 \in 1 .. n /\ 1 <= p
    BY <1>9
  <2>4. v[1] <= v[p] /\ v[1] \in Nat
    BY <1>13, <1>15, <2>3
  <2>5. QED
    BY <2>2, <2>4
<1>17. n = 2 * Dim + 1
  BY DEF n
<1>18. Ascending(v, 2 * Dim)
  BY <1>13, <1>15, <1>16, <1>17 DEF Ascending
<1>19. Positives(v, 2 * Dim) = BestValues(g)
  <2>1. Positives(v, 2 * Dim) = {v[p] : p \in 1 .. n} \ {0}
    BY <1>17 DEF Positives
  <2>2. BestValues(g) = ({best[i] : i \in 1 .. Dim} \cup {best_in[i] : i \in 1 .. Dim}) \ {0}
    BY <1>5 DEF BestValues
  <2>3. QED
    BY <1>10, <1>14, <2>1, <2>2
<1>20. QED
  BY <1>18, <1>19 DEF v

\* The place of the percentile among d values: the one asked for, or the last.
Quota(d, e) == LET at == (2 * d * e.num + e.den) \div (2 * e.den) + 1 IN IF at < d THEN at ELSE d

\* The ranks that the filter reaches are those up to the quota.
LEMMA QuotaIsReached ==
  ASSUME NEW e \in [num : Nat, den : Nat \ {0}], NEW d \in Nat, NEW k \in 0 .. d
  PROVE  /\ d > 0 => Quota(d, e) \in 1 .. d
         /\ ~(3 * e.den + d * 2 * e.num < 2 * e.den * k) <=> k <= Quota(d, e)
<1> DEFINE num == e.num
           den == e.den
           a == d * 2 * num
           x == a + den
           y == 2 * den
           q == x \div y
<1>1. num \in Nat /\ den \in Nat /\ den > 0 /\ a \in Nat /\ y \in Nat \ {0} /\ x \in Nat
  <2>1. num \in Nat /\ den \in Nat /\ den > 0
    OBVIOUS
  <2> HIDE DEF num, den
  <2>2. a \in Nat
    BY <2>1
  <2> HIDE DEF a
  <2>3. QED
    BY <2>1, <2>2
<1>2. Quota(d, e) = IF q + 1 < d THEN q + 1 ELSE d
  <2>1. 2 * d * e.num = d * 2 * e.num
    OBVIOUS
  <2>2. QED
    BY <2>1 DEF Quota
<1>3. 3 * e.den + d * 2 * e.num = x + y /\ 2 * e.den * k = k * y
  <2>1. 3 * den + a = a + den + 2 * den
    <3> HIDE DEF a, den
    <3>1. QED
      BY <1>1
  <2>2. 2 * den * k = k * (2 * den)
    <3> HIDE DEF den
    <3>1. QED
      BY <1>1
  <2>3. QED
    BY <2>1, <2>2
<1> HIDE DEF x, y
<1>4. q \in Nat /\ (k > 0 => (k - 1 <= q <=> (k - 1) * y <= x))
  <2>1. q \in Nat
    <3>1. 0 \in Nat
      OBVIOUS
    <3>2. QED
      BY ONLY <1>1, <3>1, QuotientBounds DEF q
  <2>2. ASSUME k > 0 PROVE k - 1 <= q <=> (k - 1) * y <= x
    <3>1. k - 1 \in Nat
      BY <2>2
    <3>2. QED
      BY ONLY <1>1, <3>1, QuotientBounds DEF q
  <2>3. QED
    BY <2>1, <2>2
<1> HIDE DEF q
<1>5. k > 0 => ((k - 1) * y <= x <=> ~(x + y < k * y))
  <2> SUFFICES ASSUME k > 0 PROVE (k - 1) * y <= x <=> ~(x + y < k * y)
    OBVIOUS
  <2>1. (k - 1) * y = k * y - y /\ k * y \in Nat
    BY <1>1
  <2>2. QED
    BY <1>1, <2>1
<1>6. k = 0 => ~(x + y < k * y)
  BY <1>1
<1>7. k > 0 => (k - 1 <= q <=> k <= Quota(d, e))
  BY <1>2, <1>4
<1>8. QED
  BY <1>2, <1>3, <1>4, <1>5, <1>6, <1>7

\* The threshold is the value at the quota's rank among the best frequencies, and positive.
LEMMA MinimalIsRanked ==
  ASSUME NEW g \in Frequencies(Node), NEW e \in [num : Nat, den : Nat \ {0}]
  PROVE  LET W == BestValues(g)
         IN  /\ W \in SUBSET (1 .. BestFrequencies(g)[2 * Dim + 1]) /\ BestFrequencies(g)[2 * Dim + 1] \in Nat
             /\ minimal_value(g, e) = IF W = {} THEN 1 ELSE Kth(W, Quota(Cardinality(W), e))
             /\ minimal_value(g, e) \in Nat \ {0}
<1> DEFINE n       == 2 * Dim
           v       == BestFrequencies(g)
           W       == BestValues(g)
           step    == [i \in 1 .. 2 * Dim |-> v[i+1] - v[i]]
           ranking == [i \in 1 .. 2 * Dim |-> Cardinality({j \in 1 .. i : step[j] > 0})]
           d       == ranking[2 * Dim]
           bits    == comparison_bit_length(2 * (2 * Dim + 1) * Larger(e.num, e.den) + 3 * e.den)
           wanted  == 3 * e.den + d * 2 * e.num
           reached == {i \in 1 .. 2 * Dim : ~LessThan(wanted, 2 * e.den * ranking[i], bits)}
           sum[i \in 0 .. 2 * Dim] ==
             IF i = 0 THEN 0 ELSE sum[i-1] + (IF i \in reached THEN step[i] ELSE 0)
           F == [p \in Nat \X Int |-> p[2] + (IF p[1] \in reached THEN step[p[1]] ELSE 0)]
           c == Cardinality(W)
           w == IF W = {} THEN 0 ELSE Kth(W, Quota(c, e))
           Place(x) == Cardinality({y \in W : y <= x})
<1>1. minimal_value(g, e) = sum[n] + (IF d > 0 THEN 0 ELSE 1)
  BY DEF minimal_value
<1>2. n \in Nat \ {0}
  BY MAssumption DEF Dim
<1>3. Ascending(v, n) /\ Positives(v, n) = W
  BY BestFrequenciesSorted
<1> HIDE DEF v, W
<1>4. /\ v[1] = 0 /\ \A i \in 1 .. n + 1 : v[i] \in Nat
      /\ \A i, j \in 1 .. n + 1 : i <= j => v[i] <= v[j]
      /\ W = {v[i] : i \in 1 .. n + 1} \ {0}
  BY <1>3 DEF Ascending, Positives
<1>5. \A i \in 1 .. n : i \in 1 .. n + 1 /\ i + 1 \in 1 .. n + 1 /\ i <= i + 1
  BY <1>2
<1>6. n + 1 \in 1 .. n + 1 /\ \A i \in 1 .. n + 1 : i <= n + 1
  BY <1>2
<1>7. W \in SUBSET (1 .. v[n+1]) /\ v[n+1] \in Nat
  <2>1. v[n+1] \in Nat
    BY <1>4, <1>6
  <2>2. ASSUME NEW x \in W PROVE x \in 1 .. v[n+1]
    <3>1. PICK i \in 1 .. n + 1 : x = v[i] /\ x # 0
      BY <1>4
    <3>2. v[i] \in Nat /\ v[i] <= v[n+1]
      BY <1>4, <1>6
    <3>3. QED
      BY <2>1, <3>1, <3>2
  <2>3. QED
    BY <2>1, <2>2
<1>8. /\ IsFiniteSet(W) /\ c \in Nat
      /\ \A k \in 1 .. c : Kth(W, k) \in W /\ Place(Kth(W, k)) = k
      /\ \A x \in W : Place(x) \in 1 .. c /\ Kth(W, Place(x)) = x
      /\ \A k, l \in 1 .. c : k < l => Kth(W, k) < Kth(W, l)
  BY <1>7, KthInOrder
<1>9. ASSUME NEW i \in 1 .. n PROVE ranking[i] = Place(v[i+1]) /\ ranking[i] \in 0 .. c
  <2>1. \A j \in 1 .. i : j \in 1 .. n /\ step[j] = v[j+1] - v[j]
    BY <1>2
  <2>2. ranking[i] = Cardinality({j \in 1 .. i : step[j] > 0})
    OBVIOUS
  <2> HIDE DEF step, ranking
  <2>3. {j \in 1 .. i : step[j] > 0} = {j \in 1 .. i : v[j+1] - v[j] > 0}
    BY <2>1
  <2> DEFINE B == {x \in W : x <= v[i+1]}
  <2>4. ranking[i] = Cardinality(B)
    BY <1>2, <1>3, <2>2, <2>3, StepsAreRanks
  <2>5. B \subseteq W
    OBVIOUS
  <2> HIDE DEF B
  <2>6. Cardinality(B) <= c /\ Cardinality(B) \in Nat
    BY <1>8, <2>5, FS_Subset, FS_CardinalityType
  <2> HIDE DEF c
  <2>7. ranking[i] \in 0 .. c
    BY <1>8, <2>4, <2>6
  <2>8. QED
    BY <2>4, <2>7 DEF B
<1>10. d = c /\ c \in 0 .. n
  <2>1. n \in 1 .. n
    BY <1>2
  <2>2. {x \in W : x <= v[n+1]} = W
    <3>1. \A x \in W : x <= v[n+1]
      BY <1>7
    <3>2. QED
      BY <3>1
  <2>3. d = Place(v[n+1])
    BY <1>9, <2>1
  <2>4. d = c
    <3> HIDE DEF d
    <3>1. QED
      BY <2>2, <2>3
  <2>5. d \in 0 .. n
    <3> DEFINE B == {j \in 1 .. n : step[j] > 0}
    <3>1. d = Cardinality(B)
      BY <2>1
    <3>2. B \subseteq 1 .. n
      OBVIOUS
    <3> HIDE DEF B, d, n
    <3>3. Cardinality(B) \in Nat /\ Cardinality(B) <= n - 1 + 1
      <4>1. 1 \in Int /\ n \in Int /\ 1 <= n + 1
        BY <1>2
      <4>2. QED
        BY <3>2, <4>1, WithinInterval
    <3>4. QED
      BY <1>2, <3>1, <3>3
  <2>6. QED
    BY <2>4, <2>5
<1> HIDE DEF Place
<1>11. c > 0 => Quota(c, e) \in 1 .. c
  BY <1>8, <1>10, QuotaIsReached
<1>12. W = {} <=> c = 0
  BY <1>8, FS_EmptySet
<1> HIDE DEF c
<1>13. (\E i \in 1 .. n + 1 : v[i] = w) /\ w \in Nat /\ (W # {} => w \in W)
  <2>1. CASE W = {}
    <3>1. w = 0
      BY <2>1
    <3> HIDE DEF w
    <3>2. v[1] = 0
      BY <1>4
    <3>3. 1 \in 1 .. n + 1
      BY <1>2
    <3>4. QED
      BY <2>1, <3>1, <3>2, <3>3
  <2>2. CASE W # {}
    <3>1. c > 0
      BY <1>8, <1>12, <2>2
    <3>2. w \in W
      BY <1>8, <1>11, <2>2, <3>1
    <3> HIDE DEF w
    <3>3. QED
      BY <1>4, <2>2, <3>2
  <2>3. QED
    BY <2>1, <2>2
<1>14. ASSUME NEW i \in 1 .. n PROVE i \in reached <=> v[i+1] <= w
  <2> DEFINE k == ranking[i]
             x == v[i+1]
  <2>1. k \in 0 .. c /\ k \in 0 .. n /\ k = Place(x) /\ x \in Nat
    <3> HIDE DEF ranking
    <3>1. k \in 0 .. c /\ k = Place(x)
      BY <1>9
    <3>2. x \in Nat
      BY <1>4, <1>5
    <3>3. QED
      <4> HIDE DEF d, n, k
      <4>1. QED
        BY <1>2, <1>8, <1>10, <3>1, <3>2
  <2>2. i \in reached <=> ~LessThan(3 * e.den + d * 2 * e.num, 2 * e.den * k, bits)
    OBVIOUS
  <2> HIDE DEF reached, k, x, d
  <2>3. LessThan(3 * e.den + d * 2 * e.num, 2 * e.den * k, bits)
          <=> 3 * e.den + d * 2 * e.num < 2 * e.den * k
    BY <1>10, <2>1, ThresholdIsExact
  <2>4. ~(3 * e.den + c * 2 * e.num < 2 * e.den * k) <=> k <= Quota(c, e)
    BY <1>8, <2>1, QuotaIsReached
  <2>5. i \in reached <=> k <= Quota(c, e)
    BY <1>10, <2>2, <2>3, <2>4
  <2>6. x = 0 \/ x \in W
    BY <1>4, <1>5 DEF x
  <2>7. CASE x = 0
    <3>1. {y \in W : y <= 0} = {}
      <4>1. \A y \in W : ~(y <= 0)
        BY <1>7
      <4>2. QED
        BY <4>1
    <3>2. Cardinality({}) = 0
      BY FS_EmptySet
    <3>3. k = 0
      BY <2>1, <2>7, <3>1, <3>2 DEF Place
    <3>4. 0 <= Quota(c, e)
      <4>1. CASE c = 0
        <5>1. 0 \in 0 .. c /\ ~(3 * e.den + c * 2 * e.num < 2 * e.den * 0)
          BY <4>1
        <5>2. QED
          BY <1>8, <5>1, QuotaIsReached
      <4>2. CASE c > 0
        BY <1>11, <4>2
      <4>3. QED
        BY <1>8, <4>1, <4>2
    <3>5. QED
      BY <1>13, <2>5, <2>7, <3>3, <3>4 DEF x
  <2>8. CASE x \in W
    <3>1. W # {} /\ c > 0
      BY <1>8, <1>12, <2>8
    <3> DEFINE q == Quota(c, e)
    <3>2. q \in 1 .. c /\ k \in 1 .. c /\ Kth(W, k) = x /\ w = Kth(W, q)
      BY <1>8, <1>11, <2>1, <2>8, <3>1
    <3> HIDE DEF q, w
    <3>3. k < q => x < w
      BY <1>8, <3>2
    <3>4. q < k => w < x
      BY <1>8, <3>2
    <3>5. k = q => x = w
      BY <3>2
    <3>6. k <= q <=> x <= w
      BY <1>13, <2>1, <3>2, <3>3, <3>4, <3>5
    <3>7. QED
      BY <2>5, <3>6 DEF q, x
  <2>9. QED
    BY <2>6, <2>7, <2>8
<1>15. reached \subseteq 1 .. n
  OBVIOUS
<1>16. \A i \in 1 .. n : step[i] = v[i+1] - v[i] /\ step[i] \in Int
  <2>1. \A i \in 1 .. n : step[i] = v[i+1] - v[i]
    OBVIOUS
  <2> HIDE DEF step
  <2>2. QED
    BY <1>4, <1>5, <2>1
<1> HIDE DEF reached, step, ranking, d, w
<1>17. F \in [Nat \X Int -> Int]
  <2>1. ASSUME NEW i \in Nat, NEW x \in Int PROVE x + (IF i \in reached THEN step[i] ELSE 0) \in Int
    BY <1>15, <1>16
  <2>2. QED
    BY <2>1
<1>18. PICK f \in [0 .. n -> Int] : f[0] = 0 /\ \A k \in 1 .. n : f[k] = f[k-1] + (IF k \in reached THEN step[k] ELSE 0)
  <2>1. Runs(Int, [p \in Nat \X Int |-> p[2] + (IF p[1] \in reached THEN step[p[1]] ELSE 0)], 0, n) # {}
    <3> HIDE DEF n
    <3>1. 0 \in Int /\ n \in Nat
      BY <1>2
    <3> HIDE DEF F
    <3>2. Runs(Int, F, 0, n) # {}
      BY <1>17, <3>1, LoopRuns
    <3>3. QED
      BY <3>2 DEF F
  <2> HIDE DEF F
  <2>2. PICK f \in [0 .. n -> Int] :
          f[0] = 0 /\ \A k \in 1 .. n : f[k] = [p \in Nat \X Int |-> p[2] + (IF p[1] \in reached THEN step[p[1]] ELSE 0)][<<k,f[k-1]>>]
    BY <2>1 DEF Runs
  <2>3. \A k \in 1 .. n : k - 1 \in 0 .. n /\ f[k-1] \in Int /\ k \in Nat
    BY <1>2
  <2>4. QED
    BY <2>2, <2>3
<1>19. sum = [k \in 0 .. 2 * Dim |-> IF k = 0 THEN 0 ELSE sum[k-1] + (IF k \in reached THEN step[k] ELSE 0)]
  <2>1. f = [k \in 0 .. 2 * Dim |-> IF k = 0 THEN 0 ELSE f[k-1] + (IF k \in reached THEN step[k] ELSE 0)]
    BY <1>18
  <2>2. QED
    BY <2>1, Zenon
<1> HIDE DEF sum, F
<1>20. sum[n] = w
  <2>1. sum[0] = 0
    BY <1>2, <1>19
  <2>2. \A i \in 1 .. n : sum[i] = sum[i-1] + (IF i \in reached THEN v[i+1] - v[i] ELSE 0)
    <3>1. \A i \in 1 .. n : i \in 0 .. 2 * Dim /\ i # 0
      BY <1>2
    <3>2. QED
      BY <1>16, <1>19, <3>1
  <2> HIDE DEF n
  <2>3. n \in Nat /\ (\E i \in 1 .. n + 1 : v[i] = w) /\ \A i \in 1 .. n : i \in reached <=> v[i+1] <= w
    BY <1>2, <1>13, <1>14
  <2>4. Ascending(v, n)
    BY <1>3
  <2>5. QED
    <3>1. AddsUp(sum, reached, v, w, n)
      BY <2>1, <2>2, <2>3 DEF AddsUp
    <3>2. QED
      BY <2>3, <2>4, <3>1, StepsAddUp
<1>21. minimal_value(g, e) = IF W = {} THEN 1 ELSE w
  <2>1. d > 0 <=> W # {}
    BY <1>8, <1>10, <1>12
  <2>2. QED
    BY <1>1, <1>12, <1>13, <1>20, <2>1 DEF w
<1>22. minimal_value(g, e) \in Nat \ {0}
  <2>1. 0 \notin W
    BY <1>4
  <2>2. QED
    BY <1>13, <1>21, <2>1
<1>23. QED
  BY <1>7, <1>21, <1>22 DEF w, W, v, c

\* The eta filter keeps arcs of the pruned graph only.
LEMMA FrequentArcs ==
  ASSUME NEW g \in Frequencies(Node), NEW e \in [num : Nat, den : Nat \ {0}]
  PROVE  keep_eta_percentile_edges(g, e) \subseteq AtLeast(g, 1)
<1>1. minimal_value(g, e) \in Nat \ {0}
  BY MinimalIsRanked
<1>2. \A u, v \in Node : g[u][v] \in Nat
  BY DEF Frequencies
<1>3. QED
  BY <1>1, <1>2 DEF keep_eta_percentile_edges, AtLeast

(***************************************************************************)
(* The filter                                                              *)
(***************************************************************************)
\* The arcs of the transposed graph are the arcs of the graph, turned around.
LEMMA ArcsReversed ==
  ASSUME NEW g \in Frequencies(Node)
  PROVE  /\ Transposed(g) \in Frequencies(Node)
         /\ \A t \in Nat : AtLeast(Transposed(g), t) = Converse(AtLeast(g, t))
<1>1. Transposed(g) \in Frequencies(Node)
  BY DEF Transposed, Frequencies
<1>2. \A u, v \in Node : Transposed(g)[u][v] = g[v][u]
  BY DEF Transposed
<1>3. ASSUME NEW t \in Nat PROVE AtLeast(Transposed(g), t) = Converse(AtLeast(g, t))
  <2>1. ASSUME NEW u \in Node, NEW v \in Node
        PROVE  <<u,v>> \in AtLeast(Transposed(g), t) <=> <<v,u>> \in AtLeast(g, t)
    BY <1>2 DEF AtLeast
  <2>2. AtLeast(Transposed(g), t) \subseteq Node \X Node /\ AtLeast(g, t) \subseteq Node \X Node
    BY DEF AtLeast
  <2>3. ASSUME NEW p \in AtLeast(Transposed(g), t) PROVE p \in Converse(AtLeast(g, t))
    <3>1. PICK u \in Node, v \in Node : p = <<u,v>>
      BY <2>2
    <3>2. <<v,u>> \in AtLeast(g, t)
      BY <3>1, <2>1, <2>3
    <3>3. QED
      BY <3>1, <3>2 DEF Converse
  <2>4. ASSUME NEW p \in Converse(AtLeast(g, t)) PROVE p \in AtLeast(Transposed(g), t)
    <3>1. PICK u \in Node, v \in Node : p = <<u,v>> /\ <<v,u>> \in AtLeast(g, t)
      BY <2>2, <2>4 DEF Converse
    <3>2. QED
      BY <3>1, <2>1
  <2>5. QED
    BY <2>3, <2>4
<1>4. QED
  BY <1>1, <1>3

\* The arcs that survive the filter: those of the best edges and some more.
LEMMA FilteredKeepsWidths ==
  ASSUME NEW g \in Frequencies(Node), NEW infinity \in Nat, NEW K, K \subseteq AtLeast(g, 1)
  PROVE  LET best_in == find_best_incoming_edges(g, Dim - 1, infinity)
             best_out == find_best_outgoing_edges(g, Dim - 2, infinity)
             A == K \cup IncomingArcs(best_in) \cup OutgoingArcs(best_out)
         IN  /\ A \subseteq AtLeast(g, 1)
             /\ \A t \in 1 .. infinity :
                  /\ LeadsTo(AtLeast(g, t), Start) = LeadsTo(AtLeast(g, t) \cap A, Start)
                  /\ LeadsTo(Converse(AtLeast(g, t)), End) = LeadsTo(Converse(AtLeast(g, t) \cap A), End)
<1> DEFINE best_in == find_best_incoming_edges(g, Dim - 1, infinity)
           best_out == find_best_outgoing_edges(g, Dim - 2, infinity)
           A == K \cup IncomingArcs(best_in) \cup OutgoingArcs(best_out)
           I == {p \in Node \X Node : best_in[p[2]] = p[1]}
           O == {p \in Node \X Node : best_out[p[2]] = p[1]}
<1>1. Dim - 1 = Start /\ Dim - 2 = End /\ Start \in Node /\ End \in Node
  BY MAssumption, ActivitiesFinite DEF Dim, Start, End
<1>2. /\ best_in \in [Node -> Node \cup {NoPred}] /\ I \subseteq AtLeast(g, 1)
      /\ \A t \in 1 .. infinity : LeadsTo(AtLeast(g, t), Start) = LeadsTo(AtLeast(g, t) \cap I, Start)
  <2> DEFINE b == find_best_incoming_edges(g, Start, infinity)
             B == {p \in Node \X Node : b[p[2]] = p[1]}
  <2>1. /\ b \in [Node -> Node \cup {NoPred}] /\ B \subseteq AtLeast(g, 1)
        /\ \A t \in 1 .. infinity : LeadsTo(AtLeast(g, t), Start) = LeadsTo(AtLeast(g, t) \cap B, Start)
    BY <1>1, BestEdgesKeepWidths
  <2>2. best_in = b /\ I = B
    BY <1>1
  <2> HIDE DEF b, B, I
  <2>3. QED
    BY <2>1, <2>2
<1>3. /\ Transposed(g) \in Frequencies(Node)
      /\ \A t \in Nat : AtLeast(Transposed(g), t) = Converse(AtLeast(g, t))
  BY ArcsReversed
<1>4. /\ best_out \in [Node -> Node \cup {NoPred}] /\ O \subseteq AtLeast(Transposed(g), 1)
      /\ \A t \in 1 .. infinity :
           LeadsTo(AtLeast(Transposed(g), t), End) = LeadsTo(AtLeast(Transposed(g), t) \cap O, End)
  <2> DEFINE h == Transposed(g)
  <2>1. best_out = find_best_incoming_edges(h, End, infinity)
    BY <1>1 DEF find_best_outgoing_edges
  <2>2. h \in Frequencies(Node)
    BY <1>3
  <2> HIDE DEF best_out, h
  <2> DEFINE b == find_best_incoming_edges(h, End, infinity)
             B == {p \in Node \X Node : b[p[2]] = p[1]}
  <2>3. /\ b \in [Node -> Node \cup {NoPred}] /\ B \subseteq AtLeast(h, 1)
        /\ \A t \in 1 .. infinity : LeadsTo(AtLeast(h, t), End) = LeadsTo(AtLeast(h, t) \cap B, End)
    BY <2>2, <1>1, BestEdgesKeepWidths
  <2>4. best_out = b /\ O = B
    BY <2>1
  <2> HIDE DEF b, B, O
  <2>5. QED
    BY <2>3, <2>4 DEF h
<1>5. IncomingArcs(best_in) = I
  <2> HIDE DEF best_in
  <2>1. QED
    BY <1>2, ArcsOfBest
<1>6. OutgoingArcs(best_out) = {p \in Node \X Node : best_out[p[1]] = p[2]}
  <2> HIDE DEF best_out
  <2>1. QED
    BY <1>4, ArcsOfBest
<1> HIDE DEF best_in, best_out
<1>7. ASSUME NEW u \in Node, NEW v \in Node PROVE <<u,v>> \in O <=> <<v,u>> \in OutgoingArcs(best_out)
  BY <1>6
<1>8. OutgoingArcs(best_out) \subseteq AtLeast(g, 1)
  <2>1. \A u, v \in Node : <<u,v>> \in AtLeast(Transposed(g), 1) => <<v,u>> \in AtLeast(g, 1)
    BY <1>3 DEF Converse, AtLeast
  <2>2. ASSUME NEW u \in Node, NEW v \in Node, <<v,u>> \in OutgoingArcs(best_out)
        PROVE  <<v,u>> \in AtLeast(g, 1)
    <3>1. <<u,v>> \in AtLeast(Transposed(g), 1)
      BY <2>2, <1>4, <1>7
    <3>2. QED
      BY <3>1, <2>1
  <2>3. OutgoingArcs(best_out) \subseteq Node \X Node
    BY <1>6
  <2>4. QED
    BY <2>2, <2>3
<1>9. A \subseteq AtLeast(g, 1)
  BY <1>2, <1>5, <1>8
<1> HIDE DEF I
<1>10. ASSUME NEW t \in 1 .. infinity
       PROVE  LeadsTo(AtLeast(g, t), Start) = LeadsTo(AtLeast(g, t) \cap A, Start)
  <2>1. AtLeast(g, t) \cap I \subseteq AtLeast(g, t) \cap A
    BY <1>5
  <2> HIDE DEF A
  <2>2. LeadsTo(AtLeast(g, t) \cap I, Start) \subseteq LeadsTo(AtLeast(g, t) \cap A, Start)
    BY <2>1, <1>1, LeadsFurther
  <2>3. LeadsTo(AtLeast(g, t) \cap A, Start) \subseteq LeadsTo(AtLeast(g, t), Start)
    BY <1>1, LeadsFurther
  <2>4. QED
    BY <2>2, <2>3, <1>2
<1>11. ASSUME NEW t \in 1 .. infinity
       PROVE  LeadsTo(Converse(AtLeast(g, t)), End) = LeadsTo(Converse(AtLeast(g, t) \cap A), End)
  <2>1. AtLeast(Transposed(g), t) = Converse(AtLeast(g, t))
    BY <1>3
  <2>2. ASSUME NEW p \in Converse(AtLeast(g, t)) \cap O PROVE p \in Converse(AtLeast(g, t) \cap A)
    <3>1. PICK u \in Node, v \in Node : p = <<v,u>> /\ <<u,v>> \in AtLeast(g, t)
      BY <2>2 DEF Converse, AtLeast
    <3>2. <<u,v>> \in OutgoingArcs(best_out)
      BY <3>1, <2>2, <1>7
    <3>3. <<u,v>> \in AtLeast(g, t) \cap A
      BY <3>1, <3>2
    <3> HIDE DEF A
    <3>4. QED
      BY <3>1, <3>3 DEF Converse
  <2> HIDE DEF A, O
  <2>3. LeadsTo(Converse(AtLeast(g, t)) \cap O, End) \subseteq LeadsTo(Converse(AtLeast(g, t) \cap A), End)
    BY <2>2, <1>1, LeadsFurther
  <2>4. Converse(AtLeast(g, t) \cap A) \subseteq Converse(AtLeast(g, t))
    BY DEF Converse
  <2>5. LeadsTo(Converse(AtLeast(g, t) \cap A), End) \subseteq LeadsTo(Converse(AtLeast(g, t)), End)
    BY <2>4, <1>1, LeadsFurther
  <2>6. LeadsTo(Converse(AtLeast(g, t)), End) = LeadsTo(Converse(AtLeast(g, t)) \cap O, End)
    BY <2>1, <1>4
  <2>7. QED
    BY <2>3, <2>5, <2>6
<1>12. QED
  BY <1>9, <1>10, <1>11 DEF best_in, best_out

(***************************************************************************)
(* The pipeline                                                            *)
(***************************************************************************)

\* The stages from which on something is there.
Combined    == {"activity-binning", "concurrency-sanitization", "done"}
Filtered    == {"filter-combine"} \cup Combined
FoundOut    == {"eta-filter"} \cup Filtered
FoundIn     == {"backwards"} \cup FoundOut
Reformatted == {"forward"} \cup FoundIn
Related     == {"pruning", "reformat"} \cup Reformatted
Counted     == {"self-loops", "short-loops", "concurrency"} \cup Related

InputsOK ==
  /\ rows \in EventTable /\ eta \in Etas
  /\ stage \in {"input-validation", "dfg", "aborted", "uncompilable"} \cup Counted
  /\ stage # "uncompilable" => ClosureIsComputable

RelationsOK ==
  /\ stage \in Counted => dfg \in Frequencies(Label)
  /\ stage \in Related => \A p \in concurrency : <<p[2],p[1]>> \in concurrency

GraphOK ==
  /\ stage = "reformat" => graph \in Frequencies(Label)
  /\ stage \in Reformatted => Split(graph)

FilterOK ==
  /\ stage \in FoundIn => incoming = find_best_incoming_edges(graph, Dim - 1, Infinity)
  /\ stage \in FoundOut => outgoing = find_best_outgoing_edges(graph, Dim - 2, Infinity)
  /\ stage = "filter-combine" => arcs = keep_eta_percentile_edges(graph, eta)
  /\ stage \in Combined =>
       arcs = keep_eta_percentile_edges(graph, eta) \cup IncomingArcs(incoming) \cup OutgoingArcs(outgoing)

OpenedOK ==
  stage = "done" =>
    /\ revealed = spdfg_without_orphans(arcs, Reachability(arcs))
    /\ disclosed = disclosed_concurrency(arcs, Reachability(arcs), concurrency)

PipelineInv == InputsOK /\ RelationsOK /\ GraphOK /\ FilterOK /\ OpenedOK

\* The invariant of the pipeline holds at the start.
LEMMA PipelineBegins == InitWith(EventTable) => PipelineInv
  BY DEF InitWith, PipelineInv, InputsOK, RelationsOK, GraphOK, FilterOK, OpenedOK,
         Counted, Related, Reformatted, FoundIn, FoundOut, Filtered, Combined

\* A stage, what it needs and what it leaves as it is.
LEMMA PipelineStep == PipelineInv /\ [Next]_vars => PipelineInv'
<1> SUFFICES ASSUME PipelineInv, [Next]_vars PROVE PipelineInv'
  OBVIOUS
<1> USE DEF Counted, Related, Reformatted, FoundIn, FoundOut, Filtered, Combined
<1>0. InputsOK /\ RelationsOK /\ GraphOK /\ FilterOK /\ OpenedOK
  BY DEF PipelineInv
<1>1. CASE ValidateInputs
  BY <1>0, <1>1 DEF ValidateInputs, PipelineInv, InputsOK, RelationsOK, GraphOK, FilterOK, OpenedOK,
                    inputs, merged, relations, filter, opened
<1>2. CASE BuildDfg
  <2>1. rows \in Seq(Row)
    BY <1>0 DEF InputsOK, EventTable
  <2>2. dfg' = LET sorted == SortByCaseId(SortByTimestamp(rows))
               IN  DirectlyFollows(DemuxedEvents(sorted), NewCase(sorted), CaseEnd(sorted))
    BY <1>2 DEF BuildDfg
  <2>3. dfg' \in Frequencies(Label)
    BY <2>1, <2>2, DirectlyFollowsType
  <2>4. stage = "dfg" /\ stage' = "self-loops" /\ UNCHANGED inputs
    BY <1>2 DEF BuildDfg
  <2>5. QED
    BY <1>0, <2>3, <2>4 DEF PipelineInv, InputsOK, RelationsOK, GraphOK, FilterOK, OpenedOK, inputs
<1>3. CASE DetectSelfLoops
  BY <1>0, <1>3 DEF DetectSelfLoops, PipelineInv, InputsOK, RelationsOK, GraphOK, FilterOK, OpenedOK,
                    inputs
<1>4. CASE DetectShortLoops
  BY <1>0, <1>4 DEF DetectShortLoops, PipelineInv, InputsOK, RelationsOK, GraphOK, FilterOK, OpenedOK,
                    inputs
<1>5. CASE DetectConcurrency
  <2>1. dfg \in Frequencies(Label)
    BY <1>0, <1>5 DEF DetectConcurrency, RelationsOK
  <2>2. concurrency' =
          detect_concurrency(dfg, short_loops, detect_left_right_positive(dfg), Len(rows))
    BY <1>5 DEF DetectConcurrency
  <2>3. \A p \in concurrency' : <<p[2],p[1]>> \in concurrency'
    BY <2>1, <2>2, ConcurrencySymmetric
  <2>4. stage = "concurrency" /\ stage' = "pruning" /\ UNCHANGED <<inputs, dfg>>
    BY <1>5 DEF DetectConcurrency
  <2>5. QED
    BY <1>0, <2>1, <2>3, <2>4 DEF PipelineInv, InputsOK, RelationsOK, GraphOK, FilterOK, OpenedOK, inputs
<1>6. CASE Prune
  <2>1. dfg \in Frequencies(Label)
    BY <1>0, <1>6 DEF Prune, RelationsOK
  <2>2. graph' \in Frequencies(Label)
    BY <2>1, <1>6, PruningType DEF Prune
  <2>3. stage = "pruning" /\ stage' = "reformat" /\ UNCHANGED <<inputs, relations>>
    BY <1>6 DEF Prune
  <2>4. QED
    BY <1>0, <2>2, <2>3 DEF PipelineInv, InputsOK, RelationsOK, GraphOK, FilterOK, OpenedOK, inputs, relations
<1>7. CASE Reformat
  <2>1. graph \in Frequencies(Label)
    BY <1>0, <1>7 DEF Reformat, GraphOK
  <2>2. Split(graph')
    BY <2>1, <1>7, ReformatSplits DEF Reformat
  <2>3. Split(graph)'
    BY <2>2 DEF Split
  <2>4. stage = "reformat" /\ stage' = "forward" /\ UNCHANGED <<inputs, relations>>
    BY <1>7 DEF Reformat
  <2>5. QED
    BY <1>0, <2>3, <2>4 DEF PipelineInv, InputsOK, RelationsOK, GraphOK, FilterOK, OpenedOK, inputs, relations
<1>8. CASE SearchForward
  BY <1>0, <1>8 DEF SearchForward, PipelineInv, InputsOK, RelationsOK, GraphOK, FilterOK, OpenedOK,
                    inputs, relations, Split
<1>9. CASE SearchBackwards
  BY <1>0, <1>9 DEF SearchBackwards, PipelineInv, InputsOK, RelationsOK, GraphOK, FilterOK, OpenedOK,
                    inputs, relations, Split
<1>10. CASE FilterByEta
  BY <1>0, <1>10 DEF FilterByEta, PipelineInv, InputsOK, RelationsOK, GraphOK, FilterOK, OpenedOK,
                     inputs, relations, Split
<1>11. CASE Combine
  BY <1>0, <1>11 DEF Combine, PipelineInv, InputsOK, RelationsOK, GraphOK, FilterOK, OpenedOK,
                     inputs, relations, Split
<1>12. CASE BinActivities
  BY <1>0, <1>12 DEF BinActivities, PipelineInv, InputsOK, RelationsOK, GraphOK, FilterOK, OpenedOK,
                     inputs, relations, filter, Split
<1>13. CASE Sanitize
  BY <1>0, <1>13 DEF Sanitize, PipelineInv, InputsOK, RelationsOK, GraphOK, FilterOK, OpenedOK,
                     inputs, relations, filter, Split
<1>14. CASE UNCHANGED vars
  BY <1>0, <1>14 DEF vars, PipelineInv, InputsOK, RelationsOK, GraphOK, FilterOK, OpenedOK,
                     inputs, merged, relations, filter, opened, Split
<1>15. QED
  BY <1>1, <1>2, <1>3, <1>4, <1>5, <1>6, <1>7, <1>8, <1>9, <1>10, <1>11, <1>12, <1>13, <1>14 DEF Next

\* The invariant of the pipeline: what every stage of build_split_miner_artifacts has computed is
\* what its protocol computes, of the inputs the stages before have left, and has its type.
THEOREM PipelineInvariant == Spec => []PipelineInv
<1>1. InitWith(EventTable) => PipelineInv
  BY PipelineBegins
<1>2. PipelineInv /\ [Next]_vars => PipelineInv'
  BY PipelineStep
<1>3. QED
  BY <1>1, <1>2, PTL DEF Spec

\* The arcs that are left are frequent, and lead neither out of the end nor into the start.
LEMMA FilteredArcs ==
  ASSUME PipelineInv, stage \in Combined
  PROVE  /\ arcs \subseteq AtLeast(graph, 1) /\ Bounded(arcs)
         /\ \A t \in 1 .. Infinity :
              /\ LeadsTo(AtLeast(graph, t), Start) = LeadsTo(AtLeast(graph, t) \cap arcs, Start)
              /\ LeadsTo(Converse(AtLeast(graph, t)), End) =
                   LeadsTo(Converse(AtLeast(graph, t) \cap arcs), End)
<1> DEFINE K == keep_eta_percentile_edges(graph, eta)
           best_in == find_best_incoming_edges(graph, Dim - 1, Infinity)
           best_out == find_best_outgoing_edges(graph, Dim - 2, Infinity)
<1>1. Split(graph) /\ arcs = K \cup IncomingArcs(best_in) \cup OutgoingArcs(best_out)
  BY DEF PipelineInv, GraphOK, FilterOK, Reformatted, FoundIn, FoundOut, Filtered, Combined
<1>2. graph \in Frequencies(Node) /\ eta \in [num : Nat, den : Nat \ {0}]
  BY <1>1, EtasAssumption DEF Split, PipelineInv, InputsOK
<1>3. K \subseteq AtLeast(graph, 1)
  BY <1>2, FrequentArcs
<1> HIDE DEF K
<1>4. /\ arcs \subseteq AtLeast(graph, 1)
      /\ \A t \in 1 .. Infinity :
           /\ LeadsTo(AtLeast(graph, t), Start) = LeadsTo(AtLeast(graph, t) \cap arcs, Start)
           /\ LeadsTo(Converse(AtLeast(graph, t)), End) =
                LeadsTo(Converse(AtLeast(graph, t) \cap arcs), End)
  <2> DEFINE A == K \cup IncomingArcs(best_in) \cup OutgoingArcs(best_out)
  <2>1. /\ A \subseteq AtLeast(graph, 1)
        /\ \A t \in 1 .. Infinity :
             /\ LeadsTo(AtLeast(graph, t), Start) = LeadsTo(AtLeast(graph, t) \cap A, Start)
             /\ LeadsTo(Converse(AtLeast(graph, t)), End) =
                  LeadsTo(Converse(AtLeast(graph, t) \cap A), End)
    BY <1>2, <1>3, InfinityAssumption, FilteredKeepsWidths
  <2>2. arcs = A
    BY <1>1
  <2> HIDE DEF A
  <2>3. QED
    BY <2>1, <2>2
<1>5. Bounded(arcs)
  <2>1. ASSUME NEW p \in arcs PROVE p \in Node \X Node /\ p[1] # End /\ p[2] # Start
    <3>1. p \in Node \X Node /\ graph[p[1]][p[2]] >= 1
      BY <1>4 DEF AtLeast
    <3>2. p[1] \in Node /\ p[2] \in Node
      BY <3>1
    <3>3. graph[End][p[2]] = 0 /\ graph[p[1]][Start] = 0
      BY <3>2, <1>1 DEF Split
    <3>4. QED
      BY <3>1, <3>3
  <2>2. QED
    BY <2>1 DEF Bounded
<1>6. QED
  BY <1>4, <1>5

\* For every event table, any thresholds and any number of activities: the filter invents no arc,
\* and the widest paths from the start and to the end are as wide in the filtered graph as in the
\* pruned one, up to the number of events (find_best_incoming_edges_dijkstra, filter combination).
THEOREM MinerFilterKeepsWidths == Spec => []FilterKeepsWidths
<1>1. PipelineInv => FilterKeepsWidths
  <2> SUFFICES ASSUME PipelineInv, stage = "activity-binning"
               PROVE  /\ arcs \subseteq Frequent(1)
                      /\ \A t \in 1 .. Len(rows) :
                           /\ LeadsTo(Frequent(t), Start) = LeadsTo(Frequent(t) \cap arcs, Start)
                           /\ LeadsTo(Converse(Frequent(t)), End) = LeadsTo(Converse(Frequent(t) \cap arcs), End)
    BY DEF FilterKeepsWidths
  <2>1. \A t : Frequent(t) = AtLeast(graph, t)
    BY DEF Frequent, AtLeast
  <2>2. stage \in Combined
    BY DEF Combined
  <2>3. Len(rows) \in Nat /\ Len(rows) <= Infinity
    BY DEF PipelineInv, InputsOK, EventTable
  <2>4. \A t \in 1 .. Len(rows) : t \in 1 .. Infinity
    BY <2>3, InfinityAssumption
  <2>5. QED
    BY <2>1, <2>2, <2>4, FilteredArcs
<1>2. QED
  BY <1>1, PipelineInvariant, PTL

\* What the last stage has opened is what the sanitizer makes of the filtered arcs.
LEMMA OpenedFromArcs ==
  ASSUME PipelineInv, stage = "done"
  PROVE  /\ ClosureIsComputable /\ Bounded(arcs) /\ arcs \subseteq Node \X Node
         /\ revealed = spdfg_without_orphans(arcs, Reachability(arcs))
         /\ disclosed = disclosed_concurrency(arcs, Reachability(arcs), concurrency)
         /\ \A p \in concurrency : <<p[2],p[1]>> \in concurrency
<1>1. stage \in Combined /\ stage \in Related
  BY DEF Related, Reformatted, FoundIn, FoundOut, Filtered, Combined
<1>2. Bounded(arcs)
  BY <1>1, FilteredArcs
<1>3. QED
  BY <1>1, <1>2 DEF Bounded, PipelineInv, InputsOK, RelationsOK, OpenedOK

\* Whatever the log, every activity of the opened graph lies on a path from the start to the end:
\* the closure by squaring finds all that an activity leads to (sanitize_conc_matrix).
THEOREM MinerEveryActivityOnPath == Spec => []EveryActivityOnPath
<1>1. PipelineInv => EveryActivityOnPath
  BY OpenedFromArcs, ActivitiesOnPath DEF EveryActivityOnPath
<1>2. QED
  BY <1>1, PipelineInvariant, PTL

\* Whatever the log, a disclosed pair is ordered in neither direction by the opened graph, has a
\* common predecessor there, and is disclosed in both directions (sanitize_conc_matrix).
THEOREM MinerDisclosesUnordered == Spec => []DisclosedPairsAreUnordered
<1>1. PipelineInv => DisclosedPairsAreUnordered
  BY OpenedFromArcs, DisclosedUnordered DEF DisclosedPairsAreUnordered
<1>2. QED
  BY <1>1, PipelineInvariant, PTL

\* Whatever the log, recorded concurrency is withheld only for a reason the opened graph shows
\* (sanitize_conc_matrix).
THEOREM MinerWithholdsVisibly == Spec => []WithheldConcurrencyIsVisible
<1>1. PipelineInv => WithheldConcurrencyIsVisible
  BY OpenedFromArcs, WithheldForAReason DEF WithheldConcurrencyIsVisible
<1>2. QED
  BY <1>1, PipelineInvariant, PTL

(***************************************************************************)
(* The log both miners read                                                *)
(***************************************************************************)

\* Row i of a table comes before row j of its case; j is next.
Earlier(t, i, j) ==
  t[i].case = t[j].case /\ (t[i].time < t[j].time \/ (t[i].time = t[j].time /\ i < j))
NextTo(t, n, i, j) == Earlier(t, i, j) /\ ~\E k \in 1 .. n : Earlier(t, i, k) /\ Earlier(t, k, j)

\* list lists the rows of t in the order f: cases stand together and are in the order of time.
Listing(list, t, f, n) ==
  /\ Rearranges(f, n) /\ list = [p \in 1 .. n |-> t[f[p]]]
  /\ \A p, q \in 1 .. n : p < q /\ t[f[p]].case = t[f[q]].case => Earlier(t, f[p], f[q])
  /\ \A p, q, r \in 1 .. n : p <= q /\ q <= r /\ t[f[p]].case = t[f[r]].case => t[f[q]].case = t[f[p]].case

Listings(list, t, n) == {f \in [1 .. n -> 1 .. n] : Listing(list, t, f, n)}

\* A table: what is shared of a list.
Table(t, n) ==
  /\ n \in Nat /\ n >= 1 /\ DOMAIN t = 1 .. n /\ Len(t) = n
  /\ \A i \in 1 .. n : t[i].case \in CaseId /\ t[i].time \in Nat /\ t[i].act \in Act

\* The order of the rows of a case is strict.
LEMMA EarlierIsOrder ==
  ASSUME NEW t, NEW n, Table(t, n)
  PROVE  /\ \A i, j \in 1 .. n : t[i].case = t[j].case /\ i # j => Earlier(t, i, j) \/ Earlier(t, j, i)
         /\ \A i, j \in 1 .. n : Earlier(t, i, j) => ~Earlier(t, j, i) /\ i # j
         /\ \A i, j, k \in 1 .. n : Earlier(t, i, j) /\ Earlier(t, j, k) => Earlier(t, i, k)
<1>1. \A i \in 1 .. n : i \in Int /\ t[i].time \in Int
  BY DEF Table
<1>2. ASSUME NEW i \in 1 .. n, NEW j \in 1 .. n, t[i].case = t[j].case, i # j
      PROVE  Earlier(t, i, j) \/ Earlier(t, j, i)
  BY <1>1, <1>2 DEF Earlier
<1>3. ASSUME NEW i \in 1 .. n, NEW j \in 1 .. n, Earlier(t, i, j) PROVE ~Earlier(t, j, i) /\ i # j
  BY <1>1, <1>3 DEF Earlier
<1>4. ASSUME NEW i \in 1 .. n, NEW j \in 1 .. n, NEW k \in 1 .. n, Earlier(t, i, j), Earlier(t, j, k)
      PROVE  Earlier(t, i, k)
  BY <1>1, <1>4 DEF Earlier
<1>5. QED
  BY <1>2, <1>3, <1>4

\* In a listing the rows of a case that are next to each other are neighbours.
LEMMA NeighboursInCase ==
  ASSUME NEW t, NEW n, Table(t, n), NEW list, NEW f, Listing(list, t, f, n), NEW q \in 1 .. n
  PROVE  /\ q > 1 /\ list[q-1].case = list[q].case => NextTo(t, n, f[q-1], f[q])
         /\ \A i \in 1 .. n : NextTo(t, n, i, f[q]) => q > 1 /\ i = f[q-1] /\ list[q-1].case = list[q].case
<1>1. /\ f \in [1 .. n -> 1 .. n] /\ \A i \in 1 .. n : \E p \in 1 .. n : f[p] = i
      /\ \A p \in 1 .. n : list[p] = t[f[p]]
      /\ \A p, r \in 1 .. n : p < r /\ t[f[p]].case = t[f[r]].case => Earlier(t, f[p], f[r])
      /\ \A p, s, r \in 1 .. n : p <= s /\ s <= r /\ t[f[p]].case = t[f[r]].case => t[f[s]].case = t[f[p]].case
  BY DEF Listing, Rearranges
<1>2. /\ \A i, j \in 1 .. n : Earlier(t, i, j) => ~Earlier(t, j, i) /\ i # j
      /\ \A i, j \in 1 .. n : Earlier(t, i, j) => t[i].case = t[j].case
  BY EarlierIsOrder DEF Earlier
<1>3. n \in Nat
  BY DEF Table
<1>4. ASSUME q > 1, list[q-1].case = list[q].case PROVE NextTo(t, n, f[q-1], f[q])
  <2>1. q - 1 \in 1 .. n /\ q - 1 < q
    BY <1>3, <1>4
  <2>2. Earlier(t, f[q-1], f[q])
    BY <1>1, <1>4, <2>1
  <2>3. ASSUME NEW k \in 1 .. n, Earlier(t, f[q-1], k), Earlier(t, k, f[q]) PROVE FALSE
    <3>1. PICK r \in 1 .. n : f[r] = k
      BY <1>1
    <3>2. r # q /\ r # q - 1 /\ t[f[r]].case = t[f[q]].case /\ t[f[q-1]].case = t[f[r]].case
      <4>1. f[q-1] \in 1 .. n /\ f[q] \in 1 .. n /\ k \in 1 .. n
        BY <1>1, <2>1
      <4>2. f[q-1] # k /\ k # f[q] /\ t[f[q-1]].case = t[k].case /\ t[k].case = t[f[q]].case
        BY <1>2, <2>3, <4>1
      <4>3. QED
        BY <3>1, <4>2
    <3>3. r < q - 1 \/ q < r
      BY <1>3, <2>1, <3>2
    <3>4. CASE r < q - 1
      <4>1. Earlier(t, f[r], f[q-1])
        BY <1>1, <2>1, <3>2, <3>4
      <4>2. QED
        BY <1>1, <1>2, <2>1, <2>3, <3>1, <4>1
    <3>5. CASE q < r
      <4>1. Earlier(t, f[q], f[r])
        BY <1>1, <3>2, <3>5
      <4>2. QED
        BY <1>1, <1>2, <2>3, <3>1, <4>1
    <3>6. QED
      BY <3>3, <3>4, <3>5
  <2>4. QED
    BY <2>2, <2>3 DEF NextTo
<1>5. ASSUME NEW i \in 1 .. n, NextTo(t, n, i, f[q])
      PROVE  q > 1 /\ i = f[q-1] /\ list[q-1].case = list[q].case
  <2>1. Earlier(t, i, f[q]) /\ \A k \in 1 .. n : ~(Earlier(t, i, k) /\ Earlier(t, k, f[q]))
    BY <1>5 DEF NextTo
  <2>2. PICK p \in 1 .. n : f[p] = i
    BY <1>1
  <2>3. p # q /\ t[f[p]].case = t[f[q]].case
    BY <1>1, <1>2, <2>1, <2>2, ZenonT(60)
  <2>4. ~(q < p)
    <3>1. q < p => Earlier(t, f[q], f[p])
      BY <1>1, <2>3
    <3>2. QED
      BY <1>1, <1>2, <2>1, <2>2, <3>1
  <2>5. p <= q - 1 /\ q - 1 \in 1 .. n /\ q - 1 <= q /\ q > 1 /\ q - 1 < q
    BY <1>3, <2>3, <2>4
  <2>6. t[f[q-1]].case = t[f[p]].case
    BY <1>1, <2>3, <2>5
  <2>7. p = q - 1
    <3> SUFFICES ASSUME p # q - 1 PROVE FALSE
      OBVIOUS
    <3>1. p < q - 1
      BY <2>5
    <3>2. Earlier(t, f[p], f[q-1])
      BY <1>1, <2>5, <2>6, <3>1
    <3>3. Earlier(t, f[q-1], f[q])
      BY <1>1, <2>3, <2>5, <2>6
    <3>4. f[q-1] \in 1 .. n
      BY <1>1, <2>5
    <3>5. QED
      BY <2>1, <2>2, <3>2, <3>3, <3>4
  <2>8. QED
    BY <1>1, <2>2, <2>3, <2>5, <2>7
<1>6. QED
  BY <1>4, <1>5

\* The merge of the protocols is a listing of the table.
LEMMA ProtocolLists ==
  ASSUME NEW t, NEW n, Table(t, n),
         \A c \in CaseId : SameSign({t[i].time : i \in {j \in DOMAIN t : t[j].case = c}})
  PROVE  Listings(SortByCaseId(SortByTimestamp(t)), t, n) # {}
<1>1. /\ n \in Nat /\ DOMAIN t = 1 .. n
      /\ \A i \in 1 .. n : t[i].case \in CaseId /\ t[i].time \in Nat /\ t[i].case \in Nat
  BY DEF Table, CaseId
<1>2. PICK f : f \in [1 .. n -> 1 .. n] /\ Merging(f, t, n)
               /\ SortByCaseId(SortByTimestamp(t)) = [p \in 1 .. n |-> t[f[p]]]
  <2>1. Mergings(t, n) # {}
    BY <1>1, TwoSortsMerge
  <2>2. QED
    BY <2>1 DEF Mergings
<1>3. ASSUME NEW p \in 1 .. n, NEW q \in 1 .. n, p < q, t[f[p]].case = t[f[q]].case
      PROVE  Earlier(t, f[p], f[q])
  <2> DEFINE key(x) == RadixKey(x, TimestampBits)
             k == [i \in 1 .. n |-> key(t[i].time)]
             h == 2^(TimestampBits-1)
             times == {t[i].time : i \in {j \in DOMAIN t : t[j].case = t[f[p]].case}}
  <2>1. Precedes([i \in 1 .. n |-> RadixKey(t[i].time, TimestampBits)], f[p], f[q]) /\ f[p] # f[q]
    BY <1>2, <1>3 DEF Merging, Rearranges
  <2>2. \A x \in Nat : key(x) \in Int
    BY RadixKeySwaps, BitsAssumption
  <2>3. f[p] \in 1 .. n /\ f[q] \in 1 .. n
    BY <1>2
  <2>4. k[f[p]] = key(t[f[p]].time) /\ k[f[q]] = key(t[f[q]].time) /\ Precedes(k, f[p], f[q])
    BY <2>1, <2>3
  <2>5. t[f[p]].time \in times /\ t[f[q]].time \in times
    BY <1>1, <1>3, <2>3
  <2>6. times \subseteq 0 .. h - 1 \/ times \subseteq h .. 2^TimestampBits - 1
    BY <1>1, <2>3 DEF SameSign
  <2>7. /\ h \in Nat /\ 2^TimestampBits = 2 * h
        /\ \A z \in Nat : (z < h => key(z) = z + h) /\ (h <= z /\ z < 2^TimestampBits => key(z) = z - h)
    BY RadixKeySwaps, BitsAssumption
  <2>8. t[f[p]].time \in Nat /\ t[f[q]].time \in Nat
    BY <1>1, <2>3
  <2> DEFINE x == t[f[p]].time
             y == t[f[q]].time
  <2>9. key(x) < key(y) \/ (key(x) = key(y) /\ f[p] <= f[q])
    BY <2>4 DEF Precedes
  <2>10. \/ x < h /\ y < h
         \/ h <= x /\ x < 2^TimestampBits /\ h <= y /\ y < 2^TimestampBits
    <3>1. x \in Nat /\ y \in Nat /\ x \in times /\ y \in times
      BY <2>5, <2>8
    <3> HIDE DEF x, y, times, h
    <3>2. QED
      BY <2>6, <2>7, <3>1
  <2>11. x < y \/ (x = y /\ f[p] < f[q])
    <3>1. x \in Nat /\ y \in Nat /\ f[p] \in Int /\ f[q] \in Int
      BY <2>3, <2>8
    <3> HIDE DEF x, y, times, h, key, k
    <3>2. QED
      BY <2>1, <2>7, <2>9, <2>10, <3>1
  <2>12. QED
    BY <1>3, <2>11 DEF Earlier
<1>4. ASSUME NEW p \in 1 .. n, NEW q \in 1 .. n, NEW r \in 1 .. n, p <= q, q <= r, t[f[p]].case = t[f[r]].case
      PROVE  t[f[q]].case = t[f[p]].case
  <2>1. n \in Nat /\ Merging(f, t, n)
    BY <1>1, <1>2
  <2>2. \A i \in 1 .. n : t[i].case \in CaseId
    BY <1>1
  <2>3. p <= q /\ q <= r /\ t[f[p]].case = t[f[r]].case
    BY <1>4
  <2>4. QED
    BY <2>1, <2>2, <2>3, CasesStandTogether
<1>5. Rearranges(f, n)
  BY <1>2 DEF Merging
<1>6. QED
  BY <1>2, <1>3, <1>4, <1>5 DEF Listing, Listings

\* The members of D, a set 1 .. n, in the order B of pairs.
Ranked(B, D) == [p \in D |-> CHOOSE i \in D : Cardinality({j \in D : <<j,i>> \in B}) = p - 1]

\* B is a strict order of 1 .. n.
StrictOrder(B, n) ==
  /\ \A i, j \in 1 .. n : i # j => <<i,j>> \in B \/ <<j,i>> \in B
  /\ \A i, j \in 1 .. n : <<i,j>> \in B => <<j,i>> \notin B
  /\ \A i, j, k \in 1 .. n : <<i,j>> \in B /\ <<j,k>> \in B => <<i,k>> \in B

\* Counting what comes before lists the positions in a strict order.
LEMMA RanksList ==
  ASSUME NEW n \in Nat, NEW B, StrictOrder(B, n), NEW D, D = 1 .. n
  PROVE  /\ Rearranges(Ranked(B, D), n)
         /\ \A p, q \in 1 .. n : p < q => <<Ranked(B, D)[p], Ranked(B, D)[q]>> \in B
<1> DEFINE Before(i) == {j \in D : <<j,i>> \in B}
           rank == [i \in 1 .. n |-> Cardinality(Before(i)) + 1]
           chosen(p) == CHOOSE i \in D : Cardinality(Before(i)) = p - 1
           f == Ranked(B, D)
<1>1. IsFiniteSet(1 .. n) /\ Cardinality(1 .. n) = n
  BY FS_Interval
<1>2. ASSUME NEW i \in 1 .. n
      PROVE  IsFiniteSet(Before(i)) /\ Cardinality(Before(i)) \in 0 .. n - 1
  <2>1. Before(i) \subseteq 1 .. n /\ i \notin Before(i)
    BY DEF StrictOrder
  <2> HIDE DEF Before
  <2>2. IsFiniteSet(Before(i)) /\ Cardinality(Before(i)) <= n /\ Cardinality(Before(i)) # n
    BY <1>1, <2>1, FS_Subset
  <2>3. Cardinality(Before(i)) \in Nat
    BY <2>2, FS_CardinalityType
  <2>4. QED
    BY <2>2, <2>3
<1>3. ASSUME NEW i \in 1 .. n, NEW k \in 1 .. n, <<i,k>> \in B
      PROVE  Cardinality(Before(i)) < Cardinality(Before(k))
  <2>1. Before(i) \subseteq Before(k) /\ i \in Before(k) /\ i \notin Before(i)
    BY <1>3 DEF StrictOrder
  <2> HIDE DEF Before
  <2>2. IsFiniteSet(Before(k)) /\ Cardinality(Before(i)) \in Nat /\ Cardinality(Before(k)) \in Nat
    BY <1>2
  <2>3. Cardinality(Before(i)) <= Cardinality(Before(k)) /\ Cardinality(Before(i)) # Cardinality(Before(k))
    BY <2>1, <2>2, FS_Subset
  <2>4. QED
    BY <2>2, <2>3
<1>4. f = [p \in D |-> chosen(p)]
  BY DEF Ranked
<1> HIDE DEF chosen, f
<1>5. f = [p \in 1 .. n |-> f[p]] /\ \A p \in 1 .. n : f[p] = chosen(p)
  BY <1>4
<1> HIDE DEF Before
<1>6. ASSUME NEW i \in 1 .. n PROVE rank[i] = Cardinality(Before(i)) + 1 /\ rank[i] \in 1 .. n
  BY <1>2
<1> HIDE DEF rank
<1>7. ASSUME NEW i \in 1 .. n, NEW k \in 1 .. n, i # k
      PROVE  (<<i,k>> \in B /\ rank[i] < rank[k]) \/ (<<k,i>> \in B /\ rank[k] < rank[i])
  <2>1. \A a, b \in 1 .. n : <<a,b>> \in B => rank[a] < rank[b]
    <3> SUFFICES ASSUME NEW a \in 1 .. n, NEW b \in 1 .. n, <<a,b>> \in B PROVE rank[a] < rank[b]
      OBVIOUS
    <3>1. Cardinality(Before(a)) < Cardinality(Before(b))
      BY <1>3
    <3>2. QED
      BY <1>2, <1>6, <3>1
  <2>2. QED
    BY <1>7, <2>1 DEF StrictOrder
<1>12. \A i, k \in 1 .. n : rank[i] = rank[k] => i = k
  <2> SUFFICES ASSUME NEW i \in 1 .. n, NEW k \in 1 .. n, rank[i] = rank[k], i # k PROVE FALSE
    OBVIOUS
  <2>1. rank[i] \in Int /\ rank[k] \in Int
    BY <1>6
  <2>2. rank[i] < rank[k] \/ rank[k] < rank[i]
    BY <1>7
  <2>3. QED
    BY <2>1, <2>2
<1>8. \A p \in 1 .. n : \E i \in 1 .. n : rank[i] = p
  <2>1. rank \in [1 .. n -> 1 .. n]
    BY <1>6 DEF rank
  <2>2. \A i, k \in 1 .. n : rank[i] = rank[k] => i = k
    BY <1>12
  <2>3. rank \in Injection(1 .. n, 1 .. n)
    BY <2>1, <2>2 DEF Injection, IsInjective
  <2>4. rank \in Surjection(1 .. n, 1 .. n)
    BY <1>1, <2>3, FS_Injection
  <2>5. QED
    BY <2>4 DEF Surjection
<1>9. ASSUME NEW p \in 1 .. n PROVE f[p] \in 1 .. n /\ rank[f[p]] = p
  <2>1. PICK i \in 1 .. n : rank[i] = p
    BY <1>8
  <2>2. Cardinality(Before(i)) = p - 1
    BY <1>2, <1>6, <2>1
  <2>3. f[p] \in 1 .. n /\ Cardinality(Before(f[p])) = p - 1
    <3>1. i \in D /\ D = 1 .. n
      OBVIOUS
    <3>2. chosen(p) \in D /\ Cardinality(Before(chosen(p))) = p - 1
      BY <2>2, <3>1 DEF chosen
    <3>3. QED
      BY <1>5, <3>1, <3>2
  <2>4. QED
    BY <1>6, <2>3
<1>10. \A i \in 1 .. n : \E p \in 1 .. n : f[p] = i
  <2> SUFFICES ASSUME NEW i \in 1 .. n PROVE \E p \in 1 .. n : f[p] = i
    OBVIOUS
  <2>1. rank[i] \in 1 .. n /\ rank[f[rank[i]]] = rank[i] /\ f[rank[i]] \in 1 .. n
    BY <1>6, <1>9
  <2>2. f[rank[i]] = i
    BY <1>12, <2>1
  <2>3. QED
    BY <2>1, <2>2
<1>11. \A p, q \in 1 .. n : p < q => f[p] # f[q] /\ <<f[p],f[q]>> \in B
  <2> SUFFICES ASSUME NEW p \in 1 .. n, NEW q \in 1 .. n, p < q
               PROVE  f[p] # f[q] /\ <<f[p],f[q]>> \in B
    OBVIOUS
  <2>1. f[p] \in 1 .. n /\ f[q] \in 1 .. n /\ rank[f[p]] = p /\ rank[f[q]] = q
    BY <1>9
  <2>2. f[p] # f[q]
    BY <2>1
  <2>3. QED
    <3>1. ~(rank[f[q]] < rank[f[p]])
      BY <2>1
    <3> DEFINE a == f[p]
               b == f[q]
    <3>2. a \in 1 .. n /\ b \in 1 .. n /\ a # b /\ ~(rank[b] < rank[a])
      BY <2>1, <2>2, <3>1
    <3> HIDE DEF a, b
    <3>3. <<a,b>> \in B
      BY <1>7, <3>2
    <3>4. QED
      BY <2>2, <3>3 DEF a, b
<1>13. f \in [1 .. n -> 1 .. n]
  BY <1>5, <1>9
<1>14. QED
  BY <1>10, <1>11, <1>13 DEF Rearranges, f

\* The merge of the reference is a listing of the table.
LEMMA ReferenceLists ==
  ASSUME NEW t, NEW n, Table(t, n)
  PROVE  Listings(Ref!merge(t), t, n) # {}
<1> DEFINE B == {p \in (1 .. n) \X (1 .. n) : Ref!KeyBefore(t, p[1], p[2])}
           f == Ranked(B, DOMAIN t)
<1>1. /\ n \in Nat /\ DOMAIN t = 1 .. n
      /\ \A i \in 1 .. n : i \in Int /\ t[i].case \in Int /\ t[i].time \in Int
  BY DEF Table, CaseId
<1>2. StrictOrder(B, n)
  <2>1. \A i, j \in 1 .. n : i # j => Ref!KeyBefore(t, i, j) \/ Ref!KeyBefore(t, j, i)
    BY <1>1 DEF Ref!KeyBefore
  <2>2. \A i, j \in 1 .. n : Ref!KeyBefore(t, i, j) => ~Ref!KeyBefore(t, j, i)
    BY <1>1 DEF Ref!KeyBefore
  <2>3. \A i, j, k \in 1 .. n : Ref!KeyBefore(t, i, j) /\ Ref!KeyBefore(t, j, k) => Ref!KeyBefore(t, i, k)
    BY <1>1 DEF Ref!KeyBefore
  <2>4. QED
    BY <2>1, <2>2, <2>3 DEF StrictOrder
<1>3. /\ Rearranges(f, n)
      /\ \A p, q \in 1 .. n : p < q => Ref!KeyBefore(t, f[p], f[q])
  <2>1. /\ Rearranges(f, n)
        /\ \A p, q \in 1 .. n : p < q => <<f[p],f[q]>> \in B
    <3> HIDE DEF B
    <3>1. QED
      BY <1>1, <1>2, RanksList
  <2>2. QED
    BY <2>1
<1>4. Ref!merge(t) = [p \in 1 .. n |-> t[f[p]]]
  <2> DEFINE D == DOMAIN t
  <2>1. ASSUME NEW p \in D
        PROVE  (CHOOSE i \in D : Cardinality({j \in D : Ref!KeyBefore(t, j, i)}) = p - 1) = f[p]
    <3>1. \A i \in D : {j \in D : Ref!KeyBefore(t, j, i)} = {j \in D : <<j,i>> \in B}
      BY <1>1
    <3>2. f[p] = CHOOSE i \in D : Cardinality({j \in D : <<j,i>> \in B}) = p - 1
      BY DEF Ranked
    <3> HIDE DEF f, B, D
    <3>3. QED
      BY <3>1, <3>2
  <2>2. Ref!merge(t) = [p \in D |-> t[CHOOSE i \in D : Cardinality({j \in D : Ref!KeyBefore(t, j, i)}) = p - 1]]
    BY DEF Ref!merge, Ref!Cardinality, Cardinality
  <2> HIDE DEF f, B
  <2>3. Ref!merge(t) = [p \in D |-> t[f[p]]]
    <3> HIDE DEF D
    <3>1. QED
      BY <2>1, <2>2, Zenon
  <2>4. QED
    BY <1>1, <2>3
<1> HIDE DEF f, B
<1>5. f \in [1 .. n -> 1 .. n]
  BY <1>3 DEF Rearranges
<1>6. \A p, q \in 1 .. n : p < q => t[f[p]].case <= t[f[q]].case
  <2> SUFFICES ASSUME NEW p \in 1 .. n, NEW q \in 1 .. n, p < q PROVE t[f[p]].case <= t[f[q]].case
    OBVIOUS
  <2>1. f[p] \in 1 .. n /\ f[q] \in 1 .. n /\ Ref!KeyBefore(t, f[p], f[q])
    BY <1>3, <1>5
  <2>2. t[f[p]].case \in Int /\ t[f[q]].case \in Int
    BY <1>1, <2>1
  <2>3. QED
    BY <2>1, <2>2 DEF Ref!KeyBefore
<1>7. \A p, q \in 1 .. n : p < q /\ t[f[p]].case = t[f[q]].case => Earlier(t, f[p], f[q])
  <2> SUFFICES ASSUME NEW p \in 1 .. n, NEW q \in 1 .. n, p < q, t[f[p]].case = t[f[q]].case
               PROVE  Earlier(t, f[p], f[q])
    OBVIOUS
  <2>1. f[p] \in 1 .. n /\ f[q] \in 1 .. n /\ Ref!KeyBefore(t, f[p], f[q])
    BY <1>3, <1>5
  <2>2. t[f[p]].case \in Int /\ t[f[q]].case \in Int
    BY <1>1, <2>1
  <2>3. QED
    BY <2>1, <2>2 DEF Ref!KeyBefore, Earlier
<1>8. \A p, q, r \in 1 .. n : p <= q /\ q <= r /\ t[f[p]].case = t[f[r]].case => t[f[q]].case = t[f[p]].case
  <2> SUFFICES ASSUME NEW p \in 1 .. n, NEW q \in 1 .. n, NEW r \in 1 .. n, p <= q, q <= r,
                      t[f[p]].case = t[f[r]].case
               PROVE  t[f[q]].case = t[f[p]].case
    OBVIOUS
  <2>1. t[f[p]].case \in Int /\ t[f[q]].case \in Int /\ t[f[r]].case \in Int
    BY <1>1, <1>5
  <2>2. (p = q \/ p < q) /\ (q = r \/ q < r)
    BY <1>1
  <2>3. (p = q \/ t[f[p]].case <= t[f[q]].case) /\ (q = r \/ t[f[q]].case <= t[f[r]].case)
    BY <1>6, <2>2
  <2>4. QED
    BY <2>1, <2>3
<1>9. QED
  BY <1>3, <1>4, <1>5, <1>7, <1>8 DEF Listing, Listings

\* The successions a, b within the cases of a log, the rows b that start one and those that end one.
SuccessionsIn(s, n, a, b) ==
  {q \in 1 .. n : q > 1 /\ s[q-1].case = s[q].case /\ s[q-1].act = a /\ s[q].act = b}
HeadsIn(s, n, b) == {q \in 1 .. n : (q = 1 \/ s[q-1].case # s[q].case) /\ s[q].act = b}
TailsIn(s, n, a) == {q \in 1 .. n : (q = n \/ s[q+1].case # s[q].case) /\ s[q].act = a}
LoopsIn(s, n) ==
  {p \in Act \X Act : \E q \in 1 .. n : /\ q + 2 \in 1 .. n /\ s[q].case = s[q+1].case /\ s[q+1].case = s[q+2].case
                                        /\ s[q].act = p[1] /\ s[q+1].act = p[2] /\ s[q+2].act = p[1]}

\* The same of the table itself, whatever lists it.
SuccessionsOf(t, n, a, b) == {j \in 1 .. n : t[j].act = b /\ \E i \in 1 .. n : NextTo(t, n, i, j) /\ t[i].act = a}
HeadsOf(t, n, b) == {j \in 1 .. n : t[j].act = b /\ \A i \in 1 .. n : ~NextTo(t, n, i, j)}
TailsOf(t, n, a) == {i \in 1 .. n : t[i].act = a /\ \A j \in 1 .. n : ~NextTo(t, n, i, j)}
LoopsOf(t, n) ==
  {p \in Act \X Act : \E i, j, k \in 1 .. n : /\ NextTo(t, n, i, j) /\ NextTo(t, n, j, k)
                                              /\ t[i].act = p[1] /\ t[j].act = p[2] /\ t[k].act = p[1]}

\* They are the same numbers and loops in every listing.
LEMMA ListingCounts ==
  ASSUME NEW t, NEW n, Table(t, n), NEW s, NEW f, Listing(s, t, f, n), NEW a, NEW b
  PROVE  /\ Cardinality(SuccessionsIn(s, n, a, b)) = Cardinality(SuccessionsOf(t, n, a, b))
         /\ Cardinality(HeadsIn(s, n, b)) = Cardinality(HeadsOf(t, n, b))
         /\ Cardinality(TailsIn(s, n, a)) = Cardinality(TailsOf(t, n, a))
<1>1. /\ n \in Nat /\ Rearranges(f, n)
      /\ \A q \in 1 .. n : f[q] \in 1 .. n /\ s[q] = t[f[q]]
  BY DEF Table, Listing, Rearranges
<1>2. ASSUME NEW q \in 1 .. n
      PROVE  /\ q > 1 /\ s[q-1].case = s[q].case => NextTo(t, n, f[q-1], f[q])
             /\ \A i \in 1 .. n : NextTo(t, n, i, f[q]) => q > 1 /\ i = f[q-1] /\ s[q-1].case = s[q].case
  BY NeighboursInCase
<1>3. \A q \in 1 .. n : q > 1 => q - 1 \in 1 .. n
  BY <1>1
<1>4. ASSUME NEW q \in 1 .. n PROVE q \in SuccessionsIn(s, n, a, b) <=> f[q] \in SuccessionsOf(t, n, a, b)
  <2>1. ASSUME q \in SuccessionsIn(s, n, a, b) PROVE f[q] \in SuccessionsOf(t, n, a, b)
    <3>1. q > 1 /\ s[q-1].case = s[q].case /\ s[q-1].act = a /\ s[q].act = b /\ q - 1 \in 1 .. n
      BY <1>3, <2>1 DEF SuccessionsIn
    <3>2. NextTo(t, n, f[q-1], f[q])
      BY <1>2, <3>1
    <3>3. f[q-1] \in 1 .. n /\ f[q] \in 1 .. n /\ t[f[q-1]].act = a /\ t[f[q]].act = b
      BY <1>1, <3>1
    <3>4. QED
      BY <3>2, <3>3 DEF SuccessionsOf
  <2>2. ASSUME f[q] \in SuccessionsOf(t, n, a, b) PROVE q \in SuccessionsIn(s, n, a, b)
    <3>1. t[f[q]].act = b
      BY <2>2 DEF SuccessionsOf
    <3>2. PICK i \in 1 .. n : NextTo(t, n, i, f[q]) /\ t[i].act = a
      BY <2>2 DEF SuccessionsOf
    <3>3. q > 1 /\ i = f[q-1] /\ s[q-1].case = s[q].case
      BY <1>2, <3>2
    <3>4. s[q-1].act = a /\ s[q].act = b
      BY <1>1, <1>3, <3>1, <3>2, <3>3
    <3>5. QED
      BY <3>3, <3>4 DEF SuccessionsIn
  <2>3. QED
    BY <2>1, <2>2
<1>5. ASSUME NEW q \in 1 .. n PROVE q \in HeadsIn(s, n, b) <=> f[q] \in HeadsOf(t, n, b)
  <2>1. ASSUME q \in HeadsIn(s, n, b) PROVE f[q] \in HeadsOf(t, n, b)
    <3>1. (q = 1 \/ s[q-1].case # s[q].case) /\ s[q].act = b
      BY <2>1 DEF HeadsIn
    <3>2. \A i \in 1 .. n : ~NextTo(t, n, i, f[q])
      BY <1>2, <3>1
    <3>3. QED
      BY <1>1, <3>1, <3>2 DEF HeadsOf
  <2>2. ASSUME f[q] \in HeadsOf(t, n, b) PROVE q \in HeadsIn(s, n, b)
    <3>1. t[f[q]].act = b /\ \A i \in 1 .. n : ~NextTo(t, n, i, f[q])
      BY <2>2 DEF HeadsOf
    <3>2. q > 1 => s[q-1].case # s[q].case
      BY <1>1, <1>2, <1>3, <3>1
    <3>3. q = 1 \/ q > 1
      BY <1>1
    <3>4. QED
      BY <1>1, <3>1, <3>2, <3>3 DEF HeadsIn
  <2>3. QED
    BY <2>1, <2>2
<1>6. ASSUME NEW q \in 1 .. n PROVE q \in TailsIn(s, n, a) <=> f[q] \in TailsOf(t, n, a)
  <2>1. ASSUME q \in TailsIn(s, n, a), NEW j \in 1 .. n, NextTo(t, n, f[q], j) PROVE FALSE
    <3>1. PICK r \in 1 .. n : f[r] = j
      BY <1>1 DEF Rearranges
    <3>2. r > 1 /\ f[q] = f[r-1] /\ s[r-1].case = s[r].case
      BY <1>1, <1>2, <2>1, <3>1
    <3>3. r - 1 = q
      <4>1. r - 1 \in 1 .. n /\ r - 1 \in Int /\ q \in Int
        BY <1>3, <3>2
      <4>2. ~(r - 1 < q) /\ ~(q < r - 1)
        BY <1>1, <3>2, <4>1 DEF Rearranges
      <4>3. QED
        BY <4>1, <4>2
    <3>4. q # n /\ r = q + 1
      BY <1>1, <3>3
    <3>5. QED
      BY <2>1, <3>2, <3>3, <3>4 DEF TailsIn
  <2>2. ASSUME f[q] \in TailsOf(t, n, a) PROVE q \in TailsIn(s, n, a)
    <3>1. t[f[q]].act = a /\ \A j \in 1 .. n : ~NextTo(t, n, f[q], j)
      BY <2>2 DEF TailsOf
    <3>2. q # n => s[q+1].case # s[q].case
      <4> SUFFICES ASSUME q # n, s[q+1].case = s[q].case PROVE FALSE
        OBVIOUS
      <4>1. q + 1 \in 1 .. n /\ (q + 1) - 1 = q /\ q + 1 > 1
        BY <1>1
      <4>2. NextTo(t, n, f[q], f[q+1])
        BY <1>2, <4>1
      <4>3. QED
        BY <1>1, <3>1, <4>1, <4>2
    <3>3. QED
      BY <1>1, <3>1, <3>2 DEF TailsIn
  <2>3. q \in TailsIn(s, n, a) => f[q] \in TailsOf(t, n, a)
    BY <1>1, <2>1 DEF TailsIn, TailsOf
  <2>4. QED
    BY <2>2, <2>3
<1>7. /\ Takes(f, SuccessionsIn(s, n, a, b), SuccessionsOf(t, n, a, b), n)
      /\ Takes(f, HeadsIn(s, n, b), HeadsOf(t, n, b), n)
      /\ Takes(f, TailsIn(s, n, a), TailsOf(t, n, a), n)
  <2>1. /\ SuccessionsIn(s, n, a, b) \subseteq 1 .. n /\ SuccessionsOf(t, n, a, b) \subseteq 1 .. n
        /\ HeadsIn(s, n, b) \subseteq 1 .. n /\ HeadsOf(t, n, b) \subseteq 1 .. n
        /\ TailsIn(s, n, a) \subseteq 1 .. n /\ TailsOf(t, n, a) \subseteq 1 .. n
    BY DEF SuccessionsIn, SuccessionsOf, HeadsIn, HeadsOf, TailsIn, TailsOf
  <2>2. QED
    BY <1>4, <1>5, <1>6, <2>1 DEF Takes
<1>8. QED
  BY <1>1, <1>7, MappedCount

\* Nor on the activities that alternate.
LEMMA ListingLoops ==
  ASSUME NEW t, NEW n, Table(t, n), NEW s, NEW f, Listing(s, t, f, n)
  PROVE  LoopsIn(s, n) = LoopsOf(t, n)
<1>1. /\ n \in Nat /\ Rearranges(f, n)
      /\ \A q \in 1 .. n : f[q] \in 1 .. n /\ s[q] = t[f[q]]
  BY DEF Table, Listing, Rearranges
<1>2. ASSUME NEW q \in 1 .. n
      PROVE  /\ q > 1 /\ s[q-1].case = s[q].case => NextTo(t, n, f[q-1], f[q])
             /\ \A i \in 1 .. n : NextTo(t, n, i, f[q]) => q > 1 /\ i = f[q-1] /\ s[q-1].case = s[q].case
  BY NeighboursInCase
<1>3. ASSUME NEW q \in 1 .. n, q + 1 \in 1 .. n, s[q].case = s[q+1].case PROVE NextTo(t, n, f[q], f[q+1])
  <2>1. (q + 1) - 1 = q /\ q + 1 > 1
    BY <1>1
  <2>2. QED
    BY <1>2, <1>3, <2>1
<1>4. ASSUME NEW p \in Act \X Act, p \in LoopsIn(s, n) PROVE p \in LoopsOf(t, n)
  <2>1. PICK q \in 1 .. n : /\ q + 2 \in 1 .. n /\ s[q].case = s[q+1].case /\ s[q+1].case = s[q+2].case
                            /\ s[q].act = p[1] /\ s[q+1].act = p[2] /\ s[q+2].act = p[1]
    BY <1>4 DEF LoopsIn
  <2>2. q + 1 \in 1 .. n /\ (q + 1) + 1 = q + 2
    BY <1>1, <2>1
  <2>3. NextTo(t, n, f[q], f[q+1]) /\ NextTo(t, n, f[q+1], f[q+2])
    BY <1>3, <2>1, <2>2
  <2>4. /\ f[q] \in 1 .. n /\ f[q+1] \in 1 .. n /\ f[q+2] \in 1 .. n
        /\ t[f[q]].act = p[1] /\ t[f[q+1]].act = p[2] /\ t[f[q+2]].act = p[1]
    BY <1>1, <2>1, <2>2
  <2>5. QED
    BY <2>3, <2>4 DEF LoopsOf
<1>5. ASSUME NEW p \in Act \X Act, p \in LoopsOf(t, n) PROVE p \in LoopsIn(s, n)
  <2>1. PICK i \in 1 .. n, j \in 1 .. n, k \in 1 .. n :
          /\ NextTo(t, n, i, j) /\ NextTo(t, n, j, k)
          /\ t[i].act = p[1] /\ t[j].act = p[2] /\ t[k].act = p[1]
    BY <1>5 DEF LoopsOf
  <2>2. PICK r \in 1 .. n : f[r] = k
    BY <1>1 DEF Rearranges
  <2>3. r > 1 /\ j = f[r-1] /\ s[r-1].case = s[r].case
    BY <1>2, <2>1, <2>2
  <2>4. r - 1 \in 1 .. n
    BY <1>1, <2>3
  <2>5. r - 1 > 1 /\ i = f[(r-1)-1] /\ s[(r-1)-1].case = s[r-1].case
    BY <1>2, <2>1, <2>3, <2>4
  <2> DEFINE q == r - 2
  <2>6. q \in 1 .. n /\ q + 2 = r /\ q + 1 = r - 1 /\ (r-1)-1 = q
    BY <1>1, <2>4, <2>5
  <2> HIDE DEF q
  <2>7. /\ s[q].case = s[q+1].case /\ s[q+1].case = s[q+2].case
        /\ s[q].act = p[1] /\ s[q+1].act = p[2] /\ s[q+2].act = p[1] /\ q + 2 \in 1 .. n
    BY <1>1, <2>1, <2>2, <2>3, <2>4, <2>5, <2>6
  <2>8. QED
    BY <2>6, <2>7 DEF LoopsIn
<1>6. LoopsIn(s, n) \subseteq Act \X Act /\ LoopsOf(t, n) \subseteq Act \X Act
  BY DEF LoopsIn, LoopsOf
<1>7. QED
  BY <1>4, <1>5, <1>6

\* The frequencies of a table, the boundary index for both ends.
FrequencyIn(t, n, a, b) ==
  IF a = Bottom THEN IF b = Bottom THEN 0 ELSE Cardinality(HeadsOf(t, n, b))
  ELSE IF b = Bottom THEN Cardinality(TailsOf(t, n, a)) ELSE Cardinality(SuccessionsOf(t, n, a, b))

\* The index of a node before start and end are separated.
LabelOf(u) == IF u = Start THEN Bottom ELSE u

\* No frequency is larger than the number of events.
LEMMA FrequenciesAreCounts ==
  ASSUME NEW t, NEW n \in Nat, NEW a, NEW b
  PROVE  FrequencyIn(t, n, a, b) \in 0 .. n
<1>1. /\ SuccessionsOf(t, n, a, b) \subseteq 1 .. n /\ HeadsOf(t, n, b) \subseteq 1 .. n
      /\ TailsOf(t, n, a) \subseteq 1 .. n
  BY DEF SuccessionsOf, HeadsOf, TailsOf
<1>2. ASSUME NEW S, S \subseteq 1 .. n PROVE Cardinality(S) \in 0 .. n
  <2>1. IsFiniteSet(1 .. n) /\ Cardinality(1 .. n) = n
    BY FS_Interval
  <2>2. Cardinality(S) <= n
    BY <1>2, <2>1, FS_Subset
  <2>3. Cardinality(S) \in Nat
    BY <1>2, RowsCounted
  <2>4. QED
    BY <2>2, <2>3
<1>3. /\ Cardinality(SuccessionsOf(t, n, a, b)) \in 0 .. n /\ Cardinality(HeadsOf(t, n, b)) \in 0 .. n
      /\ Cardinality(TailsOf(t, n, a)) \in 0 .. n
  BY <1>1, <1>2
<1>4. QED
  BY <1>3 DEF FrequencyIn

\* The rows of a listing are rows of a table.
LEMMA ListingRows ==
  ASSUME NEW t, NEW n, Table(t, n), NEW s, NEW f, Listing(s, t, f, n)
  PROVE  /\ n \in Nat /\ n >= 1 /\ DOMAIN s = 1 .. n /\ Len(s) = n
         /\ \A q \in 1 .. n : s[q].act \in Act /\ s[q].act \in Nat /\ s[q].act < M
<1>1. n \in Nat /\ n >= 1 /\ s = [p \in 1 .. n |-> t[f[p]]] /\ \A p \in 1 .. n : f[p] \in 1 .. n
  BY DEF Table, Listing, Rearranges
<1>2. \A q \in 1 .. n : s[q] = t[f[q]]
  BY <1>1
<1>3. DOMAIN s = 1 .. n /\ Len(s) = n
  BY <1>1
<1>4. QED
  BY <1>1, <1>2, <1>3, MAssumption DEF Table, Act

\* The protocol counts them on its list of the rows.
LEMMA ProtocolCounts ==
  ASSUME NEW t, NEW n, Table(t, n), NEW s, NEW f, Listing(s, t, f, n), NEW a \in Label, NEW b \in Label
  PROVE  DirectlyFollows(DemuxedEvents(s), NewCase(s), CaseEnd(s))[a][b] = FrequencyIn(t, n, a, b)
<1> DEFINE shown == DemuxedEvents(s)
           new == NewCase(s)
           end == CaseEnd(s)
<1>1. /\ n \in Nat /\ n >= 1 /\ DOMAIN s = 1 .. n /\ Len(s) = n /\ M \in Nat /\ M + 1 \in Nat
      /\ \A q \in 1 .. n : s[q].act \in Act /\ s[q].act \in Nat /\ s[q].act < M + 1
  BY ListingRows, MAssumption DEF Act
<1>2. DOMAIN shown = 1 .. n /\ \A q \in 1 .. n : shown[q] = {s[q].act}
  <2>1. \A q \in 1 .. n : Demux(s[q].act, M + 1, TRUE) = {s[q].act}
    BY <1>1, DemuxIsUnit
  <2>2. QED
    BY <1>1, <2>1 DEF DemuxedEvents
<1>3. new = {q \in 1 .. n : q = 1 \/ s[q].case # s[q-1].case}
  BY <1>1 DEF NewCase
<1>4. end = {q \in 1 .. n : q = n \/ q + 1 \in new}
  BY <1>1 DEF CaseEnd
<1> HIDE DEF shown, new, end
<1>5. {q \in DOMAIN shown \ new : a \in shown[q-1] /\ b \in shown[q]}
        = IF Bottom \in {a, b} THEN {} ELSE SuccessionsIn(s, n, a, b)
  <2>1. \A q \in 1 .. n : q \notin new <=> q > 1 /\ s[q-1].case = s[q].case
    BY <1>1, <1>3
  <2>2. \A q \in 1 .. n : q > 1 => q - 1 \in 1 .. n
    BY <1>1
  <2>3. \A q \in 1 .. n : s[q].act # Bottom
    BY <1>1, MAssumption DEF Act, Bottom
  <2>4. \A q \in 1 .. n : q > 1 => (a \in shown[q-1] <=> s[q-1].act = a) /\ (b \in shown[q] <=> s[q].act = b)
    BY <1>2, <2>2
  <2>5. {q \in DOMAIN shown \ new : a \in shown[q-1] /\ b \in shown[q]} = SuccessionsIn(s, n, a, b)
    BY <1>2, <2>1, <2>4 DEF SuccessionsIn
  <2>6. Bottom \in {a, b} => SuccessionsIn(s, n, a, b) = {}
    BY <2>2, <2>3 DEF SuccessionsIn
  <2>7. QED
    BY <2>5, <2>6
<1>6. {q \in new : b \in shown[q]} = IF b = Bottom THEN {} ELSE HeadsIn(s, n, b)
  <2>1. \A q \in 1 .. n : s[q].act # Bottom
    BY <1>1, MAssumption DEF Act, Bottom
  <2>2. {q \in new : b \in shown[q]} = HeadsIn(s, n, b)
    BY <1>2, <1>3 DEF HeadsIn
  <2>3. b = Bottom => HeadsIn(s, n, b) = {}
    BY <2>1 DEF HeadsIn
  <2>4. QED
    BY <2>2, <2>3
<1>7. {q \in end : a \in shown[q]} = IF a = Bottom THEN {} ELSE TailsIn(s, n, a)
  <2>1. \A q \in 1 .. n : s[q].act # Bottom
    BY <1>1, MAssumption DEF Act, Bottom
  <2>2. \A q \in 1 .. n : q \in end <=> q = n \/ s[q+1].case # s[q].case
    <3> SUFFICES ASSUME NEW q \in 1 .. n, q # n PROVE q \in end <=> s[q+1].case # s[q].case
      BY <1>4
    <3>1. q + 1 \in 1 .. n /\ (q + 1) - 1 = q /\ q + 1 # 1
      BY <1>1
    <3>2. QED
      BY <1>3, <1>4, <3>1
  <2>3. {q \in end : a \in shown[q]} = TailsIn(s, n, a)
    BY <1>2, <1>4, <2>2 DEF TailsIn
  <2>4. a = Bottom => TailsIn(s, n, a) = {}
    BY <2>1 DEF TailsIn
  <2>5. QED
    BY <2>3, <2>4
<1>8. /\ Follows(shown, new, a, b) = IF Bottom \in {a, b} THEN 0 ELSE Cardinality(SuccessionsOf(t, n, a, b))
      /\ Starts(shown, new, b) = IF b = Bottom THEN 0 ELSE Cardinality(HeadsOf(t, n, b))
      /\ Ends(shown, end, a) = IF a = Bottom THEN 0 ELSE Cardinality(TailsOf(t, n, a))
  <2>1. /\ Cardinality(SuccessionsIn(s, n, a, b)) = Cardinality(SuccessionsOf(t, n, a, b))
        /\ Cardinality(HeadsIn(s, n, b)) = Cardinality(HeadsOf(t, n, b))
        /\ Cardinality(TailsIn(s, n, a)) = Cardinality(TailsOf(t, n, a))
    BY ListingCounts
  <2>2. Cardinality({}) = 0
    BY FS_EmptySet
  <2>3. /\ Follows(shown, new, a, b) = Cardinality({q \in DOMAIN shown \ new : a \in shown[q-1] /\ b \in shown[q]})
        /\ Starts(shown, new, b) = Cardinality({q \in new : b \in shown[q]})
        /\ Ends(shown, end, a) = Cardinality({q \in end : a \in shown[q]})
    BY DEF Follows, Starts, Ends
  <2>4. QED
    BY <1>5, <1>6, <1>7, <2>1, <2>2, <2>3
<1>9. DirectlyFollows(shown, new, end)[a][b]
        = Follows(shown, new, a, b) + (IF a = Bottom THEN Starts(shown, new, b) ELSE 0)
                                    + (IF b = Bottom THEN Ends(shown, end, a) ELSE 0)
  BY DEF DirectlyFollows
<1>10. /\ SuccessionsOf(t, n, a, b) \subseteq 1 .. n /\ HeadsOf(t, n, b) \subseteq 1 .. n
       /\ TailsOf(t, n, a) \subseteq 1 .. n
  BY DEF SuccessionsOf, HeadsOf, TailsOf
<1>11. /\ Cardinality(SuccessionsOf(t, n, a, b)) \in Nat /\ Cardinality(HeadsOf(t, n, b)) \in Nat
       /\ Cardinality(TailsOf(t, n, a)) \in Nat
  BY <1>1, <1>10, RowsCounted
<1>12. DirectlyFollows(shown, new, end)[a][b] = FrequencyIn(t, n, a, b)
  BY <1>8, <1>9, <1>11 DEF FrequencyIn
<1>13. QED
  BY <1>12 DEF shown, new, end

\* The reference counts the same.
LEMMA SameCardinality == ASSUME NEW S PROVE Ref!Cardinality(S) = Cardinality(S)
BY DEF Ref!Cardinality, Cardinality

\* Nodes and labels by their kind.
LEMMA NodeKinds ==
  /\ Start = M + 1 /\ End = M /\ Bottom = M /\ Ref!Start = M /\ Ref!End = M + 1 /\ M \in Nat /\ M >= 1
  /\ Ref!Nodes = Node /\ Ref!Acts = Act /\ Ref!Arcs = Node \X Node
  /\ Node = Act \cup {Start, End} /\ Label = Act \cup {Bottom}
  /\ Start \notin Act /\ End \notin Act /\ Start # End
  /\ \A u \in Act : Named(u) = u /\ LabelOf(u) = u
  /\ Named(Start) = End /\ Named(End) = Start /\ LabelOf(Start) = Bottom /\ LabelOf(End) = Bottom
  /\ \A u \in Node : Named(u) \in Node /\ Named(Named(u)) = u /\ LabelOf(u) \in Label
<1>1. M \in Nat /\ M >= 1
  BY MAssumption
<1>2. /\ Start = M + 1 /\ End = M /\ Bottom = M /\ Ref!Start = M /\ Ref!End = M + 1
      /\ Ref!Nodes = Node /\ Ref!Acts = Act /\ Ref!Arcs = Node \X Node
  BY DEF Start, End, Bottom, Ref!Start, Ref!End, Ref!Nodes, Ref!Acts, Ref!Arcs, Node, Act
<1>3. Node = Act \cup {Start, End} /\ Label = Act \cup {Bottom} /\ Start \notin Act /\ End \notin Act /\ Start # End
  BY <1>1, <1>2 DEF Node, Act, Label
<1>4. /\ \A u \in Act : Named(u) = u /\ LabelOf(u) = u
      /\ Named(Start) = End /\ Named(End) = Start /\ LabelOf(Start) = Bottom /\ LabelOf(End) = Bottom
  BY <1>2, <1>3 DEF Named, LabelOf
<1>5. QED
  BY <1>1, <1>2, <1>3, <1>4

\* The reference counts these frequencies, under its names of the nodes.
LEMMA ReferenceCounts ==
  ASSUME NEW t, NEW n, Table(t, n), NEW s, NEW f, Listing(s, t, f, n), NEW u \in Node, NEW v \in Node
  PROVE  Ref!Get(Ref!Counted(s), <<Named(u),Named(v)>>)
           = IF u = End \/ v = Start THEN 0 ELSE FrequencyIn(t, n, LabelOf(u), LabelOf(v))
<1> DEFINE x == Named(u)
           y == Named(v)
           arc == <<x,y>>
           into == Ref!Into(s, arc)
           ending == Ref!Ending(s, arc)
<1>1. /\ n \in Nat /\ n >= 1 /\ DOMAIN s = 1 .. n /\ Len(s) = n
      /\ \A q \in 1 .. n : s[q].act \in Act /\ s[q].act \notin {Start, End}
  BY ListingRows, NodeKinds
<1>2. x \in Node /\ y \in Node /\ arc \in Ref!Arcs
  BY NodeKinds
<1>3. Ref!Get(Ref!Counted(s), arc) = Cardinality(into) + Cardinality(ending)
  <2>1. Ref!Get(Ref!Counted(s), arc) = Ref!Cardinality(into) + Ref!Cardinality(ending)
    BY <1>2 DEF Ref!Get, Ref!Counted
  <2> HIDE DEF into, ending, arc
  <2>2. QED
    BY <2>1, SameCardinality
<1>4. into = {q \in 1 .. n : /\ x = (IF q = 1 \/ s[q-1].case # s[q].case THEN Ref!Start ELSE s[q-1].act)
                             /\ y = s[q].act}
  BY <1>1 DEF Ref!Into, Ref!FirstOfCase
<1>5. ending = {q \in 1 .. n : (q = n \/ s[q+1].case # s[q].case) /\ x = s[q].act /\ y = Ref!End}
  BY <1>1 DEF Ref!Ending, Ref!LastOfCase
<1>6. Ref!Start = End /\ Ref!End = Start
  BY NodeKinds
<1> HIDE DEF into, ending
<1>7. \A q \in 1 .. n : (q = 1 \/ q > 1) /\ (q > 1 => q - 1 \in 1 .. n)
  BY <1>1
<1>8. into = IF y \notin Act THEN {} ELSE IF x = End THEN HeadsIn(s, n, y) ELSE SuccessionsIn(s, n, x, y)
  <2>1. CASE y \notin Act
    BY <1>1, <1>4, <2>1
  <2>2. CASE y \in Act /\ x = End
    <3>1. \A q \in 1 .. n : ~(q = 1 \/ s[q-1].case # s[q].case) => s[q-1].act # x
      BY <1>1, <1>7, <2>2
    <3>2. QED
      BY <1>4, <1>6, <2>2, <3>1 DEF HeadsIn
  <2>3. CASE y \in Act /\ x # End
    <3>1. \A q \in 1 .. n : q > 1 /\ s[q-1].case = s[q].case <=> ~(q = 1 \/ s[q-1].case # s[q].case)
      BY <1>7
    <3>2. QED
      BY <1>4, <1>6, <2>3, <3>1 DEF SuccessionsIn
  <2>4. QED
    BY <2>1, <2>2, <2>3
<1>9. ending = IF x \in Act /\ y = Start THEN TailsIn(s, n, x) ELSE {}
  BY <1>1, <1>5, <1>6 DEF TailsIn
<1>10. x = Start => SuccessionsIn(s, n, x, y) = {}
  <2>1. \A q \in 1 .. n : q > 1 => s[q-1].act # Start
    BY <1>1, <1>7
  <2>2. QED
    BY <2>1 DEF SuccessionsIn
<1>11. /\ Cardinality(SuccessionsIn(s, n, x, y)) = Cardinality(SuccessionsOf(t, n, x, y))
       /\ Cardinality(HeadsIn(s, n, y)) = Cardinality(HeadsOf(t, n, y))
       /\ Cardinality(TailsIn(s, n, x)) = Cardinality(TailsOf(t, n, x))
       /\ Cardinality({}) = 0
  BY ListingCounts, FS_EmptySet
<1>12. /\ Cardinality(SuccessionsOf(t, n, x, y)) \in Nat /\ Cardinality(HeadsOf(t, n, y)) \in Nat
       /\ Cardinality(TailsOf(t, n, x)) \in Nat
  <2>1. /\ SuccessionsOf(t, n, x, y) \subseteq 1 .. n /\ HeadsOf(t, n, y) \subseteq 1 .. n
        /\ TailsOf(t, n, x) \subseteq 1 .. n
    BY DEF SuccessionsOf, HeadsOf, TailsOf
  <2> HIDE DEF x, y
  <2>2. QED
    BY <1>1, <2>1, RowsCounted
<1> HIDE DEF x, y
<1>19. arc = <<Named(u),Named(v)>>
  BY DEF x, y
<1> HIDE DEF arc
<1>13. CASE u \in Act /\ v \in Act
  <2>1. x = u /\ y = v /\ LabelOf(u) = u /\ LabelOf(v) = v /\ u # Bottom /\ v # Bottom /\ u # End /\ v # Start
    BY <1>13, NodeKinds DEF x, y
  <2>2. into = SuccessionsIn(s, n, x, y) /\ ending = {}
    BY <1>8, <1>9, <1>13, <2>1, NodeKinds
  <2>3. QED
    BY <1>3, <1>19, <1>11, <1>12, <2>1, <2>2 DEF FrequencyIn
<1>14. CASE u = Start /\ v \in Act
  <2>1. x = End /\ y = v /\ LabelOf(u) = Bottom /\ LabelOf(v) = v /\ v # Bottom /\ u # End /\ v # Start
    BY <1>14, NodeKinds DEF x, y
  <2>2. into = HeadsIn(s, n, y) /\ ending = {}
    BY <1>8, <1>9, <1>14, <2>1, NodeKinds
  <2>3. QED
    BY <1>3, <1>19, <1>11, <1>12, <2>1, <2>2 DEF FrequencyIn
<1>15. CASE u \in Act /\ v = End
  <2>1. x = u /\ y = Start /\ LabelOf(u) = u /\ LabelOf(v) = Bottom /\ u # Bottom /\ u # End /\ v # Start
    BY <1>15, NodeKinds DEF x, y
  <2>2. into = {} /\ ending = TailsIn(s, n, x)
    BY <1>8, <1>9, <1>15, <2>1, NodeKinds
  <2>3. QED
    BY <1>3, <1>19, <1>11, <1>12, <2>1, <2>2 DEF FrequencyIn
<1>16. CASE u = Start /\ v = End
  <2>1. x = End /\ y = Start /\ LabelOf(u) = Bottom /\ LabelOf(v) = Bottom /\ u # End /\ v # Start
    BY <1>16, NodeKinds DEF x, y
  <2>2. into = {} /\ ending = {}
    BY <1>8, <1>9, <2>1, NodeKinds
  <2>3. QED
    BY <1>3, <1>19, <1>11, <2>1, <2>2 DEF FrequencyIn
<1>17. CASE u = End \/ v = Start
  <2>1. x = Start \/ y = End
    BY <1>17, NodeKinds DEF x, y
  <2>2. into = {} /\ ending = {}
    BY <1>8, <1>9, <1>10, <2>1, NodeKinds
  <2>3. QED
    BY <1>3, <1>19, <1>11, <1>17, <2>2
<1>18. QED
  BY <1>13, <1>14, <1>15, <1>16, <1>17, NodeKinds

\* The loops of length two that the protocol finds are those of the table.
LEMMA ProtocolLoops ==
  ASSUME NEW t, NEW n, Table(t, n), NEW s, NEW f, Listing(s, t, f, n)
  PROVE  detect_short_loops(DemuxedEvents(s), NewCase(s)) = LoopsOf(t, n)
<1> DEFINE shown == DemuxedEvents(s)
           new == NewCase(s)
<1>1. /\ n \in Nat /\ n >= 1 /\ DOMAIN s = 1 .. n /\ M \in Nat /\ M + 1 \in Nat
      /\ \A q \in 1 .. n : s[q].act \in Act /\ s[q].act \in Nat /\ s[q].act < M + 1
  BY ListingRows, MAssumption DEF Act
<1>2. DOMAIN shown = 1 .. n /\ \A q \in 1 .. n : shown[q] = {s[q].act}
  <2>1. \A q \in 1 .. n : Demux(s[q].act, M + 1, TRUE) = {s[q].act}
    BY <1>1, DemuxIsUnit
  <2>2. QED
    BY <1>1, <2>1 DEF DemuxedEvents
<1>3. \A q \in 1 .. n : q + 1 \in 1 .. n => (q + 1 \notin new <=> s[q].case = s[q+1].case)
  <2> SUFFICES ASSUME NEW q \in 1 .. n, q + 1 \in 1 .. n PROVE q + 1 \notin new <=> s[q].case = s[q+1].case
    OBVIOUS
  <2>1. (q + 1) - 1 = q /\ q + 1 # 1
    BY <1>1
  <2>2. QED
    BY <1>1, <2>1 DEF NewCase
<1> HIDE DEF shown, new
<1>4. ASSUME NEW q \in 1 .. n, q + 2 \in 1 .. n
      PROVE  /\ q + 1 \in 1 .. n
             /\ {q + 1, q + 2} \cap new = {} <=> s[q].case = s[q+1].case /\ s[q+1].case = s[q+2].case
  <2>1. q + 1 \in 1 .. n /\ (q + 1) + 1 = q + 2
    BY <1>1, <1>4
  <2>2. q + 2 \notin new <=> s[q+1].case = s[q+2].case
    BY <1>3, <1>4, <2>1
  <2>3. QED
    BY <1>3, <2>1, <2>2
<1>5. \A p \in Label \X Label :
        (\E i \in DOMAIN shown :
           /\ i + 2 \in DOMAIN shown /\ {i + 1, i + 2} \cap new = {}
           /\ p[1] \in shown[i] /\ p[2] \in shown[i+1] /\ p[1] \in shown[i+2])
        <=> p \in LoopsIn(s, n)
  <2> SUFFICES ASSUME NEW p \in Label \X Label
               PROVE  (\E i \in 1 .. n :
                         /\ i + 2 \in 1 .. n /\ {i + 1, i + 2} \cap new = {}
                         /\ p[1] \in shown[i] /\ p[2] \in shown[i+1] /\ p[1] \in shown[i+2])
                      <=> p \in LoopsIn(s, n)
    BY <1>2
  <2>1. ASSUME NEW i \in 1 .. n, i + 2 \in 1 .. n
        PROVE  (p[1] \in shown[i] /\ p[2] \in shown[i+1] /\ p[1] \in shown[i+2])
                 <=> (s[i].act = p[1] /\ s[i+1].act = p[2] /\ s[i+2].act = p[1] /\ p \in Act \X Act)
    <3>1. i + 1 \in 1 .. n
      BY <1>4, <2>1
    <3>2. shown[i] = {s[i].act} /\ shown[i+1] = {s[i+1].act} /\ shown[i+2] = {s[i+2].act}
      BY <1>2, <2>1, <3>1
    <3>3. s[i].act \in Act /\ s[i+1].act \in Act
      BY <1>1, <3>1
    <3>4. QED
      BY <3>2, <3>3
  <2>2. QED
    BY <1>4, <2>1 DEF LoopsIn
<1>6. detect_short_loops(shown, new) = LoopsIn(s, n)
  <2>1. LoopsIn(s, n) \subseteq Label \X Label
    BY NodeKinds DEF LoopsIn
  <2>2. QED
    BY <1>5, <2>1 DEF detect_short_loops
<1>7. QED
  BY <1>6, ListingLoops DEF shown, new

\* So are those of the reference, apart from two events of one activity.
LEMMA ReferenceLoops ==
  ASSUME NEW t, NEW n, Table(t, n), NEW s, NEW f, Listing(s, t, f, n)
  PROVE  Ref!short_loops(s) = {p \in LoopsOf(t, n) : p[1] # p[2]}
<1>1. /\ n \in Nat /\ n >= 1 /\ DOMAIN s = 1 .. n /\ Len(s) = n
      /\ \A q \in 1 .. n : s[q].act \in Act
  BY ListingRows
<1>2. \A p, q, r \in 1 .. n : p <= q /\ q <= r /\ s[p].case = s[r].case => s[q].case = s[p].case
  BY DEF Listing, Rearranges
<1>3. ASSUME NEW q \in 1 .. n
      PROVE  q \in 1 .. n - 2 <=> q + 2 \in 1 .. n
  BY <1>1
<1>4. ASSUME NEW q \in 1 .. n, q + 2 \in 1 .. n
      PROVE  q + 1 \in 1 .. n /\ (s[q].case = s[q+2].case <=> s[q].case = s[q+1].case /\ s[q+1].case = s[q+2].case)
  <2>1. q + 1 \in 1 .. n /\ q <= q + 1 /\ q + 1 <= q + 2
    BY <1>1, <1>4
  <2>2. s[q].case = s[q+2].case => s[q+1].case = s[q].case
    BY <1>2, <1>4, <2>1
  <2>3. QED
    BY <2>1, <2>2
<1>5. ASSUME NEW p \in Ref!short_loops(s) PROVE p \in LoopsIn(s, n) /\ p[1] # p[2]
  <2>1. PICK q \in 1 .. n - 2 : /\ p = <<s[q].act, s[q+1].act>> /\ s[q].case = s[q+2].case
                                /\ s[q].act = s[q+2].act /\ s[q].act # s[q+1].act
    BY <1>1 DEF Ref!short_loops
  <2>2. q \in 1 .. n /\ q + 2 \in 1 .. n
    BY <1>1
  <2>3. q + 1 \in 1 .. n /\ s[q].case = s[q+1].case /\ s[q+1].case = s[q+2].case
    BY <1>4, <2>1, <2>2
  <2>4. s[q].act \in Act /\ s[q+1].act \in Act
    BY <1>1, <2>2, <2>3
  <2>5. QED
    BY <2>1, <2>2, <2>3, <2>4 DEF LoopsIn
<1>6. ASSUME NEW p \in LoopsIn(s, n), p[1] # p[2] PROVE p \in Ref!short_loops(s)
  <2>1. PICK q \in 1 .. n : /\ q + 2 \in 1 .. n /\ s[q].case = s[q+1].case /\ s[q+1].case = s[q+2].case
                            /\ s[q].act = p[1] /\ s[q+1].act = p[2] /\ s[q+2].act = p[1]
    BY <1>6 DEF LoopsIn
  <2>2. q \in 1 .. Len(s) - 2
    BY <1>1, <1>3, <2>1
  <2>3. p = <<s[q].act, s[q+1].act>>
    BY <1>6, <2>1 DEF LoopsIn
  <2>4. QED
    BY <1>6, <2>1, <2>2, <2>3 DEF Ref!short_loops
<1>7. QED
  BY <1>5, <1>6, ListingLoops

(***************************************************************************)
(* The same relations and pruned graph                                     *)
(***************************************************************************)

\* The comparison of the concurrency test is exact: no frequency is larger than the number of events.
LEMMA BalanceIsExact ==
  ASSUME NEW n \in Nat, NEW x \in 0 .. n, NEW y \in 0 .. n
  PROVE  LessThan(Distance(x, y) * Epsilon.den, (x + y) * Epsilon.num,
                  comparison_bit_length(2 * n * Larger(Epsilon.num, Epsilon.den)))
           <=> Distance(x, y) * Epsilon.den < (x + y) * Epsilon.num
<1> DEFINE L == Larger(Epsilon.num, Epsilon.den)
           N == 2 * n
           bound == N * L
           bits == comparison_bit_length(bound)
           p == Distance(x, y) * Epsilon.den
           q == (x + y) * Epsilon.num
<1>1. Epsilon.num \in Nat /\ Epsilon.den \in Nat
  BY EpsilonAssumption
<1>2. L \in Nat /\ Epsilon.num <= L /\ Epsilon.den <= L
  BY <1>1 DEF Larger
<1>3. N \in Nat /\ Distance(x, y) \in Nat /\ Distance(x, y) <= N /\ x + y \in Nat /\ x + y <= N
  BY DEF Distance
<1> HIDE DEF L, N
<1>4. p \in Nat /\ bound \in Nat /\ p <= bound
  <2> DEFINE a == Distance(x, y)
             c == Epsilon.den
  <2>1. a \in Nat /\ c \in Nat /\ a <= N /\ c <= L /\ N \in Nat /\ L \in Nat
    BY <1>1, <1>2, <1>3
  <2> HIDE DEF a, c
  <2>2. a * c \in Nat /\ N * L \in Nat /\ a * c <= N * L
    BY ONLY <2>1, ProductsGrow
  <2>3. QED
    BY <2>2 DEF a, c
<1>5. q \in Nat /\ q <= bound
  <2> DEFINE a == x + y
             c == Epsilon.num
  <2>1. a \in Nat /\ c \in Nat /\ a <= N /\ c <= L /\ N \in Nat /\ L \in Nat
    BY <1>1, <1>2, <1>3
  <2> HIDE DEF a, c
  <2>2. a * c \in Nat /\ N * L \in Nat /\ a * c <= N * L
    BY ONLY <2>1, ProductsGrow
  <2>3. QED
    BY <2>2 DEF a, c
<1> HIDE DEF p, q, bound
<1>6. bits \in Nat \ {0} /\ bound < 2^(bits - 1)
  BY <1>4, ComparisonBits
<1> HIDE DEF bits
<1>7. 2^(bits-1) \in Nat
  <2>1. bits - 1 \in Nat
    BY <1>6
  <2>2. QED
    BY <2>1, PowerIsNatural
<1>8. p - q < 2^(bits-1) /\ q - p <= 2^(bits-1)
  <2> DEFINE h == 2^(bits-1)
  <2>1. h \in Nat /\ bound < h
    BY <1>6, <1>7
  <2> HIDE DEF h
  <2>2. p - q < h /\ q - p <= h
    BY <1>4, <1>5, <2>1
  <2>3. QED
    BY <2>2 DEF h
<1>9. LessThan(p, q, bits) <=> p < q
  BY <1>4, <1>5, <1>6, <1>8, LessThanIsRight
<1>10. QED
  BY <1>9 DEF p, q, bits, bound, N, L

\* Frequencies of a table of n rows, and a dictionary of the same.
Counts(f, n) ==
  /\ f \in Frequencies(Label) /\ f[Bottom][Bottom] = 0
  /\ \A a, b \in Label : f[a][b] \in 0 .. n
SameFrequencies(f, d) ==
  \A u, v \in Node :
    Ref!Get(d, <<Named(u),Named(v)>>) = IF u = End \/ v = Start THEN 0 ELSE f[LabelOf(u)][LabelOf(v)]

\* What the concurrency test asks of two labels.
Balanced(x, y) == Distance(x, y) * Epsilon.den < (x + y) * Epsilon.num
Concurrent(f, short, a, b) ==
  /\ a # b /\ f[a][b] >= 1 /\ f[b][a] >= 1 /\ ~Alternate(short, a, b) /\ Balanced(f[a][b], f[b][a])

Concurrents(f, short) == {p \in Label \X Label : Concurrent(f, short, p[1], p[2])}

\* The reference has unordered pairs of activities, and no short loop of one activity.
PairsOf(conc) == {{p[1],p[2]} : p \in conc \cap (Act \X Act)}
Proper(short) == {p \in short : p[1] # p[2]}

\* The masked comparison of the protocol is that test.
LEMMA ConcurrentPairs ==
  ASSUME NEW n \in Nat, NEW f, Counts(f, n), NEW short
  PROVE  detect_concurrency(f, short, detect_left_right_positive(f), n) = Concurrents(f, short)
<1> DEFINE positive == detect_left_right_positive(f)
           Masked(a, b) == IF a # b /\ <<a,b>> \in positive /\ ~Alternate(short, a, b) THEN f[a][b] ELSE 0
           bits == comparison_bit_length(2 * n * Larger(Epsilon.num, Epsilon.den))
           Test(x, y) == LessThan(Distance(x, y) * Epsilon.den, (x + y) * Epsilon.num, bits)
<1>1. detect_concurrency(f, short, positive, n)
        = {p \in Label \X Label : Test(Masked(p[1], p[2]), Masked(p[2], p[1]))}
  BY DEF detect_concurrency
<1>2. ASSUME NEW x \in 0 .. n, NEW y \in 0 .. n PROVE Test(x, y) <=> Balanced(x, y)
  BY BalanceIsExact DEF Balanced
<1>3. ~Balanced(0, 0)
  <2>1. Epsilon.num \in Nat /\ Epsilon.den \in Nat
    BY EpsilonAssumption
  <2>2. Distance(0, 0) = 0
    BY DEF Distance
  <2>3. QED
    BY <2>1, <2>2 DEF Balanced
<1>4. \A a, b \in Label : f[a][b] \in 0 .. n /\ f[a][b] \in Nat
  BY DEF Counts, Frequencies
<1> HIDE DEF bits, Test
<1>5. ASSUME NEW a \in Label, NEW b \in Label
      PROVE  Test(Masked(a, b), Masked(b, a)) <=> Concurrent(f, short, a, b)
  <2>1. <<a,b>> \in positive <=> f[a][b] >= 1 /\ f[b][a] >= 1
    BY DEF detect_left_right_positive
  <2>2. <<b,a>> \in positive <=> <<a,b>> \in positive
    BY DEF detect_left_right_positive
  <2>3. Alternate(short, a, b) <=> Alternate(short, b, a)
    BY DEF Alternate
  <2> HIDE DEF positive
  <2>4. CASE a # b /\ <<a,b>> \in positive /\ ~Alternate(short, a, b)
    <3>1. Masked(a, b) = f[a][b] /\ Masked(b, a) = f[b][a]
      BY <2>2, <2>3, <2>4
    <3> HIDE DEF Masked
    <3>2. Test(Masked(a, b), Masked(b, a)) <=> Balanced(f[a][b], f[b][a])
      BY <1>2, <1>4, <3>1
    <3>3. QED
      BY <2>1, <2>4, <3>2 DEF Concurrent
  <2>5. CASE ~(a # b /\ <<a,b>> \in positive /\ ~Alternate(short, a, b))
    <3>1. Masked(a, b) = 0 /\ Masked(b, a) = 0
      BY <2>2, <2>3, <2>5
    <3> HIDE DEF Masked
    <3>2. 0 \in 0 .. n
      OBVIOUS
    <3>3. ~Test(Masked(a, b), Masked(b, a))
      BY <1>2, <1>3, <3>1, <3>2
    <3>4. ~Concurrent(f, short, a, b)
      BY <2>1, <2>5 DEF Concurrent
    <3>5. QED
      BY <3>3, <3>4
  <2>6. QED
    BY <2>4, <2>5
<1> HIDE DEF Masked, positive
<1>6. QED
  BY <1>1, <1>5 DEF positive, Concurrents

\* Both see the same activities that follow themselves, and the same concurrent ones.
LEMMA RelationsAgree ==
  ASSUME NEW n \in Nat, NEW f, Counts(f, n), NEW d, SameFrequencies(f, d),
         NEW short, short \subseteq Act \X Act
  PROVE  /\ detect_self_loops(f) = Ref!self_loops(d)
         /\ PairsOf(Concurrents(f, short)) = Ref!conc(d, Proper(short))
<1> DEFINE conc == {p \in Label \X Label : Concurrent(f, short, p[1], p[2])}
           known == {p \in short : p[1] # p[2]}
           w(arc) == Ref!Get(d, arc)
           R(arc) == LET x == w(arc) back == w(Ref!Swapped(arc))
                         imbalance == IF x > back THEN x - back ELSE back - x
                     IN  /\ arc[1] # arc[2] /\ back > 0 /\ ~Ref!Alternating(known, arc)
                         /\ imbalance * Epsilon.den < (x + back) * Epsilon.num
<1>1. /\ Ref!Nodes = Node /\ Ref!Acts = Act /\ Ref!Arcs = Node \X Node
      /\ Node = Act \cup {Start, End} /\ Label = Act \cup {Bottom} /\ Bottom \in Label
      /\ Start \notin Act /\ End \notin Act /\ Start # End
      /\ \A u \in Act : Named(u) = u /\ LabelOf(u) = u
      /\ Named(Start) = End /\ Named(End) = Start /\ LabelOf(Start) = Bottom /\ LabelOf(End) = Bottom
      /\ \A u \in Node : Named(u) \in Node /\ Named(Named(u)) = u /\ LabelOf(u) \in Label
  BY NodeKinds
<1>2. /\ \A a, b \in Label : f[a][b] \in Nat
      /\ f[Bottom][Bottom] = 0
  BY DEF Counts, Frequencies
<1>3. ASSUME NEW a \in Act, NEW b \in Act PROVE w(<<a,b>>) = f[a][b]
  <2>1. a \in Node /\ b \in Node /\ a # End /\ b # Start
    BY <1>1
  <2>2. Ref!Get(d, <<Named(a),Named(b)>>) = f[LabelOf(a)][LabelOf(b)]
    BY <2>1 DEF SameFrequencies
  <2>3. QED
    BY <1>1, <2>2
<1>4. ASSUME NEW x \in Node PROVE w(<<x,End>>) = 0 /\ w(<<Start,x>>) = 0
  <2>1. Start \in Node /\ End \in Node /\ Named(x) \in Node /\ Named(Named(x)) = x
    BY <1>1
  <2>2. Ref!Get(d, <<Named(Named(x)),Named(Start)>>) = 0 /\ Ref!Get(d, <<Named(End),Named(Named(x))>>) = 0
    BY <2>1 DEF SameFrequencies
  <2>3. QED
    BY <1>1, <2>1, <2>2
<1>5. \A arc : w(arc) = d.w[arc]
  BY DEF Ref!Get
<1>6. Ref!Keys(d) = {arc \in Node \X Node : w(arc) > 0}
  BY <1>1, <1>5 DEF Ref!Keys
<1> HIDE DEF w
<1>7. detect_self_loops(f) = Ref!self_loops(d)
  <2>1. Ref!self_loops(d) = {a \in Act : <<a,a>> \in Ref!Keys(d)}
    BY <1>1 DEF Ref!self_loops
  <2>2. ASSUME NEW a \in Act PROVE <<a,a>> \in Ref!Keys(d) <=> f[a][a] >= 1
    <3>1. <<a,a>> \in Node \X Node /\ f[a][a] \in Nat
      BY <1>1, <1>2
    <3>2. QED
      BY <1>3, <1>6, <3>1
  <2>3. detect_self_loops(f) = {a \in Act : f[a][a] >= 1}
    BY <1>1, <1>2 DEF detect_self_loops
  <2>4. QED
    BY <2>1, <2>2, <2>3
<1>8. ASSUME NEW a \in Act, NEW b \in Act PROVE R(<<a,b>>) /\ <<a,b>> \in Ref!Keys(d) <=> Concurrent(f, short, a, b)
  <2> DEFINE x == f[a][b]
             y == f[b][a]
  <2>1. w(<<a,b>>) = x /\ w(Ref!Swapped(<<a,b>>)) = y /\ x \in Nat /\ y \in Nat
    <3>1. Ref!Swapped(<<a,b>>) = <<b,a>>
      BY DEF Ref!Swapped
    <3>2. QED
      BY <1>1, <1>2, <1>3, <3>1
  <2>2. a # b => (Ref!Alternating(known, <<a,b>>) <=> Alternate(short, a, b))
    BY DEF Ref!Alternating, Ref!Swapped, Alternate
  <2>3. <<a,b>> \in Ref!Keys(d) <=> x >= 1
    BY <1>1, <1>6, <2>1
  <2>4. R(<<a,b>>) <=> /\ a # b /\ y > 0 /\ ~Ref!Alternating(known, <<a,b>>)
                       /\ (IF x > y THEN x - y ELSE y - x) * Epsilon.den < (x + y) * Epsilon.num
    BY <2>1
  <2> HIDE DEF R, known
  <2>5. Concurrent(f, short, a, b) <=>
          /\ a # b /\ x >= 1 /\ y >= 1 /\ ~Alternate(short, a, b)
          /\ (IF x > y THEN x - y ELSE y - x) * Epsilon.den < (x + y) * Epsilon.num
    BY DEF Concurrent, Balanced, Distance
  <2>6. y > 0 <=> y >= 1
    BY <2>1
  <2> HIDE DEF x, y
  <2>7. QED
    BY <2>2, <2>3, <2>4, <2>5, <2>6
<1>9. ASSUME NEW arc \in Node \X Node, w(arc) > 0, w(Ref!Swapped(arc)) > 0 PROVE arc \in Act \X Act
  <2>1. PICK x \in Node, y \in Node : arc = <<x,y>>
    OBVIOUS
  <2>2. w(<<x,y>>) > 0 /\ w(<<y,x>>) > 0
    BY <1>9, <2>1 DEF Ref!Swapped
  <2> DEFINE forth == w(<<x,y>>)
             back == w(<<y,x>>)
  <2>3. y = End => forth = 0
    BY <1>4
  <2>4. x = Start => forth = 0
    BY <1>4
  <2>5. x = End => back = 0
    BY <1>4
  <2>6. y = Start => back = 0
    BY <1>4
  <2>7. forth # 0 /\ back # 0
    <3> HIDE DEF forth, back
    <3>1. \A z : z > 0 /\ z = 0 => FALSE
      OBVIOUS
    <3>2. forth > 0 /\ back > 0
      BY <2>2 DEF forth, back
    <3>3. QED
      BY <3>2
  <2>8. x # End /\ y # End /\ x # Start /\ y # Start
    BY <2>3, <2>4, <2>5, <2>6, <2>7
  <2>9. QED
    BY <1>1, <2>1, <2>8
<1>10. Ref!conc(d, known) = {{arc[1],arc[2]} : arc \in {arc \in Ref!Keys(d) : R(arc)}}
  BY DEF Ref!conc, w
<1>11. {arc \in Ref!Keys(d) : R(arc)} = conc \cap (Act \X Act)
  <2>1. ASSUME NEW arc \in Ref!Keys(d), R(arc) PROVE arc \in conc \cap (Act \X Act)
    <3>1. arc \in Node \X Node /\ w(arc) > 0
      BY <1>6, <2>1
    <3>2. arc \in Act \X Act
      BY <1>9, <2>1, <3>1
    <3>3. PICK a \in Act, b \in Act : arc = <<a,b>>
      BY <3>2
    <3>4. Concurrent(f, short, a, b)
      BY <1>8, <2>1, <3>3
    <3>5. QED
      BY <1>1, <3>2, <3>3, <3>4
  <2>2. ASSUME NEW arc \in conc \cap (Act \X Act) PROVE arc \in Ref!Keys(d) /\ R(arc)
    <3>1. PICK a \in Act, b \in Act : arc = <<a,b>>
      BY <2>2
    <3>2. Concurrent(f, short, a, b)
      BY <2>2, <3>1
    <3>3. QED
      BY <1>8, <3>1, <3>2
  <2> HIDE DEF R, conc
  <2>3. QED
    BY <2>1, <2>2
<1> HIDE DEF R, conc, known
<1>12. QED
  BY <1>7, <1>10, <1>11 DEF conc, known, PairsOf, Concurrents, Proper

\* The weights of the pruned dictionary.
LEMMA PrunedWeights ==
  ASSUME NEW wgt, NEW plc, NEW short, NEW concurrent, NEW arc \in Ref!Arcs
  PROVE  LET d == [w |-> wgt, at |-> plc]
         IN  Ref!Get(Ref!pruned(d, short, concurrent), arc)
               = IF /\ arc[1] # arc[2] /\ {arc[1], arc[2]} \notin concurrent
                    /\ Ref!Get(d, arc) >= Ref!Get(d, Ref!Swapped(arc)) \/ Ref!Alternating(short, arc)
                 THEN Ref!Get(d, arc) ELSE 0
<1> DEFINE d == [w |-> wgt, at |-> plc]
           kept(a) == /\ a[1] # a[2] /\ {a[1], a[2]} \notin concurrent
                      /\ Ref!Get(d, a) >= Ref!Get(d, Ref!Swapped(a)) \/ Ref!Alternating(short, a)
           W == [a \in Ref!Arcs |-> IF kept(a) THEN Ref!Get(d, a) ELSE 0]
<1>1. Ref!pruned(d, short, concurrent) = [d EXCEPT !.w = W]
  BY DEF Ref!pruned
<1>2. [d EXCEPT !.w = W].w = W
  <2> HIDE DEF W
  <2>1. QED
    OBVIOUS
<1>3. Ref!Get(Ref!pruned(d, short, concurrent), arc) = W[arc]
  BY <1>1, <1>2 DEF Ref!Get
<1>4. QED
  BY <1>3

\* From the same frequencies, loops and concurrency both prune to the same graph.
LEMMA PrunedAgree ==
  ASSUME NEW n \in Nat, NEW f, Counts(f, n), NEW wgt, NEW plc,
         SameFrequencies(f, [w |-> wgt, at |-> plc]), NEW short, short \subseteq Act \X Act
  PROVE  LET conc == Concurrents(f, short)
             g == reformat_start_and_end(dfg_pruning(f, conc, short, detect_self_loops(f)))
             r == Ref!pruned([w |-> wgt, at |-> plc], Proper(short), PairsOf(conc))
         IN  \A u, v \in Node : g[u][v] = Ref!Get(r, <<Named(u),Named(v)>>)
<1> DEFINE d == [w |-> wgt, at |-> plc]
           conc == {p \in Label \X Label : Concurrent(f, short, p[1], p[2])}
           pairs == {{p[1],p[2]} : p \in conc \cap (Act \X Act)}
           known == {p \in short : p[1] # p[2]}
           self == detect_self_loops(f)
           g == reformat_start_and_end(dfg_pruning(f, conc, short, self))
           r == Ref!pruned(d, known, pairs)
           get(x, y) == Ref!Get(d, <<x,y>>)
<1>1. /\ Ref!Nodes = Node /\ Ref!Acts = Act /\ Ref!Arcs = Node \X Node
      /\ Node = Act \cup {Start, End} /\ Label = Act \cup {Bottom} /\ Bottom \in Label
      /\ Start \notin Act /\ End \notin Act /\ Start # End /\ Bottom \notin Act
      /\ \A u \in Act : Named(u) = u /\ LabelOf(u) = u
      /\ Named(Start) = End /\ Named(End) = Start /\ LabelOf(Start) = Bottom /\ LabelOf(End) = Bottom
      /\ \A u \in Node : Named(u) \in Node /\ Named(Named(u)) = u /\ LabelOf(u) \in Label
  BY NodeKinds
<1>2. /\ \A a, b \in Label : f[a][b] \in Nat
      /\ f[Bottom][Bottom] = 0
  BY DEF Counts, Frequencies
<1>3. \A u, v \in Node : get(Named(u), Named(v)) = IF u = End \/ v = Start THEN 0 ELSE f[LabelOf(u)][LabelOf(v)]
  BY DEF SameFrequencies
<1>4. ASSUME NEW u \in Node, NEW v \in Node
      PROVE  g[u][v] = IF u = End \/ v = Start THEN 0
                       ELSE IF Survives(f, conc, short, self, LabelOf(u), LabelOf(v))
                            THEN f[LabelOf(u)][LabelOf(v)] ELSE 0
  <2>1. CASE u = End \/ v = Start
    BY <2>1 DEF reformat_start_and_end
  <2>2. CASE ~(u = End \/ v = Start)
    <3>1. LabelOf(v) = v /\ LabelOf(u) \in Label /\ LabelOf(v) \in Label
      BY <1>1, <2>2, NodeKinds DEF LabelOf
    <3>2. g[u][v] = dfg_pruning(f, conc, short, self)[LabelOf(u)][LabelOf(v)]
      BY <2>2, <3>1 DEF reformat_start_and_end, LabelOf
    <3>3. QED
      BY <2>2, <3>1, <3>2 DEF dfg_pruning
  <2>3. QED
    BY <2>1, <2>2
<1>5. ASSUME NEW x \in Node, NEW y \in Node
      PROVE  Ref!Get(r, <<x,y>>)
               = IF /\ x # y /\ {x, y} \notin pairs
                    /\ get(x, y) >= get(y, x) \/ Ref!Alternating(known, <<x,y>>)
                 THEN get(x, y) ELSE 0
  <2>1. <<x,y>> \in Ref!Arcs /\ Ref!Swapped(<<x,y>>) = <<y,x>>
    BY <1>1 DEF Ref!Swapped
  <2> HIDE DEF pairs, known
  <2>2. QED
    BY <2>1, PrunedWeights
<1>6. ASSUME NEW a \in Act, NEW b \in Act PROVE get(a, b) = f[a][b]
  <2>1. a \in Node /\ b \in Node /\ a # End /\ b # Start /\ Named(a) = a /\ Named(b) = b /\ LabelOf(a) = a /\ LabelOf(b) = b
    BY <1>1
  <2> HIDE DEF get
  <2>2. QED
    BY <1>3, <2>1
<1>7. ASSUME NEW a \in Act, NEW b \in Act PROVE <<a,b>> \in conc <=> {a, b} \in pairs
  <2>1. ASSUME {a, b} \in pairs PROVE <<a,b>> \in conc
    <3>1. PICK p \in conc \cap (Act \X Act) : {p[1],p[2]} = {a, b}
      BY <2>1
    <3>2. PICK x \in Act, y \in Act : p = <<x,y>>
      BY <3>1
    <3>3. Concurrent(f, short, x, y) /\ {x, y} = {a, b}
      BY <3>1, <3>2
    <3>4. Concurrent(f, short, y, x)
      <4>1. x \in Label /\ y \in Label /\ f[x][y] \in Nat /\ f[y][x] \in Nat
        BY <1>1, <1>2
      <4>2. Balanced(f[x][y], f[y][x]) => Balanced(f[y][x], f[x][y])
        <5>1. Distance(f[x][y], f[y][x]) = Distance(f[y][x], f[x][y])
          BY <4>1 DEF Distance
        <5>2. f[x][y] + f[y][x] = f[y][x] + f[x][y]
          BY <4>1
        <5>3. QED
          BY <5>1, <5>2 DEF Balanced
      <4>3. QED
        BY <3>3, <4>2 DEF Concurrent, Alternate
    <3>5. (x = a /\ y = b) \/ (x = b /\ y = a)
      BY <3>3
    <3>6. Concurrent(f, short, a, b)
      BY <3>3, <3>4, <3>5
    <3>7. QED
      BY <1>1, <3>6
  <2>2. ASSUME <<a,b>> \in conc PROVE {a, b} \in pairs
    BY <2>2
  <2>3. QED
    BY <2>1, <2>2
<1>8. \A q \in pairs : q \subseteq Act
  OBVIOUS
<1>9. self \subseteq Label /\ \A a \in Label : a \in self <=> f[a][a] >= 1
  BY DEF detect_self_loops
<1>10. ASSUME NEW a \in Act, NEW b \in Act, a # b PROVE Ref!Alternating(known, <<a,b>>) <=> Alternate(short, a, b)
  BY <1>10 DEF Ref!Alternating, Ref!Swapped, Alternate
<1> HIDE DEF g, r, get, conc, pairs, known, self, d
<1> SUFFICES ASSUME NEW u \in Node, NEW v \in Node PROVE g[u][v] = Ref!Get(r, <<Named(u),Named(v)>>)
  BY DEF g, r, conc, self, pairs, known, d, Concurrents, PairsOf, Proper
<1>11. Named(u) \in Node /\ Named(v) \in Node
  BY <1>1
<1>12. Ref!Get(r, <<Named(u),Named(v)>>)
         = IF /\ Named(u) # Named(v) /\ {Named(u), Named(v)} \notin pairs
              /\ get(Named(u), Named(v)) >= get(Named(v), Named(u)) \/ Ref!Alternating(known, <<Named(u),Named(v)>>)
           THEN get(Named(u), Named(v)) ELSE 0
  BY <1>5, <1>11
<1>13. CASE u = End \/ v = Start
  <2>1. get(Named(u), Named(v)) = 0
    BY <1>3, <1>13
  <2>2. g[u][v] = 0
    BY <1>4, <1>13
  <2>3. QED
    BY <1>12, <2>1, <2>2
<1>14. CASE u \in Act /\ v \in Act
  <2>1. /\ Named(u) = u /\ Named(v) = v /\ LabelOf(u) = u /\ LabelOf(v) = v /\ u # End /\ v # Start
        /\ Bottom \notin {u, v} /\ u \in Label /\ v \in Label
    BY <1>1, <1>14
  <2>2. get(u, v) = f[u][v] /\ get(v, u) = f[v][u] /\ f[u][v] \in Nat
    BY <1>2, <1>6, <1>14, <2>1
  <2>3. g[u][v] = IF Survives(f, conc, short, self, u, v) THEN f[u][v] ELSE 0
    BY <1>4, <2>1
  <2>4. CASE u = v
    <3>1. g[u][v] = 0
      BY <1>9, <2>1, <2>2, <2>3, <2>4 DEF Survives
    <3>2. QED
      BY <1>12, <2>1, <2>4, <3>1
  <2>5. CASE u # v
    <3>1. Survives(f, conc, short, self, u, v)
            <=> <<u,v>> \notin conc /\ (f[u][v] >= f[v][u] \/ Alternate(short, u, v))
      BY <2>1, <2>5 DEF Survives
    <3>2. {u, v} \in pairs <=> <<u,v>> \in conc
      BY <1>7, <1>14
    <3>3. Ref!Alternating(known, <<u,v>>) <=> Alternate(short, u, v)
      BY <1>10, <1>14, <2>5
    <3>4. QED
      BY <1>12, <2>1, <2>2, <2>3, <2>5, <3>1, <3>2, <3>3
  <2>6. QED
    BY <2>4, <2>5
<1>15. CASE u = Start /\ v = End
  <2>1. LabelOf(u) = Bottom /\ LabelOf(v) = Bottom /\ u # End /\ v # Start
    BY <1>1, <1>15
  <2>2. get(Named(u), Named(v)) = 0 /\ g[u][v] = 0
    BY <1>2, <1>3, <1>4, <2>1
  <2>3. QED
    BY <1>12, <2>2
<1>16. ASSUME u # v, u # End, v # Start, ~(u \in Act /\ v \in Act), ~(u = Start /\ v = End)
       PROVE  g[u][v] = Ref!Get(r, <<Named(u),Named(v)>>)
  <2>1. (u = Start /\ v \in Act) \/ (u \in Act /\ v = End)
    BY <1>1, <1>16
  <2>2. LabelOf(u) # LabelOf(v) /\ Bottom \in {LabelOf(u), LabelOf(v)} /\ LabelOf(u) \in Label /\ LabelOf(v) \in Label
    BY <1>1, <2>1
  <2>3. Survives(f, conc, short, self, LabelOf(u), LabelOf(v))
    BY <2>2 DEF Survives
  <2>4. g[u][v] = f[LabelOf(u)][LabelOf(v)] /\ g[u][v] \in Nat
    BY <1>2, <1>4, <1>16, <2>2, <2>3
  <2>5. get(Named(u), Named(v)) = f[LabelOf(u)][LabelOf(v)]
    BY <1>3, <1>16
  <2>6. get(Named(v), Named(u)) = 0
    BY <1>3, <2>1
  <2>7. Named(u) # Named(v)
    BY <1>1, <1>16
  <2>8. {Named(u), Named(v)} \notin pairs
    <3>1. Named(u) \notin Act \/ Named(v) \notin Act
      BY <1>1, <2>1
    <3>2. QED
      BY <1>8, <3>1
  <2>9. QED
    BY <1>12, <2>4, <2>5, <2>6, <2>7, <2>8
<1>17. QED
  BY <1>1, <1>13, <1>14, <1>15, <1>16

\* The relations and the graph of the protocols on a table, and those of the reference.
ListOf(t)  == SortByCaseId(SortByTimestamp(t))
DfgOf(t)   == DirectlyFollows(DemuxedEvents(ListOf(t)), NewCase(ListOf(t)), CaseEnd(ListOf(t)))
ShortOf(t) == detect_short_loops(DemuxedEvents(ListOf(t)), NewCase(ListOf(t)))
ConcOf(t)  == detect_concurrency(DfgOf(t), ShortOf(t), detect_left_right_positive(DfgOf(t)), Len(t))
PrunedOf(t) == dfg_pruning(DfgOf(t), ConcOf(t), ShortOf(t), detect_self_loops(DfgOf(t)))

RefDfg(t)    == Ref!Counted(Ref!merge(t))
RefShort(t)  == Ref!short_loops(Ref!merge(t))
RefConc(t)   == Ref!conc(RefDfg(t), RefShort(t))
RefPruned(t) == Ref!pruned(RefDfg(t), RefShort(t), RefConc(t))

\* A comparable table is a table, with the signs that the protocol needs.
LEMMA ComparableIsTable ==
  ASSUME NEW t \in ComparableTable
  PROVE  /\ Table(t, Len(t))
         /\ \A c \in CaseId : SameSign({t[i].time : i \in {j \in DOMAIN t : t[j].case = c}})
<1>1. /\ t \in Seq(Row) /\ Len(t) >= 3
      /\ \A c \in 0 .. 2^CaseBits - 1 : SameSign({t[i].time : i \in {j \in DOMAIN t : t[j].case = c}})
  BY DEF ComparableTable, EventTable
<1>2. DOMAIN t = 1 .. Len(t) /\ Len(t) \in Nat /\ \A i \in 1 .. Len(t) : t[i] \in Row
  BY <1>1
<1>3. ASSUME NEW i \in 1 .. Len(t) PROVE t[i].case \in CaseId /\ t[i].time \in Nat /\ t[i].act \in Act
  BY <1>2 DEF Row, CaseId
<1>4. Table(t, Len(t))
  BY <1>1, <1>2, <1>3 DEF Table
<1>5. QED
  BY <1>1, <1>4 DEF CaseId

\* Both count the same frequencies and find the same short loops.
LEMMA SameCounts ==
  ASSUME NEW t \in ComparableTable
  PROVE  /\ Counts(DfgOf(t), Len(t)) /\ SameFrequencies(DfgOf(t), RefDfg(t))
         /\ ShortOf(t) \subseteq Act \X Act
         /\ RefShort(t) = Proper(ShortOf(t))
<1> DEFINE n == Len(t)
           F(a, b) == FrequencyIn(t, n, a, b)
<1>1. Table(t, n) /\ n \in Nat
  BY ComparableIsTable DEF Table
<1>2. PICK f : Listing(ListOf(t), t, f, n)
  <2>1. Listings(ListOf(t), t, n) # {}
    BY ComparableIsTable, ProtocolLists DEF ListOf
  <2>2. QED
    BY <2>1 DEF Listings
<1>3. PICK h : Listing(Ref!merge(t), t, h, n)
  <2>1. Listings(Ref!merge(t), t, n) # {}
    BY <1>1, ReferenceLists
  <2>2. QED
    BY <2>1 DEF Listings
<1> HIDE DEF n
<1>4. ASSUME NEW a \in Label, NEW b \in Label PROVE DfgOf(t)[a][b] = F(a, b) /\ F(a, b) \in 0 .. n
  BY <1>1, <1>2, ProtocolCounts, FrequenciesAreCounts DEF DfgOf
<1>5. F(Bottom, Bottom) = 0 /\ Bottom \in Label
  BY NodeKinds DEF FrequencyIn
<1> HIDE DEF F
<1>6. Counts(DfgOf(t), n)
  <2>1. DfgOf(t) = [a \in Label |-> [b \in Label |-> DfgOf(t)[a][b]]]
    BY DEF DfgOf, DirectlyFollows
  <2>2. \A a, b \in Label : DfgOf(t)[a][b] \in 0 .. n /\ DfgOf(t)[a][b] \in Nat
    BY <1>1, <1>4
  <2>3. DfgOf(t) \in Frequencies(Label)
    BY <2>1, <2>2 DEF Frequencies
  <2>4. QED
    BY <1>4, <1>5, <2>2, <2>3 DEF Counts
<1>7. SameFrequencies(DfgOf(t), RefDfg(t))
  <2>1. ASSUME NEW u \in Node, NEW v \in Node
        PROVE  Ref!Get(RefDfg(t), <<Named(u),Named(v)>>)
                 = IF u = End \/ v = Start THEN 0 ELSE DfgOf(t)[LabelOf(u)][LabelOf(v)]
    <3>1. Ref!Get(RefDfg(t), <<Named(u),Named(v)>>) = IF u = End \/ v = Start THEN 0 ELSE F(LabelOf(u), LabelOf(v))
      BY <1>1, <1>3, ReferenceCounts DEF RefDfg, F
    <3>2. LabelOf(u) \in Label /\ LabelOf(v) \in Label
      BY NodeKinds
    <3>3. QED
      BY <1>4, <3>1, <3>2
  <2>2. QED
    BY <2>1 DEF SameFrequencies
<1>8. ShortOf(t) = LoopsOf(t, n)
  BY <1>1, <1>2, ProtocolLoops DEF ShortOf
<1>9. RefShort(t) = {p \in LoopsOf(t, n) : p[1] # p[2]}
  BY <1>1, <1>3, ReferenceLoops DEF RefShort
<1>10. LoopsOf(t, n) \subseteq Act \X Act
  BY DEF LoopsOf
<1>11. QED
  BY <1>6, <1>7, <1>8, <1>9, <1>10 DEF n, Proper

\* So they find the same relations and prune to the same graph.
LEMMA SameRelations ==
  ASSUME NEW t \in ComparableTable
  PROVE  /\ detect_self_loops(DfgOf(t)) = Ref!self_loops(RefDfg(t))
         /\ PairsOf(ConcOf(t)) = RefConc(t)
         /\ \A p \in ConcOf(t) : p \in Label \X Label /\ p[1] # p[2] /\ <<p[2],p[1]>> \in ConcOf(t)
         /\ \A u, v \in Node :
              reformat_start_and_end(PrunedOf(t))[u][v] = Ref!Get(RefPruned(t), <<Named(u),Named(v)>>)
<1> DEFINE f == DfgOf(t)
           d == RefDfg(t)
           short == ShortOf(t)
           n == Len(t)
           conc == Concurrents(f, short)
<1>1. Counts(f, n) /\ SameFrequencies(f, d) /\ short \subseteq Act \X Act /\ RefShort(t) = Proper(short)
  BY SameCounts
<1>2. n \in Nat
  BY ComparableIsTable DEF Table
<1>3. PICK wgt, plc : d = [w |-> wgt, at |-> plc]
  BY DEF RefDfg, Ref!Counted
<1> HIDE DEF f, d, short, n
<1>4. ConcOf(t) = conc
  BY <1>1, <1>2, ConcurrentPairs DEF ConcOf, f, short, n
<1>5. detect_self_loops(f) = Ref!self_loops(d) /\ PairsOf(conc) = Ref!conc(d, RefShort(t))
  <2>1. /\ detect_self_loops(f) = Ref!self_loops(d)
        /\ PairsOf(conc) = Ref!conc(d, Proper(short))
    BY ONLY <1>1, <1>2, RelationsAgree
  <2>2. QED
    BY <1>1, <2>1
<1>6. \A p \in ConcOf(t) : p \in Label \X Label /\ p[1] # p[2]
  BY <1>4 DEF Concurrent, Concurrents
<1>7. \A p \in ConcOf(t) : <<p[2],p[1]>> \in ConcOf(t)
  <2>1. f \in Frequencies(Label)
    BY <1>1 DEF Counts
  <2>2. QED
    BY <2>1, ConcurrencySymmetric DEF ConcOf, f
<1>8. \A u, v \in Node :
        reformat_start_and_end(dfg_pruning(f, conc, short, detect_self_loops(f)))[u][v]
          = Ref!Get(Ref!pruned(d, RefShort(t), Ref!conc(d, RefShort(t))), <<Named(u),Named(v)>>)
  <2> DEFINE known == Proper(short)
             pairs == PairsOf(conc)
  <2>1. SameFrequencies(f, [w |-> wgt, at |-> plc])
    BY <1>1, <1>3
  <2>2. \A u, v \in Node :
          reformat_start_and_end(dfg_pruning(f, conc, short, detect_self_loops(f)))[u][v]
            = Ref!Get(Ref!pruned([w |-> wgt, at |-> plc], known, pairs), <<Named(u),Named(v)>>)
    BY ONLY <1>1, <1>2, <2>1, PrunedAgree
  <2>3. known = RefShort(t) /\ pairs = Ref!conc(d, RefShort(t))
    BY <1>1, <1>5
  <2> HIDE DEF known, pairs, conc
  <2>4. QED
    BY <1>3, <2>2, <2>3
<1> HIDE DEF conc
<1>9. QED
  BY <1>4, <1>5, <1>6, <1>7, <1>8 DEF PrunedOf, RefPruned, RefConc, f, d, short

(***************************************************************************)
(* The arcs above the threshold                                            *)
(***************************************************************************)

\* The same graph, as a matrix and as a dictionary.
SameGraph(g, r) == \A u, v \in Node : g[u][v] = Ref!Get(r, <<Named(u),Named(v)>>)

\* The arcs of the dictionary are those of the matrix, by their names.
LEMMA NamedWeights ==
  ASSUME NEW g \in Frequencies(Node), NEW r, SameGraph(g, r)
  PROVE  /\ \A x, y \in Node : Ref!Get(r, <<x,y>>) = g[Named(x)][Named(y)]
         /\ Ref!Keys(r) = {arc \in Node \X Node : g[Named(arc[1])][Named(arc[2])] > 0}
<1>1. Ref!Arcs = Node \X Node /\ \A u \in Node : Named(u) \in Node /\ Named(Named(u)) = u
  BY NodeKinds
<1>2. ASSUME NEW x \in Node, NEW y \in Node PROVE Ref!Get(r, <<x,y>>) = g[Named(x)][Named(y)]
  BY <1>1 DEF SameGraph
<1>3. ASSUME NEW arc \in Node \X Node PROVE r.w[arc] = g[Named(arc[1])][Named(arc[2])]
  <2>1. PICK x \in Node, y \in Node : arc = <<x,y>>
    OBVIOUS
  <2>2. QED
    BY <1>2, <2>1 DEF Ref!Get
<1>4. QED
  BY <1>1, <1>2, <1>3 DEF Ref!Keys

\* The best of the positive frequencies is the maximum, if that is positive.
LEMMA BestOfPositives ==
  ASSUME NEW T, T \subseteq Nat, \E m \in T : \A y \in T : y <= m
  PROVE  Ref!Best(T \ {0}) = {Maximum(T)} \ {0}
<1>1. PICK m \in T : \A y \in T : y <= m
  OBVIOUS
<1>2. Maximum(T) = m
  <2>1. Maximum(T) \in T /\ \A y \in T : y <= Maximum(T)
    BY <1>1 DEF Maximum
  <2>2. Maximum(T) \in Nat /\ m \in Nat /\ Maximum(T) <= m /\ m <= Maximum(T)
    BY <1>1, <2>1
  <2>3. QED
    BY <2>2
<1>3. CASE m = 0
  <2>1. T \ {0} = {}
    BY <1>1, <1>3
  <2>2. QED
    BY <1>2, <1>3, <2>1 DEF Ref!Best
<1>4. CASE m # 0
  <2> DEFINE S == T \ {0}
             b == CHOOSE x \in S : \A y \in S : y <= x
  <2>1. m \in S /\ \A y \in S : y <= m
    BY <1>1, <1>4
  <2>2. b \in S /\ \A y \in S : y <= b
    BY <2>1
  <2>3. b = m
    <3> HIDE DEF b
    <3>1. b \in Nat /\ m \in Nat /\ b <= m /\ m <= b
      BY <2>1, <2>2
    <3>2. QED
      BY <3>1
  <2>4. Ref!Best(S) = {b}
    BY <2>1 DEF Ref!Best
  <2> HIDE DEF b
  <2>5. QED
    BY <1>2, <1>4, <2>3, <2>4
<1>5. QED
  BY <1>3, <1>4

\* Both find the same best frequencies.
LEMMA SameBestValues ==
  ASSUME NEW g, Split(g), NEW r, SameGraph(g, r)
  PROVE  Ref!distinct_best(r) = BestValues(g)
<1>1. /\ g \in Frequencies(Node) /\ \A u, v \in Node : g[u][v] \in Nat
      /\ \A v \in Node : g[End][v] = 0 /\ g[v][Start] = 0
  BY DEF Split, Frequencies
<1>2. /\ Ref!Nodes = Node /\ Start \in Node /\ End \in Node /\ Node # {}
      /\ Ref!Start = Named(Start) /\ Ref!End = Named(End)
      /\ \A u \in Node : Named(u) \in Node /\ Named(Named(u)) = u
  BY NodeKinds
<1>3. /\ \A x, y \in Node : Ref!Get(r, <<x,y>>) = g[Named(x)][Named(y)]
      /\ Ref!Keys(r) = {arc \in Node \X Node : g[Named(arc[1])][Named(arc[2])] > 0}
  BY <1>1, NamedWeights
<1> DEFINE Outgoing(u) == {g[u][v] : v \in Node}
           Column(v) == {g[u][v] : u \in Node}
<1>4. ASSUME NEW u \in Node
      PROVE  Ref!Best(Ref!Frequencies(r, {Named(u)} \X Node)) = {BestOut(g, u)} \ {0}
  <2>1. Ref!Frequencies(r, {Named(u)} \X Node) = Outgoing(u) \ {0}
    <3>1. ASSUME NEW arc \in {Named(u)} \X Node, arc \in Ref!Keys(r) PROVE Ref!Get(r, arc) \in Outgoing(u) \ {0}
      <4>1. PICK y \in Node : arc = <<Named(u),y>>
        OBVIOUS
      <4>2. Ref!Get(r, arc) = g[u][Named(y)] /\ g[u][Named(y)] > 0
        BY <1>2, <1>3, <3>1, <4>1
      <4>3. g[u][Named(y)] \in Nat /\ Named(y) \in Node
        BY <1>1, <1>2
      <4>4. QED
        BY <4>2, <4>3
    <3>2. ASSUME NEW x \in Outgoing(u), x # 0
          PROVE  \E arc \in ({Named(u)} \X Node) \cap Ref!Keys(r) : x = Ref!Get(r, arc)
      <4>1. PICK v \in Node : x = g[u][v]
        OBVIOUS
      <4>2. x > 0
        BY <1>1, <3>2, <4>1
      <4> DEFINE arc == <<Named(u),Named(v)>>
      <4>3. arc \in {Named(u)} \X Node /\ arc \in Node \X Node /\ Ref!Get(r, arc) = x
        BY <1>2, <1>3, <4>1
      <4>4. arc \in Ref!Keys(r)
        BY <1>2, <1>3, <4>1, <4>2, <4>3
      <4> HIDE DEF arc
      <4>5. QED
        BY <4>3, <4>4
    <3>3. QED
      BY <3>1, <3>2 DEF Ref!Frequencies
  <2>2. \E m \in Outgoing(u) : \A y \in Outgoing(u) : y <= m
    <3>1. g[u] \in [Node -> Nat]
      BY <1>1 DEF Frequencies
    <3>2. PICK v \in Node : \A w \in Node : g[u][w] <= g[u][v]
      BY <1>2, <3>1, HighestRank
    <3>3. QED
      BY <3>2
  <2>3. Outgoing(u) \subseteq Nat
    BY <1>1
  <2>4. BestOut(g, u) = Maximum(Outgoing(u))
    BY DEF BestOut
  <2> HIDE DEF Outgoing
  <2>5. QED
    BY <2>1, <2>2, <2>3, <2>4, BestOfPositives
<1>5. ASSUME NEW v \in Node
      PROVE  Ref!Best(Ref!Frequencies(r, Node \X {Named(v)})) = {BestIn(g, v)} \ {0}
  <2>1. Ref!Frequencies(r, Node \X {Named(v)}) = Column(v) \ {0}
    <3>1. ASSUME NEW arc \in Node \X {Named(v)}, arc \in Ref!Keys(r) PROVE Ref!Get(r, arc) \in Column(v) \ {0}
      <4>1. PICK x \in Node : arc = <<x,Named(v)>>
        OBVIOUS
      <4>2. Ref!Get(r, arc) = g[Named(x)][v] /\ g[Named(x)][v] > 0
        BY <1>2, <1>3, <3>1, <4>1
      <4>3. g[Named(x)][v] \in Nat /\ Named(x) \in Node
        BY <1>1, <1>2
      <4>4. QED
        BY <4>2, <4>3
    <3>2. ASSUME NEW x \in Column(v), x # 0
          PROVE  \E arc \in (Node \X {Named(v)}) \cap Ref!Keys(r) : x = Ref!Get(r, arc)
      <4>1. PICK u \in Node : x = g[u][v]
        OBVIOUS
      <4>2. x > 0
        BY <1>1, <3>2, <4>1
      <4> DEFINE arc == <<Named(u),Named(v)>>
      <4>3. arc \in Node \X {Named(v)} /\ arc \in Node \X Node /\ Ref!Get(r, arc) = x
        BY <1>2, <1>3, <4>1
      <4>4. arc \in Ref!Keys(r)
        BY <1>2, <1>3, <4>1, <4>2, <4>3
      <4> HIDE DEF arc
      <4>5. QED
        BY <4>3, <4>4
    <3>3. QED
      BY <3>1, <3>2 DEF Ref!Frequencies
  <2>2. \E m \in Column(v) : \A y \in Column(v) : y <= m
    <3> DEFINE h == [u \in Node |-> g[u][v]]
    <3>1. h \in [Node -> Nat]
      BY <1>1
    <3>2. PICK u \in Node : \A w \in Node : h[w] <= h[u]
      <4> HIDE DEF h
      <4>1. QED
        BY <1>2, <3>1, HighestRank
    <3>3. QED
      BY <3>2
  <2>3. Column(v) \subseteq Nat
    BY <1>1
  <2>4. BestIn(g, v) = Maximum(Column(v))
    BY DEF BestIn
  <2> HIDE DEF Column
  <2>5. QED
    BY <2>1, <2>2, <2>3, <2>4, BestOfPositives
<1>6. BestOut(g, End) = 0 /\ BestIn(g, Start) = 0
  <2>1. Outgoing(End) = {0} /\ Column(Start) = {0}
    BY <1>1, <1>2
  <2>2. Maximum({0}) = 0
    BY DEF Maximum
  <2>3. QED
    BY <2>1, <2>2 DEF BestOut, BestIn
<1> HIDE DEF Outgoing, Column
<1> DEFINE A == UNION {Ref!Best(Ref!Frequencies(r, {x} \X Node)) : x \in Node \ {Ref!End}}
           B == UNION {Ref!Best(Ref!Frequencies(r, Node \X {y})) : y \in Node \ {Ref!Start}}
<1>7. Ref!distinct_best(r) = A \cup B
  <2> DEFINE A0 == UNION {Ref!Best(Ref!Frequencies(r, {x} \X Ref!Nodes)) : x \in Ref!Nodes \ {Ref!End}}
             B0 == UNION {Ref!Best(Ref!Frequencies(r, Ref!Nodes \X {y})) : y \in Ref!Nodes \ {Ref!Start}}
  <2>1. Ref!distinct_best(r) = A0 \cup B0
    BY DEF Ref!distinct_best
  <2>2. A0 = A /\ B0 = B
    BY <1>2
  <2> HIDE DEF A, B, A0, B0
  <2>3. QED
    BY <2>1, <2>2
<1>8. A = {BestOut(g, u) : u \in Node} \ {0}
  <2>1. ASSUME NEW x \in Node, x # Ref!End PROVE Ref!Best(Ref!Frequencies(r, {x} \X Node)) \subseteq {BestOut(g, u) : u \in Node} \ {0}
    <3>1. Named(x) \in Node /\ Named(Named(x)) = x
      BY <1>2
    <3>2. Ref!Best(Ref!Frequencies(r, {x} \X Node)) = {BestOut(g, Named(x))} \ {0}
      BY <1>4, <3>1
    <3>3. QED
      BY <3>1, <3>2
  <2>2. ASSUME NEW u \in Node, BestOut(g, u) # 0
        PROVE  \E x \in Node \ {Ref!End} : BestOut(g, u) \in Ref!Best(Ref!Frequencies(r, {x} \X Node))
    <3>1. Named(u) \in Node /\ Named(u) # Ref!End
      BY <1>2, <1>6, <2>2
    <3>2. BestOut(g, u) \in Ref!Best(Ref!Frequencies(r, {Named(u)} \X Node))
      BY <1>4, <2>2
    <3>3. QED
      BY <3>1, <3>2
  <2>3. A \subseteq {BestOut(g, u) : u \in Node} \ {0}
    BY <2>1
  <2>4. \A u \in Node : BestOut(g, u) # 0 => BestOut(g, u) \in A
    BY <2>2
  <2> HIDE DEF A
  <2>5. QED
    BY <2>3, <2>4
<1>9. B = {BestIn(g, v) : v \in Node} \ {0}
  <2>1. ASSUME NEW y \in Node, y # Ref!Start PROVE Ref!Best(Ref!Frequencies(r, Node \X {y})) \subseteq {BestIn(g, v) : v \in Node} \ {0}
    <3>1. Named(y) \in Node /\ Named(Named(y)) = y
      BY <1>2
    <3>2. Ref!Best(Ref!Frequencies(r, Node \X {y})) = {BestIn(g, Named(y))} \ {0}
      BY <1>5, <3>1
    <3>3. QED
      BY <3>1, <3>2
  <2>2. ASSUME NEW v \in Node, BestIn(g, v) # 0
        PROVE  \E y \in Node \ {Ref!Start} : BestIn(g, v) \in Ref!Best(Ref!Frequencies(r, Node \X {y}))
    <3>1. Named(v) \in Node /\ Named(v) # Ref!Start
      BY <1>2, <1>6, <2>2
    <3>2. BestIn(g, v) \in Ref!Best(Ref!Frequencies(r, Node \X {Named(v)}))
      BY <1>5, <2>2
    <3>3. QED
      BY <3>1, <3>2
  <2>3. B \subseteq {BestIn(g, v) : v \in Node} \ {0}
    BY <2>1
  <2>4. \A v \in Node : BestIn(g, v) # 0 => BestIn(g, v) \in B
    BY <2>2
  <2> HIDE DEF B
  <2>5. QED
    BY <2>3, <2>4
<1> HIDE DEF A, B
<1>10. QED
  BY <1>7, <1>8, <1>9 DEF BestValues

\* The comparison of ranks keeps the arcs that the indexed list of best frequencies gives.
LEMMA SameEtaArcs ==
  ASSUME NEW g, Split(g), NEW r, SameGraph(g, r), NEW e \in [num : Nat, den : Nat \ {0}]
  PROVE  NamedArcs(keep_eta_percentile_edges(g, e)) = Ref!eta_arcs(r, e)
<1> DEFINE W == BestValues(g)
           d == Cardinality(W)
           minimum == minimal_value(g, e)
           cut == Ref!cutoff(W, e)
<1>1. g \in Frequencies(Node) /\ \A u, v \in Node : g[u][v] \in Nat
  BY DEF Split, Frequencies
<1>2. /\ W \in SUBSET (1 .. BestFrequencies(g)[2 * Dim + 1]) /\ BestFrequencies(g)[2 * Dim + 1] \in Nat
      /\ minimum = IF W = {} THEN 1 ELSE Kth(W, Quota(d, e))
      /\ minimum \in Nat \ {0}
  BY <1>1, MinimalIsRanked
<1>3. IsFiniteSet(W) /\ d \in Nat
  BY <1>2, KthInOrder
<1>4. W = {} <=> d = 0
  BY <1>3, FS_EmptySet
<1>5. cut = IF d = 0 THEN 0 ELSE Kth(W, Quota(d, e))
  <2> HIDE DEF W
  <2>1. QED
    BY DEF Ref!cutoff, Quota, Kth, Ref!Cardinality, Cardinality
<1> HIDE DEF W, d, minimum, cut
<1>6. ASSUME NEW x \in Nat PROVE x >= minimum <=> x > 0 /\ x >= cut
  <2>1. CASE W = {}
    BY <1>2, <1>4, <1>5, <2>1
  <2>2. CASE W # {}
    BY <1>2, <1>4, <1>5, <2>2
  <2>3. QED
    BY <2>1, <2>2
<1>7. \A u \in Node : Named(u) \in Node /\ Named(Named(u)) = u
  BY NodeKinds
<1>8. /\ \A x, y \in Node : Ref!Get(r, <<x,y>>) = g[Named(x)][Named(y)]
      /\ Ref!Keys(r) = {arc \in Node \X Node : g[Named(arc[1])][Named(arc[2])] > 0}
  BY <1>1, NamedWeights
<1>9. keep_eta_percentile_edges(g, e) = {p \in Node \X Node : g[p[1]][p[2]] >= minimum}
  BY DEF keep_eta_percentile_edges, minimum
<1>10. Ref!eta_arcs(r, e) = {arc \in Ref!Keys(r) : Ref!Get(r, arc) >= cut}
  BY SameBestValues DEF Ref!eta_arcs, cut, W
<1>11. ASSUME NEW p \in Node \X Node, g[p[1]][p[2]] >= minimum
       PROVE  <<Named(p[1]),Named(p[2])>> \in Ref!eta_arcs(r, e)
  <2>1. PICK u \in Node, v \in Node : p = <<u,v>>
    OBVIOUS
  <2> DEFINE arc == <<Named(u),Named(v)>>
             x == g[u][v]
  <2>2. x \in Nat /\ x > 0 /\ x >= cut
    BY <1>1, <1>6, <1>11, <2>1
  <2>3. arc \in Node \X Node /\ g[Named(arc[1])][Named(arc[2])] = x /\ Ref!Get(r, arc) = x
    BY <1>7, <1>8
  <2> HIDE DEF arc, x
  <2>4. arc \in Ref!Keys(r)
    BY <1>8, <2>2, <2>3
  <2>5. QED
    BY <1>10, <2>1, <2>2, <2>3, <2>4 DEF arc
<1>12. ASSUME NEW arc \in Ref!eta_arcs(r, e)
       PROVE  \E p \in Node \X Node : g[p[1]][p[2]] >= minimum /\ arc = <<Named(p[1]),Named(p[2])>>
  <2>1. arc \in Ref!Keys(r) /\ Ref!Get(r, arc) >= cut
    BY <1>10
  <2>2. arc \in Node \X Node /\ g[Named(arc[1])][Named(arc[2])] > 0
    BY <1>8, <2>1
  <2>3. PICK x \in Node, y \in Node : arc = <<x,y>>
    BY <2>2
  <2> DEFINE p == <<Named(x),Named(y)>>
             z == g[Named(x)][Named(y)]
  <2>4. z \in Nat /\ z > 0 /\ z >= cut
    BY <1>1, <1>7, <1>8, <2>1, <2>2, <2>3
  <2>5. p \in Node \X Node /\ g[p[1]][p[2]] = z /\ arc = <<Named(p[1]),Named(p[2])>>
    BY <1>7, <2>3
  <2> HIDE DEF p, z
  <2>6. QED
    BY <1>6, <2>4, <2>5
<1>13. QED
  BY <1>9, <1>11, <1>12 DEF NamedArcs

(***************************************************************************)
(* The sanitized graph and the binning                                     *)
(***************************************************************************)

\* The depth-first search of the reference visits the nodes that the arcs lead to.
LEMMA ReachableIsLeadsTo == ASSUME NEW R, NEW u PROVE Ref!Reachable(R, u) = LeadsTo(R, u)
  BY DEF Ref!Reachable, Ref!Grown, Ref!Nodes, LeadsTo, OneStep, Node, Dim

\* An arc and its name.
LEMMA NamedArcsAre ==
  ASSUME NEW R, R \subseteq Node \X Node
  PROVE  /\ NamedArcs(R) \subseteq Node \X Node
         /\ \A u, v \in Node : <<u,v>> \in R <=> <<Named(u),Named(v)>> \in NamedArcs(R)
         /\ \A x, y \in Node : <<x,y>> \in NamedArcs(R) <=> <<Named(x),Named(y)>> \in R
<1>1. \A u \in Node : Named(u) \in Node /\ Named(Named(u)) = u
  BY NodeKinds
<1>2. ASSUME NEW arc \in NamedArcs(R) PROVE \E u, v \in Node : <<u,v>> \in R /\ arc = <<Named(u),Named(v)>>
  <2>1. PICK p \in R : arc = <<Named(p[1]),Named(p[2])>>
    BY DEF NamedArcs
  <2>2. PICK u \in Node, v \in Node : p = <<u,v>>
    BY <2>1
  <2>3. QED
    BY <2>1, <2>2
<1>3. ASSUME NEW u \in Node, NEW v \in Node, <<u,v>> \in R PROVE <<Named(u),Named(v)>> \in NamedArcs(R)
  BY <1>3 DEF NamedArcs
<1>4. ASSUME NEW u \in Node, NEW v \in Node, <<Named(u),Named(v)>> \in NamedArcs(R) PROVE <<u,v>> \in R
  <2>1. PICK a \in Node, b \in Node : <<a,b>> \in R /\ <<Named(u),Named(v)>> = <<Named(a),Named(b)>>
    BY <1>2, <1>4
  <2>2. Named(u) = Named(a) /\ Named(v) = Named(b)
    BY <2>1
  <2>3. u = a /\ v = b
    BY <1>1, <2>2
  <2>4. QED
    BY <2>1, <2>3
<1>5. ASSUME NEW x \in Node, NEW y \in Node PROVE <<x,y>> \in NamedArcs(R) <=> <<Named(x),Named(y)>> \in R
  <2> DEFINE u == Named(x)
             v == Named(y)
  <2>1. u \in Node /\ v \in Node /\ Named(u) = x /\ Named(v) = y
    BY <1>1
  <2> HIDE DEF u, v
  <2>2. <<Named(u),Named(v)>> \in NamedArcs(R) <=> <<u,v>> \in R
    BY <1>3, <1>4, <2>1
  <2>3. QED
    BY <2>1, <2>2 DEF u, v
<1>6. ASSUME NEW arc \in NamedArcs(R) PROVE arc \in Node \X Node
  <2>1. PICK u \in Node, v \in Node : arc = <<Named(u),Named(v)>>
    BY <1>2
  <2>2. QED
    BY <1>1, <2>1
<1>7. QED
  BY <1>3, <1>4, <1>5, <1>6

\* Names do not change what leads to what.
LEMMA NamedLeadsTo ==
  ASSUME NEW R, R \subseteq Node \X Node, NEW u \in Node, NEW v \in Node
  PROVE  v \in LeadsTo(R, u) <=> Named(v) \in LeadsTo(NamedArcs(R), Named(u))
<1>1. \A w \in Node : Named(w) \in Node /\ Named(Named(w)) = w
  BY NodeKinds
<1> DEFINE Q == NamedArcs(R)
           L == LeadsTo(R, u)
           K == LeadsTo(Q, Named(u))
           S == {w \in Node : Named(w) \in K}
           T == {x \in Node : Named(x) \in L}
<1>2. \A a, b \in Node : <<a,b>> \in R => <<Named(a),Named(b)>> \in Q
  BY NamedArcsAre
<1>3. \A x, y \in Node : <<x,y>> \in Q => <<Named(x),Named(y)>> \in R
  BY NamedArcsAre
<1>4. /\ L \subseteq Node /\ u \in L /\ \A w \in L, b \in Node : <<w,b>> \in R => b \in L
      /\ \A Z : u \in Z /\ ClosedUnder(Z, R) => L \subseteq Z
  BY LeadsToIsClosure DEF ClosedUnder
<1>5. /\ K \subseteq Node /\ Named(u) \in K /\ \A w \in K, b \in Node : <<w,b>> \in Q => b \in K
      /\ \A Z : Named(u) \in Z /\ ClosedUnder(Z, Q) => K \subseteq Z
  <2>1. Named(u) \in Node
    BY <1>1
  <2> HIDE DEF Q
  <2>2. QED
    BY <2>1, LeadsToIsClosure DEF ClosedUnder
<1> HIDE DEF L, K, Q
<1>6. L \subseteq S
  <2>1. u \in S
    BY <1>5
  <2>2. ASSUME NEW w \in S, NEW b \in Node, <<w,b>> \in R PROVE b \in S
    <3>1. <<Named(w),Named(b)>> \in Q /\ Named(b) \in Node /\ Named(w) \in K
      BY <1>1, <1>2, <2>2
    <3>2. Named(b) \in K
      BY <1>5, <3>1
    <3>3. QED
      BY <3>2
  <2>3. ClosedUnder(S, R)
    BY <2>2 DEF ClosedUnder
  <2> HIDE DEF S
  <2>4. QED
    BY <1>4, <2>1, <2>3
<1>7. K \subseteq T
  <2>1. Named(u) \in T
    BY <1>1, <1>4
  <2>2. ASSUME NEW w \in T, NEW b \in Node, <<w,b>> \in Q PROVE b \in T
    <3>1. <<Named(w),Named(b)>> \in R /\ Named(b) \in Node /\ Named(w) \in L
      BY <1>1, <1>3, <2>2
    <3>2. Named(b) \in L
      BY <1>4, <3>1
    <3>3. QED
      BY <3>2
  <2>3. ClosedUnder(T, Q)
    BY <2>2 DEF ClosedUnder
  <2> HIDE DEF T
  <2>4. QED
    BY <1>5, <2>1, <2>3
<1>8. v \in L => Named(v) \in K
  BY <1>6
<1>9. Named(v) \in K => v \in L
  BY <1>1, <1>7
<1>10. QED
  BY <1>8, <1>9 DEF L, K, Q

\* Against the arcs the same way leads back.
LEMMA ConverseLeadsBack ==
  ASSUME NEW R, R \subseteq Node \X Node, NEW u \in Node, NEW v \in Node
  PROVE  u \in LeadsTo(Converse(R), v) <=> v \in LeadsTo(R, u)
<1>1. ASSUME NEW Q, NEW P, \A a, b \in Node : <<a,b>> \in P => <<b,a>> \in Q, NEW x \in Node, NEW y \in Node, x \in LeadsTo(P, y)
      PROVE  y \in LeadsTo(Q, x)
  <2> DEFINE S == {c \in Node : y \in LeadsTo(Q, c)}
  <2>1. y \in S
    BY LeadsToIsClosure
  <2>2. ASSUME NEW c \in S, NEW d \in Node, <<c,d>> \in P PROVE d \in S
    <3>1. <<d,c>> \in Q /\ c \in Node
      BY <1>1, <2>2
    <3>2. c \in LeadsTo(Q, d)
      BY <3>1, LeadsToIsClosure DEF ClosedUnder
    <3>3. LeadsTo(Q, c) \subseteq LeadsTo(Q, d)
      BY <3>2, LeadsOn
    <3>4. QED
      BY <3>3
  <2>3. ClosedUnder(S, P)
    BY <2>2 DEF ClosedUnder
  <2> HIDE DEF S
  <2>4. LeadsTo(P, y) \subseteq S
    BY <2>1, <2>3, LeadsToIsClosure
  <2>5. QED
    BY <1>1, <2>4 DEF S
<1>2. \A a, b \in Node : <<a,b>> \in Converse(R) <=> <<b,a>> \in R
  <2> SUFFICES ASSUME NEW a \in Node, NEW b \in Node PROVE <<a,b>> \in Converse(R) <=> <<b,a>> \in R
    OBVIOUS
  <2>1. ASSUME <<a,b>> \in Converse(R) PROVE <<b,a>> \in R
    <3>1. PICK p \in R : <<a,b>> = <<p[2],p[1]>>
      BY <2>1 DEF Converse
    <3>2. p = <<p[1],p[2]>>
      BY <3>1
    <3>3. QED
      BY <3>1, <3>2
  <2>2. ASSUME <<b,a>> \in R PROVE <<a,b>> \in Converse(R)
    BY <2>2 DEF Converse
  <2>3. QED
    BY <2>1, <2>2
<1>3. QED
  BY <1>1, <1>2

\* The orphans are the activities that the start does not lead to, or that do not lead to the end.
LEMMA OrphansAre ==
  ASSUME NEW A, Bounded(A), ClosureIsComputable
  PROVE  /\ orphaned_activity_in(A, Reachability(A)) = {a \in Act : a \notin LeadsTo(A, Start)}
         /\ orphaned_activity_out(A, Reachability(A)) = {a \in Act : End \notin LeadsTo(A, a)}
<1>1. /\ Start \in Node /\ End \in Node /\ Start \notin Act /\ End \notin Act /\ Act \subseteq Node
      /\ Node = Act \cup {End, Start}
  BY ActivitiesFinite
<1>2. A \subseteq Node \X Node /\ \A u, v \in Node : <<u,v>> \in A => u # End /\ v # Start
  BY DEF Bounded
<1> DEFINE reach == Reachability(A)
<1>3. \A a, b \in Act : <<a,b>> \in reach <=> b \in LeadsTo(ActivityArcs(A), a)
  BY <1>2, ReachabilityIsClosure
<1>4. ASSUME NEW a \in Act, NEW w \in Act, NEW v \in Act, <<a,w>> \in reach, <<w,v>> \in A PROVE <<a,v>> \in reach
  <2>1. CASE w = v
    BY <1>4, <2>1
  <2>2. CASE w # v
    <3>1. <<w,v>> \in ActivityArcs(A)
      BY <1>4, <2>2 DEF ActivityArcs
    <3>2. v \in LeadsTo(ActivityArcs(A), a)
      BY <1>1, <1>3, <1>4, <3>1, LeadsToIsClosure DEF ClosedUnder
    <3>3. QED
      BY <1>3, <3>2
  <2>3. QED
    BY <2>1, <2>2
<1>5. \A a \in Act : <<a,a>> \in reach
  BY <1>1, <1>3, LeadsToIsClosure
<1>6. ASSUME NEW a \in Act, NEW b \in Act, <<a,b>> \in reach PROVE b \in LeadsTo(A, a)
  <2>1. ActivityArcs(A) \subseteq A
    BY DEF ActivityArcs
  <2>2. LeadsTo(ActivityArcs(A), a) \subseteq LeadsTo(A, a)
    BY <1>1, <2>1, LeadsFurther
  <2>3. QED
    BY <1>3, <1>6, <2>2
<1> HIDE DEF reach
<1>7. ASSUME NEW a \in Act
      PROVE  a \in LeadsTo(A, Start) <=> \E k \in Act : <<Start,k>> \in A /\ <<k,a>> \in reach
  <2>1. ASSUME NEW k \in Act, <<Start,k>> \in A, <<k,a>> \in reach PROVE a \in LeadsTo(A, Start)
    <3>1. k \in LeadsTo(A, Start)
      BY <1>1, <2>1, LeadsToIsClosure DEF ClosedUnder
    <3>2. LeadsTo(A, k) \subseteq LeadsTo(A, Start)
      BY <1>1, <3>1, LeadsOn
    <3>3. QED
      BY <1>6, <2>1, <3>2
  <2> DEFINE S == {Start, End} \cup {b \in Act : \E k \in Act : <<Start,k>> \in A /\ <<k,b>> \in reach}
  <2>2. ASSUME NEW w \in S, NEW v \in Node, <<w,v>> \in A PROVE v \in S
    <3>1. w \in Node /\ w # End /\ v # Start
      BY <1>1, <1>2, <2>2
    <3>2. CASE v = End
      BY <3>2
    <3>3. CASE v # End /\ w = Start
      BY <1>1, <1>5, <2>2, <3>1, <3>3
    <3>4. CASE v # End /\ w # Start
      <4>1. PICK k \in Act : <<Start,k>> \in A /\ <<k,w>> \in reach
        BY <3>1, <3>4
      <4>2. w \in Act /\ v \in Act
        BY <1>1, <3>1, <3>4
      <4>3. <<k,v>> \in reach
        BY <1>4, <2>2, <4>1, <4>2
      <4>4. QED
        BY <4>1, <4>2, <4>3
    <3>5. QED
      BY <3>2, <3>3, <3>4
  <2>3. ClosedUnder(S, A) /\ Start \in S
    BY <2>2 DEF ClosedUnder
  <2>4. LeadsTo(A, Start) \subseteq S
    <3> HIDE DEF S
    <3>1. QED
      BY <1>1, <2>3, LeadsToIsClosure
  <2>5. ASSUME a \in LeadsTo(A, Start) PROVE \E k \in Act : <<Start,k>> \in A /\ <<k,a>> \in reach
    <3>1. a \in S /\ a # Start /\ a # End
      BY <1>1, <2>4, <2>5
    <3>2. QED
      BY <3>1
  <2>6. QED
    BY <2>1, <2>5
<1>8. ASSUME NEW a \in Act
      PROVE  End \in LeadsTo(A, a) <=> \E k \in Act : <<k,End>> \in A /\ <<a,k>> \in reach
  <2>1. ASSUME NEW k \in Act, <<k,End>> \in A, <<a,k>> \in reach PROVE End \in LeadsTo(A, a)
    <3>1. k \in LeadsTo(A, a)
      BY <1>6, <2>1
    <3>2. QED
      BY <1>1, <2>1, <3>1, LeadsToIsClosure DEF ClosedUnder
  <2> DEFINE S == {b \in Act : <<a,b>> \in reach} \cup {e \in {End} : \E k \in Act : <<k,End>> \in A /\ <<a,k>> \in reach}
  <2>2. ASSUME NEW w \in S, NEW v \in Node, <<w,v>> \in A PROVE v \in S
    <3>1. w \in Node /\ w # End /\ v # Start /\ w \in Act /\ <<a,w>> \in reach
      BY <1>1, <1>2, <2>2
    <3>2. CASE v = End
      BY <2>2, <3>1, <3>2
    <3>3. CASE v # End
      <4>1. v \in Act
        BY <1>1, <3>1, <3>3
      <4>2. <<a,v>> \in reach
        BY <1>4, <2>2, <3>1, <4>1
      <4>3. QED
        BY <4>1, <4>2
    <3>4. QED
      BY <3>2, <3>3
  <2>3. ClosedUnder(S, A) /\ a \in S
    BY <1>5, <2>2 DEF ClosedUnder
  <2>4. LeadsTo(A, a) \subseteq S
    <3> HIDE DEF S
    <3>1. QED
      BY <1>1, <2>3, LeadsToIsClosure
  <2>5. ASSUME End \in LeadsTo(A, a) PROVE \E k \in Act : <<k,End>> \in A /\ <<a,k>> \in reach
    <3>1. End \in S
      BY <2>4, <2>5
    <3>2. QED
      BY <1>1, <3>1
  <2>6. QED
    BY <2>1, <2>5
<1>9. QED
  BY <1>7, <1>8 DEF orphaned_activity_in, orphaned_activity_out, reach

\* Both find the same orphans.
LEMMA OrphansAgree ==
  ASSUME NEW A, Bounded(A), ClosureIsComputable
  PROVE  /\ Ref!Orphans(NamedArcs(A)).in = orphaned_activity_in(A, Reachability(A))
         /\ Ref!Orphans(NamedArcs(A)).out = orphaned_activity_out(A, Reachability(A))
<1> DEFINE R == NamedArcs(A)
<1>1. /\ Start \in Node /\ End \in Node /\ Act \subseteq Node
      /\ Ref!Acts = Act /\ Ref!Start = Named(Start) /\ Ref!End = Named(End)
      /\ \A a \in Act : Named(a) = a
      /\ \A u \in Node : Named(u) \in Node
  BY NodeKinds
<1>2. A \subseteq Node \X Node
  BY DEF Bounded
<1>3. R \subseteq Node \X Node
  BY <1>2, NamedArcsAre
<1>4. Ref!Orphans(R).in = {a \in Act : a \notin LeadsTo(R, Named(Start))}
  BY <1>1, ReachableIsLeadsTo DEF Ref!Orphans
<1>5. Ref!Orphans(R).out = {a \in Act : a \notin LeadsTo(Converse(R), Named(End))}
  BY <1>1, ReachableIsLeadsTo DEF Ref!Orphans, Converse
<1>6. ASSUME NEW a \in Act PROVE a \in LeadsTo(R, Named(Start)) <=> a \in LeadsTo(A, Start)
  BY <1>1, <1>2, NamedLeadsTo
<1>7. ASSUME NEW a \in Act PROVE a \in LeadsTo(Converse(R), Named(End)) <=> End \in LeadsTo(A, a)
  <2> DEFINE e == Named(End)
  <2>1. e \in Node /\ a \in Node
    BY <1>1
  <2> HIDE DEF R
  <2>2. a \in LeadsTo(Converse(R), e) <=> e \in LeadsTo(R, a)
    <3> HIDE DEF e
    <3>1. QED
      BY <1>3, <2>1, ConverseLeadsBack
  <2>3. e \in LeadsTo(R, a) <=> End \in LeadsTo(A, a)
    BY <1>1, <1>2, NamedLeadsTo DEF R
  <2>4. QED
    BY <2>2, <2>3
<1> HIDE DEF R
<1>8. QED
  BY <1>4, <1>5, <1>6, <1>7, OrphansAre DEF R

\* Both reattach them by the same arcs.
LEMMA SanitizedAgree ==
  ASSUME NEW A, Bounded(A), ClosureIsComputable
  PROVE  NamedArcs(spdfg_without_orphans(A, Reachability(A))) = Ref!sanitized(NamedArcs(A))
<1> DEFINE I == orphaned_activity_in(A, Reachability(A))
           O == orphaned_activity_out(A, Reachability(A))
           From == {<<Start,a>> : a \in I}
           To == {<<a,End>> : a \in O}
<1>1. Ref!Orphans(NamedArcs(A)).in = I /\ Ref!Orphans(NamedArcs(A)).out = O
  BY OrphansAgree
<1>2. I \subseteq Act /\ O \subseteq Act
  BY DEF orphaned_activity_in, orphaned_activity_out
<1>3. Ref!Start = Named(Start) /\ Ref!End = Named(End) /\ \A a \in Act : Named(a) = a
  BY NodeKinds
<1> HIDE DEF I, O
<1>4. NamedArcs(From) = {<<Ref!Start,a>> : a \in I}
  <2>1. ASSUME NEW arc \in NamedArcs(From) PROVE arc \in {<<Ref!Start,a>> : a \in I}
    <3>1. PICK p \in From : arc = <<Named(p[1]),Named(p[2])>>
      BY DEF NamedArcs
    <3>2. PICK a \in I : p = <<Start,a>>
      OBVIOUS
    <3>3. arc = <<Ref!Start,a>>
      BY <1>2, <1>3, <3>1, <3>2
    <3>4. QED
      BY <3>3
  <2>2. ASSUME NEW a \in I PROVE <<Ref!Start,a>> \in NamedArcs(From)
    <3>1. <<Start,a>> \in From
      OBVIOUS
    <3>2. <<Ref!Start,a>> = <<Named(<<Start,a>>[1]),Named(<<Start,a>>[2])>>
      BY <1>2, <1>3
    <3> HIDE DEF From
    <3>3. QED
      BY <3>1, <3>2 DEF NamedArcs
  <2>3. QED
    BY <2>1, <2>2
<1>5. NamedArcs(To) = {<<a,Ref!End>> : a \in O}
  <2>1. ASSUME NEW arc \in NamedArcs(To) PROVE arc \in {<<a,Ref!End>> : a \in O}
    <3>1. PICK p \in To : arc = <<Named(p[1]),Named(p[2])>>
      BY DEF NamedArcs
    <3>2. PICK a \in O : p = <<a,End>>
      OBVIOUS
    <3>3. arc = <<a,Ref!End>>
      BY <1>2, <1>3, <3>1, <3>2
    <3>4. QED
      BY <3>3
  <2>2. ASSUME NEW a \in O PROVE <<a,Ref!End>> \in NamedArcs(To)
    <3>1. <<a,End>> \in To
      OBVIOUS
    <3>2. <<a,Ref!End>> = <<Named(<<a,End>>[1]),Named(<<a,End>>[2])>>
      BY <1>2, <1>3
    <3> HIDE DEF To
    <3>3. QED
      BY <3>1, <3>2 DEF NamedArcs
  <2>3. QED
    BY <2>1, <2>2
<1>6. NamedArcs(A \cup From \cup To) = NamedArcs(A) \cup NamedArcs(From) \cup NamedArcs(To)
  <2> HIDE DEF From, To
  <2>1. QED
    BY DEF NamedArcs
<1>7. spdfg_without_orphans(A, Reachability(A)) = A \cup From \cup To
  BY DEF spdfg_without_orphans, I, O
<1>8. Ref!sanitized(NamedArcs(A)) = NamedArcs(A) \cup {<<Ref!Start,a>> : a \in I} \cup {<<a,Ref!End>> : a \in O}
  BY <1>1 DEF Ref!sanitized
<1> HIDE DEF From, To
<1>9. QED
  BY <1>4, <1>5, <1>6, <1>7, <1>8

\* The opened graph consists of arcs between nodes.
LEMMA OpenedIsBounded ==
  ASSUME NEW A, Bounded(A)
  PROVE  spdfg_without_orphans(A, Reachability(A)) \subseteq Node \X Node
<1>1. Start \in Node /\ End \in Node /\ Act \subseteq Node
  BY NodeKinds
<1>2. QED
  BY <1>1 DEF Bounded, spdfg_without_orphans, orphaned_activity_in, orphaned_activity_out

\* Both find the same activities that no path orders.
LEMMA UnorderedAgree ==
  ASSUME NEW A, Bounded(A), ClosureIsComputable, NEW a \in Act, NEW b \in Act
  PROVE  Ref!Unordered(NamedArcs(A), a, b) <=> <<a,b>> \notin Reachability(A) /\ <<b,a>> \notin Reachability(A)
<1> DEFINE R == NamedArcs(A)
           inner == {p \in Ref!sanitized(R) : p[1] \in Act /\ p[2] \in Act}
           S == ActivityArcs(A)
<1>1. /\ Start \notin Act /\ End \notin Act /\ Act \subseteq Node /\ Ref!Acts = Act
      /\ Ref!Start \notin Act /\ Ref!End \notin Act
      /\ \A u \in Act : Named(u) = u
      /\ \A u \in Node : Named(u) \in Node /\ Named(Named(u)) = u
  BY NodeKinds
<1>2. A \subseteq Node \X Node
  BY DEF Bounded
<1>3. ASSUME NEW x \in Act, NEW y \in Act PROVE <<x,y>> \in inner <=> <<x,y>> \in A
  <2>1. <<x,y>> \in Ref!sanitized(R) <=> <<x,y>> \in R
    BY <1>1 DEF Ref!sanitized
  <2>2. <<x,y>> \in R <=> <<x,y>> \in A
    BY <1>1, <1>2, NamedArcsAre
  <2>3. QED
    BY <2>1, <2>2
<1>4. \A x, y \in Act : x # y => (<<x,y>> \in S <=> <<x,y>> \in A)
  BY DEF ActivityArcs
<1>5. \A x, y \in Node : <<x,y>> \in S => x \in Act /\ y \in Act /\ x # y
  BY DEF ActivityArcs
<1>6. \A x, y \in Node : <<x,y>> \in inner => x \in Act /\ y \in Act
  OBVIOUS
<1> HIDE DEF inner, S
<1>7. ASSUME NEW u \in Act PROVE LeadsTo(inner, u) = LeadsTo(S, u)
  <2>1. u \in Node
    BY <1>1
  <2>2. ClosedUnder(LeadsTo(inner, u), S)
    <3>1. ClosedUnder(LeadsTo(inner, u), inner)
      BY <2>1, LeadsToIsClosure
    <3>2. ASSUME NEW w \in LeadsTo(inner, u), NEW v \in Node, <<w,v>> \in S PROVE v \in LeadsTo(inner, u)
      <4>1. w \in Node
        BY <2>1, LeadsToIsClosure
      <4>2. <<w,v>> \in inner
        BY <1>3, <1>4, <1>5, <3>2, <4>1
      <4>3. QED
        BY <3>1, <4>2 DEF ClosedUnder
    <3>3. QED
      BY <3>2 DEF ClosedUnder
  <2>3. ClosedUnder(LeadsTo(S, u), inner)
    <3>1. ClosedUnder(LeadsTo(S, u), S)
      BY <2>1, LeadsToIsClosure
    <3>2. ASSUME NEW w \in LeadsTo(S, u), NEW v \in Node, <<w,v>> \in inner PROVE v \in LeadsTo(S, u)
      <4>1. w \in Node
        BY <2>1, LeadsToIsClosure
      <4>2. w \in Act /\ v \in Act
        BY <1>6, <3>2, <4>1
      <4>3. CASE w = v
        BY <4>3
      <4>4. CASE w # v
        <5>1. <<w,v>> \in S
          BY <1>3, <1>4, <3>2, <4>2, <4>4
        <5>2. QED
          BY <3>1, <5>1 DEF ClosedUnder
      <4>5. QED
        BY <4>3, <4>4
    <3>3. QED
      BY <3>2 DEF ClosedUnder
  <2>4. QED
    BY <2>1, <2>2, <2>3, LeadsToIsClosure
<1>8. Ref!Unordered(R, a, b) <=> b \notin LeadsTo(inner, a) /\ a \notin LeadsTo(inner, b)
  BY <1>1, ReachableIsLeadsTo DEF Ref!Unordered, inner
<1>9. \A x, y \in Act : <<x,y>> \in Reachability(A) <=> y \in LeadsTo(S, x)
  BY <1>2, ReachabilityIsClosure DEF S
<1> HIDE DEF R
<1>10. QED
  BY <1>7, <1>8, <1>9 DEF R

\* A concurrency relation as the protocols build it: symmetric, and of different labels.
Symmetric(conc) == \A p \in conc : p \in Label \X Label /\ p[1] # p[2] /\ <<p[2],p[1]>> \in conc

\* Two activities concurrent in the one are concurrent in the other.
LEMMA PairsAre ==
  ASSUME NEW conc, Symmetric(conc)
  PROVE  /\ \A a, b \in Act : {a,b} \in PairsOf(conc) <=> <<a,b>> \in conc
         /\ Act \cap UNION PairsOf(conc) = recorded_concurrency(conc)
<1>1. ASSUME NEW a \in Act, NEW b \in Act, {a,b} \in PairsOf(conc) PROVE <<a,b>> \in conc
  <2>1. PICK p \in conc \cap (Act \X Act) : {a,b} = {p[1],p[2]}
    BY <1>1 DEF PairsOf
  <2>2. PICK x \in Act, y \in Act : p = <<x,y>>
    BY <2>1
  <2>3. <<x,y>> \in conc /\ <<y,x>> \in conc /\ x # y /\ {a,b} = {x,y}
    BY <2>1, <2>2 DEF Symmetric
  <2>4. (a = x /\ b = y) \/ (a = y /\ b = x)
    BY <2>3
  <2>5. QED
    BY <2>3, <2>4
<1>2. ASSUME NEW a \in Act, NEW b \in Act, <<a,b>> \in conc PROVE {a,b} \in PairsOf(conc)
  <2>1. <<a,b>> \in conc \cap (Act \X Act)
    BY <1>2
  <2>2. QED
    BY <2>1 DEF PairsOf
<1>3. ASSUME NEW a \in Act \cap UNION PairsOf(conc) PROVE a \in recorded_concurrency(conc)
  <2>1. PICK p \in conc \cap (Act \X Act) : a \in {p[1],p[2]}
    BY DEF PairsOf
  <2>2. PICK x \in Act, y \in Act : p = <<x,y>>
    BY <2>1
  <2>3. <<x,y>> \in conc /\ <<y,x>> \in conc
    BY <2>1, <2>2 DEF Symmetric
  <2>4. QED
    BY <2>1, <2>2, <2>3 DEF recorded_concurrency
<1>4. ASSUME NEW a \in recorded_concurrency(conc) PROVE a \in Act \cap UNION PairsOf(conc)
  <2>1. PICK b \in Act : <<a,b>> \in conc /\ a \in Act
    BY DEF recorded_concurrency
  <2>2. {a,b} \in PairsOf(conc)
    BY <1>2, <2>1
  <2>3. QED
    BY <2>1, <2>2
<1>5. Act \cap UNION PairsOf(conc) = recorded_concurrency(conc)
  BY <1>3, <1>4
<1>6. QED
  BY <1>1, <1>2, <1>5

\* Both disclose the same pairs.
LEMMA DisclosedAgree ==
  ASSUME NEW A, Bounded(A), ClosureIsComputable, NEW conc, Symmetric(conc)
  PROVE  {{p[1],p[2]} : p \in disclosed_concurrency(A, Reachability(A), conc)}
           = Ref!disclosed(NamedArcs(A), PairsOf(conc))
<1> DEFINE R == NamedArcs(A)
           reach == Reachability(A)
           G == spdfg_without_orphans(A, reach)
           D == disclosed_concurrency(A, reach, conc)
           marked == completes(A, reach, conc)
           pairs == PairsOf(conc)
           E == Ref!disclosed(R, pairs)
           H == Ref!sanitized(R)
           O == Ref!Orphans(R).in \cup Ref!Orphans(R).out
           rec == Ref!Acts \cap UNION pairs
           Candidates == {{a,b} : a, b \in Act}
           Apart(pair) == \E a \in pair, b \in pair :
                            a # b /\ Ref!Unordered(R, a, b) /\ (pair \in pairs \/ a \in O \cap rec)
           Joint(pair) == \E u \in Node : \A x \in pair : <<u,x>> \in H
<1>1. /\ Ref!Acts = Act /\ Ref!Nodes = Node /\ Act \subseteq Node
      /\ \A u \in Act : Named(u) = u
      /\ \A u \in Node : Named(u) \in Node /\ Named(Named(u)) = u
  BY NodeKinds
<1>2. \A a, b \in Act : {a,b} \in pairs <=> <<a,b>> \in conc
  BY PairsAre
<1>3. marked = O \cap rec
  BY <1>1, OrphansAgree, PairsAre DEF completes
<1>4. \A a, b \in Act : Ref!Unordered(R, a, b) <=> <<a,b>> \notin reach /\ <<b,a>> \notin reach
  BY UnorderedAgree
<1>5. G \subseteq Node \X Node /\ NamedArcs(G) = H
  BY OpenedIsBounded, SanitizedAgree
<1>6. ASSUME NEW a \in Act, NEW b \in Act
      PROVE  (\E u \in Node : <<u,a>> \in G /\ <<u,b>> \in G) <=> \E u \in Node : <<u,a>> \in H /\ <<u,b>> \in H
  <2> HIDE DEF G, H
  <2>1. ASSUME NEW u \in Node, NEW c \in Act PROVE <<u,c>> \in G <=> <<Named(u),c>> \in H
    <3>1. c \in Node /\ Named(c) = c
      BY <1>1
    <3>2. <<u,c>> \in G <=> <<Named(u),Named(c)>> \in NamedArcs(G)
      BY <1>5, <3>1, NamedArcsAre
    <3>3. QED
      BY <1>5, <3>1, <3>2
  <2>2. QED
    BY <1>1, <2>1
<1>7. ASSUME NEW a \in Act, NEW b \in Act
      PROVE  <<a,b>> \in D <=>
               /\ <<a,b>> \in conc \/ (a # b /\ (a \in marked \/ b \in marked))
               /\ <<a,b>> \notin reach /\ <<b,a>> \notin reach
               /\ \E u \in Node : <<u,a>> \in G /\ <<u,b>> \in G
  <2> HIDE DEF G, reach, marked
  <2>1. QED
    BY DEF disclosed_concurrency, kept_concurrency, activity_concurrency, completed_pairs,
           unconnected, co_successor, G, marked
<1>8. D \subseteq Act \X Act
  BY DEF disclosed_concurrency, kept_concurrency, unconnected
<1>9. ASSUME NEW pair
      PROVE  pair \in E <=> pair \in Candidates /\ Apart(pair) /\ Joint(pair)
  <2> HIDE DEF R, pairs
  <2>1. QED
    BY <1>1 DEF Ref!disclosed, Ref!sconc
<1> HIDE DEF R, reach, G, D, marked, pairs, E, H, O, rec
<1>10. ASSUME NEW a \in Act, NEW b \in Act, a # b PROVE {a,b} \in E <=> <<a,b>> \in D
  <2>1. {a,b} \in Candidates
    BY <1>10
  <2>2. Joint({a,b}) <=> \E u \in Node : <<u,a>> \in G /\ <<u,b>> \in G
    BY <1>6
  <2>3. Apart({a,b})
          <=> /\ <<a,b>> \in conc \/ (a # b /\ (a \in marked \/ b \in marked))
              /\ <<a,b>> \notin reach /\ <<b,a>> \notin reach
    BY <1>2, <1>3, <1>4, <1>10
  <2> HIDE DEF Candidates, Apart, Joint
  <2>4. {a,b} \in E <=> {a,b} \in Candidates /\ Apart({a,b}) /\ Joint({a,b})
    BY <1>9
  <2>5. QED
    BY <1>7, <2>1, <2>2, <2>3, <2>4
<1>11. ASSUME NEW pair \in E PROVE \E p \in D : pair = {p[1],p[2]}
  <2>1. PICK x \in Act, y \in Act : pair = {x,y}
    BY <1>9
  <2>2. x # y
    BY <1>9, <2>1
  <2>3. <<x,y>> \in D
    BY <1>10, <2>1, <2>2
  <2>4. QED
    BY <2>1, <2>3
<1>12. ASSUME NEW p \in D PROVE {p[1],p[2]} \in E
  <2>1. PICK x \in Act, y \in Act : p = <<x,y>>
    BY <1>8
  <2>2. x # y
    <3>1. <<x,x>> \notin conc
      BY DEF Symmetric
    <3>2. QED
      BY <1>7, <2>1, <3>1
  <2>3. QED
    BY <1>10, <2>1, <2>2
<1>13. QED
  BY <1>11, <1>12 DEF D, E, R, reach, pairs

\* Both report the same organizations for an activity.
LEMMA BinningAgrees ==
  ASSUME NEW t \in ComparableTable, NEW a \in Act
  PROVE  {p[1] : p \in {q \in activity_binning(ListOf(t), DemuxedEvents(ListOf(t)), Organizations) : q[2] = a}}
           = Ref!binning(t)[a]
<1> DEFINE list == ListOf(t)
           shown == DemuxedEvents(list)
           n == Len(t)
           B == activity_binning(list, shown, Organizations)
<1>1. t \in Seq(Row) /\ Table(t, n) /\ DOMAIN t = 1 .. n /\ n \in Nat
  <2>1. t \in Seq(Row)
    BY DEF ComparableTable, EventTable
  <2>2. Table(t, n)
    BY ComparableIsTable
  <2>3. QED
    BY <2>1, <2>2
<1>2. ASSUME NEW i \in 1 .. n
      PROVE  t[i].org \in 0 .. Organizations - 1 /\ t[i].act \in Act /\ t[i].act \in Nat /\ t[i].act < M + 1
  <2>1. t[i] \in Row
    BY <1>1
  <2>2. QED
    BY <2>1, MAssumption DEF Row, Act
<1>3. PICK f : /\ f \in [1 .. n -> 1 .. n]
               /\ \A i \in 1 .. n : \E p \in 1 .. n : f[p] = i
               /\ list = [p \in 1 .. n |-> t[f[p]]]
  <2>1. Listings(list, t, n) # {}
    BY ComparableIsTable, ProtocolLists DEF ListOf
  <2>2. QED
    BY <2>1 DEF Listings, Listing, Rearranges
<1> HIDE DEF n, list
<1>4. \A p \in 1 .. n : f[p] \in 1 .. n /\ list[p] = t[f[p]]
  BY <1>3
<1>5. DOMAIN list = 1 .. n
  BY <1>3
<1>6. ASSUME NEW p \in 1 .. n PROVE shown[p] = {list[p].act} /\ Demux(list[p].org, Organizations, TRUE) = {list[p].org}
  <2>1. list[p].org \in 0 .. Organizations - 1 /\ list[p].act \in Nat /\ list[p].act < M + 1
    BY <1>2, <1>4
  <2>2. Organizations \in Nat /\ M + 1 \in Nat
    BY OrganizationsAssumption, MAssumption
  <2>3. list[p].org \in Nat /\ list[p].org < Organizations
    BY <2>1, <2>2
  <2>4. Demux(list[p].act, M + 1, TRUE) = {list[p].act}
    BY <2>1, <2>2, DemuxIsUnit
  <2>5. Demux(list[p].org, Organizations, TRUE) = {list[p].org}
    BY <2>2, <2>3, DemuxIsUnit
  <2>6. shown[p] = Demux(list[p].act, M + 1, TRUE)
    BY <1>5 DEF DemuxedEvents
  <2>7. QED
    BY <2>4, <2>5, <2>6
<1> HIDE DEF shown
<1>7. B = {p \in (0 .. Organizations-1) \X Act :
             \E i \in 1 .. n : p[1] = list[i].org /\ p[2] = list[i].act}
  <2>1. B = {p \in (0 .. Organizations-1) \X Act :
               \E i \in 1 .. n : p[1] \in Demux(list[i].org, Organizations, TRUE) /\ p[2] \in shown[i]}
    BY <1>5 DEF activity_binning
  <2>2. ASSUME NEW p \in (0 .. Organizations-1) \X Act
        PROVE  (\E i \in 1 .. n : p[1] \in Demux(list[i].org, Organizations, TRUE) /\ p[2] \in shown[i])
                 <=> \E i \in 1 .. n : p[1] = list[i].org /\ p[2] = list[i].act
    BY <1>6, ZenonT(60)
  <2> HIDE DEF B
  <2>3. QED
    BY <2>1, <2>2
<1>8. Ref!binning(t)[a] = {t[i].org : i \in {j \in 1 .. n : t[j].act = a}}
  <2>1. Ref!Acts = Act
    BY NodeKinds
  <2>2. QED
    BY <1>1, <2>1 DEF Ref!binning
<1> HIDE DEF B
<1>9. ASSUME NEW i \in 1 .. n, t[i].act = a PROVE \E p \in {q \in B : q[2] = a} : p[1] = t[i].org
  <2>1. PICK k \in 1 .. n : f[k] = i
    BY <1>3
  <2>2. list[k] = t[i]
    BY <1>4, <2>1
  <2>3. <<t[i].org,a>> \in (0 .. Organizations-1) \X Act
    BY <1>2
  <2>4. <<t[i].org,a>> \in B
    BY <1>7, <1>9, <2>2, <2>3
  <2>5. QED
    BY <2>4
<1>10. ASSUME NEW p \in B, p[2] = a PROVE p[1] \in {t[i].org : i \in {j \in 1 .. n : t[j].act = a}}
  <2>1. PICK k \in 1 .. n : p[1] = list[k].org /\ p[2] = list[k].act
    BY <1>7
  <2>2. QED
    BY <1>4, <1>10, <2>1
<1>11. QED
  BY <1>8, <1>9, <1>10 DEF B, list, shown

(***************************************************************************)
(* The two miners, step by step                                            *)
(***************************************************************************)

\* What the steps of the reference before pc have computed.
Artifacts == {"log", "dfg", "self_loops", "short_loops", "concurrency", "pruned", "filtered", "sanitized", "disclosed"}

ReferenceOK ==
  /\ DOMAIN art = Artifacts
  /\ pc \in {"merge", "count", "relate", "filter", "sanitize", "done"}
  /\ pc # "merge" => art.log = Ref!merge(rows)
  /\ pc \notin {"merge", "count"} => art.dfg = RefDfg(rows) /\ art.short_loops = RefShort(rows)
  /\ pc \notin {"merge", "count", "relate"} =>
       /\ art.self_loops = Ref!self_loops(RefDfg(rows))
       /\ art.concurrency = RefConc(rows)
       /\ art.pruned = RefPruned(rows)

\* What the stages of the protocols have computed, of the table alone.
ProtocolOK ==
  /\ rows \in ComparableTable
  /\ stage \in {"input-validation", "uncompilable"} \/ pc = "done"
  /\ stage \in Counted =>
       /\ log = ListOf(rows) /\ demuxed = DemuxedEvents(ListOf(rows)) /\ dfg = DfgOf(rows)
  /\ stage \in Counted \ {"self-loops"} => self_loops = detect_self_loops(DfgOf(rows))
  /\ stage \in Counted \ {"self-loops", "short-loops"} => short_loops = ShortOf(rows)
  /\ stage \in Related => concurrency = ConcOf(rows)
  /\ stage = "reformat" => graph = PrunedOf(rows)
  /\ stage \in Reformatted => graph = reformat_start_and_end(PrunedOf(rows))
  /\ stage \in {"concurrency-sanitization", "done"} =>
       binning = activity_binning(ListOf(rows), DemuxedEvents(ListOf(rows)), Organizations)

MatchInv == PipelineInv /\ ReferenceOK /\ ProtocolOK

\* The invariant holds at the start.
LEMMA BothBegin == BothInit(ComparableTable) => MatchInv
<1> SUFFICES ASSUME BothInit(ComparableTable) PROVE MatchInv
  OBVIOUS
<1>1. InitWith(ComparableTable) /\ Ref!InitOn(rows, eta)
  BY DEF BothInit
<1>2. InitWith(EventTable)
  BY <1>1 DEF InitWith, ComparableTable
<1>3. PipelineInv
  BY <1>2, PipelineBegins
<1>4. DOMAIN art = Artifacts /\ pc = "merge"
  BY <1>1 DEF Ref!InitOn, Artifacts
<1>5. ReferenceOK
  BY <1>4 DEF ReferenceOK
<1>6. ProtocolOK
  BY <1>1 DEF InitWith, ProtocolOK, Counted, Related, Reformatted, FoundIn, FoundOut, Filtered, Combined
<1>7. QED
  BY <1>3, <1>5, <1>6 DEF MatchInv

\* A step of the reference.
LEMMA ReferenceStep ==
  ASSUME MatchInv, Ref!Next, UNCHANGED vars
  PROVE  MatchInv'
<1>1. UNCHANGED <<rows, eta, stage>> /\ UNCHANGED <<log, demuxed, dfg, self_loops, short_loops, concurrency>>
      /\ UNCHANGED <<graph, binning>>
  BY DEF vars, inputs, merged, relations, opened
<1>2. PipelineInv'
  BY PipelineStep DEF MatchInv
<1>3. ReferenceOK /\ ProtocolOK
  BY DEF MatchInv
<1>4. pc # "done"
  BY DEF Ref!Next, Ref!Merge, Ref!CountArcs, Ref!Relate, Ref!Filter, Ref!SanitizeArcs
<1>5. ProtocolOK'
  BY <1>1, <1>3, <1>4 DEF ProtocolOK, Counted, Related, Reformatted, FoundIn, FoundOut, Filtered, Combined
<1>6. ReferenceOK'
  <2>1. DOMAIN art = Artifacts
    BY <1>3 DEF ReferenceOK
  <2>2. CASE Ref!Merge
    <3>1. pc = "merge" /\ pc' = "count" /\ art' = [art EXCEPT !.log = Ref!merge(rows)]
      BY <2>2 DEF Ref!Merge
    <3>2. DOMAIN art' = Artifacts /\ art'.log = Ref!merge(rows)
      BY <2>1, <3>1 DEF Artifacts
    <3>3. QED
      BY <1>1, <3>1, <3>2 DEF ReferenceOK
  <2>3. CASE Ref!CountArcs
    <3>1. pc = "count" /\ pc' = "relate"
          /\ art' = [art EXCEPT !.dfg = Ref!Counted(art.log), !.short_loops = Ref!short_loops(art.log)]
      BY <2>3 DEF Ref!CountArcs
    <3>2. art.log = Ref!merge(rows)
      BY <1>3, <3>1 DEF ReferenceOK
    <3>3. DOMAIN art' = Artifacts /\ art'.log = art.log
          /\ art'.dfg = Ref!Counted(art.log) /\ art'.short_loops = Ref!short_loops(art.log)
      BY <2>1, <3>1 DEF Artifacts
    <3>4. QED
      BY <1>1, <3>1, <3>2, <3>3 DEF ReferenceOK, RefDfg, RefShort
  <2>4. CASE Ref!Relate
    <3> DEFINE c == Ref!conc(art.dfg, art.short_loops)
               p == Ref!pruned(art.dfg, art.short_loops, c)
               s == Ref!self_loops(art.dfg)
    <3>1. pc = "relate" /\ pc' = "filter"
          /\ art' = [art EXCEPT !.self_loops = s, !.concurrency = c, !.pruned = p]
      BY <2>4 DEF Ref!Relate
    <3>2. art.log = Ref!merge(rows) /\ art.dfg = RefDfg(rows) /\ art.short_loops = RefShort(rows)
      BY <1>3, <3>1 DEF ReferenceOK
    <3>3. s = Ref!self_loops(RefDfg(rows)) /\ c = RefConc(rows) /\ p = RefPruned(rows)
      BY <3>2 DEF RefConc, RefPruned
    <3> HIDE DEF s, c, p
    <3>4. DOMAIN art' = Artifacts /\ art'.log = art.log /\ art'.dfg = art.dfg /\ art'.short_loops = art.short_loops
          /\ art'.self_loops = s /\ art'.concurrency = c /\ art'.pruned = p
      BY <2>1, <3>1 DEF Artifacts
    <3>5. QED
      BY <1>1, <3>1, <3>2, <3>3, <3>4 DEF ReferenceOK, RefDfg, RefShort, RefConc, RefPruned
  <2>5. CASE Ref!Filter
    <3>1. pc = "filter" /\ pc' = "sanitize" /\ \E x : art' = [art EXCEPT !.filtered = x]
      BY <2>5 DEF Ref!Filter
    <3>2. DOMAIN art' = Artifacts /\ art'.log = art.log /\ art'.dfg = art.dfg /\ art'.short_loops = art.short_loops
          /\ art'.self_loops = art.self_loops /\ art'.concurrency = art.concurrency /\ art'.pruned = art.pruned
      BY <2>1, <3>1 DEF Artifacts
    <3>3. QED
      BY <1>1, <1>3, <3>1, <3>2 DEF ReferenceOK, RefDfg, RefShort, RefConc, RefPruned
  <2>6. CASE Ref!SanitizeArcs
    <3>1. pc = "sanitize" /\ pc' = "done" /\ \E x, y : art' = [art EXCEPT !.sanitized = x, !.disclosed = y]
      BY <2>6 DEF Ref!SanitizeArcs
    <3>2. DOMAIN art' = Artifacts /\ art'.log = art.log /\ art'.dfg = art.dfg /\ art'.short_loops = art.short_loops
          /\ art'.self_loops = art.self_loops /\ art'.concurrency = art.concurrency /\ art'.pruned = art.pruned
      BY <2>1, <3>1 DEF Artifacts
    <3>3. QED
      BY <1>1, <1>3, <3>1, <3>2 DEF ReferenceOK, RefDfg, RefShort, RefConc, RefPruned
  <2>7. QED
    BY <2>2, <2>3, <2>4, <2>5, <2>6 DEF Ref!Next
<1>7. QED
  BY <1>2, <1>5, <1>6 DEF MatchInv

\* A stage of the protocols.
LEMMA ProtocolStep ==
  ASSUME MatchInv, Next, pc = "done", UNCHANGED <<pc, art>>
  PROVE  MatchInv'
<1> USE DEF Counted, Related, Reformatted, FoundIn, FoundOut, Filtered, Combined
<1>1. PipelineInv'
  BY PipelineStep DEF MatchInv
<1>2. ReferenceOK /\ ProtocolOK
  BY DEF MatchInv
<1>3. ReferenceOK'
  <2>1. rows' = rows
    BY DEF Next, inputs, ValidateInputs, BuildDfg, DetectSelfLoops, DetectShortLoops, DetectConcurrency, Prune, Reformat,
           SearchForward, SearchBackwards, FilterByEta, Combine, BinActivities, Sanitize
  <2>2. QED
    BY <1>2, <2>1 DEF ReferenceOK
<1>4. ProtocolOK'
  <2>1. CASE ValidateInputs
    BY <1>2, <2>1 DEF ValidateInputs, ProtocolOK, inputs, merged, relations, filter, opened
  <2>2. CASE BuildDfg
    BY <1>2, <2>2 DEF BuildDfg, ProtocolOK, inputs, merged, relations, filter, opened, ListOf, DfgOf
  <2>3. CASE DetectSelfLoops
    BY <1>2, <2>3 DEF DetectSelfLoops, ProtocolOK, inputs, merged, relations, filter, opened
  <2>4. CASE DetectShortLoops
    BY <1>2, <2>4 DEF DetectShortLoops, ProtocolOK, inputs, merged, relations, filter, opened, ShortOf
  <2>5. CASE DetectConcurrency
    BY <1>2, <2>5 DEF DetectConcurrency, ProtocolOK, inputs, merged, relations, filter, opened, ConcOf
  <2>6. CASE Prune
    BY <1>2, <2>6 DEF Prune, ProtocolOK, inputs, merged, relations, filter, opened, PrunedOf
  <2>7. CASE Reformat
    BY <1>2, <2>7 DEF Reformat, ProtocolOK, inputs, merged, relations, filter, opened
  <2>8. CASE SearchForward
    BY <1>2, <2>8 DEF SearchForward, ProtocolOK, inputs, merged, relations, filter, opened
  <2>9. CASE SearchBackwards
    BY <1>2, <2>9 DEF SearchBackwards, ProtocolOK, inputs, merged, relations, filter, opened
  <2>10. CASE FilterByEta
    BY <1>2, <2>10 DEF FilterByEta, ProtocolOK, inputs, merged, relations, filter, opened
  <2>11. CASE Combine
    BY <1>2, <2>11 DEF Combine, ProtocolOK, inputs, merged, relations, filter, opened
  <2>12. CASE BinActivities
    BY <1>2, <2>12 DEF BinActivities, ProtocolOK, inputs, merged, relations, filter, opened
  <2>13. CASE Sanitize
    BY <1>2, <2>13 DEF Sanitize, ProtocolOK, inputs, merged, relations, filter, opened
  <2>14. QED
    BY <2>1, <2>2, <2>3, <2>4, <2>5, <2>6, <2>7, <2>8, <2>9, <2>10, <2>11, <2>12, <2>13 DEF Next
<1>5. QED
  BY <1>1, <1>3, <1>4 DEF MatchInv

\* Every step of either keeps the invariant.
LEMMA MatchStep == MatchInv /\ [BothNext]_<<vars, pc, art>> => MatchInv'
<1> SUFFICES ASSUME MatchInv, [BothNext]_<<vars, pc, art>> PROVE MatchInv'
  OBVIOUS
<1>1. CASE Ref!Next /\ UNCHANGED vars
  BY <1>1, ReferenceStep
<1>2. CASE Next /\ pc = "done" /\ UNCHANGED <<pc, art>>
  BY <1>2, ProtocolStep
<1>3. CASE UNCHANGED <<vars, pc, art>>
  <2>1. /\ UNCHANGED <<rows, eta, stage, pc, art, graph, binning>>
        /\ UNCHANGED <<log, demuxed, dfg, self_loops, short_loops, concurrency>>
    BY <1>3 DEF vars, inputs, merged, relations, opened
  <2>2. PipelineInv'
    BY <1>3, PipelineStep DEF MatchInv
  <2>3. ReferenceOK'
    BY <2>1 DEF MatchInv, ReferenceOK
  <2>4. ProtocolOK'
    BY <2>1 DEF MatchInv, ProtocolOK, Counted, Related, Reformatted, FoundIn, FoundOut, Filtered, Combined
  <2>5. QED
    BY <2>2, <2>3, <2>4 DEF MatchInv
<1>4. QED
  BY <1>1, <1>2, <1>3 DEF BothNext

\* What the reference and the protocols have computed of the same table agrees, stage by stage.
LEMMA MatchInvImplies == MatchInv => MatchesReference
<1> SUFFICES ASSUME MatchInv PROVE MatchesReference
  OBVIOUS
<1> USE DEF Counted, Related, Reformatted, FoundIn, FoundOut, Filtered, Combined
<1>1. PipelineInv /\ ReferenceOK /\ ProtocolOK /\ rows \in ComparableTable
  BY DEF MatchInv, ProtocolOK
<1>2. stage \in Related =>
        /\ dfg = DfgOf(rows) /\ self_loops = Ref!self_loops(RefDfg(rows)) /\ short_loops = ShortOf(rows)
        /\ concurrency = ConcOf(rows)
        /\ art.self_loops = Ref!self_loops(RefDfg(rows)) /\ art.short_loops = RefShort(rows)
        /\ art.concurrency = RefConc(rows) /\ art.pruned = RefPruned(rows)
  <2>1. detect_self_loops(DfgOf(rows)) = Ref!self_loops(RefDfg(rows))
    BY <1>1, SameRelations
  <2>2. QED
    BY <1>1, <2>1 DEF ReferenceOK, ProtocolOK
<1>3. RelationsMatch
  <2>1. RefShort(rows) = Proper(ShortOf(rows)) /\ PairsOf(ConcOf(rows)) = RefConc(rows)
    BY <1>1, SameCounts, SameRelations
  <2>2. QED
    BY <1>2, <2>1 DEF RelationsMatch, Proper, PairsOf
<1>4. stage \in Reformatted => SameGraph(graph, art.pruned)
  <2>1. SameGraph(reformat_start_and_end(PrunedOf(rows)), RefPruned(rows))
    BY <1>1, SameRelations DEF SameGraph
  <2>2. stage \in Reformatted => graph = reformat_start_and_end(PrunedOf(rows))
    BY <1>1 DEF ProtocolOK
  <2>3. QED
    BY <1>2, <2>1, <2>2
<1>5. PrunedGraphMatches
  BY <1>4 DEF PrunedGraphMatches, SameGraph
<1>6. EtaMatches
  <2> SUFFICES ASSUME stage = "filter-combine" PROVE NamedArcs(arcs) = Ref!eta_arcs(art.pruned, eta)
    BY DEF EtaMatches
  <2>1. Split(graph) /\ arcs = keep_eta_percentile_edges(graph, eta) /\ eta \in [num : Nat, den : Nat \ {0}]
    BY <1>1, EtasAssumption DEF PipelineInv, InputsOK, GraphOK, FilterOK
  <2>2. SameGraph(graph, art.pruned)
    BY <1>4
  <2>3. QED
    BY <2>1, <2>2, SameEtaArcs
<1>7. SanitizationMatches
  <2> SUFFICES ASSUME stage = "done"
               PROVE  /\ NamedArcs(revealed) = Ref!sanitized(NamedArcs(arcs))
                      /\ {{p[1],p[2]} : p \in disclosed} = Ref!disclosed(NamedArcs(arcs), art.concurrency)
                      /\ \A a \in Act : {p[1] : p \in {q \in binning : q[2] = a}} = Ref!binning(rows)[a]
    BY DEF SanitizationMatches
  <2>1. /\ ClosureIsComputable /\ Bounded(arcs)
        /\ revealed = spdfg_without_orphans(arcs, Reachability(arcs))
        /\ disclosed = disclosed_concurrency(arcs, Reachability(arcs), concurrency)
    BY <1>1, OpenedFromArcs
  <2>2. Symmetric(concurrency) /\ art.concurrency = PairsOf(concurrency)
    BY <1>1, <1>2, SameRelations DEF Symmetric
  <2>3. NamedArcs(revealed) = Ref!sanitized(NamedArcs(arcs))
    BY <2>1, SanitizedAgree
  <2>4. {{p[1],p[2]} : p \in disclosed} = Ref!disclosed(NamedArcs(arcs), art.concurrency)
    BY <2>1, <2>2, DisclosedAgree
  <2>5. ASSUME NEW a \in Act PROVE {p[1] : p \in {q \in binning : q[2] = a}} = Ref!binning(rows)[a]
    <3>1. binning = activity_binning(ListOf(rows), DemuxedEvents(ListOf(rows)), Organizations)
      BY <1>1 DEF ProtocolOK
    <3>2. QED
      BY <1>1, <3>1, BinningAgrees
  <2>6. QED
    BY <2>3, <2>4, <2>5
<1>8. QED
  BY <1>3, <1>5, <1>6, <1>7 DEF MatchesReference

\* On every table of comparable timestamps, for any thresholds and any numbers of activities and
\* organizations, the protocols compute stage by stage what the cleartext reference computes: loops and
\* concurrency, the pruned graph, the arcs above the eta-percentile, and from the same filtered graph
\* the same opened graph, disclosed pairs and organizations (split_miner.py, reference_split_miner.py).
THEOREM MinersMatch == BothSpec => []MatchesReference
<1>1. BothInit(ComparableTable) => MatchInv
  BY BothBegin
<1>2. MatchInv /\ [BothNext]_<<vars, pc, art>> => MatchInv'
  BY MatchStep
<1>3. QED
  BY <1>1, <1>2, MatchInvImplies, PTL DEF BothSpec
===============================================================================
