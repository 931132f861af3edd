---------------------- MODULE ObliviousWidestPathProofs ----------------------
(***************************************************************************)
(* The search on shares implements the search in the clear, for every      *)
(* graph and every secret order of its nodes, and returns what the         *)
(* pipeline's function of the graph returns.                               *)
(***************************************************************************)
EXTENDS MCObliviousWidestPath, EventLogProofs

(***************************************************************************)
(* The inductive invariant.                                                *)
(***************************************************************************)

\* An iteration is left as long as the loop has not ended.
RoundLeft == pc \in {"relax", "select"} => round < N

\* The position about to be visited has the greatest key of those left.
CurrentChosen ==
  pc = "relax" =>
    /\ current \in Unvisited
    /\ \A q \in Unvisited : tiebreak_capacity(q) <= tiebreak_capacity(current)

\* Positions are visited in the order of their capacity.
VisitedWidest ==
  \A p \in visited : \A q \in Unvisited : node_capacities[q] <= node_capacities[p]

\* The source keeps its capacity, all others have the frequency of an arc.
SourceUnbounded ==
  \A p \in Position :
    IF place[p] = Source THEN node_capacities[p] = Infinity ELSE node_capacities[p] \in Weight

IInv == TypeOK /\ RoundLeft /\ CurrentChosen /\ VisitedWidest /\ SourceUnbounded

(***************************************************************************)
(* Lemmas about the operators.                                             *)
(***************************************************************************)

\* The key orders by capacity first and by node second.
LEMMA KeyOrder ==
  ASSUME NEW a \in Nat, NEW b \in Nat, NEW x \in Node, NEW y \in Node,
         N * a + x <= N * b + y
  PROVE  a <= b /\ (a = b => x <= y)
<1>1. N \in Nat /\ N > 0 /\ x \in Nat /\ y \in Nat /\ x < N /\ y < N
  BY NAssumption DEF Node
<1>2. CASE a > b
  <2>1. PICK k \in Nat : a = b + 1 + k
    <3>1. a - b - 1 \in Nat /\ a = b + 1 + (a - b - 1)
      BY <1>2
    <3>2. QED
      BY <3>1
  <2>2. N * a = N * b + N + N * k
    BY <1>1, <2>1
  <2>3. N * k \in Nat /\ N * b \in Nat
    BY <1>1, <2>1
  <2>4. N * b + N + N * k + x <= N * b + y
    BY <2>2
  <2>5. FALSE
    BY <1>1, <2>3, <2>4
  <2>6. QED
    BY <2>5
<1>3. CASE a <= b
  <2>1. ASSUME a = b PROVE x <= y
    <3>1. N * a \in Nat
      BY <1>1
    <3>2. N * a + x <= N * a + y
      BY <2>1
    <3>3. QED
      BY <1>1, <3>1, <3>2
  <2>2. QED
    BY <1>3, <2>1
<1>4. QED
  BY <1>2, <1>3

\* A node has exactly one position.
LEMMA Positions ==
  ASSUME TypeOK
  PROVE  /\ \A p \in Position : place[p] \in Node /\ PositionOf(place[p]) = p
         /\ \A v \in Node : PositionOf(v) \in Position /\ place[PositionOf(v)] = v
<1>1. \A v \in Node : PositionOf(v) \in Position /\ place[PositionOf(v)] = v
  BY DEF PositionOf, TypeOK, Shuffle
<1>2. \A p \in Position : place[p] \in Node
  BY DEF TypeOK, Shuffle
<1>3. ASSUME NEW p \in Position PROVE PositionOf(place[p]) = p
  BY <1>1, <1>2 DEF TypeOK, Shuffle
<1>4. QED
  BY <1>1, <1>2, <1>3

\* Capacities and offers are natural numbers, and an offer is bounded by both.
LEMMA OfferType ==
  ASSUME TypeOK, NEW q \in Position
  PROVE  /\ node_capacities[q] \in Nat /\ node_capacities[current] \in Nat
         /\ capacity_via_current(q) \in Weight /\ capacity_via_current(q) \in Nat
         /\ capacity_via_current(q) <= node_capacities[current]
<1>1. node_capacities[q] \in Nat /\ node_capacities[current] \in Nat
  BY WeightAssumption DEF TypeOK, Weight
<1>2. edge[place[current]][place[q]] \in Weight
  BY Positions DEF TypeOK
<1>3. edge_capacity(current, q) \in Weight /\ edge_capacity(current, q) \in Nat
  BY <1>2, WeightAssumption DEF edge_capacity, Weight
<1>4. CASE node_capacities[current] < edge_capacity(current, q)
  BY <1>1, <1>3, <1>4, WeightAssumption DEF capacity_via_current, Weight
<1>5. CASE ~ (node_capacities[current] < edge_capacity(current, q))
  <2>1. capacity_via_current(q) = edge_capacity(current, q)
    BY <1>5 DEF capacity_via_current
  <2>2. QED
    BY <1>1, <1>3, <1>5, <2>1
<1>6. QED
  BY <1>4, <1>5

\* No unvisited position has a greater capacity than the chosen one, and an
\* equal one only with a smaller node.
LEMMA ChosenWidest ==
  ASSUME IInv, pc = "relax", NEW q \in Unvisited
  PROVE  /\ current \in Unvisited
         /\ node_capacities[q] <= node_capacities[current]
         /\ node_capacities[q] = node_capacities[current] => place[q] <= place[current]
<1>1. current \in Unvisited /\ tiebreak_capacity(q) <= tiebreak_capacity(current)
  BY DEF IInv, CurrentChosen
<1>2. q \in Position /\ current \in Position
  BY <1>1 DEF Unvisited
<1>3. node_capacities[q] \in Nat /\ node_capacities[current] \in Nat
  BY <1>2, OfferType DEF IInv
<1>4. place[q] \in Node /\ place[current] \in Node
  BY <1>2, Positions DEF IInv
<1>5. QED
  BY <1>1, <1>3, <1>4, KeyOrder DEF tiebreak_capacity

\* The relaxation changes unvisited positions only, and keeps them within the
\* capacity of the visited one.
LEMMA RelaxEffect ==
  ASSUME IInv, Relax, NEW q \in Position
  PROVE  /\ node_capacities'[q] \in Nat
         /\ is_better(q) => q \notin visited \cup {current}
         /\ \/ /\ is_better(q) /\ node_capacities'[q] = capacity_via_current(q)
               /\ predecessors'[q] = place[current]
            \/ /\ ~ is_better(q) /\ node_capacities'[q] = node_capacities[q]
               /\ predecessors'[q] = predecessors[q]
<1>1. pc = "relax" /\ current \in Unvisited
  BY DEF Relax, IInv, CurrentChosen
<1>2. /\ node_capacities[q] \in Nat /\ node_capacities[current] \in Nat
      /\ capacity_via_current(q) \in Nat /\ capacity_via_current(q) <= node_capacities[current]
  BY OfferType DEF IInv
<1>3. q \in visited => node_capacities[current] <= node_capacities[q]
  BY <1>1 DEF IInv, VisitedWidest
<1>4. is_better(q) => q \notin visited \cup {current}
  BY <1>2, <1>3 DEF is_better
<1>5. /\ node_capacities'[q] = IF is_better(q) THEN capacity_via_current(q) ELSE node_capacities[q]
      /\ predecessors'[q] = IF is_better(q) THEN place[current] ELSE predecessors[q]
  BY DEF Relax
<1>6. CASE is_better(q)
  BY <1>2, <1>4, <1>5, <1>6
<1>7. CASE ~ is_better(q)
  BY <1>2, <1>4, <1>5, <1>7
<1>8. QED
  BY <1>6, <1>7

(***************************************************************************)
(* The invariant.                                                          *)
(***************************************************************************)

LEMMA InitIInv == Init => IInv
<1> SUFFICES ASSUME Init PROVE IInv
  OBVIOUS
<1> USE DEF Init, InitWith
<1>1. \E p \in Position : place[p] = Source
  BY SourceAssumption DEF Shuffle, Node
<1>2. current \in Position /\ place[current] = Source
  BY <1>1
<1>3. TypeOK
  BY <1>2, WeightAssumption, NAssumption DEF TypeOK, Weight, Node, NoPred
<1>4. RoundLeft
  BY NAssumption DEF RoundLeft
<1>5. ASSUME NEW q \in Unvisited
      PROVE  tiebreak_capacity(q) <= tiebreak_capacity(current)
  <2>1. q \in Position
    BY DEF Unvisited
  <2>2. place[q] \in Node /\ place[current] \in Node
    BY <1>2, <1>3, <2>1, Positions
  <2>3. place[q] \in Nat /\ place[current] \in Nat /\ place[q] < N
    BY <2>2, NAssumption DEF Node
  <2>4. CASE q = current
    <3>1. N * node_capacities[q] \in Nat
      BY <1>2, <2>4, NAssumption, WeightAssumption
    <3>2. QED
      BY <2>4, <2>3, <3>1 DEF tiebreak_capacity
  <2>5. CASE q # current
    <3>1. node_capacities[q] = 0 /\ node_capacities[current] = Infinity
      BY <1>2, <2>1, <2>5
    <3>2. PICK k \in Nat : Infinity = 1 + k
      <4>1. Infinity - 1 \in Nat /\ Infinity = 1 + (Infinity - 1)
        BY WeightAssumption
      <4>2. QED
        BY <4>1
    <3>3. N * Infinity = N + N * k /\ N * k \in Nat /\ N \in Nat /\ N * 0 = 0
      BY <3>2, NAssumption
    <3>4. N * Infinity \in Nat /\ N <= N * Infinity
      BY <3>3
    <3>5. place[q] <= N * Infinity + place[current]
      BY <2>3, <3>4, NAssumption
    <3>6. QED
      BY <3>1, <3>3, <3>5, <2>3 DEF tiebreak_capacity
  <2>6. QED
    BY <2>4, <2>5
<1>6. CurrentChosen
  BY <1>2, <1>5 DEF CurrentChosen, Unvisited
<1>7. VisitedWidest
  BY DEF VisitedWidest
<1>8. SourceUnbounded
  BY <1>2, WeightAssumption, <1>3 DEF SourceUnbounded, Weight, TypeOK, Shuffle
<1>9. QED
  BY <1>3, <1>4, <1>6, <1>7, <1>8 DEF IInv

LEMMA RelaxIInv == IInv /\ Relax => IInv'
<1> SUFFICES ASSUME IInv, Relax PROVE IInv'
  OBVIOUS
<1>1. /\ pc = "relax" /\ visited' = visited \cup {current} /\ current \in Position
      /\ visited \subseteq Position /\ place' = place /\ current' = current
      /\ round' = round + 1 /\ round \in 0 .. N /\ round < N
      /\ pc' = IF round < N - 1 THEN "select" ELSE "restore"
  BY DEF Relax, IInv, TypeOK, RoundLeft
<1>2. TypeOK'
  <2>1. ASSUME NEW q \in Position
        PROVE  capacity_via_current(q) \in Weight /\ node_capacities[q] \in Weight \cup {Infinity}
    BY OfferType DEF IInv, TypeOK
  <2>2. node_capacities' \in [Position -> Weight \cup {Infinity}]
    BY <2>1 DEF Relax
  <2>3. predecessors' \in [Position -> Node \cup {NoPred}]
    <3>1. place[current] \in Node
      BY <1>1, Positions DEF IInv
    <3>2. QED
      BY <3>1 DEF Relax, IInv, TypeOK
  <2>4. visited' \subseteq Position
    BY <1>1
  <2>5. round' \in 0 .. N /\ pc' \in {"relax", "select", "restore", "done"}
    BY <1>1, NAssumption
  <2>6. QED
    BY <2>2, <2>3, <2>4, <2>5 DEF Relax, IInv, TypeOK
<1>3. RoundLeft'
  BY <1>1, NAssumption DEF RoundLeft
<1>4. CurrentChosen'
  BY <1>1 DEF CurrentChosen
<1>5. VisitedWidest'
  <2> SUFFICES ASSUME NEW p \in visited', NEW q \in Unvisited'
               PROVE  node_capacities'[q] <= node_capacities'[p]
    BY DEF VisitedWidest
  <2>1. p \in Position /\ q \in Unvisited /\ q \in Position /\ q \notin visited \cup {current}
    BY <1>1 DEF Unvisited
  <2>2. node_capacities'[p] = node_capacities[p]
    BY <1>1, <2>1, RelaxEffect
  <2>3. current \in Unvisited /\ node_capacities[q] <= node_capacities[current]
    BY <1>1, <2>1, ChosenWidest
  <2>4. node_capacities[current] <= node_capacities[p]
    <3>1. CASE p \in visited
      BY <2>3, <3>1 DEF IInv, VisitedWidest
    <3>2. CASE p = current
      BY <1>1, <3>2, OfferType DEF IInv
    <3>3. QED
      BY <1>1, <3>1, <3>2
  <2>5. /\ node_capacities[p] \in Nat /\ node_capacities[q] \in Nat /\ node_capacities[current] \in Nat
        /\ capacity_via_current(q) \in Nat /\ capacity_via_current(q) <= node_capacities[current]
    BY <2>1, OfferType DEF IInv
  <2>6. node_capacities'[q] = capacity_via_current(q) \/ node_capacities'[q] = node_capacities[q]
    BY <2>1, RelaxEffect
  <2>7. QED
    BY <2>2, <2>3, <2>4, <2>5, <2>6
<1>6. SourceUnbounded'
  <2> SUFFICES ASSUME NEW p \in Position
               PROVE  IF place[p] = Source THEN node_capacities'[p] = Infinity
                                           ELSE node_capacities'[p] \in Weight
    BY <1>1 DEF SourceUnbounded
  <2>1. capacity_via_current(p) \in Weight
    BY OfferType DEF IInv
  <2>2. CASE place[p] = Source
    <3>1. node_capacities[p] = Infinity
      BY <2>2 DEF IInv, SourceUnbounded
    <3>2. ~ is_better(p)
      BY <2>1, <3>1, WeightAssumption DEF is_better, Weight
    <3>3. QED
      BY <2>2, <3>1, <3>2, RelaxEffect
  <2>3. CASE place[p] # Source
    <3>1. node_capacities[p] \in Weight
      BY <2>3 DEF IInv, SourceUnbounded
    <3>2. QED
      BY <2>1, <2>3, <3>1, RelaxEffect
  <2>4. QED
    BY <2>2, <2>3
<1>7. QED
  BY <1>2, <1>3, <1>4, <1>5, <1>6 DEF IInv

LEMMA NextIInv == IInv /\ [Next]_vars => IInv'
<1> SUFFICES ASSUME IInv, [Next]_vars PROVE IInv'
  OBVIOUS
<1> USE DEF IInv, TypeOK, RoundLeft, CurrentChosen, VisitedWidest, SourceUnbounded, Unvisited,
            tiebreak_capacity
<1>1. CASE Relax
  BY <1>1, RelaxIInv
<1>2. CASE SelectNext
  BY <1>2 DEF SelectNext
<1>3. CASE RestoreOrder
  <2>1. result' \in [Node -> Node \cup {NoPred}]
    BY <1>3, Positions DEF RestoreOrder, PositionOf
  <2>2. QED
    BY <1>3, <2>1 DEF RestoreOrder
<1>4. CASE UNCHANGED vars
  BY <1>4 DEF vars
<1>5. QED
  BY <1>1, <1>2, <1>3, <1>4 DEF Next

\* Every reachable state satisfies the inductive invariant: the position opened
\* next is the unvisited one of greatest key, and positions are visited in the
\* order of their capacities.
THEOREM SearchInvariant == Spec => []IInv
  BY InitIInv, NextIInv, PTL DEF Spec

\* Every variable of the protocol stays of its type, so the loop runs at most N rounds.
THEOREM TypeCorrect == Spec => []TypeOK
<1>1. IInv => TypeOK
  BY DEF IInv
<1>2. QED
  BY <1>1, SearchInvariant, PTL

\* The loop offers the path through the current position to every position, the
\* visited ones included, and yet never changes a visited one.
THEOREM SettledPositions == Spec => VisitedSettled
<1>1. IInv /\ [Next]_vars => [KeepsVisited]_vars
  <2> SUFFICES ASSUME IInv, Next, NEW p \in visited
               PROVE  node_capacities'[p] = node_capacities[p] /\ predecessors'[p] = predecessors[p]
    BY DEF KeepsVisited
  <2>1. CASE Relax
    BY <2>1, RelaxEffect DEF IInv, TypeOK
  <2>2. CASE SelectNext
    BY <2>2 DEF SelectNext
  <2>3. CASE RestoreOrder
    BY <2>3 DEF RestoreOrder
  <2>4. QED
    BY <2>1, <2>2, <2>3 DEF Next
<1>2. QED
  BY <1>1, SearchInvariant, PTL DEF Spec, VisitedSettled

(***************************************************************************)
(* The refinement.                                                         *)
(***************************************************************************)

ClearCaps    == [v \in Node |-> node_capacities[PositionOf(v)]]
ClearPreds   == [v \in Node |-> predecessors[PositionOf(v)]]
ClearVisited == {place[p] : p \in {q \in visited : node_capacities[q] > 0}}

LEMMA InitRefines == Init => Search!Init
<1> SUFFICES ASSUME Init PROVE Search!Init
  OBVIOUS
<1>1. TypeOK
  BY InitIInv DEF IInv
<1>2. current \in Position /\ place[current] = Source
  BY <1>1, SourceAssumption DEF Init, InitWith, TypeOK, Shuffle, Node
<1>3. ASSUME NEW v \in Node
      PROVE  /\ node_capacities[PositionOf(v)] = IF v = Source THEN Infinity ELSE 0
             /\ predecessors[PositionOf(v)] = NoPred
  <2>1. PositionOf(v) \in Position /\ place[PositionOf(v)] = v /\ PositionOf(Source) = current
    BY <1>1, <1>2, Positions
  <2>2. v = Source <=> PositionOf(v) = current
    BY <1>2, <2>1
  <2>3. QED
    BY <2>1, <2>2 DEF Init, InitWith
<1>4. ClearCaps = [v \in Node |-> IF v = Source THEN Infinity ELSE 0]
  BY <1>3 DEF ClearCaps
<1>5. ClearPreds = [v \in Node |-> NoPred]
  BY <1>3 DEF ClearPreds
<1>6. ClearVisited = {}
  BY DEF ClearVisited, Init, InitWith
<1>7. edge \in [Node -> [Node -> Weight]]
  BY DEF Init, InitWith
<1>8. QED
  BY <1>4, <1>5, <1>6, <1>7
  DEF ClearCaps, ClearPreds, ClearVisited, Search!Init, Search!InitWith, Search!Node,
      Search!Weight, Search!NoPred, Node, Weight, NoPred

\* The offer a node gets in the clear is the one its position gets, and it is
\* accepted in the clear exactly when it is accepted on shares.
LEMMA SameImprovement ==
  ASSUME IInv, Relax, node_capacities[current] > 0, NEW q \in Position
  PROVE  /\ Search!Offer(place[current], place[q]) = capacity_via_current(q)
         /\ Search!Improves(place[current], place[q]) <=> is_better(q)
<1>1. current \in Position /\ place[current] \in Node /\ place[q] \in Node
  BY Positions DEF IInv, TypeOK
<1>2. ClearCaps[place[current]] = node_capacities[current] /\ ClearCaps[place[q]] = node_capacities[q]
  BY <1>1, Positions DEF ClearCaps, IInv
<1>3. Search!Offer(place[current], place[q]) = capacity_via_current(q)
  BY <1>2 DEF ClearCaps, Search!Offer, Search!Narrower, capacity_via_current, edge_capacity,
              Search!Node, Node
<1>4. place[q] \notin ClearVisited \cup {place[current]} => ~ (q \in visited /\ node_capacities[q] > 0)
  BY DEF ClearVisited
<1>5. is_better(q) => place[q] \notin ClearVisited \cup {place[current]}
  <2> SUFFICES ASSUME is_better(q), place[q] \in ClearVisited \cup {place[current]} PROVE FALSE
    OBVIOUS
  <2>1. q \notin visited \cup {current}
    BY RelaxEffect
  <2>2. PICK p \in Position : p \in visited \cup {current} /\ place[p] = place[q]
    BY <1>1 DEF ClearVisited, IInv, TypeOK
  <2>3. p = q
    BY <2>2 DEF IInv, TypeOK, Shuffle
  <2>4. QED
    BY <2>1, <2>2, <2>3
<1>6. is_better(q) <=> capacity_via_current(q) > ClearCaps[place[q]]
  BY <1>2 DEF is_better
<1>7. QED
  BY <1>3, <1>5, <1>6 DEF Search!Improves, ClearCaps, ClearVisited, Search!Node, Node

\* A relaxation from a reached position is the visit of its node.
LEMMA RelaxRefines ==
  ASSUME IInv, Relax, node_capacities[current] > 0
  PROVE  Search!NextDescending
<1> DEFINE u == place[current]
<1>1. /\ current \in Position /\ current \in Unvisited /\ u \in Node /\ pc = "relax"
      /\ visited \subseteq Position /\ visited' = visited \cup {current}
      /\ place' = place /\ edge' = edge
  BY Positions DEF IInv, TypeOK, CurrentChosen, Relax
<1>2. ASSUME NEW v \in Node \ ClearVisited
      PROVE  /\ ClearCaps[v] <= ClearCaps[u]
             /\ ClearCaps[v] = ClearCaps[u] => v <= u
  <2>1. /\ PositionOf(v) \in Position /\ place[PositionOf(v)] = v
        /\ ClearCaps[v] = node_capacities[PositionOf(v)] /\ ClearCaps[u] = node_capacities[current]
    BY <1>1, Positions DEF ClearCaps, IInv
  <2>2. node_capacities[PositionOf(v)] \in Nat /\ node_capacities[current] \in Nat
    BY <2>1, OfferType DEF IInv
  <2>3. CASE PositionOf(v) \in Unvisited
    BY <1>1, <2>1, <2>3, ChosenWidest
  <2>4. CASE PositionOf(v) \in visited
    <3>1. ~ (node_capacities[PositionOf(v)] > 0)
      BY <2>1, <2>4 DEF ClearVisited
    <3>2. QED
      BY <2>1, <2>2, <3>1
  <2>5. QED
    BY <2>1, <2>3, <2>4 DEF Unvisited
<1>3. u \notin ClearVisited /\ ClearCaps[u] = node_capacities[current]
  <2>1. \A p \in visited : place[p] # u
    BY <1>1 DEF Unvisited, IInv, TypeOK, Shuffle
  <2>2. QED
    BY <1>1, <2>1, Positions DEF ClearVisited, ClearCaps, IInv
<1>4. u \in Search!Widest /\ \A w \in Search!Widest : w <= u
  <2>1. Search!Widest = {x \in {v \in Node : ClearCaps[v] > 0} \ ClearVisited :
                           \A w \in Node \ ClearVisited : ClearCaps[w] <= ClearCaps[x]}
    BY DEF Search!Widest, Search!Reached, Search!Node, Node, ClearCaps, ClearVisited
  <2>2. u \in Search!Widest
    BY <1>1, <1>2, <1>3, <2>1
  <2>3. ASSUME NEW w \in Search!Widest PROVE w <= u
    <3>1. w \in Node \ ClearVisited /\ ClearCaps[u] <= ClearCaps[w]
      BY <1>1, <1>3, <2>1
    <3>2. ClearCaps[w] <= ClearCaps[u] /\ (ClearCaps[w] = ClearCaps[u] => w <= u)
      BY <1>2, <3>1
    <3>3. ClearCaps[w] \in Nat /\ ClearCaps[u] \in Nat
      BY <1>1, <3>1, Positions, OfferType DEF ClearCaps, IInv
    <3>4. QED
      BY <3>1, <3>2, <3>3
  <2>4. QED
    BY <2>2, <2>3
<1>5. ASSUME NEW v \in Node
      PROVE  /\ ClearCaps'[v] = IF Search!Improves(u,v) THEN Search!Offer(u,v) ELSE ClearCaps[v]
             /\ ClearPreds'[v] = IF Search!Improves(u,v) THEN u ELSE ClearPreds[v]
  <2>1. PositionOf(v) \in Position /\ place[PositionOf(v)] = v /\ PositionOf(v)' = PositionOf(v)
    BY <1>1, Positions DEF IInv, PositionOf
  <2>2. /\ ClearCaps'[v] = node_capacities'[PositionOf(v)]
        /\ ClearPreds'[v] = predecessors'[PositionOf(v)]
        /\ ClearCaps[v] = node_capacities[PositionOf(v)]
        /\ ClearPreds[v] = predecessors[PositionOf(v)]
    BY <2>1 DEF ClearCaps, ClearPreds
  <2>3. /\ Search!Offer(u,v) = capacity_via_current(PositionOf(v))
        /\ Search!Improves(u,v) <=> is_better(PositionOf(v))
    BY <2>1, SameImprovement
  <2>4. QED
    BY <2>1, <2>2, <2>3, RelaxEffect
<1>6. ClearVisited' = ClearVisited \cup {u}
  <2>1. \A p \in visited \cup {current} : node_capacities'[p] = node_capacities[p]
    BY <1>1, RelaxEffect
  <2>2. QED
    BY <1>1, <2>1 DEF ClearVisited
<1>7. /\ ClearCaps' = [v \in Node |-> IF Search!Improves(u,v) THEN Search!Offer(u,v) ELSE ClearCaps[v]]
      /\ ClearPreds' = [v \in Node |-> IF Search!Improves(u,v) THEN u ELSE ClearPreds[v]]
  BY <1>5 DEF ClearCaps, ClearPreds
<1>8. u \in Search!Node
  BY <1>1 DEF Search!Node, Node
<1>9. SUFFICES /\ \A w \in Search!Widest : w <= u
               /\ Search!Visit(u)
  <2> HIDE DEF u
  <2> QED
    BY <1>8 DEF Search!NextDescending, Search!Visit
<1>10. Search!Visit(u)
  BY <1>1, <1>4, <1>6, <1>7
  DEF Search!Visit, Search!Node, Node, ClearCaps, ClearPreds, ClearVisited
<1>11. QED
  BY <1>4, <1>10

\* A relaxation from a node that no path reaches changes nothing in the clear.
LEMMA RelaxStutters ==
  ASSUME IInv, Relax, ~ (node_capacities[current] > 0)
  PROVE  UNCHANGED <<edge, ClearCaps, ClearPreds, ClearVisited>>
<1>1. /\ current \in Position /\ place' = place /\ edge' = edge
      /\ visited \subseteq Position /\ visited' = visited \cup {current}
  BY DEF IInv, TypeOK, Relax
<1>2. ASSUME NEW q \in Position
      PROVE  node_capacities'[q] = node_capacities[q] /\ predecessors'[q] = predecessors[q]
  <2>1. ~ is_better(q)
    BY OfferType DEF IInv, is_better
  <2>2. QED
    BY <2>1, RelaxEffect
<1>3. \A v \in Node : PositionOf(v)' = PositionOf(v) /\ PositionOf(v) \in Position
  BY <1>1, Positions DEF IInv, PositionOf
<1>4. ClearCaps' = ClearCaps /\ ClearPreds' = ClearPreds
  BY <1>2, <1>3 DEF ClearCaps, ClearPreds
<1>5. {q \in visited' : node_capacities'[q] > 0} = {q \in visited : node_capacities[q] > 0}
  BY <1>1, <1>2
<1>6. ClearVisited' = ClearVisited
  BY <1>1, <1>5 DEF ClearVisited
<1>7. QED
  BY <1>1, <1>4, <1>6

LEMMA StepRefines == IInv /\ [Next]_vars => [Search!NextDescending]_(Search!vars)
<1> SUFFICES ASSUME IInv, [Next]_vars, ~ Search!NextDescending
             PROVE  UNCHANGED Search!vars
  OBVIOUS
<1>1. UNCHANGED <<edge, ClearCaps, ClearPreds, ClearVisited>>
  <2>1. CASE Relax
    <3>1. ~ (node_capacities[current] > 0)
      BY <2>1, RelaxRefines
    <3>2. QED
      BY <2>1, <3>1, RelaxStutters
  <2>2. CASE SelectNext
    BY <2>2 DEF SelectNext, ClearCaps, ClearPreds, ClearVisited, PositionOf
  <2>3. CASE RestoreOrder
    BY <2>3 DEF RestoreOrder, ClearCaps, ClearPreds, ClearVisited, PositionOf
  <2>4. CASE UNCHANGED vars
    BY <2>4 DEF vars, ClearCaps, ClearPreds, ClearVisited, PositionOf
  <2>5. QED
    BY <2>1, <2>2, <2>3, <2>4 DEF Next
<1>2. QED
  BY <1>1 DEF Search!vars, ClearCaps, ClearPreds, ClearVisited

\* Whatever the secret permutation, the protocol runs the deterministic search in
\* the clear: equal capacities go to the node of highest index, so neither the
\* result nor any capacity depends on the permutation.
THEOREM PermutationInvisible == Spec => RunIsSearchInTheClear
<1>1. Spec => [][Search!NextDescending]_(Search!vars)
  BY SearchInvariant, StepRefines, PTL DEF Spec
<1>2. Spec => Search!Init
  BY InitRefines DEF Spec
<1>3. QED
  BY <1>1, <1>2, PTL DEF RunIsSearchInTheClear, Search!SpecDescending

(***************************************************************************)
(* The loop as a function: what the pipeline takes of the search is what   *)
(* the rounds on shares compute.                                           *)
(***************************************************************************)

\* The states of its loop.
LoopState == [caps : [Node -> 0 .. Infinity], preds : [Node -> Node \cup {NoPred}],
              visited : SUBSET Node, current : Node]

FirstState == [caps    |-> [v \in Node |-> IF v = Source THEN Infinity ELSE 0],
               preds   |-> [v \in Node |-> NoPred],
               visited |-> {},
               current |-> Source]

Graphs == [Node -> [Node -> Weight]]

Offer(g, s, v) == IF s.caps[s.current] < g[s.current][v] THEN s.caps[s.current] ELSE g[s.current][v]

\* The rank there is the key here.
LEMMA RankInFilter == \A u, c : Filter!Rank(u, c) = N * c[u] + u
  BY NAssumption DEF Filter!Rank, Filter!Dim

\* The node u is the best of those not seen, the later one of equally wide ones.
Ranked(caps, seen, u) ==
  \A w \in Node \ seen : Filter!Rank(w, caps) <= Filter!Rank(u, caps)

\* Among some nodes there is a best.
LEMMA BestNode ==
  ASSUME NEW caps \in [Node -> 0 .. Infinity], NEW seen, Node \ seen # {}
  PROVE  \E u \in Node \ seen : Ranked(caps, seen, u)
<1> DEFINE rank == [u \in Node |-> N * caps[u] + u]
           n == N * Infinity + N
           S == {rank[u] + 1 : u \in Node \ seen}
<1>1. N \in Nat /\ Infinity \in Nat /\ n \in Nat
  BY NAssumption, WeightAssumption
<1>2. ASSUME NEW u \in Node PROVE rank[u] \in Nat /\ rank[u] + 1 \in 1 .. n
  <2>1. u \in Nat /\ u < N /\ caps[u] \in Nat /\ caps[u] <= Infinity
    BY <1>1 DEF Node
  <2>2. PICK d \in Nat : Infinity = caps[u] + d
    <3>1. Infinity - caps[u] \in Nat /\ Infinity = caps[u] + (Infinity - caps[u])
      BY <1>1, <2>1
    <3>2. QED
      BY <3>1
  <2>3. N * Infinity = N * caps[u] + N * d /\ N * caps[u] \in Nat /\ N * d \in Nat
    BY <1>1, <2>1, <2>2
  <2>4. rank[u] = N * caps[u] + u
    OBVIOUS
  <2> HIDE DEF rank
  <2>5. QED
    BY <1>1, <2>1, <2>3, <2>4
<1> HIDE DEF n
<1>3. S \subseteq 1 .. n /\ S # {}
  <2> HIDE DEF rank
  <2>1. QED
    BY <1>2
<1>4. PICK m \in S : \A j \in S : j <= m
  <2> HIDE DEF S
  <2>1. QED
    BY <1>1, <1>3, GreatestElement
<1>5. PICK u \in Node \ seen : m = rank[u] + 1
  OBVIOUS
<1>6. ASSUME NEW w \in Node \ seen PROVE rank[w] <= rank[u]
  <2>1. rank[w] + 1 <= rank[u] + 1
    BY <1>4, <1>5
  <2> HIDE DEF rank
  <2>2. QED
    BY <1>2, <2>1
<1>7. \A w \in Node \ seen : Filter!Rank(w, caps) <= Filter!Rank(u, caps)
  BY <1>6, RankInFilter
<1>8. QED
  BY <1>7 DEF Ranked

\* One round of its loop.
LEMMA LoopRound ==
  ASSUME NEW g \in Graphs, NEW s \in LoopState
  PROVE  LET r == Filter!SearchRound(g, s)
         IN  /\ r \in LoopState
             /\ r.visited = s.visited \cup {s.current}
             /\ \A v \in Node :
                  IF Offer(g, s, v) > s.caps[v]
                  THEN r.caps[v] = Offer(g, s, v) /\ r.preds[v] = s.current
                  ELSE r.caps[v] = s.caps[v] /\ r.preds[v] = s.preds[v]
             /\ r.visited # Node => r.current \in Node \ r.visited /\ Ranked(r.caps, r.visited, r.current)
<1> DEFINE caps == [v \in Node |-> IF Offer(g, s, v) > s.caps[v] THEN Offer(g, s, v) ELSE s.caps[v]]
           preds == [v \in Node |-> IF Offer(g, s, v) > s.caps[v] THEN s.current ELSE s.preds[v]]
           seen == s.visited \cup {s.current}
           next == IF seen = Node THEN s.current
                   ELSE CHOOSE u \in Node \ seen : Ranked(caps, seen, u)
           r == [caps |-> caps, preds |-> preds, visited |-> seen, current |-> next]
<1>1. Filter!SearchRound(g, s) = r
  <2>1. Filter!Node = Node /\ Filter!Dim = N
    BY NAssumption DEF Filter!Node, Filter!Dim, Node
  <2>2. QED
    BY <2>1 DEF Filter!SearchRound, Offer, Ranked
<1>2. /\ s.caps \in [Node -> 0 .. Infinity] /\ s.preds \in [Node -> Node \cup {NoPred}]
      /\ s.visited \subseteq Node /\ s.current \in Node
  BY DEF LoopState
<1>3. ASSUME NEW v \in Node PROVE Offer(g, s, v) \in 0 .. Infinity
  <2>1. g[s.current][v] \in 0 .. MaxWeight
    BY <1>2 DEF Graphs, Weight
  <2>2. g[s.current][v] \in 0 .. Infinity
    BY <2>1, WeightAssumption
  <2>3. s.caps[s.current] \in 0 .. Infinity
    BY <1>2
  <2>4. QED
    BY <2>2, <2>3 DEF Offer
<1>4. caps \in [Node -> 0 .. Infinity] /\ preds \in [Node -> Node \cup {NoPred}] /\ seen \subseteq Node
  BY <1>2, <1>3
<1>5. next \in Node /\ (seen # Node => next \in Node \ seen /\ Ranked(caps, seen, next))
  <2>1. CASE seen = Node
    BY <1>2, <2>1
  <2>2. CASE seen # Node
    <3> HIDE DEF caps, preds, seen
    <3>1. \E u \in Node \ seen : Ranked(caps, seen, u)
      BY <1>4, <2>2, BestNode
    <3>2. next = CHOOSE u \in Node \ seen : Ranked(caps, seen, u)
      BY <2>2
    <3>3. QED
      BY <3>1, <3>2
  <2>3. QED
    BY <2>1, <2>2
<1>6. /\ r.caps = caps /\ r.preds = preds /\ r.visited = seen /\ r.current = next
  OBVIOUS
<1>7. ASSUME NEW v \in Node
      PROVE  IF Offer(g, s, v) > s.caps[v] THEN caps[v] = Offer(g, s, v) /\ preds[v] = s.current
                                           ELSE caps[v] = s.caps[v] /\ preds[v] = s.preds[v]
  OBVIOUS
<1>8. r \in LoopState
  <2> HIDE DEF caps, preds, seen, next
  <2>1. QED
    BY <1>4, <1>5 DEF LoopState
<1>9. seen = s.visited \cup {s.current}
  OBVIOUS
<1> HIDE DEF r, caps, preds, next, seen
<1>10. QED
  BY <1>1, <1>5, <1>6, <1>7, <1>8, <1>9

\* The state after k rounds.
After(g, k) ==
  LET run[i \in 0 .. N] == IF i = 0 THEN FirstState ELSE Filter!SearchRound(g, run[i-1])
  IN  run[k]

\* Every round has the state the round before it left, and the last one the result.
LEMMA LoopRounds ==
  ASSUME NEW g \in Graphs
  PROVE  /\ After(g, 0) = FirstState
         /\ \A k \in 0 .. N : After(g, k) \in LoopState
         /\ \A k \in 0 .. N-1 : After(g, k+1) = Filter!SearchRound(g, After(g, k))
         /\ Filter!find_best_incoming_edges(g, Source, Infinity) = After(g, N).preds
<1> DEFINE run[i \in 0 .. N] == IF i = 0 THEN FirstState ELSE Filter!SearchRound(g, run[i-1])
           F == [p \in Nat \X LoopState |-> Filter!SearchRound(g, p[2])]
<1>1. N \in Nat /\ N > 0
  BY NAssumption
<1>2. FirstState \in LoopState
  BY SourceAssumption, WeightAssumption DEF FirstState, LoopState, Node
<1>3. F \in [Nat \X LoopState -> LoopState]
  <2>1. ASSUME NEW s \in LoopState PROVE Filter!SearchRound(g, s) \in LoopState
    BY LoopRound
  <2>2. QED
    BY <2>1
<1>4. PICK f \in [0 .. N -> LoopState] : f[0] = FirstState /\ \A k \in 1 .. N : f[k] = F[<<k,f[k-1]>>]
  <2> HIDE DEF F, run
  <2>1. Runs(LoopState, F, FirstState, N) # {}
    BY <1>1, <1>2, <1>3, LoopRuns
  <2>2. QED
    BY <2>1 DEF Runs
<1>5. ASSUME NEW k \in 0 .. N PROVE f[k] = IF k = 0 THEN FirstState ELSE Filter!SearchRound(g, f[k-1])
  <2>1. CASE k = 0
    BY <2>1, <1>4
  <2>2. CASE k # 0
    <3>1. k - 1 \in 0 .. N /\ k \in Nat /\ k \in 1 .. N
      BY <2>2, <1>1
    <3>2. f[k-1] \in LoopState
      BY <3>1
    <3>3. F[<<k,f[k-1]>>] = Filter!SearchRound(g, f[k-1])
      BY <3>1, <3>2
    <3> HIDE DEF F
    <3>4. QED
      BY <2>2, <3>1, <3>3, <1>4
  <2>3. QED
    BY <2>1, <2>2
<1>6. f = [k \in 0 .. N |-> IF k = 0 THEN FirstState ELSE Filter!SearchRound(g, f[k-1])]
  <2> HIDE DEF F
  <2>1. QED
    BY <1>5
<1> HIDE DEF F
<1>7. run = [i \in 0 .. N |-> IF i = 0 THEN FirstState ELSE Filter!SearchRound(g, run[i-1])]
  BY <1>6, Zenon
<1>8. \A k : After(g, k) = run[k]
  BY DEF After
<1>9. Filter!find_best_incoming_edges(g, Source, Infinity) = run[N].preds
  <2>1. Filter!Node = Node /\ Filter!Dim = N /\ Filter!NoPred = NoPred
    BY <1>1 DEF Filter!Node, Filter!Dim, Filter!NoPred, Node, NoPred
  <2>2. QED
    BY <2>1 DEF Filter!find_best_incoming_edges, FirstState
<1> HIDE DEF run
<1>10. run[0] = FirstState
  BY <1>1, <1>7
<1>11. ASSUME NEW k \in 0 .. N-1 PROVE run[k+1] = Filter!SearchRound(g, run[k])
  <2>1. k + 1 \in 0 .. N /\ k + 1 # 0 /\ (k + 1) - 1 = k
    BY <1>1
  <2>2. QED
    BY <1>7, <2>1
<1> DEFINE P == {k \in Nat : k <= N => run[k] \in LoopState}
<1>12. 0 \in P
  BY <1>2, <1>10
<1>13. ASSUME NEW k \in Nat, k \in P PROVE k + 1 \in P
  <2> SUFFICES ASSUME k + 1 <= N PROVE run[k+1] \in LoopState
    OBVIOUS
  <2>1. k \in 0 .. N-1 /\ run[k] \in LoopState
    BY <1>1, <1>13
  <2>2. run[k+1] = Filter!SearchRound(g, run[k])
    BY <1>11, <2>1
  <2>3. QED
    BY <2>1, <2>2, LoopRound
<1>14. \A k \in 0 .. N : run[k] \in LoopState
  <2>1. ASSUME NEW k \in 0 .. N PROVE run[k] \in LoopState
    <3>1. k \in Nat /\ k <= N
      BY <1>1
    <3>2. k \in P
      <4> HIDE DEF P
      <4>1. QED
        BY <3>1, <1>12, <1>13, Induction
    <3>3. QED
      BY <3>1, <3>2
  <2>2. QED
    BY <2>1
<1>15. QED
  BY <1>8, <1>9, <1>10, <1>11, <1>14

(***************************************************************************)
(* The rounds of the loop and those on shares.                             *)
(***************************************************************************)

\* After each round capacities, predecessors and visited nodes are those at the positions,
\* and so is the next node where it is opened.
SameRound ==
  LET s == After(edge, round)
  IN  /\ \A p \in Position : /\ s.caps[place[p]] = node_capacities[p]
                              /\ s.preds[place[p]] = predecessors[p]
      /\ s.visited = {place[p] : p \in visited}
      /\ pc = "relax" => s.current = place[current]
      /\ pc = "select" /\ s.visited # Node =>
           s.current \in Node \ s.visited /\ Ranked(s.caps, s.visited, s.current)
      /\ pc \in {"restore", "done"} => round = N
      /\ pc = "done" => \A v \in Node : result[v] = s.preds[v]

LEMMA FirstRound == Init => SameRound
<1> SUFFICES ASSUME Init PROVE SameRound
  OBVIOUS
<1>1. TypeOK
  BY InitIInv DEF IInv
<1>2. current \in Position /\ place[current] = Source
  BY <1>1, SourceAssumption DEF Init, InitWith, TypeOK, Shuffle, Node
<1>3. After(edge, round) = FirstState
  BY <1>1, LoopRounds DEF Init, InitWith, Graphs, TypeOK
<1>4. ASSUME NEW p \in Position PROVE place[p] \in Node /\ (place[p] = Source <=> p = current)
  BY <1>1, <1>2 DEF TypeOK, Shuffle
<1>5. QED
  BY <1>2, <1>3, <1>4 DEF SameRound, FirstState, Init, InitWith

LEMMA RelaxSameRound == IInv /\ SameRound /\ Relax => SameRound'
<1> SUFFICES ASSUME IInv, SameRound, Relax PROVE SameRound'
  OBVIOUS
<1> DEFINE s == After(edge, round)
           r == After(edge, round + 1)
<1>1. TypeOK /\ N \in Nat /\ round \in 0 .. N - 1 /\ edge \in Graphs
  BY NAssumption DEF IInv, RoundLeft, Relax, TypeOK, Graphs
<1>2. /\ edge' = edge /\ round' = round + 1 /\ place' = place
      /\ visited' = visited \cup {current}
      /\ \A q \in Position :
           /\ node_capacities'[q] = IF is_better(q) THEN capacity_via_current(q) ELSE node_capacities[q]
           /\ predecessors'[q] = IF is_better(q) THEN place[current] ELSE predecessors[q]
      /\ pc' = (IF round < N - 1 THEN "select" ELSE "restore")
  BY DEF Relax
<1>3. /\ \A p \in Position : s.caps[place[p]] = node_capacities[p] /\ s.preds[place[p]] = predecessors[p]
      /\ s.visited = {place[p] : p \in visited}
      /\ s.current = place[current]
  BY DEF SameRound, Relax
<1>4. s \in LoopState /\ r = Filter!SearchRound(edge, s)
  <2>1. round \in 0 .. N
    BY <1>1
  <2>2. QED
    BY <1>1, <2>1, LoopRounds
<1> HIDE DEF s, r
<1>5. /\ r.visited = s.visited \cup {s.current}
      /\ \A v \in Node :
           IF Offer(edge, s, v) > s.caps[v]
           THEN r.caps[v] = Offer(edge, s, v) /\ r.preds[v] = s.current
           ELSE r.caps[v] = s.caps[v] /\ r.preds[v] = s.preds[v]
      /\ r.visited # Node => r.current \in Node \ r.visited /\ Ranked(r.caps, r.visited, r.current)
  BY <1>1, <1>4, LoopRound
<1>6. ASSUME NEW q \in Position PROVE r.caps[place[q]] = node_capacities'[q] /\ r.preds[place[q]] = predecessors'[q]
  <2>1. place[q] \in Node /\ current \in Position
    BY <1>1, Positions DEF TypeOK
  <2>2. Offer(edge, s, place[q]) = capacity_via_current(q)
    BY <1>3, <2>1 DEF Offer, capacity_via_current, edge_capacity
  <2>3. QED
    BY <1>2, <1>3, <1>5, <2>1, <2>2 DEF is_better
<1>7. r.visited = {place[p] : p \in visited'}
  BY <1>2, <1>3, <1>5
<1>8. pc' \in {"restore", "done"} => round + 1 = N /\ pc' # "done"
  BY <1>1, <1>2
<1>9. r = After(edge', round')
  BY <1>2 DEF r
<1>10. /\ \A p \in Position : /\ r.caps[place'[p]] = node_capacities'[p]
                              /\ r.preds[place'[p]] = predecessors'[p]
       /\ r.visited = {place'[p] : p \in visited'}
       /\ pc' \in {"select", "restore"}
       /\ r.visited # Node => r.current \in Node \ r.visited /\ Ranked(r.caps, r.visited, r.current)
       /\ pc' \in {"restore", "done"} => round' = N
  BY <1>2, <1>5, <1>6, <1>7, <1>8
<1>11. pc' # "relax" /\ pc' # "done"
  BY <1>10
<1>12. QED
  BY <1>9, <1>10, <1>11 DEF SameRound

LEMMA SelectSameRound == IInv /\ SameRound /\ SelectNext => SameRound'
<1> SUFFICES ASSUME IInv, SameRound, SelectNext PROVE SameRound'
  OBVIOUS
<1> DEFINE s == After(edge, round)
<1>1. /\ TypeOK /\ pc = "select" /\ pc' = "relax"
      /\ UNCHANGED <<edge, place, round, node_capacities, predecessors, visited, result>>
      /\ current' \in Unvisited
      /\ \A q \in Unvisited : tiebreak_capacity(q) <= tiebreak_capacity(current')
  BY DEF SelectNext, IInv
<1>2. /\ \A p \in Position : s.caps[place[p]] = node_capacities[p] /\ s.preds[place[p]] = predecessors[p]
      /\ s.visited = {place[p] : p \in visited}
      /\ s.visited # Node => s.current \in Node \ s.visited /\ Ranked(s.caps, s.visited, s.current)
  BY <1>1 DEF SameRound
<1> HIDE DEF s
<1>3. current' \in Position /\ current' \notin visited /\ place[current'] \in Node \ s.visited
  <2>1. current' \in Position /\ current' \notin visited /\ visited \subseteq Position
    BY <1>1 DEF Unvisited, TypeOK
  <2>2. QED
    BY <1>1, <1>2, <2>1, Positions
<1>4. s.current \in Node \ s.visited /\ Ranked(s.caps, s.visited, s.current)
  BY <1>2, <1>3
<1> DEFINE p == PositionOf(s.current)
<1>5. p \in Unvisited /\ place[p] = s.current
  BY <1>1, <1>2, <1>4, Positions DEF Unvisited
<1> HIDE DEF p
<1>6. tiebreak_capacity(p) <= tiebreak_capacity(current')
  BY <1>1, <1>5
<1>7. N * s.caps[place[current']] + place[current'] <= N * s.caps[s.current] + s.current
  BY <1>3, <1>4, RankInFilter DEF Ranked
<1>8. /\ p \in Position /\ tiebreak_capacity(p) = N * node_capacities[p] + place[p]
      /\ tiebreak_capacity(current') = N * node_capacities[current'] + place[current']
      /\ s.caps[s.current] = node_capacities[p] /\ s.caps[place[current']] = node_capacities[current']
  BY <1>2, <1>3, <1>5 DEF tiebreak_capacity, Unvisited
<1>9. /\ node_capacities[p] \in Nat /\ node_capacities[current'] \in Nat
      /\ place[p] \in Node /\ place[current'] \in Node
  BY <1>1, <1>3, <1>8, Positions, WeightAssumption DEF TypeOK, Weight
<1> DEFINE a == node_capacities[p]
           b == node_capacities[current']
           x == place[p]
           y == place[current']
<1>10. N * a + x <= N * b + y /\ N * b + y <= N * a + x
  BY <1>5, <1>6, <1>7, <1>8
<1>11. a \in Nat /\ b \in Nat /\ x \in Node /\ y \in Node
  BY <1>9
<1> HIDE DEF a, b, x, y
<1>12. a <= b /\ (a = b => x <= y) /\ b <= a /\ (b = a => y <= x)
  BY <1>10, <1>11, KeyOrder
<1>13. x = y
  BY <1>11, <1>12, NAssumption DEF Node
<1>14. s.current = place[current']
  BY <1>5, <1>13 DEF x, y
<1>15. s = After(edge', round')
  BY <1>1 DEF s
<1>16. QED
  BY <1>1, <1>2, <1>14, <1>15 DEF SameRound

LEMMA NextSameRound == IInv /\ SameRound /\ [Next]_vars => SameRound'
<1> SUFFICES ASSUME IInv, SameRound, [Next]_vars PROVE SameRound'
  OBVIOUS
<1>1. CASE Relax
  BY <1>1, RelaxSameRound
<1>2. CASE SelectNext
  BY <1>2, SelectSameRound
<1>3. CASE RestoreOrder
  <2>1. /\ pc' = "done" /\ round = N
        /\ UNCHANGED <<edge, place, round, current, node_capacities, predecessors, visited>>
        /\ result' = [v \in Node |-> predecessors[PositionOf(v)]]
    BY <1>3 DEF RestoreOrder, SameRound, PositionOf
  <2>2. ASSUME NEW v \in Node PROVE result'[v] = After(edge, round).preds[v]
    <3>1. PositionOf(v) \in Position /\ place[PositionOf(v)] = v
      BY Positions DEF IInv
    <3>2. QED
      BY <2>1, <3>1 DEF SameRound
  <2>3. QED
    BY <2>1, <2>2 DEF SameRound
<1>4. CASE UNCHANGED vars
  BY <1>4 DEF vars, SameRound
<1>5. QED
  BY <1>1, <1>2, <1>3, <1>4 DEF Next

\* ResultIsThePipelines, for every graph and every secret order of the nodes: what the loop
\* over positions returns is what the pipeline's function returns, the choice among equally
\* wide paths included (split_miner.py:273-383).
THEOREM LoopIsTheFunction == Spec => []ResultIsThePipelines
<1>1. IInv /\ SameRound => ResultIsThePipelines
  <2> SUFFICES ASSUME IInv, SameRound, pc = "done"
               PROVE  result = Filter!find_best_incoming_edges(edge, Source, Infinity)
    BY DEF ResultIsThePipelines
  <2>1. /\ edge \in Graphs /\ N \in 0 .. N /\ round = N /\ result \in [Node -> Node \cup {NoPred}]
        /\ \A v \in Node : result[v] = After(edge, round).preds[v]
    BY NAssumption DEF IInv, TypeOK, Graphs, SameRound
  <2>2. After(edge, N) \in LoopState /\ Filter!find_best_incoming_edges(edge, Source, Infinity) = After(edge, N).preds
    BY <2>1, LoopRounds
  <2>3. After(edge, N).preds \in [Node -> Node \cup {NoPred}]
    BY <2>2 DEF LoopState
  <2>4. QED
    BY <2>1, <2>2, <2>3
<1>2. QED
  BY <1>1, SearchInvariant, FirstRound, NextSameRound, PTL DEF Spec
==============================================================================
