--------------------------- MODULE WidestPathProofs ---------------------------
(***************************************************************************)
(* Theorems about the best-edge search in the clear: for every graph, with *)
(* any number of nodes, the search ends with the widest paths.             *)
(***************************************************************************)
EXTENDS WidestPath, TLAPS

(***************************************************************************)
(* The inductive invariant.                                                *)
(***************************************************************************)

\* The source is the only node whose capacity is not the frequency of an arc.
SourceUnbounded ==
  \A v \in Node : IF v = Source THEN caps[v] = Infinity ELSE caps[v] \in Weight

\* Nodes are visited in the order of their capacity.
VisitedWidest ==
  /\ visited \subseteq Reached
  /\ \A u \in visited : \A v \in Node \ visited : caps[v] <= caps[u]

\* No arc that leaves a visited node can improve on what is recorded.
VisitedRelaxed == \A u \in visited : \A v \in Node : Offer(u,v) <= caps[v]

\* No capacity is recorded that a path does not have.
CapacityHasPath == \A v \in Node : \A t \in 1 .. MaxWeight : caps[v] >= t => v \in AtLeast(t)

IInv ==
  /\ TypeOK
  /\ SourceUnbounded
  /\ VisitedWidest
  /\ VisitedRelaxed
  /\ CapacityHasPath
  /\ PredecessorRealisesCapacity
  /\ PredecessorsReachSource

(***************************************************************************)
(* Lemmas about the operators.                                             *)
(***************************************************************************)

\* The least set contains the source and is closed under sufficient arcs.
LEMMA AtLeastClosed ==
  ASSUME NEW t
  PROVE  /\ Source \in AtLeast(t)
         /\ ClosedUnder(AtLeast(t), t)
<1>1. Source \in AtLeast(t)
  BY SourceAssumption DEF AtLeast, Node
<1>2. ASSUME NEW u \in AtLeast(t), NEW v \in Node, edge[u][v] >= t
      PROVE  v \in AtLeast(t)
  <2>1. ASSUME NEW S \in SUBSET Node, Source \in S, ClosedUnder(S, t)
        PROVE  v \in S
    <3>1. u \in S
      BY <2>1 DEF AtLeast
    <3>2. QED
      BY <1>2, <2>1, <3>1 DEF ClosedUnder
  <2>2. QED
    BY <2>1 DEF AtLeast
<1>3. QED
  BY <1>1, <1>2 DEF ClosedUnder

\* Capacities and offers are natural numbers.
LEMMA OfferType ==
  ASSUME TypeOK, NEW u \in Node, NEW v \in Node
  PROVE  /\ caps[v] \in Nat
         /\ edge[u][v] \in Weight
         /\ Offer(u,v) \in Nat
         /\ Offer(u,v) <= caps[u]
         /\ Offer(u,v) <= edge[u][v]
         /\ Offer(u,v) \in Weight
         /\ Offer(u,v) = caps[u] \/ Offer(u,v) = edge[u][v]
<1>1. caps[v] \in Nat /\ caps[u] \in Nat
  BY WeightAssumption DEF TypeOK, Weight
<1>2. edge[u][v] \in Weight
  BY DEF TypeOK
<1>3. edge[u][v] \in Nat /\ edge[u][v] <= MaxWeight
  BY <1>2, WeightAssumption DEF Weight
<1>4. CASE caps[u] < edge[u][v]
  <2>1. Offer(u,v) = caps[u]
    BY <1>4 DEF Offer, Narrower
  <2>2. QED
    BY <1>1, <1>2, <1>3, <1>4, <2>1, WeightAssumption DEF Weight
<1>5. CASE ~ (caps[u] < edge[u][v])
  <2>1. Offer(u,v) = edge[u][v]
    BY <1>5 DEF Offer, Narrower
  <2>2. QED
    BY <1>1, <1>2, <1>3, <1>5, <2>1, WeightAssumption DEF Weight
<1>6. QED
  BY <1>4, <1>5

LEMMA InitIInv == Init => IInv
<1> SUFFICES ASSUME Init PROVE IInv
  OBVIOUS
<1> USE DEF Init, InitWith
<1>1. TypeOK
  BY WeightAssumption, NAssumption, SourceAssumption DEF TypeOK, Weight, Node, NoPred
<1>2. SourceUnbounded
  BY WeightAssumption DEF SourceUnbounded, Weight
<1>3. VisitedWidest /\ VisitedRelaxed
  BY DEF VisitedWidest, VisitedRelaxed
<1>4. CapacityHasPath
  <2> SUFFICES ASSUME NEW v \in Node, NEW t \in 1 .. MaxWeight, caps[v] >= t
               PROVE  v \in AtLeast(t)
    BY DEF CapacityHasPath
  <2>1. v = Source
    BY WeightAssumption
  <2>2. QED
    BY <2>1, AtLeastClosed
<1>5. PredecessorRealisesCapacity
  BY DEF PredecessorRealisesCapacity
<1>6. PredecessorsReachSource
  BY DEF PredecessorsReachSource, Reached
<1>7. QED
  BY <1>1, <1>2, <1>3, <1>4, <1>5, <1>6 DEF IInv

(***************************************************************************)
(* The step.                                                               *)
(***************************************************************************)

\* What a visit does to one node: nothing unless the node is unsettled and the
\* offer is better, and then its capacity is the offer.
LEMMA VisitEffect ==
  ASSUME IInv, NEW u \in Node, Visit(u), NEW v \in Node
  PROVE  /\ u \in Reached /\ u \notin visited
         /\ \A w \in Node \ visited : caps[w] <= caps[u]
         /\ caps[v] \in Nat /\ caps'[v] \in Nat
         /\ \/ /\ Improves(u,v) /\ caps'[v] = Offer(u,v) /\ preds'[v] = u
               /\ v \notin visited /\ v # u /\ caps[v] < caps'[v] /\ caps'[v] <= caps[u]
            \/ ~ Improves(u,v) /\ caps'[v] = caps[v] /\ preds'[v] = preds[v]
<1>1. u \in Reached /\ u \notin visited /\ \A w \in Node \ visited : caps[w] <= caps[u]
  BY DEF Visit, Widest
<1>2. /\ caps[v] \in Nat /\ Offer(u,v) \in Nat /\ Offer(u,v) <= caps[u]
  BY OfferType DEF IInv
<1>3. /\ caps'[v] = IF Improves(u,v) THEN Offer(u,v) ELSE caps[v]
      /\ preds'[v] = IF Improves(u,v) THEN u ELSE preds[v]
  BY DEF Visit
<1>4. CASE Improves(u,v)
  <2>1. v \notin visited /\ v # u /\ Offer(u,v) > caps[v]
    BY <1>4 DEF Improves
  <2>2. QED
    BY <1>1, <1>2, <1>3, <1>4, <2>1
<1>5. CASE ~ Improves(u,v)
  BY <1>1, <1>2, <1>3, <1>5
<1>6. QED
  BY <1>4, <1>5

LEMMA VisitTypeOK ==
  ASSUME IInv, NEW u \in Node, Visit(u)
  PROVE  TypeOK' /\ SourceUnbounded'
<1>1. edge' = edge /\ edge' \in [Node -> [Node -> Weight]]
  BY DEF Visit, IInv, TypeOK
<1>2. ASSUME NEW v \in Node
      PROVE  Offer(u,v) \in Weight /\ caps[v] \in Weight \cup {Infinity}
  BY OfferType DEF IInv, TypeOK
<1>3. caps' \in [Node -> Weight \cup {Infinity}]
  BY <1>2 DEF Visit
<1>4. preds' \in [Node -> Node \cup {NoPred}]
  BY DEF Visit, IInv, TypeOK
<1>5. visited' \subseteq Node
  BY DEF Visit, IInv, TypeOK
<1>6. ASSUME NEW v \in Node
      PROVE  IF v = Source THEN caps'[v] = Infinity ELSE caps'[v] \in Weight
  <2>1. CASE v = Source
    <3>1. caps[v] = Infinity
      BY <2>1 DEF IInv, SourceUnbounded
    <3>2. ~ Improves(u,v)
      BY <3>1, <1>2, WeightAssumption DEF Improves, Weight
    <3>3. QED
      BY <2>1, <3>1, <3>2 DEF Visit
  <2>2. CASE v # Source
    <3>1. caps[v] \in Weight
      BY <2>2 DEF IInv, SourceUnbounded
    <3>2. QED
      BY <2>2, <3>1, <1>2 DEF Visit
  <2>3. QED
    BY <2>1, <2>2
<1>7. SourceUnbounded'
  BY <1>6 DEF SourceUnbounded
<1>8. QED
  BY <1>1, <1>3, <1>4, <1>5, <1>7 DEF TypeOK

\* What was visited before keeps its capacity, and the visited node its own.
LEMMA SettledKept ==
  ASSUME IInv, NEW u \in Node, Visit(u), NEW v \in visited \cup {u}
  PROVE  v \in Node /\ caps'[v] = caps[v] /\ preds'[v] = preds[v]
<1>1. v \in Node
  BY DEF IInv, TypeOK
<1>2. QED
  BY <1>1, VisitEffect

LEMMA VisitOrder ==
  ASSUME IInv, NEW u \in Node, Visit(u)
  PROVE  VisitedWidest' /\ VisitedRelaxed'
<1>1. visited' = visited \cup {u} /\ visited \subseteq Node /\ edge' = edge
  BY DEF Visit, IInv, TypeOK
<1>2. visited' \subseteq Reached'
  <2> SUFFICES ASSUME NEW x \in visited' PROVE x \in Reached'
    OBVIOUS
  <2>1. x \in Reached
    BY <1>1, VisitEffect DEF IInv, VisitedWidest
  <2>2. caps'[x] = caps[x] /\ x \in Node
    BY <1>1, SettledKept
  <2>3. QED
    BY <2>1, <2>2 DEF Reached
<1>3. ASSUME NEW x \in visited', NEW v \in Node \ visited'
      PROVE  caps'[v] <= caps'[x]
  <2>1. caps'[x] = caps[x] /\ x \in Node /\ v \in Node \ visited
    BY <1>1, SettledKept
  <2>2. caps[v] <= caps[x] /\ caps[u] <= caps[x] /\ caps[x] \in Nat /\ caps[u] \in Nat
    BY <1>1, <2>1, VisitEffect DEF IInv, VisitedWidest
  <2>3. caps'[v] <= caps[u] \/ caps'[v] = caps[v]
    BY <2>1, VisitEffect
  <2>4. caps'[v] \in Nat
    BY <2>1, VisitEffect
  <2>5. QED
    BY <2>1, <2>2, <2>3, <2>4
<1>4. ASSUME NEW x \in visited', NEW v \in Node
      PROVE  Offer(x,v)' <= caps'[v]
  <2>1. caps'[x] = caps[x] /\ x \in Node
    BY <1>1, SettledKept
  <2>2. Offer(x,v)' = Offer(x,v)
    BY <1>1, <2>1 DEF Offer
  <2>3. Offer(x,v) \in Nat /\ Offer(x,v) <= caps[x] /\ caps[v] \in Nat /\ caps'[v] \in Nat
    BY <2>1, OfferType, VisitEffect DEF IInv
  <2>4. caps[v] <= caps'[v]
    BY VisitEffect, <2>3
  <2>5. CASE x \in visited
    <3>1. Offer(x,v) <= caps[v]
      BY <2>5 DEF IInv, VisitedRelaxed
    <3>2. QED
      BY <2>2, <2>3, <2>4, <3>1
  <2>6. CASE x = u /\ v \in visited \cup {u}
    <3>1. caps[x] <= caps[v]
      BY <2>6, <2>3, VisitEffect DEF IInv, VisitedWidest
    <3>2. caps[x] \in Nat
      BY <2>1, VisitEffect
    <3>3. QED
      BY <2>2, <2>3, <2>4, <3>1, <3>2
  <2>7. CASE x = u /\ v \notin visited \cup {u}
    <3>1. Improves(u,v) \/ Offer(u,v) <= caps[v]
      BY <2>7, <2>3 DEF Improves
    <3>2. QED
      BY <2>2, <2>3, <2>4, <2>7, <3>1, VisitEffect
  <2>8. QED
    BY <1>1, <2>5, <2>6, <2>7
<1>5. QED
  BY <1>2, <1>3, <1>4 DEF VisitedWidest, VisitedRelaxed

\* The recorded capacity has a path: the path to the visited node, extended.
LEMMA VisitHasPath ==
  ASSUME IInv, NEW u \in Node, Visit(u)
  PROVE  CapacityHasPath'
<1> SUFFICES ASSUME NEW v \in Node, NEW t \in 1 .. MaxWeight, caps'[v] >= t
             PROVE  v \in AtLeast(t)'
  BY DEF CapacityHasPath
<1>1. AtLeast(t)' = AtLeast(t)
  BY DEF Visit, AtLeast, ClosedUnder
<1>2. CASE caps'[v] = caps[v]
  BY <1>1, <1>2 DEF IInv, CapacityHasPath
<1>3. CASE caps'[v] = Offer(u,v)
  <2>1. /\ Offer(u,v) >= t /\ caps[u] \in Nat /\ edge[u][v] \in Weight /\ Offer(u,v) \in Nat
        /\ Offer(u,v) <= caps[u] /\ Offer(u,v) <= edge[u][v]
    BY <1>3, OfferType, VisitEffect DEF IInv
  <2>2. caps[u] >= t /\ edge[u][v] >= t
    BY <2>1, WeightAssumption DEF Weight
  <2>3. u \in AtLeast(t)
    BY <2>2 DEF IInv, CapacityHasPath
  <2>4. QED
    BY <1>1, <2>2, <2>3, AtLeastClosed DEF ClosedUnder
<1>4. QED
  BY <1>2, <1>3, VisitEffect

LEMMA VisitPredecessor ==
  ASSUME IInv, NEW u \in Node, Visit(u)
  PROVE  PredecessorRealisesCapacity'
<1>1. visited' = visited \cup {u} /\ edge' = edge /\ visited \subseteq Node
  BY DEF Visit, IInv, TypeOK
<1>2. ASSUME NEW v \in Node
      PROVE  IF preds'[v] = NoPred
             THEN caps'[v] = IF v = Source THEN Infinity ELSE 0
             ELSE preds'[v] \in visited' /\ caps'[v] = Offer(preds[v], v)'
  <2>1. CASE preds'[v] = preds[v] /\ caps'[v] = caps[v]
    <3>1. CASE preds[v] = NoPred
      BY <2>1, <3>1 DEF IInv, PredecessorRealisesCapacity
    <3>2. CASE preds[v] # NoPred
      <4>1. preds[v] \in visited /\ caps[v] = Offer(preds[v], v)
        BY <3>2 DEF IInv, PredecessorRealisesCapacity
      <4>2. caps'[preds[v]] = caps[preds[v]]
        BY <4>1, SettledKept
      <4>3. Offer(preds[v], v)' = Offer(preds[v], v)
        BY <1>1, <2>1, <4>2 DEF Offer
      <4>4. QED
        BY <1>1, <2>1, <3>2, <4>1, <4>3
    <3>3. QED
      BY <3>1, <3>2
  <2>2. CASE preds'[v] = u /\ caps'[v] = Offer(u,v)
    <3>1. u # NoPred
      BY NAssumption DEF Node, NoPred
    <3>2. caps'[u] = caps[u]
      BY SettledKept
    <3>3. Offer(preds[v], v)' = Offer(u,v)
      BY <1>1, <2>2, <3>2 DEF Offer
    <3>4. QED
      BY <1>1, <2>2, <3>1, <3>3
  <2>3. QED
    BY <2>1, <2>2, VisitEffect
<1>3. QED
  BY <1>2 DEF PredecessorRealisesCapacity

\* A set that follows the new arcs follows the old ones once every unsettled
\* node is added to it; so it holds the settled nodes, hence the new arcs' ends.
LEMMA VisitReachesSource ==
  ASSUME IInv, NEW u \in Node, Visit(u)
  PROVE  PredecessorsReachSource'
<1> SUFFICES ASSUME NEW S \in SUBSET Node, Source \in S,
                    \A v \in Node : preds'[v] \in S => v \in S
             PROVE  Reached' \subseteq S
  BY DEF PredecessorsReachSource
<1> DEFINE T == S \cup (Node \ (visited \cup {u}))
<1>1. \A v \in Node : preds[v] \in T => v \in T
  <2> SUFFICES ASSUME NEW v \in Node, preds[v] \in T, v \in visited \cup {u}
               PROVE  v \in S
    OBVIOUS
  <2>1. preds'[v] = preds[v]
    BY SettledKept
  <2>2. preds[v] # NoPred
    BY NAssumption DEF Node, NoPred
  <2>3. preds[v] \in visited
    BY <2>2 DEF IInv, PredecessorRealisesCapacity
  <2>4. preds[v] \in S
    BY <2>3
  <2>5. QED
    BY <2>1, <2>4
<1>2. Reached \subseteq T
  BY <1>1 DEF IInv, PredecessorsReachSource
<1>3. ASSUME NEW v \in Reached, v \in visited \cup {u}
      PROVE  v \in S
  BY <1>2, <1>3
<1>4. ASSUME NEW v \in Reached'
      PROVE  v \in S
  <2>1. v \in Node /\ caps'[v] > 0
    BY <1>4 DEF Reached
  <2>2. CASE preds'[v] = u
    <3>1. u \in S
      BY <1>3, VisitEffect
    <3>2. QED
      BY <2>1, <2>2, <3>1
  <2>3. CASE preds'[v] = preds[v] /\ caps'[v] = caps[v]
    <3>1. CASE preds[v] = NoPred
      <4>1. caps[v] = IF v = Source THEN Infinity ELSE 0
        BY <2>1, <3>1 DEF IInv, PredecessorRealisesCapacity
      <4>2. QED
        BY <2>1, <2>3, <4>1
    <3>2. CASE preds[v] # NoPred
      <4>1. preds[v] \in visited
        BY <2>1, <3>2 DEF IInv, PredecessorRealisesCapacity
      <4>2. preds[v] \in S
        BY <1>3, <4>1 DEF IInv, VisitedWidest
      <4>3. QED
        BY <2>1, <2>3, <4>2
    <3>3. QED
      BY <3>1, <3>2
  <2>4. QED
    BY <2>1, <2>2, <2>3, VisitEffect
<1>5. QED
  BY <1>4

(***************************************************************************)
(* The theorems.                                                           *)
(***************************************************************************)

LEMMA NextIInv == IInv /\ [Next]_vars => IInv'
<1> SUFFICES ASSUME IInv, [Next]_vars PROVE IInv'
  OBVIOUS
<1>1. ASSUME NEW u \in Node, Visit(u) PROVE IInv'
  BY <1>1, VisitTypeOK, VisitOrder, VisitHasPath, VisitPredecessor, VisitReachesSource DEF IInv
<1>2. CASE UNCHANGED vars
  BY <1>2 DEF vars, IInv, TypeOK, SourceUnbounded, VisitedWidest, VisitedRelaxed,
              CapacityHasPath, PredecessorRealisesCapacity, PredecessorsReachSource,
              Reached, Offer, AtLeast, ClosedUnder
<1>3. QED
  BY <1>1, <1>2 DEF Next

\* The invariant holds in every behaviour of the search.
THEOREM SearchInvariant == Spec => []IInv
  BY InitIInv, NextIInv, PTL DEF Spec

\* Every capacity, predecessor and visited set stays of its type.
THEOREM TypeCorrect == Spec => []TypeOK
<1>1. IInv => TypeOK
  BY DEF IInv
<1>2. QED
  BY <1>1, SearchInvariant, PTL

\* Arcs out of visited nodes cannot improve anything, so what reaches t is
\* closed under arcs of frequency t; with CapacityHasPath it is the least such set.
LEMMA WidthReached == IInv => CapacityIsWidth
<1> SUFFICES ASSUME IInv, Finished, NEW v \in Node, NEW t \in 1 .. MaxWeight
             PROVE  caps[v] >= t <=> v \in AtLeast(t)
  BY DEF CapacityIsWidth
<1> DEFINE S == {x \in Node : caps[x] >= t}
<1>1. Source \in S
  BY SourceAssumption, WeightAssumption DEF IInv, SourceUnbounded, Node
<1>2. ASSUME NEW x \in S, NEW y \in Node, edge[x][y] >= t
      PROVE  y \in S
  <2>1. /\ caps[x] \in Nat /\ caps[y] \in Nat /\ edge[x][y] \in Weight /\ Offer(x,y) \in Nat
        /\ Offer(x,y) = caps[x] \/ Offer(x,y) = edge[x][y]
    BY OfferType DEF IInv
  <2>2. x \in visited
    BY <2>1 DEF Finished, Reached
  <2>3. Offer(x,y) <= caps[y]
    BY <2>2 DEF IInv, VisitedRelaxed
  <2>4. QED
    BY <1>2, <2>1, <2>3, WeightAssumption DEF Weight
<1>3. v \in AtLeast(t) => v \in S
  BY <1>1, <1>2 DEF AtLeast, ClosedUnder
<1>4. caps[v] >= t => v \in AtLeast(t)
  BY DEF IInv, CapacityHasPath
<1>5. QED
  BY <1>3, <1>4

\* When the search ends, the capacities are the widths of the widest paths.
THEOREM WidestPathsFound == Spec => []CapacityIsWidth
  BY SearchInvariant, WidthReached, PTL

\* At every moment each remembered arc realises the capacity it stands for.
THEOREM PredecessorsRealise == Spec => []PredecessorRealisesCapacity
<1>1. IInv => PredecessorRealisesCapacity
  BY DEF IInv
<1>2. QED
  BY <1>1, SearchInvariant, PTL

\* At every moment the remembered arcs lead from the source to every reached node.
THEOREM PredecessorsConnect == Spec => []PredecessorsReachSource
<1>1. IInv => PredecessorsReachSource
  BY DEF IInv
<1>2. QED
  BY <1>1, SearchInvariant, PTL
===============================================================================
