------------------------------ MODULE WidestPath ------------------------------
(***************************************************************************)
(* What the capacity filter promises.  For every node of the pruned        *)
(* directly-follows graph it looks for a path from a source whose weakest  *)
(* arc is as frequent as possible, and remembers the last arc of that path.*)
(*                                                                         *)
(* This is the search in the clear, as the reference implementation runs   *)
(* it (widest): no permutation, settled nodes are skipped, and the search  *)
(* ends when no reached node is left.  Among equally wide nodes any may be *)
(* visited first; SpecDescending fixes the choice.  The protocol on shares *)
(* (ObliviousWidestPath) is shown to implement SpecDescending.             *)
(***************************************************************************)
EXTENDS Integers

CONSTANTS
  N,          \* number of nodes of the graph
  Source,     \* the node every path starts from
  MaxWeight,  \* no arc is more frequent than this (the number of events)
  Infinity    \* the capacity of the source

ASSUME NAssumption == N \in Nat \ {0}
ASSUME SourceAssumption == Source \in 0 .. N-1
ASSUME WeightAssumption ==
  /\ MaxWeight \in Nat
  /\ Infinity \in Nat
  /\ MaxWeight < Infinity

Node   == 0 .. N-1
Weight == 0 .. MaxWeight
NoPred == N        \* predecessor of a node that no path has reached

VARIABLES
  edge,     \* edge[u][v]: frequency of the arc from u to v, 0 when absent
  caps,     \* width of the best path found so far
  preds,    \* last arc of that path, by its first node
  visited   \* nodes whose outgoing arcs were already tried

vars == <<edge, caps, preds, visited>>

TypeOK ==
  /\ edge \in [Node -> [Node -> Weight]]
  /\ caps \in [Node -> Weight \cup {Infinity}]
  /\ preds \in [Node -> Node \cup {NoPred}]
  /\ visited \subseteq Node

Narrower(x, y) == IF x < y THEN x ELSE y

\* Mutant: the offer is the sum of the frequencies along the path.
OfferOfSum(u, v) == IF edge[u][v] = 0 THEN 0 ELSE caps[u] + edge[u][v]

\* The width of the path to v whose last arc leaves u.
Offer(u, v) == Narrower(caps[u], edge[u][v])

Reached == {v \in Node : caps[v] > 0}

\* Mutant: any reached node may be visited next.
AnyReached == Reached \ visited

\* The reached nodes of greatest capacity that are still to be visited.
Widest == {u \in Reached \ visited : \A w \in Node \ visited : caps[w] <= caps[u]}

\* Mutant: an equally wide path replaces the one found, for settled nodes too.
ImprovesSettled(u, v) == Offer(u,v) >= caps[v]

\* The path through u is wider than any found so far for the unsettled node v.
Improves(u, v) == v \notin visited \cup {u} /\ Offer(u,v) > caps[v]

InitWith(graphs) ==
  /\ edge \in graphs
  /\ caps = [v \in Node |-> IF v = Source THEN Infinity ELSE 0]
  /\ preds = [v \in Node |-> NoPred]
  /\ visited = {}

Init == InitWith([Node -> [Node -> Weight]])

\* Mutant: the remembered arc follows every offer, better or not.
VisitForgetful(u) ==
  /\ u \in Widest
  /\ visited' = visited \cup {u}
  /\ caps' = [v \in Node |-> IF Improves(u,v) THEN Offer(u,v) ELSE caps[v]]
  /\ preds' = [v \in Node |-> IF v \notin visited' /\ edge[u][v] > 0 THEN u ELSE preds[v]]
  /\ UNCHANGED edge

Visit(u) ==
  /\ u \in Widest
  /\ visited' = visited \cup {u}
  /\ caps' = [v \in Node |-> IF Improves(u,v) THEN Offer(u,v) ELSE caps[v]]
  /\ preds' = [v \in Node |-> IF Improves(u,v) THEN u ELSE preds[v]]
  /\ UNCHANGED edge

Next == \E u \in Node : Visit(u)

Spec == Init /\ [][Next]_vars

(***************************************************************************)
(* The search whose ties go to the node of highest index.                  *)
(***************************************************************************)
NextDescending ==
  \E u \in Node : /\ \A w \in Widest : w <= u
                  /\ Visit(u)

SpecDescending == Init /\ [][NextDescending]_vars

(***************************************************************************)
(* Properties.  AtLeast(t) is the set of nodes a path of arcs of frequency *)
(* t or more leads to: the least set that contains the source and is       *)
(* closed under such arcs.                                                 *)
(***************************************************************************)
ClosedUnder(S, t) ==
  \A u \in S, v \in Node : edge[u][v] >= t => v \in S

AtLeast(t) ==
  {v \in Node : \A S \in SUBSET Node : Source \in S /\ ClosedUnder(S, t) => v \in S}

Finished == Reached \subseteq visited

\* When the search has finished, the capacity of a node is exactly the width of
\* the widest path to it: it reaches t if and only if arcs of frequency t or
\* more lead there.
CapacityIsWidth ==
  Finished => \A v \in Node, t \in 1 .. MaxWeight : caps[v] >= t <=> v \in AtLeast(t)

\* The arc remembered for a node realises the capacity recorded for it, it
\* leaves a node whose own capacity is settled, and a node without a remembered
\* arc is the source or has not been reached.
PredecessorRealisesCapacity ==
  \A v \in Node :
    IF preds[v] = NoPred
    THEN caps[v] = IF v = Source THEN Infinity ELSE 0
    ELSE preds[v] \in visited /\ caps[v] = Offer(preds[v], v)

\* The remembered arcs connect: any set that contains the source and follows
\* them contains every node reached so far.  So the arcs kept for a node never
\* form a cycle that is cut off from the source.
PredecessorsReachSource ==
  \A S \in SUBSET Node :
    Source \in S /\ (\A v \in Node : preds[v] \in S => v \in S)
      => Reached \subseteq S
===============================================================================
