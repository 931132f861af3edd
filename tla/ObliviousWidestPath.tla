------------------------- MODULE ObliviousWidestPath -------------------------
(***************************************************************************)
(* The best-edge search of the federated miner as the parties run it on    *)
(* shares (find_best_incoming_edges_dijkstra).  The nodes are first put in *)
(* a secret random order; the loop then works on positions of that order,  *)
(* opens the position it visits next, and the result is put back in the    *)
(* original order at the end.  The opened positions may depend on the      *)
(* permutation, the result may not.                                        *)
(*                                                                         *)
(* Each action is one piece of the straight-line code of an iteration; a   *)
(* secret array is modelled by the values it hides.                        *)
(***************************************************************************)
EXTENDS Integers

CONSTANTS N, Source, MaxWeight, Infinity

ASSUME NAssumption == N \in Nat \ {0}
ASSUME SourceAssumption == Source \in 0 .. N-1
ASSUME WeightAssumption ==
  /\ MaxWeight \in Nat
  /\ Infinity \in Nat
  /\ MaxWeight < Infinity

Node     == 0 .. N-1
Position == 0 .. N-1
Weight   == 0 .. MaxWeight
NoPred   == N

VARIABLES
  edge,       \* pdfg: the graph in the original order, never written
  place,      \* inverse_permutation: the node at a position
  round,      \* i: iterations completed
  pc,         \* "relax", "select", "restore" or "done"
  current,    \* current_node: the opened position
  node_capacities, predecessors, visited,   \* by position
  result      \* best predecessors in the original order

vars == <<edge, place, round, pc, current, node_capacities, predecessors, visited, result>>

Shuffle ==
  {f \in [Position -> Node] :
     /\ \A p, q \in Position : f[p] = f[q] => p = q
     /\ \A v \in Node : \E p \in Position : f[p] = v}

TypeOK ==
  /\ edge \in [Node -> [Node -> Weight]]
  /\ place \in Shuffle
  /\ round \in 0 .. N
  /\ pc \in {"relax", "select", "restore", "done"}
  /\ current \in Position
  /\ node_capacities \in [Position -> Weight \cup {Infinity}]
  /\ predecessors \in [Position -> Node \cup {NoPred}]
  /\ visited \subseteq Position
  /\ result \in [Node -> Node \cup {NoPred}]

\* edge_capacity_matrix: rows and columns permuted alike.
edge_capacity(p, q) == edge[place[p]][place[q]]

capacity_via_current(q) ==
  IF node_capacities[current] < edge_capacity(current, q)
  THEN node_capacities[current] ELSE edge_capacity(current, q)

\* Mutant: an equally wide path replaces the one found first.
is_as_good(q) == capacity_via_current(q) >= node_capacities[q]

is_better(q) == capacity_via_current(q) > node_capacities[q]

\* Mutant: positions, not nodes, break the ties.
tiebreak_by_position(p) == N * node_capacities[p] + p

\* Ties between equal capacities go to the higher node index, so the key of a
\* position orders capacities first and nodes second.
tiebreak_capacity(p) == N * node_capacities[p] + place[p]

Unvisited == Position \ visited

InitWith(graphs, permutations) ==
  /\ edge \in graphs
  /\ place \in permutations
  /\ round = 0
  /\ pc = "relax"
  /\ current = CHOOSE p \in Position : place[p] = Source
  /\ node_capacities = [p \in Position |-> IF p = current THEN Infinity ELSE 0]
  /\ predecessors = [p \in Position |-> NoPred]
  /\ visited = {}
  /\ result = [v \in Node |-> NoPred]

Init == InitWith([Node -> [Node -> Weight]], Shuffle)

\* Mark the current node and offer every node the path through it.  Visited
\* nodes are offered too: nothing in the loop excludes them.
Relax ==
  /\ pc = "relax"
  /\ visited' = visited \cup {current}
  /\ node_capacities' =
       [q \in Position |-> IF is_better(q) THEN capacity_via_current(q) ELSE node_capacities[q]]
  /\ predecessors' =
       [q \in Position |-> IF is_better(q) THEN place[current] ELSE predecessors[q]]
  /\ round' = round + 1
  /\ pc' = IF round < N - 1 THEN "select" ELSE "restore"
  /\ UNCHANGED <<edge, place, current, result>>

\* Open the unvisited position with the greatest key (reveal_argmax_of_unvisited).
SelectNext ==
  /\ pc = "select"
  /\ \E p \in Unvisited :
       /\ \A q \in Unvisited : tiebreak_capacity(q) <= tiebreak_capacity(p)
       /\ current' = p
  /\ pc' = "relax"
  /\ UNCHANGED <<edge, place, round, node_capacities, predecessors, visited, result>>

\* Mutant: the permutation is applied again instead of being undone.
RestoreByPermuting ==
  /\ pc = "restore"
  /\ result' = [v \in Node |-> predecessors[place[v]]]
  /\ pc' = "done"
  /\ UNCHANGED <<edge, place, round, current, node_capacities, predecessors, visited>>

\* predecessors.secure_permute(permutation, reverse=True)
RestoreOrder ==
  /\ pc = "restore"
  /\ result' = [v \in Node |-> predecessors[CHOOSE p \in Position : place[p] = v]]
  /\ pc' = "done"
  /\ UNCHANGED <<edge, place, round, current, node_capacities, predecessors, visited>>

Next == Relax \/ SelectNext \/ RestoreOrder

Spec == Init /\ [][Next]_vars

(***************************************************************************)
(* The search in the clear that this run hides.  Its loop stops at the     *)
(* first node no path reaches; this one goes on to visit such nodes, so    *)
(* that the number of iterations does not depend on the graph.             *)
(***************************************************************************)
PositionOf(v) == CHOOSE p \in Position : place[p] = v

Search == INSTANCE WidestPath WITH
  caps    <- [v \in Node |-> node_capacities[PositionOf(v)]],
  preds   <- [v \in Node |-> predecessors[PositionOf(v)]],
  visited <- {place[p] : p \in {q \in visited : node_capacities[q] > 0}}

\* The permutation is invisible: whatever it is, the run is the deterministic
\* search in the clear, with ties going to the node of highest index.
RunIsSearchInTheClear == Search!SpecDescending

KeepsVisited ==
  \A p \in visited : /\ node_capacities'[p] = node_capacities[p]
                     /\ predecessors'[p] = predecessors[p]

\* A visited position is settled: although the relaxation runs over all
\* positions and does not look at the visited flags, it never changes one.
VisitedSettled == [][KeepsVisited]_vars
==============================================================================
