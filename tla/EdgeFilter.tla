------------------------------ MODULE EdgeFilter ------------------------------
(***************************************************************************)
(* The edge filter of the miner: for every node the last arc of a widest   *)
(* path from the start and the first arc of a widest path to the end, and  *)
(* in addition every arc at least as frequent as the eta-percentile of the *)
(* best frequencies.                                                       *)
(*                                                                         *)
(* The search is written with its result only: ObliviousWidestPath has its *)
(* steps, and shows that the permutation does not matter.                  *)
(***************************************************************************)
EXTENDS LogRelations

Dim    == M + 2
NoPred == Dim      \* the predecessor of a node no path reaches

Transposed(g) == [u \in Node |-> [v \in Node |-> g[v][u]]]

Rank(u, caps) == Dim * caps[u] + u

\* The loop of find_best_incoming_edges_dijkstra: all nodes are offered the path
\* through the current node, then the best unvisited node becomes current.
SearchRound(g, s) ==
  LET via(v)    == IF s.caps[s.current] < g[s.current][v] THEN s.caps[s.current] ELSE g[s.current][v]
      better(v) == via(v) > s.caps[v]
      caps      == [v \in Node |-> IF better(v) THEN via(v) ELSE s.caps[v]]
      visited   == s.visited \cup {s.current}
  IN  [caps    |-> caps,
       preds   |-> [v \in Node |-> IF better(v) THEN s.current ELSE s.preds[v]],
       visited |-> visited,
       current |-> IF visited = Node THEN s.current
                   ELSE CHOOSE u \in Node \ visited :
                          \A w \in Node \ visited : Rank(w, caps) <= Rank(u, caps)]

find_best_incoming_edges(g, source, infinity) ==
  LET first == [caps    |-> [v \in Node |-> IF v = source THEN infinity ELSE 0],
                preds   |-> [v \in Node |-> NoPred],
                visited |-> {},
                current |-> source]
      run[i \in 0 .. Dim] == IF i = 0 THEN first ELSE SearchRound(g, run[i-1])
  IN  run[Dim].preds

\* Mutant: the graph is not transposed.
find_best_outgoing_edges_forward(g, sink, infinity) == find_best_incoming_edges(g, sink, infinity)

find_best_outgoing_edges(g, sink, infinity) ==
  find_best_incoming_edges(Transposed(g), sink, infinity)

(***************************************************************************)
(* Demultiplexing the best edges gives the arcs they are: into the columns *)
(* for the incoming, into the rows for the outgoing ones.                  *)
(***************************************************************************)
BestOf(best, v) == Demux(best[v], Dim, best[v] < Dim)

IncomingArcs(best) == UNION {{<<u,v>> : u \in BestOf(best, v)} : v \in Node}
OutgoingArcs(best) == UNION {{<<u,v>> : v \in BestOf(best, u)} : u \in Node}

(***************************************************************************)
(* The eta-percentile.                                                     *)
(***************************************************************************)
Maximum(S) == CHOOSE x \in S : \A y \in S : y <= x

BestOut(g, u) == Maximum({g[u][v] : v \in Node})

BestIn(g, v) == Maximum({g[u][v] : u \in Node})

\* values.sort(): both lists of maxima and a padding zero, ascending.
BestFrequencies(g) ==
  LET slots == [i \in 1 .. Dim |-> BestOut(g, i - 1)] \o [i \in 1 .. Dim |-> BestIn(g, i - 1)] \o <<0>>
  IN  StableSort(slots, slots)

\* The steps of the sorted list up to the rank round(d * eta) + 1 add up to the
\* value of that rank; eta is a fraction [num, den].
minimal_value(g, eta) ==
  LET values  == BestFrequencies(g)
      step    == [i \in 1 .. 2 * Dim |-> values[i+1] - values[i]]
      ranking == [i \in 1 .. 2 * Dim |-> Cardinality({j \in 1 .. i : step[j] > 0})]
      d       == ranking[2 * Dim]
      bits    == comparison_bit_length(
                   2 * (2 * Dim + 1) * Larger(eta.num, eta.den) + 3 * eta.den)
      wanted  == 3 * eta.den + d * 2 * eta.num
      reached == {i \in 1 .. 2 * Dim : ~LessThan(wanted, 2 * eta.den * ranking[i], bits)}
      sum[i \in 0 .. 2 * Dim] ==
        IF i = 0 THEN 0 ELSE sum[i-1] + (IF i \in reached THEN step[i] ELSE 0)
  IN  sum[2 * Dim] + IF d > 0 THEN 0 ELSE 1

keep_eta_percentile_edges(g, eta) ==
  LET minimum == minimal_value(g, eta)
  IN  {p \in Node \X Node : g[p[1]][p[2]] >= minimum}
===============================================================================
