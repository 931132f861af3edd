------------------------ MODULE MCObliviousWidestPath ------------------------
(***************************************************************************)
(* Instances of the best-edge search for TLC.  The graphs are those        *)
(* reformat_start_and_end hands to the search: node N-1 is the start,      *)
(* node N-2 the end; the start has no incoming arc, the end no outgoing    *)
(* one, pruning has cleared the self-loops, and no case is empty.          *)
(***************************************************************************)
EXTENDS ObliviousWidestPath

Start == N - 1
End   == N - 2

Arc == {a \in Node \X Node :
          a[1] # End /\ a[2] # Start /\ a[1] # a[2] /\ a # <<Start, End>>}

ProcessGraph ==
  {[u \in Node |-> [v \in Node |-> IF <<u,v>> \in Arc THEN f[<<u,v>>] ELSE 0]] : f \in [Arc -> Weight]}

MCInit == InitWith(ProcessGraph, Shuffle)
MCSpec == MCInit /\ [][Next]_vars

\* The pipeline's edge filter for the N - 2 activities of this graph; what it
\* needs of an event log plays no part here.
Filter == INSTANCE EdgeFilter WITH
  M <- N - 2, Epsilon <- [num |-> 0, den |-> 1], CaseBits <- 1, TimestampBits <- 1

\* The pipeline, which has the search as a function of the graph, gets what the
\* loop over secret positions computes, whatever the permutation.
ResultIsThePipelines ==
  pc = "done" => result = Filter!find_best_incoming_edges(edge, Source, Infinity)
==============================================================================
