----------------------------- MODULE MCWidestPath -----------------------------
(***************************************************************************)
(* The search in the clear for TLC, on the graphs of a process: node N-1   *)
(* is the start and node N-2 the end, and no arc enters the start, leaves  *)
(* the end or stays at a node.                                             *)
(***************************************************************************)
EXTENDS WidestPath

Start == N - 1
End   == N - 2

Arc == {a \in Node \X Node :
          a[1] # End /\ a[2] # Start /\ a[1] # a[2] /\ a # <<Start, End>>}

ProcessGraph ==
  {[u \in Node |-> [v \in Node |-> IF <<u,v>> \in Arc THEN f[<<u,v>>] ELSE 0]] : f \in [Arc -> Weight]}

MCInit == InitWith(ProcessGraph)
MCSpec == MCInit /\ [][Next]_vars
===============================================================================
