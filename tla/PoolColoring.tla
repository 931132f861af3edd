----------------------------- MODULE PoolColoring -----------------------------
(***************************************************************************)
(* The client turns the flat BPMN graph into a collaboration: every node   *)
(* gets a pool (_color_pools), and a flow between two pools becomes a      *)
(* message hand-off (_apply_pools_to_bpmn).                                *)
(*                                                                         *)
(* A node is its rank by id.  Tasks have the pool of their activity;       *)
(* gateways and the two synthetic events have none and take that of the    *)
(* nearest task.  The neighbours of a node are a Python set of objects, so *)
(* nothing fixes the order in which they are met.                          *)
(***************************************************************************)
EXTENDS Integers, Sequences, FiniteSets, Optional

CONSTANTS
  K,            \* number of nodes
  Pool,         \* the pools of the activities
  ProcessPool   \* the only pool of a graph without any activity

ASSUME KAssumption == K \in Nat \ {0}
ASSUME PoolAssumption ==
  /\ Pool \subseteq Nat
  /\ ProcessPool \in Nat \ Pool
  /\ None \notin Pool \cup {ProcessPool}

Node == 1 .. K

VARIABLES
  flows,      \* sequence flows of the flat graph
  seeds,      \* pool of the activity of each node, or None
  coloring,   \* pool given so far, or None
  queue,      \* coloured nodes whose neighbours are still to be seen
  current,    \* the node just taken from the queue, or 0
  todo,       \* its neighbours the loop has not come to
  todoFlows,  \* flows still to be carried over
  bpmn,       \* the collaboration: its sequence flows and message flows
  pc

vars == <<flows, seeds, coloring, queue, current, todo, todoFlows, bpmn, pc>>

Colored == {n \in Node : coloring[n] # None}
Neighbours(n) == {m \in Node : <<n,m>> \in flows \/ <<m,n>> \in flows}

\* The nodes of a set, the smallest id first.
Ascending(S) == [k \in 1 .. Cardinality(S) |-> CHOOSE n \in S : Cardinality({m \in S : m <= n}) = k]

InitWith(graphs, assignments) ==
  /\ flows \in graphs
  /\ seeds \in assignments
  /\ coloring = seeds
  /\ queue = Ascending({n \in Node : seeds[n] # None})
  /\ current = 0 /\ todo = {}
  /\ todoFlows = flows
  /\ bpmn = [sequence |-> {}, message |-> {}]
  /\ pc = "search"

\* Mutant: the last node is taken instead of the first.
TakeLast ==
  /\ pc = "search" /\ todo = {} /\ queue # <<>>
  /\ current' = queue[Len(queue)]
  /\ queue' = SubSeq(queue, 1, Len(queue) - 1)
  /\ todo' = Neighbours(current')
  /\ UNCHANGED <<flows, seeds, coloring, todoFlows, bpmn, pc>>

\* queue.popleft(), at the head of the outer loop.
TakeNext ==
  /\ pc = "search" /\ todo = {} /\ queue # <<>>
  /\ current' = Head(queue)
  /\ queue' = Tail(queue)
  /\ todo' = Neighbours(current')
  /\ UNCHANGED <<flows, seeds, coloring, todoFlows, bpmn, pc>>

\* One turn of the loop over the neighbours.
SeeNeighbour(n) ==
  /\ pc = "search" /\ n \in todo
  /\ todo' = todo \ {n}
  /\ IF n \in Colored
     THEN UNCHANGED <<coloring, queue>>
     ELSE /\ coloring' = [coloring EXCEPT ![n] = coloring[current]]
          /\ queue' = Append(queue, n)
  /\ UNCHANGED <<flows, seeds, current, todoFlows, bpmn, pc>>

UsedPools == {coloring[n] : n \in Colored}
Fallback == IF UsedPools = {} THEN ProcessPool
            ELSE CHOOSE x \in UsedPools : \A y \in UsedPools : x <= y

\* A component without any activity falls to the first of the pools.
FallBack ==
  /\ pc = "search" /\ todo = {} /\ queue = <<>>
  /\ coloring' = [n \in Node |-> IF n \in Colored THEN coloring[n] ELSE Fallback]
  /\ pc' = "flows"
  /\ UNCHANGED <<flows, seeds, queue, current, todo, todoFlows, bpmn>>

\* The nodes of the collaboration: a copy of every node, and the two message
\* events of a hand-off, named by the flow they replace.
Copy(n)  == <<"copy", n, n>>
Throw(f) == <<"throw", f[1], f[2]>>
Catch(f) == <<"catch", f[1], f[2]>>

\* Mutant: a message flow is attached to the nodes themselves.
CarryOverDirectly(f) ==
  /\ pc = "flows" /\ f \in todoFlows
  /\ todoFlows' = todoFlows \ {f}
  /\ bpmn' = IF coloring[f[1]] = coloring[f[2]]
             THEN [bpmn EXCEPT !.sequence = @ \cup {<<Copy(f[1]), Copy(f[2])>>}]
             ELSE [bpmn EXCEPT !.message = @ \cup {<<Copy(f[1]), Copy(f[2])>>}]
  /\ UNCHANGED <<flows, seeds, coloring, queue, current, todo, pc>>

CarryOver(f) ==
  /\ pc = "flows" /\ f \in todoFlows
  /\ todoFlows' = todoFlows \ {f}
  /\ bpmn' = IF coloring[f[1]] = coloring[f[2]]
             THEN [bpmn EXCEPT !.sequence = @ \cup {<<Copy(f[1]), Copy(f[2])>>}]
             ELSE [bpmn EXCEPT !.sequence = @ \cup {<<Copy(f[1]), Throw(f)>>, <<Catch(f), Copy(f[2])>>},
                               !.message = @ \cup {<<Throw(f), Catch(f)>>}]
  /\ UNCHANGED <<flows, seeds, coloring, queue, current, todo, pc>>

Finish ==
  /\ pc = "flows" /\ todoFlows = {}
  /\ pc' = "done"
  /\ UNCHANGED <<flows, seeds, coloring, queue, current, todo, todoFlows, bpmn>>

Next ==
  \/ TakeNext
  \/ \E n \in Node : SeeNeighbour(n)
  \/ FallBack
  \/ \E f \in todoFlows : CarryOver(f)
  \/ Finish

\* Any graph, and any activities.
PoolSpec == InitWith(SUBSET (Node \X Node), [Node -> Pool \cup {None}]) /\ [][Next]_vars

(***************************************************************************)
(* Properties.                                                             *)
(***************************************************************************)
Handoff == {Throw(f) : f \in flows} \cup {Catch(f) : f \in flows}

\* The nodes at most k hops from n.
Within(n, k) ==
  LET ball[j \in 0 .. k] ==
        IF j = 0 THEN {n} ELSE ball[j-1] \cup UNION {Neighbours(m) : m \in ball[j-1]}
  IN  ball[k]

SeedsWithin(n, k) == {m \in Within(n, k) : seeds[m] # None}

\* A node gets the pool of the seed that reaches it in the fewest hops, the one
\* of smallest id among these.  In particular the result does not depend on the
\* order in which the neighbours of a node happen to be met.
NearestSeedWins ==
  pc = "flows" =>
    \A n \in Node :
      IF SeedsWithin(n, K) = {} THEN coloring[n] = Fallback
      ELSE \E k \in 0 .. K :
             /\ k > 0 => SeedsWithin(n, k-1) = {}
             /\ \E m \in SeedsWithin(n, k) :
                  /\ \A o \in SeedsWithin(n, k) : m <= o
                  /\ coloring[n] = seeds[m]

\* The process attribute of a node of the collaboration.
PoolOf(n) == coloring[IF n[1] = "throw" THEN n[2] ELSE n[3]]

\* A flow of the flat graph is there again: directly, or as a hand-off.
Carried(f) ==
  \/ <<Copy(f[1]), Copy(f[2])>> \in bpmn.sequence
  \/ /\ <<Copy(f[1]), Throw(f)>> \in bpmn.sequence /\ <<Catch(f), Copy(f[2])>> \in bpmn.sequence
     /\ <<Throw(f), Catch(f)>> \in bpmn.message

\* In the collaboration no sequence flow leaves its pool, every message flow
\* goes from one pool to another and attaches to message events only, and every
\* flow of the flat graph is carried over.
HandoffsAtPoolBoundaries ==
  pc = "done" =>
    /\ \A f \in bpmn.sequence : PoolOf(f[1]) = PoolOf(f[2])
    /\ \A f \in bpmn.message : /\ PoolOf(f[1]) # PoolOf(f[2])
                               /\ f[1] \in Handoff /\ f[2] \in Handoff
    /\ \A f \in flows : Carried(f)
===============================================================================
