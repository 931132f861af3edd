------------------------------ MODULE SplitMiner ------------------------------
(***************************************************************************)
(* The computation of the three parties from the shared event table to the *)
(* artifacts they open (build_split_miner_artifacts), one action per timed *)
(* stage.  What an action writes is secret-shared; only Sanitize opens     *)
(* something before the end, the graph.                                    *)
(***************************************************************************)
EXTENDS EdgeFilter, ConcurrencySanitizer

CONSTANTS Organizations,   \* numb_of_organizations
          Etas,            \* the filter thresholds a run may be compiled with
          Infinity         \* capacity of the source of a search, 2^40

ASSUME OrganizationsAssumption == Organizations \in Nat \ {0}
ASSUME EtasAssumption == Etas \subseteq [num : Nat, den : Nat \ {0}]
ASSUME InfinityAssumption == Infinity \in Nat

VARIABLES
  stage,       \* the stage to come: "input-validation", "dfg", "self-loops", "short-loops",
               \* "concurrency", "pruning", "reformat", "forward", "backwards", "eta-filter",
               \* "filter-combine", "activity-binning", "concurrency-sanitization", "done";
               \* "aborted" or "uncompilable"
  rows,        \* the shared table, party by party
  eta,
  log,         \* the merged table
  demuxed,     \* demuxed_events of the merged table
  dfg, self_loops, short_loops, concurrency,
  graph,       \* pdfg, then reformated_pdfg
  incoming, outgoing,   \* best edges by node
  arcs,        \* eta_matrix, then sfpdfg
  binning,     \* activity_binning
  revealed,    \* the opened graph
  disclosed    \* the opened part of the concurrency relation

inputs    == <<rows, eta>>
merged    == <<log, demuxed>>
relations == <<dfg, self_loops, short_loops, concurrency>>
filter    == <<incoming, outgoing, arcs>>
opened    == <<revealed, disclosed>>
vars      == <<stage, inputs, merged, relations, graph, filter, binning, opened>>

ZeroMatrix == [a \in Label |-> [b \in Label |-> 0]]
NoEdges    == [v \in Node |-> NoPred]

InitWith(tables) ==
  /\ rows \in tables
  /\ eta \in Etas
  /\ stage = IF ClosureIsComputable THEN "input-validation" ELSE "uncompilable"
  /\ log = <<>> /\ demuxed = <<>>
  /\ dfg = ZeroMatrix /\ graph = ZeroMatrix
  /\ self_loops = {} /\ short_loops = {} /\ concurrency = {}
  /\ incoming = NoEdges /\ outgoing = NoEdges
  /\ arcs = {} /\ binning = {} /\ revealed = {} /\ disclosed = {}

\* validate_event_log: one failing entry aborts the run.
InRange(row) ==
  /\ row.case \in 0 .. 2^CaseBits - 1
  /\ row.act \in 0 .. M + 1
  /\ row.time \in 0 .. 2^TimestampBits - 1

ValidateInputs ==
  /\ stage = "input-validation"
  /\ stage' = IF \A i \in DOMAIN rows : InRange(rows[i]) THEN "dfg" ELSE "aborted"
  /\ UNCHANGED <<inputs, merged, relations, graph, filter, binning, opened>>

\* Merge the parties' tables and count the successions.
BuildDfg ==
  /\ stage = "dfg"
  /\ log' = SortByCaseId(SortByTimestamp(rows))
  /\ demuxed' = DemuxedEvents(log')
  /\ dfg' = DirectlyFollows(demuxed', NewCase(log'), CaseEnd(log'))
  /\ stage' = "self-loops"
  /\ UNCHANGED <<inputs, self_loops, short_loops, concurrency, graph, filter, binning, opened>>

DetectSelfLoops ==
  /\ stage = "self-loops"
  /\ self_loops' = detect_self_loops(dfg)
  /\ stage' = "short-loops"
  /\ UNCHANGED <<inputs, merged, dfg, short_loops, concurrency, graph, filter, binning, opened>>

DetectShortLoops ==
  /\ stage = "short-loops"
  /\ short_loops' = detect_short_loops(demuxed, NewCase(log))
  /\ stage' = "concurrency"
  /\ UNCHANGED <<inputs, merged, dfg, self_loops, concurrency, graph, filter, binning, opened>>

DetectConcurrency ==
  /\ stage = "concurrency"
  /\ concurrency' =
       detect_concurrency(dfg, short_loops, detect_left_right_positive(dfg), Len(rows))
  /\ stage' = "pruning"
  /\ UNCHANGED <<inputs, merged, dfg, self_loops, short_loops, graph, filter, binning, opened>>

Prune ==
  /\ stage = "pruning"
  /\ graph' = dfg_pruning(dfg, concurrency, short_loops, self_loops)
  /\ stage' = "reformat"
  /\ UNCHANGED <<inputs, merged, relations, filter, binning, opened>>

Reformat ==
  /\ stage = "reformat"
  /\ graph' = reformat_start_and_end(graph)
  /\ stage' = "forward"
  /\ UNCHANGED <<inputs, merged, relations, filter, binning, opened>>

SearchForward ==
  /\ stage = "forward"
  /\ incoming' = find_best_incoming_edges(graph, Dim - 1, Infinity)
  /\ stage' = "backwards"
  /\ UNCHANGED <<inputs, merged, relations, graph, outgoing, arcs, binning, opened>>

SearchBackwards ==
  /\ stage = "backwards"
  /\ outgoing' = find_best_outgoing_edges(graph, Dim - 2, Infinity)
  /\ stage' = "eta-filter"
  /\ UNCHANGED <<inputs, merged, relations, graph, incoming, arcs, binning, opened>>

FilterByEta ==
  /\ stage = "eta-filter"
  /\ arcs' = keep_eta_percentile_edges(graph, eta)
  /\ stage' = "filter-combine"
  /\ UNCHANGED <<inputs, merged, relations, graph, incoming, outgoing, binning, opened>>

Combine ==
  /\ stage = "filter-combine"
  /\ arcs' = arcs \cup IncomingArcs(incoming) \cup OutgoingArcs(outgoing)
  /\ stage' = "activity-binning"
  /\ UNCHANGED <<inputs, merged, relations, graph, incoming, outgoing, binning, opened>>

BinActivities ==
  /\ stage = "activity-binning"
  /\ binning' = activity_binning(log, demuxed, Organizations)
  /\ stage' = "concurrency-sanitization"
  /\ UNCHANGED <<inputs, merged, relations, graph, filter, opened>>

Sanitize ==
  /\ stage = "concurrency-sanitization"
  /\ LET reach == Reachability(arcs)
     IN  /\ revealed' = spdfg_without_orphans(arcs, reach)
         /\ disclosed' = disclosed_concurrency(arcs, reach, concurrency)
  /\ stage' = "done"
  /\ UNCHANGED <<inputs, merged, relations, graph, filter, binning>>

Next ==
  \/ ValidateInputs \/ BuildDfg
  \/ DetectSelfLoops \/ DetectShortLoops \/ DetectConcurrency \/ Prune \/ Reformat
  \/ SearchForward \/ SearchBackwards \/ FilterByEta \/ Combine
  \/ BinActivities \/ Sanitize

\* The rows honest parties submit.
Row == [case : 0 .. 2^CaseBits - 1, act : Act, time : 0 .. 2^TimestampBits - 1,
        org : 0 .. Organizations - 1]

\* The arrays of detect_short_loops need three events, and a frequency fits in
\* the 40 bits of a capacity.
EventTable == {table \in Seq(Row) : Len(table) >= 3 /\ Len(table) <= Infinity}

Spec == InitWith(EventTable) /\ [][Next]_vars

(***************************************************************************)
(* Properties.                                                             *)
(***************************************************************************)
OneStep(R, S) == S \cup {v \in Node : \E w \in S : <<w,v>> \in R}

\* The nodes a set of arcs leads to from a node.
LeadsTo(R, u) ==
  LET after[k \in 0 .. Dim] == IF k = 0 THEN {u} ELSE OneStep(R, after[k-1])
  IN  after[Dim]

Converse(R) == {<<p[2],p[1]>> : p \in R}

\* Arcs of the pruned graph of frequency t or more.
Frequent(t) == {p \in Node \X Node : graph[p[1]][p[2]] >= t}

\* The filter invents no arc and costs no node anything: the widest path from
\* the start to it, and from it to the end, is as wide in the filtered graph as
\* in the pruned one.
FilterKeepsWidths ==
  stage = "activity-binning" =>
    /\ arcs \subseteq Frequent(1)
    /\ \A t \in 1 .. Len(rows) :
         /\ LeadsTo(Frequent(t), Start) = LeadsTo(Frequent(t) \cap arcs, Start)
         /\ LeadsTo(Converse(Frequent(t)), End) = LeadsTo(Converse(Frequent(t) \cap arcs), End)

\* Every activity of the opened graph can occur and the process can end after
\* it: it lies on a path from the start to the end.
EveryActivityOnPath ==
  stage = "done" =>
    \A a \in Act : a \in LeadsTo(revealed, Start) /\ End \in LeadsTo(revealed, a)

\* A disclosed pair consists of two activities that the opened graph orders in
\* neither direction and that leave a common node, and the pair is disclosed in
\* both directions.
DisclosedPairsAreUnordered ==
  stage = "done" =>
    \A p \in disclosed :
      /\ p[1] \notin LeadsTo(revealed, p[2])
      /\ <<p[2],p[1]>> \in disclosed
      /\ \E u \in Node : <<u,p[1]>> \in revealed /\ <<u,p[2]>> \in revealed

\* The concurrency the log recorded is only ever withheld for a reason visible in
\* the opened graph: it orders the pair, or no node leads to both.
WithheldConcurrencyIsVisible ==
  stage = "done" =>
    \A p \in (concurrency \cap (Act \X Act)) \ disclosed :
      \/ p[1] \in LeadsTo(revealed, p[2]) \/ p[2] \in LeadsTo(revealed, p[1])
      \/ ~\E u \in Node : <<u,p[1]>> \in revealed /\ <<u,p[2]>> \in revealed
===============================================================================
