--------------------------- MODULE MinerEquivalence ---------------------------
(***************************************************************************)
(* The protocols next to the cleartext reference on the same event table.  *)
(* The reference "mirrors the computation of the protocols and can thus be *)
(* used to rediscover the output models": here, stage by stage.            *)
(***************************************************************************)
EXTENDS SplitMiner

VARIABLES
  pc,    \* the step the reference is at
  art    \* its artifacts

Ref == INSTANCE ReferenceMiner WITH table <- rows, threshold <- eta

\* The reference numbers the start before the end.
Named(u) == IF u = Start THEN Ref!Start ELSE IF u = End THEN Ref!End ELSE u
NamedArcs(R) == {<<Named(p[1]), Named(p[2])>> : p \in R}

\* The reference runs first, the protocols after it.
BothInit(tables) == InitWith(tables) /\ Ref!InitOn(rows, eta)

BothNext == \/ Ref!Next /\ UNCHANGED vars
            \/ Next /\ pc = "done" /\ UNCHANGED <<pc, art>>

\* Tables whose timestamps the radix sort puts in their order, case by case.
ComparableTable ==
  {t \in EventTable :
     \A c \in 0 .. 2^CaseBits - 1 : SameSign({t[i].time : i \in {j \in DOMAIN t : t[j].case = c}})}

BothSpec == BothInit(ComparableTable) /\ [][BothNext]_<<vars, pc, art>>

\* Loops and concurrency of activities are those of the reference.  The protocol
\* leaves <<a,a>> in the short loops, which the reference excludes.
RelationsMatch ==
  stage = "pruning" =>
    /\ self_loops = art.self_loops
    /\ {p \in short_loops : p[1] # p[2]} = art.short_loops
    /\ {{p[1],p[2]} : p \in concurrency \cap (Act \X Act)} = art.concurrency

\* The pruned graph, start and end apart, is the reference's.  In particular
\* nothing comes of the concurrency the combined boundary index may show with an
\* activity that starts and ends cases equally often.
PrunedGraphMatches ==
  stage = "forward" =>
    \A u, v \in Node : graph[u][v] = Ref!Get(art.pruned, <<Named(u),Named(v)>>)

\* The threshold comparison on ranks keeps exactly the arcs the reference finds
\* by indexing its list of distinct best frequencies.
EtaMatches ==
  stage = "filter-combine" => NamedArcs(arcs) = Ref!eta_arcs(art.pruned, eta)

\* From the same filtered graph both reach the same model: the sanitized graph,
\* the disclosed relation and the organizations of an activity.
SanitizationMatches ==
  stage = "done" =>
    /\ NamedArcs(revealed) = Ref!sanitized(NamedArcs(arcs))
    /\ {{p[1],p[2]} : p \in disclosed} = Ref!disclosed(NamedArcs(arcs), art.concurrency)
    /\ \A a \in Act : {p[1] : p \in {q \in binning : q[2] = a}} = Ref!binning(rows)[a]

\* Stage by stage the protocols compute what the reference computes: relations of
\* the log, pruned graph, arcs above the threshold, and from the same filtered graph the
\* same model (split_miner.py:43-256, 563-748; reference_split_miner.py).
MatchesReference ==
  RelationsMatch /\ PrunedGraphMatches /\ EtaMatches /\ SanitizationMatches

(***************************************************************************)
(* A statement of the documentation that the code does not meet.           *)
(***************************************************************************)
\* "It mirrors the computation of the protocols": the filtered graphs agree.
FilterMatchesReference ==
  stage = "activity-binning" => NamedArcs(arcs) = art.filtered

===============================================================================
