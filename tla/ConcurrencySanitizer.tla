------------------------- MODULE ConcurrencySanitizer -------------------------
(***************************************************************************)
(* The last protocol of the miner (sanitize_conc_matrix): it reattaches    *)
(* the activities the filtered graph cut off, restricts and completes the  *)
(* concurrency relation, and decides what of it is opened.                 *)
(***************************************************************************)
EXTENDS LogRelations

Identity == {<<a,a>> : a \in Act}

\* The arcs between different activities.
ActivityArcs(arcs) == {p \in arcs : p[1] \in Act /\ p[2] \in Act /\ p[1] # p[2]}

Squared(R) == {p \in Act \X Act : \E k \in Act : <<p[1],k>> \in R /\ <<k,p[2]>> \in R}

\* math.log2(numb_of_activities - 1) has no value for a single activity.
ClosureIsComputable == M - 1 > 0

\* Mutant: one squaring too few.
TooFewSquarings == CeilLog2(M - 1) - 1

Squarings == CeilLog2(M - 1)

Reachability(arcs) ==
  LET after[k \in 0 .. Squarings] ==
        IF k = 0 THEN ActivityArcs(arcs) \cup Identity ELSE Squared(after[k-1])
  IN  after[Squarings]

(***************************************************************************)
(* Orphans: no activity next to the boundary leads to a, or a leads to     *)
(* none.                                                                   *)
(***************************************************************************)
\* Mutant: only an activity without any incoming arc is an orphan.
orphaned_by_degree(arcs, reach) == {a \in Act : ~\E u \in Node \ {a} : <<u,a>> \in arcs}

orphaned_activity_in(arcs, reach) ==
  {a \in Act : ~\E k \in Act : <<Start,k>> \in arcs /\ <<k,a>> \in reach}

orphaned_activity_out(arcs, reach) ==
  {a \in Act : ~\E k \in Act : <<k,End>> \in arcs /\ <<a,k>> \in reach}

spdfg_without_orphans(arcs, reach) ==
  arcs \cup {<<Start,a>> : a \in orphaned_activity_in(arcs, reach)}
       \cup {<<a,End>> : a \in orphaned_activity_out(arcs, reach)}

(***************************************************************************)
(* The relation that is kept.                                              *)
(***************************************************************************)
unconnected(reach) == {p \in Act \X Act : p \notin reach /\ <<p[2],p[1]>> \notin reach}

activity_concurrency(conc) == conc \cap (Act \X Act)

recorded_concurrency(conc) == {a \in Act : \E b \in Act : <<a,b>> \in conc}

\* An orphan the log showed interleaving is concurrent to all it is unordered with.
completes(arcs, reach, conc) ==
  (orphaned_activity_in(arcs, reach) \cup orphaned_activity_out(arcs, reach))
    \cap recorded_concurrency(conc)

completed_pairs(marked) == {p \in Act \X Act : p[1] # p[2] /\ (p[1] \in marked \/ p[2] \in marked)}

kept_concurrency(arcs, reach, conc) ==
  (activity_concurrency(conc) \cup completed_pairs(completes(arcs, reach, conc)))
    \cap unconnected(reach)

\* Mutant: the start does not count as a common node.
co_successor_of_activities(revealed) ==
  {p \in Act \X Act : \E u \in Act : <<u,p[1]>> \in revealed /\ <<u,p[2]>> \in revealed}

\* Two activities a split can compare: some node of the opened graph leads to both.
co_successor(revealed) ==
  {p \in Act \X Act : \E u \in Node : <<u,p[1]>> \in revealed /\ <<u,p[2]>> \in revealed}

disclosed_concurrency(arcs, reach, conc) ==
  kept_concurrency(arcs, reach, conc) \cap co_successor(spdfg_without_orphans(arcs, reach))

(***************************************************************************)
(* activity_to_organization_binning: who submitted an event of which       *)
(* activity.  The activities are demultiplexed with the boundary index.    *)
(***************************************************************************)
activity_binning(log, shown, organizations) ==
  {p \in (0 .. organizations-1) \X Act :
     \E i \in DOMAIN log : p[1] \in Demux(log[i].org, organizations, TRUE) /\ p[2] \in shown[i]}
===============================================================================
