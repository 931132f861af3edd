------------------------------ MODULE LeakingDfg ------------------------------
(***************************************************************************)
(* The directly-follows graphs built on the merge that discloses the       *)
(* lengths of the cases.  The first counts masked successions, as the      *)
(* oblivious one does, with boundaries that are public; the second moves   *)
(* the transitions between cases to indices of their own and reads starts  *)
(* and ends off these.                                                     *)
(***************************************************************************)
EXTENDS QuickMerge, LogRelations

ActivityOf(log, i) == log[i].act
Count(S) == Cardinality(S)

\* What the miner is run on: a table that is not empty, of activities that are indices.
ActivityTables == {t \in Seq([case : Field, act : Act, time : Nat]) : t # <<>>}
LeakingSpec == InitWith(ActivityTables) /\ [][Next]_vars

(***************************************************************************)
(* build_directly_follows_graph_and_its_artifacts_by_leaking_case_length_  *)
(* distribution: three products of demultiplexed rows.                     *)
(***************************************************************************)
\* Row i of the matrix shows index v.
start_bottom(new, i) == Demux(Bottom, M + 1, i \in new)
end_bottom(log, new, i) ==
  IF i = Len(log) THEN {Bottom} ELSE start_bottom(new, i + 1)

by_leaking_case_length_distribution(log, new) ==
  LET shown  == DemuxedEvents(log)
      masked == [i \in DOMAIN log |-> Demux(ActivityOf(log, i), M + 1, i \notin new)]
  IN  [a \in Label |-> [b \in Label |->
         Count({i \in 1 .. Len(log) - 1 : a \in shown[i] /\ b \in masked[i+1]})
           + Count({i \in DOMAIN log : a \in start_bottom(new, i) /\ b \in shown[i]})
           + Count({i \in DOMAIN log : a \in shown[i] /\ b \in end_bottom(log, new, i)})]]

(***************************************************************************)
(* build_left_right_directly_follows_graph.                                *)
(***************************************************************************)
Offset(new, i) == IF i + 1 \in new THEN M + 1 ELSE 0

\* Mutant: the loop over the transitions is all there is.
UnseenNothing(log, a, b) == 0

\* The start of the first case and the end of the last are no transitions.
Unseen(log, a, b) ==
  Count({x \in {1} : a = Bottom /\ b \in Demux(ActivityOf(log, x), M + 1, TRUE)})
    + Count({x \in {Len(log)} : b = Bottom /\ a \in Demux(ActivityOf(log, x), M + 1, TRUE)})

left_right(log, new) ==
  LET transitions == 1 .. Len(log) - 1
      source(i) == Demux(ActivityOf(log, i) + Offset(new, i), 2 * (M + 1), TRUE)
      target(i) == Demux(ActivityOf(log, i + 1) + Offset(new, i), 2 * (M + 1), TRUE)
  IN  [a \in Label |-> [b \in Label |->
         Count({i \in transitions : a \in source(i) /\ b \in target(i)})
           + (IF b = Bottom THEN Count({i \in transitions : a + M + 1 \in source(i)}) ELSE 0)
           + (IF a = Bottom THEN Count({i \in transitions : b + M + 1 \in target(i)}) ELSE 0)
           + Unseen(log, a, b)]]

\* All ways to build the graph agree, on the boundaries as well: the two from the
\* disclosed merge with each other, and with the oblivious one on the same order.
GraphsAgree ==
  pc = "done" =>
    LET oblivious == DirectlyFollows(DemuxedEvents(events_copy), NewCase(events_copy),
                                     CaseEnd(events_copy))
    IN  /\ by_leaking_case_length_distribution(events_copy, is_new_case) = oblivious
        /\ left_right(events_copy, is_new_case) = oblivious
===============================================================================
