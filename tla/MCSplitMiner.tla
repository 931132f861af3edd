----------------------------- MODULE MCSplitMiner -----------------------------
(***************************************************************************)
(* Event tables for TLC: all multisets of traces whose numbers and lengths *)
(* are given by Shapes, spread over two parties.  Case ids are the case    *)
(* numbers, timestamps the positions in the trace.                         *)
(***************************************************************************)
EXTENDS MinerEquivalence

CONSTANT Shapes   \* pairs of a number of traces and the bound of their length

MCEpsilon == [num |-> 1, den |-> 3]
MCEtas == {[num |-> 0, den |-> 1], [num |-> 2, den |-> 5], [num |-> 1, den |-> 2],
           [num |-> 1, den |-> 1]}
MCDefaultEta == {[num |-> 2, den |-> 5]}

Large == {<<1,6>>, <<2,4>>, <<3,3>>}

Traces(bound) == UNION {[1 .. n -> Act] : n \in 1 .. bound}

\* An order of the traces, by which a multiset becomes one sequence.
Code(trace) == LET value[i \in 0 .. Len(trace)] ==
                     IF i = 0 THEN 0 ELSE (M + 1) * value[i-1] + trace[i] + 1
               IN  value[Len(trace)]

Collections(number, bound) ==
  {ts \in [1 .. number -> Traces(bound)] : \A i \in 1 .. number-1 : Code(ts[i]) <= Code(ts[i+1])}

\* Activity 0 is run by the first party, 1 by the second, the others by both.
Owner(case, act) == IF act < 2 THEN act % Organizations ELSE case % Organizations

\* The rows of one party, in the order of its log.
RECURSIVE Select(_, _, _, _)
Select(ts, org, case, pos) ==
  IF case > Len(ts) THEN <<>>
  ELSE IF pos > Len(ts[case]) THEN Select(ts, org, case + 1, 1)
  ELSE (IF Owner(case, ts[case][pos]) = org
        THEN <<[case |-> case, act |-> ts[case][pos], time |-> pos, org |-> org]>> ELSE <<>>)
       \o Select(ts, org, case, pos + 1)

RECURSIVE Concatenated(_, _)
Concatenated(ts, org) ==
  IF org = Organizations THEN <<>> ELSE Select(ts, org, 1, 1) \o Concatenated(ts, org + 1)

\* use_activity_dict: activities are numbered as they first appear, and every
\* one of them occurs.
Numbered(table) ==
  /\ {table[i].act : i \in DOMAIN table} = Act
  /\ \A i \in DOMAIN table : table[i].act > 0 => \E j \in 1 .. i-1 : table[j].act = table[i].act - 1

MCTables ==
  {table \in UNION {{Concatenated(ts, 0) : ts \in Collections(s[1], s[2])} : s \in Shapes} :
     Len(table) >= 3 /\ Numbered(table)}

MCInit == BothInit(MCTables)
MCSpec == MCInit /\ [][BothNext]_<<vars, pc, art>>
===============================================================================
