----------------------------- MODULE LogRelations -----------------------------
(***************************************************************************)
(* What the parties read off the merged event table: the directly-follows  *)
(* graph, the loops, the concurrency relation and the pruned graph.  A     *)
(* matrix of frequencies is a function of functions, a 0/1 matrix the set  *)
(* of its positive entries.  Up to the pruning one combined index, Bottom, *)
(* stands for the start and the end of a case; Reformatted separates them. *)
(***************************************************************************)
EXTENDS EventLog

CONSTANTS M,        \* number_of_event_types
          Epsilon   \* the concurrency threshold, a fraction [num, den]

ASSUME MAssumption == M \in Nat \ {0}
ASSUME EpsilonAssumption == Epsilon \in [num : Nat, den : Nat \ {0}]

Act    == 0 .. M-1
Bottom == M
Label  == 0 .. M      \* the indices of the matrices before Reformatted
End    == M
Start  == M + 1
Node   == 0 .. M+1    \* the indices of the matrices after it

Larger(x, y) == IF x > y THEN x ELSE y
Distance(x, y) == IF x > y THEN x - y ELSE y - x

(***************************************************************************)
(* Widths.                                                                 *)
(***************************************************************************)
CeilLog2(n) == CHOOSE k \in 0 .. n : 2^k >= n /\ \A j \in 0 .. k-1 : 2^j < n

\* Bits of a comparison whose operands are at most bound: those of the bound
\* and one for the sign of the difference.
comparison_bit_length(bound) == (CHOOSE k \in 0 .. bound : bound < 2^k /\ \A j \in 0 .. k-1 : bound >= 2^j) + 1

\* x.less_than(y, bit_length): the sign bit of the difference.
LessThan(x, y, bits) == (x - y) % 2^bits >= 2^(bits-1)

(***************************************************************************)
(* demux_batch: the row of a value is its unit vector, built from its      *)
(* lowest bits and cut off at n; it is all zero where the condition fails. *)
(***************************************************************************)
Demux(x, n, cond) == {i \in 0 .. n-1 : cond /\ i = x % 2^CeilLog2(n)}

DemuxedEvents(log) == [i \in DOMAIN log |-> Demux(log[i].act, M + 1, TRUE)]

(***************************************************************************)
(* Frequencies.  new is the set of rows at which a case starts, shown the  *)
(* demultiplexed activities.                                               *)
(***************************************************************************)
Follows(shown, new, a, b) ==
  Cardinality({i \in DOMAIN shown \ new : a \in shown[i-1] /\ b \in shown[i]})

Starts(shown, new, b) == Cardinality({i \in new : b \in shown[i]})
Ends(shown, end, a)   == Cardinality({i \in end : a \in shown[i]})

DirectlyFollows(shown, new, end) ==
  [a \in Label |-> [b \in Label |->
     Follows(shown, new, a, b)
       + (IF a = Bottom THEN Starts(shown, new, b) ELSE 0)
       + (IF b = Bottom THEN Ends(shown, end, a) ELSE 0)]]

(***************************************************************************)
(* Relations.                                                              *)
(***************************************************************************)
detect_self_loops(dfg) == {a \in Label : dfg[a][a] >= 1}

\* <<a,b>> is in it iff <a,b,a> occurs within a case, a = b included.
detect_short_loops(shown, new) ==
  {p \in Label \X Label :
     \E i \in DOMAIN shown :
       /\ i + 2 \in DOMAIN shown
       /\ {i + 1, i + 2} \cap new = {}
       /\ p[1] \in shown[i] /\ p[2] \in shown[i+1] /\ p[1] \in shown[i+2]}

Alternate(short, a, b) == {<<a,b>>, <<b,a>>} \cap short # {}

detect_left_right_positive(dfg) ==
  {p \in Label \X Label : dfg[p[1]][p[2]] >= 1 /\ dfg[p[2]][p[1]] >= 1}

\* Mutant: the threshold itself counts as balanced.
detect_concurrency_inclusive(dfg, short, positive, n_events) ==
  {p \in positive : /\ p[1] # p[2] /\ ~Alternate(short, p[1], p[2])
                    /\ Distance(dfg[p[1]][p[2]], dfg[p[2]][p[1]]) * Epsilon.den
                         <= (dfg[p[1]][p[2]] + dfg[p[2]][p[1]]) * Epsilon.num}

\* The mask clears both frequencies of a pair before they are compared, which
\* makes the strict comparison false for it.
detect_concurrency(dfg, short, positive, n_events) ==
  LET Masked(a, b) ==
        IF a # b /\ <<a,b>> \in positive /\ ~Alternate(short, a, b) THEN dfg[a][b] ELSE 0
      bits == comparison_bit_length(2 * n_events * Larger(Epsilon.num, Epsilon.den))
  IN  {p \in Label \X Label :
         LessThan(Distance(Masked(p[1], p[2]), Masked(p[2], p[1])) * Epsilon.den,
                  (Masked(p[1], p[2]) + Masked(p[2], p[1])) * Epsilon.num, bits)}

\* Arcs from and to the boundary are always kept, self-loops never.
Survives(dfg, conc, short, self, a, b) ==
  IF a = b THEN a \notin self
  ELSE \/ Bottom \in {a, b}
       \/ /\ <<a,b>> \notin conc
          /\ dfg[a][b] >= dfg[b][a] \/ Alternate(short, a, b)

dfg_pruning(dfg, conc, short, self) ==
  [a \in Label |-> [b \in Label |-> IF Survives(dfg, conc, short, self, a, b) THEN dfg[a][b] ELSE 0]]

\* Bottom's column becomes the end, its row the start.
reformat_start_and_end(pdfg) ==
  [u \in Node |-> [v \in Node |->
     IF u = End \/ v = Start THEN 0 ELSE pdfg[IF u = Start THEN Bottom ELSE u][v]]]
===============================================================================
