---------------------------- MODULE ReferenceMiner ----------------------------
(***************************************************************************)
(* The cleartext miner that rediscovers the models of the protocols        *)
(* (reference_split_miner.py).  It works on traces, sets of arcs and       *)
(* dictionaries instead of matrices; activities keep the indices of the    *)
(* event table; the start and the end are numbered the other way round.    *)
(*                                                                         *)
(* Its dictionaries are read in insertion order where a tie is broken, so  *)
(* an ordered dictionary of arcs has next to the frequency w of an arc     *)
(* the place at which it was inserted.                                     *)
(***************************************************************************)
EXTENDS Integers, FiniteSets, Sequences

CONSTANTS M, Epsilon, Infinity

VARIABLES
  table,       \* the parties' rows, concatenated
  threshold,   \* eta
  pc,          \* the step to come
  art          \* what the steps before it computed

vars == <<table, threshold, pc, art>>

Acts  == 0 .. M-1
Start == M        \* S, printed as ">"
End   == M + 1    \* E, printed as "#"
Nodes == 0 .. M+1
Arcs  == Nodes \X Nodes

Minimum(S) == CHOOSE x \in S : \A y \in S : x <= y

(***************************************************************************)
(* merge: the rows in the order of their sort key <<case, time, org, pos>>. *)
(* The rows come party by party, so <<org, pos>> is the row's place.       *)
(***************************************************************************)
KeyBefore(rows, i, j) ==
  \/ rows[i].case < rows[j].case
  \/ rows[i].case = rows[j].case /\ rows[i].time < rows[j].time
  \/ rows[i].case = rows[j].case /\ rows[i].time = rows[j].time /\ i < j

merge(rows) ==
  [p \in DOMAIN rows |->
     rows[CHOOSE i \in DOMAIN rows :
            Cardinality({j \in DOMAIN rows : KeyBefore(rows, j, i)}) = p - 1]]

(***************************************************************************)
(* The arcs of all traces in the order flush() counts them, the patterns   *)
(* <a,b,a> it meets, and what follows from both.                           *)
(***************************************************************************)
FirstOfCase(log, i) == i = 1 \/ log[i-1].case # log[i].case
LastOfCase(log, i)  == i = Len(log) \/ log[i+1].case # log[i].case

\* The rows whose activity an arc leads to, and those after which it ends a case.
Into(log, arc) ==
  {i \in DOMAIN log : arc = <<IF FirstOfCase(log, i) THEN Start ELSE log[i-1].act, log[i].act>>}
Ending(log, arc) == {i \in DOMAIN log : LastOfCase(log, i) /\ arc = <<log[i].act, End>>}

\* An arc is a key if it has a frequency.
Keys(dict)     == {arc \in Arcs : dict.w[arc] > 0}
Get(dict, arc) == dict.w[arc]
EmptyDict      == [w |-> [arc \in Arcs |-> 0], at |-> [arc \in Arcs |-> 0]]

\* dfg: an arc is inserted when it is first counted.
Counted(log) ==
  LET places(arc) == {2 * i : i \in Into(log, arc)} \cup {2 * i + 1 : i \in Ending(log, arc)}
  IN  [w  |-> [arc \in Arcs |-> Cardinality(Into(log, arc)) + Cardinality(Ending(log, arc))],
       at |-> [arc \in Arcs |-> IF places(arc) = {} THEN 0 ELSE Minimum(places(arc))]]

short_loops(log) ==
  {<<log[i].act, log[i+1].act>> : i \in
     {i \in 1 .. Len(log) - 2 : /\ log[i].case = log[i+2].case
                               /\ log[i].act = log[i+2].act /\ log[i].act # log[i+1].act}}

self_loops(dfg) == {a \in Acts : <<a,a>> \in Keys(dfg)}

Swapped(arc) == <<arc[2], arc[1]>>
Alternating(short, arc) == arc \in short \/ Swapped(arc) \in short

\* Unordered pairs.  Nothing excludes the boundary: the test of the code lets
\* its indices pass, but no arc enters the start or leaves the end.
conc(dfg, short) ==
  LET concurrent(arc) ==
        LET w == Get(dfg, arc) back == Get(dfg, Swapped(arc))
            imbalance == IF w > back THEN w - back ELSE back - w
        IN  /\ arc[1] # arc[2] /\ back > 0 /\ ~Alternating(short, arc)
            /\ imbalance * Epsilon.den < (w + back) * Epsilon.num
  IN  {{arc[1], arc[2]} : arc \in {arc \in Keys(dfg) : concurrent(arc)}}

pruned(dfg, short, concurrent) ==
  LET kept(arc) == /\ arc[1] # arc[2] /\ {arc[1], arc[2]} \notin concurrent
                   /\ Get(dfg, arc) >= Get(dfg, Swapped(arc)) \/ Alternating(short, arc)
  IN  [dfg EXCEPT !.w = [arc \in Arcs |-> IF kept(arc) THEN Get(dfg, arc) ELSE 0]]

(***************************************************************************)
(* widest: cap is the ordered dictionary of the nodes met so far, with     *)
(* their capacity, predecessor and place.  The first of the widest entries *)
(* is taken, and the search ends when none is left.                        *)
(***************************************************************************)
Open(s) == DOMAIN s.cap \ s.done

Relaxed(weight, s, u) ==
  LET done      == s.done \cup {u}
      known     == DOMAIN s.cap
      c(v)      == LET w == Get(weight, <<u,v>>) IN IF s.cap[u].width < w THEN s.cap[u].width ELSE w
      found     == {v \in Nodes \ known : <<u,v>> \in Keys(weight)}
      before(v) == {x \in found : weight.at[<<u,x>>] < weight.at[<<u,v>>]}
      entry(v)  == [width |-> c(v), pred |-> u,
                    met |-> IF v \in known THEN s.cap[v].met
                            ELSE Cardinality(known) + Cardinality(before(v))]
      better(v) == v \notin done /\ (v \in found \/ c(v) > s.cap[v].width)
  IN  [done |-> done,
       cap  |-> [v \in known \cup found |-> IF better(v) THEN entry(v) ELSE s.cap[v]]]

TakeWidest(weight, s) ==
  LET ahead(u, v) == \/ s.cap[u].width > s.cap[v].width
                     \/ s.cap[u].width = s.cap[v].width /\ s.cap[u].met <= s.cap[v].met
  IN  IF Open(s) = {} THEN s
      ELSE Relaxed(weight, s, CHOOSE u \in Open(s) : \A v \in Open(s) : ahead(u, v))

\* pred, as the arcs it consists of.
widest(weight, src) ==
  LET first == [done |-> {},
                cap  |-> [v \in {src} |-> [width |-> Infinity, pred |-> src, met |-> 0]]]
      run[k \in 0 .. M+2] == IF k = 0 THEN first ELSE TakeWidest(weight, run[k-1])
      cap == run[M+2].cap
  IN  {<<cap[v].pred, v>> : v \in DOMAIN cap \ {src}}

Reversed(weight) == [w  |-> [arc \in Arcs |-> weight.w[Swapped(arc)]],
                     at |-> [arc \in Arcs |-> weight.at[Swapped(arc)]]]

forward(weight)  == widest(weight, Start)
backward(weight) == {Swapped(arc) : arc \in widest(Reversed(weight), End)}

(***************************************************************************)
(* The eta-percentile over the distinct best frequencies, by its index.    *)
(***************************************************************************)
Frequencies(weight, arcs) == {Get(weight, arc) : arc \in arcs \cap Keys(weight)}
Best(S) == IF S = {} THEN {} ELSE {CHOOSE x \in S : \A y \in S : y <= x}

distinct_best(weight) ==
  (UNION {Best(Frequencies(weight, {u} \X Nodes)) : u \in Nodes \ {End}})
    \cup (UNION {Best(Frequencies(weight, Nodes \X {v})) : v \in Nodes \ {Start}})

cutoff(weights, eta) ==
  LET d   == Cardinality(weights)
      at  == (2 * d * eta.num + eta.den) \div (2 * eta.den) + 1
      pos == IF at < d THEN at ELSE d
  IN  IF d = 0 THEN 0 ELSE CHOOSE w \in weights : Cardinality({x \in weights : x <= w}) = pos

eta_arcs(weight, eta) ==
  LET minimum == cutoff(distinct_best(weight), eta)
  IN  {arc \in Keys(weight) : Get(weight, arc) >= minimum}

(***************************************************************************)
(* Sanitization.                                                           *)
(***************************************************************************)
Grown(arcs, seen) == seen \cup {v \in Nodes : \E u \in seen : <<u,v>> \in arcs}

\* What a depth-first search from source visits.
Reachable(arcs, source) ==
  LET seen[k \in 0 .. M+2] == IF k = 0 THEN {source} ELSE Grown(arcs, seen[k-1])
  IN  seen[M+2]

Orphans(filtered) ==
  [in  |-> Acts \ Reachable(filtered, Start),
   out |-> Acts \ Reachable({<<p[2],p[1]>> : p \in filtered}, End)]

sanitized(filtered) ==
  filtered \cup {<<Start,a>> : a \in Orphans(filtered).in}
           \cup {<<a,End>> : a \in Orphans(filtered).out}

\* _transitive_closure gives, for an activity, the activities it leads to.
Unordered(filtered, a, b) ==
  LET inner == {p \in sanitized(filtered) : p[1] \in Acts /\ p[2] \in Acts}
  IN  b \notin Reachable(inner, a) /\ a \notin Reachable(inner, b)

sconc(filtered, concurrent) ==
  LET orphans  == Orphans(filtered).in \cup Orphans(filtered).out
      rec_conc == Acts \cap UNION concurrent
  IN  {pair \in {{a,b} : a, b \in Acts} :
         \E a \in pair, b \in pair :
           /\ a # b /\ Unordered(filtered, a, b)
           /\ pair \in concurrent \/ a \in orphans \cap rec_conc}

disclosed(filtered, concurrent) ==
  {pair \in sconc(filtered, concurrent) :
     \E u \in Nodes : \A x \in pair : <<u,x>> \in sanitized(filtered)}

\* binning: the organizations in whose log an activity occurs.
binning(rows) == [a \in Acts |-> {rows[i].org : i \in {j \in DOMAIN rows : rows[j].act = a}}]

(***************************************************************************)
(* build_artifacts, between the points at which a result is complete.      *)
(***************************************************************************)
InitOn(rows, eta) ==
  /\ table = rows
  /\ threshold = eta
  /\ pc = "merge"
  /\ art = [log |-> <<>>, dfg |-> EmptyDict, self_loops |-> {}, short_loops |-> {}, concurrency |-> {},
            pruned |-> EmptyDict, filtered |-> {}, sanitized |-> {}, disclosed |-> {}]

Merge ==
  /\ pc = "merge"
  /\ art' = [art EXCEPT !.log = merge(table)]
  /\ pc' = "count"
  /\ UNCHANGED <<table, threshold>>

CountArcs ==
  /\ pc = "count"
  /\ art' = [art EXCEPT !.dfg = Counted(art.log), !.short_loops = short_loops(art.log)]
  /\ pc' = "relate"
  /\ UNCHANGED <<table, threshold>>

Relate ==
  /\ pc = "relate"
  /\ LET concurrent == conc(art.dfg, art.short_loops)
     IN  art' = [art EXCEPT !.self_loops = self_loops(art.dfg), !.concurrency = concurrent,
                           !.pruned = pruned(art.dfg, art.short_loops, concurrent)]
  /\ pc' = "filter"
  /\ UNCHANGED <<table, threshold>>

Filter ==
  /\ pc = "filter"
  /\ art' = [art EXCEPT !.filtered = forward(art.pruned) \cup backward(art.pruned)
                                       \cup eta_arcs(art.pruned, threshold)]
  /\ pc' = "sanitize"
  /\ UNCHANGED <<table, threshold>>

SanitizeArcs ==
  /\ pc = "sanitize"
  /\ art' = [art EXCEPT !.sanitized = sanitized(art.filtered),
                        !.disclosed = disclosed(art.filtered, art.concurrency)]
  /\ pc' = "done"
  /\ UNCHANGED <<table, threshold>>

Next == Merge \/ CountArcs \/ Relate \/ Filter \/ SanitizeArcs
===============================================================================
