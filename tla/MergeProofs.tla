----------------------------- MODULE MergeProofs ------------------------------
(***************************************************************************)
(* The two merges, for every number of organizations and rows, every width *)
(* of the case ids and timestamps and every shuffle and key.               *)
(*                                                                         *)
(* The oblivious merge has three steps, and its invariant says what the    *)
(* table is after each: the logs one after the other, the same sorted by   *)
(* time, the same sorted by case.  That its cases are contiguous, complete *)
(* and in order is then about one order of the rows (Merging).             *)
(*                                                                         *)
(* The merge by quicksort is two loops.  LoopInvariant sets the turns that *)
(* are left against the rows that are still unsorted, SortInvariant says   *)
(* what is sorted outside of the waiting ranges, PartitionInvariant that   *)
(* the rounds that sort by time stay within the table, and TimeInvariant   *)
(* that rows of a case with a start of a partition in between are in the   *)
(* order of time.  Both merges end with the same rows in each case, in the *)
(* order of time, and two such sequences have the same times.              *)
(* The graphs built on the sorted table are equal because each frequency   *)
(* is the number of the same rows (FrequencyOf).                           *)
(***************************************************************************)
EXTENDS LeakingDfg, LogMerge, EventLogProofs, SequenceTheorems

(***************************************************************************)
(* The oblivious merge                                                     *)
(***************************************************************************)

\* The merged table, and the logs one after the other with the same rows.
MergedFrom(merged, flat, order, rows, n) ==
  /\ n \in Nat
  /\ DOMAIN rows = 1 .. n /\ DOMAIN flat = 1 .. n
  /\ \A i \in 1 .. n : /\ rows[i].case \in CaseId /\ rows[i].time \in Nat
                       /\ rows[i].case = flat[i].case /\ rows[i].act = flat[i].act /\ rows[i].time = flat[i].time
  /\ Merging(order, rows, n)
  /\ merged = [p \in 1 .. n |-> rows[order[p]]]

\* So that a case has one start and one end.
LEMMA OneStartOneEnd ==
  ASSUME NEW merged, NEW flat, NEW order, NEW rows, NEW n, MergedFrom(merged, flat, order, rows, n),
         NEW c \in Cases(merged)
  PROVE  /\ Cardinality({i \in NewCase(merged) : merged[i].case = c}) = 1
         /\ Cardinality({i \in CaseEnd(merged) : merged[i].case = c}) = 1
<1> DEFINE P == {p \in 1 .. n : merged[p].case = c}
<1>0. /\ n \in Nat /\ merged = [p \in 1 .. n |-> rows[order[p]]] /\ Merging(order, rows, n)
      /\ \A i \in 1 .. n : rows[i].case \in CaseId
  BY DEF MergedFrom
<1>1. /\ DOMAIN merged = 1 .. n /\ Len(merged) = n
      /\ \A p \in 1 .. n : merged[p].case = rows[order[p]].case
  BY <1>0
<1>2. P # {} /\ P \subseteq 1 .. n
  BY <1>1 DEF Cases
<1>3. \A p \in P, r \in P : \A q \in 1 .. n : p <= q /\ q <= r => q \in P
  BY <1>0, <1>1, CasesStandTogether
<1>4. \A i : i \in NewCase(merged) <=> i \in 1 .. n /\ (i = 1 \/ merged[i].case # merged[i-1].case)
  BY <1>1 DEF NewCase
<1>5. \A i : i \in CaseEnd(merged) <=> i \in 1 .. n /\ (i = n \/ i + 1 \in NewCase(merged))
  BY <1>1 DEF CaseEnd
<1>6. /\ \A i : i \in P <=> i \in 1 .. n /\ merged[i].case = c
  OBVIOUS
<1> HIDE DEF P
<1>7. PICK m \in P : \A p \in P : m <= p
  <2>1. P \subseteq Nat
    BY <1>0, <1>2
  <2>2. QED
    BY <1>2, <2>1, LeastElement
<1>8. PICK l \in P : \A p \in P : p <= l
  <2> DEFINE L == {n - p : p \in P}
  <2>1. L \subseteq Nat /\ L # {}
    BY <1>0, <1>2
  <2>2. PICK k \in L : \A j \in L : k <= j
    <3> HIDE DEF L
    <3>1. QED
      BY <2>1, LeastElement
  <2>3. PICK l \in P : k = n - l
    OBVIOUS
  <2>4. ASSUME NEW p \in P PROVE p <= l
    <3>1. n - l <= n - p /\ l \in 1 .. n /\ p \in 1 .. n
      BY <2>2, <2>3, <1>2
    <3>2. QED
      BY <1>0, <3>1
  <2>5. QED
    BY <2>4
<1>9. \A i : i \in NewCase(merged) /\ merged[i].case = c <=> i = m
  <2>1. m \in 1 .. n /\ merged[m].case = c
    BY <1>2, <1>6
  <2>2. m \in NewCase(merged)
    <3> SUFFICES ASSUME m # 1, merged[m].case = merged[m-1].case PROVE FALSE
      BY <2>1, <1>4
    <3>1. m - 1 \in 1 .. n /\ ~(m <= m - 1)
      BY <1>0, <2>1
    <3>2. m - 1 \in P
      BY <3>1, <2>1, <1>6
    <3>3. QED
      BY <3>1, <3>2, <1>7
  <2>3. ASSUME NEW i \in NewCase(merged), merged[i].case = c PROVE i = m
    <3> SUFFICES ASSUME i # m PROVE FALSE
      OBVIOUS
    <3>1. i \in 1 .. n /\ i \in P /\ m <= i
      BY <2>3, <1>4, <1>6, <1>7
    <3>2. i - 1 \in 1 .. n /\ m <= i - 1 /\ i - 1 <= i /\ i # 1
      BY <1>0, <3>1, <2>1
    <3>3. i - 1 \in P
      BY <3>1, <3>2, <1>3
    <3>4. QED
      BY <2>3, <3>2, <3>3, <1>4, <1>6
  <2>4. QED
    BY <2>1, <2>2, <2>3
<1>10. \A i : i \in CaseEnd(merged) /\ merged[i].case = c <=> i = l
  <2>1. l \in 1 .. n /\ merged[l].case = c
    BY <1>2, <1>6
  <2>2. l \in CaseEnd(merged)
    <3> SUFFICES ASSUME l # n, l + 1 \notin NewCase(merged) PROVE FALSE
      BY <2>1, <1>5
    <3>1. l + 1 \in 1 .. n /\ ~(l + 1 <= l) /\ l + 1 - 1 = l /\ l + 1 # 1
      BY <1>0, <2>1
    <3>2. merged[l+1].case = merged[(l+1)-1].case
      BY <3>1, <1>4, Zenon
    <3>3. merged[l+1].case = c
      BY <3>1, <3>2, <2>1
    <3>4. l + 1 \in P
      BY <3>1, <3>3, <1>6
    <3>5. QED
      BY <3>1, <3>4, <1>8
  <2>3. ASSUME NEW i \in CaseEnd(merged), merged[i].case = c PROVE i = l
    <3> SUFFICES ASSUME i # l PROVE FALSE
      OBVIOUS
    <3>1. i \in 1 .. n /\ i \in P /\ i <= l
      BY <2>3, <1>5, <1>6, <1>8
    <3>2. i + 1 \in 1 .. n /\ i <= i + 1 /\ i + 1 <= l /\ i # n /\ i + 1 # 1 /\ (i + 1) - 1 = i
      BY <1>0, <3>1, <2>1
    <3>3. i + 1 \in P
      BY <3>1, <3>2, <1>3
    <3>4. merged[i+1].case = merged[i].case
      BY <2>3, <3>3, <1>6
    <3>5. i + 1 \notin NewCase(merged)
      BY <3>2, <3>4, <1>4
    <3>6. QED
      BY <2>3, <3>2, <3>5, <1>5
  <2>4. QED
    BY <2>1, <2>2, <2>3
<1>11. {i \in NewCase(merged) : merged[i].case = c} = {m} /\ {i \in CaseEnd(merged) : merged[i].case = c} = {l}
  BY <1>9, <1>10
<1>12. QED
  BY <1>11, FS_Singleton

\* The columns of the rows at some positions.
LEMMA ColumnsOfRows ==
  ASSUME NEW n \in Nat, NEW P \in SUBSET (1 .. n), NEW rows
  PROVE  /\ Cardinality(P) \in Nat
         /\ DOMAIN RowsAt(rows, P) = 1 .. Cardinality(P) /\ Len(RowsAt(rows, P)) = Cardinality(P)
         /\ DOMAIN Columns(RowsAt(rows, P)) = 1 .. Cardinality(P)
         /\ Len(Columns(RowsAt(rows, P))) = Cardinality(P)
         /\ \A k \in 1 .. Cardinality(P) : RowsAt(rows, P)[k] = rows[Kth(P, k)]
         /\ \A k \in 1 .. Cardinality(P) :
              Columns(RowsAt(rows, P))[k] = <<rows[Kth(P, k)].act, rows[Kth(P, k)].time>>
<1>1. Cardinality(P) \in Nat
  BY KthInOrder
<1>2. RowsAt(rows, P) = [k \in 1 .. Cardinality(P) |-> rows[Kth(P, k)]]
  BY DEF RowsAt
<1>3. Columns(RowsAt(rows, P)) = [k \in 1 .. Cardinality(P) |-> <<rows[Kth(P, k)].act, rows[Kth(P, k)].time>>]
  BY <1>2 DEF Columns
<1> DEFINE c == Cardinality(P)
           r(k) == rows[Kth(P, k)]
<1>4. Len([k \in 1 .. c |-> r(k)]) = c /\ Len([k \in 1 .. c |-> <<r(k).act, r(k).time>>]) = c
  <2> HIDE DEF c, r
  <2>1. c \in Nat
    BY <1>1 DEF c
  <2>2. QED
    BY <2>1
<1>5. QED
  BY <1>1, <1>2, <1>3, <1>4

\* No event is lost, duplicated or moved to another case.
LEMMA MergeKeepsEvents ==
  ASSUME NEW merged, NEW flat, NEW order, NEW rows, NEW n, MergedFrom(merged, flat, order, rows, n), NEW c
  PROVE  SameEvents(Columns(Trace(merged, c)), Columns(Trace(flat, c)))
<1> DEFINE P == {p \in 1 .. n : merged[p].case = c}
           Q == {i \in 1 .. n : flat[i].case = c}
           s == Columns(RowsAt(merged, P))
           t == Columns(RowsAt(flat, Q))
           S(e) == {p \in 1 .. n : <<merged[p].act, merged[p].time>> = e}
           T(e) == {i \in 1 .. n : <<flat[i].act, flat[i].time>> = e}
<1>1. /\ n \in Nat /\ DOMAIN merged = 1 .. n /\ DOMAIN flat = 1 .. n /\ Rearranges(order, n)
      /\ \A p \in 1 .. n : /\ order[p] \in 1 .. n
                           /\ merged[p].case = flat[order[p]].case /\ merged[p].act = flat[order[p]].act
                           /\ merged[p].time = flat[order[p]].time
  <2>1. n \in Nat /\ DOMAIN merged = 1 .. n /\ DOMAIN flat = 1 .. n /\ Rearranges(order, n)
    BY DEF MergedFrom, Merging
  <2>2. \A p \in 1 .. n : order[p] \in 1 .. n
    BY <2>1 DEF Rearranges
  <2>3. QED
    BY <2>1, <2>2 DEF MergedFrom
<1>2. Columns(Trace(merged, c)) = s /\ Columns(Trace(flat, c)) = t
  BY <1>1 DEF Trace
<1>3. P \in SUBSET (1 .. n) /\ Q \in SUBSET (1 .. n) /\ \A p \in 1 .. n : p \in P <=> order[p] \in Q
  BY <1>1
<1>4. ASSUME NEW e PROVE Takes(order, P \cap S(e), Q \cap T(e), n)
  BY <1>1 DEF Takes
<1> HIDE DEF P, Q
<1>5. Cardinality(P) = Cardinality(Q)
  <2>1. Takes(order, P, Q, n)
    BY <1>3 DEF Takes
  <2>2. QED
    BY <1>1, <2>1, MappedCount
<1>6. \A e : Cardinality(P \cap S(e)) = Cardinality(Q \cap T(e))
  <2> SUFFICES ASSUME NEW e PROVE Cardinality(P \cap S(e)) = Cardinality(Q \cap T(e))
    OBVIOUS
  <2>1. Takes(order, P \cap S(e), Q \cap T(e), n)
    BY <1>4
  <2> HIDE DEF S, T
  <2>2. QED
    BY <1>1, <2>1, MappedCount
<1>7. /\ Cardinality(P) \in Nat /\ DOMAIN s = 1 .. Cardinality(P) /\ Len(s) = Cardinality(P)
      /\ \A k \in 1 .. Cardinality(P) : s[k] = <<merged[Kth(P, k)].act, merged[Kth(P, k)].time>>
  BY <1>1, <1>3, ColumnsOfRows, ZenonT(60)
<1>8. /\ DOMAIN t = 1 .. Cardinality(Q) /\ Len(t) = Cardinality(Q)
      /\ \A k \in 1 .. Cardinality(Q) : t[k] = <<flat[Kth(Q, k)].act, flat[Kth(Q, k)].time>>
  BY <1>1, <1>3, ColumnsOfRows, ZenonT(60)
<1>9. /\ \A k \in 1 .. Cardinality(P) : Kth(P, k) \in 1 .. n
      /\ \A k \in 1 .. Cardinality(Q) : Kth(Q, k) \in 1 .. n
  <2>1. \A k \in 1 .. Cardinality(P) : Kth(P, k) \in P
    BY <1>1, <1>3, KthInOrder
  <2>2. \A k \in 1 .. Cardinality(Q) : Kth(Q, k) \in Q
    BY <1>1, <1>3, KthInOrder
  <2>3. QED
    BY <2>1, <2>2, <1>3
<1> HIDE DEF s, t
<1>10. ASSUME NEW e PROVE Cardinality({k \in DOMAIN s : s[k] = e}) = Cardinality({k \in DOMAIN t : t[k] = e})
  <2>1. {k \in DOMAIN s : s[k] = e} = {k \in 1 .. Cardinality(P) : Kth(P, k) \in S(e)}
    BY <1>7, <1>9
  <2>2. {k \in DOMAIN t : t[k] = e} = {k \in 1 .. Cardinality(Q) : Kth(Q, k) \in T(e)}
    BY <1>8, <1>9
  <2> HIDE DEF S, T
  <2>3. Cardinality({k \in 1 .. Cardinality(P) : Kth(P, k) \in S(e)}) = Cardinality(P \cap S(e))
    BY <1>1, <1>3, KthCounts
  <2>4. Cardinality({k \in 1 .. Cardinality(Q) : Kth(Q, k) \in T(e)}) = Cardinality(Q \cap T(e))
    BY <1>1, <1>3, KthCounts
  <2>5. QED
    BY <2>1, <2>2, <2>3, <2>4, <1>6
<1>11. SameEvents(s, t)
  BY <1>5, <1>7, <1>8, <1>10 DEF SameEvents
<1>12. QED
  BY <1>2, <1>11

\* Events of a case and a time stay in the order of the logs.
LEMMA MergeIsStable ==
  ASSUME NEW merged, NEW flat, NEW order, NEW rows, NEW n, MergedFrom(merged, flat, order, rows, n),
         NEW c, NEW time
  PROVE  Columns(At(merged, c, time)) = Columns(At(flat, c, time))
<1> DEFINE P == {p \in 1 .. n : merged[p].case = c /\ merged[p].time = time}
           Q == {i \in 1 .. n : flat[i].case = c /\ flat[i].time = time}
           f == [p \in P |-> order[p]]
<1>1. /\ n \in Nat /\ DOMAIN merged = 1 .. n /\ DOMAIN flat = 1 .. n /\ Rearranges(order, n)
      /\ \A p \in 1 .. n : /\ order[p] \in 1 .. n
                           /\ merged[p].case = flat[order[p]].case /\ merged[p].act = flat[order[p]].act
                           /\ merged[p].time = flat[order[p]].time
  <2>1. n \in Nat /\ DOMAIN merged = 1 .. n /\ DOMAIN flat = 1 .. n /\ Rearranges(order, n)
    BY DEF MergedFrom, Merging
  <2>2. \A p \in 1 .. n : order[p] \in 1 .. n
    BY <2>1 DEF Rearranges
  <2>3. QED
    BY <2>1, <2>2 DEF MergedFrom
<1>2. At(merged, c, time) = RowsAt(merged, P) /\ At(flat, c, time) = RowsAt(flat, Q)
  BY <1>1 DEF At
<1>3. P \in SUBSET (1 .. n) /\ Q \in SUBSET (1 .. n) /\ f \in [P -> Q]
  BY <1>1
<1>4. \A j \in Q : \E i \in P : f[i] = j
  <2> SUFFICES ASSUME NEW j \in Q PROVE \E i \in P : f[i] = j
    OBVIOUS
  <2>1. PICK i \in 1 .. n : order[i] = j
    BY <1>1 DEF Rearranges
  <2>2. i \in P
    BY <2>1, <1>1
  <2>3. QED
    BY <2>1, <2>2
<1>5. ASSUME NEW p \in P, NEW q \in P, p < q PROVE f[p] < f[q]
  <2>1. p \in 1 .. n /\ q \in 1 .. n /\ order[p] \in 1 .. n /\ order[q] \in 1 .. n /\ order[p] # order[q]
    BY <1>1, <1>5 DEF Rearranges
  <2>2. /\ rows[order[p]].case = rows[order[q]].case /\ rows[order[p]].time = rows[order[q]].time
    BY <2>1 DEF MergedFrom
  <2>3. Precedes([i \in 1 .. n |-> RadixKey(rows[i].time, TimestampBits)], order[p], order[q])
    BY <2>1, <2>2, <1>5 DEF MergedFrom, Merging
  <2>4. \A i \in 1 .. n : RadixKey(rows[i].time, TimestampBits) \in Int
    BY RadixKeySwaps, BitsAssumption DEF MergedFrom
  <2>5. order[p] <= order[q]
    BY <2>1, <2>2, <2>3, <2>4 DEF Precedes
  <2>6. QED
    BY <2>1, <2>5
<1> HIDE DEF P, Q
<1>6. \A p, q \in P : p < q => f[p] < f[q]
  BY <1>5
<1>7. \A p \in P : f[p] = order[p]
  OBVIOUS
<1> HIDE DEF f
<1>8. Cardinality(P) = Cardinality(Q) /\ \A k \in 1 .. Cardinality(P) : Kth(Q, k) = f[Kth(P, k)]
  BY <1>1, <1>3, <1>4, <1>6, KthMapped
<1>9. \A k \in 1 .. Cardinality(P) : Kth(P, k) \in P
  BY <1>1, <1>3, KthInOrder
<1> DEFINE s == Columns(RowsAt(merged, P))
           t == Columns(RowsAt(flat, Q))
<1>10. /\ DOMAIN s = 1 .. Cardinality(P)
       /\ \A k \in 1 .. Cardinality(P) : s[k] = <<merged[Kth(P, k)].act, merged[Kth(P, k)].time>>
  <2>1. n \in Nat /\ P \in SUBSET (1 .. n)
    BY <1>1, <1>3
  <2>2. QED
    BY <2>1, ColumnsOfRows
<1>11. /\ DOMAIN t = 1 .. Cardinality(Q)
       /\ \A k \in 1 .. Cardinality(Q) : t[k] = <<flat[Kth(Q, k)].act, flat[Kth(Q, k)].time>>
  <2>1. n \in Nat /\ Q \in SUBSET (1 .. n)
    BY <1>1, <1>3
  <2>2. QED
    BY <2>1, ColumnsOfRows
<1>12. s = [k \in DOMAIN s |-> s[k]] /\ t = [k \in DOMAIN t |-> t[k]]
  BY DEF Columns
<1> HIDE DEF s, t
<1>13. ASSUME NEW k \in 1 .. Cardinality(P) PROVE s[k] = t[k]
  <2> DEFINE p == Kth(P, k)
  <2>1. p \in P /\ p \in 1 .. n /\ Kth(Q, k) = order[p] /\ k \in 1 .. Cardinality(Q)
    BY <1>3, <1>7, <1>8, <1>9
  <2>2. s[k] = <<merged[p].act, merged[p].time>>
    BY <1>10
  <2>3. t[k] = <<flat[order[p]].act, flat[order[p]].time>>
    BY <2>1, <1>11
  <2> HIDE DEF p
  <2>4. QED
    BY <2>1, <2>2, <2>3, <1>1
<1>14. s = t
  BY <1>8, <1>10, <1>11, <1>12, <1>13
<1>15. QED
  BY <1>2, <1>14 DEF s, t

\* The times do not fall.
Ascends(rows, n) ==
  \A k, l \in 1 .. n : rows[k].time \in Nat /\ (k < l => rows[k].time <= rows[l].time)

\* Those of a case do not.
CaseAscends(rows, c, n) ==
  \A i, l \in 1 .. n : /\ rows[i].time \in Nat
                       /\ rows[i].case = c /\ rows[l].case = c /\ i < l => rows[i].time <= rows[l].time

\* The positions of a case, and their number.
OfCase(rows, c, n) == {i \in 1 .. n : rows[i].case = c}
CaseLength(rows, c, n) == Cardinality(OfCase(rows, c, n))

\* The trace shows every row of the case.
ShowsCase(rows, c, n) ==
  \A i \in 1 .. n : rows[i].case = c => \E k \in 1 .. CaseLength(rows, c, n) : Trace(rows, c)[k] = rows[i]

\* A trace has the rows of its case in their order.
LEMMA TraceRows ==
  ASSUME NEW n \in Nat, NEW rows, DOMAIN rows = 1 .. n, NEW c
  PROVE  /\ CaseLength(rows, c, n) \in Nat
         /\ Trace(rows, c) = [k \in 1 .. CaseLength(rows, c, n) |-> rows[Kth(OfCase(rows, c, n), k)]]
         /\ \A k \in 1 .. CaseLength(rows, c, n) : /\ Kth(OfCase(rows, c, n), k) \in 1 .. n
                                                   /\ rows[Kth(OfCase(rows, c, n), k)].case = c
         /\ ShowsCase(rows, c, n)
         /\ CaseAscends(rows, c, n) => Ascends(Trace(rows, c), CaseLength(rows, c, n))
<1> DEFINE P == OfCase(rows, c, n)
           m == CaseLength(rows, c, n)
<1>1. Trace(rows, c) = RowsAt(rows, P)
  BY DEF Trace, OfCase
<1>2. P \in SUBSET (1 .. n) /\ m = Cardinality(P) /\ \A i \in P : rows[i].case = c
  BY DEF OfCase, CaseLength
<1> HIDE DEF P, m
<1>3. /\ m \in Nat
      /\ \A k \in 1 .. m : Kth(P, k) \in P
      /\ \A k, l \in 1 .. m : k < l => Kth(P, k) < Kth(P, l)
  BY <1>2, KthInOrder
<1>4. \A i \in P : \E k \in 1 .. m : Kth(P, k) = i
  BY <1>2, KthInOrder
<1>5. Trace(rows, c) = [k \in 1 .. m |-> rows[Kth(P, k)]]
  BY <1>1, <1>2 DEF RowsAt
<1>6. \A k \in 1 .. m : Kth(P, k) \in 1 .. n /\ rows[Kth(P, k)].case = c
  BY <1>2, <1>3
<1>7. ASSUME CaseAscends(rows, c, n) PROVE Ascends(Trace(rows, c), m)
  BY <1>3, <1>5, <1>6, <1>7 DEF CaseAscends, Ascends
<1>8. ASSUME NEW i \in 1 .. n, rows[i].case = c PROVE \E k \in 1 .. m : Trace(rows, c)[k] = rows[i]
  <2>1. i \in P
    BY <1>8 DEF P, OfCase
  <2>2. QED
    BY <1>4, <1>5, <2>1
<1>9. QED
  BY <1>3, <1>5, <1>6, <1>7, <1>8 DEF P, m, ShowsCase

\* The merged rows of a case whose timestamps the sort orders are in their order.
LEMMA CaseMergedInOrder ==
  ASSUME NEW n \in Nat, NEW rows, NEW order, Merging(order, rows, n), \A i \in 1 .. n : rows[i].time \in Nat,
         NEW merged, merged = [p \in 1 .. n |-> rows[order[p]]],
         NEW c, SameSign({merged[p].time : p \in OfCase(merged, c, n)})
  PROVE  CaseAscends(merged, c, n)
<1> DEFINE P == OfCase(merged, c, n)
           key(x) == RadixKey(x, TimestampBits)
           h == 2^(TimestampBits-1)
           times == {merged[p].time : p \in P}
<1>1. \A p \in 1 .. n : order[p] \in 1 .. n /\ merged[p] = rows[order[p]] /\ merged[p].time \in Nat
  BY DEF Merging, Rearranges
<1>2. P \subseteq 1 .. n
  BY DEF OfCase
<1>3. ASSUME NEW x \in times, NEW y \in times, key(x) <= key(y) PROVE x <= y
  <2>1. x \in Nat /\ y \in Nat
    BY <1>1, <1>2
  <2>2. times \subseteq 0 .. h - 1 \/ times \subseteq h .. 2^TimestampBits - 1
    BY DEF SameSign
  <2> HIDE DEF times
  <2>3. /\ h \in Nat /\ 2^TimestampBits = 2 * h
        /\ \A z \in Nat : (z < h => key(z) = z + h) /\ (h <= z /\ z < 2^TimestampBits => key(z) = z - h)
    BY RadixKeySwaps, BitsAssumption
  <2> HIDE DEF key, h
  <2>4. \/ x < h /\ y < h
        \/ h <= x /\ x < 2^TimestampBits /\ h <= y /\ y < 2^TimestampBits
    BY <2>1, <2>2, <2>3
  <2>5. QED
    BY <1>3, <2>1, <2>3, <2>4
<1>4. ASSUME NEW p \in 1 .. n, NEW q \in 1 .. n, merged[p].case = c, merged[q].case = c, p < q
      PROVE  merged[p].time <= merged[q].time
  <2>1. p \in P /\ q \in P /\ rows[order[p]].case = rows[order[q]].case
    BY <1>1, <1>4 DEF OfCase
  <2>2. Precedes([i \in 1 .. n |-> RadixKey(rows[i].time, TimestampBits)], order[p], order[q])
    BY <1>4, <2>1 DEF Merging
  <2>3. \A i \in 1 .. n : RadixKey(rows[i].time, TimestampBits) \in Int
    BY RadixKeySwaps, BitsAssumption
  <2>4. key(merged[p].time) <= key(merged[q].time)
    <3> DEFINE k == [i \in 1 .. n |-> RadixKey(rows[i].time, TimestampBits)]
    <3>1. /\ k[order[p]] = key(merged[p].time) /\ k[order[q]] = key(merged[q].time)
          /\ k[order[p]] \in Int /\ k[order[q]] \in Int
      BY <1>1, <2>3
    <3>2. k[order[p]] < k[order[q]] \/ k[order[p]] = k[order[q]]
      BY <2>2 DEF Precedes
    <3> HIDE DEF k, key
    <3>3. QED
      BY <3>1, <3>2
  <2>5. merged[p].time \in times /\ merged[q].time \in times
    BY <2>1
  <2> HIDE DEF times, key
  <2>6. QED
    BY <1>3, <2>4, <2>5
<1>5. QED
  BY <1>1, <1>4 DEF CaseAscends

\* So that the trace of such a case is in the order of its timestamps.
LEMMA MergeSortsTimes ==
  ASSUME NEW merged, NEW flat, NEW order, NEW rows, NEW n, MergedFrom(merged, flat, order, rows, n),
         NEW c, SameSign({merged[i].time : i \in {j \in DOMAIN merged : merged[j].case = c}})
  PROVE  InTimeOrder(Trace(merged, c))
<1> DEFINE m == CaseLength(merged, c, n)
<1>1. /\ n \in Nat /\ DOMAIN merged = 1 .. n /\ Merging(order, rows, n)
      /\ merged = [p \in 1 .. n |-> rows[order[p]]] /\ \A i \in 1 .. n : rows[i].time \in Nat
  BY DEF MergedFrom
<1>2. SameSign({merged[p].time : p \in OfCase(merged, c, n)})
  BY <1>1 DEF OfCase
<1>3. CaseAscends(merged, c, n)
  BY <1>1, <1>2, CaseMergedInOrder
<1>4. m \in Nat /\ Ascends(Trace(merged, c), m) /\ Len(Trace(merged, c)) = m
  <2>1. /\ m \in Nat /\ Ascends(Trace(merged, c), m)
        /\ Trace(merged, c) = [k \in 1 .. m |-> merged[Kth(OfCase(merged, c, n), k)]]
    <3>1. n \in Nat /\ DOMAIN merged = 1 .. n
      BY <1>1
    <3> HIDE DEF m
    <3>2. /\ CaseLength(merged, c, n) \in Nat
          /\ Trace(merged, c) = [k \in 1 .. CaseLength(merged, c, n) |-> merged[Kth(OfCase(merged, c, n), k)]]
          /\ CaseAscends(merged, c, n) => Ascends(Trace(merged, c), CaseLength(merged, c, n))
      BY <3>1, TraceRows
    <3>3. QED
      BY <1>3, <3>2 DEF m
  <2> HIDE DEF m
  <2>2. QED
    BY <2>1
<1> HIDE DEF m
<1>5. ASSUME NEW k \in 1 .. m - 1 PROVE Trace(merged, c)[k].time <= Trace(merged, c)[k+1].time
  <2>1. k \in 1 .. m /\ k + 1 \in 1 .. m /\ k < k + 1
    BY <1>4
  <2>2. QED
    BY <1>4, <2>1 DEF Ascends
<1>6. QED
  BY <1>4, <1>5 DEF InTimeOrder

(***************************************************************************)
(* The shared table                                                        *)
(***************************************************************************)

\* What the loop over the organizations has put together after each of them.
Concatenations(S, parts) ==
  {u \in [0 .. Organizations -> Seq(S)] :
     /\ u[0] = <<>> /\ \A p \in 1 .. Organizations : u[p] = u[p-1] \o parts[p]
     /\ AllOf(parts) = u[Organizations]}

\* The loop over the organizations puts all logs into one table (log_merge.py:271-307).
LEMMA LogsConcatenate ==
  ASSUME NEW S, NEW parts \in [1 .. Organizations -> Seq(S)]
  PROVE  Concatenations(S, parts) # {}
<1> DEFINE n == Organizations
           D == Seq(S)
           upto[p \in 0 .. n] == IF p = 0 THEN <<>> ELSE upto[p-1] \o parts[p]
           F == [x \in Nat \X D |-> IF x[1] \in 1 .. n THEN x[2] \o parts[x[1]] ELSE x[2]]
<1>1. n \in Nat /\ n # 0
  BY OrganizationsAssumption
<1>2. AllOf(parts) = upto[n]
  BY DEF AllOf
<1>3. F \in [Nat \X D -> D]
  <2>1. ASSUME NEW i \in Nat, NEW s \in D PROVE (IF i \in 1 .. n THEN s \o parts[i] ELSE s) \in D
    <3>1. i \in 1 .. n => parts[i] \in Seq(S)
      OBVIOUS
    <3>2. QED
      BY <3>1
  <2> HIDE DEF D
  <2>2. QED
    BY <2>1
<1>4. <<>> \in D
  OBVIOUS
<1>5. PICK f \in [0 .. n -> D] : f[0] = <<>> /\ \A k \in 1 .. n : f[k] = F[<<k,f[k-1]>>]
  <2> HIDE DEF F, upto, D
  <2>1. Runs(D, F, <<>>, n) # {}
    BY <1>1, <1>3, <1>4, LoopRuns
  <2>2. QED
    BY <2>1 DEF Runs
<1>6. ASSUME NEW k \in 1 .. n PROVE k - 1 \in 0 .. n /\ f[k] = f[k-1] \o parts[k]
  <2>1. k - 1 \in 0 .. n /\ k \in Nat /\ k # 0
    BY <1>1
  <2>2. f[k-1] \in D
    BY <2>1
  <2>3. F[<<k,f[k-1]>>] = f[k-1] \o parts[k]
    BY <2>1, <2>2
  <2> HIDE DEF F
  <2>4. QED
    BY <2>1, <2>3, <1>5
<1> HIDE DEF F
<1>7. ASSUME NEW k \in 0 .. n PROVE f[k] = IF k = 0 THEN <<>> ELSE f[k-1] \o parts[k]
  <2>1. k # 0 => k \in 1 .. n
    OBVIOUS
  <2>2. QED
    BY <2>1, <1>5, <1>6
<1>8. f = [k \in 0 .. n |-> IF k = 0 THEN <<>> ELSE f[k-1] \o parts[k]]
  BY <1>7
<1>9. upto = [k \in 0 .. n |-> IF k = 0 THEN <<>> ELSE upto[k-1] \o parts[k]]
  BY <1>8, Zenon
<1> HIDE DEF upto
<1> DEFINE P == {k \in Nat : k <= n => upto[k] = f[k]}
<1>10. 0 \in P
  BY <1>1, <1>5, <1>9
<1>11. ASSUME NEW k \in Nat, k \in P PROVE k + 1 \in P
  <2> SUFFICES ASSUME k + 1 <= n PROVE upto[k+1] = f[k+1]
    OBVIOUS
  <2>1. k <= n /\ k + 1 \in 1 .. n /\ k + 1 \in 0 .. n /\ k + 1 # 0 /\ (k + 1) - 1 = k
    BY <1>1
  <2>2. upto[k+1] = upto[k] \o parts[k+1] /\ f[k+1] = f[k] \o parts[k+1]
    BY <2>1, <1>6, <1>9
  <2>3. QED
    BY <2>1, <2>2, <1>11
<1>12. n \in P
  <2> HIDE DEF P, n
  <2>1. QED
    BY <1>1, <1>10, <1>11, Induction
<1>13. upto[n] = f[n]
  BY <1>1, <1>12
<1>14. f \in Concatenations(S, parts)
  BY <1>2, <1>5, <1>6, <1>13 DEF Concatenations
<1>15. QED
  BY <1>14

\* A row of the shared table, and the table as Submit makes it.
Row == [case : CaseId, act : Nat, time : Nat, org : Nat]

SharedTable == AllOf([o \in 1 .. Organizations |-> Labelled(o)])

\* Two tables with the same events.
SameColumns(rows, flat) ==
  /\ rows \in Seq(Row) /\ flat \in Seq(Event) /\ Len(rows) = Len(flat)
  /\ \A i \in 1 .. Len(flat) : rows[i].case = flat[i].case /\ rows[i].act = flat[i].act /\ rows[i].time = flat[i].time

\* Tables with the same events can be continued with tables with the same events.
LEMMA ColumnsConcatenate ==
  ASSUME NEW rows, NEW flat, SameColumns(rows, flat), NEW more, NEW log, SameColumns(more, log)
  PROVE  SameColumns(rows \o more, flat \o log)
<1>1. rows \in Seq(Row) /\ flat \in Seq(Event) /\ more \in Seq(Row) /\ log \in Seq(Event)
  BY DEF SameColumns
<1>2. Len(rows) = Len(flat) /\ Len(more) = Len(log) /\ Len(flat) \in Nat /\ Len(log) \in Nat
  BY <1>1 DEF SameColumns
<1> HIDE DEF SameColumns
<1> DEFINE r == rows \o more
           f == flat \o log
           n == Len(flat)
<1>3. r \in Seq(Row) /\ f \in Seq(Event) /\ Len(r) = n + Len(log) /\ Len(f) = n + Len(log)
  BY <1>1, <1>2
<1>4. ASSUME NEW i \in 1 .. n + Len(log)
      PROVE  r[i].case = f[i].case /\ r[i].act = f[i].act /\ r[i].time = f[i].time
  <2>1. CASE i <= n
    <3>1. r[i] = rows[i] /\ f[i] = flat[i] /\ i \in 1 .. Len(flat)
      BY <2>1, <1>1, <1>2
    <3> HIDE DEF r, f
    <3>2. QED
      BY <3>1 DEF SameColumns
  <2>2. CASE i > n
    <3>1. r[i] = more[i-n] /\ f[i] = log[i-n] /\ i - n \in 1 .. Len(log)
      BY <2>2, <1>1, <1>2
    <3> HIDE DEF r, f, n
    <3>2. QED
      BY <3>1 DEF SameColumns
  <2>3. QED
    BY <2>1, <2>2, <1>2
<1> HIDE DEF r, f
<1>5. SameColumns(r, f)
  BY <1>3, <1>4, <1>2 DEF SameColumns
<1>6. QED
  BY <1>5 DEF r, f

\* The shared table has the events of the logs, one log after the other.
LEMMA TableHasTheEvents ==
  ASSUME inputs \in [1 .. Organizations -> Seq(Event)]
  PROVE  SameColumns(SharedTable, Submitted)
<1> DEFINE n == Organizations
           parts == [o \in 1 .. n |-> Labelled(o)]
<1>1. n \in Nat /\ n # 0
  BY OrganizationsAssumption
<1>2. ASSUME NEW o \in 1 .. n PROVE SameColumns(parts[o], inputs[o])
  <2> DEFINE s == inputs[o]
             org == o - 1
             row(i) == [case |-> s[i].case, act |-> s[i].act, time |-> s[i].time, org |-> org]
  <2>1. s \in Seq(Event) /\ DOMAIN s = 1 .. Len(s) /\ Len(s) \in Nat
    OBVIOUS
  <2>2. \A i \in 1 .. Len(s) : s[i] \in Event
    BY <2>1
  <2>3. Labelled(o) = [i \in DOMAIN s |-> row(i)]
    BY DEF Labelled
  <2>4. org \in Nat
    BY <1>1
  <2> HIDE DEF s, org
  <2>5. \A i \in 1 .. Len(s) : row(i) \in Row
    BY <2>2, <2>4 DEF Event, Row, CaseId
  <2> DEFINE r == Labelled(o)
  <2>6. DOMAIN r = 1 .. Len(s) /\ \A i \in 1 .. Len(s) : r[i] = row(i)
    BY <2>1, <2>3
  <2>7. r \in Seq(Row) /\ Len(r) = Len(s)
    <3>1. r = [i \in 1 .. Len(s) |-> row(i)]
      BY <2>1, <2>3
    <3> HIDE DEF r, row
    <3>2. QED
      BY <3>1, <2>1, <2>5
  <2>8. \A i \in 1 .. Len(s) : r[i].case = s[i].case /\ r[i].act = s[i].act /\ r[i].time = s[i].time
    BY <2>6
  <2> HIDE DEF r, row
  <2>9. SameColumns(r, s)
    BY <2>1, <2>7, <2>8 DEF SameColumns
  <2>10. QED
    BY <2>9 DEF r, s
<1>3. parts \in [1 .. n -> Seq(Row)]
  <2>1. \A o \in 1 .. n : parts[o] \in Seq(Row)
    BY <1>2 DEF SameColumns
  <2>2. QED
    BY <2>1
<1> HIDE DEF parts
<1>4. PICK u \in [0 .. n -> Seq(Row)] :
        u[0] = <<>> /\ (\A p \in 1 .. n : u[p] = u[p-1] \o parts[p]) /\ AllOf(parts) = u[n]
  <2>1. Concatenations(Row, parts) # {}
    BY <1>3, LogsConcatenate
  <2>2. QED
    BY <2>1 DEF Concatenations
<1>5. PICK v \in [0 .. n -> Seq(Event)] :
        v[0] = <<>> /\ (\A p \in 1 .. n : v[p] = v[p-1] \o inputs[p]) /\ AllOf(inputs) = v[n]
  <2>1. Concatenations(Event, inputs) # {}
    BY LogsConcatenate
  <2>2. QED
    BY <2>1 DEF Concatenations
<1> DEFINE P == {k \in Nat : k <= n => SameColumns(u[k], v[k])}
<1>6. 0 \in P
  <2>1. <<>> \in Seq(Row) /\ <<>> \in Seq(Event) /\ Len(<<>>) = 0
    OBVIOUS
  <2>2. SameColumns(u[0], v[0])
    BY <2>1, <1>4, <1>5 DEF SameColumns
  <2>3. QED
    BY <2>2
<1>7. ASSUME NEW k \in Nat, k \in P PROVE k + 1 \in P
  <2> SUFFICES ASSUME k + 1 <= n PROVE SameColumns(u[k+1], v[k+1])
    OBVIOUS
  <2>1. k <= n /\ k + 1 \in 1 .. n /\ (k + 1) - 1 = k
    BY <1>1
  <2>2. u[k+1] = u[k] \o parts[k+1] /\ v[k+1] = v[k] \o inputs[k+1]
    BY <2>1, <1>4, <1>5
  <2>3. SameColumns(u[k], v[k]) /\ SameColumns(parts[k+1], inputs[k+1])
    BY <2>1, <1>2, <1>7
  <2>4. QED
    BY <2>2, <2>3, ColumnsConcatenate
<1>8. n \in P
  <2> HIDE DEF P, n
  <2>1. QED
    BY <1>1, <1>6, <1>7, Induction
<1>9. SameColumns(u[n], v[n])
  BY <1>1, <1>8
<1>10. QED
  BY <1>4, <1>5, <1>9 DEF SharedTable, Submitted, parts

(***************************************************************************)
(* The oblivious merge: its invariant                                      *)
(***************************************************************************)

\* The counter that fixes the order of the events never leaves the natural numbers.
LEMMA CounterIsNatural ==
  ASSUME inputs \in [1 .. Organizations -> Seq(Event)], NEW o \in 1 .. Organizations
  PROVE  EventsBefore(o) \in Nat
<1> DEFINE n == Organizations
           before[p \in 0 .. n] == IF p = 0 THEN 0 ELSE before[p-1] + Len(inputs[p])
           F == [x \in Nat \X Nat |-> IF x[1] \in 1 .. n THEN x[2] + Len(inputs[x[1]]) ELSE x[2]]
<1>1. n \in Nat /\ n # 0
  BY OrganizationsAssumption
<1>2. EventsBefore(o) = before[o-1]
  BY DEF EventsBefore
<1>3. F \in [Nat \X Nat -> Nat]
  <2>1. ASSUME NEW i \in Nat, NEW s \in Nat PROVE (IF i \in 1 .. n THEN s + Len(inputs[i]) ELSE s) \in Nat
    <3>1. i \in 1 .. n => Len(inputs[i]) \in Nat
      OBVIOUS
    <3>2. QED
      BY <3>1
  <2>2. QED
    BY <2>1
<1>4. PICK f \in [0 .. n -> Nat] : f[0] = 0 /\ \A k \in 1 .. n : f[k] = F[<<k,f[k-1]>>]
  <2> HIDE DEF F, before
  <2>1. Runs(Nat, F, 0, n) # {}
    BY <1>1, <1>3, LoopRuns
  <2>2. QED
    BY <2>1 DEF Runs
<1>5. ASSUME NEW k \in 1 .. n PROVE k - 1 \in 0 .. n /\ f[k] = f[k-1] + Len(inputs[k])
  <2>1. k - 1 \in 0 .. n /\ k \in Nat /\ k # 0
    BY <1>1
  <2>2. f[k-1] \in Nat
    BY <2>1
  <2>3. F[<<k,f[k-1]>>] = f[k-1] + Len(inputs[k])
    BY <2>1, <2>2
  <2> HIDE DEF F
  <2>4. QED
    BY <2>1, <2>3, <1>4
<1> HIDE DEF F
<1>6. ASSUME NEW k \in 0 .. n PROVE f[k] = IF k = 0 THEN 0 ELSE f[k-1] + Len(inputs[k])
  <2>1. k # 0 => k \in 1 .. n
    OBVIOUS
  <2>2. QED
    BY <2>1, <1>4, <1>5
<1>7. f = [k \in 0 .. n |-> IF k = 0 THEN 0 ELSE f[k-1] + Len(inputs[k])]
  BY <1>6
<1>8. before = [k \in 0 .. n |-> IF k = 0 THEN 0 ELSE before[k-1] + Len(inputs[k])]
  BY <1>7, Zenon
<1> HIDE DEF before
<1> DEFINE P == {k \in Nat : k <= n => before[k] = f[k]}
<1>9. 0 \in P
  BY <1>1, <1>4, <1>8
<1>10. ASSUME NEW k \in Nat, k \in P PROVE k + 1 \in P
  <2> SUFFICES ASSUME k + 1 <= n PROVE before[k+1] = f[k+1]
    OBVIOUS
  <2>1. k <= n /\ k + 1 \in 1 .. n /\ k + 1 \in 0 .. n /\ k + 1 # 0 /\ (k + 1) - 1 = k
    BY <1>1
  <2>2. before[k+1] = before[k] + Len(inputs[k+1]) /\ f[k+1] = f[k] + Len(inputs[k+1])
    BY <2>1, <1>5, <1>8
  <2>3. QED
    BY <2>1, <2>2, <1>10
<1>11. o - 1 \in P
  <2>1. o - 1 \in Nat
    BY <1>1
  <2> HIDE DEF P, n
  <2>2. \A k \in Nat : k \in P
    BY <1>9, <1>10, Induction
  <2>3. QED
    BY <2>1, <2>2
<1>12. before[o-1] = f[o-1] /\ o - 1 \in 0 .. n
  BY <1>1, <1>11
<1>13. QED
  BY <1>2, <1>4, <1>12

\* The inductive invariant: what the table is at each stage.
Recorded == [1 .. Organizations -> Seq(Event)]

MergeInvariant ==
  /\ logs \in Recorded
  /\ inputs \in Recorded
  /\ stage = "timestamps" => table = SharedTable
  /\ stage = "cases" => table = SortByTimestamp(SharedTable)
  /\ stage = "merged" => table = SortByCaseId(SortByTimestamp(SharedTable))

\* Reading starts with logs and an empty table.
LEMMA MergeStarts == MergeInit(Recorded) => MergeInvariant
<1> SUFFICES ASSUME MergeInit(Recorded) PROVE MergeInvariant
  OBVIOUS
<1>1. NoLogs \in Recorded
  <2>1. <<>> \in Seq(Event)
    OBVIOUS
  <2>2. QED
    BY <2>1 DEF NoLogs, Recorded
<1>2. QED
  BY <1>1 DEF MergeInit, MergeInvariant

\* Reading, fixing the order, encoding and each of the sorts keeps the invariant.
LEMMA MergeSteps == MergeInvariant /\ [MergeNext]_mergeVars => MergeInvariant'
<1> SUFFICES ASSUME MergeInvariant, [MergeNext]_mergeVars PROVE MergeInvariant'
  OBVIOUS
<1>1. ASSUME UNCHANGED inputs PROVE SharedTable' = SharedTable
  BY <1>1 DEF SharedTable, AllOf, Labelled
<1>2. CASE ReadLogs
  <2>1. stage' \in {"order", "encode"} /\ logs' \in Recorded /\ inputs' \in Recorded
    BY <1>2 DEF ReadLogs, MergeInvariant
  <2>2. QED
    BY <2>1 DEF MergeInvariant
<1>3. CASE FixEventOrder
  <2> DEFINE log(o) == [i \in DOMAIN inputs[o] |->
                          [inputs[o][i] EXCEPT !.time = @ + EventsBefore(o) + i - 1]]
  <2>1. ASSUME NEW o \in 1 .. Organizations PROVE log(o) \in Seq(Event)
    <3> DEFINE s == inputs[o]
               b == EventsBefore(o)
               event(i) == [s[i] EXCEPT !.time = @ + b + i - 1]
    <3>1. inputs \in [1 .. Organizations -> Seq(Event)]
      BY DEF MergeInvariant, Recorded
    <3>2. s \in Seq(Event) /\ Len(s) \in Nat /\ DOMAIN s = 1 .. Len(s) /\ \A i \in 1 .. Len(s) : s[i] \in Event
      BY <3>1
    <3>3. b \in Nat
      BY <3>1, CounterIsNatural
    <3> HIDE DEF s, b
    <3>4. ASSUME NEW i \in 1 .. Len(s) PROVE event(i) \in Event
      <4>1. s[i] \in Event /\ i \in Nat /\ i >= 1
        BY <3>2
      <4>2. s[i].time + b + i - 1 \in Nat
        BY <3>3, <4>1 DEF Event
      <4> DEFINE t == s[i].time + b + i - 1
      <4>3. event(i) = [s[i] EXCEPT !.time = t]
        BY <4>1 DEF Event
      <4> HIDE DEF t, event
      <4>4. QED
        BY <4>1, <4>2, <4>3 DEF Event, t
    <3>5. [i \in 1 .. Len(s) |-> event(i)] \in Seq(Event)
      <4> HIDE DEF event
      <4>1. QED
        BY <3>2, <3>4
    <3>6. QED
      BY <3>2, <3>5 DEF s, b
  <2>2. inputs' = [o \in 1 .. Organizations |-> log(o)]
    BY <1>3 DEF FixEventOrder
  <2>3. inputs' \in Recorded
    <3> HIDE DEF log
    <3>1. QED
      BY <2>1, <2>2 DEF Recorded
  <2>4. stage' = "encode" /\ logs' \in Recorded
    BY <1>3 DEF FixEventOrder, MergeInvariant
  <2>5. QED
    BY <2>3, <2>4 DEF MergeInvariant
<1>4. CASE Submit
  <2>1. logs' \in Recorded /\ inputs' \in Recorded /\ SharedTable' = SharedTable
    BY <1>1, <1>4 DEF Submit, MergeInvariant
  <2>2. (stage' = "timestamps" /\ table' = SharedTable) \/ stage' = "refused"
    BY <1>4 DEF Submit, SharedTable
  <2>3. QED
    BY <2>1, <2>2 DEF MergeInvariant
<1>5. CASE SortTimestamps
  <2>1. logs' \in Recorded /\ inputs' \in Recorded /\ SharedTable' = SharedTable
    BY <1>1, <1>5 DEF SortTimestamps, MergeInvariant
  <2>2. stage' = "cases" /\ table' = SortByTimestamp(SharedTable)
    BY <1>5 DEF SortTimestamps, MergeInvariant
  <2>3. QED
    BY <2>1, <2>2 DEF MergeInvariant
<1>6. CASE SortCases
  <2>1. logs' \in Recorded /\ inputs' \in Recorded /\ SharedTable' = SharedTable
    BY <1>1, <1>6 DEF SortCases, MergeInvariant
  <2>2. stage' = "merged" /\ table' = SortByCaseId(SortByTimestamp(SharedTable))
    BY <1>6 DEF SortCases, MergeInvariant
  <2>3. QED
    BY <2>1, <2>2 DEF MergeInvariant
<1>7. CASE UNCHANGED mergeVars
  <2>1. SharedTable' = SharedTable /\ logs' = logs /\ inputs' = inputs /\ stage' = stage /\ table' = table
    BY <1>1, <1>7 DEF mergeVars
  <2>2. QED
    BY <2>1 DEF MergeInvariant
<1>8. QED
  BY <1>2, <1>3, <1>4, <1>5, <1>6, <1>7 DEF MergeNext

\* What the merge is of the logs, once it is done.
Orders == {order \in [1 .. Len(SharedTable) -> 1 .. Len(SharedTable)] :
             MergedFrom(table, Submitted, order, SharedTable, Len(SharedTable))}

\* When both sorts are done, the table is the logs in one order: by case, then by time.
LEMMA MergedTable ==
  ASSUME MergeInvariant, stage = "merged"
  PROVE  Orders # {}
<1> DEFINE rows == SharedTable
           n == Len(rows)
<1>1. SameColumns(rows, Submitted)
  BY TableHasTheEvents DEF MergeInvariant, Recorded
<1>2. table = SortByCaseId(SortByTimestamp(rows))
  BY DEF MergeInvariant
<1> HIDE DEF rows
<1>3. rows \in Seq(Row) /\ Submitted \in Seq(Event) /\ Len(Submitted) = n
  BY <1>1 DEF SameColumns
<1>4. n \in Nat /\ DOMAIN rows = 1 .. n /\ DOMAIN Submitted = 1 .. n
  BY <1>3
<1>5. \A i \in 1 .. n : rows[i] \in Row
  BY <1>3
<1>6. \A i \in 1 .. n : rows[i].case \in CaseId /\ rows[i].case \in Nat /\ rows[i].time \in Nat
  <2>1. CaseId \subseteq Nat
    BY DEF CaseId
  <2>2. QED
    BY <1>5, <2>1 DEF Row
<1> HIDE DEF n
<1>7. PICK order \in [1 .. n -> 1 .. n] :
        Merging(order, rows, n) /\ table = [p \in 1 .. n |-> rows[order[p]]]
  <2>1. Mergings(rows, n) # {}
    BY <1>4, <1>6, TwoSortsMerge
  <2>2. QED
    BY <2>1, <1>2 DEF Mergings
<1>8. MergedFrom(table, Submitted, order, rows, n)
  <2>1. \A i \in 1 .. n : rows[i].case = Submitted[i].case /\ rows[i].act = Submitted[i].act
                          /\ rows[i].time = Submitted[i].time
    BY <1>1, <1>3 DEF SameColumns
  <2>2. QED
    BY <1>4, <1>6, <1>7, <2>1 DEF MergedFrom
<1>9. QED
  BY <1>8 DEF Orders, n, rows

\* At each stage the table is the logs one after the other, sorted once or sorted twice
\* (log_merge.py:298-307).
THEOREM MergeStages == MergeSpec => []MergeInvariant
<1>1. MergeSpec => MergeInit(Recorded) /\ [][MergeNext]_mergeVars
  BY DEF MergeSpec, Recorded
<1>2. QED
  BY <1>1, MergeStarts, MergeSteps, PTL

\* CasesContiguous, for any number of parties and rows: the merged table has one start and
\* one end of every case (log_merge.py:303-307).
THEOREM CasesStayTogether == MergeSpec => []CasesContiguous
<1>1. MergeInvariant => CasesContiguous
  <2> SUFFICES ASSUME MergeInvariant, stage = "merged", NEW c \in Cases(table)
               PROVE  /\ Cardinality({i \in NewCase(table) : table[i].case = c}) = 1
                      /\ Cardinality({i \in CaseEnd(table) : table[i].case = c}) = 1
    BY DEF CasesContiguous
  <2> DEFINE n == Len(SharedTable)
             rows == SharedTable
  <2>1. PICK order : MergedFrom(table, Submitted, order, rows, n)
    <3>1. Orders # {}
      BY MergedTable
    <3>2. QED
      BY <3>1 DEF Orders
  <2> HIDE DEF n, rows
  <2>2. QED
    BY <2>1, OneStartOneEnd
<1>2. QED
  BY <1>1, MergeStages, PTL

\* NothingLost, for any number of parties and rows: every case of the merged table has the
\* events that the parties submitted of it, as often as they did (log_merge.py:298-307).
THEOREM MergeLosesNothing == MergeSpec => []NothingLost
<1>1. MergeInvariant => NothingLost
  <2> SUFFICES ASSUME MergeInvariant, stage = "merged", NEW c
               PROVE  SameEvents(Columns(Trace(table, c)), Columns(Trace(Submitted, c)))
    BY DEF NothingLost
  <2>1. PICK order : MergedFrom(table, Submitted, order, SharedTable, Len(SharedTable))
    <3>1. Orders # {}
      BY MergedTable
    <3>2. QED
      BY <3>1 DEF Orders
  <2>2. QED
    BY <2>1, MergeKeepsEvents
<1>2. QED
  BY <1>1, MergeStages, PTL

\* CasesInTimeOrder, for any number of parties and rows: cases whose timestamps agree in
\* the top bit are in the order of time, and events of one time in that of the parties'
\* logs (log_merge.py:298-307).
THEOREM MergedInTimeOrder == MergeSpec => []CasesInTimeOrder
<1>1. MergeInvariant => CasesInTimeOrder
  <2> SUFFICES ASSUME MergeInvariant, stage = "merged", NEW c,
                      SameSign({table[i].time : i \in {j \in DOMAIN table : table[j].case = c}})
               PROVE  /\ InTimeOrder(Trace(table, c))
                      /\ \A t : Columns(At(table, c, t)) = Columns(At(Submitted, c, t))
    BY DEF CasesInTimeOrder
  <2>1. PICK order : MergedFrom(table, Submitted, order, SharedTable, Len(SharedTable))
    <3>1. Orders # {}
      BY MergedTable
    <3>2. QED
      BY <3>1 DEF Orders
  <2>2. QED
    BY <2>1, MergeSortsTimes, MergeIsStable
<1>2. QED
  BY <1>1, MergeStages, PTL

(***************************************************************************)
(* The merge by quicksort: its stack of ranges                             *)
(***************************************************************************)

\* The ranges that can wait on the stack of the quicksort.
RowRange(n) == [lo : 1 .. n, hi : 1 .. n]

\* The ranges on the stack hold two rows or more, the last one the lowest.
Descending(s, n) ==
  /\ n \in Nat
  /\ s \in Seq(RowRange(n))
  /\ \A k \in 1 .. Len(s) : s[k].lo < s[k].hi
  /\ \A k, l \in 1 .. Len(s) : k < l => s[l].hi < s[k].lo

\* Row x lies below all ranges of the stack; row i in one of them.
LiesBelow(x, s) == \A k \in 1 .. Len(s) : x < s[k].lo

In(range, i) == range.lo <= i /\ i <= range.hi

\* Ranges that do not overlap are at most as many as there are rows: a stack of one entry
\* per row suffices (clear_quicksort, log_merge.py:16-97).
LEMMA StackFits ==
  ASSUME NEW n, NEW s, Descending(s, n)
  PROVE  Len(s) \in Nat /\ Len(s) <= n
<1> DEFINE c == Len(s)
           f == [k \in 1 .. c |-> s[k].lo]
<1>1. n \in Nat /\ c \in Nat /\ \A k \in 1 .. c : s[k] \in RowRange(n)
  BY DEF Descending
<1>2. \A k \in 1 .. c : s[k].lo \in 1 .. n /\ s[k].hi \in 1 .. n
  BY <1>1 DEF RowRange
<1>3. f \in [1 .. c -> 1 .. n]
  BY <1>2
<1>4. ASSUME NEW k \in 1 .. c, NEW l \in 1 .. c, k < l PROVE f[k] # f[l]
  <2>1. s[l].hi < s[k].lo /\ s[l].lo < s[l].hi
    BY <1>4 DEF Descending
  <2>2. QED
    BY <2>1, <1>2
<1>5. \A k, l \in 1 .. c : f[k] = f[l] => k = l
  <2> SUFFICES ASSUME NEW k \in 1 .. c, NEW l \in 1 .. c, f[k] = f[l] PROVE k = l
    OBVIOUS
  <2> HIDE DEF f
  <2>1. ~(k < l) /\ ~(l < k)
    BY <1>4
  <2> HIDE DEF c
  <2>2. QED
    BY <2>1, <1>1
<1> HIDE DEF f, c
<1>6. f \in Injection(1 .. c, 1 .. n)
  BY <1>3, <1>5 DEF Injection, IsInjective
<1>7. IsFiniteSet(1 .. n) /\ Cardinality(1 .. n) = n /\ Cardinality(1 .. c) = c
  BY <1>1, FS_Interval
<1>8. Cardinality(1 .. c) <= Cardinality(1 .. n)
  BY <1>6, <1>7, FS_Injection
<1>9. QED
  BY <1>1, <1>7, <1>8 DEF c

\* Row i lies in a range on the stack; rows i and j lie in one range.
Waits(s, i) == \E k \in 1 .. Len(s) : In(s[k], i)

WaitTogether(s, i, j) == \E k \in 1 .. Len(s) : In(s[k], i) /\ In(s[k], j)

Pending(s, n) == {i \in 1 .. n : Waits(s, i)}

\* The stack without its last range, and with one more.
Last(s) == s[Len(s)]

Popped(s) == SubSeq(s, 1, Len(s) - 1)

Pushed(s, lo, hi) == s \o <<[lo |-> lo, hi |-> hi]>>

\* Taking the last range off the stack leaves ranges above it, and only its own rows stop
\* waiting.
LEMMA StackPops ==
  ASSUME NEW n, NEW s, Descending(s, n), s # <<>>
  PROVE  /\ Descending(Popped(s), n) /\ LiesBelow(Last(s).hi, Popped(s))
         /\ Last(s).lo \in 1 .. n /\ Last(s).hi \in 1 .. n /\ Last(s).lo < Last(s).hi
         /\ \A i : Waits(s, i) <=> Waits(Popped(s), i) \/ In(Last(s), i)
         /\ \A i, j : WaitTogether(s, i, j) => WaitTogether(Popped(s), i, j) \/ (In(Last(s), i) /\ In(Last(s), j))
<1> DEFINE c == Len(s)
           t == Popped(s)
           range == Last(s)
<1>1. n \in Nat /\ c \in Nat /\ s \in Seq(RowRange(n)) /\ c # 0
  BY DEF Descending
<1>2. t \in Seq(RowRange(n)) /\ Len(t) = c - 1 /\ \A k \in 1 .. c - 1 : t[k] = s[k]
  <2> DEFINE m == c - 1
             R == RowRange(n)
  <2>1. m \in Nat /\ t = SubSeq(s, 1, m)
    BY <1>1 DEF Popped
  <2>2. \A k \in 1 .. m : s[k] \in R
    BY <1>1
  <2> HIDE DEF R, m, c
  <2>3. /\ SubSeq(s, 1, m) \in Seq(R)
        /\ Len(SubSeq(s, 1, m)) = IF 1 <= m THEN m - 1 + 1 ELSE 0
        /\ \A k \in 1 .. m - 1 + 1 : SubSeq(s, 1, m)[k] = s[1 + k - 1]
    BY <2>1, <2>2, SubSeqProperties
  <2>4. t \in Seq(R) /\ Len(t) = m /\ \A k \in 1 .. m : t[k] = s[k]
    BY <2>1, <2>3
  <2>5. QED
    BY <2>4 DEF m, R
<1>3. range \in RowRange(n) /\ range = s[c] /\ c \in 1 .. c
  BY <1>1 DEF Last
<1> HIDE DEF c, t, range
<1>4. \A k \in 1 .. c : k \in 1 .. c - 1 \/ k = c
  BY <1>1
<1>5. \A k \in 1 .. c - 1 : k \in 1 .. c /\ k < c
  BY <1>1
<1>6. /\ \A k \in 1 .. c : s[k].lo < s[k].hi
      /\ \A k, l \in 1 .. c : k < l => s[l].hi < s[k].lo
  BY DEF Descending, c
<1>7. Descending(t, n)
  <2>1. \A k \in 1 .. c - 1 : t[k].lo < t[k].hi
    BY <1>2, <1>5, <1>6
  <2>2. ASSUME NEW k \in 1 .. c - 1, NEW l \in 1 .. c - 1, k < l PROVE t[l].hi < t[k].lo
    <3>1. s[l].hi < s[k].lo
      BY <2>2, <1>5, <1>6
    <3>2. QED
      BY <3>1, <1>2
  <2>3. QED
    BY <1>1, <1>2, <2>1, <2>2 DEF Descending
<1>8. LiesBelow(range.hi, t)
  <2> SUFFICES ASSUME NEW k \in 1 .. c - 1 PROVE range.hi < t[k].lo
    BY <1>2 DEF LiesBelow
  <2>1. QED
    BY <1>2, <1>3, <1>5, <1>6
<1>9. range.lo \in 1 .. n /\ range.hi \in 1 .. n /\ range.lo < range.hi
  BY <1>3, <1>6 DEF RowRange
<1>10. ASSUME NEW i PROVE (\E k \in 1 .. c : In(s[k], i)) <=> (\E k \in 1 .. c - 1 : In(t[k], i)) \/ In(range, i)
  BY <1>2, <1>3, <1>4, <1>5
<1>11. ASSUME NEW i, NEW j, \E k \in 1 .. c : In(s[k], i) /\ In(s[k], j)
       PROVE  (\E k \in 1 .. c - 1 : In(t[k], i) /\ In(t[k], j)) \/ (In(range, i) /\ In(range, j))
  <2>1. PICK k \in 1 .. c : In(s[k], i) /\ In(s[k], j)
    BY <1>11
  <2>2. CASE k = c
    BY <2>1, <2>2, <1>3
  <2>3. CASE k \in 1 .. c - 1
    BY <2>1, <2>3, <1>2
  <2>4. QED
    BY <2>2, <2>3, <1>4
<1>12. QED
  BY <1>2, <1>7, <1>8, <1>9, <1>10, <1>11 DEF c, t, range, Waits, WaitTogether

\* A range below all others can be put on the stack, and only its own rows start to wait.
LEMMA StackPushes ==
  ASSUME NEW n, NEW s, Descending(s, n), NEW lo \in 1 .. n, NEW hi \in 1 .. n, lo < hi, LiesBelow(hi, s)
  PROVE  /\ Descending(Pushed(s, lo, hi), n)
         /\ \A x \in Int : x < lo => LiesBelow(x, Pushed(s, lo, hi))
         /\ \A i : Waits(Pushed(s, lo, hi), i) <=> Waits(s, i) \/ (lo <= i /\ i <= hi)
         /\ \A i, j : WaitTogether(s, i, j) \/ (lo <= i /\ i <= hi /\ lo <= j /\ j <= hi) =>
                         WaitTogether(Pushed(s, lo, hi), i, j)
<1> DEFINE c == Len(s)
           range == [lo |-> lo, hi |-> hi]
           t == Pushed(s, lo, hi)
<1>1. n \in Nat /\ c \in Nat /\ s \in Seq(RowRange(n)) /\ range \in RowRange(n)
  BY DEF Descending, RowRange
<1>2. t \in Seq(RowRange(n)) /\ Len(t) = c + 1 /\ t[c+1] = range /\ \A k \in 1 .. c : t[k] = s[k]
  <2>1. t = s \o <<range>>
    BY DEF Pushed
  <2> HIDE DEF range, t
  <2>2. QED
    BY <1>1, <2>1
<1>3. range.lo = lo /\ range.hi = hi
  OBVIOUS
<1> HIDE DEF c, range, t
<1>4. \A k \in 1 .. c + 1 : k \in 1 .. c \/ k = c + 1
  BY <1>1
<1>5. c + 1 \in 1 .. c + 1 /\ \A k \in 1 .. c : k \in 1 .. c + 1 /\ k < c + 1
  BY <1>1
<1>6. /\ \A k \in 1 .. c : s[k].lo < s[k].hi /\ hi < s[k].lo /\ s[k].lo \in 1 .. n
      /\ \A k, l \in 1 .. c : k < l => s[l].hi < s[k].lo
  <2>1. \A k \in 1 .. c : s[k] \in RowRange(n)
    BY <1>1 DEF c
  <2>2. QED
    BY <2>1 DEF Descending, LiesBelow, RowRange, c
<1>7. Descending(t, n)
  <2>1. ASSUME NEW k \in 1 .. c + 1 PROVE t[k].lo < t[k].hi
    BY <1>2, <1>3, <1>4, <1>6
  <2>2. ASSUME NEW k \in 1 .. c + 1, NEW l \in 1 .. c + 1, k < l PROVE t[l].hi < t[k].lo
    <3>1. k \in 1 .. c
      BY <1>1, <2>2
    <3>2. CASE l = c + 1
      BY <3>1, <3>2, <1>2, <1>3, <1>6
    <3>3. CASE l \in 1 .. c
      <4>1. s[l].hi < s[k].lo
        BY <3>1, <3>3, <2>2, <1>6
      <4>2. QED
        BY <3>1, <3>3, <4>1, <1>2
    <3>4. QED
      BY <3>2, <3>3, <1>4
  <2>3. QED
    BY <1>1, <1>2, <2>1, <2>2 DEF Descending
<1>8. ASSUME NEW x \in Int, x < lo PROVE LiesBelow(x, t)
  <2> SUFFICES ASSUME NEW k \in 1 .. c + 1 PROVE x < t[k].lo
    BY <1>2 DEF LiesBelow
  <2>1. QED
    BY <1>2, <1>3, <1>4, <1>6, <1>8
<1>9. ASSUME NEW i
      PROVE  (\E k \in 1 .. c + 1 : In(t[k], i)) <=> (\E k \in 1 .. c : In(s[k], i)) \/ (lo <= i /\ i <= hi)
  <2>1. In(t[c+1], i) <=> lo <= i /\ i <= hi
    BY <1>2, <1>3 DEF In
  <2>2. QED
    BY <2>1, <1>2, <1>4, <1>5
<1>10. ASSUME NEW i, NEW j,
              (\E k \in 1 .. c : In(s[k], i) /\ In(s[k], j)) \/ (lo <= i /\ i <= hi /\ lo <= j /\ j <= hi)
       PROVE  \E k \in 1 .. c + 1 : In(t[k], i) /\ In(t[k], j)
  <2>1. CASE \E k \in 1 .. c : In(s[k], i) /\ In(s[k], j)
    BY <2>1, <1>2, <1>5
  <2>2. CASE lo <= i /\ i <= hi /\ lo <= j /\ j <= hi
    <3>1. In(t[c+1], i) /\ In(t[c+1], j)
      BY <2>2, <1>2, <1>3 DEF In
    <3>2. QED
      BY <3>1, <1>5
  <2>3. QED
    BY <2>1, <2>2, <1>10
<1>11. QED
  BY <1>2, <1>7, <1>8, <1>9, <1>10 DEF c, t, Waits, WaitTogether

(***************************************************************************)
(* The merge by quicksort: the turns of its loop                           *)
(***************************************************************************)

\* The number of rows.
N == Len(events)

\* The range being partitioned lies below all that wait.
Partitioning ==
  /\ at \in [lo : 1 .. N, hi : 1 .. N, pi : 1 .. N, j : 1 .. N]
  /\ at.lo < at.hi /\ at.lo <= at.pi /\ at.pi <= at.j /\ at.j <= at.hi
  /\ LiesBelow(at.hi, stack)

Unsorted == Pending(stack, N) \cup (IF pc = "partition" THEN at.lo .. at.hi ELSE {})

\* Every turn but those after the end takes one row, the pivot, off the unsorted ones.
LoopInvariant ==
  /\ events \in EventTables
  /\ pc \in {"shuffle", "encrypt", "pop", "partition", "times", "done"}
  /\ turn \in Nat
  /\ Descending(stack, N)
  /\ pc \in {"shuffle", "encrypt"} => stack = <<>> /\ turn = 0
  /\ pc = "pop" /\ stack # <<>> => turn + Cardinality(Unsorted) <= N
  /\ pc = "partition" => Partitioning /\ turn + Cardinality(Unsorted) <= N + 1
  /\ pc \in {"times", "done"} => stack = <<>>

\* The rows that wait can be counted.
LEMMA PendingIsFinite ==
  ASSUME NEW s, NEW n \in Nat
  PROVE  /\ Pending(s, n) \subseteq 1 .. n /\ IsFiniteSet(Pending(s, n))
         /\ Cardinality(Pending(s, n)) \in Nat /\ Cardinality(Pending(s, n)) <= n
<1>1. Pending(s, n) \subseteq 1 .. n
  BY DEF Pending
<1>2. IsFiniteSet(1 .. n) /\ Cardinality(1 .. n) = n
  BY FS_Interval
<1>3. QED
  BY <1>1, <1>2, FS_Subset, FS_CardinalityType

\* The merge starts with nothing on the stack and no turn taken.
LEMMA LoopStarts == InitWith(EventTables) => LoopInvariant
<1> SUFFICES ASSUME InitWith(EventTables) PROVE LoopInvariant
  OBVIOUS
<1>1. N \in Nat
  BY DEF InitWith, EventTables, N
<1>2. <<>> \in Seq(RowRange(N)) /\ Len(<<>>) = 0
  OBVIOUS
<1>3. Descending(<<>>, N)
  BY <1>1, <1>2 DEF Descending
<1>4. QED
  BY <1>3 DEF InitWith, LoopInvariant

\* Every action of the merge keeps the turns taken within the rows that are sorted.
LEMMA LoopSteps == LoopInvariant /\ [Next]_vars => LoopInvariant'
<1> SUFFICES ASSUME LoopInvariant, [Next]_vars PROVE LoopInvariant'
  OBVIOUS
<1>1. /\ events' = events /\ events' \in EventTables /\ N' = N /\ N \in Nat
  <2>1. events' = events
    BY DEF Next, vars, Shuffle, Encrypt, PopRange, CompareWithPivot, PlacePivot, MarkBoundaries, SplitPartitions, Finish
  <2>2. QED
    BY <2>1 DEF LoopInvariant, N, EventTables
<1>2. CASE Shuffle
  BY <1>1, <1>2 DEF Shuffle, LoopInvariant, N
<1>3. CASE Encrypt
  <2>1. pc' = "pop" /\ turn' = 0 /\ stack = <<>>
    BY <1>3 DEF Encrypt, LoopInvariant
  <2>2. CASE Len(events) <= 1
    <3>1. stack' = <<>>
      BY <1>3, <2>2 DEF Encrypt
    <3>2. QED
      BY <1>1, <2>1, <3>1 DEF LoopInvariant
  <2>3. CASE ~(Len(events) <= 1)
    <3> DEFINE whole == Pushed(<<>>, 1, N)
    <3>1. stack' = <<[lo |-> 1, hi |-> N]>> /\ 1 \in 1 .. N /\ N \in 1 .. N /\ 1 < N
      BY <1>1, <1>3, <2>3 DEF Encrypt, N
    <3>2. stack' = whole
      BY <3>1 DEF Pushed
    <3>3. LiesBelow(N, <<>>)
      BY DEF LiesBelow
    <3>4. Descending(<<>>, N)
      BY <2>1 DEF LoopInvariant
    <3> HIDE DEF whole
    <3>5. Descending(whole, N)
      BY <3>1, <3>3, <3>4, StackPushes DEF whole
    <3>6. Unsorted' = Pending(whole, N)
      BY <1>1, <2>1, <3>2 DEF Unsorted, Pending
    <3>7. Cardinality(Unsorted') <= N /\ Cardinality(Unsorted') \in Nat
      BY <1>1, <3>6, PendingIsFinite
    <3>8. QED
      BY <1>1, <2>1, <3>2, <3>5, <3>7 DEF LoopInvariant
  <2>4. QED
    BY <2>2, <2>3
<1>4. CASE PopRange
  <2>1. pc = "pop" /\ turn' = turn + 1 /\ turn \in Nat /\ Descending(stack, N)
    BY <1>4 DEF PopRange, LoopInvariant
  <2>2. CASE stack = <<>>
    <3>1. stack' = <<>> /\ pc' = "pop"
      BY <1>4, <2>2 DEF PopRange
    <3>2. QED
      BY <1>1, <2>1, <2>2, <3>1 DEF LoopInvariant
  <2>3. CASE stack # <<>>
    <3> DEFINE range == Last(stack)
               t == Popped(stack)
    <3>0. \A i : Waits(stack, i) <=> Waits(t, i) \/ In(range, i)
      BY <2>1, <2>3, StackPops
    <3>1. /\ Descending(t, N) /\ LiesBelow(range.hi, t)
          /\ range.lo \in 1 .. N /\ range.hi \in 1 .. N /\ range.lo < range.hi
      BY <2>1, <2>3, StackPops
    <3>2. /\ stack' = t /\ pc' = "partition"
          /\ at' = [lo |-> range.lo, hi |-> range.hi, pi |-> range.lo, j |-> range.lo]
      BY <1>4, <2>3, <3>1 DEF PopRange, Last, Popped
    <3> HIDE DEF range, t
    <3>3. Partitioning'
      BY <1>1, <3>1, <3>2 DEF Partitioning
    <3>4. Unsorted' = Unsorted
      <4>1. Unsorted' = Pending(t, N) \cup (range.lo .. range.hi)
        BY <1>1, <3>2 DEF Unsorted, Pending
      <4>2. Unsorted = Pending(stack, N)
        BY <2>1 DEF Unsorted
      <4>3. \A i \in 1 .. N : In(range, i) <=> i \in range.lo .. range.hi
        BY <3>1 DEF In
      <4>4. range.lo .. range.hi \subseteq 1 .. N
        <5> DEFINE lo == range.lo
                   hi == range.hi
        <5>1. lo \in 1 .. N /\ hi \in 1 .. N
          BY <3>1
        <5> HIDE DEF lo, hi
        <5>2. lo .. hi \subseteq 1 .. N
          BY <1>1, <5>1
        <5>3. QED
          BY <5>2 DEF lo, hi
      <4>5. Pending(stack, N) = Pending(t, N) \cup (range.lo .. range.hi)
        BY <3>0, <4>3, <4>4 DEF Pending
      <4>6. QED
        BY <4>1, <4>2, <4>5
    <3>5. turn + Cardinality(Unsorted) <= N /\ Cardinality(Unsorted) \in Nat
      <4>1. Unsorted = Pending(stack, N)
        BY <2>1 DEF Unsorted
      <4>2. QED
        BY <1>1, <2>1, <2>3, <4>1, PendingIsFinite DEF LoopInvariant
    <3>6. turn' \in Nat /\ turn' + Cardinality(Unsorted') <= N + 1
      BY <1>1, <2>1, <3>4, <3>5
    <3>7. QED
      BY <1>1, <3>1, <3>2, <3>3, <3>6 DEF LoopInvariant
  <2>4. QED
    BY <2>2, <2>3
<1>5. CASE CompareWithPivot
  <2>1. /\ pc = "partition" /\ pc' = "partition" /\ stack' = stack /\ turn' = turn
        /\ at.j < at.hi /\ Partitioning
    BY <1>5 DEF CompareWithPivot, LoopInvariant
  <2>2. at' = [at EXCEPT !.pi = at.pi + 1, !.j = at.j + 1] \/ at' = [at EXCEPT !.j = at.j + 1]
    BY <1>5 DEF CompareWithPivot
  <2>0. /\ at = [lo |-> at.lo, hi |-> at.hi, pi |-> at.pi, j |-> at.j]
        /\ at.lo \in 1 .. N /\ at.hi \in 1 .. N /\ at.pi \in 1 .. N /\ at.j \in 1 .. N
        /\ at.lo < at.hi /\ at.lo <= at.pi /\ at.pi <= at.j /\ at.j < at.hi
    BY <2>1 DEF Partitioning
  <2>3. \/ at' = [lo |-> at.lo, hi |-> at.hi, pi |-> at.pi + 1, j |-> at.j + 1]
        \/ at' = [lo |-> at.lo, hi |-> at.hi, pi |-> at.pi, j |-> at.j + 1]
    BY <2>0, <2>2
  <2>4. /\ at.pi + 1 \in 1 .. N /\ at.j + 1 \in 1 .. N /\ at.pi + 1 <= at.j + 1 /\ at.pi <= at.j + 1
        /\ at.j + 1 <= at.hi /\ at.lo <= at.pi + 1
    BY <1>1, <2>0
  <2>5. Partitioning'
    <3>1. LiesBelow(at.hi, stack)' = LiesBelow(at.hi, stack) /\ LiesBelow(at.hi, stack)
      BY <2>1, <2>3 DEF Partitioning, LiesBelow
    <3>2. QED
      BY <1>1, <2>0, <2>3, <2>4, <3>1 DEF Partitioning
  <2>6. Unsorted' = Unsorted
    BY <1>1, <2>1, <2>3 DEF Unsorted, Pending
  <2>7. QED
    BY <1>1, <2>1, <2>5, <2>6 DEF LoopInvariant
<1>6. CASE PlacePivot
  <2> DEFINE right == stack \o RightRange
             t == right \o LeftRange
  <2>1. pc = "partition" /\ pc' = "pop" /\ turn' = turn /\ Partitioning /\ stack' = t /\ Descending(stack, N)
    BY <1>6 DEF PlacePivot, LoopInvariant
  <2>2. /\ at.lo \in 1 .. N /\ at.hi \in 1 .. N /\ at.pi \in 1 .. N
        /\ at.lo <= at.pi /\ at.pi <= at.hi /\ LiesBelow(at.hi, stack)
    BY <1>1, <2>1 DEF Partitioning
  <2>3. stack \in Seq(RowRange(N))
    BY <2>1 DEF Descending
  <2>4. /\ Descending(right, N) /\ LiesBelow(at.pi, right)
        /\ \A i : Waits(right, i) => Waits(stack, i) \/ (at.pi + 1 <= i /\ i <= at.hi)
    <3>1. CASE at.pi + 1 < at.hi
      <4>1. RightRange = <<[lo |-> at.pi + 1, hi |-> at.hi]>>
        BY <3>1 DEF RightRange
      <4>2. at.pi + 1 \in 1 .. N /\ at.pi \in Int /\ at.pi < at.pi + 1
        BY <1>1, <2>2, <3>1
      <4>3. right = Pushed(stack, at.pi + 1, at.hi)
        BY <4>1 DEF Pushed
      <4> HIDE DEF right
      <4>4. QED
        BY <2>1, <2>2, <3>1, <4>2, <4>3, StackPushes
    <3>2. CASE ~(at.pi + 1 < at.hi)
      <4>1. RightRange = <<>>
        BY <3>2 DEF RightRange
      <4>2. right = stack
        BY <2>3, <4>1
      <4> HIDE DEF right
      <4>3. \A k \in 1 .. Len(stack) : stack[k].lo \in 1 .. N
        <5>1. \A k \in 1 .. Len(stack) : stack[k] \in RowRange(N)
          BY <2>3
        <5>2. QED
          BY <5>1 DEF RowRange
      <4>4. LiesBelow(at.pi, stack)
        BY <2>2, <4>3 DEF LiesBelow
      <4>5. QED
        BY <2>1, <4>2, <4>4
    <3>3. QED
      BY <3>1, <3>2
  <2>5. right \in Seq(RowRange(N))
    BY <2>4 DEF Descending
  <2> HIDE DEF right
  <2>6. /\ Descending(t, N)
        /\ \A i : Waits(t, i) => Waits(right, i) \/ (at.lo <= i /\ i <= at.pi - 1)
    <3>1. CASE at.lo + 1 < at.pi
      <4>1. LeftRange = <<[lo |-> at.lo, hi |-> at.pi - 1]>>
        BY <3>1 DEF LeftRange
      <4>2. at.pi - 1 \in 1 .. N /\ at.lo < at.pi - 1
        BY <1>1, <2>2, <3>1
      <4>3. LiesBelow(at.pi - 1, right)
        <5>1. \A k \in 1 .. Len(right) : right[k] \in RowRange(N)
          BY <2>5
        <5>2. \A k \in 1 .. Len(right) : right[k].lo \in 1 .. N
          BY <5>1 DEF RowRange
        <5>3. QED
          BY <2>2, <2>4, <5>2 DEF LiesBelow
      <4>4. t = Pushed(right, at.lo, at.pi - 1)
        BY <4>1 DEF Pushed
      <4> HIDE DEF t
      <4>5. QED
        BY <2>2, <2>4, <4>2, <4>3, <4>4, StackPushes
    <3>2. CASE ~(at.lo + 1 < at.pi)
      <4>1. LeftRange = <<>>
        BY <3>2 DEF LeftRange
      <4>2. t = right
        BY <2>5, <4>1
      <4> HIDE DEF t
      <4>3. QED
        BY <2>4, <4>2
    <3>3. QED
      BY <3>1, <3>2
  <2> HIDE DEF t
  <2>7. Unsorted' \subseteq Unsorted \ {at.pi}
    <3>1. Unsorted' = Pending(t, N)
      BY <1>1, <2>1 DEF Unsorted, Pending
    <3>2. Unsorted = Pending(stack, N) \cup (at.lo .. at.hi)
      BY <2>1 DEF Unsorted
    <3> SUFFICES ASSUME NEW i \in 1 .. N, Waits(t, i)
                 PROVE  (i \in Pending(stack, N) \/ i \in at.lo .. at.hi) /\ i # at.pi
      BY <3>1, <3>2 DEF Pending
    <3>3. \/ Waits(stack, i)
          \/ at.pi + 1 <= i /\ i <= at.hi
          \/ at.lo <= i /\ i <= at.pi - 1
      BY <2>4, <2>6
    <3>4. CASE Waits(stack, i)
      <4>1. PICK k \in 1 .. Len(stack) : In(stack[k], i)
        BY <3>4 DEF Waits
      <4>0. stack[k] \in RowRange(N)
        BY <2>3
      <4>2. at.hi < stack[k].lo /\ stack[k].lo <= i /\ stack[k].lo \in 1 .. N
        BY <2>2, <4>0, <4>1 DEF LiesBelow, In, RowRange
      <4>3. i # at.pi
        BY <2>2, <4>2
      <4>4. QED
        BY <3>4, <4>3 DEF Pending
    <3>5. CASE at.pi + 1 <= i /\ i <= at.hi
      BY <2>2, <3>5
    <3>6. CASE at.lo <= i /\ i <= at.pi - 1
      BY <2>2, <3>6
    <3>7. QED
      BY <3>3, <3>4, <3>5, <3>6
  <2>8. Cardinality(Unsorted') \in Nat /\ Cardinality(Unsorted') + 1 <= Cardinality(Unsorted)
        /\ Cardinality(Unsorted) \in Nat
    <3>1. Unsorted = Pending(stack, N) \cup (at.lo .. at.hi)
      BY <2>1 DEF Unsorted
    <3>2. at.pi \in at.lo .. at.hi /\ at.lo .. at.hi \subseteq 1 .. N
      <4> DEFINE lo == at.lo
                 hi == at.hi
                 pi == at.pi
      <4>1. lo \in 1 .. N /\ hi \in 1 .. N /\ pi \in 1 .. N /\ lo <= pi /\ pi <= hi
        BY <2>2
      <4> HIDE DEF lo, hi, pi
      <4>2. pi \in lo .. hi /\ lo .. hi \subseteq 1 .. N
        BY <1>1, <4>1
      <4>3. QED
        BY <4>2 DEF lo, hi, pi
    <3>3. IsFiniteSet(Unsorted) /\ at.pi \in Unsorted
      <4>1. IsFiniteSet(1 .. N) /\ Unsorted \subseteq 1 .. N
        BY <1>1, <3>1, <3>2, PendingIsFinite, FS_Interval
      <4>2. QED
        BY <3>1, <3>2, <4>1, FS_Subset
    <3>4. IsFiniteSet(Unsorted \ {at.pi}) /\ Cardinality(Unsorted \ {at.pi}) = Cardinality(Unsorted) - 1
      BY <3>3, FS_RemoveElement
    <3>5. IsFiniteSet(Unsorted') /\ Cardinality(Unsorted') <= Cardinality(Unsorted \ {at.pi})
      BY <2>7, <3>4, FS_Subset
    <3>6. Cardinality(Unsorted') \in Nat /\ Cardinality(Unsorted) \in Nat
      BY <3>3, <3>5, FS_CardinalityType
    <3>7. QED
      BY <3>4, <3>5, <3>6
  <2>9. turn + Cardinality(Unsorted) <= N + 1 /\ turn \in Nat
    BY <2>1 DEF LoopInvariant
  <2>10. turn + Cardinality(Unsorted') <= N
    BY <1>1, <2>8, <2>9
  <2>11. QED
    BY <1>1, <2>1, <2>6, <2>9, <2>10 DEF LoopInvariant
<1>7. CASE MarkBoundaries
  <2>1. pc = "pop" /\ pc' = "times" /\ stack' = stack /\ turn' = turn /\ turn = Turns
    BY <1>7 DEF MarkBoundaries
  <2>2. stack = <<>>
    <3> SUFFICES ASSUME stack # <<>> PROVE FALSE
      OBVIOUS
    <3>1. Unsorted = Pending(stack, N)
      BY <2>1 DEF Unsorted
    <3>2. Cardinality(Unsorted) \in Nat /\ turn + Cardinality(Unsorted) <= N /\ turn \in Nat
      BY <1>1, <2>1, <3>1, PendingIsFinite DEF LoopInvariant
    <3>3. Descending(stack, N)
      BY DEF LoopInvariant
    <3> DEFINE r == Last(stack)
    <3>4. r.lo \in 1 .. N /\ r.hi \in 1 .. N /\ r.lo < r.hi
      BY <3>3, StackPops
    <3>5. N > 1 /\ turn = 2 * N
      BY <1>1, <2>1, <3>4 DEF Turns, N
    <3>6. QED
      BY <1>1, <3>2, <3>5
  <2>3. QED
    BY <1>1, <2>1, <2>2 DEF LoopInvariant
<1>8. CASE SplitPartitions
  BY <1>1, <1>8 DEF SplitPartitions, LoopInvariant
<1>9. CASE Finish
  BY <1>1, <1>9 DEF Finish, LoopInvariant
<1>10. CASE UNCHANGED vars
  <2>1. /\ stack' = stack /\ turn' = turn /\ pc' = pc /\ at' = at
    BY <1>10 DEF vars
  <2>2. Unsorted' = Unsorted /\ (Partitioning => Partitioning')
    BY <1>1, <2>1 DEF Unsorted, Pending, Partitioning, LiesBelow
  <2>3. QED
    BY <1>1, <2>1, <2>2 DEF LoopInvariant
<1>11. QED
  BY <1>2, <1>3, <1>4, <1>5, <1>6, <1>7, <1>8, <1>9, <1>10 DEF Next

\* The stack of the quicksort never overlaps, and each turn of its loop takes a row off the
\* unsorted ones (clear_quicksort, log_merge.py:16-97).
THEOREM QuickLoop == Spec => []LoopInvariant
BY LoopStarts, LoopSteps, PTL DEF Spec

\* LoopBoundsSuffice, for any number of rows, any shuffle and any key: when the fixed
\* number of turns is over nothing waits on the stack, which never holds more than it has
\* room for (clear_quicksort, log_merge.py:16-97).
THEOREM LoopEnds == Spec => []LoopBoundsSuffice
<1>1. LoopInvariant => LoopBoundsSuffice
  <2> SUFFICES ASSUME LoopInvariant PROVE LoopBoundsSuffice
    OBVIOUS
  <2>1. Descending(stack, N)
    BY DEF LoopInvariant
  <2>2. Len(stack) <= N
    BY <2>1, StackFits
  <2>3. QED
    BY <2>2 DEF LoopBoundsSuffice, LoopInvariant, N
<1>2. QED
  BY <1>1, QuickLoop, PTL

(***************************************************************************)
(* The cipher                                                              *)
(***************************************************************************)

\* Adding a constant modulo the prime loses nothing.
LEMMA AdditionIsInjective ==
  ASSUME NEW x \in Field, NEW y \in Field, NEW k \in Nat, (x + k) % Prime = (y + k) % Prime
  PROVE  x = y
<1> DEFINE p == Prime
           r == (x + k) % p
<1>1. p \in Nat /\ p > 0 /\ x \in 0 .. p - 1 /\ y \in 0 .. p - 1
  BY PrimeAssumption DEF Field
<1> HIDE DEF p
<1>2. \A u \in Nat : \E q \in Int : u - (u % p) = p * q
  BY <1>1, Remainder
<1>3. x + k \in Nat /\ y + k \in Nat /\ (x + k) % p = (y + k) % p
  BY <1>1 DEF p
<1>4. PICK a \in Int : (x + k) - r = p * a
  BY <1>2, <1>3
<1>5. PICK b \in Int : (y + k) - r = p * b
  BY <1>2, <1>3
<1>6. r \in Int
  BY <1>1, <1>3
<1> HIDE DEF r
<1>7. x - y = p * a - p * b /\ p * a \in Int /\ p * b \in Int
  BY <1>1, <1>4, <1>5, <1>6
<1>8. x - y = p * (a - b)
  BY <1>1, <1>7
<1>9. ~(a - b >= 1)
  <2> SUFFICES ASSUME a - b >= 1 PROVE FALSE
    OBVIOUS
  <2>1. p * (a - b) >= p
    BY <1>1
  <2>2. QED
    BY <1>1, <1>8, <2>1
<1>10. ~(a - b <= -1)
  <2> SUFFICES ASSUME a - b <= -1 PROVE FALSE
    OBVIOUS
  <2>1. p * (a - b) <= -p
    BY <1>1
  <2>2. QED
    BY <1>1, <1>8, <2>1
<1>11. a = b
  BY <1>9, <1>10
<1>12. QED
  BY <1>1, <1>7, <1>11

\* A sum modulo the prime is an element of the field.
LEMMA SumInField == ASSUME NEW x \in Field, NEW k \in Nat PROVE (x + k) % Prime \in Field
<1>1. Prime \in Nat /\ Prime > 2 /\ x \in Nat
  BY PrimeAssumption DEF Field
<1>2. QED
  BY <1>1 DEF Field

\* The cipher has at least one round and no more than there are round constants.
LEMMA DegreeChosen == choose_degree.rounds \in 1 .. 73
<1>1. \A i \in 1 .. 3 : Candidates[i].rounds \in 1 .. 73
  BY DEF Candidates
<1>2. CASE ~PrimeIsFixed
  BY <1>1, <1>2 DEF choose_degree
<1>3. CASE PrimeIsFixed
  <2> DEFINE Q(i) == Permutes(Candidates[i]) /\ \A j \in 1 .. i-1 : ~Permutes(Candidates[j])
  <2>1. \E i \in 1 .. 3 : Permutes(Candidates[i])
    BY <1>3, DegreeAssumption
  <2>2. \E i \in 1 .. 3 : Q(i)
    <3> DEFINE S == {i \in 1 .. 3 : Permutes(Candidates[i])}
    <3>1. S \subseteq Nat /\ S # {}
      BY <2>1
    <3>2. PICK i \in S : \A j \in S : i <= j
      <4> HIDE DEF S
      <4>1. QED
        BY <3>1, LeastElement
    <3>3. ASSUME NEW j \in 1 .. i-1 PROVE ~Permutes(Candidates[j])
      <4>1. i \in 1 .. 3
        OBVIOUS
      <4>2. j \in 1 .. 3 /\ ~(i <= j)
        BY <4>1
      <4>3. QED
        BY <4>2, <3>2
    <3>4. QED
      BY <3>3
  <2>3. (CHOOSE i \in 1 .. 3 : Q(i)) \in 1 .. 3
    <3> HIDE DEF Q
    <3>1. QED
      BY <2>2
  <2>4. choose_degree = Candidates[CHOOSE i \in 1 .. 3 : Q(i)]
    BY <1>3 DEF choose_degree
  <2> HIDE DEF Q
  <2>5. QED
    BY <1>1, <2>3, <2>4
<1>4. QED
  BY <1>2, <1>3

\* The states of a cipher, round by round.
States(key, x) ==
  {s \in [0 .. choose_degree.rounds -> Field] :
     /\ s[0] = x
     /\ \A i \in 1 .. choose_degree.rounds : s[i] = Power[(s[i-1] + key + RoundConstants[i-1]) % Prime]
     /\ Cipher[key][x] = (s[choose_degree.rounds] + key) % Prime}

\* The cipher goes through one state per round.
LEMMA CipherRuns ==
  ASSUME NEW key \in Field, NEW x \in Field
  PROVE  States(key, x) # {}
<1> DEFINE n == choose_degree.rounds
           step(s, i) == Power[(s + key + RoundConstants[i-1]) % Prime]
           state[i \in 0 .. n] == IF i = 0 THEN x ELSE Power[(state[i-1] + key + RoundConstants[i-1]) % Prime]
           F == [z \in Nat \X Field |-> IF z[1] \in 1 .. n THEN step(z[2], z[1]) ELSE z[2]]
<1>1. n \in 1 .. 73 /\ key \in Nat
  BY DegreeChosen, PrimeAssumption DEF Field
<1>2. Cipher[key][x] = (state[n] + key) % Prime
  BY DEF Cipher
<1>3. ASSUME NEW s \in Field, NEW i \in 1 .. n PROVE step(s, i) \in Field
  <2>1. i - 1 \in 0 .. 72
    BY <1>1
  <2>2. RoundConstants[i-1] \in Nat
    BY <2>1, RoundConstantsAssumption
  <2>3. key + RoundConstants[i-1] \in Nat /\ s + key + RoundConstants[i-1] = s + (key + RoundConstants[i-1])
    BY <1>1, <2>2, PrimeAssumption DEF Field
  <2>4. (s + (key + RoundConstants[i-1])) % Prime \in Field
    BY <2>3, SumInField
  <2>5. QED
    BY <2>3, <2>4, PowerAssumption
<1> HIDE DEF n, step
<1>4. F \in [Nat \X Field -> Field]
  BY <1>3
<1>5. PICK f \in [0 .. n -> Field] : f[0] = x /\ \A k \in 1 .. n : f[k] = F[<<k,f[k-1]>>]
  <2> HIDE DEF F, state
  <2>1. n \in Nat
    BY <1>1
  <2>2. Runs(Field, F, x, n) # {}
    BY <1>4, <2>1, LoopRuns
  <2>3. QED
    BY <2>2 DEF Runs
<1>6. ASSUME NEW k \in 1 .. n PROVE k - 1 \in 0 .. n /\ f[k] = step(f[k-1], k)
  <2>1. k - 1 \in 0 .. n /\ k \in Nat /\ k # 0
    BY <1>1
  <2>2. f[k-1] \in Field
    BY <2>1
  <2>3. F[<<k,f[k-1]>>] = step(f[k-1], k)
    BY <2>1, <2>2
  <2> HIDE DEF F
  <2>4. QED
    BY <2>1, <2>3, <1>5
<1> HIDE DEF F
<1>7. ASSUME NEW k \in 0 .. n
      PROVE  f[k] = IF k = 0 THEN x ELSE Power[(f[k-1] + key + RoundConstants[k-1]) % Prime]
  <2>1. k # 0 => k \in 1 .. n
    BY <1>1
  <2>2. QED
    BY <2>1, <1>5, <1>6 DEF step
<1>8. f = [k \in 0 .. n |-> IF k = 0 THEN x ELSE Power[(f[k-1] + key + RoundConstants[k-1]) % Prime]]
  BY <1>7
<1>9. state = [k \in 0 .. n |-> IF k = 0 THEN x ELSE Power[(state[k-1] + key + RoundConstants[k-1]) % Prime]]
  BY <1>8, Zenon
<1> HIDE DEF state
<1> DEFINE P == {k \in Nat : k <= n => state[k] = f[k]}
<1>10. 0 \in P
  BY <1>1, <1>5, <1>9
<1>11. ASSUME NEW k \in Nat, k \in P PROVE k + 1 \in P
  <2> SUFFICES ASSUME k + 1 <= n PROVE state[k+1] = f[k+1]
    OBVIOUS
  <2>1. k <= n /\ k + 1 \in 1 .. n /\ k + 1 \in 0 .. n /\ k + 1 # 0 /\ (k + 1) - 1 = k
    BY <1>1
  <2>2. state[k+1] = step(state[k], k + 1) /\ f[k+1] = step(f[k], k + 1)
    BY <2>1, <1>6, <1>9 DEF step
  <2>3. QED
    BY <2>1, <2>2, <1>11
<1>12. n \in P
  <2>1. n \in Nat
    BY <1>1
  <2> HIDE DEF P, n
  <2>2. QED
    BY <2>1, <1>10, <1>11, Induction
<1>13. state[n] = f[n]
  BY <1>1, <1>12
<1>14. f \in States(key, x)
  BY <1>2, <1>5, <1>6, <1>13 DEF States, n, step
<1>15. QED
  BY <1>14

\* Under one key, different case ids have different ciphertexts.
LEMMA CipherIsInjective ==
  ASSUME NEW key \in Field, NEW x \in Field, NEW y \in Field, Cipher[key][x] = Cipher[key][y]
  PROVE  x = y
<1> DEFINE n == choose_degree.rounds
<1>1. n \in 1 .. 73 /\ key \in Nat
  BY DegreeChosen, PrimeAssumption DEF Field
<1>2. PICK s \in [0 .. n -> Field] :
        /\ s[0] = x
        /\ \A i \in 1 .. n : s[i] = Power[(s[i-1] + key + RoundConstants[i-1]) % Prime]
        /\ Cipher[key][x] = (s[n] + key) % Prime
  <2>1. States(key, x) # {}
    BY CipherRuns
  <2>2. QED
    BY <2>1 DEF States
<1>3. PICK t \in [0 .. n -> Field] :
        /\ t[0] = y
        /\ \A i \in 1 .. n : t[i] = Power[(t[i-1] + key + RoundConstants[i-1]) % Prime]
        /\ Cipher[key][y] = (t[n] + key) % Prime
  <2>1. States(key, y) # {}
    BY CipherRuns
  <2>2. QED
    BY <2>1 DEF States
<1> HIDE DEF n
<1> DEFINE P == {k \in Nat : k <= n /\ s[k] = t[k] => x = y}
<1>4. 0 \in P
  BY <1>2, <1>3
<1>5. ASSUME NEW k \in Nat, k \in P PROVE k + 1 \in P
  <2> SUFFICES ASSUME k + 1 <= n, s[k+1] = t[k+1] PROVE x = y
    OBVIOUS
  <2>1. k <= n /\ k + 1 \in 1 .. n /\ (k + 1) - 1 = k /\ k \in 0 .. 72 /\ k \in 0 .. n
    BY <1>1
  <2> DEFINE c == RoundConstants[k]
  <2>2. c \in Nat /\ s[k] \in Field /\ t[k] \in Field
    BY <2>1, RoundConstantsAssumption
  <2>3. s[k+1] = Power[(s[k] + key + c) % Prime] /\ t[k+1] = Power[(t[k] + key + c) % Prime]
    BY <2>1, <1>2, <1>3
  <2> HIDE DEF c
  <2>4. /\ s[k] + key + c = s[k] + (key + c) /\ t[k] + key + c = t[k] + (key + c) /\ key + c \in Nat
    BY <1>1, <2>2, PrimeAssumption DEF Field
  <2>5. (s[k] + (key + c)) % Prime \in Field /\ (t[k] + (key + c)) % Prime \in Field
    BY <2>2, <2>4, SumInField
  <2>6. (s[k] + (key + c)) % Prime = (t[k] + (key + c)) % Prime
    BY <2>3, <2>4, <2>5, PowerAssumption
  <2>7. s[k] = t[k]
    BY <2>2, <2>4, <2>6, AdditionIsInjective
  <2>8. QED
    BY <2>1, <2>7, <1>5
<1>6. n \in P
  <2>1. n \in Nat
    BY <1>1
  <2> HIDE DEF P
  <2>2. QED
    BY <2>1, <1>4, <1>5, Induction
<1>7. s[n] = t[n]
  <2>1. s[n] \in Field /\ t[n] \in Field /\ key \in Nat
    BY <1>1, PrimeAssumption DEF Field
  <2>2. (s[n] + key) % Prime = (t[n] + key) % Prime
    BY <1>1, <1>2, <1>3
  <2>3. QED
    BY <2>1, <2>2, AdditionIsInjective
<1>8. QED
  BY <1>1, <1>6, <1>7

(***************************************************************************)
(* Sorting by time: partitions and places                                  *)
(***************************************************************************)

\* The partitions start within the table, and one of them at its first row.
Divided == partitions \subseteq 1 .. N /\ (N > 0 => 1 \in partitions) /\ N \in Nat

\* The partition of a row starts at the last start up to the row.
LEMMA PivotStarts ==
  ASSUME Divided, NEW i \in 1 .. N
  PROVE  /\ PivotOf(i) \in partitions /\ PivotOf(i) \in 1 .. N /\ PivotOf(i) <= i
         /\ \A t \in partitions : t <= i => t <= PivotOf(i)
<1> DEFINE S == {t \in partitions : t <= i}
<1>1. N \in Nat /\ N > 0 /\ 1 \in S /\ S \subseteq 1 .. N
  <2>1. N \in Nat /\ N > 0 /\ 1 <= i
    BY DEF Divided
  <2>2. QED
    BY <2>1 DEF Divided
<1>2. PICK m \in S : \A j \in S : j <= m
  <2> HIDE DEF S
  <2>1. S # {}
    BY <1>1
  <2>2. QED
    BY <1>1, <2>1, GreatestElement
<1>3. m \in partitions /\ m <= i /\ \A t \in partitions : t <= i => t <= m
  BY <1>2
<1>4. /\ PivotOf(i) \in partitions /\ PivotOf(i) <= i
      /\ \A t \in partitions : t <= i => t <= PivotOf(i)
  BY <1>3 DEF PivotOf
<1>5. QED
  BY <1>4 DEF Divided

\* The last start up to a row is the start of its partition.
LEMMA PivotIs ==
  ASSUME Divided, NEW i \in 1 .. N, NEW s \in partitions, s <= i, \A t \in partitions : t <= i => t <= s
  PROVE  PivotOf(i) = s
<1>1. /\ PivotOf(i) \in partitions /\ PivotOf(i) \in 1 .. N /\ PivotOf(i) <= i
      /\ \A t \in partitions : t <= i => t <= PivotOf(i)
  BY PivotStarts
<1>2. s \in 1 .. N /\ PivotOf(i) <= s /\ s <= PivotOf(i)
  BY <1>1 DEF Divided
<1>3. QED
  BY <1>1, <1>2

\* A row stays in its partition.
LEMMA PlaceStays ==
  ASSUME Divided, NEW below, below \subseteq (1 .. N) \ partitions, NEW i \in 1 .. N
  PROVE  Place(below, i) \in 1 .. N /\ PivotOf(Place(below, i)) = PivotOf(i)
<1> DEFINE s == PivotOf(i)
           mine == {j \in below : PivotOf(j) = s}
<1>1. /\ N \in Nat /\ s \in partitions /\ s \in 1 .. N /\ s <= i /\ i \in 1 .. N
      /\ \A t \in partitions : t <= i => t <= s
  BY PivotStarts DEF Divided
<1>2. \A j \in mine : /\ j \in 1 .. N /\ s < j
                      /\ \A t \in partitions : t <= j => t <= s
  <2> SUFFICES ASSUME NEW j \in mine
               PROVE  /\ j \in 1 .. N /\ s < j
                      /\ \A t \in partitions : t <= j => t <= s
    OBVIOUS
  <2>1. j \in 1 .. N /\ j \notin partitions /\ PivotOf(j) = s
    OBVIOUS
  <2>2. s <= j /\ \A t \in partitions : t <= j => t <= s
    BY <2>1, PivotStarts
  <2>3. QED
    BY <1>1, <2>1, <2>2
<1>3. Place(below, i) = IF i \in below THEN s + Cardinality({j \in mine : j < i})
                        ELSE i + Cardinality({j \in mine : j > i})
  BY DEF Place
<1> DEFINE p == Place(below, i)
<1>4. \E m \in 1 .. N : /\ p \in Int /\ s <= p /\ p <= m
                        /\ \A t \in partitions : t <= m => t <= s
  <2>1. CASE i \in below
    <3> DEFINE A == {j \in mine : j < i}
    <3>1. A \subseteq s+1 .. i-1 /\ s < i
      <4>1. i \in mine
        BY <2>1
      <4>2. ASSUME NEW j \in A PROVE j \in s+1 .. i-1
        <5>1. j \in 1 .. N /\ s < j /\ j < i
          BY <1>2
        <5> HIDE DEF s
        <5>2. QED
          BY <1>1, <5>1
      <4>3. s < i
        BY <4>1, <1>2
      <4>4. QED
        BY <4>2, <4>3
    <3> HIDE DEF A, mine
    <3>2. Cardinality(A) \in Nat /\ Cardinality(A) <= i - 1 - s
      <4>1. s + 1 \in Int /\ i - 1 \in Int /\ s + 1 <= (i - 1) + 1
        BY <1>1, <3>1
      <4>2. Cardinality(A) \in Nat /\ Cardinality(A) <= (i - 1) - (s + 1) + 1
        BY <3>1, <4>1, WithinInterval
      <4>3. QED
        BY <1>1, <4>2
    <3>3. p = s + Cardinality(A)
      BY <1>3, <2>1 DEF A
    <3> HIDE DEF p, s
    <3>4. p \in Int /\ s <= p /\ p <= i
      BY <1>1, <3>2, <3>3
    <3>5. QED
      BY <1>1, <3>4
  <2>2. CASE i \notin below
    <3> DEFINE A == {j \in mine : j > i}
    <3>1. p = i + Cardinality(A)
      BY <1>3, <2>2
    <3>2. CASE A = {}
      <4> HIDE DEF A
      <4>1. p = i
        BY <1>1, <3>1, <3>2, FS_EmptySet
      <4> HIDE DEF p, s
      <4>2. QED
        BY <1>1, <4>1
    <3>3. CASE A # {}
      <4>1. A \subseteq 1 .. N
        BY <1>2
      <4>2. PICK m \in A : \A j \in A : j <= m
        <5> HIDE DEF A
        <5>1. QED
          BY <1>1, <3>3, <4>1, GreatestElement
      <4>3. m \in 1 .. N /\ i < m /\ \A t \in partitions : t <= m => t <= s
        BY <1>2
      <4>4. A \subseteq i+1 .. m
        BY <1>1, <4>1, <4>2, <4>3
      <4> HIDE DEF A
      <4>5. Cardinality(A) \in Nat /\ Cardinality(A) <= m - i
        <5>1. i + 1 \in Int /\ m \in Int /\ i + 1 <= m + 1
          BY <1>1, <4>3
        <5>2. Cardinality(A) \in Nat /\ Cardinality(A) <= m - (i + 1) + 1
          BY <5>1, <4>4, WithinInterval
        <5>3. QED
          BY <1>1, <4>3, <5>2
      <4> HIDE DEF p, s
      <4>6. p \in Int /\ s <= p /\ p <= m
        BY <1>1, <3>1, <4>3, <4>5
      <4>7. QED
        BY <4>3, <4>6
    <3>4. QED
      BY <3>2, <3>3
  <2>3. QED
    BY <2>1, <2>2
<1> HIDE DEF p, s, mine
<1>5. PICK m \in 1 .. N : p \in Int /\ s <= p /\ p <= m /\ \A t \in partitions : t <= m => t <= s
  BY <1>4
<1>6. p \in 1 .. N
  BY <1>1, <1>5
<1>7. ASSUME NEW t \in partitions, t <= p PROVE t <= s
  <2>1. t \in 1 .. N
    BY DEF Divided
  <2>2. QED
    BY <1>5, <1>6, <1>7, <2>1
<1>8. PivotOf(p) = s
  BY <1>1, <1>5, <1>6, <1>7, PivotIs
<1>9. QED
  BY <1>6, <1>8 DEF p, s

\* The rows below the pivot of a row, and the place behind them.
Mine(below, i) == {j \in below : PivotOf(j) = PivotOf(i)}
Behind(below, i) == PivotOf(i) + Cardinality(Mine(below, i))

\* The rows below a pivot come to the places before its new one, the others not.
LEMMA BelowComeFirst ==
  ASSUME Divided, NEW below, below \subseteq (1 .. N) \ partitions, NEW i \in 1 .. N
  PROVE  /\ PivotOf(i) \in 1 .. N /\ Cardinality(Mine(below, i)) \in Nat /\ Place(below, i) \in Int
         /\ i \in below => Place(below, i) < Behind(below, i)
         /\ i \notin below => Behind(below, i) <= Place(below, i)
         /\ Cardinality(Mine(below, i)) = 0 => Place(below, i) = i
<1> DEFINE s == PivotOf(i)
           b == Cardinality(Mine(below, i))
           mine == {j \in below : PivotOf(j) = s}
           B == {j \in mine : j < i}
           A == {j \in mine : j > i}
<1>1. N \in Nat /\ s \in 1 .. N /\ s <= i
  BY PivotStarts DEF Divided
<1>2. mine \subseteq s + 1 .. N
  <2> SUFFICES ASSUME NEW j \in mine PROVE j \in s + 1 .. N
    OBVIOUS
  <2>1. j \in 1 .. N /\ j \notin partitions /\ PivotOf(j) = s
    OBVIOUS
  <2>2. s <= j /\ s \in partitions
    BY <2>1, PivotStarts
  <2>3. QED
    BY <1>1, <2>1, <2>2
<1>3. Place(below, i) = IF i \in below THEN s + Cardinality(B) ELSE i + Cardinality(A)
  BY DEF Place
<1>4. b = Cardinality(mine) /\ (i \in below <=> i \in mine) /\ Behind(below, i) = s + b
  BY DEF Mine, Behind
<1> HIDE DEF mine, b, s
<1>5. \A j \in mine : j \in Int /\ s + 1 <= j /\ j <= N
  BY <1>1, <1>2
<1>6. IsFiniteSet(mine) /\ b \in Nat
  <2>1. s + 1 \in Int /\ N \in Int
    BY <1>1
  <2>2. QED
    BY <1>2, <1>4, <2>1, WithinInterval
<1>7. B \subseteq s + 1 .. i - 1 /\ B \subseteq mine /\ A \subseteq mine
  BY <1>1, <1>5
<1> HIDE DEF A, B
<1>8. /\ IsFiniteSet(B) /\ Cardinality(B) \in Nat
      /\ IsFiniteSet(A) /\ Cardinality(A) \in Nat
      /\ Cardinality(A) <= b
  BY <1>4, <1>6, <1>7, FS_Subset, FS_CardinalityType
<1>9. Cardinality(B) <= i - s
  <2>1. CASE s = i
    <3>1. B = {}
      BY <1>1, <1>7, <2>1
    <3>2. QED
      BY <1>1, <2>1, <3>1, FS_EmptySet
  <2>2. CASE s < i
    <3>1. s + 1 \in Int /\ i - 1 \in Int /\ s + 1 <= (i - 1) + 1
      BY <1>1, <2>2
    <3>2. Cardinality(B) <= (i - 1) - (s + 1) + 1
      BY <1>7, <3>1, WithinInterval
    <3>3. QED
      BY <1>1, <1>8, <3>2
  <2>3. QED
    BY <1>1, <2>1, <2>2
<1>10. ASSUME i \in below PROVE Cardinality(B) < b
  <2>1. i \in mine /\ i \notin B
    BY <1>1, <1>4, <1>10 DEF B
  <2>2. B # mine
    BY <2>1
  <2>3. Cardinality(B) <= Cardinality(mine) /\ Cardinality(B) # Cardinality(mine)
    BY <1>6, <1>7, <2>2, FS_Subset
  <2>4. QED
    BY <1>4, <1>6, <1>8, <2>3
<1>11. ASSUME i \notin below PROVE b <= Cardinality(B) + Cardinality(A)
  <2>1. mine = B \cup A
    BY <1>1, <1>4, <1>5, <1>11 DEF A, B
  <2>2. /\ Cardinality(B \cup A) = Cardinality(B) + Cardinality(A) - Cardinality(B \cap A)
        /\ Cardinality(B \cap A) \in Nat
    <3>1. B \cap A \subseteq B
      OBVIOUS
    <3>2. QED
      BY <1>8, <3>1, FS_Union, FS_Subset, FS_CardinalityType
  <2>3. QED
    BY <1>4, <1>8, <2>1, <2>2
<1>12. /\ s \in 1 .. N /\ b \in Nat /\ Place(below, i) \in Int
       /\ i \in below => Place(below, i) < s + b
       /\ i \notin below => s + b <= Place(below, i)
       /\ b = 0 => Place(below, i) = i
  BY <1>1, <1>3, <1>6, <1>8, <1>9, <1>10, <1>11
<1>13. QED
  BY <1>4, <1>12 DEF s, b

\* No two rows come to the same place.
LEMMA PlacesDiffer ==
  ASSUME Divided, NEW below, below \subseteq (1 .. N) \ partitions,
         NEW i \in 1 .. N, NEW l \in 1 .. N, i < l
  PROVE  Place(below, i) # Place(below, l)
<1>1. CASE PivotOf(i) # PivotOf(l)
  BY <1>1, PlaceStays
<1>2. CASE PivotOf(i) = PivotOf(l)
  <2> DEFINE s == PivotOf(i)
             mine == {j \in below : PivotOf(j) = s}
             Before(x) == {j \in mine : j < x}
             After(x) == {j \in mine : j > x}
  <2>1. N \in Nat /\ s \in 1 .. N /\ s <= i /\ s <= l
    BY <1>2, PivotStarts DEF Divided
  <2>2. mine \subseteq s + 1 .. N
    <3> SUFFICES ASSUME NEW j \in mine PROVE j \in s + 1 .. N
      OBVIOUS
    <3>1. j \in 1 .. N /\ j \notin partitions /\ PivotOf(j) = s
      OBVIOUS
    <3>2. s <= j /\ s \in partitions
      BY <3>1, PivotStarts
    <3>3. QED
      BY <2>1, <3>1, <3>2
  <2>3. \A x \in {i, l} : Place(below, x) = IF x \in below THEN s + Cardinality(Before(x))
                                            ELSE x + Cardinality(After(x))
    BY <1>2 DEF Place
  <2>4. \A x \in {i, l} : x \in below <=> x \in mine
    BY <1>2
  <2> HIDE DEF mine
  <2>5. ASSUME NEW x \in {i, l}
        PROVE  /\ Before(x) \subseteq s + 1 .. x - 1 /\ After(x) \subseteq x + 1 .. N
               /\ x \in Int /\ s <= x /\ s \in Int /\ N \in Int
    <3>1. x \in Int /\ s \in Int /\ N \in Int /\ s <= x
      BY <2>1
    <3>2. \A j \in mine : j \in Int /\ s + 1 <= j /\ j <= N
      BY <2>2, <3>1
    <3>3. \A j \in mine : (j < x => j \in s + 1 .. x - 1) /\ (j > x => j \in x + 1 .. N)
      BY <3>1, <3>2
    <3>4. QED
      BY <3>1, <3>3
  <2>6. ASSUME NEW x \in {i, l}
        PROVE  /\ IsFiniteSet(Before(x)) /\ Cardinality(Before(x)) \in Nat
               /\ IsFiniteSet(After(x)) /\ Cardinality(After(x)) \in Nat
    <3>1. Before(x) \subseteq s + 1 .. x - 1 /\ After(x) \subseteq x + 1 .. N /\ s <= x
          /\ x \in Int /\ x - 1 \in Int /\ x + 1 \in Int /\ s + 1 \in Int /\ N \in Int
      BY <2>5
    <3> DEFINE B == Before(x)
               A == After(x)
    <3> HIDE DEF A, B
    <3>2. B \subseteq s + 1 .. x - 1 /\ A \subseteq x + 1 .. N
      BY <3>1 DEF A, B
    <3>3. IsFiniteSet(B) /\ Cardinality(B) \in Nat
      BY <3>1, <3>2, WithinInterval
    <3>4. IsFiniteSet(A) /\ Cardinality(A) \in Nat
      BY <3>1, <3>2, WithinInterval
    <3>5. QED
      BY <3>3, <3>4 DEF A, B
  <2>7. mine \subseteq 1 .. N /\ IsFiniteSet(mine) /\ Cardinality(mine) \in Nat
    <3>1. s + 1 \in Int /\ N \in Int
      BY <2>1
    <3>2. IsFiniteSet(mine) /\ Cardinality(mine) \in Nat
      BY <2>2, <3>1, WithinInterval
    <3>3. QED
      BY <2>1, <2>2, <3>2
  <2>8. CASE i \in below /\ l \in below
    <3> DEFINE B == Before(i)
               C == Before(l)
    <3>1. B \subseteq C /\ i \in C /\ i \notin B
      <4>1. i \in Int /\ l \in Int /\ i \in mine /\ \A j \in mine : j \in Int
        BY <2>1, <2>4, <2>7, <2>8
      <4>2. (\A j \in mine : j < i => j < l) /\ ~(i < i) /\ i < l
        BY <4>1
      <4>3. QED
        BY <4>1, <4>2
    <3>2. Cardinality(B) \in Nat /\ IsFiniteSet(C) /\ Cardinality(C) \in Nat
      BY <2>6
    <3> HIDE DEF B, C
    <3>3. Cardinality(B) # Cardinality(C)
      BY <3>1, <3>2, FS_Subset
    <3>4. Place(below, i) = s + Cardinality(B) /\ Place(below, l) = s + Cardinality(C)
      BY <2>3, <2>8 DEF B, C
    <3>5. QED
      BY <2>1, <3>2, <3>3, <3>4
  <2>9. CASE i \notin below /\ l \notin below
    <3> DEFINE A == After(i)
               C == After(l)
               D == i + 1 .. l - 1
    <3>1. A \subseteq C \cup D
      <4> SUFFICES ASSUME NEW j \in A, j \notin C PROVE j \in D
        OBVIOUS
      <4>1. j \in mine /\ j > i /\ ~(j > l) /\ j # l /\ j \in 1 .. N
        BY <2>4, <2>7, <2>9
      <4>2. QED
        BY <2>1, <4>1
    <3>2. Cardinality(A) \in Nat /\ IsFiniteSet(C) /\ Cardinality(C) \in Nat
      BY <2>6
    <3>3. IsFiniteSet(D) /\ Cardinality(D) \in Nat /\ Cardinality(D) <= l - 1 - i
      <4>1. i + 1 \in Int /\ l - 1 \in Int /\ i + 1 <= (l - 1) + 1
        BY <2>1
      <4>2. IsFiniteSet(D) /\ Cardinality(D) \in Nat /\ Cardinality(D) <= (l - 1) - (i + 1) + 1
        BY <4>1, WithinInterval
      <4> HIDE DEF D
      <4>3. QED
        BY <2>1, <4>2
    <3> HIDE DEF A, C, D
    <3>4. /\ IsFiniteSet(C \cup D) /\ IsFiniteSet(C \cap D)
          /\ Cardinality(C \cup D) = Cardinality(C) + Cardinality(D) - Cardinality(C \cap D)
      <4>1. IsFiniteSet(C \cup D) /\ Cardinality(C \cup D) = Cardinality(C) + Cardinality(D) - Cardinality(C \cap D)
        BY <3>2, <3>3, FS_Union
      <4>2. C \cap D \subseteq C
        OBVIOUS
      <4>3. QED
        BY <3>2, <4>1, <4>2, FS_Subset
    <3>5. Cardinality(C \cap D) \in Nat
      BY <3>4, FS_CardinalityType
    <3>6. Cardinality(A) <= Cardinality(C \cup D)
      BY <3>1, <3>4, FS_Subset
    <3>7. Place(below, i) = i + Cardinality(A) /\ Place(below, l) = l + Cardinality(C)
      BY <2>3, <2>9 DEF A, C
    <3>8. i \in Int /\ l \in Int
      BY <2>1
    <3>9. i + Cardinality(A) < l + Cardinality(C)
      BY <3>2, <3>3, <3>4, <3>5, <3>6, <3>8
    <3>10. QED
      BY <3>2, <3>7, <3>8, <3>9
  <2>10. ASSUME NEW x \in {i, l}, NEW y \in {i, l}, x \in below, y \notin below
         PROVE  Place(below, x) # Place(below, y)
    <3>1. x \in 1 .. N /\ y \in 1 .. N /\ Behind(below, x) = Behind(below, y)
      BY <1>2 DEF Behind, Mine
    <3>2. /\ Place(below, x) < Behind(below, x) /\ Place(below, x) \in Int
          /\ PivotOf(x) \in 1 .. N /\ Cardinality(Mine(below, x)) \in Nat
      BY <2>10, <3>1, BelowComeFirst
    <3>3. Behind(below, y) <= Place(below, y) /\ Place(below, y) \in Int
      BY <2>10, <3>1, BelowComeFirst
    <3>4. Behind(below, x) \in Int
      BY <2>1, <3>2 DEF Behind
    <3>5. QED
      BY <3>1, <3>2, <3>3, <3>4
  <2>11. QED
    <3> HIDE DEF Before, After, s
    <3>1. QED
      BY <2>8, <2>9, <2>10
<1>3. QED
  BY <1>1, <1>2

(***************************************************************************)
(* Sorting by time: every round splits a partition                         *)
(***************************************************************************)

\* Every round splits a partition.
LEMMA NextPartitions ==
  ASSUME Divided, NEW i \in (1 .. N) \ partitions
  PROVE  /\ partitions \subseteq NewPartitions /\ NewPartitions \subseteq 1 .. N
         /\ NewPartitions # partitions
<1> DEFINE s == PivotOf(i)
<1>1. N \in Nat /\ i \in 1 .. N /\ \A t \in partitions : t \in 1 .. N
  BY DEF Divided
<1>2. s \in partitions /\ s \in 1 .. N /\ s <= i /\ \A t \in partitions : t <= i => t <= s
  BY <1>1, PivotStarts
<1>3. s < i /\ s + 1 \in 1 .. N /\ s + 1 <= i /\ ~(s + 1 <= s) /\ s < N
  BY <1>1, <1>2
<1>4. ASSUME NEW t \in partitions
      PROVE  /\ Cardinality(Below(t)) \in Nat /\ t + Cardinality(Below(t)) \in 1 .. N
             /\ Below(t) # {} => t + Cardinality(Below(t)) \notin partitions
  <2> DEFINE B == Below(t)
  <2>1. \A j \in B : j \in 1 .. N /\ j \notin partitions /\ PivotOf(j) = t
    BY DEF Below, BelowPivot, Compared, Rows, N
  <2>2. \A j \in B : t < j /\ \A u \in partitions : u <= j => u <= t
    <3> SUFFICES ASSUME NEW j \in B PROVE t < j /\ \A u \in partitions : u <= j => u <= t
      OBVIOUS
    <3>1. j \in 1 .. N /\ j \notin partitions /\ PivotOf(j) = t
      BY <2>1
    <3>2. t <= j /\ \A u \in partitions : u <= j => u <= t
      BY <3>1, PivotStarts
    <3>3. j # t
      BY <3>1
    <3>4. QED
      BY <1>1, <3>1, <3>2, <3>3
  <2> HIDE DEF B
  <2>3. CASE B = {}
    BY <1>1, <2>3, FS_EmptySet DEF B
  <2>4. CASE B # {}
    <3>1. B \subseteq 1 .. N
      BY <2>1
    <3>2. PICK m \in B : \A j \in B : j <= m
      BY <1>1, <2>4, <3>1, GreatestElement
    <3>3. m \in 1 .. N /\ t < m /\ t \in 1 .. N /\ \A u \in partitions : u <= m => u <= t
      BY <1>1, <2>1, <2>2, <3>2
    <3>4. \A j \in B : j \in t + 1 .. m
      BY <1>1, <2>1, <2>2, <3>2, <3>3
    <3>5. Cardinality(B) \in Nat /\ Cardinality(B) <= m - t /\ IsFiniteSet(B)
      <4>1. t + 1 \in Int /\ m \in Int /\ t + 1 <= m + 1 /\ B \subseteq t + 1 .. m
        BY <3>3, <3>4
      <4>2. Cardinality(B) \in Nat /\ Cardinality(B) <= m - (t + 1) + 1 /\ IsFiniteSet(B)
        BY <4>1, WithinInterval
      <4>3. QED
        BY <3>3, <4>2
    <3>6. Cardinality(B) # 0
      BY <2>4, <3>5, FS_EmptySet
    <3> DEFINE x == t + Cardinality(B)
    <3>7. x \in 1 .. N /\ t < x /\ x <= m
      BY <1>1, <3>3, <3>5, <3>6
    <3>8. x \notin partitions
      BY <3>3, <3>7
    <3>9. QED
      BY <3>5, <3>7, <3>8 DEF B
  <2>5. QED
    BY <2>3, <2>4
<1>5. NewPartitions \subseteq 1 .. N
  <2>1. \A t \in partitions : t < Len(events) => t + 1 \in 1 .. N
    BY <1>1 DEF N
  <2>2. QED
    BY <1>1, <1>4, <2>1 DEF NewPartitions
<1>6. partitions \subseteq NewPartitions
  BY DEF NewPartitions
<1>7. NewPartitions # partitions
  <2>1. CASE Below(s) = {}
    <3>1. s + 1 \in NewPartitions
      BY <1>2, <1>3, <2>1 DEF NewPartitions, N
    <3>2. s + 1 \notin partitions
      BY <1>2, <1>3
    <3>3. QED
      BY <3>1, <3>2
  <2>2. CASE Below(s) # {}
    <3>1. s + Cardinality(Below(s)) \in NewPartitions
      BY <1>2 DEF NewPartitions
    <3>2. QED
      BY <1>2, <1>4, <2>2, <3>1
  <2>3. QED
    BY <2>1, <2>2
<1>8. QED
  BY <1>5, <1>6, <1>7

\* As long as there are fewer partitions than rows, some row starts none.
LEMMA RowIsLeft ==
  ASSUME Divided, Cardinality(partitions) < N
  PROVE  \E i : i \in (1 .. N) \ partitions
<1> SUFFICES ASSUME 1 .. N \subseteq partitions PROVE FALSE
  OBVIOUS
<1>1. partitions = 1 .. N /\ N \in Nat
  BY DEF Divided
<1>2. Cardinality(1 .. N) = N
  BY <1>1, FS_Interval
<1>3. QED
  BY <1>1, <1>2

\* The partitions lie within the table, and its first row starts one.
PartitionInvariant ==
  /\ events \in EventTables
  /\ pc \in {"times", "done"} => Divided

\* Marking the boundaries and every round that splits partitions keep them in the table.
LEMMA PartitionSteps == PartitionInvariant /\ [Next]_vars => PartitionInvariant'
<1> SUFFICES ASSUME PartitionInvariant, [Next]_vars PROVE PartitionInvariant'
  OBVIOUS
<1>1. /\ events' = events /\ events' \in EventTables /\ N' = N /\ N \in Nat
  <2>1. events' = events
    BY DEF Next, vars, Shuffle, Encrypt, PopRange, CompareWithPivot, PlacePivot, MarkBoundaries, SplitPartitions, Finish
  <2>2. QED
    BY <2>1 DEF PartitionInvariant, N, EventTables
<1>2. CASE Shuffle \/ Encrypt \/ PopRange \/ CompareWithPivot \/ PlacePivot
  <2>1. pc' \in {"encrypt", "pop", "partition"}
    BY <1>2 DEF Shuffle, Encrypt, PopRange, CompareWithPivot, PlacePivot
  <2>2. QED
    BY <1>1, <2>1 DEF PartitionInvariant
<1>3. CASE MarkBoundaries
  <2>1. partitions' = {i \in 1 .. N : i = 1 \/ keys[i] # keys[i-1]}
    BY <1>3 DEF MarkBoundaries, Rows, N
  <2>2. Divided'
    BY <1>1, <2>1 DEF Divided
  <2>3. QED
    BY <1>1, <2>2 DEF PartitionInvariant
<1>4. CASE SplitPartitions
  <2>1. pc = "times" /\ Cardinality(partitions) < N /\ partitions' = NewPartitions
    BY <1>4 DEF SplitPartitions, N
  <2>2. Divided
    BY <2>1 DEF PartitionInvariant
  <2>3. PICK i : i \in (1 .. N) \ partitions
    BY <2>1, <2>2, RowIsLeft
  <2>4. partitions \subseteq NewPartitions /\ NewPartitions \subseteq 1 .. N
    BY <2>2, <2>3, NextPartitions
  <2>5. Divided'
    BY <1>1, <2>1, <2>2, <2>4 DEF Divided
  <2>6. QED
    BY <1>1, <2>5 DEF PartitionInvariant
<1>5. CASE Finish
  <2>1. pc = "times" /\ partitions' = partitions
    BY <1>5 DEF Finish
  <2>2. QED
    BY <1>1, <2>1 DEF PartitionInvariant, Divided
<1>6. CASE UNCHANGED vars
  BY <1>1, <1>6 DEF PartitionInvariant, Divided, vars
<1>7. QED
  BY <1>2, <1>3, <1>4, <1>5, <1>6 DEF Next

\* The partitions of the sort by time lie within the table and cover it.
THEOREM PartitionsInTable == Spec => []PartitionInvariant
<1>1. InitWith(EventTables) => PartitionInvariant
  BY DEF InitWith, PartitionInvariant
<1>2. QED
  BY <1>1, PartitionSteps, PTL DEF Spec

\* EveryRoundSplits, for any table: a round of the sort by time that has work left splits a
\* partition, so that the rounds come to an end.
THEOREM RoundsSplit == Spec => EveryRoundSplits
<1>1. PartitionInvariant /\ [Next]_vars => [pc = "times" /\ pc' = "times" => SplitsFurther]_vars
  <2> SUFFICES ASSUME PartitionInvariant, [Next]_vars, pc = "times", pc' = "times",
                      vars' # vars
               PROVE  SplitsFurther
    OBVIOUS
  <2>1. SplitPartitions
    BY DEF Next, Shuffle, Encrypt, PopRange, CompareWithPivot, PlacePivot, MarkBoundaries, Finish
  <2>2. Divided /\ Cardinality(partitions) < N /\ partitions' = NewPartitions
    BY <2>1 DEF PartitionInvariant, SplitPartitions, N
  <2>3. PICK i : i \in (1 .. N) \ partitions
    BY <2>2, RowIsLeft
  <2>4. partitions \subseteq NewPartitions /\ NewPartitions # partitions
    BY <2>2, <2>3, NextPartitions
  <2>5. QED
    BY <2>2, <2>4 DEF SplitsFurther
<1>2. QED
  BY <1>1, PartitionsInTable, PTL DEF Spec, EveryRoundSplits

(***************************************************************************)
(* The merge by quicksort: rows and keys                                   *)
(***************************************************************************)

\* The ways in which a table holds the rows of another.
Rearrangements(s, t, n) == {f \in [1 .. n -> 1 .. n] : Rearranges(f, n) /\ \A i \in 1 .. n : s[i] = t[f[i]]}

\* A rearrangement of a rearrangement is one.
LEMMA Composed ==
  ASSUME NEW n \in Nat, NEW s, NEW t, NEW u, Rearrangements(s, t, n) # {}, Rearrangements(t, u, n) # {}
  PROVE  Rearrangements(s, u, n) # {}
<1>1. PICK f \in [1 .. n -> 1 .. n] : Rearranges(f, n) /\ \A i \in 1 .. n : s[i] = t[f[i]]
  BY DEF Rearrangements
<1>2. PICK g \in [1 .. n -> 1 .. n] : Rearranges(g, n) /\ \A i \in 1 .. n : t[i] = u[g[i]]
  BY DEF Rearrangements
<1> DEFINE h == [i \in 1 .. n |-> g[f[i]]]
<1>3. h \in [1 .. n -> 1 .. n] /\ \A i \in 1 .. n : s[i] = u[h[i]]
  BY <1>1, <1>2
<1>4. ASSUME NEW p \in 1 .. n, NEW q \in 1 .. n, p < q PROVE h[p] # h[q]
  <2>1. f[p] # f[q] /\ f[p] \in 1 .. n /\ f[q] \in 1 .. n
    BY <1>1, <1>4 DEF Rearranges
  <2>2. f[p] < f[q] \/ f[q] < f[p]
    BY <2>1
  <2>3. g[f[p]] # g[f[q]]
    BY <1>2, <2>1, <2>2 DEF Rearranges
  <2>4. QED
    BY <2>3
<1> HIDE DEF h
<1>5. Rearranges(h, n)
  BY <1>3, <1>4, InjectionRearranges
<1>6. QED
  BY <1>3, <1>5 DEF Rearrangements

\* The positions with a and b swapped.
Swap(a, b, i) == IF i = a THEN b ELSE IF i = b THEN a ELSE i

\* t is s with two rows swapped.
Exchanged(t, s, S, n, a, b) ==
  /\ t \in [1 .. n -> S]
  /\ \A i \in 1 .. n : Swap(a, b, i) \in 1 .. n /\ t[i] = s[Swap(a, b, i)]
  /\ Rearrangements(t, s, n) # {}

\* Swapping two values rearranges them.
LEMMA SwappedValues ==
  ASSUME NEW n \in Nat, NEW S, NEW s \in [1 .. n -> S], NEW a \in 1 .. n, NEW b \in 1 .. n
  PROVE  Exchanged(Swapped(s, a, b), s, S, n, a, b)
<1> DEFINE t == Swapped(s, a, b)
           f == [i \in 1 .. n |-> Swap(a, b, i)]
<1>1. s[a] \in S /\ s[b] \in S
  OBVIOUS
<1>2. t \in [1 .. n -> S] /\ \A i \in 1 .. n : t[i] = IF i = b THEN s[a] ELSE IF i = a THEN s[b] ELSE s[i]
  BY <1>1 DEF Swapped
<1>3. \A i \in 1 .. n : Swap(a, b, i) \in 1 .. n /\ t[i] = s[Swap(a, b, i)]
  <2> HIDE DEF t
  <2>1. QED
    BY <1>2 DEF Swap
<1>4. f \in [1 .. n -> 1 .. n] /\ \A i \in 1 .. n : t[i] = s[f[i]]
  <2> HIDE DEF t
  <2>1. QED
    BY <1>3
<1>5. \A p, q \in 1 .. n : p < q => f[p] # f[q]
  BY DEF Swap
<1> HIDE DEF f, t
<1>6. Rearranges(f, n)
  BY <1>4, <1>5, InjectionRearranges
<1>7. QED
  BY <1>2, <1>3, <1>4, <1>6 DEF Rearrangements, Exchanged, t

\* A row of the event table.
(***************************************************************************)
(* The invariant                                                           *)
(***************************************************************************)
EventRow == [case : Field, act : Nat, time : Nat]

\* The opened keys are the ciphertexts of the case ids.
Encipherings == {key \in Field : \A i \in 1 .. N : keys[i] = Cipher[key][events_copy[i].case]}

\* Row i is in the range being partitioned.
AtHand(i) == pc = "partition" /\ In(at, i)

\* Rows are in the order of their keys, but for those of a range that waits or is being
\* partitioned.
SortedOutside ==
  \A i, l \in 1 .. N : i < l => keys[i] <= keys[l] \/ WaitTogether(stack, i, l) \/ (AtHand(i) /\ AtHand(l))

\* What the comparisons so far have put to the two sides of the pivot.
Sides ==
  /\ \A i \in 1 .. N : at.lo <= i /\ i < at.pi => keys[i] <= keys[at.hi]
  /\ \A i \in 1 .. N : at.pi <= i /\ i < at.j => keys[i] > keys[at.hi]

\* The rows are those of the log with their keys, sorted outside of what is left to sort;
\* after the loop all are sorted, and every start of a case starts a partition.
SortInvariant ==
  /\ events_copy \in [1 .. N -> EventRow]
  /\ Rearrangements(events_copy, events, N) # {}
  /\ pc \in {"pop", "partition", "times", "done"} =>
       keys \in [1 .. N -> Field] /\ Encipherings # {}
  /\ pc \in {"pop", "partition"} => SortedOutside
  /\ pc = "partition" => Sides
  /\ pc \in {"times", "done"} =>
       /\ \A i, l \in 1 .. N : i < l => keys[i] <= keys[l]
       /\ is_new_case = {i \in 1 .. N : i = 1 \/ keys[i] # keys[i-1]}
       /\ is_new_case \subseteq partitions
       /\ Divided

\* Ciphertexts are elements of the field.
LEMMA CipherInField == ASSUME NEW key \in Field, NEW x \in Field PROVE Cipher[key][x] \in Field
<1> DEFINE n == choose_degree.rounds
<1>1. PICK s \in [0 .. n -> Field] : Cipher[key][x] = (s[n] + key) % Prime
  <2>1. States(key, x) # {}
    BY CipherRuns
  <2>2. QED
    BY <2>1 DEF States
<1>2. n \in 0 .. n /\ key \in Nat
  <2>1. n \in 1 .. 73 /\ key \in Nat
    BY DegreeChosen, PrimeAssumption DEF Field
  <2> HIDE DEF n
  <2>2. QED
    BY <2>1
<1> HIDE DEF n
<1>3. s[n] \in Field
  BY <1>2
<1>4. QED
  BY <1>1, <1>2, <1>3, SumInField

\* Rows of equal keys are rows of one case.
LEMMA KeysTellCases ==
  ASSUME NEW key \in Encipherings, events_copy \in [1 .. N -> EventRow], NEW i \in 1 .. N, NEW l \in 1 .. N
  PROVE  keys[i] = keys[l] <=> events_copy[i].case = events_copy[l].case
<1>1. /\ keys[i] = Cipher[key][events_copy[i].case] /\ keys[l] = Cipher[key][events_copy[l].case]
      /\ key \in Field
  BY DEF Encipherings
<1>2. events_copy[i].case \in Field /\ events_copy[l].case \in Field
  BY DEF EventRow
<1>3. QED
  BY <1>1, <1>2, CipherIsInjective

\* Swapping rows of the range at hand keeps the order outside of it.
LEMMA SwapsAtHand ==
  ASSUME N \in Nat, keys \in [1 .. N -> Field], pc = "partition", Partitioning, SortedOutside,
         Descending(stack, N), NEW a \in 1 .. N, NEW b \in 1 .. N, In(at, a), In(at, b),
         NEW i \in 1 .. N, NEW l \in 1 .. N, i < l
  PROVE  \/ Swapped(keys, a, b)[i] <= Swapped(keys, a, b)[l]
         \/ WaitTogether(stack, i, l) \/ (In(at, i) /\ In(at, l))
<1> DEFINE s == Swapped(keys, a, b)
           x == Swap(a, b, i)
           y == Swap(a, b, l)
<1>1. s[i] = keys[x] /\ s[l] = keys[y] /\ x \in 1 .. N /\ y \in 1 .. N
  <2>1. \A j \in 1 .. N : Swap(a, b, j) \in 1 .. N /\ Swapped(keys, a, b)[j] = keys[Swap(a, b, j)]
    <3>1. Exchanged(Swapped(keys, a, b), keys, Field, N, a, b)
      BY SwappedValues
    <3>2. QED
      BY <3>1 DEF Exchanged
  <2>2. QED
    BY <2>1
<1>2. /\ at.lo \in 1 .. N /\ at.hi \in 1 .. N /\ at.lo <= a /\ a <= at.hi /\ at.lo <= b /\ b <= at.hi
      /\ LiesBelow(at.hi, stack)
  BY DEF Partitioning, In
<1>3. (In(at, i) <=> In(at, x)) /\ (In(at, l) <=> In(at, y)) /\ (~In(at, i) => x = i) /\ (~In(at, l) => y = l)
  BY <1>2 DEF Swap, In
<1> HIDE DEF s, x, y
<1>4. CASE In(at, i) /\ In(at, l)
  BY <1>4
<1>5. CASE ~(In(at, i) /\ In(at, l))
  <2>1. x < y
    BY <1>1, <1>2, <1>3, <1>5 DEF In
  <2>2. keys[x] <= keys[y] \/ WaitTogether(stack, x, y)
    BY <1>1, <1>3, <1>5, <2>1 DEF SortedOutside, AtHand
  <2>3. CASE WaitTogether(stack, x, y)
    <3>1. PICK k \in 1 .. Len(stack) : In(stack[k], x) /\ In(stack[k], y)
      BY <2>3 DEF WaitTogether
    <3>2. at.hi < stack[k].lo /\ stack[k].lo <= x /\ stack[k].lo <= y
      BY <1>2, <3>1 DEF LiesBelow, In
    <3>3. stack[k].lo \in 1 .. N
      <4>1. stack[k] \in RowRange(N)
        BY <3>1 DEF Descending
      <4>2. QED
        BY <4>1 DEF RowRange
    <3>4. ~In(at, x) /\ ~In(at, y)
      BY <1>1, <1>2, <3>2, <3>3 DEF In
    <3>5. QED
      BY <1>3, <2>3, <3>4 DEF s
  <2>4. QED
    BY <1>1, <2>2, <2>3 DEF s
<1>6. QED
  BY <1>4, <1>5 DEF s

(***************************************************************************)
(* The merge by quicksort: its actions keep the order                      *)
(***************************************************************************)

\* The sort starts with the whole table at hand.
LEMMA SortEncrypts ==
  ASSUME LoopInvariant, SortInvariant, Encrypt
  PROVE  SortInvariant'
<1>1. N \in Nat /\ N' = N /\ events' = events /\ events_copy' = events_copy /\ pc' = "pop"
  BY DEF LoopInvariant, EventTables, N, Encrypt
<1>2. events_copy' \in [1 .. N' -> EventRow] /\ Rearrangements(events_copy, events, N)' # {}
  BY <1>1 DEF SortInvariant, Rearrangements
<1>3. PICK key \in Field : keys' = [i \in 1 .. N |-> Cipher[key][events_copy[i].case]]
  BY DEF Encrypt, Rows, N
<1>4. keys' \in [1 .. N -> Field]
  <2>1. \A i \in 1 .. N : events_copy[i].case \in Field
    BY DEF SortInvariant, EventRow
  <2>2. \A i \in 1 .. N : Cipher[key][events_copy[i].case] \in Field
    BY <2>1, CipherInField
  <2>3. QED
    BY <1>3, <2>2
<1>5. key \in Encipherings'
  BY <1>1, <1>3 DEF Encipherings
<1>6. SortedOutside'
  <2> SUFFICES ASSUME NEW i \in 1 .. N, NEW l \in 1 .. N, i < l
               PROVE  WaitTogether(stack, i, l)'
    BY <1>1 DEF SortedOutside
  <2>1. ~(Len(events) <= 1)
    BY <1>1 DEF N
  <2>2. stack' = <<[lo |-> 1, hi |-> N]>>
    BY <2>1 DEF Encrypt, N
  <2>3. Len(stack') = 1 /\ stack'[1] = [lo |-> 1, hi |-> N]
    BY <2>2
  <2>4. In(stack'[1], i) /\ In(stack'[1], l)
    BY <1>1, <2>3 DEF In
  <2>5. QED
    BY <2>3, <2>4 DEF WaitTogether
<1>7. QED
  BY <1>1, <1>2, <1>4, <1>5, <1>6 DEF SortInvariant

\* Taking a range off the stack puts it at hand.
LEMMA SortPops ==
  ASSUME LoopInvariant, LoopInvariant', SortInvariant, PopRange
  PROVE  SortInvariant'
<1>1. /\ N \in Nat /\ N' = N /\ events' = events /\ events_copy' = events_copy /\ keys' = keys
      /\ pc = "pop" /\ pc' \in {"pop", "partition"}
  BY DEF LoopInvariant, EventTables, N, PopRange
<1>2. Encipherings' = Encipherings /\ Rearrangements(events_copy, events, N)' = Rearrangements(events_copy, events, N)
  BY <1>1 DEF Encipherings, Rearrangements
<1>3. SortedOutside' /\ (pc' = "partition" => Sides')
  <2>1. CASE stack = <<>>
    <3>1. stack' = stack /\ pc' = "pop"
      BY <1>1, <2>1 DEF PopRange
    <3>2. \A i, l \in 1 .. N : WaitTogether(stack, i, l)' = WaitTogether(stack, i, l)
      BY <3>1 DEF WaitTogether
    <3>3. QED
      BY <1>1, <3>1, <3>2 DEF SortedOutside, SortInvariant, AtHand
  <2>2. CASE stack # <<>>
    <3> DEFINE range == Last(stack)
               t == Popped(stack)
    <3>1. /\ \A i, j : WaitTogether(stack, i, j) => WaitTogether(t, i, j) \/ (In(range, i) /\ In(range, j))
          /\ range.lo < range.hi /\ range.lo \in 1 .. N
      BY <2>2, StackPops DEF LoopInvariant
    <3>2. /\ stack' = t /\ pc' = "partition"
          /\ at' = [lo |-> range.lo, hi |-> range.hi, pi |-> range.lo, j |-> range.lo]
      BY <1>1, <2>2, <3>1 DEF PopRange, Last, Popped
    <3> HIDE DEF range, t
    <3>3. \A i : AtHand(i)' <=> In(range, i)
      BY <3>2 DEF AtHand, In
    <3>4. \A i, l : WaitTogether(stack, i, l)' <=> WaitTogether(t, i, l)
      BY <3>2 DEF WaitTogether
    <3>5. SortedOutside'
      BY <1>1, <3>1, <3>3, <3>4 DEF SortedOutside, SortInvariant, AtHand
    <3>6. Sides'
      <4> SUFFICES ASSUME NEW i \in 1 .. N PROVE ~(range.lo <= i /\ i < range.lo)
        BY <1>1, <3>2 DEF Sides
      <4>1. QED
        BY <1>1, <3>1
    <3>7. QED
      BY <3>5, <3>6
  <2>3. QED
    BY <2>1, <2>2
<1>4. QED
  BY <1>1, <1>2, <1>3 DEF SortInvariant

\* Both arrays are swapped alike: the keys stay those of the rows.
LEMMA SwapsBoth ==
  ASSUME LoopInvariant, SortInvariant, pc = "partition", NEW a \in 1 .. N, NEW b \in 1 .. N,
         keys' = Swapped(keys, a, b), events_copy' = Swapped(events_copy, a, b), events' = events
  PROVE  /\ events_copy' \in [1 .. N' -> EventRow]
         /\ Rearrangements(events_copy, events, N)' # {}
         /\ keys' \in [1 .. N' -> Field] /\ Encipherings' # {}
<1>1. N \in Nat /\ N' = N
  BY DEF LoopInvariant, EventTables, N
<1>2. events_copy \in [1 .. N -> EventRow] /\ keys \in [1 .. N -> Field]
  BY DEF SortInvariant
<1>3. Exchanged(events_copy', events_copy, EventRow, N, a, b)
  BY <1>1, <1>2, SwappedValues
<1>4. Exchanged(keys', keys, Field, N, a, b)
  BY <1>1, <1>2, SwappedValues
<1>5. Rearrangements(events_copy', events, N) # {}
  BY <1>1, <1>3, Composed DEF Exchanged, SortInvariant
<1>6. PICK key \in Field : \A i \in 1 .. N : keys[i] = Cipher[key][events_copy[i].case]
  BY DEF SortInvariant, Encipherings
<1>7. key \in Encipherings'
  <2>1. \A i \in 1 .. N : /\ Swap(a, b, i) \in 1 .. N /\ keys'[i] = keys[Swap(a, b, i)]
                          /\ events_copy'[i] = events_copy[Swap(a, b, i)]
    BY <1>3, <1>4 DEF Exchanged
  <2>2. \A i \in 1 .. N : keys'[i] = Cipher[key][events_copy'[i].case]
    BY <1>6, <2>1
  <2>3. QED
    BY <1>1, <2>2 DEF Encipherings
<1>8. Rearrangements(events_copy, events, N)' = Rearrangements(events_copy', events, N)
  BY <1>1 DEF Rearrangements
<1>9. QED
  BY <1>1, <1>3, <1>4, <1>5, <1>7, <1>8 DEF Exchanged

\* Comparing with the pivot, and swapping, extends one of the two sides.
LEMMA SortCompares ==
  ASSUME LoopInvariant, SortInvariant, CompareWithPivot
  PROVE  SortInvariant'
<1>1. /\ N \in Nat /\ N' = N /\ events' = events
      /\ pc = "partition" /\ pc' = "partition" /\ stack' = stack /\ Partitioning /\ at.j < at.hi
      /\ Descending(stack, N)
  BY DEF LoopInvariant, EventTables, N, CompareWithPivot
<1>2. /\ at = [lo |-> at.lo, hi |-> at.hi, pi |-> at.pi, j |-> at.j]
      /\ at.lo \in 1 .. N /\ at.hi \in 1 .. N /\ at.pi \in 1 .. N /\ at.j \in 1 .. N
      /\ at.lo < at.hi /\ at.lo <= at.pi /\ at.pi <= at.j /\ at.j < at.hi
  BY <1>1 DEF Partitioning
<1>3. keys \in [1 .. N -> Field] /\ Sides /\ SortedOutside /\ Field \subseteq Int
  BY <1>1, PrimeAssumption DEF SortInvariant, Field
<1>4. \A i, l : WaitTogether(stack, i, l)' <=> WaitTogether(stack, i, l)
  BY <1>1 DEF WaitTogether
<1>5. CASE keys[at.j] <= keys[at.hi]
  <2> DEFINE a == at.pi
             b == at.j
             h == at.hi
  <2>1. /\ keys' = Swapped(keys, a, b) /\ events_copy' = Swapped(events_copy, a, b)
        /\ at' = [at EXCEPT !.pi = at.pi + 1, !.j = at.j + 1]
    BY <1>5 DEF CompareWithPivot
  <2>2. at' = [lo |-> at.lo, hi |-> at.hi, pi |-> at.pi + 1, j |-> at.j + 1]
    BY <1>2, <2>1
  <2>3. /\ events_copy' \in [1 .. N' -> EventRow]
        /\ Rearrangements(events_copy, events, N)' # {}
        /\ keys' \in [1 .. N' -> Field] /\ Encipherings' # {}
    BY <1>1, <1>2, <2>1, SwapsBoth
  <2>4. In(at, a) /\ In(at, b)
    BY <1>2 DEF In
  <2>5. \A i : AtHand(i)' <=> In(at, i)
    BY <1>1, <2>2 DEF AtHand, In
  <2>6. SortedOutside'
    <3> SUFFICES ASSUME NEW i \in 1 .. N, NEW l \in 1 .. N, i < l
                 PROVE  keys'[i] <= keys'[l] \/ WaitTogether(stack, i, l) \/ (In(at, i) /\ In(at, l))
      BY <1>1, <1>4, <2>5 DEF SortedOutside
    <3>1. \/ Swapped(keys, a, b)[i] <= Swapped(keys, a, b)[l]
          \/ WaitTogether(stack, i, l) \/ (In(at, i) /\ In(at, l))
      BY <1>1, <1>2, <1>3, <2>4, SwapsAtHand
    <3>2. QED
      BY <2>1, <3>1
  <2>7. \A i \in 1 .. N : Swap(a, b, i) \in 1 .. N /\ keys'[i] = keys[Swap(a, b, i)]
    <3>1. Exchanged(keys', keys, Field, N, a, b)
      BY <1>1, <1>2, <1>3, <2>1, SwappedValues
    <3>2. QED
      BY <3>1 DEF Exchanged
  <2>8. keys'[h] = keys[h] /\ at'.lo = at.lo /\ at'.hi = h /\ at'.pi = a + 1 /\ at'.j = b + 1
    BY <1>2, <2>2, <2>7 DEF Swap
  <2>9. /\ \A i \in 1 .. N : at.lo <= i /\ i < a => keys[i] <= keys[h]
        /\ \A i \in 1 .. N : a <= i /\ i < b => keys[i] > keys[h]
        /\ keys[b] <= keys[h]
    BY <1>3, <1>5 DEF Sides
  <2>10. a \in 1 .. N /\ b \in 1 .. N /\ a <= b
    BY <1>2
  <2> HIDE DEF a, b, h
  <2>11. ASSUME NEW i \in 1 .. N, at.lo <= i, i < a + 1 PROVE keys'[i] <= keys[h]
    <3>1. i < a \/ i = a
      BY <2>10, <2>11
    <3>2. CASE i < a
      <4>1. Swap(a, b, i) = i
        BY <2>10, <3>2 DEF Swap
      <4>2. QED
        BY <2>7, <2>9, <2>11, <3>2, <4>1
    <3>3. CASE i = a
      <4>1. Swap(a, b, i) = b
        BY <3>3 DEF Swap
      <4>2. QED
        BY <2>7, <2>9, <4>1
    <3>4. QED
      BY <3>1, <3>2, <3>3
  <2>12. ASSUME NEW i \in 1 .. N, a + 1 <= i, i < b + 1 PROVE keys'[i] > keys[h]
    <3>1. i # a /\ a <= i /\ (i < b \/ i = b)
      BY <2>10, <2>12
    <3>2. CASE i < b
      <4>1. Swap(a, b, i) = i
        BY <2>10, <3>1, <3>2 DEF Swap
      <4>2. QED
        BY <2>7, <2>9, <3>1, <3>2, <4>1
    <3>3. CASE i = b
      <4>1. Swap(a, b, i) = a /\ a < b
        BY <2>10, <2>12, <3>1, <3>3 DEF Swap
      <4>2. keys[a] > keys[h]
        BY <2>9, <2>10, <4>1
      <4>3. QED
        BY <2>7, <4>1, <4>2
    <3>4. QED
      BY <3>1, <3>2, <3>3
  <2>13. Sides'
    BY <1>1, <2>8, <2>11, <2>12 DEF Sides
  <2>14. QED
    BY <1>1, <2>3, <2>6, <2>13 DEF SortInvariant
<1>6. CASE ~(keys[at.j] <= keys[at.hi])
  <2>1. /\ keys' = keys /\ events_copy' = events_copy /\ at' = [at EXCEPT !.j = at.j + 1]
    BY <1>6 DEF CompareWithPivot
  <2>2. at' = [lo |-> at.lo, hi |-> at.hi, pi |-> at.pi, j |-> at.j + 1]
    BY <1>2, <2>1
  <2>3. Encipherings' = Encipherings /\ Rearrangements(events_copy, events, N)' = Rearrangements(events_copy, events, N)
    BY <1>1, <2>1 DEF Encipherings, Rearrangements
  <2>4. \A i : AtHand(i)' <=> AtHand(i)
    BY <1>1, <2>2 DEF AtHand, In
  <2>5. SortedOutside'
    BY <1>1, <1>3, <1>4, <2>1, <2>4 DEF SortedOutside
  <2>6. Sides'
    <3>1. keys[at.j] > keys[at.hi]
      <4>1. keys[at.j] \in Int /\ keys[at.hi] \in Int
        BY <1>2, <1>3
      <4>2. QED
        BY <1>6, <4>1
    <3>2. \A i \in 1 .. N : i < at.j + 1 => i < at.j \/ i = at.j
      BY <1>2
    <3>3. \A i \in 1 .. N : at.pi <= i /\ i < at.j + 1 => keys[i] > keys[at.hi]
      BY <1>3, <3>1, <3>2 DEF Sides
    <3>4. \A i \in 1 .. N : at.lo <= i /\ i < at.pi => keys[i] <= keys[at.hi]
      BY <1>3 DEF Sides
    <3>5. at'.lo = at.lo /\ at'.hi = at.hi /\ at'.pi = at.pi /\ at'.j = at.j + 1
      BY <2>2
    <3>6. QED
      BY <1>1, <2>1, <3>3, <3>4, <3>5 DEF Sides
  <2>7. QED
    BY <1>1, <2>1, <2>3, <2>5, <2>6 DEF SortInvariant
<1>7. QED
  BY <1>5, <1>6

\* Once the pivot is at its place, only the parts beside it are out of order.
LEMMA SortPlaces ==
  ASSUME LoopInvariant, SortInvariant, PlacePivot
  PROVE  SortInvariant'
<1>1. /\ N \in Nat /\ N' = N /\ events' = events
      /\ pc = "partition" /\ pc' = "pop" /\ Partitioning /\ at.j = at.hi
      /\ Descending(stack, N)
  BY DEF LoopInvariant, EventTables, N, PlacePivot
<1>2. /\ at.lo \in 1 .. N /\ at.hi \in 1 .. N /\ at.pi \in 1 .. N
      /\ at.lo < at.hi /\ at.lo <= at.pi /\ at.pi <= at.hi /\ LiesBelow(at.hi, stack)
  BY <1>1 DEF Partitioning
<1>3. keys \in [1 .. N -> Field] /\ Sides /\ SortedOutside /\ Field \subseteq Int
  BY <1>1, PrimeAssumption DEF SortInvariant, Field
<1> DEFINE lo == at.lo
           p == at.pi
           h == at.hi
           right == stack \o RightRange
           t == right \o LeftRange
<1>4. keys' = Swapped(keys, p, h) /\ events_copy' = Swapped(events_copy, p, h) /\ stack' = t
  BY DEF PlacePivot
<1>5. /\ events_copy' \in [1 .. N' -> EventRow]
      /\ Rearrangements(events_copy, events, N)' # {}
      /\ keys' \in [1 .. N' -> Field] /\ Encipherings' # {}
  BY <1>1, <1>2, <1>4, SwapsBoth
<1>6. stack \in Seq(RowRange(N)) /\ \A k \in 1 .. Len(stack) : stack[k].lo \in 1 .. N
  <2>1. stack \in Seq(RowRange(N))
    BY <1>1 DEF Descending
  <2>2. \A k \in 1 .. Len(stack) : stack[k] \in RowRange(N)
    BY <2>1
  <2>3. QED
    BY <2>1, <2>2 DEF RowRange
<1>7. /\ Descending(right, N) /\ LiesBelow(p, right)
      /\ \A i, l : WaitTogether(stack, i, l) => WaitTogether(right, i, l)
      /\ \A i, l : p + 1 < h /\ p + 1 <= i /\ i <= h /\ p + 1 <= l /\ l <= h => WaitTogether(right, i, l)
  <2>1. CASE p + 1 < h
    <3>1. RightRange = <<[lo |-> p + 1, hi |-> h]>>
      BY <2>1 DEF RightRange
    <3>2. p + 1 \in 1 .. N /\ p \in Int /\ p < p + 1
      BY <1>1, <1>2, <2>1
    <3>3. right = Pushed(stack, p + 1, h)
      BY <3>1 DEF Pushed
    <3> HIDE DEF right
    <3>4. QED
      BY <1>1, <1>2, <2>1, <3>2, <3>3, StackPushes
  <2>2. CASE ~(p + 1 < h)
    <3>1. RightRange = <<>>
      BY <2>2 DEF RightRange
    <3>2. right = stack
      BY <1>6, <3>1
    <3> HIDE DEF right
    <3>3. LiesBelow(p, stack)
      BY <1>2, <1>6 DEF LiesBelow
    <3>4. QED
      BY <1>1, <2>2, <3>2, <3>3
  <2>3. QED
    BY <2>1, <2>2
<1>8. /\ \A i, l : WaitTogether(right, i, l) => WaitTogether(t, i, l)
      /\ \A i, l : lo + 1 < p /\ lo <= i /\ i <= p - 1 /\ lo <= l /\ l <= p - 1 => WaitTogether(t, i, l)
  <2>1. right \in Seq(RowRange(N))
    BY <1>7 DEF Descending
  <2> HIDE DEF right
  <2>2. CASE lo + 1 < p
    <3>1. LeftRange = <<[lo |-> lo, hi |-> p - 1]>>
      BY <2>2 DEF LeftRange
    <3>2. p - 1 \in 1 .. N /\ lo < p - 1
      BY <1>1, <1>2, <2>2
    <3>3. LiesBelow(p - 1, right)
      <4>1. \A k \in 1 .. Len(right) : right[k] \in RowRange(N)
        BY <2>1
      <4>2. \A k \in 1 .. Len(right) : right[k].lo \in 1 .. N
        BY <4>1 DEF RowRange
      <4>3. QED
        BY <1>2, <1>7, <4>2 DEF LiesBelow
    <3>4. t = Pushed(right, lo, p - 1)
      BY <3>1 DEF Pushed
    <3> HIDE DEF t
    <3>5. QED
      BY <1>2, <1>7, <3>2, <3>3, <3>4, StackPushes
  <2>3. CASE ~(lo + 1 < p)
    <3>1. LeftRange = <<>>
      BY <2>3 DEF LeftRange
    <3>2. t = right
      BY <2>1, <3>1
    <3> HIDE DEF t
    <3>3. QED
      BY <2>3, <3>2
  <2>4. QED
    BY <2>2, <2>3
<1> HIDE DEF right, t
<1>9. \A i \in 1 .. N : Swap(p, h, i) \in 1 .. N /\ keys'[i] = keys[Swap(p, h, i)]
  <2>1. Exchanged(keys', keys, Field, N, p, h)
    BY <1>1, <1>2, <1>3, <1>4, SwappedValues
  <2>2. QED
    BY <2>1 DEF Exchanged
<1>10. /\ \A i \in 1 .. N : lo <= i /\ i < p => keys[i] <= keys[h]
       /\ \A i \in 1 .. N : p <= i /\ i < h => keys[i] > keys[h]
  BY <1>1, <1>3 DEF Sides
<1>11. p \in 1 .. N /\ h \in 1 .. N /\ lo \in 1 .. N /\ lo <= p /\ p <= h /\ In(at, p) /\ In(at, h)
  BY <1>2 DEF In
<1>12. \A i : In(at, i) <=> lo <= i /\ i <= h
  BY DEF In
<1> HIDE DEF lo, p, h
<1>13. keys'[p] = keys[h] /\ keys[h] \in Int
  BY <1>3, <1>9, <1>11 DEF Swap
<1>14. ASSUME NEW i \in 1 .. N, lo <= i, i < p PROVE keys'[i] <= keys'[p]
  <2>1. Swap(p, h, i) = i
    BY <1>11, <1>14 DEF Swap
  <2>2. QED
    BY <1>9, <1>10, <1>13, <1>14, <2>1
<1>15. ASSUME NEW i \in 1 .. N, p < i, i <= h PROVE keys'[i] > keys'[p]
  <2>1. CASE i = h
    <3>1. Swap(p, h, i) = p
      BY <2>1 DEF Swap
    <3>2. keys[p] > keys[h]
      BY <1>10, <1>11, <1>15, <2>1
    <3>3. QED
      BY <1>9, <1>13, <3>1, <3>2
  <2>2. CASE i < h
    <3>1. Swap(p, h, i) = i /\ p <= i
      BY <1>11, <1>15, <2>2 DEF Swap
    <3>2. QED
      BY <1>9, <1>10, <1>13, <2>2, <3>1
  <2>3. QED
    BY <1>11, <1>15, <2>1, <2>2
<1>16. SortedOutside'
  <2> SUFFICES ASSUME NEW i \in 1 .. N, NEW l \in 1 .. N, i < l
               PROVE  keys'[i] <= keys'[l] \/ WaitTogether(t, i, l)
    BY <1>1, <1>4 DEF SortedOutside, WaitTogether
  <2>1. \/ Swapped(keys, p, h)[i] <= Swapped(keys, p, h)[l]
        \/ WaitTogether(stack, i, l) \/ (In(at, i) /\ In(at, l))
    BY <1>1, <1>3, <1>11, SwapsAtHand
  <2>2. CASE keys'[i] <= keys'[l]
    BY <2>2
  <2>3. CASE WaitTogether(stack, i, l)
    BY <1>7, <1>8, <2>3
  <2>4. CASE In(at, i) /\ In(at, l)
    <3>1. lo <= i /\ i < l /\ l <= h
      BY <1>12, <2>4
    <3>2. keys'[i] \in Int /\ keys'[l] \in Int /\ keys'[p] \in Int
      BY <1>1, <1>3, <1>5, <1>11
    <3>3. CASE l < p
      <4>1. lo + 1 < p /\ i <= p - 1 /\ lo <= l /\ l <= p - 1
        BY <1>11, <3>1, <3>3
      <4>2. QED
        BY <1>8, <3>1, <4>1
    <3>4. CASE l = p
      BY <1>14, <3>1, <3>4
    <3>5. CASE p < l
      <4>1. keys'[p] < keys'[l]
        BY <1>15, <3>1, <3>2, <3>5
      <4>2. CASE i < p
        <5>1. keys'[i] <= keys'[p]
          BY <1>14, <3>1, <4>2
        <5>2. QED
          BY <3>2, <4>1, <5>1
      <4>3. CASE i = p
        BY <3>2, <4>1, <4>3
      <4>4. CASE p < i
        <5>1. p + 1 < h /\ p + 1 <= i /\ i <= h /\ p + 1 <= l /\ l <= h
          BY <1>11, <3>1, <4>4
        <5>2. QED
          BY <1>7, <1>8, <5>1
      <4>5. QED
        BY <1>11, <4>2, <4>3, <4>4
    <3>6. QED
      BY <1>11, <3>3, <3>4, <3>5
  <2>5. QED
    BY <1>4, <2>1, <2>2, <2>3, <2>4
<1>17. QED
  BY <1>1, <1>5, <1>16 DEF SortInvariant

\* When nothing waits all rows are sorted, and starts are where the key changes.
LEMMA SortMarks ==
  ASSUME LoopInvariant, LoopInvariant', SortInvariant, MarkBoundaries
  PROVE  SortInvariant'
<1>1. /\ N \in Nat /\ N' = N /\ events' = events /\ events_copy' = events_copy /\ keys' = keys
      /\ pc = "pop" /\ pc' = "times" /\ stack' = stack /\ stack' = <<>>
  BY DEF LoopInvariant, EventTables, N, MarkBoundaries
<1>2. Encipherings' = Encipherings /\ Rearrangements(events_copy, events, N)' = Rearrangements(events_copy, events, N)
  BY <1>1 DEF Encipherings, Rearrangements
<1>3. \A i, l \in 1 .. N : i < l => keys[i] <= keys[l]
  <2>1. \A i, l : ~WaitTogether(stack, i, l)
    BY <1>1 DEF WaitTogether
  <2>2. \A i : ~AtHand(i)
    BY <1>1 DEF AtHand
  <2>3. QED
    BY <1>1, <2>1, <2>2 DEF SortInvariant, SortedOutside
<1>4. is_new_case' = {i \in 1 .. N : i = 1 \/ keys[i] # keys[i-1]} /\ partitions' = is_new_case'
  BY DEF MarkBoundaries, Rows, N
<1>5. Divided'
  BY <1>1, <1>4 DEF Divided
<1>6. QED
  BY <1>1, <1>2, <1>3, <1>4, <1>5 DEF SortInvariant

\* Between two starts the keys are the same.
LEMMA KeysOfPartition ==
  ASSUME SortInvariant, pc \in {"times", "done"}, NEW i \in 1 .. N
  PROVE  keys[i] = keys[PivotOf(i)]
<1> DEFINE s == PivotOf(i)
           S == {k \in 1 .. N : s <= k /\ k <= i /\ keys[k] # keys[s]}
<1>1. Divided /\ is_new_case = {k \in 1 .. N : k = 1 \/ keys[k] # keys[k-1]} /\ is_new_case \subseteq partitions
  BY DEF SortInvariant
<1>2. s \in 1 .. N /\ s <= i /\ N \in Nat /\ \A t \in partitions : t <= i => t <= s
  BY <1>1, PivotStarts DEF Divided
<1> HIDE DEF s
<1> SUFFICES ASSUME S # {} PROVE FALSE
  BY <1>2 DEF s
<1>3. PICK k \in S : \A j \in S : k <= j
  <2>1. S \subseteq Nat
    OBVIOUS
  <2> HIDE DEF S
  <2>2. QED
    BY <2>1, LeastElement
<1>4. k \in 1 .. N /\ s < k /\ k <= i /\ keys[k] # keys[s]
  BY <1>2
<1>5. k - 1 \in 1 .. N /\ s <= k - 1 /\ k - 1 <= i /\ ~(k <= k - 1)
  BY <1>2, <1>4
<1>6. keys[k-1] = keys[s]
  BY <1>3, <1>5
<1>7. k \in partitions
  BY <1>1, <1>4, <1>6
<1>8. k <= s
  BY <1>2, <1>4, <1>7
<1>9. QED
  BY <1>2, <1>4, <1>8

\* Sorting by time rearranges each partition, and leaves the keys those of the rows.
LEMMA SortSplits ==
  ASSUME LoopInvariant, SortInvariant, SplitPartitions
  PROVE  SortInvariant'
<1>1. /\ N \in Nat /\ N' = N /\ events' = events /\ keys' = keys /\ is_new_case' = is_new_case
      /\ pc = "times" /\ pc' = "times" /\ Divided /\ Cardinality(partitions) < N
      /\ partitions' = NewPartitions
  BY DEF LoopInvariant, SortInvariant, EventTables, N, SplitPartitions
<1> DEFINE below == BelowPivot
           from(k) == CHOOSE i \in 1 .. N : Place(below, i) = k
           f == [i \in 1 .. N |-> Place(below, i)]
           g == [k \in 1 .. N |-> from(k)]
<1>2. events_copy' = [k \in 1 .. N |-> events_copy[from(k)]]
  BY DEF SplitPartitions, Rows, N
<1>3. below \subseteq (1 .. N) \ partitions
  BY DEF BelowPivot, Compared, Rows, N
<1> HIDE DEF below
<1>4. f \in [1 .. N -> 1 .. N] /\ \A i \in 1 .. N : f[i] = Place(below, i) /\ PivotOf(f[i]) = PivotOf(i)
  BY <1>1, <1>3, PlaceStays
<1>5. Rearranges(f, N)
  <2>1. \A i, l \in 1 .. N : i < l => f[i] # f[l]
    BY <1>1, <1>3, <1>4, PlacesDiffer
  <2> HIDE DEF f
  <2>2. QED
    BY <1>1, <1>4, <2>1, InjectionRearranges
<1>6. ASSUME NEW k \in 1 .. N PROVE from(k) \in 1 .. N /\ Place(below, from(k)) = k
  <2>1. \E i \in 1 .. N : f[i] = k
    BY <1>5 DEF Rearranges
  <2>2. \E i \in 1 .. N : Place(below, i) = k
    BY <1>4, <2>1
  <2>3. QED
    BY <2>2
<1>7. g \in [1 .. N -> 1 .. N] /\ \A k \in 1 .. N : g[k] = from(k) /\ PivotOf(g[k]) = PivotOf(k) /\ f[g[k]] = k
  <2>1. \A k \in 1 .. N : PivotOf(from(k)) = PivotOf(k) /\ f[from(k)] = k
    BY <1>1, <1>3, <1>6, PlaceStays
  <2> HIDE DEF from, f
  <2>2. QED
    BY <1>6, <2>1
<1>8. \A i \in 1 .. N : events_copy'[i] = events_copy[g[i]]
  BY <1>2, <1>7
<1> HIDE DEF from, f, g
<1>9. Rearranges(g, N)
  <2>1. \A p, q \in 1 .. N : p < q => g[p] # g[q]
    <3> SUFFICES ASSUME NEW p \in 1 .. N, NEW q \in 1 .. N, p < q, g[p] = g[q] PROVE FALSE
      OBVIOUS
    <3>1. p = q
      BY <1>7
    <3>2. QED
      BY <3>1
  <2>2. QED
    BY <1>1, <1>7, <2>1, InjectionRearranges
<1>10. events_copy' \in [1 .. N -> EventRow]
  <2>1. \A k \in 1 .. N : events_copy[from(k)] \in EventRow
    BY <1>6 DEF SortInvariant
  <2>2. QED
    BY <1>2, <2>1
<1>11. Rearrangements(events_copy', events_copy, N) # {}
  BY <1>7, <1>8, <1>9 DEF Rearrangements
<1>12. Rearrangements(events_copy', events, N) # {}
  BY <1>1, <1>11, Composed DEF SortInvariant
<1>13. Rearrangements(events_copy, events, N)' # {}
  BY <1>1, <1>12 DEF Rearrangements
<1>14. Encipherings' # {}
  <2>1. PICK key \in Field : \A i \in 1 .. N : keys[i] = Cipher[key][events_copy[i].case]
    BY <1>1 DEF SortInvariant, Encipherings
  <2>2. ASSUME NEW i \in 1 .. N PROVE keys[i] = Cipher[key][events_copy'[i].case]
    <3>1. g[i] \in 1 .. N /\ PivotOf(g[i]) = PivotOf(i)
      BY <1>7
    <3>2. keys[g[i]] = keys[i]
      BY <1>1, <3>1, KeysOfPartition
    <3>3. QED
      BY <1>8, <2>1, <3>1, <3>2
  <2>3. key \in Encipherings'
    BY <1>1, <2>2 DEF Encipherings
  <2>4. QED
    BY <2>3
<1>15. is_new_case \subseteq NewPartitions /\ Divided'
  <2>1. PICK i : i \in (1 .. N) \ partitions
    BY <1>1, RowIsLeft
  <2>2. partitions \subseteq NewPartitions /\ NewPartitions \subseteq 1 .. N
    BY <1>1, <2>1, NextPartitions
  <2>3. QED
    BY <1>1, <2>2 DEF Divided, SortInvariant
<1>16. QED
  BY <1>1, <1>10, <1>13, <1>14, <1>15 DEF SortInvariant

(***************************************************************************)
(* The merge by quicksort: its invariant                                   *)
(***************************************************************************)

\* The log is a rearrangement of itself.
LEMMA SortStarts == InitWith(EventTables) => SortInvariant
<1> SUFFICES ASSUME InitWith(EventTables) PROVE SortInvariant
  OBVIOUS
<1>1. N \in Nat /\ events \in Seq(EventRow) /\ events_copy = events /\ pc = "shuffle"
  BY DEF InitWith, EventTables, N, EventRow
<1>2. events \in [1 .. N -> EventRow]
  BY <1>1 DEF N
<1> DEFINE f == [i \in 1 .. N |-> i]
<1>3. f \in [1 .. N -> 1 .. N] /\ \A i \in 1 .. N : events[i] = events[f[i]]
  OBVIOUS
<1>4. \A p, q \in 1 .. N : p < q => f[p] # f[q]
  <2> SUFFICES ASSUME NEW p \in 1 .. N, NEW q \in 1 .. N, p < q PROVE p # q
    OBVIOUS
  <2>1. p \in Int
    OBVIOUS
  <2>2. QED
    BY <2>1
<1> HIDE DEF f
<1>5. Rearranges(f, N)
  BY <1>1, <1>3, <1>4, InjectionRearranges
<1>6. f \in Rearrangements(events_copy, events, N)
  BY <1>1, <1>3, <1>5 DEF Rearrangements
<1>7. QED
  BY <1>1, <1>2, <1>6 DEF SortInvariant

\* The shuffle and every later action keep the rows those of the log and the sorted ones
\* sorted.
LEMMA SortSteps == LoopInvariant /\ LoopInvariant' /\ SortInvariant /\ [Next]_vars => SortInvariant'
<1> SUFFICES ASSUME LoopInvariant, LoopInvariant', SortInvariant, [Next]_vars PROVE SortInvariant'
  OBVIOUS
<1>1. N \in Nat
  BY DEF LoopInvariant, EventTables, N
<1>2. CASE Shuffle
  <2>1. events' = events /\ N' = N /\ pc' = "encrypt"
    BY <1>2 DEF Shuffle, N
  <2>2. PICK f \in [1 .. N -> 1 .. N] :
          (\A i, j \in 1 .. N : f[i] = f[j] => i = j) /\ events_copy' = [i \in 1 .. N |-> events[f[i]]]
    BY <1>2 DEF Shuffle, Rows, N
  <2>3. \A p, q \in 1 .. N : p < q => f[p] # f[q]
    <3> SUFFICES ASSUME NEW p \in 1 .. N, NEW q \in 1 .. N, p < q, f[p] = f[q] PROVE FALSE
      OBVIOUS
    <3>1. p = q /\ p \in Int
      BY <2>2
    <3>2. QED
      BY <3>1
  <2>4. Rearranges(f, N)
    BY <1>1, <2>3, InjectionRearranges
  <2>5. events_copy' \in [1 .. N -> EventRow]
    <3>1. \A i \in 1 .. N : events[i] \in EventRow
      <4>1. events \in Seq(EventRow)
        BY DEF LoopInvariant, EventTables, EventRow
      <4>2. QED
        BY <4>1 DEF N
    <3>2. QED
      BY <2>2, <3>1
  <2>6. \A i \in 1 .. N : events_copy'[i] = events[f[i]]
    BY <2>2
  <2>7. f \in Rearrangements(events_copy, events, N)'
    BY <2>1, <2>4, <2>6 DEF Rearrangements
  <2>8. QED
    BY <2>1, <2>5, <2>7 DEF SortInvariant
<1>3. CASE Encrypt
  BY <1>3, SortEncrypts
<1>4. CASE PopRange
  BY <1>4, SortPops
<1>5. CASE CompareWithPivot
  BY <1>5, SortCompares
<1>6. CASE PlacePivot
  BY <1>6, SortPlaces
<1>7. CASE MarkBoundaries
  BY <1>7, SortMarks
<1>8. CASE SplitPartitions
  BY <1>8, SortSplits
<1>9. CASE Finish
  <2>1. /\ N' = N /\ events' = events /\ events_copy' = events_copy /\ keys' = keys
        /\ is_new_case' = is_new_case /\ partitions' = partitions /\ pc = "times" /\ pc' = "done"
    BY <1>9 DEF Finish, N
  <2>2. QED
    BY <2>1 DEF SortInvariant, Encipherings, Rearrangements, Divided
<1>10. CASE UNCHANGED vars
  <2>1. /\ N' = N /\ events' = events /\ events_copy' = events_copy /\ keys' = keys /\ stack' = stack
        /\ at' = at /\ is_new_case' = is_new_case /\ partitions' = partitions /\ pc' = pc
    BY <1>10 DEF vars, N
  <2>2. Encipherings' = Encipherings /\ Rearrangements(events_copy, events, N)' = Rearrangements(events_copy, events, N)
    BY <2>1 DEF Encipherings, Rearrangements
  <2>3. (SortedOutside => SortedOutside') /\ (Sides => Sides') /\ (Divided => Divided')
    BY <2>1 DEF SortedOutside, Sides, Divided, AtHand, WaitTogether, In
  <2>4. QED
    BY <2>1, <2>2, <2>3 DEF SortInvariant
<1>11. QED
  BY <1>2, <1>3, <1>4, <1>5, <1>6, <1>7, <1>8, <1>9, <1>10 DEF Next

\* The quicksort sorts the rows with their keys, and the rounds by time keep the cases
\* together (clear_quicksort, log_merge.py:16-97).
THEOREM QuickSorts == Spec => []SortInvariant
BY QuickLoop, SortStarts, SortSteps, PTL DEF Spec

\* Rows of one case stand together, so that their start is the first of them.
LEMMA StartsOfCases ==
  ASSUME LoopInvariant, SortInvariant, pc \in {"times", "done"}
  PROVE  /\ is_new_case = NewCase(events_copy)
         /\ Cardinality(is_new_case) = Cardinality({events[i].case : i \in Rows})
<1> DEFINE case(i) == events_copy[i].case
           C == {events[i].case : i \in Rows}
           f == [i \in is_new_case |-> case(i)]
<1>1. /\ N \in Nat /\ events_copy \in [1 .. N -> EventRow] /\ keys \in [1 .. N -> Field]
      /\ is_new_case = {i \in 1 .. N : i = 1 \/ keys[i] # keys[i-1]}
      /\ \A i, l \in 1 .. N : i < l => keys[i] <= keys[l]
      /\ Field \subseteq Int
  BY PrimeAssumption DEF LoopInvariant, SortInvariant, EventTables, N, Field
<1>2. PICK key : key \in Encipherings
  BY DEF SortInvariant
<1>3. \A i, l \in 1 .. N : keys[i] = keys[l] <=> case(i) = case(l)
  BY <1>1, <1>2, KeysTellCases
<1>4. is_new_case = NewCase(events_copy)
  <2>1. DOMAIN events_copy = 1 .. N
    BY <1>1
  <2>2. \A i \in 1 .. N : i # 1 => i - 1 \in 1 .. N
    BY <1>1
  <2>3. \A i \in 1 .. N : i # 1 => (keys[i] # keys[i-1] <=> case(i) # case(i-1))
    BY <1>3, <2>2
  <2>4. NewCase(events_copy) = {i \in 1 .. N : i = 1 \/ case(i) # case(i-1)}
    BY <2>1 DEF NewCase
  <2> HIDE DEF case
  <2>5. QED
    BY <1>1, <2>3, <2>4
<1>5. C = {case(i) : i \in 1 .. N}
  <2>1. PICK g \in [1 .. N -> 1 .. N] : Rearranges(g, N) /\ \A i \in 1 .. N : events_copy[i] = events[g[i]]
    BY DEF SortInvariant, Rearrangements
  <2>2. ASSUME NEW i \in 1 .. N PROVE \E k \in 1 .. N : case(k) = events[i].case
    <3>1. PICK k \in 1 .. N : g[k] = i
      BY <2>1 DEF Rearranges
    <3>2. QED
      BY <2>1, <3>1
  <2>3. ASSUME NEW k \in 1 .. N PROVE \E i \in 1 .. N : case(k) = events[i].case
    BY <2>1
  <2>4. C = {events[i].case : i \in 1 .. N}
    BY DEF Rows, N
  <2> HIDE DEF C, case
  <2>5. QED
    BY <2>2, <2>3, <2>4
<1> HIDE DEF case, C
<1>6. f \in [is_new_case -> C]
  BY <1>1, <1>5
<1>7. \A c \in C : \E i \in is_new_case : f[i] = c
  <2> SUFFICES ASSUME NEW c \in C PROVE \E i \in is_new_case : f[i] = c
    OBVIOUS
  <2> DEFINE S == {i \in 1 .. N : case(i) = c}
  <2>1. S \subseteq Nat /\ S # {}
    BY <1>5
  <2>2. PICK i \in S : \A j \in S : i <= j
    <3> HIDE DEF S
    <3>1. QED
      BY <2>1, LeastElement
  <2>3. i \in 1 .. N /\ case(i) = c
    OBVIOUS
  <2>4. i # 1 => i - 1 \in 1 .. N /\ ~(i <= i - 1)
    BY <1>1, <2>3
  <2>5. i # 1 => case(i-1) # c
    BY <2>2, <2>4
  <2>6. i # 1 => keys[i] # keys[i-1]
    BY <1>3, <2>3, <2>4, <2>5
  <2>7. i \in is_new_case
    BY <1>1, <2>3, <2>6
  <2>8. QED
    BY <2>3, <2>7
<1>8. ASSUME NEW i \in is_new_case, NEW l \in is_new_case, i < l PROVE f[i] # f[l]
  <2> SUFFICES ASSUME case(i) = case(l) PROVE FALSE
    OBVIOUS
  <2>1. i \in 1 .. N /\ l \in 1 .. N /\ l # 1 /\ keys[l] # keys[l-1]
    BY <1>1, <1>8
  <2>2. l - 1 \in 1 .. N /\ (i < l - 1 \/ i = l - 1) /\ l - 1 < l
    BY <1>1, <1>8, <2>1
  <2>3. keys[i] = keys[l]
    BY <1>3, <2>1
  <2>4. keys[i] \in Int /\ keys[l] \in Int /\ keys[l-1] \in Int
    BY <1>1, <2>1, <2>2
  <2>5. keys[i] <= keys[l-1] /\ keys[l-1] <= keys[l]
    BY <1>1, <2>1, <2>2, <2>4
  <2>6. QED
    BY <2>1, <2>3, <2>4, <2>5
<1>9. \A i, l \in is_new_case : f[i] = f[l] => i = l
  <2> SUFFICES ASSUME NEW i \in is_new_case, NEW l \in is_new_case, f[i] = f[l] PROVE i = l
    OBVIOUS
  <2>1. i \in Int /\ l \in Int
    BY <1>1
  <2> HIDE DEF f
  <2>2. ~(i < l) /\ ~(l < i)
    BY <1>8
  <2>3. QED
    BY <2>1, <2>2
<1> HIDE DEF f
<1>10. IsFiniteSet(is_new_case)
  <2>1. is_new_case \subseteq 1 .. N /\ IsFiniteSet(1 .. N)
    BY <1>1, FS_Interval
  <2>2. QED
    BY <2>1, FS_Subset
<1>11. f \in Bijection(is_new_case, C)
  BY <1>6, <1>7, <1>9 DEF Bijection, Injection, Surjection, IsInjective
<1>12. Cardinality(is_new_case) = Cardinality(C)
  BY <1>10, <1>11, FS_Bijection DEF ExistsBijection
<1>13. QED
  BY <1>4, <1>12 DEF C

\* StartsMatchCases, for any table, shuffle and key: the boundaries found among the opened
\* keys are the starts of the cases, one for each (log_merge.py:16-97).
THEOREM StartsAreFound == Spec => []StartsMatchCases
<1>1. LoopInvariant /\ SortInvariant => StartsMatchCases
  BY StartsOfCases DEF StartsMatchCases
<1>2. QED
  BY <1>1, QuickLoop, QuickSorts, PTL

(***************************************************************************)
(* Sorting by time: every row below the circuit chosen is compared         *)
(***************************************************************************)

\* A turn of the search for a circuit.
Turn(count, h, range) ==
  LET lower == range[1]
      upper == range[2]
      mid   == (lower + upper) \div 2
  IN  IF 10 * upper <= 11 * lower \/ upper <= lower + 1 THEN upper
      ELSE IF count <= mid THEN h[<<lower, mid>>] ELSE h[<<mid + 1, upper>>]

Searches(count) == {h \in [Bounds -> Nat] : \A range \in Bounds : h[range] = Turn(count, h, range)}

\* A range without a circuit in between, and the half of another that the search goes on with.
Stops(count, range) == \A h : Turn(count, h, range) = range[2]
Halves(count, range) ==
  {half \in Bounds : /\ half[2] - half[1] < range[2] - range[1] /\ half[2] <= range[2]
                     /\ count \in Int /\ count <= range[2] => count <= half[2]
                     /\ \A h : Turn(count, h, range) = h[half]}

\* The search stops or goes on with a shorter range (compare_in_count_range,
\* log_merge.py:117-130).
LEMMA HalvesAreShorter ==
  ASSUME N \in Nat, NEW range \in Bounds, NEW count
  PROVE  /\ range[1] \in 0 .. N /\ range[2] \in 0 .. N
         /\ Stops(count, range) \/ Halves(count, range) # {}
<1> DEFINE lower == range[1]
           upper == range[2]
           mid   == (lower + upper) \div 2
<1>1. lower \in 0 .. N /\ upper \in 0 .. N
  BY DEF Bounds, N
<1>2. \A h : Turn(count, h, range) =
               IF 10 * upper <= 11 * lower \/ upper <= lower + 1 THEN upper
               ELSE IF count <= mid THEN h[<<lower, mid>>] ELSE h[<<mid + 1, upper>>]
  BY DEF Turn
<1>3. upper > lower + 1 => mid \in Int /\ lower + 1 <= mid /\ mid <= upper - 1
  <2> HIDE DEF upper, lower
  <2>1. QED
    BY <1>1
<1> HIDE DEF mid
<1>4. CASE 10 * upper <= 11 * lower \/ upper <= lower + 1
  BY <1>1, <1>2, <1>4 DEF Stops
<1>5. CASE ~(10 * upper <= 11 * lower \/ upper <= lower + 1)
  <2>1. upper > lower + 1
    BY <1>1, <1>5
  <2> DEFINE half == IF count <= mid THEN <<lower, mid>> ELSE <<mid + 1, upper>>
  <2>2. /\ lower \in 0 .. N /\ upper \in 0 .. N /\ mid \in 0 .. N /\ mid + 1 \in 0 .. N
        /\ lower < mid /\ mid < upper
    <3> HIDE DEF upper, lower
    <3>1. QED
      BY <1>1, <1>3, <2>1 DEF lower, upper
  <2> HIDE DEF lower, upper
  <2>3. half \in Bounds
    BY <2>2 DEF Bounds, N
  <2>4. half[2] - half[1] < upper - lower /\ half[2] <= upper
    <3>1. CASE count <= mid
      BY <2>2, <3>1
    <3>2. CASE ~(count <= mid)
      BY <2>2, <3>2
    <3>3. QED
      BY <3>1, <3>2
  <2>5. count \in Int /\ count <= upper => count <= half[2]
    OBVIOUS
  <2>6. \A h : Turn(count, h, range) = h[half]
    BY <1>2, <1>5
  <2> HIDE DEF half
  <2>7. QED
    BY <1>1, <2>3, <2>4, <2>5, <2>6 DEF Halves, lower, upper
<1>6. QED
  BY <1>4, <1>5

\* The search ends: what it returns for a range is known once the halves are.
LEMMA SearchEnds ==
  ASSUME N \in Nat, NEW count
  PROVE  Searches(count) # {}
<1> DEFINE D == [Bounds -> Nat]
           F == [x \in Nat \X D |-> [range \in Bounds |-> Turn(count, x[2], range)]]
           start == [range \in Bounds |-> range[2]]
<1>1. \A range \in Bounds : range[1] \in 0 .. N /\ range[2] \in 0 .. N /\ range[2] - range[1] \in Int
  BY DEF Bounds, N
<1>2. ASSUME NEW h \in D, NEW range \in Bounds PROVE Turn(count, h, range) \in Nat
  <2>1. range[2] - range[1] <= N /\ range[2] \in Nat
    BY <1>1
  <2>2. CASE Stops(count, range)
    BY <2>1, <2>2 DEF Stops
  <2>3. CASE Halves(count, range) # {}
    BY <2>3 DEF Halves
  <2>4. QED
    BY <2>1, <2>2, <2>3, HalvesAreShorter
<1>3. F \in [Nat \X D -> D]
  <2>1. \A x \in Nat \X D : x[2] \in D
    OBVIOUS
  <2> HIDE DEF D
  <2>2. \A x \in Nat \X D : [range \in Bounds |-> Turn(count, x[2], range)] \in [Bounds -> Nat]
    BY <1>2, <2>1
  <2>3. QED
    BY <2>2 DEF D
<1>4. start \in D
  BY <1>1
<1>5. \A k \in Nat, h \in D : \A range \in Bounds : F[<<k,h>>][range] = Turn(count, h, range)
  OBVIOUS
<1> HIDE DEF F, D
<1>6. Runs(D, F, start, N + 1) # {}
  <2>1. N + 1 \in Nat
    OBVIOUS
  <2>2. QED
    BY <1>3, <1>4, <2>1, LoopRuns
<1>7. PICK f \in [0 .. N + 1 -> D] : f[0] = start /\ \A k \in 1 .. N + 1 : f[k] = F[<<k,f[k-1]>>]
  BY <1>6 DEF Runs
<1>8. \A k \in 0 .. N : f[k] \in D /\ f[k+1] \in D /\ \A range \in Bounds : f[k+1][range] = Turn(count, f[k], range)
  <2> SUFFICES ASSUME NEW k \in 0 .. N
               PROVE  f[k] \in D /\ f[k+1] \in D /\ \A range \in Bounds : f[k+1][range] = Turn(count, f[k], range)
    OBVIOUS
  <2>1. k \in 0 .. N + 1 /\ k + 1 \in 1 .. N + 1 /\ k + 1 \in 0 .. N + 1 /\ (k + 1) - 1 = k /\ k + 1 \in Nat
    OBVIOUS
  <2>2. f[k+1] = F[<<k+1,f[k]>>] /\ f[k] \in D /\ f[k+1] \in D
    BY <1>7, <2>1
  <2>3. QED
    BY <1>5, <2>1, <2>2
<1>9. \A range \in Bounds : f[0][range] = range[2]
  BY <1>7
<1> DEFINE Fixed(k) == \A range \in Bounds : range[2] - range[1] <= k => f[k+1][range] = f[k][range]
           S == {k \in Nat : k <= N => Fixed(k)}
<1>10. 0 \in S
  <2> SUFFICES ASSUME NEW range \in Bounds, range[2] - range[1] <= 0 PROVE f[0+1][range] = f[0][range]
    OBVIOUS
  <2>1. 0 \in 0 .. N /\ f[0+1][range] = Turn(count, f[0], range)
    BY <1>8
  <2>2. Turn(count, f[0], range) = range[2]
    <3>1. 10 * range[2] <= 11 * range[1]
      BY <1>1
    <3>2. QED
      BY <3>1 DEF Turn
  <2>3. QED
    BY <1>9, <2>1, <2>2
<1>11. ASSUME NEW k \in Nat, k \in S PROVE k + 1 \in S
  <2> SUFFICES ASSUME k + 1 <= N, NEW range \in Bounds, range[2] - range[1] <= k + 1
               PROVE  f[(k+1)+1][range] = f[k+1][range]
    OBVIOUS
  <2>1. k \in 0 .. N /\ k + 1 \in 0 .. N /\ k + 1 \in Nat /\ (k + 1) - 1 = k /\ Fixed(k)
    BY <1>11
  <2>2. f[(k+1)+1][range] = Turn(count, f[k+1], range) /\ f[k+1][range] = Turn(count, f[k], range)
    BY <1>8, <2>1
  <2>3. CASE Stops(count, range)
    BY <2>2, <2>3 DEF Stops
  <2>4. CASE Halves(count, range) # {}
    <3>1. PICK half \in Bounds : /\ half[2] - half[1] < range[2] - range[1]
                                 /\ \A h : Turn(count, h, range) = h[half]
      BY <2>4 DEF Halves
    <3>2. half[2] - half[1] <= k
      BY <1>1, <2>1, <3>1
    <3>3. f[k+1][half] = f[k][half]
      BY <2>1, <3>2
    <3>4. QED
      BY <2>2, <3>1, <3>3
  <2>5. QED
    BY <2>3, <2>4, HalvesAreShorter
<1> HIDE DEF S
<1>12. N \in S
  BY <1>10, <1>11, Induction
<1>13. \A range \in Bounds : range[2] - range[1] <= N
  BY <1>1
<1>14. Fixed(N)
  BY <1>12 DEF S
<1>15. f[N] \in D /\ \A range \in Bounds : f[N][range] = Turn(count, f[N], range)
  <2>1. N \in 0 .. N
    OBVIOUS
  <2>2. QED
    BY <1>8, <1>13, <1>14, <2>1
<1>16. f[N] \in Searches(count)
  BY <1>15 DEF Searches, D
<1>17. QED
  BY <1>16

\* No comparison is cut off: the circuit chosen has as many as are asked for
\* (dynamic_count_comparisons_with_public_output, log_merge.py:101-133).
LEMMA ComparisonsSuffice ==
  ASSUME N \in Nat, NEW count \in Nat, count <= N
  PROVE  Comparisons(count) \in Nat /\ count <= Comparisons(count)
<1> DEFINE bucket[range \in Bounds] ==
             LET lower == range[1]
                 upper == range[2]
                 mid   == (lower + upper) \div 2
             IN  IF 10 * upper <= 11 * lower \/ upper <= lower + 1 THEN upper
                 ELSE IF count <= mid THEN bucket[<<lower, mid>>] ELSE bucket[<<mid + 1, upper>>]
           Is(h) == h = [range \in Bounds |->
             LET lower == range[1]
                 upper == range[2]
                 mid   == (lower + upper) \div 2
             IN  IF 10 * upper <= 11 * lower \/ upper <= lower + 1 THEN upper
                 ELSE IF count <= mid THEN h[<<lower, mid>>] ELSE h[<<mid + 1, upper>>]]
<1>1. Comparisons(count) = bucket[<<0,N>>]
  BY DEF Comparisons, N
<1>2. bucket = CHOOSE h : Is(h)
  BY Zenon
<1>3. \A h : Is(h) <=> h = [range \in Bounds |-> Turn(count, h, range)]
  BY DEF Turn
<1>4. PICK h \in [Bounds -> Nat] : \A range \in Bounds : h[range] = Turn(count, h, range)
  BY SearchEnds DEF Searches
<1>5. h = [range \in Bounds |-> Turn(count, h, range)]
  BY <1>4
<1>6. Is(bucket)
  <2>1. Is(h)
    BY <1>3, <1>5
  <2> HIDE DEF Is, bucket
  <2>2. QED
    BY <1>2, <2>1, Zenon
<1>7. \A range \in Bounds : bucket[range] = Turn(count, bucket, range)
  <2>1. bucket = [range \in Bounds |-> Turn(count, bucket, range)]
    BY <1>3, <1>6, Zenon
  <2> HIDE DEF Is, bucket
  <2>2. QED
    BY <2>1, Zenon
<1> HIDE DEF bucket, Is
<1> DEFINE Enough(k) == \A range \in Bounds : range[2] - range[1] <= k /\ count <= range[2] =>
                          bucket[range] \in Nat /\ count <= bucket[range]
           S == {k \in Nat : Enough(k)}
<1>8. \A range \in Bounds : range[1] \in 0 .. N /\ range[2] \in 0 .. N
  BY DEF Bounds, N
<1>9. 0 \in S
  <2> SUFFICES ASSUME NEW range \in Bounds, range[2] - range[1] <= 0, count <= range[2]
               PROVE  bucket[range] \in Nat /\ count <= bucket[range]
    OBVIOUS
  <2>1. Turn(count, bucket, range) = range[2]
    <3>1. 10 * range[2] <= 11 * range[1]
      BY <1>8
    <3>2. QED
      BY <3>1 DEF Turn
  <2>2. QED
    BY <1>7, <1>8, <2>1
<1>10. ASSUME NEW k \in Nat, k \in S PROVE k + 1 \in S
  <2> SUFFICES ASSUME NEW range \in Bounds, range[2] - range[1] <= k + 1, count <= range[2]
               PROVE  bucket[range] \in Nat /\ count <= bucket[range]
    OBVIOUS
  <2>1. k + 1 \in Nat /\ (k + 1) - 1 = k /\ Enough(k)
    BY <1>10
  <2>2. CASE Stops(count, range)
    BY <1>7, <1>8, <2>2 DEF Stops
  <2>3. CASE Halves(count, range) # {}
    <3>1. PICK half \in Bounds : /\ half[2] - half[1] < range[2] - range[1] /\ count <= half[2]
                                 /\ \A e : Turn(count, e, range) = e[half]
      BY <2>3 DEF Halves
    <3>2. half[2] - half[1] <= k
      BY <1>8, <2>1, <3>1
    <3>3. bucket[half] \in Nat /\ count <= bucket[half]
      BY <2>1, <3>1, <3>2
    <3>4. QED
      BY <1>7, <3>1, <3>3
  <2>4. QED
    BY <2>2, <2>3, HalvesAreShorter
<1> HIDE DEF S
<1>11. N \in S
  BY <1>9, <1>10, Induction
<1>12. <<0,N>> \in Bounds /\ N - 0 <= N
  BY DEF Bounds, N
<1>13. bucket[<<0,N>>] \in Nat /\ count <= bucket[<<0,N>>]
  <2>1. Enough(N)
    BY <1>11 DEF S
  <2>2. <<0,N>>[1] = 0 /\ <<0,N>>[2] = N
    OBVIOUS
  <2>3. QED
    BY <1>12, <2>1, <2>2
<1>14. QED
  BY <1>1, <1>13

\* Timestamps of one sign are compared rightly (less_equal, log_merge.py:119-120).
LEMMA OneSignCompares ==
  ASSUME NEW times, SameSign(times), NEW x \in times, NEW y \in times
  PROVE  x \in Nat /\ y \in Nat /\ (LessEqual(x, y, TimestampBits) <=> x <= y)
<1> DEFINE half == 2^(TimestampBits-1)
           d == y - x
<1>1. half \in Nat /\ half > 0 /\ 2^TimestampBits = half + half
  <2>1. TimestampBits \in Nat /\ TimestampBits - 1 \in Nat /\ (TimestampBits - 1) + 1 = TimestampBits
    BY BitsAssumption
  <2>2. QED
    BY <2>1, PowerIsNatural, PowerDoubles, PowerExceeds
<1>2. times \subseteq 0 .. half - 1 \/ times \subseteq half .. (half + half) - 1
  BY <1>1 DEF SameSign
<1>3. LessEqual(x, y, TimestampBits) <=> d % (half + half) < half
  BY <1>1 DEF LessEqual
<1> HIDE DEF half
<1>4. x \in Nat /\ y \in Nat /\ d \in Int /\ d < half /\ -half < d
  BY <1>1, <1>2
<1>5. x <= y <=> 0 <= d
  BY <1>4
<1> HIDE DEF d
<1>6. CASE 0 <= d
  <2>1. d % (half + half) = d
    BY <1>1, <1>4, <1>6
  <2>2. QED
    BY <2>1, <1>3, <1>4, <1>5, <1>6
<1>7. CASE d < 0
  <2>1. d % (half + half) = d + (half + half)
    BY <1>1, <1>4, <1>7
  <2>2. QED
    BY <2>1, <1>1, <1>3, <1>4, <1>5, <1>7
<1>8. QED
  BY <1>4, <1>6, <1>7

\* Where rows of one partition are divided, it is beside the pivot.
LEMMA DividedAtPivot ==
  ASSUME Divided, NEW k \in 1 .. N, NEW m \in 1 .. N, NEW t \in NewPartitions, k < t, t <= m,
         PivotOf(k) = PivotOf(m)
  PROVE  /\ Behind(BelowPivot, k) <= m
         /\ k < Behind(BelowPivot, k) \/ (Cardinality(Mine(BelowPivot, k)) = 0 /\ k = PivotOf(k))
<1> DEFINE s == PivotOf(k)
           b == Cardinality(Below(s))
<1>0. /\ b \in Nat /\ s = PivotOf(m)
      /\ b = Cardinality(Mine(BelowPivot, k)) /\ Behind(BelowPivot, k) = s + b
  <2>1. BelowPivot \subseteq (1 .. N) \ partitions
    BY DEF BelowPivot, Compared, Rows, N
  <2>2. Cardinality(Mine(BelowPivot, k)) \in Nat
    BY <2>1, BelowComeFirst
  <2>3. Below(s) = Mine(BelowPivot, k)
    BY DEF Below, Mine
  <2>4. QED
    BY <2>2, <2>3 DEF Behind
<1>1. /\ N \in Nat /\ s \in partitions /\ s \in 1 .. N /\ s <= k
      /\ \A u \in partitions : u \in 1 .. N /\ (u <= m => u <= s)
  BY PivotStarts DEF Divided
<1> HIDE DEF s, b
<1>2. CASE t \in partitions
  BY <1>1, <1>2
<1>3. ASSUME NEW u \in partitions, t = u + Cardinality(Below(u)) PROVE s + b <= m /\ k < s + b
  <2> DEFINE below == BelowPivot
             c == Cardinality({j \in below : PivotOf(j) = u})
  <2>1. below \subseteq (1 .. N) \ partitions
    BY DEF BelowPivot, Compared, Rows, N
  <2>2. u \in 1 .. N /\ u \notin below /\ PivotOf(u) = u
    <3>1. u \in 1 .. N /\ \A v \in partitions : v <= u => v <= u
      BY <1>1
    <3>2. u <= u
      BY <3>1
    <3>3. QED
      BY <2>1, <3>1, <3>2, PivotIs
  <2>3. t = u + c
    BY <1>3 DEF Below
  <2> HIDE DEF below
  <2>4. c \in Nat /\ u + c <= Place(below, u) /\ Place(below, u) \in Int
    <3>1. /\ Cardinality(Mine(below, u)) \in Nat /\ Place(below, u) \in Int
          /\ Behind(below, u) <= Place(below, u)
      BY <2>1, <2>2, BelowComeFirst
    <3>2. Mine(below, u) = {j \in below : PivotOf(j) = u}
      BY <2>2 DEF Mine
    <3>3. QED
      BY <2>2, <3>1, <3>2 DEF Behind
  <2> HIDE DEF c
  <2>5. u <= t
    BY <2>2, <2>3, <2>4
  <2>6. u <= m
    BY <1>1, <2>2, <2>3, <2>4
  <2>7. u <= s
    BY <1>1, <2>6
  <2>8. PivotOf(Place(below, u)) = u /\ Place(below, u) \in 1 .. N
    BY <2>1, <2>2, PlaceStays
  <2>9. s <= Place(below, u)
    BY <1>1, <2>2, <2>3, <2>4, <2>8
  <2>10. s <= u
    BY <1>1, <2>8, <2>9, PivotStarts
  <2>11. u = s
    BY <1>1, <2>2, <2>7, <2>10
  <2>12. t = s + b
    BY <1>3, <2>11 DEF b
  <2>13. QED
    BY <2>12
<1>4. ASSUME NEW u \in partitions, Below(u) = {}, u < Len(events), t = u + 1
      PROVE  s + b <= m /\ b = 0 /\ k = s
  <2>1. u <= s /\ s <= u
    BY <1>1, <1>4
  <2>2. u = s
    BY <1>1, <2>1
  <2>3. b = 0
    BY <1>4, <2>2, FS_EmptySet DEF b
  <2>4. QED
    BY <1>1, <1>4, <2>2, <2>3
<1>5. s + b <= m /\ (k < s + b \/ (b = 0 /\ k = s))
  BY <1>0, <1>1, <1>2, <1>3, <1>4 DEF NewPartitions
<1>6. QED
  BY <1>0, <1>5 DEF s

(***************************************************************************)
(* Sorting by time: its invariant                                          *)
(***************************************************************************)

\* The timestamps of a case are ones the comparisons order.
TimesOf(c) == {events[i].time : i \in {j \in 1 .. N : events[j].case = c}}

\* A partition starts between two rows, and rows of a case that are divided by it are in
\* the order of time.
DividedBetween(i, l) == \E t \in partitions : i < t /\ t <= l
TimesSorted ==
  \A i, l \in 1 .. N :
    events_copy[i].case = events_copy[l].case /\ SameSign(TimesOf(events_copy[i].case)) /\ DividedBetween(i, l) =>
      events_copy[i].time <= events_copy[l].time

\* What the rounds have sorted, and that they go on until every row is a partition.
TimeInvariant ==
  /\ pc \in {"times", "done"} => TimesSorted
  /\ pc = "done" => partitions = 1 .. N

\* A row has one of the times of its case.
LEMMA TimeOfRow ==
  ASSUME SortInvariant, N \in Nat, NEW i \in 1 .. N
  PROVE  events_copy[i].time \in TimesOf(events_copy[i].case)
<1>1. PICK f \in [1 .. N -> 1 .. N] : Rearranges(f, N) /\ \A j \in 1 .. N : events_copy[j] = events[f[j]]
  BY DEF SortInvariant, Rearrangements
<1>2. QED
  BY <1>1 DEF TimesOf

\* Partitions that start cases divide no case.
LEMMA CasesUndivided ==
  ASSUME LoopInvariant, LoopInvariant', SortInvariant, MarkBoundaries
  PROVE  TimeInvariant'
<1>1. SortInvariant' /\ N \in Nat /\ N' = N /\ pc' = "times" /\ partitions' = is_new_case'
  BY SortMarks DEF LoopInvariant, EventTables, N, MarkBoundaries
<1>2. PICK key : key \in Encipherings'
  BY <1>1 DEF SortInvariant
<1>3. /\ \A i, l \in 1 .. N : i < l => keys'[i] <= keys'[l]
      /\ is_new_case' = {i \in 1 .. N : i = 1 \/ keys'[i] # keys'[i-1]}
      /\ \A i \in 1 .. N : keys'[i] \in Int
      /\ \A i \in 1 .. N : keys'[i] = Cipher[key][events_copy'[i].case]
  BY <1>1, <1>2, PrimeAssumption DEF SortInvariant, Encipherings, Field
<1>4. ASSUME NEW i \in 1 .. N, NEW l \in 1 .. N, NEW t \in partitions', i < t, t <= l
      PROVE  events_copy'[i].case # events_copy'[l].case
  <2>1. t \in 1 .. N /\ t - 1 \in 1 .. N /\ keys'[t] # keys'[t-1] /\ i <= t - 1 /\ t - 1 < t
    BY <1>1, <1>3, <1>4
  <2>2. keys'[i] <= keys'[t-1]
    BY <1>3, <2>1
  <2>3. keys'[t-1] <= keys'[t]
    BY <1>3, <2>1
  <2>4. keys'[t] <= keys'[l]
    BY <1>3, <1>4, <2>1
  <2>5. keys'[i] # keys'[l]
    BY <1>3, <2>1, <2>2, <2>3, <2>4
  <2>6. QED
    BY <1>3, <2>5
<1>5. TimesSorted'
  BY <1>1, <1>4 DEF TimesSorted, DividedBetween
<1>6. QED
  BY <1>1, <1>5 DEF TimeInvariant

\* A row below its pivot is not later, the others are not earlier.
LEMMA PivotCompares ==
  ASSUME SortInvariant, pc = "times", N \in Nat, Divided, NEW i \in 1 .. N, NEW s, s = PivotOf(i),
         SameSign(TimesOf(events_copy[i].case))
  PROVE  /\ s \in 1 .. N /\ events_copy[s].case = events_copy[i].case
         /\ events_copy[i].time \in Nat /\ events_copy[s].time \in Nat
         /\ i \in BelowPivot => events_copy[i].time <= events_copy[s].time
         /\ i \notin BelowPivot => events_copy[s].time <= events_copy[i].time
<1>1. s \in 1 .. N /\ s \in partitions /\ s <= i /\ \A t \in partitions : t <= i => t <= s
  BY PivotStarts
<1>2. events_copy[s].case = events_copy[i].case
  <2>1. PICK key : key \in Encipherings
    BY DEF SortInvariant
  <2>2. keys[i] = keys[s]
    BY KeysOfPartition
  <2>3. events_copy \in [1 .. N -> EventRow]
    BY DEF SortInvariant
  <2>4. QED
    BY <1>1, <2>1, <2>2, <2>3, KeysTellCases
<1> DEFINE times == TimesOf(events_copy[i].case)
           x == events_copy[s].time
           y == events_copy[i].time
<1>3. x \in times /\ y \in times
  BY <1>1, <1>2, TimeOfRow
<1>4. x \in Nat /\ y \in Nat /\ (LessEqual(x, y, TimestampBits) <=> x <= y)
  <2> HIDE DEF times, x, y
  <2>1. SameSign(times)
    BY DEF times
  <2>2. QED
    BY <1>3, <2>1, OneSignCompares
<1>5. Cardinality({j \in Compared : j <= i}) <= Comparisons(Cardinality(Compared))
      /\ Cardinality({j \in Compared : j <= i}) \in Nat /\ Comparisons(Cardinality(Compared)) \in Nat
  <2> DEFINE C == Compared
             D == {j \in C : j <= i}
  <2>1. C \subseteq 1 .. N /\ D \subseteq C
    BY DEF Compared, Rows, N
  <2> HIDE DEF C, D
  <2>2. IsFiniteSet(1 .. N) /\ Cardinality(1 .. N) = N
    BY FS_Interval
  <2>3. IsFiniteSet(C) /\ Cardinality(C) \in Nat /\ Cardinality(C) <= N
    BY <2>1, <2>2, FS_Subset, FS_CardinalityType
  <2>4. IsFiniteSet(D) /\ Cardinality(D) \in Nat /\ Cardinality(D) <= Cardinality(C)
    BY <2>1, <2>3, FS_Subset, FS_CardinalityType
  <2>5. Comparisons(Cardinality(C)) \in Nat /\ Cardinality(C) <= Comparisons(Cardinality(C))
    BY <2>3, ComparisonsSuffice
  <2>6. QED
    BY <2>3, <2>4, <2>5 DEF C, D
<1>6. i \in BelowPivot <=> i \in Compared /\ ~LessEqual(x, y, TimestampBits)
  BY <1>5 DEF BelowPivot
<1>7. i \in Compared <=> i \notin partitions
  BY DEF Compared, Rows, N
<1>8. CASE i \in partitions
  <2>1. i = s
    BY <1>1, <1>8
  <2>2. QED
    BY <1>1, <1>2, <1>4, <1>6, <1>7, <1>8, <2>1
<1>9. CASE i \notin partitions
  BY <1>1, <1>2, <1>4, <1>6, <1>7, <1>9
<1>10. QED
  BY <1>8, <1>9

\* A round keeps what is sorted and sorts the rows it divides
\* (move_data_to_new_partitions, log_merge.py:211-230).
LEMMA SplitSorts ==
  ASSUME LoopInvariant, SortInvariant, TimeInvariant, SplitPartitions
  PROVE  TimeInvariant'
<1>1. /\ N \in Nat /\ N' = N /\ events' = events
      /\ pc = "times" /\ pc' = "times" /\ Divided
      /\ partitions' = NewPartitions /\ Cardinality(partitions) < N /\ TimesSorted
  BY DEF LoopInvariant, SortInvariant, TimeInvariant, EventTables, N, SplitPartitions
<1> DEFINE below == BelowPivot
           from(k) == CHOOSE i \in 1 .. N : Place(below, i) = k
           f == [i \in 1 .. N |-> Place(below, i)]
<1>2. events_copy' = [k \in 1 .. N |-> events_copy[from(k)]]
  BY DEF SplitPartitions, Rows, N
<1>3. below \subseteq (1 .. N) \ partitions /\ \A s : Below(s) = {j \in below : PivotOf(j) = s}
  BY DEF BelowPivot, Compared, Rows, N, Below
<1> HIDE DEF below
<1>4. f \in [1 .. N -> 1 .. N] /\ \A i \in 1 .. N : f[i] = Place(below, i)
  BY <1>1, <1>3, PlaceStays
<1>5. Rearranges(f, N)
  <2>1. \A i, l \in 1 .. N : i < l => f[i] # f[l]
    BY <1>1, <1>3, <1>4, PlacesDiffer
  <2> HIDE DEF f
  <2>2. QED
    BY <1>1, <1>4, <2>1, InjectionRearranges
<1>6. ASSUME NEW k \in 1 .. N
      PROVE  from(k) \in 1 .. N /\ Place(below, from(k)) = k /\ PivotOf(k) = PivotOf(from(k))
  <2>1. \E i \in 1 .. N : f[i] = k
    BY <1>5 DEF Rearranges
  <2>2. \E i \in 1 .. N : Place(below, i) = k
    BY <1>4, <2>1
  <2>3. from(k) \in 1 .. N /\ Place(below, from(k)) = k
    BY <2>2
  <2> HIDE DEF from
  <2>4. QED
    BY <1>1, <1>3, <2>3, PlaceStays
<1> HIDE DEF from, f
<1>7. NewPartitions \subseteq 1 .. N
  <2>1. PICK i : i \in (1 .. N) \ partitions
    BY <1>1, RowIsLeft
  <2>2. QED
    BY <1>1, <2>1, NextPartitions
<1>8. ASSUME NEW k \in 1 .. N, NEW m \in 1 .. N, events_copy'[k].case = events_copy'[m].case,
             SameSign(TimesOf(events_copy'[k].case)), NEW t \in NewPartitions, k < t, t <= m
      PROVE  events_copy'[k].time <= events_copy'[m].time
  <2> DEFINE i == from(k)
             l == from(m)
             s == PivotOf(k)
             b == Cardinality(Below(s))
  <2>1. /\ i \in 1 .. N /\ l \in 1 .. N /\ Place(below, i) = k /\ Place(below, l) = m
        /\ PivotOf(i) = s /\ PivotOf(l) = PivotOf(m)
        /\ events_copy'[k] = events_copy[i] /\ events_copy'[m] = events_copy[l]
    BY <1>2, <1>6
  <2>2. events_copy[i].case = events_copy[l].case /\ SameSign(TimesOf(events_copy[i].case))
    BY <1>8, <2>1
  <2> HIDE DEF i, l
  <2>3. CASE PivotOf(m) # s
    <3> DEFINE r == PivotOf(m)
    <3>1. /\ r \in partitions /\ r \in 1 .. N /\ r <= m
          /\ \A u \in partitions : u \in 1 .. N /\ (u <= m => u <= r)
      BY <1>1, <1>8, PivotStarts DEF Divided
    <3>2. /\ s \in partitions /\ s \in 1 .. N /\ s <= k
          /\ \A u \in partitions : u <= k => u <= s
      BY <1>1, <1>8, PivotStarts DEF Divided
    <3>3. r <= l
      <4>1. PivotOf(l) <= l
        BY <1>1, <2>1, PivotStarts
      <4>2. QED
        BY <2>1, <4>1
    <3>4. \A u \in partitions : u <= i => u <= s
      <4>1. \A u \in partitions : u <= i => u <= PivotOf(i)
        BY <1>1, <2>1, PivotStarts
      <4>2. QED
        BY <2>1, <4>1
    <3>5. r # s
      BY <2>3
    <3> HIDE DEF r, s
    <3>6. s <= r
      <4>1. s <= m
        BY <1>1, <1>8, <1>7, <3>2
      <4>2. QED
        BY <3>1, <3>2, <4>1
    <3>7. i < r
      BY <2>1, <3>1, <3>2, <3>4, <3>5, <3>6
    <3>8. DividedBetween(i, l)
      BY <3>1, <3>3, <3>7 DEF DividedBetween
    <3>9. QED
      BY <1>1, <2>1, <2>2, <3>8 DEF TimesSorted
  <2>4. CASE PivotOf(m) = s
    <3>1. /\ s \in 1 .. N /\ b \in Nat
          /\ i \in below => k < s + b
          /\ i \notin below => s + b <= k
          /\ l \in below => m < s + b
          /\ b = 0 => k = i
      <4>1. /\ PivotOf(i) \in 1 .. N /\ Cardinality(Mine(below, i)) \in Nat
            /\ i \in below => Place(below, i) < Behind(below, i)
            /\ i \notin below => Behind(below, i) <= Place(below, i)
            /\ Cardinality(Mine(below, i)) = 0 => Place(below, i) = i
        BY <1>1, <1>3, <2>1, BelowComeFirst
      <4>2. l \in below => Place(below, l) < Behind(below, l)
        BY <1>1, <1>3, <2>1, BelowComeFirst
      <4>3. PivotOf(i) = s /\ PivotOf(l) = s
        BY <2>1, <2>4
      <4>4. Cardinality(Mine(below, i)) = b /\ Cardinality(Mine(below, l)) = b
        BY <1>3, <4>3 DEF Mine
      <4> HIDE DEF b, s
      <4>5. Behind(below, i) = s + b /\ Behind(below, l) = s + b
        BY <4>3, <4>4 DEF Behind
      <4>6. QED
        BY <2>1, <4>1, <4>2, <4>3, <4>4, <4>5
    <3>2. s + b <= m /\ (k < s + b \/ (b = 0 /\ k = s))
      <4>1. PivotOf(k) = PivotOf(m)
        BY <2>4
      <4>2. /\ Behind(BelowPivot, k) <= m
            /\ k < Behind(BelowPivot, k) \/ (Cardinality(Mine(BelowPivot, k)) = 0 /\ k = PivotOf(k))
        BY <1>1, <1>8, <4>1, DividedAtPivot
      <4>3. Cardinality(Mine(BelowPivot, k)) = b
        BY DEF Mine, Below
      <4>4. Behind(BelowPivot, k) = s + b
        BY <4>3 DEF Behind
      <4>5. QED
        BY <4>2, <4>3, <4>4
    <3>3. /\ events_copy[i].time \in Nat /\ events_copy[s].time \in Nat /\ events_copy[l].time \in Nat
          /\ i \in below => events_copy[i].time <= events_copy[s].time
          /\ l \notin below => events_copy[s].time <= events_copy[l].time
      <4>1. s = PivotOf(i) /\ s = PivotOf(l) /\ SameSign(TimesOf(events_copy[l].case))
        BY <2>1, <2>2, <2>4
      <4> HIDE DEF s
      <4>2. QED
        BY <1>1, <2>1, <2>2, <4>1, PivotCompares DEF below
    <3> HIDE DEF s, b
    <3>4. l \notin below
      BY <3>1, <3>2
    <3>5. CASE i \in below
      BY <2>1, <3>3, <3>4, <3>5
    <3>6. CASE i \notin below
      <4>1. i = s
        BY <3>1, <3>2, <3>6
      <4>2. QED
        BY <2>1, <3>3, <3>4, <4>1
    <3>7. QED
      BY <3>5, <3>6
  <2>5. QED
    BY <2>3, <2>4
<1>9. \A c : TimesOf(c)' = TimesOf(c)
  BY <1>1 DEF TimesOf
<1>10. TimesSorted'
  BY <1>1, <1>8, <1>9 DEF TimesSorted, DividedBetween
<1>11. QED
  BY <1>1, <1>10 DEF TimeInvariant

(***************************************************************************)
(* The two merges agree                                                    *)
(***************************************************************************)

\* Both sequences have n rows, each as often as the other.
SameRows(s, t, n) ==
  /\ DOMAIN s = 1 .. n /\ DOMAIN t = 1 .. n
  /\ \A T : Cardinality({k \in 1 .. n : s[k] \in T}) = Cardinality({k \in 1 .. n : t[k] \in T})

\* A rearrangement keeps the rows of every case.
LEMMA TracesKeepRows ==
  ASSUME NEW n \in Nat, NEW s, DOMAIN s = 1 .. n, NEW t, DOMAIN t = 1 .. n, Rearrangements(s, t, n) # {}, NEW c
  PROVE  /\ CaseLength(t, c, n) = CaseLength(s, c, n)
         /\ SameRows(Trace(s, c), Trace(t, c), CaseLength(s, c, n))
<1> DEFINE P == OfCase(s, c, n)
           Q == OfCase(t, c, n)
           m == Cardinality(P)
           u == Trace(s, c)
           v == Trace(t, c)
           S(T) == {i \in 1 .. n : s[i] \in T}
           R(T) == {i \in 1 .. n : t[i] \in T}
<1>1. PICK f \in [1 .. n -> 1 .. n] : Rearranges(f, n) /\ \A i \in 1 .. n : s[i] = t[f[i]]
  BY DEF Rearrangements
<1>2. P \in SUBSET (1 .. n) /\ Q \in SUBSET (1 .. n)
  BY DEF OfCase
<1>3. Takes(f, P, Q, n) /\ \A T : Takes(f, P \cap S(T), Q \cap R(T), n)
  BY <1>1 DEF Takes, OfCase
<1>4. Cardinality(Q) = m
  <2> HIDE DEF P, Q
  <2>1. QED
    BY <1>1, <1>3, MappedCount
<1>5. ASSUME NEW T PROVE Cardinality(P \cap S(T)) = Cardinality(Q \cap R(T))
  <2>1. Takes(f, P \cap S(T), Q \cap R(T), n)
    BY <1>3
  <2> HIDE DEF P, Q, S, R
  <2>2. QED
    BY <1>1, <2>1, MappedCount
<1>6. u = [k \in 1 .. m |-> s[Kth(P, k)]] /\ \A k \in 1 .. m : Kth(P, k) \in 1 .. n
  BY TraceRows DEF CaseLength
<1>7. v = [k \in 1 .. m |-> t[Kth(Q, k)]] /\ \A k \in 1 .. m : Kth(Q, k) \in 1 .. n
  <2>1. /\ v = [k \in 1 .. Cardinality(Q) |-> t[Kth(Q, k)]]
        /\ \A k \in 1 .. Cardinality(Q) : Kth(Q, k) \in 1 .. n
    BY TraceRows DEF CaseLength
  <2>2. QED
    BY <1>4, <2>1
<1> HIDE DEF u, v
<1>8. ASSUME NEW T
      PROVE  Cardinality({k \in 1 .. m : u[k] \in T}) = Cardinality({k \in 1 .. m : v[k] \in T})
  <2>1. {k \in 1 .. m : u[k] \in T} = {k \in 1 .. m : Kth(P, k) \in S(T)}
    BY <1>6
  <2>2. {k \in 1 .. m : v[k] \in T} = {k \in 1 .. m : Kth(Q, k) \in R(T)}
    BY <1>7
  <2> HIDE DEF P, Q, S, R
  <2>3. Cardinality({k \in 1 .. m : Kth(P, k) \in S(T)}) = Cardinality(P \cap S(T))
    BY <1>2, KthCounts
  <2>4. Cardinality({k \in 1 .. m : Kth(Q, k) \in R(T)}) = Cardinality(Q \cap R(T))
    <3>1. Cardinality({k \in 1 .. Cardinality(Q) : Kth(Q, k) \in R(T)}) = Cardinality(Q \cap R(T))
      BY <1>2, KthCounts
    <3>2. QED
      BY <1>4, <3>1
  <2>5. QED
    BY <1>5, <2>1, <2>2, <2>3, <2>4
<1>9. SameRows(u, v, m)
  BY <1>6, <1>7, <1>8 DEF SameRows
<1>10. QED
  BY <1>4, <1>9 DEF CaseLength, u, v

\* Of two sequences with the same rows whose times do not fall neither is ahead.
LEMMA NotBehind ==
  ASSUME NEW n \in Nat, NEW s, NEW t, SameRows(s, t, n), Ascends(s, n), Ascends(t, n), NEW k \in 1 .. n
  PROVE  t[k].time <= s[k].time
<1> SUFFICES ASSUME ~(t[k].time <= s[k].time) PROVE FALSE
  OBVIOUS
<1> DEFINE x == s[k].time
           T == {r \in {s[i] : i \in 1 .. n} \cup {t[i] : i \in 1 .. n} : r.time <= x}
           A == {i \in 1 .. n : s[i] \in T}
           B == {i \in 1 .. n : t[i] \in T}
<1>1. x \in Nat /\ t[k].time \in Nat /\ x < t[k].time
  BY DEF Ascends
<1>2. 1 .. k \subseteq A
  <2> SUFFICES ASSUME NEW i \in 1 .. k PROVE i \in A
    OBVIOUS
  <2>1. i \in 1 .. n /\ (i < k \/ i = k)
    OBVIOUS
  <2>2. s[i].time <= x
    BY <1>1, <2>1 DEF Ascends
  <2>3. QED
    BY <2>1, <2>2
<1>3. B \subseteq 1 .. k - 1
  <2> SUFFICES ASSUME NEW i \in 1 .. n, t[i].time <= x PROVE i \in 1 .. k - 1
    OBVIOUS
  <2>1. ~(k < i) /\ k # i
    BY <1>1 DEF Ascends
  <2>2. QED
    BY <2>1
<1>4. Cardinality(A) = Cardinality(B)
  <2> HIDE DEF T
  <2>1. QED
    BY DEF SameRows
<1>5. A \subseteq 1 .. n /\ IsFiniteSet(1 .. n)
  <2>1. A \subseteq 1 .. n
    OBVIOUS
  <2> HIDE DEF A, B
  <2>2. IsFiniteSet(1 .. n)
    BY FS_Interval
  <2>3. QED
    BY <2>1, <2>2
<1> HIDE DEF A, B, x, T
<1>6. k - 1 \in Nat /\ IsFiniteSet(1 .. k) /\ Cardinality(1 .. k) = k
  <2>1. k - 1 \in Nat /\ 1 \in Int /\ k \in Int /\ k >= 1
    OBVIOUS
  <2>2. QED
    BY ONLY <2>1, FS_Interval
<1>7. IsFiniteSet(1 .. k - 1) /\ Cardinality(1 .. k - 1) = k - 1
  BY <1>6, FS_Interval
<1>8. IsFiniteSet(A) /\ Cardinality(A) \in Nat /\ k <= Cardinality(A)
  BY <1>2, <1>5, <1>6, FS_Subset, FS_CardinalityType
<1>9. Cardinality(B) <= k - 1
  <2> DEFINE J == 1 .. k - 1
  <2>1. B \subseteq J /\ IsFiniteSet(J) /\ Cardinality(J) = k - 1
    BY <1>3, <1>7
  <2> HIDE DEF J
  <2>2. Cardinality(B) <= Cardinality(J)
    BY <2>1, FS_Subset
  <2>3. QED
    BY <2>1, <2>2
<1>10. QED
  BY <1>4, <1>8, <1>9

\* So that they agree in all times, and in their rows where no two times are equal.
LEMMA SortedAlike ==
  ASSUME NEW n \in Nat, NEW s, NEW t, SameRows(s, t, n), Ascends(s, n), Ascends(t, n)
  PROVE  /\ \A k \in 1 .. n : s[k].time = t[k].time
         /\ Distinct(s) => \A k \in 1 .. n : s[k] = t[k]
<1>1. \A k \in 1 .. n : s[k].time = t[k].time
  <2> SUFFICES ASSUME NEW k \in 1 .. n PROVE s[k].time = t[k].time
    OBVIOUS
  <2>1. SameRows(t, s, n)
    BY Zenon DEF SameRows
  <2>2. t[k].time <= s[k].time
    BY NotBehind
  <2>3. s[k].time <= t[k].time
    BY <2>1, NotBehind
  <2>4. s[k].time \in Nat /\ t[k].time \in Nat
    BY DEF Ascends
  <2>5. QED
    BY <2>2, <2>3, <2>4
<1>2. ASSUME Distinct(s), NEW k \in 1 .. n PROVE s[k] = t[k]
  <2> DEFINE T == {t[k]}
             A == {i \in 1 .. n : s[i] \in T}
             B == {i \in 1 .. n : t[i] \in T}
  <2>1. A # {}
    <3>1. Cardinality(A) = Cardinality(B)
      BY DEF SameRows
    <3>2. k \in B /\ B \subseteq 1 .. n /\ IsFiniteSet(1 .. n)
      BY FS_Interval
    <3> HIDE DEF A, B
    <3>3. IsFiniteSet(B)
      BY <3>2, FS_Subset
    <3>4. Cardinality(B) # 0
      BY <3>2, <3>3, FS_EmptySet
    <3>5. QED
      BY <3>1, <3>4, FS_EmptySet
  <2>2. PICK j \in 1 .. n : s[j] = t[k]
    BY <2>1
  <2>3. s[j].time = s[k].time
    BY <1>1, <2>2
  <2>4. j = k
    BY <1>2, <2>3 DEF Distinct, SameRows
  <2>5. QED
    BY <2>2, <2>4
<1>3. QED
  BY <1>1, <1>2

\* Every step keeps the invariant: the sort by time starts with undivided cases and ends
\* with every row a partition (secret_batch_quicksort, log_merge.py:135-245).
LEMMA TimeSteps ==
  LoopInvariant /\ LoopInvariant' /\ SortInvariant /\ TimeInvariant /\ [Next]_vars => TimeInvariant'
<1> SUFFICES ASSUME LoopInvariant, LoopInvariant', SortInvariant, TimeInvariant, [Next]_vars
             PROVE  TimeInvariant'
  OBVIOUS
<1>1. CASE Shuffle \/ Encrypt \/ PopRange \/ CompareWithPivot \/ PlacePivot
  <2>1. pc' \in {"encrypt", "pop", "partition"}
    BY <1>1 DEF Shuffle, Encrypt, PopRange, CompareWithPivot, PlacePivot
  <2>2. QED
    BY <2>1 DEF TimeInvariant
<1>2. CASE MarkBoundaries
  BY <1>2, CasesUndivided
<1>3. CASE SplitPartitions
  BY <1>3, SplitSorts
<1>4. CASE Finish
  <2>1. /\ pc = "times" /\ events' = events /\ events_copy' = events_copy /\ partitions' = partitions
        /\ N' = N /\ Cardinality(partitions) = N
    BY <1>4 DEF Finish, N
  <2>2. TimesSorted /\ N \in Nat /\ partitions \subseteq 1 .. N
    BY <2>1 DEF TimeInvariant, SortInvariant, Divided
  <2>3. IsFiniteSet(1 .. N) /\ Cardinality(1 .. N) = N
    BY <2>2, FS_Interval
  <2>4. partitions = 1 .. N
    BY <2>1, <2>2, <2>3, FS_Subset
  <2>5. \A c : TimesOf(c)' = TimesOf(c)
    BY <2>1 DEF TimesOf
  <2>6. TimesSorted'
    BY <2>1, <2>2, <2>5 DEF TimesSorted, DividedBetween
  <2>7. QED
    BY <2>1, <2>4, <2>6 DEF TimeInvariant
<1>5. CASE UNCHANGED vars
  <2>1. events' = events /\ events_copy' = events_copy /\ partitions' = partitions /\ N' = N /\ pc' = pc
    BY <1>5 DEF vars, N
  <2>2. \A c : TimesOf(c)' = TimesOf(c)
    BY <2>1 DEF TimesOf
  <2>3. TimesSorted => TimesSorted'
    BY <2>1, <2>2 DEF TimesSorted, DividedBetween
  <2>4. QED
    BY <2>1, <2>3 DEF TimeInvariant
<1>6. QED
  BY <1>1, <1>2, <1>3, <1>4, <1>5 DEF Next

\* The rounds of comparisons sort the rows of a case as far as they divide them
\* (secret_batch_quicksort, log_merge.py:135-245).
THEOREM RoundsSort == Spec => []TimeInvariant
<1>1. InitWith(EventTables) => TimeInvariant
  BY DEF InitWith, TimeInvariant
<1>2. QED
  BY <1>1, QuickLoop, QuickSorts, TimeSteps, PTL DEF Spec

\* MergesLikeRadixSort, for any table, width, shuffle and key: both merges end with the same
\* rows in a case, in the order of time if the comparisons order its timestamps, and so with
\* the same sequence of timestamps, and of rows where no two timestamps are equal
\* (log_merge.py:247-296 against 298-307).
THEOREM MergesAgree == Spec => []MergesLikeRadixSort
<1>1. LoopInvariant /\ SortInvariant /\ TimeInvariant => MergesLikeRadixSort
  <2> SUFFICES ASSUME LoopInvariant, SortInvariant, TimeInvariant, pc = "done", NEW c,
                      SameSign({Trace(events_copy, c)[i].time : i \in DOMAIN Trace(events_copy, c)})
               PROVE  LET trace == Trace(events_copy, c)
                          radix == Trace(SortByCaseId(SortByTimestamp(events)), c)
                      IN  /\ Distinct(trace) => trace = radix
                          /\ [i \in DOMAIN trace |-> trace[i].time] = [i \in DOMAIN radix |-> radix[i].time]
                          /\ \A i \in DOMAIN radix : Occurrences(trace, radix[i]) = Occurrences(radix, radix[i])
    BY DEF MergesLikeRadixSort
  <2> DEFINE merged == SortByCaseId(SortByTimestamp(events))
             trace == Trace(events_copy, c)
             radix == Trace(merged, c)
             m == CaseLength(events, c, N)
  <2>1. /\ N \in Nat /\ DOMAIN events = 1 .. N /\ DOMAIN events_copy = 1 .. N
        /\ \A i \in 1 .. N : events[i].case \in Nat /\ events[i].time \in Nat
        /\ \A i \in 1 .. N : events_copy[i].time \in Nat
        /\ Rearrangements(events_copy, events, N) # {}
        /\ TimesSorted /\ partitions = 1 .. N
    <3>1. N \in Nat /\ events \in [1 .. N -> EventRow] /\ events_copy \in [1 .. N -> EventRow]
      <4>1. events \in Seq(EventRow)
        BY DEF LoopInvariant, EventTables, EventRow
      <4>2. QED
        BY <4>1 DEF SortInvariant, N
    <3>2. \A row \in EventRow : row.case \in Nat /\ row.time \in Nat
      BY PrimeAssumption DEF EventRow, Field
    <3> HIDE DEF trace, radix, m, merged
    <3>3. /\ \A i \in 1 .. N : events[i] \in EventRow /\ events_copy[i] \in EventRow
          /\ DOMAIN events = 1 .. N /\ DOMAIN events_copy = 1 .. N
      BY <3>1
    <3>4. Rearrangements(events_copy, events, N) # {} /\ TimesSorted /\ partitions = 1 .. N
      BY DEF SortInvariant, TimeInvariant
    <3>5. QED
      BY <3>1, <3>2, <3>3, <3>4
  <2>2. PICK order \in [1 .. N -> 1 .. N] : /\ Merging(order, events, N)
                                            /\ merged = [p \in 1 .. N |-> events[order[p]]]
    <3>1. Mergings(events, N) # {}
      BY <2>1, TwoSortsMerge
    <3>2. QED
      BY <3>1 DEF Mergings
  <2> HIDE DEF merged
  <2>3. Rearrangements(merged, events, N) # {}
    <3>1. Rearranges(order, N) /\ \A p \in 1 .. N : merged[p] = events[order[p]]
      BY <2>2 DEF Merging
    <3>2. order \in Rearrangements(merged, events, N)
      BY <3>1 DEF Rearrangements
    <3>3. QED
      BY <3>2
  <2>4. DOMAIN merged = 1 .. N
    BY <2>2
  <2>5. /\ CaseLength(events, c, N) = CaseLength(events_copy, c, N)
        /\ SameRows(trace, Trace(events, c), CaseLength(events_copy, c, N))
    BY <2>1, TracesKeepRows
  <2>6. /\ CaseLength(events, c, N) = CaseLength(merged, c, N)
        /\ SameRows(radix, Trace(events, c), CaseLength(merged, c, N))
    BY <2>1, <2>3, <2>4, TracesKeepRows
  <2>7. SameRows(trace, radix, m)
    <3>1. SameRows(trace, Trace(events, c), m) /\ SameRows(radix, Trace(events, c), m)
      BY <2>5, <2>6
    <3>2. QED
      BY <3>1, Zenon DEF SameRows
  <2>8. /\ m \in Nat
        /\ trace = [k \in 1 .. m |-> events_copy[Kth(OfCase(events_copy, c, N), k)]]
        /\ CaseAscends(events_copy, c, N) => Ascends(trace, m)
    BY <2>1, <2>5, TraceRows
  <2>9. /\ radix = [k \in 1 .. m |-> merged[Kth(OfCase(merged, c, N), k)]]
        /\ CaseAscends(merged, c, N) => Ascends(radix, m)
    BY <2>1, <2>4, <2>6, TraceRows
  <2>10. SameSign(TimesOf(c)) /\ SameSign({merged[p].time : p \in OfCase(merged, c, N)})
    <3> DEFINE times == {trace[i].time : i \in DOMAIN trace}
               mine == {merged[p].time : p \in OfCase(merged, c, N)}
    <3>1. SameSign(times) /\ DOMAIN trace = 1 .. m
      BY <2>8
    <3>2. \A i \in 1 .. N : events_copy[i].case = c => \E k \in 1 .. m : trace[k] = events_copy[i]
      <4>1. ShowsCase(events_copy, c, N)
        BY <2>1, TraceRows
      <4>2. QED
        BY <2>5, <4>1 DEF ShowsCase
    <3> HIDE DEF trace, m
    <3>3. TimesOf(c) \subseteq times
      <4> SUFFICES ASSUME NEW j \in 1 .. N, events[j].case = c PROVE events[j].time \in times
        BY DEF TimesOf
      <4>1. PICK i \in 1 .. N : events_copy[i] = events[j]
        <5>1. PICK f \in [1 .. N -> 1 .. N] : Rearranges(f, N) /\ \A i \in 1 .. N : events_copy[i] = events[f[i]]
          BY <2>1 DEF Rearrangements
        <5>2. PICK i \in 1 .. N : f[i] = j
          BY <5>1 DEF Rearranges
        <5>3. QED
          BY <5>1, <5>2
      <4>2. PICK k \in 1 .. m : trace[k] = events_copy[i]
        BY <3>2, <4>1
      <4>3. QED
        BY <3>1, <4>1, <4>2
    <3>4. mine \subseteq TimesOf(c)
      BY <2>2 DEF OfCase, TimesOf
    <3> HIDE DEF times, mine
    <3>5. SameSign(TimesOf(c)) /\ SameSign(mine)
      BY <3>1, <3>3, <3>4 DEF SameSign
    <3>6. QED
      BY <3>5 DEF mine
  <2>11. CaseAscends(events_copy, c, N)
    <3>1. ASSUME NEW i \in 1 .. N, NEW l \in 1 .. N, i < l PROVE DividedBetween(i, l)
      BY <2>1, <3>1 DEF DividedBetween
    <3>2. QED
      BY <2>1, <2>10, <3>1 DEF CaseAscends, TimesSorted
  <2>12. CaseAscends(merged, c, N)
    BY <2>1, <2>2, <2>10, CaseMergedInOrder
  <2> HIDE DEF trace, radix, m
  <2>13. Ascends(trace, m) /\ Ascends(radix, m)
    BY <2>8, <2>9, <2>11, <2>12
  <2>14. /\ \A k \in 1 .. m : trace[k].time = radix[k].time
         /\ Distinct(trace) => \A k \in 1 .. m : trace[k] = radix[k]
    BY <2>7, <2>8, <2>13, SortedAlike
  <2>15. DOMAIN trace = 1 .. m /\ DOMAIN radix = 1 .. m
    BY <2>7 DEF SameRows
  <2>16. Distinct(trace) => trace = radix
    BY <2>8, <2>9, <2>14, <2>15
  <2>17. [i \in DOMAIN trace |-> trace[i].time] = [i \in DOMAIN radix |-> radix[i].time]
    BY <2>14, <2>15
  <2>18. ASSUME NEW r PROVE Occurrences(trace, r) = Occurrences(radix, r)
    <3>1. Cardinality({k \in 1 .. m : trace[k] \in {r}}) = Cardinality({k \in 1 .. m : radix[k] \in {r}})
      BY <2>7, Zenon DEF SameRows
    <3>2. /\ {k \in 1 .. m : trace[k] \in {r}} = {k \in DOMAIN trace : trace[k] = r}
          /\ {k \in 1 .. m : radix[k] \in {r}} = {k \in DOMAIN radix : radix[k] = r}
      BY <2>15
    <3>3. QED
      BY <3>1, <3>2 DEF Occurrences
  <2>19. QED
    BY <2>16, <2>17, <2>18 DEF trace, radix, merged
<1>2. QED
  BY <1>1, QuickLoop, QuickSorts, RoundsSort, PTL

(***************************************************************************)
(* The graphs built on the merge by quicksort                              *)
(***************************************************************************)

\* The width covers the number.
LEMMA CeilLog2Covers == ASSUME NEW n \in Nat PROVE CeilLog2(n) \in Nat /\ 2^CeilLog2(n) >= n
<1>1. \E k \in 0 .. n : 2^k >= n /\ \A j \in 0 .. k-1 : 2^j < n
  BY LeastPower
<1>2. CeilLog2(n) \in 0 .. n /\ 2^CeilLog2(n) >= n
  BY <1>1 DEF CeilLog2
<1>3. QED
  BY <1>2

\* The bits of a value below the length asked for are all of it.
LEMMA DemuxKeepsBits ==
  ASSUME NEW n \in Nat, NEW x \in Nat, x < n
  PROVE  x \in 0 .. n-1 /\ x % 2^CeilLog2(n) = x
<1> DEFINE h == 2^CeilLog2(n)
<1>1. h \in Nat /\ x < h
  BY CeilLog2Covers, PowerIsNatural
<1> HIDE DEF h
<1>2. x % h = x /\ x \in 0 .. n-1
  BY <1>1
<1>3. QED
  BY <1>2 DEF h

\* B has the successors of the positions in A.
Followed(A, B, n) ==
  /\ A \subseteq 1 .. n - 1 /\ B \subseteq 2 .. n
  /\ \A i \in 1 .. n - 1 : i \in A <=> i + 1 \in B

\* Two such sets are equally large.
LEMMA ShiftedCount ==
  ASSUME NEW n \in Nat, NEW A, NEW B, Followed(A, B, n)
  PROVE  Cardinality(A) = Cardinality(B)
<1> DEFINE g == [i \in A |-> i + 1]
<1>1. g \in [A -> B] /\ \A i \in A : g[i] = i + 1 /\ i \in Int
  BY DEF Followed
<1>2. \A l \in B : \E i \in A : g[i] = l
  <2> SUFFICES ASSUME NEW l \in B PROVE \E i \in A : g[i] = l
    OBVIOUS
  <2>1. l \in Int /\ l - 1 \in 1 .. n - 1 /\ (l - 1) + 1 = l
    BY DEF Followed
  <2>2. l - 1 \in A
    BY <2>1 DEF Followed
  <2>3. QED
    BY <1>1, <2>1, <2>2
<1> HIDE DEF g
<1>3. \A i, l \in A : g[i] = g[l] => i = l
  BY <1>1
<1>4. IsFiniteSet(A)
  <2>1. IsFiniteSet(1 .. n) /\ A \subseteq 1 .. n
    BY FS_Interval DEF Followed
  <2>2. QED
    BY <2>1, FS_Subset
<1>5. g \in Bijection(A, B)
  BY <1>1, <1>2, <1>3 DEF Bijection, Injection, Surjection, IsInjective
<1>6. QED
  BY <1>4, <1>5, FS_Bijection DEF ExistsBijection

\* A table with the starts of its cases.
Graphed(log, new, n) ==
  /\ n \in Nat /\ n >= 1 /\ DOMAIN log = 1 .. n /\ Len(log) = n
  /\ \A i \in 1 .. n : log[i].act \in Act
  /\ new = NewCase(log)

\* The successions within a case, and the first and last events of cases.
Successions(log, new, n, a, b) == {i \in 1 .. n - 1 : i + 1 \notin new /\ log[i].act = a /\ log[i+1].act = b}
Firsts(log, new, b) == {i \in new : log[i].act = b}
Lasts(log, new, n, a) == {i \in 1 .. n : (i = n \/ i + 1 \in new) /\ log[i].act = a}

\* Every way to build the graph counts these.
FrequencyOf(log, new, n, a, b) ==
  Cardinality(Successions(log, new, n, a, b))
    + (IF a = Bottom THEN Cardinality(Firsts(log, new, b)) ELSE 0)
    + (IF b = Bottom THEN Cardinality(Lasts(log, new, n, a)) ELSE 0)

\* They can be counted.
LEMMA CountsAreNatural ==
  ASSUME NEW log, NEW new, NEW n, Graphed(log, new, n), NEW a, NEW b
  PROVE  /\ new \subseteq 1 .. n /\ 1 \in new
         /\ Cardinality(Successions(log, new, n, a, b)) \in Nat
         /\ Cardinality(Firsts(log, new, b)) \in Nat
         /\ Cardinality(Lasts(log, new, n, a)) \in Nat
<1>1. new \subseteq 1 .. n /\ 1 \in new /\ n \in Nat
  BY DEF Graphed, NewCase
<1>2. IsFiniteSet(1 .. n)
  BY <1>1, FS_Interval
<1>3. 1 .. n - 1 \subseteq 1 .. n
  BY <1>1
<1>4. /\ Successions(log, new, n, a, b) \subseteq 1 .. n
      /\ Firsts(log, new, b) \subseteq 1 .. n
      /\ Lasts(log, new, n, a) \subseteq 1 .. n
  BY <1>1, <1>3 DEF Successions, Firsts, Lasts
<1>5. QED
  BY <1>1, <1>2, <1>4, FS_Subset, FS_CardinalityType

\* The oblivious construction counts them
\* (build_directly_follows_graph_and_its_artifacts, dfg.py).
LEMMA ObliviousCounts ==
  ASSUME NEW log, NEW new, NEW n, Graphed(log, new, n), NEW a \in Label, NEW b \in Label
  PROVE  DirectlyFollows(DemuxedEvents(log), new, CaseEnd(log))[a][b] = FrequencyOf(log, new, n, a, b)
<1> DEFINE shown == DemuxedEvents(log)
           B == {i \in DOMAIN shown \ new : a \in shown[i-1] /\ b \in shown[i]}
<1>1. /\ n \in Nat /\ n >= 1 /\ DOMAIN log = 1 .. n /\ Len(log) = n /\ M \in Nat /\ M + 1 \in Nat
      /\ \A i \in 1 .. n : log[i].act \in Nat /\ log[i].act < M + 1
  BY MAssumption DEF Graphed, Act
<1>2. DOMAIN shown = 1 .. n /\ \A i \in 1 .. n : shown[i] = {log[i].act}
  <2>1. ASSUME NEW i \in 1 .. n PROVE Demux(log[i].act, M + 1, TRUE) = {log[i].act}
    <3>1. log[i].act \in 0 .. (M+1)-1 /\ log[i].act % 2^CeilLog2(M+1) = log[i].act
      BY <1>1, DemuxKeepsBits
    <3>2. QED
      BY <3>1 DEF Demux
  <2>2. QED
    BY <1>1, <2>1 DEF DemuxedEvents
<1>3. new \subseteq 1 .. n /\ 1 \in new
  BY CountsAreNatural
<1> HIDE DEF shown
<1>4. Cardinality(Successions(log, new, n, a, b)) = Cardinality(B)
  <2>1. B \subseteq 2 .. n
    BY <1>1, <1>2, <1>3
  <2>2. Successions(log, new, n, a, b) \subseteq 1 .. n - 1
    BY DEF Successions
  <2>3. ASSUME NEW i \in 1 .. n - 1 PROVE i \in Successions(log, new, n, a, b) <=> i + 1 \in B
    <3>1. i \in 1 .. n /\ i + 1 \in 1 .. n /\ (i + 1) - 1 = i
      BY <1>1
    <3>2. shown[i] = {log[i].act} /\ shown[i+1] = {log[i+1].act}
      BY <1>2, <3>1
    <3>3. QED
      BY <1>2, <3>1, <3>2 DEF Successions
  <2>4. Followed(Successions(log, new, n, a, b), B, n)
    BY <2>1, <2>2, <2>3 DEF Followed
  <2> HIDE DEF B
  <2>5. QED
    BY <1>1, <2>4, ShiftedCount
<1>5. {i \in new : b \in shown[i]} = Firsts(log, new, b)
  BY <1>2, <1>3 DEF Firsts
<1>6. {i \in CaseEnd(log) : a \in shown[i]} = Lasts(log, new, n, a)
  <2>1. CaseEnd(log) = {i \in 1 .. n : i = n \/ i + 1 \in new}
    BY <1>1 DEF CaseEnd, Graphed
  <2>2. QED
    BY <1>2, <2>1 DEF Lasts
<1>7. DirectlyFollows(shown, new, CaseEnd(log))[a][b]
        = Cardinality(B) + (IF a = Bottom THEN Cardinality({i \in new : b \in shown[i]}) ELSE 0)
            + (IF b = Bottom THEN Cardinality({i \in CaseEnd(log) : a \in shown[i]}) ELSE 0)
  BY DEF DirectlyFollows, Follows, Starts, Ends
<1>8. QED
  BY <1>4, <1>5, <1>6, <1>7 DEF FrequencyOf, shown

\* The construction by three products of demultiplexed rows counts them
\* (build_directly_follows_graph_and_its_artifacts_by_leaking_case_length_distribution, dfg.py).
LEMMA LeakingCounts ==
  ASSUME NEW log, NEW new, NEW n, Graphed(log, new, n), NEW a \in Label, NEW b \in Label
  PROVE  by_leaking_case_length_distribution(log, new)[a][b] = FrequencyOf(log, new, n, a, b)
<1> DEFINE shown == DemuxedEvents(log)
           masked == [i \in DOMAIN log |-> Demux(ActivityOf(log, i), M + 1, i \notin new)]
           A == {i \in 1 .. Len(log) - 1 : a \in shown[i] /\ b \in masked[i+1]}
           S == {i \in DOMAIN log : a \in start_bottom(new, i) /\ b \in shown[i]}
           E == {i \in DOMAIN log : a \in shown[i] /\ b \in end_bottom(log, new, i)}
<1>1. /\ n \in Nat /\ n >= 1 /\ DOMAIN log = 1 .. n /\ Len(log) = n /\ M \in Nat /\ M + 1 \in Nat
      /\ \A i \in 1 .. n : log[i].act \in Nat /\ log[i].act < M + 1
  BY MAssumption DEF Graphed, Act
<1>2. DOMAIN shown = 1 .. n /\ \A i \in 1 .. n : shown[i] = {log[i].act}
  <2>1. ASSUME NEW i \in 1 .. n PROVE Demux(log[i].act, M + 1, TRUE) = {log[i].act}
    <3>1. log[i].act \in 0 .. (M+1)-1 /\ log[i].act % 2^CeilLog2(M+1) = log[i].act
      BY <1>1, DemuxKeepsBits
    <3>2. QED
      BY <3>1 DEF Demux
  <2>2. QED
    BY <1>1, <2>1 DEF DemuxedEvents
<1>3. \A i \in 1 .. n : masked[i] = IF i \notin new THEN {log[i].act} ELSE {}
  <2>1. ASSUME NEW i \in 1 .. n
        PROVE  Demux(log[i].act, M + 1, i \notin new) = IF i \notin new THEN {log[i].act} ELSE {}
    <3>1. log[i].act \in 0 .. (M+1)-1 /\ log[i].act % 2^CeilLog2(M+1) = log[i].act
      BY <1>1, DemuxKeepsBits
    <3>2. QED
      BY <3>1 DEF Demux
  <2>2. QED
    BY <1>1, <2>1 DEF ActivityOf
<1>4. \A i : start_bottom(new, i) = IF i \in new THEN {Bottom} ELSE {}
  <2>1. ASSUME NEW i PROVE Demux(Bottom, M + 1, i \in new) = IF i \in new THEN {Bottom} ELSE {}
    <3>1. Bottom \in Nat /\ Bottom < M + 1
      BY <1>1 DEF Bottom
    <3>2. Bottom \in 0 .. (M+1)-1 /\ Bottom % 2^CeilLog2(M+1) = Bottom
      BY <1>1, <3>1, DemuxKeepsBits
    <3>3. QED
      BY <3>2 DEF Demux
  <2>2. QED
    BY <2>1 DEF start_bottom
<1>5. new \subseteq 1 .. n /\ 1 \in new
  BY CountsAreNatural
<1>6. by_leaking_case_length_distribution(log, new)[a][b] = Cardinality(A) + Cardinality(S) + Cardinality(E)
  BY DEF by_leaking_case_length_distribution, Count
<1> HIDE DEF shown, masked
<1>7. A = Successions(log, new, n, a, b)
  <2>1. ASSUME NEW i \in 1 .. n - 1
        PROVE  (a \in shown[i] /\ b \in masked[i+1]) <=> (i + 1 \notin new /\ log[i].act = a /\ log[i+1].act = b)
    <3>1. i \in 1 .. n /\ i + 1 \in 1 .. n
      BY <1>1
    <3>2. shown[i] = {log[i].act} /\ masked[i+1] = IF i + 1 \notin new THEN {log[i+1].act} ELSE {}
      BY <1>2, <1>3, <3>1
    <3>3. QED
      BY <3>2
  <2>2. QED
    BY <1>1, <2>1 DEF Successions
<1>8. Cardinality(S) = IF a = Bottom THEN Cardinality(Firsts(log, new, b)) ELSE 0
  <2>1. CASE a = Bottom
    <3>1. S = Firsts(log, new, b)
      <4>1. ASSUME NEW i \in 1 .. n
            PROVE  (a \in start_bottom(new, i) /\ b \in shown[i]) <=> (i \in new /\ log[i].act = b)
        BY <1>2, <1>4, <2>1
      <4>2. QED
        BY <1>1, <1>5, <4>1 DEF Firsts
    <3>2. QED
      BY <2>1, <3>1
  <2>2. CASE a # Bottom
    <3>1. S = {}
      BY <1>4, <2>2
    <3>2. QED
      BY <2>2, <3>1, FS_EmptySet
  <2>3. QED
    BY <2>1, <2>2
<1>9. \A i \in 1 .. n : end_bottom(log, new, i) = IF i = n \/ i + 1 \in new THEN {Bottom} ELSE {}
  BY <1>1, <1>4 DEF end_bottom
<1>10. Cardinality(E) = IF b = Bottom THEN Cardinality(Lasts(log, new, n, a)) ELSE 0
  <2>1. CASE b = Bottom
    <3>1. E = Lasts(log, new, n, a)
      BY <1>1, <1>2, <1>9, <2>1 DEF Lasts
    <3>2. QED
      BY <2>1, <3>1
  <2>2. CASE b # Bottom
    <3>1. E = {}
      BY <1>1, <1>9, <2>2
    <3>2. QED
      BY <2>2, <3>1, FS_EmptySet
  <2>3. QED
    BY <2>1, <2>2
<1>11. QED
  BY <1>6, <1>7, <1>8, <1>10 DEF FrequencyOf

\* The construction that moves the transitions between cases aside counts them
\* (build_left_right_directly_follows_graph, dfg.py).
LEMMA LeftRightCounts ==
  ASSUME NEW log, NEW new, NEW n, Graphed(log, new, n), NEW a \in Label, NEW b \in Label
  PROVE  left_right(log, new)[a][b] = FrequencyOf(log, new, n, a, b)
<1> DEFINE transitions == 1 .. Len(log) - 1
           source(i) == Demux(ActivityOf(log, i) + Offset(new, i), 2 * (M + 1), TRUE)
           target(i) == Demux(ActivityOf(log, i + 1) + Offset(new, i), 2 * (M + 1), TRUE)
           W == {i \in transitions : a \in source(i) /\ b \in target(i)}
           E == {i \in transitions : a + M + 1 \in source(i)}
           S == {i \in transitions : b + M + 1 \in target(i)}
           first == {x \in {1} : a = Bottom /\ b \in Demux(ActivityOf(log, x), M + 1, TRUE)}
           last == {x \in {Len(log)} : b = Bottom /\ a \in Demux(ActivityOf(log, x), M + 1, TRUE)}
<1>1. /\ n \in Nat /\ n >= 1 /\ DOMAIN log = 1 .. n /\ Len(log) = n /\ M \in Nat /\ M + 1 \in Nat
      /\ \A i \in 1 .. n : log[i].act \in Nat /\ log[i].act < M
      /\ a \in Nat /\ a <= M /\ b \in Nat /\ b <= M
  BY MAssumption DEF Graphed, Act, Label
<1>2. new \subseteq 1 .. n /\ 1 \in new
  BY CountsAreNatural
<1>3. ASSUME NEW i \in 1 .. n - 1
      PROVE  /\ source(i) = {log[i].act + Offset(new, i)} /\ target(i) = {log[i+1].act + Offset(new, i)}
             /\ i + 1 \notin new => Offset(new, i) = 0
             /\ i + 1 \in new => Offset(new, i) = M + 1
             /\ log[i].act \in Nat /\ log[i].act < M /\ log[i+1].act \in Nat /\ log[i+1].act < M
  <2>1. i \in 1 .. n /\ i + 1 \in 1 .. n
    BY <1>1
  <2>2. /\ i + 1 \notin new => Offset(new, i) = 0
        /\ i + 1 \in new => Offset(new, i) = M + 1
    BY DEF Offset
  <2>3. /\ log[i].act \in Nat /\ log[i].act < M /\ log[i+1].act \in Nat /\ log[i+1].act < M
    BY <1>1, <2>1
  <2>4. /\ log[i].act + Offset(new, i) \in Nat /\ log[i].act + Offset(new, i) < 2 * (M + 1)
        /\ log[i+1].act + Offset(new, i) \in Nat /\ log[i+1].act + Offset(new, i) < 2 * (M + 1)
        /\ 2 * (M + 1) \in Nat
    <3> DEFINE x == log[i].act
               y == log[i+1].act
               o == Offset(new, i)
    <3>1. x \in Nat /\ x < M /\ y \in Nat /\ y < M /\ M \in Nat /\ (o = 0 \/ o = M + 1)
      BY <1>1, <2>2, <2>3
    <3> HIDE DEF x, y, o
    <3>2. x + o \in Nat /\ x + o < 2 * (M + 1) /\ y + o \in Nat /\ y + o < 2 * (M + 1) /\ 2 * (M + 1) \in Nat
      BY <3>1
    <3>3. QED
      BY <3>2 DEF x, y, o
  <2>5. /\ Demux(log[i].act + Offset(new, i), 2 * (M + 1), TRUE) = {log[i].act + Offset(new, i)}
        /\ Demux(log[i+1].act + Offset(new, i), 2 * (M + 1), TRUE) = {log[i+1].act + Offset(new, i)}
    <3> DEFINE x == log[i].act + Offset(new, i)
               y == log[i+1].act + Offset(new, i)
               w == 2 * (M + 1)
    <3>1. x \in Nat /\ x < w /\ y \in Nat /\ y < w /\ w \in Nat
      BY <2>4
    <3> HIDE DEF x, y, w
    <3>2. x \in 0 .. w-1 /\ x % 2^CeilLog2(w) = x /\ y \in 0 .. w-1 /\ y % 2^CeilLog2(w) = y
      BY <3>1, DemuxKeepsBits
    <3>3. Demux(x, w, TRUE) = {x} /\ Demux(y, w, TRUE) = {y}
      BY <3>2 DEF Demux
    <3>4. QED
      BY <3>3 DEF x, y, w
  <2>6. QED
    BY <2>2, <2>3, <2>5 DEF ActivityOf
<1>4. \A x \in 1 .. n : Demux(ActivityOf(log, x), M + 1, TRUE) = {log[x].act}
  <2>1. ASSUME NEW x \in 1 .. n PROVE Demux(log[x].act, M + 1, TRUE) = {log[x].act}
    <3>1. log[x].act \in Nat /\ log[x].act < M + 1
      BY <1>1
    <3>2. log[x].act \in 0 .. (M+1)-1 /\ log[x].act % 2^CeilLog2(M+1) = log[x].act
      BY <1>1, <3>1, DemuxKeepsBits
    <3>3. QED
      BY <3>2 DEF Demux
  <2>2. QED
    BY <2>1 DEF ActivityOf
<1>5. left_right(log, new)[a][b] =
        Cardinality(W) + (IF b = Bottom THEN Cardinality(E) ELSE 0) + (IF a = Bottom THEN Cardinality(S) ELSE 0)
          + (Cardinality(first) + Cardinality(last))
  BY DEF left_right, Unseen, Count
<1> HIDE DEF source, target
<1>6. W = Successions(log, new, n, a, b)
  <2>1. \A i \in 1 .. n - 1 : i \in W <=> i \in Successions(log, new, n, a, b)
    <3> SUFFICES ASSUME NEW i \in 1 .. n - 1 PROVE i \in W <=> i \in Successions(log, new, n, a, b)
      OBVIOUS
    <3>1. i \in W <=> a = log[i].act + Offset(new, i) /\ b = log[i+1].act + Offset(new, i)
      BY <1>1, <1>3
    <3>2. QED
      BY <1>1, <1>3, <3>1 DEF Successions
  <2>2. W \subseteq 1 .. n - 1 /\ Successions(log, new, n, a, b) \subseteq 1 .. n - 1
    BY <1>1 DEF Successions
  <2>3. QED
    BY <2>1, <2>2
<1>7. \A i \in 1 .. n - 1 : i \in E <=> i + 1 \in new /\ log[i].act = a
  <2> SUFFICES ASSUME NEW i \in 1 .. n - 1 PROVE i \in E <=> i + 1 \in new /\ log[i].act = a
    OBVIOUS
  <2>1. i \in E <=> a + M + 1 = log[i].act + Offset(new, i)
    BY <1>1, <1>3
  <2> DEFINE x == log[i].act
             o == Offset(new, i)
  <2>2. /\ x \in Nat /\ x < M /\ M \in Nat /\ a \in Nat /\ (i \in E <=> a + M + 1 = x + o)
        /\ (i + 1 \in new => o = M + 1) /\ (i + 1 \notin new => o = 0)
    BY <1>1, <1>3, <2>1
  <2> HIDE DEF x, o
  <2>3. (o = M + 1 => (a + M + 1 = x + o <=> x = a)) /\ (o = 0 => a + M + 1 # x + o)
    BY <2>2
  <2>4. i \in E <=> i + 1 \in new /\ x = a
    BY <2>2, <2>3
  <2>5. QED
    BY <2>4 DEF x
<1>8. \A i \in 1 .. n - 1 : i \in S <=> i + 1 \in new /\ log[i+1].act = b
  <2> SUFFICES ASSUME NEW i \in 1 .. n - 1 PROVE i \in S <=> i + 1 \in new /\ log[i+1].act = b
    OBVIOUS
  <2>1. i \in S <=> b + M + 1 = log[i+1].act + Offset(new, i)
    BY <1>1, <1>3
  <2> DEFINE x == log[i+1].act
             o == Offset(new, i)
  <2>2. /\ x \in Nat /\ x < M /\ M \in Nat /\ b \in Nat /\ (i \in S <=> b + M + 1 = x + o)
        /\ (i + 1 \in new => o = M + 1) /\ (i + 1 \notin new => o = 0)
    BY <1>1, <1>3, <2>1
  <2> HIDE DEF x, o
  <2>3. (o = M + 1 => (b + M + 1 = x + o <=> x = b)) /\ (o = 0 => b + M + 1 # x + o)
    BY <2>2
  <2>4. i \in S <=> i + 1 \in new /\ x = b
    BY <2>2, <2>3
  <2>5. QED
    BY <2>4 DEF x
<1>9. E \subseteq 1 .. n - 1 /\ S \subseteq 1 .. n - 1 /\ first \subseteq {1} /\ last \subseteq {n}
  BY <1>1
<1>10. /\ 1 \in first <=> a = Bottom /\ log[1].act = b
       /\ n \in last <=> b = Bottom /\ log[n].act = a
  <2>1. /\ Demux(ActivityOf(log, 1), M + 1, TRUE) = {log[1].act}
        /\ Demux(ActivityOf(log, n), M + 1, TRUE) = {log[n].act}
    <3>1. 1 \in 1 .. n /\ n \in 1 .. n
      BY <1>1
    <3>2. QED
      BY <1>4, <3>1
  <2>2. (1 \in first <=> a = Bottom /\ b \in {log[1].act}) /\ (n \in last <=> b = Bottom /\ a \in {log[n].act})
    BY <1>1, <2>1
  <2>3. QED
    BY <2>2
<1> HIDE DEF E, S, first, last, W
<1>11. /\ IsFiniteSet(E) /\ IsFiniteSet(S) /\ IsFiniteSet(first) /\ IsFiniteSet(last)
       /\ Cardinality(E) \in Nat /\ Cardinality(S) \in Nat
       /\ Cardinality(first) \in Nat /\ Cardinality(last) \in Nat
  <2>1. IsFiniteSet(1 .. n - 1) /\ IsFiniteSet({1}) /\ IsFiniteSet({n})
    <3>1. 1 \in Int /\ n - 1 \in Int
      BY <1>1
    <3>2. QED
      BY <3>1, FS_Interval, FS_Singleton
  <2>2. QED
    BY <1>9, <2>1, FS_Subset, FS_CardinalityType
<1>12. a = Bottom => Cardinality(Firsts(log, new, b)) = Cardinality(S) + Cardinality(first)
  <2> SUFFICES ASSUME a = Bottom PROVE Cardinality(Firsts(log, new, b)) = Cardinality(S) + Cardinality(first)
    OBVIOUS
  <2> DEFINE R == Firsts(log, new, b) \ {1}
  <2>1. R \subseteq 2 .. n
    <3>1. \A i \in 1 .. n : i # 1 => i \in 2 .. n
      BY <1>1
    <3>2. QED
      BY <1>2, <3>1 DEF Firsts
  <2>2. \A i \in 1 .. n - 1 : i \in S <=> i + 1 \in R
    <3> SUFFICES ASSUME NEW i \in 1 .. n - 1 PROVE i \in S <=> i + 1 \in R
      OBVIOUS
    <3>1. i + 1 # 1
      BY <1>1
    <3>2. QED
      BY <1>8, <3>1 DEF Firsts
  <2>3. Followed(S, R, n)
    BY <1>9, <2>1, <2>2 DEF Followed
  <2>4. Firsts(log, new, b) = R \cup first /\ R \cap first = {}
    <3>1. 1 \in first <=> 1 \in Firsts(log, new, b)
      BY <1>2, <1>10 DEF Firsts
    <3>2. QED
      BY <1>9, <3>1
  <2>5. IsFiniteSet(R)
    <3>1. IsFiniteSet(2 .. n)
      <4>1. 2 \in Int /\ n \in Int
        BY <1>1
      <4>2. QED
        BY <4>1, FS_Interval
    <3>2. QED
      BY <2>1, <3>1, FS_Subset
  <2> HIDE DEF R
  <2>6. Cardinality(S) = Cardinality(R)
    BY <1>1, <2>3, ShiftedCount
  <2>7. Cardinality(R \cup first) = Cardinality(R) + Cardinality(first) - Cardinality(R \cap first)
    BY <1>11, <2>5, FS_Union
  <2>8. Cardinality(R) \in Nat /\ Cardinality(R \cap first) = 0
    BY <2>4, <2>5, FS_EmptySet, FS_CardinalityType
  <2>9. Cardinality(Firsts(log, new, b)) = Cardinality(R) + Cardinality(first)
    BY <1>11, <2>4, <2>7, <2>8
  <2>10. QED
    BY <2>6, <2>9
<1>13. b = Bottom => Cardinality(Lasts(log, new, n, a)) = Cardinality(E) + Cardinality(last)
  <2> SUFFICES ASSUME b = Bottom PROVE Cardinality(Lasts(log, new, n, a)) = Cardinality(E) + Cardinality(last)
    OBVIOUS
  <2>1. Lasts(log, new, n, a) = E \cup last
    <3>1. \A i \in 1 .. n - 1 : i # n /\ i \in 1 .. n
      BY <1>1
    <3>2. \A i \in 1 .. n : i = n \/ i \in 1 .. n - 1
      BY <1>1
    <3>3. n \in 1 .. n
      BY <1>1
    <3>4. ASSUME NEW i \in Lasts(log, new, n, a) PROVE i \in E \cup last
      BY <1>7, <1>10, <3>2, <3>4 DEF Lasts
    <3>5. ASSUME NEW i \in E \cup last PROVE i \in Lasts(log, new, n, a)
      BY <1>7, <1>9, <1>10, <3>1, <3>3 DEF Lasts
    <3>6. QED
      BY <3>4, <3>5
  <2>2. E \cap last = {}
    BY <1>1, <1>9
  <2>3. Cardinality(E \cup last) = Cardinality(E) + Cardinality(last) - Cardinality(E \cap last)
    BY <1>11, FS_Union
  <2>4. QED
    BY <1>11, <2>1, <2>2, <2>3, FS_EmptySet
<1>14. (a # Bottom => Cardinality(first) = 0) /\ (b # Bottom => Cardinality(last) = 0)
  <2>1. (a # Bottom => first = {}) /\ (b # Bottom => last = {})
    BY <1>9, <1>10
  <2>2. QED
    BY <2>1, FS_EmptySet
<1>15. Cardinality(Successions(log, new, n, a, b)) \in Nat
  BY CountsAreNatural
<1>16. QED
  BY <1>5, <1>6, <1>11, <1>12, <1>13, <1>14, <1>15 DEF FrequencyOf

\* GraphsAgree, for any table that is not empty, any number of activities and cases: all ways
\* to build the graph count the same successions, starts and ends (dfg.py).
THEOREM AllGraphsAgree == LeakingSpec => []GraphsAgree
<1> DEFINE Indices == events \in ActivityTables
<1>1. LoopInvariant /\ SortInvariant /\ Indices => GraphsAgree
  <2> SUFFICES ASSUME LoopInvariant, SortInvariant, Indices, pc = "done"
               PROVE  /\ by_leaking_case_length_distribution(events_copy, is_new_case) =
                           DirectlyFollows(DemuxedEvents(events_copy), NewCase(events_copy), CaseEnd(events_copy))
                      /\ left_right(events_copy, is_new_case) =
                           DirectlyFollows(DemuxedEvents(events_copy), NewCase(events_copy), CaseEnd(events_copy))
    BY DEF GraphsAgree
  <2> DEFINE n == N
             log == events_copy
             new == is_new_case
  <2>1. new = NewCase(log)
    BY StartsOfCases
  <2>2. n \in Nat /\ n >= 1 /\ DOMAIN log = 1 .. n /\ Len(log) = n
    <3>1. events \in Seq([case : Field, act : Act, time : Nat]) /\ events # <<>>
      BY DEF ActivityTables
    <3>2. n \in Nat /\ n >= 1
      BY <3>1 DEF N
    <3>3. log \in [1 .. n -> EventRow]
      BY DEF SortInvariant
    <3>4. log \in Seq(EventRow)
      BY <3>2, <3>3
    <3>5. QED
      BY <3>2, <3>3, <3>4
  <2>3. \A i \in 1 .. n : log[i].act \in Act
    <3>1. PICK f \in [1 .. n -> 1 .. n] : \A i \in 1 .. n : log[i] = events[f[i]]
      BY DEF SortInvariant, Rearrangements
    <3>2. \A i \in 1 .. n : events[i].act \in Act
      <4> DEFINE R == [case : Field, act : Act, time : Nat]
      <4>1. events \in Seq(R)
        BY DEF ActivityTables
      <4>2. \A row \in R : row.act \in Act
        OBVIOUS
      <4> HIDE DEF R
      <4>3. \A i \in 1 .. n : events[i] \in R
        BY <4>1 DEF N
      <4>4. QED
        BY <4>2, <4>3
    <3>3. QED
      BY <3>1, <3>2
  <2> HIDE DEF n, log, new
  <2>4. Graphed(log, new, n)
    BY <2>1, <2>2, <2>3 DEF Graphed
  <2> DEFINE oblivious == DirectlyFollows(DemuxedEvents(log), NewCase(log), CaseEnd(log))
  <2>5. \A a, b \in Label :
          /\ by_leaking_case_length_distribution(log, new)[a][b] = oblivious[a][b]
          /\ left_right(log, new)[a][b] = oblivious[a][b]
    BY <2>1, <2>4, ObliviousCounts, LeakingCounts, LeftRightCounts
  <2>6. by_leaking_case_length_distribution(log, new) = oblivious
    <3>1. by_leaking_case_length_distribution(log, new) =
            [a \in Label |-> [b \in Label |-> by_leaking_case_length_distribution(log, new)[a][b]]]
      BY DEF by_leaking_case_length_distribution
    <3>2. oblivious = [a \in Label |-> [b \in Label |-> oblivious[a][b]]]
      BY DEF DirectlyFollows
    <3> HIDE DEF oblivious
    <3>3. QED
      BY <2>5, <3>1, <3>2
  <2>7. left_right(log, new) = oblivious
    <3>1. left_right(log, new) = [a \in Label |-> [b \in Label |-> left_right(log, new)[a][b]]]
      BY DEF left_right
    <3>2. oblivious = [a \in Label |-> [b \in Label |-> oblivious[a][b]]]
      BY DEF DirectlyFollows
    <3> HIDE DEF oblivious
    <3>3. QED
      BY <2>5, <3>1, <3>2
  <2>8. QED
    BY <2>6, <2>7 DEF log, new
<1>2. InitWith(ActivityTables) => InitWith(EventTables) /\ Indices
  <2> SUFFICES ASSUME NEW t \in ActivityTables PROVE t \in EventTables
    BY DEF InitWith
  <2>1. t \in Seq([case : Field, act : Act, time : Nat]) /\ Act \subseteq Nat
    BY MAssumption DEF ActivityTables, Act
  <2>2. [case : Field, act : Act, time : Nat] \subseteq [case : Field, act : Nat, time : Nat]
    BY <2>1
  <2> DEFINE R == [case : Field, act : Act, time : Nat]
             Q == [case : Field, act : Nat, time : Nat]
  <2>3. t \in Seq(R) /\ R \subseteq Q
    BY <2>1, <2>2
  <2> HIDE DEF R, Q
  <2>4. t \in Seq(Q)
    BY <2>3
  <2>5. QED
    BY <2>4 DEF EventTables, Q
<1>3. Indices /\ [Next]_vars => Indices'
  <2>1. [Next]_vars => events' = events
    BY DEF Next, vars, Shuffle, Encrypt, PopRange, CompareWithPivot, PlacePivot, MarkBoundaries, SplitPartitions, Finish
  <2>2. QED
    BY <2>1
<1>4. QED
  BY <1>1, <1>2, <1>3, QuickLoop, QuickSorts, PTL DEF LeakingSpec, Spec
===============================================================================
