------------------------------- MODULE EventLog -------------------------------
(***************************************************************************)
(* The event table the parties share and its oblivious radix sort.  A row  *)
(* is one event: the hashed case id, the activity index, the timestamp and *)
(* the organization that submitted it.  A table is a sequence of rows.     *)
(***************************************************************************)
EXTENDS Integers, FiniteSets, Sequences

CONSTANTS CaseBits,       \* NEON_CASE_ID_BITSIZE
          TimestampBits   \* NEON_TIMESTAMP_BITSIZE

ASSUME BitsAssumption == CaseBits \in Nat \ {0} /\ TimestampBits \in Nat \ {0}

\* A radix sort looks at the lowest bits of its key and takes the highest of
\* them for a sign: 0 <= x < 2^(bits-1) sorts above the rest.
RadixKey(x, bits) == (x + 2^(bits-1)) % 2^bits

\* Rows i and j come in this order whatever the sort does elsewhere: a smaller
\* key first, equal keys in the order of arrival.
Precedes(key, i, j) == key[i] < key[j] \/ (key[i] = key[j] /\ i <= j)

StableSort(rows, key) ==
  LET rank == [i \in DOMAIN rows |-> Cardinality({j \in DOMAIN rows : Precedes(key, j, i)})]
  IN  [p \in DOMAIN rows |-> rows[CHOOSE i \in DOMAIN rows : rank[i] = p]]

\* Mutant: the sort omits the highest bit of the timestamp.
SortByLowTimestampBits(rows) ==
  StableSort(rows, [i \in DOMAIN rows |-> RadixKey(rows[i].time, TimestampBits - 1)])

SortByTimestamp(rows) ==
  StableSort(rows, [i \in DOMAIN rows |-> RadixKey(rows[i].time, TimestampBits)])

\* Mutant: the sort omits the highest bit of the case id.
SortByLowCaseBits(rows) ==
  StableSort(rows, [i \in DOMAIN rows |-> RadixKey(rows[i].case, CaseBits) % 2^(CaseBits-1)])

SortByCaseId(rows) ==
  StableSort(rows, [i \in DOMAIN rows |-> RadixKey(rows[i].case, CaseBits)])

\* The k-th of a set of positions, and the rows of a table at them, in their order.
Kth(P, k) == CHOOSE i \in P : Cardinality({j \in P : j <= i}) = k
RowsAt(rows, P) == [k \in 1 .. Cardinality(P) |-> rows[Kth(P, k)]]

Trace(rows, c) == RowsAt(rows, {i \in DOMAIN rows : rows[i].case = c})

\* The sort by timestamp looks at the lowest bits of its key and takes the highest of
\* them for a sign: it orders timestamps that agree in it, and have no higher one.
SameSign(times) ==
  LET half == 2^(TimestampBits-1)
  IN  times \subseteq 0 .. half - 1 \/ times \subseteq half .. 2^TimestampBits - 1

\* The rows of a sorted table at which a case starts, and those at which it ends.
NewCase(log) == {i \in DOMAIN log : i = 1 \/ log[i].case # log[i-1].case}
CaseEnd(log) == {i \in DOMAIN log : i = Len(log) \/ i + 1 \in NewCase(log)}
===============================================================================
