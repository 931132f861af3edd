------------------------------ MODULE QuickMerge ------------------------------
(***************************************************************************)
(* The merge that discloses the lengths of the cases (merge_logs_by_       *)
(* encrypt_reveal_and_quicksort): the rows are shuffled, their case ids    *)
(* are encrypted under one secret key and opened, a quicksort without      *)
(* recursion groups the rows by ciphertext, and rounds of batched secret   *)
(* comparisons sort each case by time.  Rows are numbered from one.        *)
(***************************************************************************)
EXTENDS EventLog

CONSTANTS
  Prime,            \* modulus of the computation
  PrimeIsFixed,     \* the compiler knows it (program.prime)
  RoundConstants    \* of MiMC, from a hash

(***************************************************************************)
(* MiMC.  Without a known modulus cubing is taken to be a permutation.     *)
(***************************************************************************)
Divides(a, b) == b % a = 0

\* The degrees tried and their numbers of rounds.
Candidates == <<[d |-> 3, rounds |-> 73], [d |-> 5, rounds |-> 56], [d |-> 7, rounds |-> 46]>>
Permutes(c) == ~Divides(c.d, Prime - 1)   \* the degrees are prime

choose_degree ==
  IF ~PrimeIsFixed THEN Candidates[1]
  ELSE Candidates[CHOOSE i \in 1 .. 3 :
                    Permutes(Candidates[i]) /\ \A j \in 1 .. i-1 : ~Permutes(Candidates[j])]

ASSUME PrimeAssumption == Prime \in Nat /\ Prime > 2 /\ PrimeIsFixed \in BOOLEAN
ASSUME RoundConstantsAssumption == RoundConstants \in [0 .. 72 -> Nat]
ASSUME DegreeAssumption == \E i \in 1 .. (IF PrimeIsFixed THEN 3 ELSE 1) : Permutes(Candidates[i])

Field == 0 .. Prime - 1

\* x -> x^d, the power of a round.
Power == [x \in Field |-> x^choose_degree.d % Prime]

\* A degree without a common divisor with Prime - 1 permutes the field: the modulus
\* is a prime number.
ASSUME PowerAssumption == Power \in [Field -> Field] /\ \A x, y \in Field : Power[x] = Power[y] => x = y

\* The ciphertext of a case id under a key: rounds, then the key once more.
Cipher ==
  [key \in Field |-> [x \in Field |->
     LET state[i \in 0 .. choose_degree.rounds] ==
           IF i = 0 THEN x ELSE Power[(state[i-1] + key + RoundConstants[i-1]) % Prime]
     IN  (state[choose_degree.rounds] + key) % Prime]]

VARIABLES
  events,       \* the shared table
  events_copy,  \* its rows on their way
  keys,         \* encrypted_case_ids, opened
  stack,        \* the ranges still to be sorted
  turn,         \* turns of the bounded loop
  at,           \* the range being partitioned: lo, hi, pi and j
  is_new_case,  \* rows at which a case starts
  partitions,   \* rows at which a partition starts
  iteration_count,  \* rounds of the sort by time
  pc

vars == <<events, events_copy, keys, stack, turn, at, is_new_case, partitions, iteration_count, pc>>

Rows == 1 .. Len(events)
Idle == [lo |-> 1, hi |-> 1, pi |-> 1, j |-> 1]

InitWith(tables) ==
  /\ events \in tables
  /\ events_copy = events
  /\ keys = <<>> /\ stack = <<>> /\ turn = 0 /\ at = Idle
  /\ is_new_case = {} /\ partitions = {} /\ iteration_count = 0
  /\ pc = "shuffle"

Shuffle ==
  /\ pc = "shuffle"
  /\ \E f \in {g \in [Rows -> Rows] : \A i, j \in Rows : g[i] = g[j] => i = j} :
       events_copy' = [i \in Rows |-> events[f[i]]]
  /\ pc' = "encrypt"
  /\ UNCHANGED <<events, keys, stack, turn, at, is_new_case, partitions, iteration_count>>

\* Encrypt under a random key and open; the sort starts with one range.
Encrypt ==
  /\ pc = "encrypt"
  /\ \E key \in Field : keys' = [i \in Rows |-> Cipher[key][events_copy[i].case]]
  /\ stack' = IF Len(events) <= 1 THEN <<>> ELSE <<[lo |-> 1, hi |-> Len(events)]>>
  /\ pc' = "pop"
  /\ UNCHANGED <<events, events_copy, turn, at, is_new_case, partitions, iteration_count>>

(***************************************************************************)
(* clear_quicksort.                                                        *)
(***************************************************************************)

\* Mutant: the loop is cut two turns before the number of rows.
TurnsShort == Len(events) - 2

Turns == IF Len(events) <= 1 THEN 0 ELSE 2 * Len(events)

\* One turn of the loop takes the last range; with no range left it does nothing.
PopRange ==
  /\ pc = "pop" /\ turn < Turns
  /\ turn' = turn + 1
  /\ IF stack = <<>> THEN UNCHANGED <<stack, at, pc>>
     ELSE LET range == stack[Len(stack)] IN
          /\ stack' = SubSeq(stack, 1, Len(stack) - 1)
          /\ IF range.lo < range.hi
             THEN /\ at' = [lo |-> range.lo, hi |-> range.hi, pi |-> range.lo, j |-> range.lo]
                  /\ pc' = "partition"
             ELSE UNCHANGED <<at, pc>>
  /\ UNCHANGED <<events, events_copy, keys, is_new_case, partitions, iteration_count>>

Swapped(s, i, j) == [s EXCEPT ![i] = s[j], ![j] = s[i]]

\* Mutant: the keys are swapped without their rows.
CompareKeysOnly ==
  /\ pc = "partition" /\ at.j < at.hi
  /\ IF keys[at.j] <= keys[at.hi]
     THEN /\ keys' = Swapped(keys, at.pi, at.j)
          /\ at' = [at EXCEPT !.pi = @ + 1, !.j = @ + 1]
     ELSE at' = [at EXCEPT !.j = @ + 1] /\ UNCHANGED keys
  /\ UNCHANGED <<events, events_copy, stack, turn, is_new_case, partitions, iteration_count, pc>>

\* A key that is not above the pivot moves to the front, its row with it.
CompareWithPivot ==
  /\ pc = "partition" /\ at.j < at.hi
  /\ IF keys[at.j] <= keys[at.hi]
     THEN /\ keys' = Swapped(keys, at.pi, at.j)
          /\ events_copy' = Swapped(events_copy, at.pi, at.j)
          /\ at' = [at EXCEPT !.pi = @ + 1, !.j = @ + 1]
     ELSE at' = [at EXCEPT !.j = @ + 1] /\ UNCHANGED <<keys, events_copy>>
  /\ UNCHANGED <<events, stack, turn, is_new_case, partitions, iteration_count, pc>>

\* The parts beside the pivot that hold two rows or more.
RightRange == IF at.pi + 1 < at.hi THEN <<[lo |-> at.pi + 1, hi |-> at.hi]>> ELSE <<>>
LeftRange  == IF at.lo + 1 < at.pi THEN <<[lo |-> at.lo, hi |-> at.pi - 1]>> ELSE <<>>

PlacePivot ==
  /\ pc = "partition" /\ at.j = at.hi
  /\ keys' = Swapped(keys, at.pi, at.hi)
  /\ events_copy' = Swapped(events_copy, at.pi, at.hi)
  /\ stack' = stack \o RightRange \o LeftRange
  /\ pc' = "pop"
  /\ UNCHANGED <<events, turn, at, is_new_case, partitions, iteration_count>>

MarkBoundaries ==
  /\ pc = "pop" /\ turn = Turns
  /\ is_new_case' = {i \in Rows : i = 1 \/ keys[i] # keys[i-1]}
  /\ partitions' = is_new_case'
  /\ pc' = "times"
  /\ UNCHANGED <<events, events_copy, keys, stack, turn, at, iteration_count>>

(***************************************************************************)
(* secret_batch_quicksort.  In a round every row that does not start a     *)
(* partition is compared with the row that does.                           *)
(***************************************************************************)
Compared == Rows \ partitions

PivotOf(i) == CHOOSE s \in partitions : s <= i /\ \A t \in partitions : t <= i => t <= s

\* The least and the greatest count a circuit is for.
Bounds == (0 .. Len(events)) \X (0 .. Len(events))

\* Mutant: the bucket may end one comparison short.
ComparisonsShort(count) ==
  LET bucket[range \in Bounds] ==
        LET lower == range[1]
            upper == range[2]
            mid   == (lower + upper) \div 2
        IN  IF 10 * upper <= 11 * lower \/ upper <= lower + 1 THEN upper
            ELSE IF count <= mid + 1 THEN bucket[<<lower, mid>>] ELSE bucket[<<mid + 1, upper>>]
  IN  bucket[<<0, Len(events)>>]

\* dynamic_count_comparisons_with_public_output: the number of comparisons is
\* rounded up to that of a circuit that was compiled.
Comparisons(count) ==
  LET bucket[range \in Bounds] ==
        LET lower == range[1]
            upper == range[2]
            mid   == (lower + upper) \div 2
        IN  IF 10 * upper <= 11 * lower \/ upper <= lower + 1 THEN upper
            ELSE IF count <= mid THEN bucket[<<lower, mid>>] ELSE bucket[<<mid + 1, upper>>]
  IN  bucket[<<0, Len(events)>>]

\* x.less_equal(y, bit_length): no sign bit in y - x.
LessEqual(x, y, bits) == (y - x) % 2^bits < 2^(bits-1)

\* A comparison beyond the bucket counts as zero, that is, below the pivot.
BelowPivot ==
  {i \in Compared :
     \/ Cardinality({j \in Compared : j <= i}) > Comparisons(Cardinality(Compared))
     \/ ~LessEqual(events_copy[PivotOf(i)].time, events_copy[i].time, TimestampBits)}

\* The rows of a partition below its pivot s, the pivot, and its other rows, each
\* in the order they had.
Below(s) == {i \in BelowPivot : PivotOf(i) = s}
Place(below, i) ==
  LET s == PivotOf(i)
      mine == {j \in below : PivotOf(j) = s}
  IN  IF i \in below THEN s + Cardinality({j \in mine : j < i})
      ELSE i + Cardinality({j \in mine : j > i})

\* Mutant: a partition whose pivot is least stays as it is.
NewPartitionsIfBelow == partitions \cup {s + Cardinality(Below(s)) : s \in partitions}

\* A pivot starts a partition; one without rows below it leaves the partition of
\* the rows above it.
NewPartitions ==
  partitions \cup {s + Cardinality(Below(s)) : s \in partitions}
             \cup {s + 1 : s \in {t \in partitions : Below(t) = {} /\ t < Len(events)}}

SplitPartitions ==
  /\ pc = "times" /\ Cardinality(partitions) < Len(events)
  /\ LET below == BelowPivot
     IN  events_copy' = [k \in Rows |-> events_copy[CHOOSE i \in Rows : Place(below, i) = k]]
  /\ partitions' = NewPartitions
  /\ iteration_count' = iteration_count + 1
  /\ UNCHANGED <<events, keys, stack, turn, at, is_new_case, pc>>

Finish ==
  /\ pc = "times" /\ Cardinality(partitions) = Len(events)
  /\ pc' = "done"
  /\ UNCHANGED <<events, events_copy, keys, stack, turn, at, is_new_case, partitions, iteration_count>>

Next ==
  \/ Shuffle \/ Encrypt
  \/ PopRange \/ CompareWithPivot \/ PlacePivot \/ MarkBoundaries
  \/ SplitPartitions \/ Finish

\* Any table whose case ids are elements of the field.
EventTables == Seq([case : Field, act : Nat, time : Nat])
Spec == InitWith(EventTables) /\ [][Next]_vars

(***************************************************************************)
(* Properties.                                                             *)
(***************************************************************************)

\* The stack array, as long as the table, never overflows, and when the bounded
\* loop has made all its turns no range is left unsorted on it.
LoopBoundsSuffice ==
  /\ Len(stack) <= Len(events)
  /\ pc = "times" => stack = <<>>

\* From the ciphertexts alone the parties find where the cases start: there is one
\* start per case, and no row of another case before the next start.
StartsMatchCases ==
  pc \in {"times", "done"} =>
    /\ is_new_case = NewCase(events_copy)
    /\ Cardinality(is_new_case) = Cardinality({events[i].case : i \in Rows})

\* Every round of comparisons leaves all partitions and adds at least one, so that
\* the sort by time ends after as many rounds as there are rows, equal timestamps
\* or not.
SplitsFurther == partitions \subseteq partitions' /\ partitions # partitions'
EveryRoundSplits == [][pc = "times" /\ pc' = "times" => SplitsFurther]_vars

Occurrences(rows, row) == Cardinality({i \in DOMAIN rows : rows[i] = row})
Distinct(trace) == \A i, j \in DOMAIN trace : trace[i].time = trace[j].time => i = j

\* Both merges promise the same: the rows of a case whose timestamps differ come
\* out in the order of the oblivious radix sort, whatever the shuffle and the key;
\* with equal timestamps they come out in the order of time, none lost.
MergesLikeRadixSort ==
  pc = "done" =>
    \A c \in {events[i].case : i \in Rows} :
      LET trace == Trace(events_copy, c)
          radix == Trace(SortByCaseId(SortByTimestamp(events)), c)
      IN  SameSign({trace[i].time : i \in DOMAIN trace}) =>
            /\ Distinct(trace) => trace = radix
            /\ [i \in DOMAIN trace |-> trace[i].time] = [i \in DOMAIN radix |-> radix[i].time]
            /\ \A i \in DOMAIN radix : Occurrences(trace, radix[i]) = Occurrences(radix, radix[i])
===============================================================================
