------------------------------- MODULE LogMerge -------------------------------
(***************************************************************************)
(* From the partial logs to the merged event table: the driver reads one   *)
(* log per organization and may fix the order of the events, the parties   *)
(* put the logs into one shared table, and two stable radix sorts, first   *)
(* by timestamp and then by case, merge it (merge_logs_by_oblivious_radix_ *)
(* sort).                                                                  *)
(***************************************************************************)
EXTENDS EventLog

CONSTANTS Organizations,   \* number of parties, each with one log
          InputLimit       \* no larger number is accepted as input, 2^63

ASSUME OrganizationsAssumption == Organizations \in Nat \ {0} /\ InputLimit \in Nat

VARIABLES
  logs,    \* logs[o]: what organization o - 1 recorded, in the order of its file
  fixed,   \* the property fixed-event-order
  inputs,  \* encoded_event_logs, by organization
  table,   \* the shared table and its sorted copies
  stage    \* "read", "order", "encode", "timestamps", "cases", "merged" or "refused"

mergeVars == <<logs, fixed, inputs, table, stage>>

\* A case id is a hash of as many bits as the case ids of the program, and a timestamp the
\* seconds since 1970.
Event == [case : 0 .. 2^CaseBits - 1, act : Nat, time : Nat]

NoLogs == [o \in 1 .. Organizations |-> <<>>]

MergeInit(recorded) ==
  /\ logs \in recorded
  /\ fixed \in BOOLEAN
  /\ inputs = NoLogs
  /\ table = <<>>
  /\ stage = "read"

\* read_event_logs
ReadLogs ==
  /\ stage = "read"
  /\ inputs' = logs
  /\ stage' = IF fixed THEN "order" ELSE "encode"
  /\ UNCHANGED <<logs, fixed, table>>

\* The number of events of the organizations before o.
EventsBefore(o) ==
  LET before[p \in 0 .. Organizations] == IF p = 0 THEN 0 ELSE before[p-1] + Len(inputs[p])
  IN  before[o-1]

\* fixed-event-order: one counter runs through all logs and is added to the
\* timestamps.
FixEventOrder ==
  /\ stage = "order"
  /\ inputs' = [o \in 1 .. Organizations |-> [i \in DOMAIN inputs[o] |->
                  [inputs[o][i] EXCEPT !.time = @ + EventsBefore(o) + i - 1]]]
  /\ stage' = "encode"
  /\ UNCHANGED <<logs, fixed, table>>

WithinLimit(event) == event.case <= InputLimit /\ event.act <= InputLimit /\ event.time <= InputLimit

\* The logs of the organizations, one after the other.
AllOf(parts) ==
  LET upto[p \in 0 .. Organizations] == IF p = 0 THEN <<>> ELSE upto[p-1] \o parts[p]
  IN  upto[Organizations]

\* A row has the index of the submitting party as a fourth column.
Labelled(o) ==
  [i \in DOMAIN inputs[o] |->
     [case |-> inputs[o][i].case, act |-> inputs[o][i].act, time |-> inputs[o][i].time, org |-> o - 1]]

\* encode_event_log_as_input, and the program's table.
Submit ==
  /\ stage = "encode"
  /\ IF \A o \in 1 .. Organizations : \A i \in DOMAIN inputs[o] : WithinLimit(inputs[o][i])
     THEN table' = AllOf([o \in 1 .. Organizations |-> Labelled(o)]) /\ stage' = "timestamps"
     ELSE stage' = "refused" /\ UNCHANGED table
  /\ UNCHANGED <<logs, fixed, inputs>>

\* Mutant: the sort moves the key and leaves the other columns in place.
SortTimestampColumn ==
  /\ stage = "timestamps"
  /\ table' = [i \in DOMAIN table |-> [table[i] EXCEPT !.time = SortByTimestamp(table)[i].time]]
  /\ stage' = "cases"
  /\ UNCHANGED <<logs, fixed, inputs>>

SortTimestamps ==
  /\ stage = "timestamps"
  /\ table' = SortByTimestamp(table)
  /\ stage' = "cases"
  /\ UNCHANGED <<logs, fixed, inputs>>

SortCases ==
  /\ stage = "cases"
  /\ table' = SortByCaseId(table)
  /\ stage' = "merged"
  /\ UNCHANGED <<logs, fixed, inputs>>

MergeNext == ReadLogs \/ FixEventOrder \/ Submit \/ SortTimestamps \/ SortCases

MergeSpec == MergeInit([1 .. Organizations -> Seq(Event)]) /\ [][MergeNext]_mergeVars

(***************************************************************************)
(* Properties.                                                             *)
(***************************************************************************)
Columns(rows) == [k \in DOMAIN rows |-> <<rows[k].act, rows[k].time>>]

Submitted == AllOf(inputs)
Cases(rows) == {rows[i].case : i \in DOMAIN rows}

\* The rows of a case stand together, so that comparing neighbours finds exactly
\* one start and one end per case (log_merge.py:303-307, dfg.py:243-257).
CasesContiguous ==
  stage = "merged" =>
    \A c \in Cases(table) :
      /\ Cardinality({i \in NewCase(table) : table[i].case = c}) = 1
      /\ Cardinality({i \in CaseEnd(table) : table[i].case = c}) = 1

SameEvents(s, t) ==
  /\ Len(s) = Len(t)
  /\ \A e \in {s[k] : k \in DOMAIN s} \cup {t[k] : k \in DOMAIN t} :
       Cardinality({k \in DOMAIN s : s[k] = e}) = Cardinality({k \in DOMAIN t : t[k] = e})

\* No event of any party is lost, duplicated or moved to another case
\* (log_merge.py:298-307).
NothingLost ==
  stage = "merged" =>
    \A c \in Cases(Submitted) \cup Cases(table) :
      SameEvents(Columns(Trace(table, c)), Columns(Trace(Submitted, c)))

InTimeOrder(rows) == \A k \in 1 .. Len(rows) - 1 : rows[k].time <= rows[k+1].time

\* The rows of a case at a time, in their order.
At(rows, c, t) == RowsAt(rows, {i \in DOMAIN rows : rows[i].case = c /\ rows[i].time = t})

\* Each case is in the order of its timestamps as long as they agree in their
\* top bit, and events of equal timestamps are in the order of the organizations
\* and, within one of them, of its log (log_merge.py:298-307).
CasesInTimeOrder ==
  stage = "merged" =>
    \A c \in Cases(table) :
      SameSign({table[i].time : i \in {j \in DOMAIN table : table[j].case = c}}) =>
        /\ InTimeOrder(Trace(table, c))
        /\ \A t \in {table[i].time : i \in DOMAIN table} :
             Columns(At(table, c, t)) = Columns(At(Submitted, c, t))

(***************************************************************************)
(* A statement of the documentation that the code does not meet.           *)
(***************************************************************************)

\* fixed-event-order is about "events with identical timestamps": two events of
\* a case whose timestamps differ stay in the order of those.
FixedOrderKeepsTimeOrder ==
  stage = "merged" =>
    \A o, p \in 1 .. Organizations : \A i \in DOMAIN logs[o], j \in DOMAIN logs[p] :
      logs[o][i].case = logs[p][j].case /\ logs[o][i].time < logs[p][j].time
        => inputs[o][i].time <= inputs[p][j].time
===============================================================================
