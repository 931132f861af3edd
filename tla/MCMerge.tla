------------------------------- MODULE MCMerge -------------------------------
(***************************************************************************)
(* The two merges, one per initial state; the other one has no rows and    *)
(* stands still.                                                           *)
(*                                                                         *)
(* Radix: partial logs.  The four events 0 to 3, told apart by their       *)
(* activity, each in one of two cases and at one of the times of Times,    *)
(* dealt to two organizations in every way that keeps them in order.       *)
(*                                                                         *)
(* Quick: event tables, up to the order of their rows, which the shuffle   *)
(* ranges over.  Wide: four rows in three cases at two times.  Deep: one   *)
(* case of four rows at any time of three bits.  Long: six rows in four    *)
(* cases, so that both sides of a pivot can be put on the stack.           *)
(***************************************************************************)
EXTENDS LeakingDfg, LogMerge

CONSTANTS None, Times, Events

VARIABLE merge   \* "radix" or "quick"

MCEpsilon == [num |-> 1, den |-> 3]
MCRoundConstants == [i \in 0 .. 72 |-> (7 * i * i + 3) % 11]

CaseIds == {1, 5}   \* for CaseBits = 3, the second has the top bit

\* The first k events are the first organization's, the others the second's.
Dealt(f, k) ==
  [o \in 1 .. 2 |-> IF o = 1 THEN [i \in 1 .. k |-> f[i]]
                    ELSE [i \in 1 .. Events - k |-> f[k + i]]]

MCLogs ==
  {Dealt([e \in 1 .. Events |-> [case |-> cs[e], act |-> e - 1, time |-> ts[e]]], k) :
     cs \in [1 .. Events -> CaseIds], ts \in [1 .. Events -> Times], k \in 1 .. Events - 1}

Rank(row) == 16 * row.case + row.time

\* Tables of n rows in order; the activity of a row follows from its case and time.
Tables(n, cases, times) ==
  LET Row == [case : cases, time : times]
  IN  {[i \in 1 .. n |-> [case |-> t[i].case, time |-> t[i].time,
                          act |-> (t[i].case + t[i].time) % M]] :
         t \in {u \in [1 .. n -> Row] : \A i \in 1 .. n-1 : Rank(u[i]) <= Rank(u[i+1])}}

MCTables == Tables(4, {1, 2, 3}, {0, 1}) \cup Tables(4, {1}, 0 .. 7) \cup Tables(6, {0, 1, 2, 3}, {0})

allVars == <<merge, mergeVars, vars>>

NoRadix == logs = None /\ fixed = None /\ inputs = None /\ table = None /\ stage = None
NoQuick == /\ events = <<>> /\ events_copy = <<>> /\ keys = <<>> /\ stack = <<>> /\ turn = 0
           /\ at = Idle /\ is_new_case = {} /\ partitions = {} /\ iteration_count = 0
           /\ pc = None

MCInit ==
  \/ merge = "radix" /\ MergeInit(MCLogs) /\ NoQuick
  \/ merge = "quick" /\ InitWith(MCTables) /\ NoRadix

MCNext ==
  /\ UNCHANGED merge
  /\ \/ merge = "radix" /\ MergeNext /\ UNCHANGED vars
     \/ merge = "quick" /\ Next /\ UNCHANGED mergeVars

MCSpec == MCInit /\ [][MCNext]_allVars
===============================================================================
