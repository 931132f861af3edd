-------------------------------- MODULE LapData --------------------------------
(***************************************************************************)
(* The laps of the timers of a computation: parsed from the output of a    *)
(* party, kept in its report, compressed when the report is stored or      *)
(* sent, and decompressed when they are read again                         *)
(* (MPSPDZClient.py, parse_mpspdz_output; computationreport.py).           *)
(*                                                                         *)
(* A reading of a timer is its time, rounds, bytes and, since version      *)
(* 0.4.3 of the runtime, its CPU time.  The encodings around the           *)
(* compressed entries (JSON, zlib, base64) return what they were given and *)
(* are left out.  Bytes are printed as decimal MB and read back by a       *)
(* product of floats that is truncated; here the product is exact.         *)
(***************************************************************************)
EXTENDS Integers, Sequences, FiniteSets, Optional

CONSTANTS
  Timer,       \* timers of the program
  MaxLaps      \* bound: laps of one output

Reading == [time : Nat, rounds : Nat, data : Nat, cpu : Nat \cup {None}]
Lap     == [start : Reading, stop : Reading, idle : Nat]
Entry   == [time : Nat, rounds : Int, data : Int, cpu : Nat \cup {None}, idle : Nat]

\* The laps of some of the timers, as they are and compressed.
LapTable   == UNION {[T -> Seq(Lap)] : T \in SUBSET Timer}
EntryTable == UNION {[T -> Seq(Entry)] : T \in SUBSET Timer}
LapReport  == [decoded : LapTable \cup {None}, compressed : EntryTable \cup {None}]

ASSUME LapAssumption ==
  /\ None \notin Reading /\ None \notin LapReport
  /\ \A T \in SUBSET Timer : None \notin [T -> Seq(Lap)] /\ None \notin [T -> Seq(Entry)]

VARIABLES
  has_cpu,     \* the runtime prints CPU times
  started,     \* the reading at which each timer was started, None if it is stopped
  elapsed,     \* the reading of each timer, kept by the running program
  measured,    \* laps of each timer that was stopped
  report       \* the report's laps, decoded and compressed, None before there is one

lapVars == <<has_cpu, started, elapsed, measured, report>>

LapInit ==
  /\ has_cpu \in BOOLEAN
  /\ started = [t \in Timer |-> None]
  /\ elapsed = [t \in Timer |-> [time |-> 0, rounds |-> 0, data |-> 0, cpu |-> IF has_cpu THEN 0 ELSE None]]
  /\ measured = [t \in {} |-> <<>>]
  /\ report = None

Laps(t) == IF t \in DOMAIN measured THEN measured[t] ELSE <<>>

ParsedLaps == UNION {{t} \X DOMAIN measured[t] : t \in DOMAIN measured}
Parsed == Cardinality(ParsedLaps)

\* A timer is started at the reading it was stopped at; the parser asserts that it is
\* not running.
StartTimer(t) ==
  /\ report = None /\ started[t] = None /\ Parsed < MaxLaps
  /\ started' = [started EXCEPT ![t] = elapsed[t]]
  /\ UNCHANGED <<has_cpu, elapsed, measured, report>>

\* The running timers have gone on when timer t stops; the idle time is another one in
\* every lap.
StopTimer(t) ==
  /\ report = None /\ started[t] # None
  /\ \E rounds, data \in 0 .. 1 :
       LET stop == [time |-> started[t].time + 1, rounds |-> started[t].rounds + rounds,
                    data |-> started[t].data + data,
                    cpu |-> IF has_cpu THEN started[t].cpu + 2 ELSE None]
           lap  == [start |-> started[t], stop |-> stop, idle |-> Parsed]
       IN  /\ elapsed' = [elapsed EXCEPT ![t] = stop]
           /\ measured' = [u \in DOMAIN measured \cup {t} |->
                             IF u = t THEN Append(Laps(t), lap) ELSE measured[u]]
  /\ started' = [started EXCEPT ![t] = None]
  /\ UNCHANGED <<has_cpu, report>>

\* The report of a party that has ended has the laps as they were parsed; a timer that
\* still runs has no lap for it.
Parse ==
  /\ report = None /\ DOMAIN measured # {}
  /\ report' = [decoded |-> measured, compressed |-> None]
  /\ UNCHANGED <<has_cpu, started, elapsed, measured>>

\* A lap must start where the one before it stopped.
Contiguous(laps) == \A i \in 1 .. Len(laps) - 1 : laps[i + 1].start = laps[i].stop

\* Mutant: differences from the first lap.
compress_from_first(laps) ==
  [i \in DOMAIN laps |->
     LET stop == laps[i].stop
         from == IF i = 1 THEN [rounds |-> 0, data |-> 0] ELSE laps[1].stop
     IN  [time |-> stop.time, rounds |-> stop.rounds - from.rounds,
          data |-> stop.data - from.data, cpu |-> stop.cpu, idle |-> laps[i].idle]]

\* The stop of the first lap, then the differences of rounds and bytes; times and idle
\* times as they are.
compress_laps(laps) ==
  [i \in DOMAIN laps |->
     LET stop == laps[i].stop
         from == IF i = 1 THEN [rounds |-> 0, data |-> 0] ELSE laps[i - 1].stop
     IN  [time |-> stop.time, rounds |-> stop.rounds - from.rounds,
          data |-> stop.data - from.data, cpu |-> stop.cpu, idle |-> laps[i].idle]]

compress_timer_lap_data(data) == [t \in DOMAIN data |-> compress_laps(data[t])]

\* The readings at which the laps stop are summed up; the first lap has no length.
Totals(entries) ==
  LET total[i \in 0 .. Len(entries)] ==
        IF i = 0 THEN [rounds |-> 0, data |-> 0]
        ELSE [rounds |-> total[i-1].rounds + entries[i].rounds,
              data   |-> total[i-1].data + entries[i].data]
  IN  total

decompress_laps(entries) ==
  LET StopOf(i) == [time |-> entries[i].time, rounds |-> Totals(entries)[i].rounds,
                    data |-> Totals(entries)[i].data, cpu |-> entries[i].cpu]
  IN  [i \in DOMAIN entries |->
         [start |-> StopOf(IF i = 1 THEN 1 ELSE i - 1), stop |-> StopOf(i),
          idle |-> entries[i].idle]]

decompress_timer_lap_data(comp) == [t \in DOMAIN comp |-> decompress_laps(comp[t])]

\* The laps a report is asked for; it decompresses them at the first time.
timers_lap_data(r) ==
  IF r.decoded # None THEN r.decoded ELSE decompress_timer_lap_data(r.compressed)

\* The compressed form is used again when there is one.
to_serializable_dict(r) ==
  IF r.compressed # None THEN r.compressed ELSE compress_timer_lap_data(r.decoded)

\* A report is stored and read again, or sent and received; no assertion of the
\* compression fails.
from_serializable_dict ==
  /\ report # None
  /\ report.compressed = None => \A t \in DOMAIN report.decoded : Contiguous(report.decoded[t])
  /\ report' = [decoded |-> None, compressed |-> to_serializable_dict(report)]
  /\ UNCHANGED <<has_cpu, started, elapsed, measured>>

\* The laps are read; the compressed form is kept.
ReadLaps ==
  /\ report # None
  /\ report' = [report EXCEPT !.decoded = timers_lap_data(report)]
  /\ UNCHANGED <<has_cpu, started, elapsed, measured>>

\* A new report has the decoded laps only.
reduce_verbosity ==
  /\ report # None
  /\ report' = [decoded |-> timers_lap_data(report), compressed |-> None]
  /\ UNCHANGED <<has_cpu, started, elapsed, measured>>

LapNext ==
  \/ \E t \in Timer : StartTimer(t) \/ StopTimer(t)
  \/ Parse \/ from_serializable_dict \/ ReadLaps \/ reduce_verbosity

LapSpec == LapInit /\ [][LapNext]_lapVars

-------------------------------------------------------------------------------

\* Laps as measured, except that the first of a timer may have lost its length.
Agree(laps, m) ==
  /\ Len(laps) = Len(m)
  /\ \A i \in DOMAIN m :
       \/ laps[i] = m[i]
       \/ i = 1 /\ laps[1] = [m[1] EXCEPT !.start = m[1].stop]

\* However often a report is stored, received, read and made less verbose, it can be
\* stored once more, and its laps are those that were measured; only the start of a
\* timer's first lap may be lost (computationreport.py:811-831, 890-926).
LapsSurvive ==
  report # None =>
    LET laps == timers_lap_data(report)
    IN  /\ DOMAIN laps = DOMAIN measured
        /\ \A t \in DOMAIN measured : Agree(laps[t], measured[t]) /\ Contiguous(laps[t])
===============================================================================
