------------------------------ MODULE MCKernels ------------------------------
(***************************************************************************)
(* Nine parts that share no state, one per initial state: the pools of the *)
(* collaboration, the demultiplexers, the imports and the timers of a      *)
(* program, the compiled programs of a host, the secrets of a handler, the *)
(* laps of timers in a report, the exchange with the backend and the       *)
(* download of its reports.  Of the other parts, processes, jobs, upload   *)
(* and pull are idle, and other variables are None.                        *)
(*                                                                         *)
(* Pools, two kinds of graphs, each flow from the smaller to the greater   *)
(* id.  Small: all graphs of the first four nodes, with up to three        *)
(* activities of two pools; they are searched and carried over.  Tied:     *)
(* nodes 1 and 2 are the activities, and no flow joins them to each other  *)
(* or to nodes 4 and K, so that both may reach K over several neighbours,  *)
(* and node 4 over these; the search only.                                 *)
(***************************************************************************)
EXTENDS PoolColoring, ProgramAnalysis, ProgramCache, ExperimentExchange, ReportDownload, LapData, Demux,
        SecretState, TLC

VARIABLES
  part

\* Two moduli of one domain, and a ring.
ConfigDomain == [c \in Configs |-> IF c = "ring" THEN "RING" ELSE "PRIME"]

\* The experiments are alike.
Alike == Permutations(Specs)

Ascends == {f \in Node \X Node : f[1] < f[2]}

SmallGraphs == SUBSET {f \in Ascends : f[2] <= 4}
SmallSeeds ==
  {a \in [Node -> Pool \cup {None}] : LET act == {n \in Node : a[n] # None}
                                      IN  Cardinality(act) <= 3 /\ act \subseteq 1 .. 4}

TiedGraphs == SUBSET (Ascends \ {<<1,2>>, <<1,4>>, <<2,4>>, <<1,K>>, <<2,K>>})
TiedSeeds  == {[n \in Node |-> IF n = 1 THEN 1 ELSE IF n = 2 THEN 2 ELSE None]}

poolVars == <<flows, seeds, coloring, queue, current, todo, todoFlows, bpmn>>
allVars == <<part, pc, poolVars, demuxVars, searchVars, timerVars, cacheVars, stateVars, exchangeVars,
             downloadVars, lapVars>>

NoPools == /\ flows = None /\ seeds = None /\ coloring = None /\ queue = None /\ current = None
           /\ todo = None /\ todoFlows = None /\ bpmn = None
NoDemux == call = None /\ result = None
NoSearch == imports = None /\ new_files = None /\ dependencies = None /\ rounds = 0
NoTimers == lines = None /\ timers = None
NoState == /\ prime = None /\ n_parties = None /\ supported = None /\ secrets = None /\ file = None
           /\ lagrange = None /\ phase = None /\ runs = None /\ truth = None /\ cached_for = None
NoLaps == has_cpu = None /\ started = None /\ elapsed = None /\ measured = None /\ report = None
NoCache == /\ program = None /\ library = None /\ Source = None /\ Dependencies = None
           /\ compiled = None /\ work = [p \in Procs |-> Idle] /\ turns = None /\ disturbed = [h \in Hash |-> {}]
NoExchange == /\ version = None /\ experiments = None /\ programs = None /\ reports = <<>> /\ push = NoPush
              /\ job = [e \in Specs |-> NoJob] /\ pushes = None /\ jobs = None /\ faults = None
NoDownload == /\ arrived = None /\ folder = None /\ pulls = None /\ interrupted = None
              /\ pull = [phase |-> "returned", listed |-> {}, report_ids |-> {}, open |-> {}]
NoKernel == pc = None /\ NoPools /\ NoDemux /\ NoSearch /\ NoTimers

NoBackend == NoExchange /\ NoDownload /\ NoLaps

MCInit ==
  \/ /\ part = "pools" /\ (InitWith(SmallGraphs, SmallSeeds) \/ InitWith(TiedGraphs, TiedSeeds))
     /\ NoDemux /\ NoSearch /\ NoTimers /\ NoCache /\ NoState /\ NoBackend
  \/ part = "demux" /\ DemuxInit /\ pc = None /\ NoPools /\ NoSearch /\ NoTimers /\ NoCache /\ NoState /\ NoBackend
  \/ /\ part = "search" /\ SearchInit
     /\ pc = None /\ NoPools /\ NoDemux /\ NoTimers /\ NoCache /\ NoState /\ NoBackend
  \/ /\ part = "timers" /\ TimerInit
     /\ pc = None /\ NoPools /\ NoDemux /\ NoSearch /\ NoCache /\ NoState /\ NoBackend
  \/ part = "cache" /\ CacheInit /\ NoKernel /\ NoState /\ NoBackend
  \/ part = "state" /\ StateInit /\ NoKernel /\ NoCache /\ NoBackend
  \/ part = "exchange" /\ ExchangeInit /\ NoKernel /\ NoCache /\ NoState /\ NoDownload /\ NoLaps
  \/ part = "download" /\ DownloadInit /\ NoKernel /\ NoCache /\ NoState /\ NoExchange /\ NoLaps
  \/ part = "laps" /\ LapInit /\ NoKernel /\ NoCache /\ NoState /\ NoExchange /\ NoDownload

kernelVars == <<pc, poolVars, demuxVars, searchVars, timerVars>>
runtimeVars == <<cacheVars, stateVars>>
serverVars == <<exchangeVars, downloadVars, lapVars>>

MCNext ==
  /\ UNCHANGED part
  /\ \/ part = "pools" /\ Next /\ UNCHANGED <<demuxVars, searchVars, timerVars, runtimeVars, serverVars>>
     \/ part = "demux" /\ Demultiplex /\ UNCHANGED <<pc, poolVars, searchVars, timerVars, runtimeVars, serverVars>>
     \/ /\ part = "search" /\ Round
        /\ UNCHANGED <<pc, poolVars, demuxVars, lines, timers, runtimeVars, serverVars>>
     \/ /\ part = "timers" /\ determine_program_timers
        /\ UNCHANGED <<pc, poolVars, demuxVars, imports, new_files, dependencies, rounds, runtimeVars, serverVars>>
     \/ part = "cache" /\ CacheNext /\ UNCHANGED <<kernelVars, stateVars, serverVars>>
     \/ part = "state" /\ StateNext /\ UNCHANGED <<kernelVars, cacheVars, serverVars>>
     \/ part = "exchange" /\ ExchangeNext /\ UNCHANGED <<kernelVars, runtimeVars, downloadVars, lapVars>>
     \/ part = "download" /\ DownloadNext /\ UNCHANGED <<kernelVars, runtimeVars, exchangeVars, lapVars>>
     \/ part = "laps" /\ LapNext /\ UNCHANGED <<kernelVars, runtimeVars, exchangeVars, downloadVars>>

MCSpec == MCInit /\ [][MCNext]_allVars

\* The flows of a tied graph are not carried over one by one.
SearchedOnly == part = "pools" => pc = "search" \/ flows \in SmallGraphs
===============================================================================
