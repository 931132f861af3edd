# Federated Split Miner: models, checks and proofs

The repository mines one process model from the event logs of several
organizations that do not show their logs to each other. Three parties run a
secure multi-party computation (an MP-SPDZ program) over the merged log, open
only the filtered directly-follows graph and what belongs to it, and send these
artifacts to a client, which builds a BPMN model with one pool per organization
set. The NEON runtime starts, measures and reports such runs, and a cleartext
reference miner repeats the computation for comparison.

This directory holds TLA+ modules of that program, TLC configurations that
check them, and TLAPS proofs. Paths below are relative to the repository;
`Dependencies/` stands for `src/code/federated/Programs/Dependencies/` and
`neon/` for `src/neonik-runtime/src/neonik/neon/`.

## 1. The system

| Component | State it keeps | Operations | Interacts with |
|---|---|---|---|
| Split-miner protocols (`Dependencies/split_miner.py`, `dfg.py`, `demux.py`) | secret-shared tables and matrices, from the event table to the opened graph | one stage after the other: validate, merge, count successions, loops, concurrency, prune, split start and end, two best-edge searches, eta filter, combine, bin activities, sanitize | reads the shared table; hands the artifacts to the socket session |
| Best-edge search (`split_miner.py:273-383`) | capacities, predecessors, visited flags, by secretly permuted position | relax, open the next position, undo the permutation | called twice by the filter |
| Log merge and input encoding (`main.py`, `utils.py`, `split_miner.mpc`, `log_merge.py`) | partial logs, encoded inputs, the shared table | read, fix the event order, encode, two stable radix sorts; alternatively case-id encryption and two quicksorts | feeds the protocols |
| Demultiplexing (`demux.py`) | none across calls, except a cache of a Lagrange basis | six protocols, single and in batches | used by every stage that counts |
| Cleartext reference (`src/code/reference/reference_split_miner.py`) | dictionaries of relations and arcs | the same stages in the clear | compared with the protocols |
| Session of parties and client (`socket_io.py`, `socket_client.py`, `split_miner_socket.py`, `main.py`) | sockets, flags and payloads under way, model files on disk | listen, accept, flags, send, receive and compare, write the model, release | driver, parties and client are separate processes |
| Pools (`split_miner_socket.py:39-209`) | a pool per node, a queue, the collaboration built so far | multi-source search, carry-over of flows | inside the client |
| Handlers (`neon/neonhandler.py`, `MPSPDZClient.py`, `XIO.py`) | phase of the handler, clients, delays on interfaces | compute, measure delay or bandwidth, launch and await parties, exceptions, clean-up | starts the session's processes; several run on one host |
| Virtual network (`neon/virtualnet.py`) | bridges and namespaces of the host, a lock file | draw an id, create, check, tear down | shared by all handlers of the host |
| Compilation cache (`neon/programhandler.py`) | sources, libraries, schedules and bytecode in the MP-SPDZ directory, by hash | substitute, hash, check, copy, compile, upload | shared by all processes of the host |
| Analysis of a program (`programhandler.py:264-432`) | none | find imports, number timers | before the compilation |
| Secrets (`neon/shamir.py`, `neonhandler.py:834-898`) | the secret, one file per party, cached Lagrange coefficients | share, write, read, reconstruct | between computations |
| Computation reports (`neon/computationreport.py`) | laps, plain and compressed | parse, compress, store, read | the output of a computation; the backend |
| Exchange with the backend (`script_utils.py`, `scripts/`) | experiments, programs and reports at the backend, files of reports | push in passes, jobs that hash, compile and run, pull | many processes on several hosts |
| Experiments (`spec.py`, `run_all_experiments.py`) | experiment files | validate, run in layers | loops over the runtime |

The behaviours that are hard:

* **Order that must not show.** The best-edge search runs in a secret random
  order and the neighbours of a BPMN node in the order of a Python set; the
  results must not depend on either.
* **Straight-line code without early exits.** The protocols go through the same
  number of rounds whatever the data is: they visit unreachable nodes, relax
  settled ones, demultiplex markers. The reference does none of this and the
  results must still agree.
* **Several processes.** A driver, three parties and a client meet over sockets;
  each may wait for another, the client may die, a party may send something
  different from the others, and model files of an earlier run lie on the disk.
* **Several handlers on one host.** Bridges, namespaces, the lock, the folder of
  libraries and the compiled programs are shared; only the choice of an id is
  under a lock, and tear-down is not atomic.
* **Exceptions and kills.** A computation may fail at every stage; clean-up is
  tried up to three times, by an exit handler and two destructors.
* **Timeouts and retries.** Posts are repeated although they may have arrived,
  jobs lose answers or crash, and the repository is edited between two of them.
* **Sorting by secret keys.** Contiguous and ordered cases rest on stability, on
  a sign bit and on bounded loops.

What makes each component correct:

* *Protocols*: every stage equals the reference's on the same input; the opened
  graph keeps the widest paths, every activity lies on a path from the start to
  the end, and the disclosed relation is one the graph itself shows.
* *Search*: widest paths, arcs that realise them, no trace of the permutation.
* *Merge*: cases contiguous, complete, in the order of time.
* *Demultiplexing*: exactly the unit vector, for all lengths, in the variants modelled.
* *Session*: the client takes artifacts in order and unaltered; parties are
  released after the model exists; no party computes without a client; a run
  whose client connected is reported.
* *Pools*: nearest seed, independent of any order; no sequence flow leaves a pool.
* *Handlers and networks*: a chosen id is nobody else's, a network and its delays
  hold while they are needed, nothing is left behind, every handler ends.
* *Cache*: a process runs a whole program, compiled from the text it hashed, unless
  a compilation of this hash ended while it wrote an output, or met another process
  with the same files.
* *Secrets*: what is reconstructed is what the parties share.
* *Reports*: the laps that come out are those that were measured.
* *Exchange*: nothing is given up silently or ordered twice, reports are of the
  program their experiment names, every compilation or run that ends leaves a
  product or an error, unless the backend refuses the error.

## 2. Modules

| Module | Models | State and actions |
|---|---|---|
| `WidestPath` | the search in the clear, `reference_split_miner.py:242-263` | `caps`, `preds`, `visited`; one action, `Visit`, takes a widest unsettled node and relaxes its arcs. `Spec` leaves ties open, `SpecDescending` takes the highest index, as the protocol does. This is the abstract specification |
| `ObliviousWidestPath` | the search on shares, `split_miner.py:273-383` | the shuffled adjacency, tentative capacities, predecessors and flags by position; `Relax`, `SelectNext`, `RestoreOrder`. The refinement to `WidestPath!SpecDescending` maps positions back through the permutation and a position counts as visited once it is relaxed |
| `EventLog` | the two radix sorts, the case boundaries, the trace of a case | operators; the sort takes the lowest bits of its key as a signed number, as MP-SPDZ does |
| `Optional` | a file, field or entry that holds nothing yet | the constant `None`, the same in all modules |
| `LogRelations` | demultiplexed events, directly-follows counts, loops, concurrency, pruning, split of the boundary index | operators on counts; comparisons at a bit length are taken modulo a power of two |
| `EdgeFilter` | the two searches as functions, best arcs, eta filter | operators; `find_best_incoming_edges` is the round loop as a recursive function and equals what `ObliviousWidestPath` computes (`ResultIsThePipelines`) |
| `ConcurrencySanitizer` | orphans, completion, masking of the disclosed relation, binning of activities | operators |
| `SplitMiner` | `build_split_miner_artifacts` | `stage` and the tables and matrices of the method; one action per timed stage |
| `ReferenceMiner` | `build_artifacts` of the cleartext reference | `pc` and `art`, the artifacts under construction; one action per block of the function |
| `MinerEquivalence` | both miners on one log | runs the reference, then the protocols, and states where they agree |
| `LogMerge` | read, fixed event order, encoding, validation, table, two sorts | partial logs per organization; `ReadLogs`, `FixEventOrder`, `Submit`, `SortTimestamps`, `SortCases` |
| `QuickMerge` | the merge that discloses case lengths, `log_merge.py:12-288`, with MiMC of `case_id_encryption.py` | the table, opened keys, the explicit stack, the partitions; `Shuffle`, `Encrypt`, one action per turn, comparison and pivot of the quicksort, one per round of batched comparisons |
| `LeakingDfg` | the two graphs with secret output built on that merge, `dfg.py:8-73, 143-195` | operators, compared in `GraphsAgree` |
| `Demux` | the six protocols of `demux.py`, each in one variant: Keller's for batches, the polynomials' for single indices, the comparison without a condition | one action that answers a call by all of them |
| `MinerSession` | driver, parties and client of a run | see section 4 |
| `PoolColoring` | `_color_pools` and `_apply_pools_to_bpmn` | queue, colours, the collaboration; a step per node taken, neighbour seen, flow carried over |
| `VirtualNetwork` | the networks of the processes of a host | `bridges`, `namespaces`, `lock` and a manager per process; an action per command that can fail or be overtaken: lock, draw, add the bridge, add a namespace, check, list, delete the bridge, delete a namespace. A process may be killed at any point |
| `NeonHandler` | the handlers of a host, on top of `VirtualNetwork` | a handler per process with its phase, clients, waiting and computing parties, and the delays of the interfaces; an action per method, `Raises` for an exception at any stage, `Kill` |
| `ProgramCache` | the compiled programs of a host | program and library versions, sources, libraries and outputs by hash, whole or torn, and what each process is at and has open; edits, hash, check and its exception, every copy and compiler output in two steps (open, which empties the file, and write), failures and kills in between, uploads |
| `ProgramAnalysis` | search for imports, numbering of timers | the round loop as an action; the numbering as one |
| `SecretState` | secrets over the computations of a handler | secret, shares as files, cached coefficients; configure, prepare, compute, recover. The loops over coefficients and parties are functions by recursion |
| `LapData` | the laps of timers through every form of a report | readings of the timers, the report; start, stop, parse, serialise, store, read, reduce |
| `ExperimentExchange` | upload, jobs and backend | experiments, programs and reports at the backend, the pass of an upload, a job per experiment; posts taken, timed out or broken, requests and answers lost, posts of errors refused, exceptions that are not retried, crashes |
| `ReportDownload` | `pull_reports.py` | files of reports, whole or torn; list, filter, open, write, abort, return |

`MCWidestPath`, `MCObliviousWidestPath`, `MCSplitMiner`, `MCMerge`, `MCHost` and
`MCKernels` give the parameters values and choose the inputs; `MinerSession` is
run directly. `MCMerge` runs the two merges, `MCKernels` the parts that share no
state with others, one part per initial state. The theorems are in
`WidestPathProofs`, `ObliviousWidestPathProofs`, `SplitMinerProofs` (and the comparison
with the reference), `MergeProofs`
(both merges), `MinerSessionProofs`, `NeonHandlerProofs` (networks, handlers, secrets)
and `KernelProofs` (pools, cache, exchange, download, analysis, laps, demultiplexers);
`EventLogProofs` holds the lemmas several of these need.

Composition: `SplitMiner` extends `LogRelations`, `EdgeFilter` and
`ConcurrencySanitizer`, which extend `EventLog`; `MinerEquivalence` extends
`SplitMiner` and instantiates `ReferenceMiner`; `ObliviousWidestPath`
instantiates `WidestPath`, and its MC module compares it with `EdgeFilter`;
`LeakingDfg` extends `QuickMerge` and `LogRelations`, and `MCMerge` both it and
`LogMerge`; `MCKernels` extends `PoolColoring`, `ProgramCache`, `ExperimentExchange`,
`ReportDownload`, `ProgramAnalysis`, `LapData`, `Demux` and `SecretState`; `NeonHandler` extends
`VirtualNetwork`, and is proved to implement it. `MinerSession` is the detail of
what `NeonHandler` does between launch and end of one computation of the miner.

Two abstractions run through all modules. Secret values are written as plain
values: what the parties compute on shares is what the modules compute, and what
a party may see is not modelled. And a case id is its truncated hash as a number:
two ids of equal hash are one case, as in the program.

Several modules hold an operator marked as a *mutant*, the definition after it
with one plausible mistake. No specification uses it; each property was seen to
fail when the mutant takes the place of the definition.

## 3. Runs

All runs end in a state without successor because the programs end;
`CHECK_DEADLOCK` is off for that reason.

| Run | Bounds | Properties |
|---|---|---|
| `MCWidestPath` | two activities, start and end; all graphs of frequencies 0 to 3 | `CapacityIsWidth`: at the end capacities are the widths of widest paths. `PredecessorRealisesCapacity`, `PredecessorsReachSource`: at every step the remembered arcs carry these capacities and connect |
| `MCObliviousWidestPath` | the same nodes, frequencies 0 to 2, all 24 permutations | `RunIsSearchInTheClear`: refinement. `VisitedSettled`: relaxing over all positions never changes a visited one. `ResultIsThePipelines`: the function `EdgeFilter` is built from |
| `MCSplitMiner` | three activities, two organizations, logs of one trace up to 6 events, two up to 4, three up to 3; epsilon 1/3; eta 0, 2/5, 1/2, 1 | `FilterKeepsWidths`, `EveryActivityOnPath`, `DisclosedPairsAreUnordered`, `WithheldConcurrencyIsVisible`; `MatchesReference`: agreement with the reference after each of the stages |
| `MCMerge` | radix: four events, two organizations, two case ids, one with the top bit, timestamps of 3 bits with and without the top bit. Quick: four rows in three cases, four rows of one case at all times of 3 bits, six rows in four cases; every shuffle, every key modulo 5 | `CasesContiguous`, `NothingLost`, `CasesInTimeOrder` (for timestamps that fit the bits and agree in the top one; events of equal time in the order of the parties). `LoopBoundsSuffice`: the stack holds and `2 n` turns are enough. `StartsMatchCases`: the boundaries found on ciphertexts are the cases. `EveryRoundSplits`: the sort by time makes progress in every round, equal times included. `MergesLikeRadixSort`, `GraphsAgree`: same promise as the oblivious path |
| `MCSession` | three parties, two experiments, one repetition; a party that may alter a payload; a client that may fail while connecting or building; models of both sizes | `ArtifactsInOrder`, `ReleasedAfterModel`, and `ConnectedRunIsReported` (liveness) |
| `MCHost` | two processes, two handlers, two tasks, one or two parties, both modes, three ids of which one occurs in the common prefix of names, one kill or failing command | `ChosenIdStaysFree`, `NetworksAreIntact`, `VirtualDelaysHold`, `HostIsLeftClean`, `HandlersEnd` (liveness) |
| `MCKernels` | pools: six nodes, two pools and the process pool, all graphs of up to four nodes, and graphs in which two activities tie for a distant gateway. Demultiplexers: lengths 2, 3, 4, 5, 8, 9, 12, words of 4 bits for 64, prime 17, every index, condition and coin. Analysis: three libraries with any imports, three lines on timers. Cache: two processes, three configurations (two moduli of one domain, and a ring), one edit, two turns. Secrets: primes 5 and 7, three or four parties, two computations. Exchange: two experiments, two pushes and three jobs but five of both, three passes for ten, two attempts for five, one edit, two faults. Download: three reports, three pulls. Laps: three of two timers | `NearestSeedWins`, `HandoffsAtPoolBoundaries`; `DemuxIsUnitVector`; `DependenciesAreComplete`, `NamedTimersAreFresh`; `UploadedIsWholeAndOfItsText`: what is uploaded is whole, of the text that was hashed and for its domain, as long as the hash is undisturbed (section 6); `ReconstructsUnderOnePrime`; `UploadsAsAsked`, `ReportsOfExpectedProgram`; `ProductOrError`: a job that ends left a product, an error or a refused error; `ListedReportsAreThere`; `LapsSurvive` |
| `MCFilterTies` | as `MCSplitMiner`, eta 2/5 | finding 1 below |
| `MCFixedOrder` | as `MCMerge` | finding 2 |
| `MCRepetitions` | two parties, two repetitions, no fault | finding 3 |
| `MCStaleModel` | two runs, no fault | finding 4 |
| `MCBridgeReuse` | as `MCHost` | finding 5 |

Every bound is a constant of its module; what the program itself bounds (passes,
attempts, ids, word size) is smaller in the runs than in the program and never
one.

Why the bounds are enough for the interesting cases: three activities give self
loops, short loops, triples *a b a*, pairs that are concurrent beside one that is
not, and an activity that concurrency cuts off; two organizations give a merged
case; four nodes give a path whose last arc is improved twice. Three timestamp
bits give a top bit that is a sign to the sort. Six rows in four cases fill the
stack with a left and a right range at once. Lengths 9 and 12 give a last word
that is unused and one that is partly used. Two experiments give files of an
earlier run. Three parties give one that has not accepted while another one
computes and a third is being visited by the client. Two processes are enough for
every race of the host, since each race the code admits is between one that tears
down and one that sets up; two parties give a namespace that is left while another
one is gone, and three ids a free one while one is in use and one is in the prefix.
Kills and failing commands are bounded together: one of them already leaves a
bridge behind, and with two no id would be free to draw. Two computations give a cache filled by an earlier one under another
number of parties or prime. Five pushes and jobs give a hash, a compilation and a
run of one experiment, and a push in between and after. Two faults are a lost answer
and a refused error of the same job. Two processes and two turns of the cache give one
that compiles, is killed or fails in the middle of a file, and one that finds the files,
then or at the same time.

## 4. Scheduling and fairness

**The session.** `MinerSession` has one location per process (`driver`, `party[p]`, `client`) and
channels per party (`link`, `toParty`, `toClient`). Driver: `Launch` starts the
parties and the hook's client, `AwaitClient` is `proc.wait()` without a look at
the exit status, `AwaitParties` and `Report` follow `__execute_smpc`. A party
listens, accepts, reads a flag, computes (only together with all others),
sends five artifacts, waits for a second flag and closes; per repetition all of it
again. The client visits the sockets in the order of the parties, compares what
it receives, saves drawing, flat and pooled model, and sends the second flag.
`Abort` is a party whose client or whose peer is gone; `Crash` a client that
fails while connecting or building.

Fairness: weak fairness of the driver, of each party and of the client. They are
operating-system processes that go on whenever no call blocks; nothing else is
assumed. `Crash` has no fairness, so a client may always, sometimes or never fail.
`ConnectedRunIsReported` starts where the client has connected to every party.
Before that the code has no timeout: a client that fails earlier leaves the
parties in `accept` and the driver waiting for them forever.

**The host.** A process of `NeonHandler` is in one phase of its handler and its
manager in one stage of a set-up or tear-down; a step is one command of the shell
or one method that touches no shared state. Threads that add namespaces or start
parties may do so in any order. `Raises` stands for every exception between the
beginning and the end of a computation, after which the exit handler cleans up;
`DeletionFails` leaves the rest of a tear-down to the next attempt, of which there
are three.

`HandlersEnd` needs that processes are scheduled and their commands return:
weak fairness of all steps of one process together, `WF_vars(Step(p))`. It
suffices although a process polls the lock and draws ids until one is free: the
lock is held only between two commands, and a model step succeeds when it can.
Nobody has to be killed and nothing has to fail. The property is about hosts on
which kills leave an id free; with all letters taken the loop in
`virtualnet.py:59-67` never ends.

The other modules have safety properties only: the exchange with the backend and
the download may be given up at any time, a compilation may be killed.

## 5. Findings

1. *The reference breaks ties differently* (`MCFilterTies`).
   `split_miner.py:376-378` prefers the highest index among nodes of equal
   capacity, `reference_split_miner.py:251-253` the first one of a dictionary.
   Best arcs and filtered graph then differ, while `src/README.md:90` says the
   reference "mirrors the computation of the protocols". From equal filtered
   graphs on, both agree (`SanitizationMatches`, a part of `MatchesReference`).
2. *fixed-event-order moves events that do not tie* (`MCFixedOrder`).
   `main.py:71-77` adds a counter over all logs to the timestamps;
   `neonik-project.yml:47` promises an order for identical timestamps.
3. *Repetitions wait for a second client* (`MCRepetitions`). Every repetition
   accepts a client (`socket_io.py:40`), the hook starts one (`main.py:108-115`).
4. *A report may carry an earlier run's drawing* (`MCStaleModel`). `main.py:117-134`
   takes the files it finds; a large model writes only one of three.
5. *An id is reused while its namespaces are still there* (`MCBridgeReuse`).
   Tear-down deletes the bridge first and takes no lock, and an id is free as soon
   as no bridge has it (`virtualnet.py:182-192, 263-272`). Another process then
   fails on `ip netns add`, which `virtualnet.py:47-48` says the lock prevents.
   `NetworksAreIntact`, `VirtualDelaysHold` and `HostIsLeftClean` therefore speak
   of runs in which this has not happened (`clash = "none"`).

Seen on the way, without a run of their own: an eta of 0.0 does not keep every
arc, since only best arcs are candidates (`neonik-project.yml:25`);
`sanitize_conc_matrix` calls an activity orphaned when it has no predecessor
(`split_miner.py:598-599`), the code when it is not reachable; with a single
activity `math.log2(0)` fails at `split_miner.py:646`; the weaker arc of a short
loop is kept where `split_miner.py:62-66` can be read otherwise;
the unbatched `DemuxKeller.demux` (`demux.py:92-95`) swaps the words of longer
vectors; `DemuxByComparison.demux` with a failed condition asks for a comparison
beyond its bit length (`demux.py:263-269`); `DemuxByPolynomials.demux_batch` uses `n`, not `n + 1`,
for a failed condition and sizes its tables by `n` instead of the number of indices
(`demux.py:343-369`); `build_clear_directly_follows_graph` misses the first start
and the last end (`dfg.py:127-138`). None of these is on the path the miner takes,
except the first four.

In the runtime: a circle of imports keeps `get_dependencies_for_program` going for ever
(`programhandler.py:413-432`; `DependenciesAreComplete` says that nothing else does); an
exception after a failed compilation looks for the files to delete at the path of the
MP-SPDZ directory with an absolute path appended (`programhandler.py:333-335`), where
nothing is, although `322` and `486-487` say that corrupt files are deleted; an output
that was being written when a compilation failed or was killed stays torn, and the next
process takes it for a compiled one, because the check asks for existence only
(`180-184`); a torn schedule raises an exception in `get_tape_names` (`151-156`) which
`check_program_update` does not catch, so that each later computation of the program
fails at once (`CheckRaises`); two processes may compile one hash at the same time, and
one empties files the other has checked and uploads (`85-117`, `210-218`); the hash has
the domain but not the modulus (`348`), so a program compiled for one prime is found
under another; libraries may be edited or replaced between hash and compiler, so
`UploadedIsWholeAndOfItsText` speaks of the program's text only; the status of the post
of an error is ignored (`internal_cli.py:440-446`), so a job whose error was refused
ends as if it were stored (`ProductOrError` names this case); coefficients cached for
one prime are used under another (`shamir.py:137`), which `ReconstructsUnderOnePrime`
excludes; a file of a report that was being written when a pull ended counts as that
report for ever (`script_utils.py:124-151`); in local mode a handler takes away the
delay of all others on the loopback interface; ids that occur in the common prefix of
names count as taken (`virtualnet.py:182-192`); `spec.py:354` tests a set that is never
filled.

## 6. Proofs

TLAPS checks about 22 000 obligations in eight modules. What TLC checks on a small
instance is proved there for every value of the constants, under these assumptions:

* searches: at least one node (`NAssumption`), the source is one of them
  (`SourceAssumption`), frequencies are naturals at most an `Infinity` above them all
  (`WeightAssumption`);
* miner: at least one activity and organization (`MAssumption`,
  `OrganizationsAssumption`), a threshold that is a fraction (`EpsilonAssumption`,
  `EtasAssumption`), and event tables no longer than `Infinity`, the number the code
  takes for it (`InfinityAssumption`, `EventTable`). For the comparison with the reference,
  the timestamps of a case agree in their highest bit (`ComparableTable`): the radix sort
  takes it for a sign and would order them otherwise than the reference;
* merges: at least one bit for case ids and timestamps (`BitsAssumption`), case ids that
  fit theirs; for the encryption a modulus above 2 (`PrimeAssumption`), one of the three
  degrees tried that has no common divisor with the modulus minus one (`DegreeAssumption`), any round constants
  (`RoundConstantsAssumption`). `PowerAssumption` is the piece of number theory that is
  not proved: such a power permutes the field. TLC evaluates it;
* session: at least one party and repetition, any set of parties that alter what they
  send, any faults among the two modelled;
* host: at least one party, natural bounds, and a `None` that is no id and no process
  (`NetAssumption`, `HandlerAssumption`);
* cache, exchange, download and pools: natural bounds, a `None` that is no value, a `Torn`
  that is no content of a whole file, two
  passes and one attempt at least, and pools that are numbers, as the code orders them
  (`CacheAssumption`, `ExchangeAssumption`, `DownloadAssumption`, `KAssumption`,
  `PoolAssumption`);
* secrets: moduli that are primes, stated by the inverses they give, larger than the number
  of parties and no divisor of a machine word; any such primes, numbers of parties and
  integer secrets (`StateAssumption`);
* analysis: finitely many library files, timers numbered by naturals (`AnalysisAssumption`);
* laps: a `None` that is no reading, lap or report (`LapAssumption`);
* demultiplexers: lengths of two and more, words of two to 64 bits, a modulus in which every
  number but zero has an inverse and which exceeds the lengths by more than one
  (`DemuxAssumption`).

Numbers of processes, ids, parties, handlers, kills, failures, edits, rows, activities
and nodes are arbitrary. None of the properties below is inductive as it stands; each
paragraph names the invariant that is.

**The search in the clear** (`WidestPathProofs`). That a settled node is final follows
only from the order of visits. `IInv` therefore has

* `TypeOK` and `SourceUnbounded`, the source keeps infinite capacity;
* `VisitedWidest`: no unsettled node is wider than a settled one;
* `VisitedRelaxed`: every arc out of a settled node has been offered;
* `CapacityHasPath`: a capacity is that of some path;
* `PredecessorRealisesCapacity` and `PredecessorsReachSource`.

`VisitedWidest` and `VisitedRelaxed` together make a settled capacity an upper
bound of every path, `CapacityHasPath` makes it attained. From
`SearchInvariant` follow `TypeCorrect`, `WidestPathsFound`, `PredecessorsRealise`
and `PredecessorsConnect`, for every graph and size.

**The search on shares** (`ObliviousWidestPathProofs`). `IInv` has `TypeOK`,
`RoundLeft` (the counter of rounds equals the number of visited positions, which is
why the loop visits every node and ends), `CurrentChosen` (the opened position
has the largest rank among the unvisited), `VisitedWidest` and `SourceUnbounded`.
`SettledPositions` proves that relaxing over all positions never changes a visited
one: an offer is at most the capacity of the current position, which is at most
that of a visited one. `PermutationInvisible` proves the refinement step by step:
`Relax` is `Visit` of the node behind the current position, `SelectNext` and
`RestoreOrder` are stutters, and the tie-break by original index makes the
visited node the one `SpecDescending` takes, whatever the permutation is.
`LoopIsTheFunction` compares the rounds with the function of `EdgeFilter`
(`ResultIsThePipelines`): after every round the capacities, predecessors and visited
nodes at the positions are those of the function's loop state (`SameRound`). The
next node is the same, since the rank alone, which has no ties, determines it.

**The miner's protocols** (`SplitMinerProofs`). `PipelineInv` says of each stage what
the stages before have left: the input is a table and the closure compiles
(`InputsOK`), the concurrency relation is symmetric (`RelationsOK`), the graph is split
at start and end (`GraphOK`), the kept arcs are those of the filter (`FilterOK`), and
what is opened is taken of these (`OpenedOK`). The four theorems are then about
operators. Every comparison of secret numbers is right at its bit length
(`ComparisonBits`, `LessThanIsRight`). The loop of a search keeps `SearchInv`, the
invariant of `WidestPathProofs` on the state of a round, so that the arcs of the
predecessors hold a widest path to every node; the filter keeps these arcs, so
`FilterKeepsWidths` holds for every eta. `ReachabilityIsWalks` shows that squaring the
relation as often as the code does gives all walks. What is not masked is reachable
both ways, hence `EveryActivityOnPath`; the two properties of the disclosed relation
follow from the symmetry of the concurrency relation.

**Protocols and reference** (`SplitMinerProofs`). The two never look alike inside: matrices
against dictionaries, two stable sorts against one sort by a key, masked comparisons against
plain ones. Each stage is therefore compared through what both compute of the table itself.
Both logs list the rows case by case in the order of time (`Listing`; `ProtocolLists`,
`ReferenceLists`), which fixes every count of successions, starts, ends and patterns
(`ListingCounts`, `ListingLoops`), though not the order of the cases. On equal counts the
masked comparison is the test of the reference, because no number leaves the bit length it is
compared at (`BalanceIsExact`), and the concurrency that the combined boundary index may show
has no effect on the pruned graph (`RelationsAgree`, `PrunedAgree`, `SameRelations`). The
threshold is computed by summing the steps between sorted values up to a rank; the sum is the
value the reference finds by its index (`StepsAreRanks`, `QuotaIsReached`, `MinimalIsRanked`,
`SameEtaArcs`). Names and direction do not change what leads to what (`NamedLeadsTo`,
`ConverseLeadsBack`), so orphans, reattached arcs and disclosed pairs are the same
(`SanitizedAgree`, `DisclosedAgree`). `MatchInv` adds to `PipelineInv` what each artifact of
either miner is as a function of the table (`ReferenceOK`, `ProtocolOK`), and `MinersMatch`
follows. The best arcs are not compared: they differ where capacities tie (section 5).

**The oblivious merge** (`MergeProofs`). `MergeInvariant` says what the table is at each
stage: the logs one after the other, these sorted by time, these sorted by case. Two
stable sorts are one order of the rows (`Merging`): by case, then time, then arrival.
`CasesStayTogether`, `MergeLosesNothing` and `MergedInTimeOrder` read the
three promises off that order, for any logs, with or without the fixed event order.

**The merge by quicksort** (`MergeProofs`).

* `LoopInvariant`: the ranges on the stack are disjoint and descending, and the turns
  taken and the rows in ranges that wait are together at most the number of rows.
  Every turn takes its pivot off the waiting rows, so the `2 n` turns of the bounded
  loop are enough and the stack never overflows (`LoopEnds`).
* `SortInvariant`: rows with their keys are a rearrangement of the table; two rows are
  in order unless both are in one range that waits; on the two sides of the pivot keys
  are as compared. At the end all are sorted (`QuickSorts`). The cipher is injective
  (from `PowerAssumption`), so boundaries of ciphertexts are those of cases
  (`StartsAreFound`).
* `PartitionInvariant`: the partitions lie in the table and its first row starts one. A
  round that is not the last splits some of them (`RoundsSplit`), whatever the results
  of the comparisons are, equal times included.
* `TimeInvariant`: rows of one case that a start of a partition divides are in the order
  of time, and when the rounds end every row is a partition (`RoundsSort`). It needs
  that the circuit a round chooses has at least as many comparisons as the round asks
  for, and that a comparison of timestamps of one sign is right.

Both merges then have the same rows of each case, in the order of time. Two such
sequences have the same times, and are equal where no two times are: `MergesAgree`.

**The graphs on that merge** (`MergeProofs`). `AllGraphsAgree`: every entry of the graphs of
`dfg.py`, whatever is disclosed to build it, is the number of its successions, firsts or
lasts (`FrequencyOf`). The disclosing constructions read cases off the starts, the
oblivious ones off the case ids of neighbours; `SortInvariant` and `StartsAreFound` say that these are the
same places, and markers fall outside of the demultiplexed indices.

**The session** (`MinerSessionProofs`), for any number of parties, runs and repetitions.
`OrderInv` counts: what is on the way from a party are the artifacts after those
the client has of it (`ChannelsInOrder`), the batch and what was accepted are genuine
unless altered by a party that may, and accepted only if all did (`BatchInOrder`,
`ReceivedInOrder`). It needs that a party computes once (`OneComputation`: the client
serves one repetition, see finding 3) and that no flag is ahead of the client
(`NoFlagYet`). `ReleaseInv`: a party that was released, or whose second flag is on its
way, is in a run whose model was written (`FinishedBeforeRelease`), parties end after
their last repetition (`Repeated`), and a report of success has the model of its own
run (`ReportsOK`).

**The networks of a host** (`NeonHandlerProofs`, first part). Three invariants, one on top of
the other.

* `LockInv`: types; `LockHeld`, a process has the lock from its request to the
  creation of its bridge; `IdChosen`. None of `ChosenIdStaysFree`'s parts is
  inductive without `LockHeld`: what excludes a second process in "adding" is that
  it would need the same lock. `LockStep` says once what a step of one process has
  to respect, so that each action is proved for its own process only.
* `IntactInv`, as long as nothing was disturbed: processes that hold a bridge have
  different ids (`Distinct`), and each has the bridge and the namespaces it does not
  mean to create any more (`Intact`, with the counts of a network that is being
  set up or extended). A deletion of another process then has another id.
* `AccountInv`, as long as nobody was killed either: every bridge and namespace
  belongs to a process that will delete it, what a process means to delete is there,
  so that no deletion fails, and the lock belongs to a process that chooses.

**The handlers** (`NeonHandlerProofs`, second part). `HandlerInv` relates phase, clients and
computing parties (`ClientsOK`) and these to the stage of the network
(`NetworkOK`): as many namespaces as parties before the first is launched, no
tear-down while there are clients, no manager without a handler. With it,
`HandlersUseTheNetwork` proves that the handlers implement `VirtualNetwork`: every
step is a step of one manager or leaves `netVars` alone. The theorems about
networks then hold of handlers; `DelaysHold` adds that another handler disables
delays of its own id only (`OthersKeepDelay`), and `HostLeftClean` that the loopback
interface is delayed only while a local handler has clients (`LoopbackUsed`).

**The secrets of a handler** (`NeonHandlerProofs`, last part). `StateInv`: what is cached for a
threshold is what would be computed with the prime it was cached under (`CacheFits`), and
between the computation and the reading the files of all parties hold the values of one
polynomial, whose last coefficient is what they share (`Shared`; a secret that is handed out
unshared is the constant polynomial). The step that matters is the reading. The coefficients
of the reconstruction are, modulo the prime, the signed binomials of the threshold
(`CoefficientIs`). A row of signed binomials times the powers of the places up to one less
than its length vanishes (`MomentsVanish`), so that of the combination of the shares only the
last coefficient is left (`CombineIsConstantTerm`), for every threshold below the prime. What
is written in Montgomery form is read back modulo the prime (`MontgomeryRoundTrip`), which
needs that the word has an inverse. Hence `SecretsAreReconstructed`. Its premise that the
cached coefficients are of the prime in use is not an invariant, see section 5.

**The compilation cache** (`KernelProofs`). The module records under each hash what may
leave a torn output (`disturbed`): a compilation that failed or was killed with an output
open, and a process that started to compile, or took the files for compiled, while
another one compiled. The property and most of the invariant are about hashes where
nothing of this has happened. Edits, copies of libraries by others, compilations of other
hashes, and failures and kills at any other point are not excluded, nor is a torn source,
which the compilation after it replaces. `CacheInv`: a text is under no hash but its own,
unless it is torn (`SourcesOfHash`), and so is what was compiled of it (`OutputsOfHash`);
who compiles is alone with the files of its hash (`Alone`); an output is torn only while
a process has it open (`TornHasWriter`); and what a process has written or seen is there,
whole, until it is done (`Working`, of `AtWork` and `Sees`). Without `Working` the check
before a compilation proves nothing about the upload after it, and without `Alone` it is
not kept, since another compiler would empty the files. Files of the working directory,
which the user edits, change in one step; a reader of a file another process has open
reads it torn.

**The exchange with the backend** (`KernelProofs`). `ExchangeInv` has two parts.
`UploadInv`: one post per experiment is under way, a second post is one for a failed
experiment, and every experiment is dropped, under way or answered (`Accounted`).
`JobsInv`: the program under a hash is of that version (`ProgramsOfHash`), and a job
has code, version and expected hash in the order that ties them (`JobInOrder`). What has
no product to send goes to its error without an attempt to send one, and the attempts end
in an error only if none was answered; a product beside an error therefore means that
an answer was lost (`ExchangeProductOrError`).
**The download** (`DownloadInv`): a file is torn exactly while it is written or if a pull
ended meanwhile, and what was listed has a file or is still to be opened.

**The pools** (`KernelProofs`). `PoolInv` says of the search (`Search`) that a pool that was
given is that of the nearest seed, of the smallest id among equals (`PoolsGiven`),
and that the queue is in the order of hops and seeds, everything in it between the
current node and its neighbours, and everything without a pool behind (`InOrder`).
When the queue is empty nothing is left that a seed reaches, and `Settled` holds:
`PoolsAreNearest`, for any graph. The collaboration has what was carried over, in
pools and between them as `HandoffsBetweenPools` says (`HandoffInv`).

**The analysis of a program** (`KernelProofs`). `SearchInv`: what was found is importable,
and imports nothing but what was found and the imports of the new files. The search
gives up after as many rounds as there are files; for `SearchFindsDependencies` it must not
do so early. Without a circle of imports, a new file imports fewer files, directly or not,
than there are rounds left (`Fewer`), since an import finds fewer files than the file that
imports it (`ImportFindsFewer`). `TimersAreFresh` follows the numbering line by line:
numbers start above all that are used and grow with every named timer.

**The laps of timers** (`KernelProofs`). `LapInv`: the laps of a timer are contiguous and the
last one ends at its present reading, and what a report holds is one of three forms: the
laps as measured, those whose first lap has lost its length (`Shortened`), or the compressed
ones, which are the same for both. Each form gives back the stops, because a stop is the
sum of the lengths before it and no gap is lost (`LapsOfReportsSurvive`).

**The demultiplexers** (`KernelProofs`). Each protocol has a closed form, shown to be the
one solution of its recursion. After `j` bits the vector is the unit vector of the `j`
lowest bits (`VectorsAreUnits`); the packed words hold one bit, at the position these
bits give, which doubling moves within a word and then between words (`PackedAreWords`);
a node of the product tree is the unit vector of its span of bits (`ProductsAreSpans`);
the polynomial of an entry is one at its own point, where every factor is cancelled by its
inverse, and zero at the others, where a factor vanishes (`LagrangeIsUnit`).
`DemuxesAgree` follows for every length and bit length, and for every condition but that
of the comparison, which is called without one. It is about the variants of section 2; the
three that are wrong (section 5) are left out.

How data is reasoned about. The prover cannot instantiate the library's induction
theorems, whose parameter is a predicate. `EventLogProofs` has them for sets instead: a
set of naturals that has a member has a least (`LeastElement`), and one that has zero and
with each number the next has all (`Induction`). A function defined by recursion is
handled by showing the values of its loop (`LoopRuns`) and that there is only one such
function. Its other lemmas are about powers of two, stable sorts, the k-th of a set of
positions, rearrangements, quotients and remainders.

TLC has checked the invariants on the instances of the runs before they were proved.

All safety invariants and action properties of the passing runs are theorems. Only
model-checked is liveness (`ConnectedRunIsReported`, `HandlersEnd`): fairness and ENABLED are
beyond the prover.

## 7. What is not modelled

* Layout, XML, drawing and parsing of files (pm4py and bpmn libraries); opaque steps of the client.
* AES circuits, shuffles, comparisons and sorts inside MP-SPDZ: external, taken
  by what they return at the width the code asks for. The compiler of MP-SPDZ and
  the backend are external too, modelled by how the code uses them.
* `find_best_incoming_edges_oram`, `find_sources_and_sinks`,
  `strip_start_and_end`: not called. `build_clear_directly_follows_graph`: see section 5.
* The distributed mode of the runtime (the same commands over ssh), the persistent
  volume for compiled programs (not called), `multi_bandwidth_measurements`,
  certificates, log folders, traffic capture.
* The numbers of a report other than laps: read from the text of an output and
  passed on. A reading of bytes is exact in `LapData`; the code's product of floats
  may lose one.
* Experiment specifications: validation of one document, without steps. Timers of the
  compiled program: constants by the time it runs. Configuration and operation modes:
  reading of settings.
* Plots, extraction of models, generation of experiments, wrappers of external
  programs, installation: no state an interleaving could disturb.

## 8. Plan

Done, in this order: search and its proofs; pipeline and reference; merge; session;
pools; disclosing merge; demultiplexers; networks and handlers of a host with their
proofs; compilation cache and analysis; secrets; laps; exchange and download; proofs of
pipeline, merges, session, cache, exchange, download and pools; proofs that the rounds on
shares are the pipeline's function, of analysis, laps and demultiplexers; proof that the
protocols match the reference; proof that secrets are reconstructed. Left are what section 7
lists and the two liveness properties, which stay with TLC.
