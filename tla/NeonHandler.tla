----------------------------- MODULE NeonHandler -----------------------------
(***************************************************************************)
(* The processes of one host that run secure computations, each through a  *)
(* handler (neonhandler.py) with one client per party (MPSPDZClient.py).   *)
(* A handler compiles the program, sets up or keeps its network, launches  *)
(* the parties under an artificial delay, waits for them one after the     *)
(* other, may measure the network in between, and at its end removes what  *)
(* it set up.  The handlers share the bridges and namespaces of            *)
(* VirtualNetwork and, in local mode, the loopback interface.              *)
(*                                                                         *)
(* The parties themselves are external and come to their end; compilation  *)
(* is the subject of ProgramCache, the files of the parties that of        *)
(* SecretState.                                                            *)
(***************************************************************************)
EXTENDS VirtualNetwork

CONSTANTS
  Modes,        \* the modes of operation in use, of "LOCAL" and "LOCAL_VIRTUAL"
  MaxHandlers,  \* bound: how many handlers are created in all
  MaxTasks      \* bound: how many computations and measurements are begun in all

ASSUME HandlerAssumption ==
  /\ Modes \subseteq {"LOCAL", "LOCAL_VIRTUAL"}
  /\ MaxHandlers \in Nat /\ MaxTasks \in Nat

VARIABLES
  handler,      \* the handler of each process
  handlers,     \* how many were created
  tasks,        \* how many computations and measurements were begun
  lo_delay,     \* the loopback interface has a queueing discipline
  veth_delays   \* the interfaces of namespaces that have one

handlerVars == <<handler, handlers, tasks, lo_delay, veth_delays>>
vars == <<netVars, handlerVars>>

Task == {"smpc", "measure_delay", "measure_bandwidth"}

\* What the handler of a process has, and where in its methods it is.
Handler ==
  [phase : {"none", "idle", "compile", "reset", "network", "launch", "running", "cleanup"},
   mode : Modes \cup {None}, task : Task \cup {None}, n_parties : 0 .. MaxParties,
   clients : SUBSET Party, waiting : SUBSET Party, computing : SUBSET Party]

NoHandler == [phase |-> "none", mode |-> None, task |-> None,
              n_parties |-> 0, clients |-> {}, waiting |-> {}, computing |-> {}]

TypeOK ==
  /\ NetTypeOK
  /\ handler \in [Procs -> Handler]
  /\ handlers \in 0 .. MaxHandlers /\ tasks \in 0 .. MaxTasks
  /\ lo_delay \in BOOLEAN /\ veth_delays \subseteq namespaces

Init ==
  /\ NetInit
  /\ handler = [p \in Procs |-> NoHandler] /\ handlers = 0 /\ tasks = 0
  /\ lo_delay = FALSE /\ veth_delays = {}

Virtual(p) == handler[p].mode = "LOCAL_VIRTUAL"
Clients(p) == 0 .. handler[p].n_parties - 1
Interface(p, i) == <<i, net[p].bridge_ID>>
Goto(p, from, to) ==
  /\ handler[p].phase = from /\ handler' = [handler EXCEPT ![p].phase = to]
  /\ UNCHANGED <<handlers, tasks>>
HostUnchanged == UNCHANGED <<netVars, lo_delay, veth_delays>>

\* __init__, set_number_of_parties, set_network.  The lock that would keep a second
\* handler out is commented out; a manager without an id finds nothing to clean.
NewHandler(p) ==
  /\ handler[p].phase = "none" /\ net[p] = NoManager
  /\ handlers < MaxHandlers /\ handlers' = handlers + 1
  /\ \E m \in Modes, n \in 1 .. MaxParties :
       handler' = [handler EXCEPT ![p] = [NoHandler EXCEPT !.phase = "idle", !.mode = m, !.n_parties = n]]
  /\ UNCHANGED <<netVars, tasks, lo_delay, veth_delays>>

Begin(p, task, phase) ==
  /\ handler[p].phase = "idle"
  /\ tasks < MaxTasks /\ tasks' = tasks + 1
  /\ handler' = [handler EXCEPT ![p].phase = phase, ![p].task = task]
  /\ UNCHANGED handlers

smpc(p) == Begin(p, "smpc", "compile") /\ HostUnchanged

\* Delay or all bandwidths at once, on the network that is there.
measure_delay(p) ==
  /\ handler[p].n_parties > 1
  /\ Begin(p, "measure_delay", "compile") /\ HostUnchanged

\* On a fresh network.
measure_bandwidth(p) ==
  /\ handler[p].n_parties > 1
  /\ Begin(p, "measure_bandwidth", "reset")
  /\ IF net[p].stage = "up" THEN ListOwn(p) ELSE UNCHANGED netVars
  /\ UNCHANGED <<lo_delay, veth_delays>>

\* compile for a computation, then __create_clients and setup_network.
create_clients(p) ==
  /\ handler[p].phase \in {"compile", "reset"} /\ (handler[p].phase = "reset" => net[p] = NoManager)
  /\ handler' = [handler EXCEPT ![p].clients = Clients(p),
                   ![p].waiting = IF handler[p].task = "smpc" THEN Clients(p)
                                  ELSE IF Virtual(p) THEN {0, 1} ELSE {0},
                   ![p].phase = IF Virtual(p) THEN "network" ELSE "launch"]
  /\ IF Virtual(p) THEN setup_network(p, handler[p].n_parties) ELSE UNCHANGED netVars
  /\ UNCHANGED <<handlers, tasks, lo_delay, veth_delays>>

SetUp(p) ==
  /\ handler[p].phase = "network"
  /\ SetupStep(p)
  /\ UNCHANGED handlerVars

\* configure_namespace of every client; a computation uploads program and inputs.
prepare_virtual_networks(p) ==
  /\ net[p].stage = "up" /\ Goto(p, "network", "launch") /\ HostUnchanged

\* enable_latency: a discipline that is there already stays, and an interface that is
\* gone gets none.  In local mode only the first party has to.
enable_latency(p, i) ==
  IF Virtual(p)
  THEN veth_delays' = veth_delays \cup ({Interface(p, i)} \cap namespaces) /\ UNCHANGED lo_delay
  ELSE lo_delay' = (lo_delay \/ i = 0) /\ UNCHANGED veth_delays

\* The parties are started by a pool of threads, in any order.
start_computation(p, i) ==
  /\ handler[p].phase = "launch" /\ i \in handler[p].waiting
  /\ handler' = [handler EXCEPT ![p].waiting = @ \ {i}, ![p].computing = @ \cup {i},
                                ![p].phase = IF handler[p].waiting = {i} THEN "running" ELSE @]
  /\ enable_latency(p, i)
  /\ UNCHANGED <<netVars, handlers, tasks>>

\* Mutant: the delay goes when the first party has finished.
DisableAll(p, i) ==
  IF Virtual(p)
  THEN veth_delays' = veth_delays \ {Interface(p, j) : j \in Party} /\ UNCHANGED lo_delay
  ELSE lo_delay' = (lo_delay /\ i # 0) /\ UNCHANGED veth_delays

disable_latency(p, i) ==
  IF Virtual(p)
  THEN veth_delays' = veth_delays \ {Interface(p, i)} /\ UNCHANGED lo_delay
  ELSE lo_delay' = (lo_delay /\ i # 0) /\ UNCHANGED veth_delays

\* The handler waits for the parties in the order of their ids.
finish_computation(p) ==
  /\ handler[p].phase = "running" /\ handler[p].computing # {}
  /\ LET i == CHOOSE k \in handler[p].computing : \A j \in handler[p].computing : k <= j
     IN  /\ handler' = [handler EXCEPT ![p].computing = @ \ {i}]
         /\ disable_latency(p, i)
  /\ UNCHANGED <<netVars, handlers, tasks>>

\* Mutant: a client is deleted without a word.
KeepDelay(p, C) == UNCHANGED <<lo_delay, veth_delays>>

\* The deletion of a client disables its delay again, in local mode whoever's it is.
DelayOfClients(p, C) ==
  IF Virtual(p)
  THEN veth_delays' = veth_delays \ {Interface(p, i) : i \in C} /\ UNCHANGED lo_delay
  ELSE lo_delay' = (lo_delay /\ C = {}) /\ UNCHANGED veth_delays

\* The report, and the end of the clients.
EndTask(p) ==
  /\ handler[p].phase = "running" /\ handler[p].computing = {}
  /\ DelayOfClients(p, handler[p].clients)
  /\ handler' = [handler EXCEPT ![p].phase = "idle", ![p].task = None, ![p].clients = {}]
  /\ UNCHANGED <<netVars, handlers, tasks>>

\* An exception ends the process, whose exit handler cleans up: compilation fails, the
\* number of parties is wrong, the network cannot be set up or torn down, an upload,
\* the post-launch hook or the parsing of an output fails.
Raises(p) ==
  /\ handler[p].phase \in {"compile", "reset", "network", "launch", "running"}
  /\ handler[p].phase \in {"reset", "network"} => net[p].stage = "failed"
  /\ Goto(p, handler[p].phase, "cleanup") /\ HostUnchanged

close(p) == Goto(p, "idle", "cleanup") /\ HostUnchanged

\* __network_cleanup: first the clients that are left, then the network.
DeleteClients(p) ==
  /\ handler[p].phase = "cleanup" /\ handler[p].clients # {}
  /\ handler' = [handler EXCEPT ![p].clients = {}, ![p].waiting = {}, ![p].computing = {}]
  /\ DelayOfClients(p, handler[p].clients)
  /\ UNCHANGED <<netVars, handlers, tasks>>

tear_down_namespaces(p) ==
  /\ handler[p].phase = "cleanup" /\ handler[p].clients = {}
  /\ ListOwn(p)
  /\ UNCHANGED handlerVars

\* An interface goes with its namespace.
TearDown(p) ==
  /\ handler[p].phase \in {"reset", "cleanup"}
  /\ CleanStep(p)
  /\ veth_delays' = veth_delays \cap namespaces'
  /\ UNCHANGED <<handler, handlers, tasks, lo_delay>>

final_cleanup(p) ==
  /\ handler[p].phase = "cleanup" /\ handler[p].clients = {} /\ net[p] = NoManager
  /\ handler' = [handler EXCEPT ![p] = NoHandler]
  /\ HostUnchanged /\ UNCHANGED <<handlers, tasks>>

Kill(p) ==
  /\ handler[p].phase # "none"
  /\ KillNetwork(p)
  /\ handler' = [handler EXCEPT ![p] = NoHandler]
  /\ UNCHANGED <<handlers, tasks, lo_delay, veth_delays>>

Step(p) ==
  \/ NewHandler(p) \/ smpc(p) \/ measure_delay(p) \/ measure_bandwidth(p) \/ create_clients(p)
  \/ SetUp(p) \/ prepare_virtual_networks(p)
  \/ \E i \in Party : start_computation(p, i)
  \/ finish_computation(p) \/ EndTask(p) \/ Raises(p) \/ close(p)
  \/ DeleteClients(p) \/ tear_down_namespaces(p) \/ TearDown(p) \/ final_cleanup(p)

Next == \E p \in Procs : Step(p) \/ Kill(p)

\* The processes are scheduled and their commands return; nobody has to kill them.
Spec == Init /\ [][Next]_vars /\ \A p \in Procs : WF_vars(Step(p))

(***************************************************************************)
(* Properties                                                              *)
(***************************************************************************)

\* A party that computes on a virtual network does so under the delay that was asked
\* for, from its launch until it has finished, whatever other parties and handlers
\* start, finish or tear down, as long as no bridge failed and no id was reused
\* (neonhandler.py:788-795, MPSPDZClient.py:339-345, 388-393).
VirtualDelaysHold ==
  (clash = "none" /\ faults = 0) =>
    \A p \in Procs : Virtual(p) => \A i \in handler[p].computing : Interface(p, i) \in veth_delays

\* When all handlers have ended, by themselves or by an exception at any stage, the
\* host has no bridge, namespace or delay of theirs left (neonhandler.py:921-934).
HostIsLeftClean ==
  (kills = 0 /\ faults = 0 /\ clash = "none" /\ \A p \in Procs : handler[p].phase = "none") =>
    bridges = {} /\ namespaces = {} /\ lock = None /\ ~lo_delay /\ veth_delays = {}

\* Every handler comes to its end, also when it waits for the lock or for a free id
\* and when others are killed, as long as they leave an id free.
HandlersEnd == \A p \in Procs : handler[p].phase # "none" ~> handler[p].phase = "none"
===============================================================================
