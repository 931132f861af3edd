---------------------------- MODULE VirtualNetwork ----------------------------
(***************************************************************************)
(* The virtual networks of the processes of one host (virtualnet.py).      *)
(* Every process has a bridge of its own, named by a one-letter id that is *)
(* drawn under a file lock, and one network namespace per party, named by  *)
(* the party's index and that id.  Creation of the bridge is under the     *)
(* lock; creation of the namespaces and tear-down, which deletes the       *)
(* bridge first and then the namespaces one by one, are not.               *)
(***************************************************************************)
EXTENDS Naturals, FiniteSets, Optional

CONSTANTS
  Procs,      \* the processes of the host
  Ids,        \* the ids a bridge may have, the 52 letters
  Prefix,     \* those of them that occur in "neon_bridge_", with which all names begin
  MaxParties, \* largest number of parties of a computation
  MaxFaults   \* bound: how many processes are killed, and commands fail for reasons
              \* outside the model, together

ASSUME NetAssumption ==
  /\ MaxParties \in Nat \ {0} /\ MaxFaults \in Nat
  /\ Prefix \subseteq Ids /\ None \notin Ids \cup Procs

VARIABLES
  bridges,    \* ids of the bridges of the host
  namespaces, \* its network namespaces, pairs of index and id
  lock,       \* the process that holds bridge_ID.lock
  net,        \* the manager of each process and the commands it still has to run
  clash,      \* history: an id was reused before its last network was gone, and a set-up failed of it
  kills, faults

netVars == <<bridges, namespaces, lock, net, clash, kills, faults>>

Party == 0 .. MaxParties - 1

\* The attributes of a manager, how far it is, what it has to do, and how many
\* attempts to tear its network down have failed.
Manager ==
  [stage : {"off", "locking", "choosing", "adding", "creating", "up", "failed", "bridge", "namespaces"},
   bridge_ID : Ids \cup {None}, bridge_active : BOOLEAN,
   active : 0 .. MaxParties, wanted : 0 .. MaxParties, todo : SUBSET Party, tries : 0 .. 2]

NoManager == [stage |-> "off", bridge_ID |-> None, bridge_active |-> FALSE,
              active |-> 0, wanted |-> 0, todo |-> {}, tries |-> 0]

NetTypeOK ==
  /\ bridges \subseteq Ids
  /\ namespaces \subseteq Party \X Ids
  /\ lock \in Procs \cup {None}
  /\ net \in [Procs -> Manager]
  /\ clash \in {"none", "reused", "collided"} /\ kills \in 0 .. MaxFaults /\ faults \in 0 .. MaxFaults

NetInit ==
  /\ bridges = {} /\ namespaces = {} /\ lock = None
  /\ net = [p \in Procs |-> NoManager]
  /\ clash = "none" /\ kills = 0 /\ faults = 0

Own(p, S) == {i \in S : <<i, net[p].bridge_ID>> \in namespaces}
Fault == kills + faults < MaxFaults /\ faults' = faults + 1

(***************************************************************************)
(* Set-up                                                                  *)
(***************************************************************************)

\* The namespaces that are there already are kept.
setup_network(p, n) ==
  /\ net[p].stage \in {"off", "up"}
  /\ net' = [net EXCEPT ![p].stage  = IF net[p].bridge_active THEN "creating" ELSE "locking",
                        ![p].wanted = n,
                        ![p].todo   = {i \in Party : net[p].active <= i /\ i < n}]
  /\ UNCHANGED <<bridges, namespaces, lock, clash, kills, faults>>

\* Mutant: the lock is not asked for.
AcquireAnyway(p) ==
  /\ net[p].stage = "locking"
  /\ lock' = p
  /\ net' = [net EXCEPT ![p].stage = "choosing"]
  /\ UNCHANGED <<bridges, namespaces, clash, kills, faults>>

\* flock without blocking, tried until it succeeds.
AcquireLock(p) ==
  /\ net[p].stage = "locking" /\ lock = None
  /\ lock' = p
  /\ net' = [net EXCEPT ![p].stage = "choosing"]
  /\ UNCHANGED <<bridges, namespaces, clash, kills, faults>>

\* Letters are drawn until no name of a bridge contains one, in its beginning or as
\* its id; namespaces do not count.
is_ID_taken(id) == bridges # {} /\ id \in bridges \cup Prefix

ChooseId(p) ==
  /\ net[p].stage = "choosing"
  /\ \E id \in Ids : ~is_ID_taken(id) /\ net' = [net EXCEPT ![p].stage = "adding", ![p].bridge_ID = id]
  /\ UNCHANGED <<bridges, namespaces, lock, clash, kills, faults>>

\* Mutant: the file stays locked.
KeepLock(p) == lock

Unlocked(p) == IF lock = p THEN None ELSE lock

\* Another process has not finished with the id, or died with it.
InUse(p) ==
  \/ Own(p, Party) # {}
  \/ \E q \in Procs \ {p} : net[q].bridge_ID = net[p].bridge_ID

AddBridge(p) ==
  /\ net[p].stage = "adding"
  /\ bridges' = bridges \cup {net[p].bridge_ID}
  /\ net' = [net EXCEPT ![p].stage = "creating", ![p].bridge_active = TRUE]
  /\ lock' = Unlocked(p)
  /\ clash' = IF clash = "none" /\ InUse(p) THEN "reused" ELSE clash
  /\ UNCHANGED <<namespaces, kills, faults>>

\* A command that fails, the first or a later one, is only logged: the id stays
\* chosen, and the namespaces are set up all the same.
BridgeFails(p) ==
  /\ net[p].stage = "adding" /\ Fault
  /\ bridges' \in {bridges, bridges \cup {net[p].bridge_ID}}
  /\ net' = [net EXCEPT ![p].stage = "creating"]
  /\ lock' = Unlocked(p)
  /\ UNCHANGED <<namespaces, clash, kills>>

\* One thread per namespace, in any order.
AddNamespace(p, i) ==
  /\ net[p].stage = "creating" /\ i \in net[p].todo
  /\ net[p].bridge_ID \in bridges /\ i \notin Own(p, {i})
  /\ namespaces' = namespaces \cup {<<i, net[p].bridge_ID>>}
  /\ net' = [net EXCEPT ![p].todo = @ \ {i}]
  /\ UNCHANGED <<bridges, lock, clash, kills, faults>>

\* The namespace exists, or there is no bridge to join its interface to; other
\* threads may have come to their end before the pool is stopped.
NamespaceFails(p, i) ==
  /\ net[p].stage = "creating" /\ i \in net[p].todo
  /\ LET exists == i \in Own(p, {i})
         others == net[p].todo \ {i}
     IN  /\ exists \/ net[p].bridge_ID \notin bridges
         /\ \E done \in SUBSET (others \ Own(p, others)) :
              namespaces' = namespaces \cup {<<j, net[p].bridge_ID>> : j \in done \cup {i}}
         /\ clash' = IF exists THEN "collided" ELSE clash
  /\ net' = [net EXCEPT ![p].stage = "failed", ![p].todo = {}]
  /\ UNCHANGED <<bridges, lock, kills, faults>>

\* Every new namespace pings all the others: nothing to do if there are none.
Reachable(p) ==
  \/ net[p].wanted <= net[p].active \/ net[p].wanted = 1
  \/ /\ net[p].bridge_active /\ net[p].bridge_ID \in bridges
     /\ Own(p, 0 .. net[p].wanted - 1) = 0 .. net[p].wanted - 1

CheckNetwork(p) ==
  /\ net[p].stage = "creating" /\ net[p].todo = {}
  /\ net' = IF Reachable(p)
            THEN [net EXCEPT ![p].stage = "up",
                             ![p].active = IF @ < net[p].wanted THEN net[p].wanted ELSE @]
            ELSE [net EXCEPT ![p].stage = "failed"]
  /\ UNCHANGED <<bridges, namespaces, lock, clash, kills, faults>>

(***************************************************************************)
(* Tear-down: by __final_cleanup, and while that raises by the __del__ of  *)
(* the handler and that of the manager                                     *)
(***************************************************************************)

\* Mutant: every network found on the host is taken for one's own.
ListAll(p) ==
  /\ net[p].stage \in {"up", "failed"}
  /\ \E id \in bridges \cup {net[p].bridge_ID} :
       net' = [net EXCEPT ![p].stage = IF id \in bridges THEN "bridge" ELSE "namespaces",
                          ![p].bridge_ID = id,
                          ![p].todo = {i \in Party : <<i, id>> \in namespaces}]
  /\ UNCHANGED <<bridges, namespaces, lock, clash, kills, faults>>

\* ip link list and ip netns list, before the first deletion.
ListOwn(p) ==
  /\ net[p].stage \in {"up", "failed"}
  /\ net' = [net EXCEPT ![p].stage = IF net[p].bridge_ID \in bridges THEN "bridge" ELSE "namespaces",
                        ![p].todo  = Own(p, Party)]
  /\ UNCHANGED <<bridges, namespaces, lock, clash, kills, faults>>

\* A deletion that fails ends the attempt and leaves the rest.
DeletionFails(p) ==
  LET m == net[p] IN
  net' = [net EXCEPT ![p] = IF m.tries = 2 THEN NoManager
                            ELSE [m EXCEPT !.stage = "failed", !.todo = {}, !.tries = m.tries + 1]]

DeleteBridge(p) ==
  /\ net[p].stage = "bridge"
  /\ IF net[p].bridge_ID \in bridges
     THEN net' = [net EXCEPT ![p].stage = "namespaces"]
     ELSE DeletionFails(p)
  /\ bridges' = bridges \ {net[p].bridge_ID}
  /\ UNCHANGED <<namespaces, lock, clash, kills, faults>>

DeleteNamespace(p) ==
  /\ net[p].stage = "namespaces"
  /\ \E i \in net[p].todo :
       /\ IF i \in Own(p, {i})
          THEN net' = [net EXCEPT ![p].todo = @ \ {i}]
          ELSE DeletionFails(p)
       /\ namespaces' = namespaces \ {<<i, net[p].bridge_ID>>}
  /\ UNCHANGED <<bridges, lock, clash, kills, faults>>

Forget(p) ==
  /\ net[p].stage = "namespaces" /\ net[p].todo = {}
  /\ net' = [net EXCEPT ![p] = NoManager]
  /\ UNCHANGED <<bridges, namespaces, lock, clash, kills, faults>>

\* SIGKILL: the system frees the lock, bridge and namespaces stay for ever.
KillNetwork(p) ==
  /\ kills + faults < MaxFaults /\ kills' = kills + 1
  /\ net' = [net EXCEPT ![p] = NoManager]
  /\ lock' = Unlocked(p)
  /\ UNCHANGED <<bridges, namespaces, clash, faults>>

SetupStep(p) ==
  \/ AcquireLock(p) \/ ChooseId(p) \/ AddBridge(p) \/ BridgeFails(p) \/ CheckNetwork(p)
  \/ \E i \in Party : AddNamespace(p, i) \/ NamespaceFails(p, i)
CleanStep(p) == DeleteBridge(p) \/ DeleteNamespace(p) \/ Forget(p)

NetNext ==
  \E p \in Procs : \/ \E n \in 1 .. MaxParties : setup_network(p, n)
                   \/ SetupStep(p) \/ ListOwn(p) \/ CleanStep(p) \/ KillNetwork(p)

NetSpec == NetInit /\ [][NetNext]_netVars

(***************************************************************************)
(* Properties                                                              *)
(***************************************************************************)

\* Between the choice of an id and the creation of its bridge nobody else
\* creates that bridge, so that two processes never choose the same id at the
\* same time (virtualnet.py:52-100).
ChosenIdStaysFree ==
  \A p \in Procs : net[p].stage = "adding" =>
    /\ lock = p
    /\ net[p].bridge_ID \notin bridges

\* As long as no bridge has failed and no id was taken before the last network of
\* that id was gone, a network that is up has its bridge and all its namespaces and
\* shares its id with no other, whatever others create, delete or leave behind.
NetworksAreIntact ==
  (clash = "none" /\ faults = 0) => \A p \in Procs : net[p].stage = "up" =>
    /\ net[p].bridge_ID \in bridges
    /\ Own(p, 0 .. net[p].active - 1) = 0 .. net[p].active - 1
    /\ \A q \in Procs \ {p} : net[q].stage = "up" => net[q].bridge_ID # net[p].bridge_ID

\* What the comment at virtualnet.py:47-48 says the lock is there to prevent:
\* a process that uses an id while its network still exists.
SetupNeverCollides == clash # "collided"
===============================================================================
